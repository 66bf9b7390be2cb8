------------------------------- MODULE Client -------------------------------
(***************************************************************************)
(* The client's half of an NNTP conversation: Connection's framing and     *)
(* Client's methods, with the connector and the session set-up that run    *)
(* them when a connection is opened.  A method sends a command and waits;  *)
(* reading the status line, each line of a block and every way a read can  *)
(* fail are steps of their own, so the network and a cancellation fall     *)
(* between any two of them.                                                *)
(***************************************************************************)
EXTENDS Wire, FiniteSets

VARIABLES
    profile,         \* how to reach the server, the credentials and the limits
    client,          \* the Client, its Connection included; NoClient before Dial
    call,            \* the method in progress and what it is waiting for
    outcome,         \* what the last method returned
    cancel,          \* the shared cancellation flag
    c2s, s2c,        \* what is on its way to the server, and back
    closed,          \* the server has closed its end
    lost             \* some read on this connection has failed

clientVars == <<profile, client, call, outcome, cancel, c2s, s2c, closed, lost>>

-----------------------------------------------------------------------------
(* ClientError: which errors mean the connection is finished, and which a  *)
(* status line stands for.                                                 *)

FatalErrors == {"Io", "ConnectionClosed", "Timeout", "Proto", "LineTooLong",
                "BlockTooLarge", "Cancelled", "Tls"}

ServerErrors == {"UnexpectedResponse", "AuthenticationRequired", "AuthenticationRejected",
                 "PlaintextAuthenticationRefused", "NoSuchGroup", "NoGroupSelected",
                 "NoSuchArticle", "CommandNotSupported", "Server", "PostingNotAllowed",
                 "PostingRejected"}

IsConnectionFatal(result) == result \in FatalErrors

FromStatus(code) ==
    CASE code = 480 -> "AuthenticationRequired"
      [] code \in {481, 482} -> "AuthenticationRejected"
      [] code = 411 -> "NoSuchGroup"
      [] code = 412 -> "NoGroupSelected"
      [] code \in {420, 423, 430} -> "NoSuchArticle"
      [] code \in {500, 503} -> "CommandNotSupported"
      [] OTHER -> "Server"

-----------------------------------------------------------------------------
(* State.                                                                  *)

NoSummary == [name |-> NoGroup, low |-> 1, high |-> 0, count |-> 0]

NoClient == [up |-> FALSE]

\* with_options and from_parts: everything but the greeting starts over.
NewClient(posting_allowed, encrypted) ==
    [up |-> TRUE, posting_allowed |-> posting_allowed, capabilities |-> {},
     encrypted |-> encrypted, authenticated |-> FALSE, group |-> NoSummary,
     overview_fmt |-> "unknown", overview_style |-> "Unknown",
     header_style |-> "Unknown", desynchronised |-> FALSE]

Idle == [method |-> "idle", step |-> "idle", cmd |-> Command("", NoArg), arg |-> NoArg,
         reading |-> "nothing", got |-> <<>>]

IsIdle == call.method = "idle"

Reading == call.reading \in {"status", "block"}

Has(label) == label \in client.capabilities

\* The method goes on to its next exchange.  A connection that lost its place
\* refuses to send (ensure_synchronised), which is an error like any other.
Say(c, method, step, cmd, arg) ==
    /\ client' = c
    /\ call' = [method |-> method, step |-> step, cmd |-> cmd, arg |-> arg,
                reading |-> IF c.desynchronised THEN "refused" ELSE "status", got |-> <<>>]
    /\ c2s' = IF c.desynchronised THEN c2s ELSE Append(c2s, cmd)
    /\ UNCHANGED outcome

\* A session that cannot be opened leaves no client behind.  doctor alone goes on
\* after a login that failed.
KeptAfter(result) ==
    \/ call.method # "connect" \/ result = "Ok"
    \/ /\ profile.probing
       /\ call.step \in {"user", "pass"} \/ result = "PlaintextAuthenticationRefused"

Return(c, result) ==
    /\ client' = IF KeptAfter(result) THEN c ELSE NoClient
    /\ call' = Idle
    /\ outcome' = [method |-> call.method, cmd |-> call.cmd, result |-> result]
    /\ UNCHANGED c2s

\* A method that fails its own checks returns before anything is sent.
Refuse(method, result) ==
    /\ outcome' = [method |-> method, cmd |-> Command("", NoArg), result |-> result]
    /\ UNCHANGED <<client, call, c2s>>

Local == UNCHANGED <<profile, cancel, s2c, closed, lost>>

-----------------------------------------------------------------------------
(* Opening a session: connector::connect, then handshake, then the         *)
(* credentials.  One failed step and there is no client.                   *)

AskCapabilities(c, step) ==
    Say(c, "connect", step, Command("CAPABILITIES", NoArg), NoArg)

Handshake(c) == AskCapabilities(c, "handshake")

EnterReaderMode(c) == Say(c, "connect", "mode", Command("MODE", ReaderMode), NoArg)

AskUser(c) ==
    Say(c, "connect", "user", Command("AUTHINFO", [half |-> "USER", value |-> profile.user]),
        NoArg)

AskPass(c) ==
    Say(c, "connect", "pass", Command("AUTHINFO", [half |-> "PASS", value |-> profile.pass]),
        NoArg)

\* Mutant: the profile is asked instead of the connection.
AuthenticateByProfile(c) ==
    IF profile.user = "nobody" THEN Return(c, "Ok")
    ELSE IF profile.security = "Plain" /\ profile.pass = "nobody" /\ ~profile.allow_plaintext
    THEN Return(c, "PlaintextAuthenticationRefused")
    ELSE AskUser(c)

\* authenticate(), up to its first command.
Authenticate(c) ==
    IF profile.user = "nobody" THEN Return(c, "Ok")
    ELSE IF ~c.encrypted /\ ~profile.allow_plaintext
    THEN Return(c, "PlaintextAuthenticationRefused")
    ELSE AskUser(c)

\* handshake() after its first capability list.
NeedsModeReader(c) ==
    \/ c.capabilities = {}
    \/ "MODE-READER" \in c.capabilities /\ "READER" \notin c.capabilities

AfterHandshake(c) == IF NeedsModeReader(c) THEN EnterReaderMode(c) ELSE Authenticate(c)

\* upgrade_with_starttls, after the capability list read in the clear.
OfferStartTls(c) ==
    IF c.capabilities # {} /\ "STARTTLS" \notin c.capabilities THEN Return(c, "Tls")
    ELSE Say(c, "connect", "starttls", Command("STARTTLS", NoArg), NoArg)

AfterCapabilities(c) ==
    CASE call.step = "handshake" -> AfterHandshake(c)
      [] call.step = "again"     -> Authenticate(c)
      [] call.step = "clear"     -> OfferStartTls(c)
      [] call.step = "upgraded"  -> Handshake(c)
      [] call.step = "relisted"  -> Return(c, "Ok")

AfterGreeting(c) ==
    IF profile.security = "StartTls" THEN AskCapabilities(c, "clear") ELSE Handshake(c)

\* Mutant: the capability list read in the clear is kept.
HandshakenKnowing == AskCapabilities([client EXCEPT !.encrypted = TRUE], "upgraded")

\* The client after the TLS handshake: a new connection, and from_parts keeps the
\* greeting alone.
Handshaken == AskCapabilities(NewClient(client.posting_allowed, TRUE), "upgraded")

-----------------------------------------------------------------------------
(* The methods, up to the command they send.                               *)

GroupSelected == client.group.name # NoGroup

NeedsGroup(target) == target.by # "id"

Ask(method, cmd, arg) == Say(client, method, method, cmd, arg)

SelectGroup(name) == Ask("select_group", Command("GROUP", Named(name)), NoArg)

List(method, keyword, pattern) ==
    Ask(method, Command("LIST", [keyword |-> keyword, pattern |-> pattern]), NoArg)

ListGroups(pattern) == List("list_groups", "ACTIVE", pattern)

ListGroupDescriptions(pattern) == List("list_group_descriptions", "NEWSGROUPS", pattern)

GroupCreationTimes(pattern) == List("group_creation_times", "ACTIVE.TIMES", pattern)

AvailableHeaderFields == List("available_header_fields", "HEADERS", NoPattern)

\* resolve_overview_style
OverviewStyle(c) ==
    IF c.overview_style # "Unknown" THEN c.overview_style
    ELSE IF "OVER" \in c.capabilities THEN "Over"
    ELSE IF c.capabilities # {} THEN "XOver"
    ELSE "Unknown"

\* overview_streaming, up to its command; also where it starts over after a
\* refusal of OVER.
OverviewStreaming(c, range) ==
    CASE OverviewStyle(c) = "XOver" ->
            Say(c, "overview", "overview", Command("XOVER", range), range)
      [] OverviewStyle(c) \in {"Over", "Unknown"} ->
            Say(c, "overview", "overview", Command("OVER", range), range)

AskOverviewFmt(method, range) ==
    Say(client, method, "format",
        Command("LIST", [keyword |-> "OVERVIEW.FMT", pattern |-> NoPattern]), range)

OverviewFormat ==
    IF client.overview_fmt # "unknown" THEN Refuse("overview_format", "Ok")
    ELSE AskOverviewFmt("overview_format", NoArg)

Overview(range) ==
    IF ~GroupSelected THEN Refuse("overview", "NoGroupSelected")
    ELSE IF client.overview_fmt = "unknown" THEN AskOverviewFmt("overview", range)
    ELSE IF OverviewStyle(client) = "Unavailable" THEN Refuse("overview", "CommandNotSupported")
    ELSE OverviewStreaming(client, range)

\* article, head and body (fetch_block), and stat.
Fetch(verb, target) ==
    IF NeedsGroup(target) /\ ~GroupSelected THEN Refuse("fetch", "NoGroupSelected")
    ELSE Ask("fetch", Command(verb, target), target)

ServerDate == Ask("server_date", Command("DATE", NoArg), NoArg)

Help == Ask("help", Command("HELP", NoArg), NoArg)

HeaderStyle(c) ==
    IF c.header_style # "Unknown" THEN c.header_style
    ELSE IF "HDR" \in c.capabilities THEN "Hdr"
    ELSE IF c.capabilities # {} THEN "XHdr"
    ELSE "Unknown"

HeaderFieldStreaming(c, target) ==
    CASE HeaderStyle(c) = "XHdr" ->
            Say(c, "header_field", "header_field", Command("XHDR", target), target)
      [] HeaderStyle(c) \in {"Hdr", "Unknown"} ->
            Say(c, "header_field", "header_field", Command("HDR", target), target)

HeaderField(target) ==
    IF NeedsGroup(target) /\ ~GroupSelected THEN Refuse("header_field", "NoGroupSelected")
    ELSE IF HeaderStyle(client) = "Unavailable"
    THEN Refuse("header_field", "CommandNotSupported")
    ELSE HeaderFieldStreaming(client, target)

ArticleNumbers(name) ==
    IF name = NoGroup /\ ~GroupSelected THEN Refuse("article_numbers", "NoGroupSelected")
    ELSE Ask("article_numbers",
             Command("LISTGROUP", IF name = NoGroup THEN NoArg ELSE Named(name)), NoArg)

Step(verb) ==
    IF ~GroupSelected THEN Refuse("step", "NoGroupSelected")
    ELSE Ask("step", Command(verb, NoArg), NoArg)

NewGroups(since) == Ask("new_groups", Command("NEWGROUPS", Since(since)), NoArg)

CheckCanPost ==
    /\ client.posting_allowed
    /\ client.capabilities = {} \/ Has("POST")

\* The draft is encoded before anything is sent; one that cannot be is a
\* protocol error.
Post(draft) ==
    IF ~CheckCanPost THEN Refuse("post", "PostingNotAllowed")
    ELSE IF ~draft.complete THEN Refuse("post", "Proto")
    ELSE Ask("post", Command("POST", NoArg), draft)

Quit == Ask("quit", Command("QUIT", NoArg), NoArg)

Methods ==
    {"select_group", "list_groups", "list_group_descriptions", "group_creation_times",
     "available_header_fields", "overview_format", "overview", "fetch", "server_date",
     "help", "header_field", "article_numbers", "step", "new_groups", "post", "quit"}

\* One call of a public method.
Invoke(m) ==
    /\ client.up /\ IsIdle
    /\ CASE m.method = "select_group" -> SelectGroup(m.arg)
         [] m.method = "list_groups" -> ListGroups(m.arg)
         [] m.method = "list_group_descriptions" -> ListGroupDescriptions(m.arg)
         [] m.method = "group_creation_times" -> GroupCreationTimes(m.arg)
         [] m.method = "available_header_fields" -> AvailableHeaderFields
         [] m.method = "overview_format" -> OverviewFormat
         [] m.method = "overview" -> Overview(m.arg)
         [] m.method = "fetch" -> Fetch(m.verb, m.arg)
         [] m.method = "server_date" -> ServerDate
         [] m.method = "help" -> Help
         [] m.method = "header_field" -> HeaderField(m.arg)
         [] m.method = "article_numbers" -> ArticleNumbers(m.arg)
         [] m.method = "step" -> Step(m.verb)
         [] m.method = "new_groups" -> NewGroups(m.arg)
         [] m.method = "post" -> Post(m.arg)
         [] m.method = "quit" -> Quit
    /\ Local

-----------------------------------------------------------------------------
(* Status lines: what each method does with the code it reads.             *)

Line == Head(s2c)

StatusFor(verbs) ==
    /\ call.reading = "status" /\ call.cmd.verb \in verbs
    /\ s2c # <<>> /\ Line.kind = "status"
    /\ s2c' = Tail(s2c)
    /\ UNCHANGED <<profile, cancel, closed, lost>>

ReadBlock(c) ==
    /\ client' = c
    /\ call' = [call EXCEPT !.reading = "block"]
    /\ UNCHANGED <<outcome, c2s>>

\* refresh_capabilities.  authenticate discards its result, so there a reply it
\* cannot read counts as a success.
CapabilitiesStatus ==
    /\ StatusFor({"CAPABILITIES"})
    /\ IF Line.code = 101 THEN ReadBlock(client)
       ELSE IF IsError(Line.code) THEN AfterCapabilities([client EXCEPT !.capabilities = {}])
       ELSE Return(client, IF call.step = "relisted" THEN "Ok" ELSE "UnexpectedResponse")

ModeStatus ==
    /\ StatusFor({"MODE"})
    /\ IF IsError(Line.code) /\ Line.code \notin {500, 501, 503}
       THEN Return(client, FromStatus(Line.code))
       ELSE AskCapabilities(IF Line.code \in {200, 201}
                            THEN [client EXCEPT !.posting_allowed = (Line.code = 200)]
                            ELSE client, "again")

AuthStatus ==
    /\ StatusFor({"AUTHINFO"})
    /\ IF Line.code = 281 /\ call.step = "user"
       THEN Return([client EXCEPT !.authenticated = TRUE], "Ok")
       ELSE IF Line.code = 281
       THEN AskCapabilities([client EXCEPT !.authenticated = TRUE], "relisted")
       ELSE IF Line.code = 381 /\ call.step = "user"
       THEN IF profile.pass = "nobody" THEN Return(client, "AuthenticationRejected")
            ELSE AskPass(client)
       ELSE Return(client, FromStatus(Line.code))

\* The 382 must be the last thing the server says in the clear.
StartTlsStatus ==
    /\ StatusFor({"STARTTLS"})
    /\ IF Line.code # 382 \/ Tail(s2c) # <<>> THEN Return(client, "Tls")
       ELSE /\ call' = [call EXCEPT !.reading = "handshake"]
            /\ UNCHANGED <<client, outcome, c2s>>

GroupStatus ==
    /\ StatusFor({"GROUP"})
    /\ IF Line.code = 211 THEN Return([client EXCEPT !.group = Line.arg], "Ok")
       ELSE Return(client, FromStatus(Line.code))

\* LIST ACTIVE, NEWSGROUPS, ACTIVE.TIMES and HEADERS, and NEWGROUPS.
ListingStatus ==
    /\ StatusFor({"LIST", "NEWGROUPS"}) /\ call.step # "format"
    /\ IF Line.code = (IF call.cmd.verb = "LIST" THEN 215 ELSE 231) THEN ReadBlock(client)
       ELSE Return(client, FromStatus(Line.code))

\* overview() goes on to OVER with the layout; overview_format() is done.
AfterFormat(c) ==
    IF call.method = "overview_format" THEN Return(c, "Ok")
    ELSE IF OverviewStyle(c) = "Unavailable" THEN Return(c, "CommandNotSupported")
    ELSE OverviewStreaming(c, call.arg)

FormatStatus ==
    /\ StatusFor({"LIST"}) /\ call.step = "format"
    /\ IF Line.code = 215 THEN ReadBlock(client)
       ELSE AfterFormat([client EXCEPT !.overview_fmt = "standard"])

\* Only 500 and 503 are about the verb.
VerbUnsupported(code) == code \in {500, 503}

OverviewStatus ==
    /\ StatusFor({"OVER", "XOVER"})
    /\ IF Line.code = 224
       THEN ReadBlock([client EXCEPT !.overview_style =
                          IF call.cmd.verb = "XOVER" THEN "XOver" ELSE "Over"])
       ELSE IF VerbUnsupported(Line.code) /\ call.cmd.verb = "OVER"
       THEN OverviewStreaming([client EXCEPT !.overview_style = "XOver"], call.arg)
       ELSE Return(IF VerbUnsupported(Line.code)
                   THEN [client EXCEPT !.overview_style = "Unavailable"] ELSE client,
                   FromStatus(Line.code))

HeaderStatus ==
    /\ StatusFor({"HDR", "XHDR"})
    /\ IF Line.code \in {225, 221}
       THEN ReadBlock([client EXCEPT !.header_style =
                          IF call.cmd.verb = "XHDR" THEN "XHdr" ELSE "Hdr"])
       ELSE IF VerbUnsupported(Line.code) /\ call.cmd.verb = "HDR"
       THEN HeaderFieldStreaming([client EXCEPT !.header_style = "XHdr"], call.arg)
       ELSE Return(IF VerbUnsupported(Line.code)
                   THEN [client EXCEPT !.header_style = "Unavailable"] ELSE client,
                   FromStatus(Line.code))

\* ARTICLE, HEAD and BODY (fetch_block).
BlockFetchCode == [ARTICLE |-> 220, HEAD |-> 221, BODY |-> 222]

FetchStatus ==
    /\ StatusFor(DOMAIN BlockFetchCode)
    /\ IF Line.code = BlockFetchCode[call.cmd.verb] THEN ReadBlock(client)
       ELSE Return(client, FromStatus(Line.code))

\* stat, next_article, previous_article.
StatStatus ==
    /\ StatusFor({"STAT", "NEXT", "LAST"})
    /\ Return(client, IF Line.code = 223 THEN "Ok" ELSE FromStatus(Line.code))

DateStatus ==
    /\ StatusFor({"DATE"})
    /\ Return(client, IF Line.code = 111 THEN "Ok" ELSE FromStatus(Line.code))

\* Mutant: the help text is announced and left unread.
HelpUnread ==
    /\ StatusFor({"HELP"})
    /\ Return(client, IF Line.code = 100 THEN "Ok" ELSE FromStatus(Line.code))

HelpStatus ==
    /\ StatusFor({"HELP"})
    /\ IF Line.code = 100 THEN ReadBlock(client) ELSE Return(client, FromStatus(Line.code))

\* article_numbers: the selection follows the server only once the block is in.
ListGroupStatus ==
    /\ StatusFor({"LISTGROUP"})
    /\ IF Line.code = 211
       THEN /\ call' = [call EXCEPT !.reading = "block", !.arg = Line.arg]
            /\ UNCHANGED <<client, outcome, c2s>>
       ELSE Return(client, FromStatus(Line.code))

\* Mutant: the second reply is awaited with nothing sent.
PostUnsent ==
    /\ StatusFor({"POST"})
    /\ IF Line.code = 340
       THEN /\ call' = [call EXCEPT !.cmd = Command("article", call.arg)]
            /\ UNCHANGED <<client, outcome, c2s>>
       ELSE Return(client, IF Line.code = 440 THEN "PostingNotAllowed" ELSE FromStatus(Line.code))

\* post, its two replies: the offer, then the article.
PostStatus ==
    /\ StatusFor({"POST"})
    /\ IF Line.code = 340 THEN Say(client, "post", "article", Command("article", call.arg), call.arg)
       ELSE Return(client, IF Line.code = 440 THEN "PostingNotAllowed" ELSE FromStatus(Line.code))

\* Mutant: any answer to the article is taken for a yes.
PostedWhatever == StatusFor({"article"}) /\ Return(client, "Ok")

PostedStatus ==
    /\ StatusFor({"article"})
    /\ Return(client, IF Line.code = 240 THEN "Ok"
                      ELSE IF Line.code \in {440, 441} THEN "PostingRejected"
                      ELSE FromStatus(Line.code))

\* quit consumes the client.
QuitStatus == StatusFor({"QUIT"}) /\ Return(NoClient, "Ok")

\* with_options.
GreetingStatus ==
    /\ StatusFor({"greeting"})
    /\ IF IsError(Line.code) THEN Return(client, "Server")
       ELSE AfterGreeting(NewClient(Line.code = 200, client.encrypted))

ReadStatus ==
    \/ GreetingStatus \/ CapabilitiesStatus \/ ModeStatus \/ AuthStatus \/ StartTlsStatus
    \/ GroupStatus \/ ListingStatus \/ FormatStatus \/ OverviewStatus \/ HeaderStatus
    \/ FetchStatus \/ StatStatus \/ DateStatus \/ HelpStatus \/ ListGroupStatus
    \/ PostStatus \/ PostedStatus \/ QuitStatus

-----------------------------------------------------------------------------
(* Blocks: read_block_streaming, one line at a time.  The flag is looked   *)
(* at before each line.                                                    *)

\* A method gives up on the connection.  Two discard the error: the refresh at
\* the end of authenticate, and quit of a connection that is already gone.
Fail(c, error) ==
    /\ Return(IF call.method = "quit" THEN NoClient ELSE c,
              IF \/ call.step = "relisted"
                 \/ call.method = "quit" /\ error = "ConnectionClosed"
              THEN "Ok" ELSE error)
    /\ lost' = TRUE
    /\ UNCHANGED <<profile, cancel, closed>>

Desynchronised(c) == [c EXCEPT !.desynchronised = TRUE]

\* set_cancel comes after the session is open.
Stopped == call.reading = "block" /\ cancel /\ call.method # "connect"

InBlock == call.reading = "block" /\ ~Stopped /\ s2c # <<>>

BlockCancelled ==
    /\ Stopped
    /\ Fail(Desynchronised(client), "Cancelled")
    /\ UNCHANGED s2c

\* Mutant: the limit is noticed one line late.
TooManyLinesLate(got) == Len(got) > profile.max_block_lines + 1

TooManyLines(got) == Len(got) > profile.max_block_lines

BlockLine ==
    /\ InBlock /\ Line.kind \in {"data", "status"}
    /\ s2c' = Tail(s2c)
    /\ LET got == Append(call.got, IF Line.kind = "data" THEN Line.text ELSE Label("status"))
       IN  IF TooManyLines(got) THEN Fail(Desynchronised(client), "BlockTooLarge")
           ELSE /\ call' = [call EXCEPT !.got = got]
                /\ UNCHANGED <<client, outcome, c2s, profile, cancel, closed, lost>>

\* Mutant: LISTGROUP is taken for a query, as LIST is.
BlockDoneUnselected(got) ==
    CASE call.cmd.verb = "CAPABILITIES" ->
            AfterCapabilities([client EXCEPT !.capabilities = {got[i].label : i \in DOMAIN got}])
      [] call.step = "format" -> AfterFormat([client EXCEPT !.overview_fmt = "served"])
      [] OTHER -> Return(client, "Ok")

\* What a method does with a block read to its end.
BlockDone(got) ==
    CASE call.cmd.verb = "CAPABILITIES" ->
            AfterCapabilities([client EXCEPT !.capabilities = {got[i].label : i \in DOMAIN got}])
      [] call.step = "format" -> AfterFormat([client EXCEPT !.overview_fmt = "served"])
      [] call.cmd.verb = "LISTGROUP" -> Return([client EXCEPT !.group = call.arg], "Ok")
      [] OTHER -> Return(client, "Ok")

BlockEnd ==
    /\ InBlock /\ Line.kind = "dot"
    /\ s2c' = Tail(s2c)
    /\ BlockDone(call.got)
    /\ UNCHANGED <<profile, cancel, closed, lost>>

-----------------------------------------------------------------------------
(* Every way a read fails: read_line, read_status and from_io.             *)

Blocked == Reading /\ ~Stopped

\* The rest of the line is still on the wire.
OverlongLine ==
    /\ Blocked /\ s2c # <<>> /\ Line.kind = "monster"
    /\ s2c' = Tail(s2c)
    /\ Fail(Desynchronised(client), "LineTooLong")

\* StatusLine::parse refuses the line, and the connection is not marked.
NotAStatusLine ==
    /\ call.reading = "status" /\ s2c # <<>> /\ Line.kind \in {"data", "dot"}
    /\ s2c' = Tail(s2c)
    /\ Fail(client, "Proto")

EndOfStream ==
    /\ Blocked /\ s2c = <<>> /\ closed
    /\ Fail(Desynchronised(client), "ConnectionClosed")
    /\ UNCHANGED s2c

\* The read timeout.  The connection is not marked: the reply may still come.
ReadTimeout ==
    /\ Blocked /\ s2c = <<>> /\ ~closed
    /\ Fail(client, "Timeout")
    /\ UNCHANGED s2c

ReadReset ==
    /\ Blocked
    /\ Fail(client, "Io")
    /\ UNCHANGED s2c

\* ensure_synchronised refused to send.
SendRefused ==
    /\ call.reading = "refused"
    /\ Fail(client, "ConnectionClosed")
    /\ UNCHANGED s2c

ReadFails == OverlongLine \/ NotAStatusLine \/ EndOfStream \/ SendRefused

ReadBlockLine == BlockCancelled \/ BlockLine \/ BlockEnd

\* What the client does with what has arrived, or with nothing more to come.
ClientReads == ReadStatus \/ ReadBlockLine \/ ReadFails

=============================================================================
