--------------------------- MODULE ServerSession ----------------------------
(***************************************************************************)
(* One client session of the test server: what each command does to the    *)
(* session and which lines it writes.  Every handler is an operator on the *)
(* configuration, the corpus and the session's State; it yields the next   *)
(* State, the lines, what the command loop does next, and whether the      *)
(* lines are written while the corpus is still locked for reading.         *)
(***************************************************************************)
EXTENDS Corpus, Wire

Profiles == {"Modern", "NoOver", "Transit", "Legacy"}

Greetings == {"PostingAllowed", "NoPosting", "Refuse"}

Quirks == {"no_overview_fmt", "reject_open_ended_ranges", "refuse_post",
           "truncate_next_block", "overlong_help_line",
           "over_advertised_but_missing", "no_list_wildmat"}

\* close_after_commands of a server that never vanishes.
Never == 1000

ServerConfig ==
    [greeting : Greetings, capabilities : Profiles, credentials : BOOLEAN,
     require_auth : BOOLEAN, starttls : BOOLEAN, quirks : SUBSET Quirks,
     close_after_commands : Nat]

\* ServerConfig::default, and what a test changes in it.
DefaultConfig ==
    [greeting |-> "PostingAllowed", capabilities |-> "Modern", credentials |-> FALSE,
     require_auth |-> FALSE, starttls |-> FALSE, quirks |-> {},
     close_after_commands |-> Never]

RequireAuth(config) == [config EXCEPT !.credentials = TRUE, !.require_auth = TRUE]

Users == {"nobody", "right", "wrong"}

Flows == {"Continue", "Close", "UpgradeToTls", "ReadArticle"}

\* Session::new
NewSession(config) ==
    [authenticated |-> FALSE, pending_user |-> "nobody",
     reader_mode |-> config.capabilities # "Transit",
     current_group |-> NoGroup, current_article |-> NoArticle,
     commands_served |-> 0,
     truncate_next_block |-> "truncate_next_block" \in config.quirks,
     encrypted |-> FALSE, close_requested |-> FALSE]

-----------------------------------------------------------------------------
(* Output.                                                                 *)

Reply(st, lines, flow) == [st |-> st, lines |-> lines, flow |-> flow, guard |-> FALSE]

\* status(): one line and on to the next command.
Answer(st, code, arg) == Reply(st, <<Status(code, arg)>>, "Continue")

Refusal(st, code) == Answer(st, code, NoArg)

\* block(): the lines and the terminator, or the first line alone when the
\* block is the one to truncate.
WithBlock(st, code, arg, lines) ==
    IF st.truncate_next_block
    THEN Reply([st EXCEPT !.truncate_next_block = FALSE, !.close_requested = TRUE],
               <<Status(code, arg)>> \o SubSeq(lines, 1, Min({1, Len(lines)})),
               "Continue")
    ELSE Reply(st, <<Status(code, arg)>> \o lines \o <<Dot>>, "Continue")

Listing(st, code, texts) == WithBlock(st, code, NoArg, DataLines(texts))

\* Written while the corpus is still held for reading.
UnderGuard(reply) == [reply EXCEPT !.guard = TRUE]

NumberLines(numbers) == [i \in DOMAIN numbers |-> Data(Number(numbers[i]))]

-----------------------------------------------------------------------------
(* Opening, capabilities, mode and authentication.                         *)

Greet(config, st) ==
    CASE config.greeting = "PostingAllowed" -> Answer(st, 200, NoArg)
      [] config.greeting = "NoPosting"      -> Answer(st, 201, NoArg)
      [] config.greeting = "Refuse"         -> Reply(st, <<Status(400, NoArg)>>, "Close")

ReaderLabels(config, st) ==
    CASE config.capabilities = "Modern" -> <<"READER", "OVER", "HDR">>
      [] config.capabilities = "NoOver" -> <<"READER">>
      [] config.capabilities = "Transit" /\ st.reader_mode -> <<"READER", "OVER">>
      [] OTHER -> <<"IHAVE", "MODE-READER">>

Advertised(config, st) ==
    <<"VERSION">> \o ReaderLabels(config, st) \o <<"LIST">>
      \o (IF config.greeting # "NoPosting" /\ config.capabilities # "Transit"
          THEN <<"POST">> ELSE <<>>)
      \o (IF config.starttls /\ ~st.encrypted THEN <<"STARTTLS">> ELSE <<>>)
      \o (IF config.credentials THEN <<"AUTHINFO">> ELSE <<>>)
      \o <<"IMPLEMENTATION">>

CapabilitiesReply(config, st) ==
    IF config.capabilities = "Legacy" THEN Refusal(st, 500)
    ELSE Listing(st, 101, [i \in DOMAIN Advertised(config, st) |-> Label(Advertised(config, st)[i])])

Mode(config, st, arg) ==
    IF arg # ReaderMode THEN Refusal(st, 501)
    ELSE IF config.capabilities = "Legacy" THEN Refusal(st, 500)
    ELSE Answer([st EXCEPT !.reader_mode = TRUE],
                IF config.greeting = "NoPosting" THEN 201 ELSE 200, NoArg)

\* arg.half is USER or PASS, arg.value whether it is what the server accepts.
AuthInfo(config, st, arg) ==
    IF ~config.credentials THEN Refusal(st, 502)
    ELSE IF arg.half \notin {"USER", "PASS"} THEN Refusal(st, 501)
    ELSE IF arg.half = "USER" THEN Answer([st EXCEPT !.pending_user = arg.value], 381, NoArg)
    ELSE IF st.pending_user = "nobody" THEN Refusal(st, 482)
    ELSE IF st.pending_user = "right" /\ arg.value = "right"
    THEN Answer([st EXCEPT !.authenticated = TRUE], 281, NoArg)
    ELSE Refusal([st EXCEPT !.pending_user = "nobody"], 481)

NeedsAuth(config, st) == config.require_auth /\ ~st.authenticated

StartTlsReply(config, st) ==
    IF ~config.starttls THEN Refusal(st, 500)
    ELSE IF st.encrypted \/ st.authenticated THEN Refusal(st, 502)
    ELSE Reply(st, <<Status(382, NoArg)>>, "UpgradeToTls")

HelpReply(config, st) ==
    WithBlock(st, 100, NoArg,
              IF "overlong_help_line" \in config.quirks THEN <<Monster>>
              ELSE DataLines(<<Label("ARTICLE"), Label("LIST")>>))

-----------------------------------------------------------------------------
(* Groups and lists.                                                       *)

Selected(corpus, st) == Carries(corpus, st.current_group)

SelectedGroup(corpus, st) == corpus[Find(corpus, st.current_group)]

Summary(group) ==
    [count |-> Cardinality(Numbers(group)), low |-> Watermarks(group).low,
     high |-> Watermarks(group).high, name |-> group.name]

GroupReply(corpus, st, arg) ==
    IF arg = NoArg THEN Refusal(st, 501)
    ELSE IF ~Carries(corpus, arg.group) THEN Refusal(st, 411)
    ELSE LET group == corpus[Find(corpus, arg.group)]
         IN  Answer([st EXCEPT !.current_group = arg.group, !.current_article = Low(group)],
                    211, Summary(group))

\* The position is left alone: it may be an article of another group.
ListGroupReply(corpus, st, arg) ==
    LET name == IF arg = NoArg THEN st.current_group ELSE arg.group
    IN  IF name = NoGroup THEN Refusal(st, 412)
        ELSE IF ~Carries(corpus, name) THEN Refusal(st, 411)
        ELSE LET group == corpus[Find(corpus, name)]
             IN  WithBlock([st EXCEPT !.current_group = name], 211, Summary(group),
                           NumberLines(InOrder(Numbers(group))))

\* The keywords that take a pattern.
Narrowed == {"ACTIVE", "NEWSGROUPS", "ACTIVE.TIMES"}

ListReply(config, corpus, st, arg) ==
    LET patterned == arg.keyword \in Narrowed /\ arg.pattern # NoPattern
        kept == InOrder({i \in DOMAIN corpus : patterned => corpus[i].name \in arg.pattern})
    IN  IF patterned /\ ("no_list_wildmat" \in config.quirks \/ arg.pattern = BadPattern)
        THEN Refusal(st, 501)
        ELSE IF arg.keyword \in Narrowed
        THEN Listing(st, 215, [i \in DOMAIN kept |-> Named(corpus[kept[i]].name)])
        ELSE IF arg.keyword = "OVERVIEW.FMT" /\ "no_overview_fmt" \in config.quirks
        THEN Refusal(st, 503)
        ELSE IF arg.keyword \in {"OVERVIEW.FMT", "HEADERS"}
        THEN Listing(st, 215, <<Label(arg.keyword)>>)
        ELSE Refusal(st, 501)

\* NoMoment: the arguments are not a date.
NewGroupsReply(corpus, st, arg) ==
    LET new == InOrder({i \in DOMAIN corpus : corpus[i].created >= arg.since})
    IN  IF arg.since = NoMoment THEN Refusal(st, 501)
        ELSE Listing(st, 231, [i \in DOMAIN new |-> Named(corpus[new[i]].name)])
-----------------------------------------------------------------------------
(* Articles.                                                               *)

\* ARTICLE, HEAD, BODY and STAT differ in their code and in what follows.
FetchCode == [ARTICLE |-> 220, HEAD |-> 221, BODY |-> 222, STAT |-> 223]

Fetched(st, verb, number, id) ==
    LET next == IF number = NoArticle THEN st
                ELSE [st EXCEPT !.current_article = number]
        found == [number |-> number, id |-> id]
    IN  IF verb = "STAT" THEN Answer(next, FetchCode[verb], found)
        ELSE WithBlock(next, FetchCode[verb], found, <<Data(Id(id))>>)

FetchReply(corpus, st, verb, target) ==
    LET number == IF target.by = "number" THEN target.number ELSE st.current_article
    IN  IF target.by = "junk" THEN Refusal(st, 501)
        ELSE IF target.by = "current" /\ number = NoArticle THEN Refusal(st, 420)
        ELSE IF target.by = "id"
        THEN IF PlacesOfId(corpus, target.id) = {} THEN Refusal(st, 430)
             ELSE Fetched(st, verb, NoArticle, target.id)
        ELSE IF ~Selected(corpus, st) THEN UnderGuard(Refusal(st, 412))
        ELSE IF number \notin Numbers(SelectedGroup(corpus, st)) THEN Refusal(st, 423)
        ELSE Fetched(st, verb, number, SelectedGroup(corpus, st).articles[number])

\* The bounds a range or the position stands for in a group.
Bounds(st, target, high) ==
    CASE target.by = "current" -> [low |-> st.current_article, high |-> st.current_article]
      [] target.by = "number" -> [low |-> target.number, high |-> target.number]
      [] target.by = "range" ->
            [low |-> target.low, high |-> IF target.high = Open THEN high ELSE target.high]

Within(group, bounds) ==
    InOrder({n \in Numbers(group) : bounds.low <= n /\ n <= bounds.high})

OverReply(config, corpus, st, verb, target) ==
    LET group == SelectedGroup(corpus, st)
        high == IF Numbers(group) = {} THEN target.low ELSE High(group)
        records == Within(group, Bounds(st, target, high))
    IN  IF /\ verb = "OVER"
           /\ \/ "over_advertised_but_missing" \in config.quirks
              \/ config.capabilities = "NoOver"
        THEN Refusal(st, 500)
        ELSE IF target.by = "id"
        THEN IF PlacesOfId(corpus, target.id) = {}
             THEN UnderGuard(Refusal(st, 430))
             ELSE UnderGuard(Listing(st, 224, <<Number(FindById(corpus, target.id)[2])>>))
        ELSE IF ~Selected(corpus, st) THEN Refusal(st, 412)
        ELSE IF target.by = "current" /\ st.current_article = NoArticle THEN Refusal(st, 420)
        ELSE IF target.by = "junk" THEN Refusal(st, 501)
        ELSE IF /\ target.by = "range" /\ target.high = Open
                /\ "reject_open_ended_ranges" \in config.quirks
        THEN Refusal(st, 501)
        ELSE IF records = <<>> THEN Refusal(st, 423)
        ELSE WithBlock(st, 224, NoArg, NumberLines(records))

HeadersFollowCode(verb) == IF verb = "XHDR" THEN 221 ELSE 225

HdrReply(config, corpus, st, verb, target) ==
    IF verb = "HDR" /\ config.capabilities = "NoOver" THEN Refusal(st, 500)
    ELSE IF target.by = NoHeader.by THEN Refusal(st, 501)
    ELSE IF target.by = "id"
    THEN IF PlacesOfId(corpus, target.id) = {} THEN Refusal(st, 430)
         ELSE Listing(st, HeadersFollowCode(verb), <<Number(NoArticle)>>)
    ELSE IF ~Selected(corpus, st) THEN Refusal(st, 412)
    ELSE IF target.by = "current" /\ st.current_article = NoArticle THEN Refusal(st, 420)
    ELSE IF target.by = "junk" THEN Refusal(st, 501)
    ELSE WithBlock(st, HeadersFollowCode(verb), NoArg,
                   NumberLines(Within(SelectedGroup(corpus, st), Bounds(st, target, Open))))

\* NEXT and LAST move the position to the neighbour that exists.
StepReply(corpus, st, verb) ==
    LET group == SelectedGroup(corpus, st)
        beyond == {n \in Numbers(group) : IF verb = "NEXT" THEN n > st.current_article
                                         ELSE n < st.current_article}
        to == IF verb = "NEXT" THEN Min(beyond) ELSE Max(beyond)
    IN  IF ~Selected(corpus, st) THEN Refusal(st, 412)
        ELSE IF st.current_article = NoArticle THEN Refusal(st, 420)
        ELSE IF beyond # {}
        THEN Answer([st EXCEPT !.current_article = to], 223,
                    [number |-> to, id |-> group.articles[to]])
        ELSE Refusal(st, IF verb = "NEXT" THEN 421 ELSE 422)
-----------------------------------------------------------------------------
(* Posting.                                                                *)

PostReply(config, st) ==
    IF config.greeting = "NoPosting" THEN Refusal(st, 440)
    ELSE Reply(st, <<Status(340, NoArg)>>, "ReadArticle")

\* A posted article: whether From, Newsgroups and Subject are there, the groups
\* it names, and its own message-id if the poster gave it one.
NoId == <<"none", 0>>

\* The id the server makes up: how many commands this session has had, and the
\* process, which every session of the server shares.
AssignedId(st) == <<"assigned", st.commands_served>>

IdOf(st, article) == IF article.id = NoId THEN AssignedId(st) ELSE article.id

Acceptable(config, corpus, article) ==
    /\ "refuse_post" \notin config.quirks
    /\ article.complete
    /\ \E i \in DOMAIN article.groups : Carries(corpus, article.groups[i])

AcceptArticle(config, corpus, st, article) ==
    IF Acceptable(config, corpus, article) THEN Answer(st, 240, Id(IdOf(st, article)))
    ELSE Refusal(st, 441)

CorpusAfter(config, corpus, st, article) ==
    IF Acceptable(config, corpus, article)
    THEN Inject(corpus, article.groups, IdOf(st, article))
    ELSE corpus

-----------------------------------------------------------------------------
(* The command loop.                                                       *)

\* The commands served before the login check.
Always == {"", "QUIT", "CAPABILITIES", "MODE", "AUTHINFO", "DATE", "HELP", "STARTTLS"}

AlwaysReply(config, st, cmd) ==
    CASE cmd.verb = "" -> Refusal(st, 500)
      [] cmd.verb = "QUIT" -> Reply(st, <<Status(205, NoArg)>>, "Close")
      [] cmd.verb = "CAPABILITIES" -> CapabilitiesReply(config, st)
      [] cmd.verb = "MODE" -> Mode(config, st, cmd.arg)
      [] cmd.verb = "AUTHINFO" -> AuthInfo(config, st, cmd.arg)
      [] cmd.verb = "DATE" -> Answer(st, 111, NoArg)
      [] cmd.verb = "HELP" -> HelpReply(config, st)
      [] cmd.verb = "STARTTLS" -> StartTlsReply(config, st)

ReaderReply(config, corpus, st, cmd) ==
    CASE cmd.verb = "GROUP" -> GroupReply(corpus, st, cmd.arg)
      [] cmd.verb = "LISTGROUP" -> ListGroupReply(corpus, st, cmd.arg)
      [] cmd.verb = "LIST" -> ListReply(config, corpus, st, cmd.arg)
      [] cmd.verb \in DOMAIN FetchCode -> FetchReply(corpus, st, cmd.verb, cmd.arg)
      [] cmd.verb \in {"OVER", "XOVER"} -> OverReply(config, corpus, st, cmd.verb, cmd.arg)
      [] cmd.verb \in {"HDR", "XHDR"} -> HdrReply(config, corpus, st, cmd.verb, cmd.arg)
      [] cmd.verb = "NEWGROUPS" -> NewGroupsReply(corpus, st, cmd.arg)
      [] cmd.verb = "POST" -> PostReply(config, st)
      [] cmd.verb \in {"NEXT", "LAST"} -> StepReply(corpus, st, cmd.verb)
      [] OTHER -> Refusal(st, 500)

Dispatch(config, corpus, state, cmd) ==
    LET st == [state EXCEPT !.commands_served = @ + 1]
    IN  IF st.commands_served > config.close_after_commands THEN Reply(st, <<>>, "Close")
        ELSE IF cmd.verb \in Always THEN AlwaysReply(config, st, cmd)
        ELSE IF NeedsAuth(config, st) THEN Refusal(st, 480)
        ELSE ReaderReply(config, corpus, st, cmd)

\* A block left without its terminator takes the connection with it.
Handle(config, corpus, state, cmd) ==
    LET reply == Dispatch(config, corpus, state, cmd)
    IN  IF reply.st.close_requested THEN [reply EXCEPT !.flow = "Close"] ELSE reply

=============================================================================
