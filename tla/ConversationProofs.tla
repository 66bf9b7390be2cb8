-------------------------- MODULE ConversationProofs --------------------------
(***************************************************************************)
(* What a conversation keeps, whatever the server is set up to do and      *)
(* whatever goes wrong on the way: both ends agree on whether the link is  *)
(* encrypted, and no credentials cross it in the clear unless the user     *)
(* allowed that; they stay in step; and every post the client reports      *)
(* accepted is an article the server filed.                                *)
(***************************************************************************)
EXTENDS Conversation, SessionProofs

-------------------------------------------------------------------------------
(* The client: what holds of it and of the call it is in.                      *)

ClientFields == {"up", "posting_allowed", "capabilities", "encrypted", "authenticated", "group",
                 "overview_fmt", "overview_style", "header_style", "desynchronised"}

IsClient(c) ==
    /\ DOMAIN c = ClientFields
    /\ c.up = TRUE
    /\ c.overview_style \in {"Unknown", "Over", "XOver", "Unavailable"}
    /\ c.header_style \in {"Unknown", "Hdr", "XHdr", "Unavailable"}
    /\ c.overview_fmt \in {"unknown", "served", "standard"}

\* A client that takes the link to be encrypted only if the session does, and
\* that knows nothing then that it was told in the clear.
Heir(c, s) == IsClient(c) /\ (c.encrypted => s.encrypted /\ "STARTTLS" \notin c.capabilities)

IsCall(k, most) ==
    /\ DOMAIN k = {"method", "step", "cmd", "arg", "reading", "got"}
    /\ k.reading \in {"nothing", "status", "block", "refused", "handshake"}
    /\ IsList(k.got) /\ Len(k.got) <= most

\* Credentials may be on the wire.
Safe(s, p) == s.encrypted \/ p.allow_plaintext

\* What connect waits for: the greeting, and then the answers to what it asks.
Opening == Asking \cup {"greeting"}

\* The steps of connect that ask for capabilities.
CapabilitySteps == {"handshake", "again", "clear", "upgraded", "relisted"}

ClientFine == client = NoClient \/ Heir(client, st)

CallFine ==
    /\ IsCall(call, profile.max_block_lines)
    /\ IF call.method = "idle" THEN call = Idle ELSE Heir(client, st)
    /\ call.cmd.verb = "CAPABILITIES" => call.step \in CapabilitySteps
    /\ call.cmd.verb = "AUTHINFO" => Safe(client, profile)
    /\ call.cmd.verb = "POST" => call.arg.groups \in Seq(STRING)

\* Opening a session is the business of connect alone, and while it lasts nothing
\* else is asked, nor answered.
TalkFine ==
    /\ call.cmd.verb \in Opening \/ call.reading = "handshake" => call.method = "connect"
    /\ call.method = "connect" =>
          /\ \A i \in DOMAIN c2s : c2s[i].verb \in Asking
          /\ st.encrypted => IsLines(s2c) /\ IsPlain(call.got)

OutcomeFine == DOMAIN outcome = {"method", "cmd", "result"} /\ outcome.result \in Results

\* A login is on its way only if it may be, and says what a login says; an article
\* on its way has a list of groups.
Sayable(cmd, s, p) ==
    /\ cmd.verb = "AUTHINFO" => Safe(s, p) /\ cmd.arg.value \in Users
    /\ cmd.verb = "article" => cmd.arg.groups \in Seq(STRING)

IsWire(l, s, p) == IsList(l) /\ \A i \in DOMAIN l : Sayable(l[i], s, p)

WireFine == IsWire(c2s, st, profile)

ProfileFine == profile.user \in Users /\ profile.pass \in Users /\ profile.max_block_lines \in Nat

Core == ClientFine /\ CallFine /\ TalkFine /\ OutcomeFine /\ WireFine /\ IsState(st) /\ ProfileFine

\* A step that takes at most one line of what the server has sent.
Draws == s2c' = s2c \/ (s2c # <<>> /\ s2c' = Tail(s2c))

\* The session is as encrypted as it was, or it becomes so with nothing unread.
Onward ==
    /\ profile' = profile /\ IsState(st') /\ Draws
    /\ st.encrypted => st'.encrypted
    /\ st'.encrypted => st.encrypted \/ s2c' = <<>>

\* A step that takes a line leaves lines.
LEMMA DrawsLines == ASSUME IsLines(s2c), Draws PROVE IsLines(s2c')
BY LinesGrow DEF Draws

\* A method that goes on to its next command.
LEMMA SayKeeps ==
    ASSUME Core, Onward, NEW c, Heir(c, st'), NEW method, method # "idle", NEW step, NEW cmd, NEW arg,
           cmd.verb \in Opening => method = "connect",
           method = "connect" => call.method = "connect" /\ cmd.verb \in Asking,
           cmd.verb = "CAPABILITIES" => step \in CapabilitySteps,
           cmd.verb = "AUTHINFO" => Safe(c, profile) /\ cmd.arg.value \in Users,
           cmd.verb = "article" => cmd.arg.groups \in Seq(STRING),
           cmd.verb = "POST" => arg.groups \in Seq(STRING),
           Say(c, method, step, cmd, arg)
    PROVE  Core'
PROOF
<1> DEFINE k == [method |-> method, step |-> step, cmd |-> cmd, arg |-> arg,
                 reading |-> IF c.desynchronised THEN "refused" ELSE "status", got |-> <<>>]
<1>1. /\ client' = c /\ call' = k /\ outcome' = outcome
      /\ c2s' = c2s \/ c2s' = Append(c2s, cmd)
  BY DEF Say
<1>2. profile' = profile /\ IsState(st') /\ (st.encrypted => st'.encrypted)
  BY DEF Onward
<1>3. /\ k.method = method /\ k.cmd = cmd /\ k.step = step /\ k.arg = arg /\ k.got = <<>>
      /\ k.reading \in {"refused", "status"}
      /\ DOMAIN k = {"method", "step", "cmd", "arg", "reading", "got"}
  OBVIOUS
<1> HIDE DEF k
<1>4. ProfileFine' /\ OutcomeFine'
  BY <1>1, <1>2 DEF Core, ProfileFine, OutcomeFine
<1>5. IsCall(k, profile.max_block_lines)
  BY <1>3, ListsBegin DEF IsCall, Core, ProfileFine
<1>6. CallFine'
  BY <1>1, <1>2, <1>3, <1>5 DEF CallFine, Safe
<1>7. \A x : Sayable(x, st, profile) => Sayable(x, st', profile')
  BY <1>2 DEF Sayable, Safe
<1>8. Sayable(cmd, st', profile')
  BY <1>2 DEF Sayable, Safe, Heir
<1>9. WireFine'
  <2>1. IsList(c2s) /\ \A i \in DOMAIN c2s : Sayable(c2s[i], st', profile')
    BY <1>7 DEF Core, WireFine, IsWire
  <2>2. CASE c2s' = c2s
    BY <2>1, <2>2 DEF WireFine, IsWire
  <2>3. CASE c2s' = Append(c2s, cmd)
    <3>1. IsList(c2s')
      BY <2>1, <2>3, ListsGrow
    <3>2. ASSUME NEW i \in DOMAIN c2s' PROVE Sayable(c2s'[i], st', profile')
      <4>1. i \in 1..Len(c2s) \/ i = Len(c2s) + 1
        <5>1. Len(c2s) \in Nat /\ DOMAIN c2s' = 1..(Len(c2s) + 1)
          BY <2>1, <2>3, ListsGrow
        <5> QED BY <5>1
      <4>2. CASE i \in 1..Len(c2s)
        <5>1. c2s'[i] = c2s[i] /\ Sayable(c2s[i], st', profile')
          BY <2>1, <2>3, <4>2, ListsGrow
        <5> QED BY <5>1
      <4>3. CASE i = Len(c2s) + 1
        <5>1. c2s'[i] = cmd
          BY <2>1, <2>3, <4>3, ListsGrow
        <5> QED BY <1>8, <5>1
      <4> QED BY <4>1, <4>2, <4>3
    <3> QED BY <3>1, <3>2 DEF WireFine, IsWire
  <2> QED BY <1>1, <2>2, <2>3
<1>10. ClientFine'
  BY <1>1 DEF ClientFine
<1>11. TalkFine'
  <2>1. call'.cmd.verb \in Opening \/ call'.reading = "handshake" => call'.method = "connect"
    BY <1>1, <1>3
  <2>2. ASSUME call'.method = "connect"
        PROVE  /\ \A i \in DOMAIN c2s' : c2s'[i].verb \in Asking
               /\ st'.encrypted => IsLines(s2c') /\ IsPlain(call'.got)
    <3>1. call.method = "connect" /\ cmd.verb \in Asking
      BY <1>1, <1>3, <2>2
    <3>2. /\ \A i \in DOMAIN c2s : c2s[i].verb \in Asking
          /\ st.encrypted => IsLines(s2c)
      BY <3>1 DEF Core, TalkFine
    <3>3. ASSUME NEW i \in DOMAIN c2s' PROVE c2s'[i].verb \in Asking
      <4>1. IsList(c2s)
        BY DEF Core, WireFine, IsWire
      <4>2. CASE c2s' = c2s
        BY <3>2, <3>3, <4>2
      <4>3. CASE c2s' = Append(c2s, cmd)
        <5>1. /\ Len(c2s) \in Nat /\ DOMAIN c2s = 1..Len(c2s) /\ DOMAIN c2s' = 1..(Len(c2s) + 1)
              /\ \A j \in 1..Len(c2s) : c2s'[j] = c2s[j]
              /\ c2s'[Len(c2s) + 1] = cmd
          BY <4>1, <4>3, ListsGrow
        <5>2. i \in 1..Len(c2s) \/ i = Len(c2s) + 1
          BY <3>3, <5>1
        <5> QED BY <3>1, <3>2, <5>1, <5>2
      <4> QED BY <1>1, <4>2, <4>3
    <3>4. st'.encrypted => IsLines(s2c')
      BY <3>2, DrawsLines, LinesGrow DEF Onward
    <3>5. IsPlain(call'.got)
      BY <1>1, <1>3, LinesGrow
    <3> QED BY <3>3, <3>4, <3>5
  <2> QED BY <2>1, <2>2 DEF TalkFine
<1> QED BY <1>2, <1>4, <1>6, <1>9, <1>10, <1>11 DEF Core

\* A method that returns.
LEMMA ReturnKeeps ==
    ASSUME Core, profile' = profile, st' = st, NEW c, c = NoClient \/ Heir(c, st),
           NEW result \in Results, Return(c, result)
    PROVE  Core'
PROOF
<1>1. /\ client' \in {c, NoClient} /\ call' = Idle /\ c2s' = c2s
      /\ outcome' = [method |-> call.method, cmd |-> call.cmd, result |-> result]
  BY DEF Return
<1>2. OutcomeFine'
  BY <1>1 DEF OutcomeFine
<1>3. /\ Idle.method = "idle" /\ Idle.cmd.verb = "" /\ Idle.got = <<>> /\ Idle.reading = "nothing"
      /\ DOMAIN Idle = {"method", "step", "cmd", "arg", "reading", "got"}
  BY DEF Idle, Command
<1>4. IsCall(Idle, profile.max_block_lines)
  <2>1. profile.max_block_lines \in Nat
    BY DEF Core, ProfileFine
  <2>2. IsList(Idle.got) /\ Len(Idle.got) = 0
    BY <1>3, ListsBegin
  <2>3. Len(Idle.got) <= profile.max_block_lines
    BY <2>1, <2>2
  <2>4. Idle.reading \in {"nothing", "status", "block", "refused", "handshake"}
    BY <1>3
  <2> QED BY <1>3, <2>2, <2>3, <2>4 DEF IsCall
<1>5. CallFine'
  BY <1>1, <1>3, <1>4 DEF CallFine
<1>6. ClientFine'
  BY <1>1 DEF ClientFine
<1>7. WireFine' /\ ProfileFine'
  BY <1>1 DEF Core, WireFine, ProfileFine
<1>8. TalkFine'
  BY <1>1, <1>3 DEF TalkFine, Opening, Asking
<1> QED BY <1>2, <1>5, <1>6, <1>7, <1>8 DEF Core
\* A method that stays in the exchange it is in.
LEMMA StayKeeps ==
    ASSUME Core, profile' = profile, st' = st, Draws, call.method # "idle",
           client' = client \/ (Heir(client', st) /\ client'.encrypted = client.encrypted),
           IsCall(call', profile.max_block_lines),
           call'.method = call.method, call'.cmd = call.cmd, call'.step = call.step,
           call.cmd.verb = "POST" => call'.arg = call.arg,
           call'.reading = "handshake" => call.method = "connect",
           call.method = "connect" /\ st.encrypted => IsPlain(call'.got),
           UNCHANGED <<outcome, c2s>>
    PROVE  Core'
PROOF
<1>1. Heir(client, st)
  BY DEF Core, CallFine
<1>2. Heir(client', st) /\ client'.encrypted = client.encrypted
  BY <1>1
<1>3. CallFine'
  BY <1>2 DEF Core, CallFine, Safe
<1>4. ClientFine' /\ OutcomeFine' /\ WireFine' /\ ProfileFine'
  BY <1>2 DEF Core, ClientFine, OutcomeFine, WireFine, ProfileFine
<1>5. TalkFine'
  BY DrawsLines DEF Core, TalkFine
<1> QED BY <1>3, <1>4, <1>5 DEF Core

\* A method that fails its own checks.
LEMMA RefuseKeeps ==
    ASSUME Core, profile' = profile, st' = st, Draws, NEW method, NEW result \in Results,
           Refuse(method, result)
    PROVE  Core'
PROOF
<1>1. OutcomeFine'
  BY DEF Refuse, OutcomeFine
<1>2. ClientFine' /\ CallFine' /\ WireFine' /\ ProfileFine'
  BY DEF Refuse, Core, ClientFine, CallFine, WireFine, ProfileFine
<1>3. TalkFine'
  BY DrawsLines DEF Refuse, Core, TalkFine
<1> QED BY <1>1, <1>2, <1>3 DEF Core

\* One field of a client set to what it may hold.
LEMMA Heirs ==
    ASSUME NEW c, NEW s, Heir(c, s), NEW v
    PROVE  /\ Heir([c EXCEPT !.posting_allowed = v], s)
           /\ (c.encrypted => "STARTTLS" \notin v) => Heir([c EXCEPT !.capabilities = v], s)
           /\ Heir([c EXCEPT !.authenticated = v], s)
           /\ Heir([c EXCEPT !.group = v], s)
           /\ Heir([c EXCEPT !.desynchronised = v], s)
           /\ v \in {"unknown", "served", "standard"} => Heir([c EXCEPT !.overview_fmt = v], s)
           /\ v \in {"Unknown", "Over", "XOver", "Unavailable"} => Heir([c EXCEPT !.overview_style = v], s)
           /\ v \in {"Unknown", "Hdr", "XHdr", "Unavailable"} => Heir([c EXCEPT !.header_style = v], s)
BY DEF Heir, IsClient, ClientFields

\* None of these fields is the one that says the link is encrypted.
LEMMA SameLink ==
    ASSUME NEW c, IsClient(c), NEW v
    PROVE  /\ [c EXCEPT !.posting_allowed = v].encrypted = c.encrypted
           /\ [c EXCEPT !.capabilities = v].encrypted = c.encrypted
           /\ [c EXCEPT !.authenticated = v].encrypted = c.encrypted
           /\ [c EXCEPT !.group = v].encrypted = c.encrypted
           /\ [c EXCEPT !.desynchronised = v].encrypted = c.encrypted
           /\ [c EXCEPT !.overview_fmt = v].encrypted = c.encrypted
           /\ [c EXCEPT !.overview_style = v].encrypted = c.encrypted
           /\ [c EXCEPT !.header_style = v].encrypted = c.encrypted
BY DEF IsClient, ClientFields

\* A client that starts over.
LEMMA NewClientFine ==
    ASSUME NEW posting, NEW encrypted, NEW s, encrypted => s.encrypted
    PROVE  Heir(NewClient(posting, encrypted), s)
BY DEF Heir, IsClient, ClientFields, NewClient

\* A call that waits for the next line of its block, with its lines and its argument.
LEMMA CallsStay ==
    ASSUME NEW k, NEW most, IsCall(k, most), NEW v
    PROVE  /\ v \in {"block", "handshake"} => IsCall([k EXCEPT !.reading = v], most)
           /\ IsCall([k EXCEPT !.reading = "block", !.arg = v], most)
           /\ IsList(v) /\ Len(v) <= most => IsCall([k EXCEPT !.got = v], most)
           /\ \A t \in {[k EXCEPT !.reading = v], [k EXCEPT !.reading = "block", !.arg = v],
                        [k EXCEPT !.got = v]} :
                 t.method = k.method /\ t.cmd = k.cmd /\ t.step = k.step
BY DEF IsCall

-------------------------------------------------------------------------------
(* The steps of a method: each keeps what holds of the client and its call.    *)

\* A step of the client: the profile and the session are not its to change.
Calm == Core /\ profile' = profile /\ st' = st /\ Draws

LEMMA CalmIsOnward == Calm => Core /\ Onward
BY DEF Calm, Core, Onward

\* A method that is waiting has a client.
LEMMA WaitingHasClient ==
    ASSUME Calm, call.reading # "nothing"
    PROVE  /\ call.method # "idle" /\ Heir(client, st) /\ IsClient(client)
           /\ call.cmd.verb \in Opening \/ call.reading = "handshake" => call.method = "connect"
           /\ call.method = "connect" /\ st.encrypted => IsLines(s2c) /\ IsPlain(call.got)
PROOF
<1>1. IF call.method = "idle" THEN call = Idle ELSE Heir(client, st)
  BY DEF Calm, Core, CallFine
<1>2. Idle.reading = "nothing"
  BY DEF Idle
<1>3. TalkFine
  BY DEF Calm, Core
<1> QED BY <1>1, <1>2, <1>3 DEF Heir, TalkFine

\* Every code stands for a result.
LEMMA CodesStand == \A code : FromStatus(code) \in Results
BY DEF FromStatus, Results, ServerErrors

LEMMA CapabilitiesAsked ==
    ASSUME Core, Onward, call.method = "connect", NEW c, Heir(c, st'), NEW step \in CapabilitySteps,
           AskCapabilities(c, step)
    PROVE  Core'
PROOF
<1> DEFINE cmd == Command("CAPABILITIES", NoArg)
<1>1. cmd.verb = "CAPABILITIES"
  BY DEF Command
<1>2. Say(c, "connect", step, cmd, NoArg)
  BY DEF AskCapabilities
<1> HIDE DEF cmd
<1> QED BY <1>1, <1>2, SayKeeps DEF Asking

\* A command that is neither CAPABILITIES nor AUTHINFO.
LEMMA PlainSaid ==
    ASSUME Calm, NEW c, Heir(c, st), NEW method, method # "idle", NEW step, NEW verb,
           \/ verb \notin Opening /\ method # "connect"
           \/ verb \in {"MODE", "STARTTLS"} /\ method = "connect" /\ call.method = "connect",
           NEW a, verb = "article" => a.groups \in Seq(STRING),
           NEW arg, verb = "POST" => arg.groups \in Seq(STRING),
           Say(c, method, step, Command(verb, a), arg)
    PROVE  Core'
PROOF
<1> DEFINE cmd == Command(verb, a)
<1>1. cmd.verb = verb /\ cmd.arg = a
  BY DEF Command
<1>2. Say(c, method, step, cmd, arg) /\ Core /\ Onward /\ Heir(c, st')
  BY CalmIsOnward DEF Calm
<1>3. verb \notin {"CAPABILITIES", "AUTHINFO"}
  BY DEF Opening, Asking
<1>4. /\ verb \in Opening => method = "connect"
      /\ method = "connect" => call.method = "connect" /\ verb \in Asking
  BY DEF Asking
<1> HIDE DEF cmd
<1> QED BY <1>1, <1>2, <1>3, <1>4, SayKeeps

LEMMA Returned ==
    ASSUME Calm, NEW c, c = NoClient \/ Heir(c, st), NEW result \in Results, Return(c, result)
    PROVE  Core'
BY ReturnKeeps DEF Calm

LEMMA LoginAsked ==
    ASSUME Calm, call.method = "connect", NEW c, Heir(c, st), Safe(c, profile),
           AskUser(c) \/ AskPass(c)
    PROVE  Core'
PROOF
<1>1. Core /\ Onward /\ Heir(c, st')
  BY CalmIsOnward DEF Calm
<1>2. profile.user \in Users /\ profile.pass \in Users
  BY <1>1 DEF Core, ProfileFine
<1>3. \E step, cmd : /\ cmd.verb = "AUTHINFO" /\ cmd.arg.value \in Users
                     /\ Say(c, "connect", step, cmd, NoArg)
  BY <1>2 DEF AskUser, AskPass, Command
<1> QED BY <1>1, <1>3, SayKeeps DEF Asking

(***************************************************************************)
(* authenticate() sends nothing in the clear unless it may.                *)
(***************************************************************************)
LEMMA Authenticates ==
    ASSUME Calm, call.method = "connect", NEW c, Heir(c, st), Authenticate(c)
    PROVE  Core'
PROOF
<1>1. \/ Return(c, "Ok") \/ Return(c, "PlaintextAuthenticationRefused")
      \/ (c.encrypted \/ profile.allow_plaintext) /\ AskUser(c)
  BY DEF Authenticate
<1>2. {"Ok", "PlaintextAuthenticationRefused"} \subseteq Results
  BY DEF Results, ServerErrors
<1> QED BY <1>1, <1>2, Returned, LoginAsked DEF Safe

LEMMA CapabilitiesRead ==
    ASSUME Calm, call.method = "connect", NEW c, Heir(c, st), call.step \in CapabilitySteps,
           AfterCapabilities(c)
    PROVE  Core'
PROOF
<1>1. Core /\ Onward /\ Heir(c, st')
  BY CalmIsOnward DEF Calm
<1>2. {"Ok", "Tls"} \subseteq Results
  BY DEF Results, FatalErrors
<1>3. CASE call.step = "handshake"
  <2>1. EnterReaderMode(c) \/ Authenticate(c)
    BY <1>3 DEF AfterCapabilities, AfterHandshake
  <2> QED BY <2>1, PlainSaid, Authenticates DEF EnterReaderMode
<1>4. CASE call.step = "again"
  BY <1>4, Authenticates DEF AfterCapabilities
<1>5. CASE call.step = "clear"
  <2>1. Return(c, "Tls") \/ Say(c, "connect", "starttls", Command("STARTTLS", NoArg), NoArg)
    BY <1>5 DEF AfterCapabilities, OfferStartTls
  <2> QED BY <1>2, <2>1, Returned, PlainSaid
<1>6. CASE call.step = "upgraded"
  BY <1>1, <1>6, CapabilitiesAsked DEF AfterCapabilities, Handshake, CapabilitySteps
<1>7. CASE call.step = "relisted"
  BY <1>2, <1>7, Returned DEF AfterCapabilities
<1> QED BY <1>3, <1>4, <1>5, <1>6, <1>7 DEF CapabilitySteps

\* overview_streaming and header_field_streaming know which verb to try.
LEMMA Streams ==
    ASSUME Calm, NEW c, Heir(c, st), NEW range
    PROVE  /\ OverviewStyle(c) # "Unavailable" /\ OverviewStreaming(c, range) => Core'
           /\ HeaderStyle(c) # "Unavailable" /\ HeaderFieldStreaming(c, range) => Core'
PROOF
<1>1. OverviewStyle(c) \in {"Unknown", "Over", "XOver", "Unavailable"}
  BY DEF Heir, IsClient, OverviewStyle
<1>2. HeaderStyle(c) \in {"Unknown", "Hdr", "XHdr", "Unavailable"}
  BY DEF Heir, IsClient, HeaderStyle
<1>3. ASSUME OverviewStyle(c) # "Unavailable", OverviewStreaming(c, range) PROVE Core'
  <2>1. \/ Say(c, "overview", "overview", Command("XOVER", range), range)
        \/ Say(c, "overview", "overview", Command("OVER", range), range)
    BY <1>1, <1>3 DEF OverviewStreaming
  <2> QED BY <2>1, PlainSaid DEF Opening, Asking
<1>4. ASSUME HeaderStyle(c) # "Unavailable", HeaderFieldStreaming(c, range) PROVE Core'
  <2>1. \/ Say(c, "header_field", "header_field", Command("XHDR", range), range)
        \/ Say(c, "header_field", "header_field", Command("HDR", range), range)
    BY <1>2, <1>4 DEF HeaderFieldStreaming
  <2> QED BY <2>1, PlainSaid DEF Opening, Asking
<1> QED BY <1>3, <1>4

LEMMA FormatKnown ==
    ASSUME Calm, NEW c, Heir(c, st), AfterFormat(c)
    PROVE  Core'
PROOF
<1>1. \/ Return(c, "Ok") \/ Return(c, "CommandNotSupported")
      \/ OverviewStyle(c) # "Unavailable" /\ OverviewStreaming(c, call.arg)
  BY DEF AfterFormat
<1>2. {"Ok", "CommandNotSupported"} \subseteq Results
  BY DEF Results, ServerErrors
<1> QED BY <1>1, <1>2, Returned, Streams

\* A status line that announces a block.
LEMMA BlockAnnounced ==
    ASSUME Calm, call.reading # "nothing", NEW c, Heir(c, st), c.encrypted = client.encrypted,
           ReadBlock(c)
    PROVE  Core'
PROOF
<1>1. call.method # "idle"
  BY WaitingHasClient
<1> DEFINE k == [call EXCEPT !.reading = "block"]
<1>2. client' = c /\ call' = k /\ outcome' = outcome /\ c2s' = c2s
  BY DEF ReadBlock
<1>3. IsCall(call, profile.max_block_lines)
  BY DEF Calm, Core, CallFine
<1>4. /\ IsCall(k, profile.max_block_lines) /\ k.method = call.method /\ k.cmd = call.cmd
      /\ k.step = call.step /\ k.arg = call.arg /\ k.reading = "block" /\ k.got = call.got
  BY <1>3 DEF IsCall
<1>5. call.method = "connect" /\ st.encrypted => IsPlain(call.got)
  BY WaitingHasClient
<1> HIDE DEF k
<1> QED BY <1>1, <1>2, <1>4, <1>5, StayKeeps DEF Calm

\* A call that goes on with another field set, its client as it is.
LEMMA CallGoesOn ==
    ASSUME Calm, call.reading # "nothing", NEW k, IsCall(k, profile.max_block_lines),
           k.method = call.method, k.cmd = call.cmd, k.step = call.step,
           call.cmd.verb = "POST" => k.arg = call.arg,
           k.reading = "handshake" => call.method = "connect",
           k.got # call.got => (call.method = "connect" /\ st.encrypted => IsPlain(k.got)),
           call' = k, UNCHANGED <<client, outcome, c2s>>
    PROVE  Core'
BY WaitingHasClient, StayKeeps DEF Calm

\* A method that gives up on the connection.
LEMMA Failed ==
    ASSUME Calm, call.reading # "nothing", NEW c, Heir(c, st), NEW error \in Results, Fail(c, error)
    PROVE  Core'
PROOF
<1>1. "Ok" \in Results
  BY DEF Results
<1>2. \E d \in {NoClient, c}, result \in {"Ok", error} : Return(d, result)
  BY DEF Fail
<1> QED BY <1>1, <1>2, Returned

LEMMA GivesUpInDisorder ==
    ASSUME Calm, call.reading # "nothing", NEW error \in Results, Fail(Desynchronised(client), error)
    PROVE  Core'
PROOF
<1> DEFINE c == Desynchronised(client)
<1>1. Heir(c, st)
  BY WaitingHasClient, Heirs DEF Desynchronised
<1>2. Fail(c, error)
  OBVIOUS
<1> HIDE DEF c
<1> QED BY <1>1, <1>2, Failed

-------------------------------------------------------------------------------
(* Status lines.                                                               *)

\* Reading one.
LEMMA StatusIsCalm ==
    ASSUME Core, st' = st, NEW verbs, StatusFor(verbs)
    PROVE  /\ Calm /\ call.reading # "nothing" /\ call.method # "idle" /\ Heir(client, st)
           /\ IsClient(client) /\ call.cmd.verb \in verbs
           /\ call.cmd.verb \in Opening => call.method = "connect"
           /\ IsCall(call, profile.max_block_lines)
PROOF
<1>1. Calm /\ call.reading # "nothing" /\ call.cmd.verb \in verbs
  BY DEF StatusFor, Calm, Draws
<1> QED BY <1>1, WaitingHasClient DEF Core, CallFine

\* What a reply that is read for its code alone, or not understood, comes to.
LEMMA CodeReturned ==
    ASSUME Calm, Heir(client, st), NEW result,
           result \in {"Ok", "Server", "Tls", "UnexpectedResponse", "PostingNotAllowed", "PostingRejected",
                       "AuthenticationRejected"} \/ \E code : result = FromStatus(code),
           Return(client, result)
    PROVE  Core'
PROOF
<1>1. result \in Results
  BY CodesStand DEF Results, ServerErrors, FatalErrors
<1> QED BY <1>1, Returned

\* Opening a session.
LEMMA GreetingKeeps == ASSUME Core, st' = st, GreetingStatus PROVE Core'
PROOF
<1>1. Calm /\ Heir(client, st) /\ call.method = "connect"
  BY StatusIsCalm DEF GreetingStatus, Opening
<1>2. Core /\ Onward
  BY <1>1, CalmIsOnward
<1> DEFINE c == NewClient(Line.code = 200, client.encrypted)
<1>3. Heir(c, st')
  BY <1>1, NewClientFine DEF Heir
<1>4. Return(client, "Server") \/ AskCapabilities(c, "clear") \/ AskCapabilities(c, "handshake")
  BY DEF GreetingStatus, AfterGreeting, Handshake
<1> HIDE DEF c
<1> QED BY <1>1, <1>2, <1>3, <1>4, CodeReturned, CapabilitiesAsked DEF CapabilitySteps

LEMMA CapabilitiesKeep == ASSUME Core, st' = st, CapabilitiesStatus PROVE Core'
PROOF
<1>1. /\ Calm /\ Heir(client, st) /\ call.reading # "nothing"
      /\ call.cmd.verb = "CAPABILITIES" /\ call.method = "connect"
  BY StatusIsCalm DEF CapabilitiesStatus, Opening, Asking
<1>2. call.step \in CapabilitySteps
  BY <1>1 DEF Core, CallFine
<1> DEFINE c == [client EXCEPT !.capabilities = {}]
<1>3. Heir(c, st)
  BY <1>1, Heirs
<1>4. \/ ReadBlock(client) \/ AfterCapabilities(c)
      \/ Return(client, "Ok") \/ Return(client, "UnexpectedResponse")
  BY DEF CapabilitiesStatus
<1> HIDE DEF c
<1> QED BY <1>1, <1>2, <1>3, <1>4, BlockAnnounced, CapabilitiesRead, CodeReturned

LEMMA ModeKeeps == ASSUME Core, st' = st, ModeStatus PROVE Core'
PROOF
<1>1. Calm /\ Heir(client, st) /\ call.method = "connect"
  BY StatusIsCalm DEF ModeStatus, Opening, Asking
<1>2. Core /\ Onward
  BY <1>1, CalmIsOnward
<1> DEFINE c == [client EXCEPT !.posting_allowed = (Line.code = 200)]
<1>3. Heir(c, st') /\ Heir(client, st')
  BY <1>1, Heirs DEF Calm
<1>4. \/ Return(client, FromStatus(Line.code))
      \/ AskCapabilities(c, "again") \/ AskCapabilities(client, "again")
  BY DEF ModeStatus
<1> HIDE DEF c
<1> QED BY <1>1, <1>2, <1>3, <1>4, CodeReturned, CapabilitiesAsked DEF CapabilitySteps

LEMMA AuthKeeps == ASSUME Core, st' = st, AuthStatus PROVE Core'
PROOF
<1>1. Calm /\ Heir(client, st) /\ call.cmd.verb = "AUTHINFO" /\ call.method = "connect"
  BY StatusIsCalm DEF AuthStatus, Opening, Asking
<1>2. Core /\ Onward /\ Safe(client, profile)
  BY <1>1, CalmIsOnward DEF Core, CallFine
<1> DEFINE c == [client EXCEPT !.authenticated = TRUE]
<1>3. Heir(c, st) /\ Heir(c, st')
  BY <1>1, Heirs DEF Calm
<1>4. \/ Return(c, "Ok") \/ AskCapabilities(c, "relisted") \/ AskPass(client)
      \/ Return(client, "AuthenticationRejected") \/ Return(client, FromStatus(Line.code))
  BY DEF AuthStatus
<1>5. "Ok" \in Results
  BY DEF Results
<1> HIDE DEF c
<1> QED BY <1>1, <1>2, <1>3, <1>4, <1>5, Returned, CodeReturned, CapabilitiesAsked, LoginAsked
       DEF CapabilitySteps

LEMMA StartTlsKeeps == ASSUME Core, st' = st, StartTlsStatus PROVE Core'
PROOF
<1>1. /\ Calm /\ Heir(client, st) /\ call.reading # "nothing"
      /\ IsCall(call, profile.max_block_lines) /\ call.method = "connect"
      /\ call.cmd.verb = "STARTTLS"
  BY StatusIsCalm DEF StartTlsStatus, Opening, Asking
<1> DEFINE k == [call EXCEPT !.reading = "handshake"]
<1>2. /\ IsCall(k, profile.max_block_lines) /\ k.method = call.method /\ k.cmd = call.cmd
      /\ k.step = call.step /\ k.got = call.got
  BY <1>1 DEF IsCall
<1>3. Return(client, "Tls") \/ (call' = k /\ UNCHANGED <<client, outcome, c2s>>)
  BY DEF StartTlsStatus
<1> HIDE DEF k
<1> QED BY <1>1, <1>2, <1>3, CodeReturned, CallGoesOn

\* The selection.
LEMMA GroupKeeps == ASSUME Core, st' = st, GroupStatus PROVE Core'
PROOF
<1>1. Calm /\ Heir(client, st)
  BY StatusIsCalm DEF GroupStatus
<1> DEFINE c == [client EXCEPT !.group = Line.arg]
<1>2. Heir(c, st)
  BY <1>1, Heirs
<1>3. Return(c, "Ok") \/ Return(client, FromStatus(Line.code))
  BY DEF GroupStatus
<1>4. "Ok" \in Results
  BY DEF Results
<1> HIDE DEF c
<1> QED BY <1>1, <1>2, <1>3, <1>4, Returned, CodeReturned

LEMMA ListGroupKeeps == ASSUME Core, st' = st, ListGroupStatus PROVE Core'
PROOF
<1>1. /\ Calm /\ Heir(client, st) /\ call.reading # "nothing"
      /\ IsCall(call, profile.max_block_lines) /\ call.cmd.verb = "LISTGROUP"
  BY StatusIsCalm DEF ListGroupStatus
<1> DEFINE k == [call EXCEPT !.reading = "block", !.arg = Line.arg]
<1>2. /\ IsCall(k, profile.max_block_lines) /\ k.method = call.method /\ k.cmd = call.cmd
      /\ k.step = call.step /\ k.got = call.got /\ k.reading = "block"
  BY <1>1 DEF IsCall
<1>3. Return(client, FromStatus(Line.code)) \/ (call' = k /\ UNCHANGED <<client, outcome, c2s>>)
  BY DEF ListGroupStatus
<1> HIDE DEF k
<1> QED BY <1>1, <1>2, <1>3, CodeReturned, CallGoesOn

\* The layout of overview lines, and the verbs that ask for them.
LEMMA FormatKeeps == ASSUME Core, st' = st, FormatStatus PROVE Core'
PROOF
<1>1. Calm /\ Heir(client, st) /\ call.reading # "nothing"
  BY StatusIsCalm DEF FormatStatus
<1> DEFINE c == [client EXCEPT !.overview_fmt = "standard"]
<1>2. Heir(c, st)
  BY <1>1, Heirs
<1>3. ReadBlock(client) \/ AfterFormat(c)
  BY DEF FormatStatus
<1> HIDE DEF c
<1> QED BY <1>1, <1>2, <1>3, BlockAnnounced, FormatKnown

LEMMA OverviewKeeps == ASSUME Core, st' = st, OverviewStatus PROVE Core'
PROOF
<1>1. Calm /\ Heir(client, st) /\ IsClient(client) /\ call.reading # "nothing"
  BY StatusIsCalm DEF OverviewStatus
<1> DEFINE c == [client EXCEPT !.overview_style = IF call.cmd.verb = "XOVER" THEN "XOver" ELSE "Over"]
           x == [client EXCEPT !.overview_style = "XOver"]
           u == [client EXCEPT !.overview_style = "Unavailable"]
<1>2. Heir(c, st) /\ Heir(x, st) /\ Heir(u, st)
  BY <1>1, Heirs
<1>3. c.encrypted = client.encrypted /\ OverviewStyle(x) # "Unavailable"
  BY <1>1 DEF IsClient, ClientFields, OverviewStyle
<1>4. \/ ReadBlock(c) \/ OverviewStreaming(x, call.arg)
      \/ Return(u, FromStatus(Line.code)) \/ Return(client, FromStatus(Line.code))
  BY DEF OverviewStatus
<1>5. FromStatus(Line.code) \in Results
  BY CodesStand
<1> HIDE DEF c, x, u
<1> QED BY <1>1, <1>2, <1>3, <1>4, <1>5, BlockAnnounced, Streams, Returned

LEMMA HeaderKeeps == ASSUME Core, st' = st, HeaderStatus PROVE Core'
PROOF
<1>1. Calm /\ Heir(client, st) /\ IsClient(client) /\ call.reading # "nothing"
  BY StatusIsCalm DEF HeaderStatus
<1> DEFINE c == [client EXCEPT !.header_style = IF call.cmd.verb = "XHDR" THEN "XHdr" ELSE "Hdr"]
           x == [client EXCEPT !.header_style = "XHdr"]
           u == [client EXCEPT !.header_style = "Unavailable"]
<1>2. Heir(c, st) /\ Heir(x, st) /\ Heir(u, st)
  BY <1>1, Heirs
<1>3. c.encrypted = client.encrypted /\ HeaderStyle(x) # "Unavailable"
  BY <1>1 DEF IsClient, ClientFields, HeaderStyle
<1>4. \/ ReadBlock(c) \/ HeaderFieldStreaming(x, call.arg)
      \/ Return(u, FromStatus(Line.code)) \/ Return(client, FromStatus(Line.code))
  BY DEF HeaderStatus
<1>5. FromStatus(Line.code) \in Results
  BY CodesStand
<1> HIDE DEF c, x, u
<1> QED BY <1>1, <1>2, <1>3, <1>4, <1>5, BlockAnnounced, Streams, Returned

\* Replies read for a block or for their code.
LEMMA ListingsKeep ==
    ASSUME Core, st' = st, ListingStatus \/ FetchStatus \/ HelpStatus PROVE Core'
PROOF
<1>1. Calm /\ Heir(client, st) /\ call.reading # "nothing"
  BY StatusIsCalm DEF ListingStatus, FetchStatus, HelpStatus
<1>2. ReadBlock(client) \/ Return(client, FromStatus(Line.code))
  BY DEF ListingStatus, FetchStatus, HelpStatus
<1> QED BY <1>1, <1>2, BlockAnnounced, CodeReturned

LEMMA CodesKeep ==
    ASSUME Core, st' = st, StatStatus \/ DateStatus \/ PostedStatus PROVE Core'
PROOF
<1>1. Calm /\ Heir(client, st)
  BY StatusIsCalm DEF StatStatus, DateStatus, PostedStatus
<1>2. \/ Return(client, "Ok") \/ Return(client, "PostingRejected")
      \/ Return(client, FromStatus(Line.code))
  BY DEF StatStatus, DateStatus, PostedStatus
<1> QED BY <1>1, <1>2, CodeReturned

LEMMA PostKeeps == ASSUME Core, st' = st, PostStatus PROVE Core'
PROOF
<1>1. Calm /\ Heir(client, st) /\ call.cmd.verb = "POST"
  BY StatusIsCalm DEF PostStatus
<1>3. call.arg.groups \in Seq(STRING)
  BY <1>1 DEF Core, CallFine
<1>2. \/ Say(client, "post", "article", Command("article", call.arg), call.arg)
      \/ Return(client, "PostingNotAllowed") \/ Return(client, FromStatus(Line.code))
  BY DEF PostStatus
<1> QED BY <1>1, <1>2, <1>3, PlainSaid, CodeReturned DEF Opening, Asking

LEMMA QuitKeeps == ASSUME Core, st' = st, QuitStatus PROVE Core'
PROOF
<1>1. Calm
  BY StatusIsCalm DEF QuitStatus
<1>2. Return(NoClient, "Ok") /\ "Ok" \in Results
  BY DEF QuitStatus, Results
<1> QED BY <1>1, <1>2, Returned

(***************************************************************************)
(* Every status line leaves the client as it has to be.                    *)
(***************************************************************************)
LEMMA StatusKeeps == ASSUME Core, st' = st, ReadStatus PROVE Core'
BY GreetingKeeps, CapabilitiesKeep, ModeKeeps, AuthKeeps, StartTlsKeeps, GroupKeeps, ListingsKeep,
   FormatKeeps, OverviewKeeps, HeaderKeeps, CodesKeep, ListGroupKeeps, PostKeeps, QuitKeeps
   DEF ReadStatus

-------------------------------------------------------------------------------
(* Blocks, and reads that fail.                                                *)

LEMMA BlockLineKeeps == ASSUME Core, st' = st, BlockLine PROVE Core'
PROOF
<1> DEFINE text == IF Line.kind = "data" THEN Line.text ELSE Label("status")
           got == Append(call.got, text)
           k == [call EXCEPT !.got = got]
<1>1. /\ call.reading = "block"
      /\ \/ TooManyLines(got) /\ Fail(Desynchronised(client), "BlockTooLarge")
         \/ /\ ~TooManyLines(got)
            /\ call' = k /\ UNCHANGED <<client, outcome, c2s, profile>>
  BY DEF BlockLine, InBlock
<1>2. Calm
  BY <1>1 DEF Fail, Calm, Draws, BlockLine, InBlock
<1>3. IsCall(call, profile.max_block_lines) /\ IsList(call.got) /\ profile.max_block_lines \in Nat
  BY DEF Core, CallFine, IsCall, ProfileFine
<1>8. ASSUME call.method = "connect", st.encrypted PROVE IsPlain(got)
  <2>1. IsLines(s2c) /\ IsPlain(call.got)
    BY <1>1, <1>2, <1>8, WaitingHasClient
  <2>2. s2c # <<>>
    BY DEF BlockLine, InBlock
  <2>3. Line.kind = "data" => Line.text.label # "STARTTLS"
    BY <2>1, <2>2, ListsGrow DEF IsLines, Line
  <2>4. text.label # "STARTTLS"
    BY <2>3 DEF Label
  <2> HIDE DEF text
  <2> QED BY <1>3, <2>1, <2>4, LinesGrow
<1>4. IsList(got) /\ Len(got) \in Nat
  BY <1>3, ListsGrow
<1> HIDE DEF got, text
<1>5. ~TooManyLines(got) => Len(got) <= profile.max_block_lines
  BY <1>3, <1>4 DEF TooManyLines
<1>6. /\ ~TooManyLines(got) => IsCall(k, profile.max_block_lines)
      /\ k.method = call.method /\ k.cmd = call.cmd /\ k.step = call.step
      /\ k.arg = call.arg /\ k.reading = call.reading /\ k.got = got
  BY <1>3, <1>4, <1>5 DEF IsCall
<1>7. "BlockTooLarge" \in Results
  BY DEF Results, FatalErrors
<1> HIDE DEF k
<1> QED BY <1>1, <1>2, <1>6, <1>7, <1>8, CallGoesOn, GivesUpInDisorder

LEMMA BlockEndKeeps == ASSUME Core, st' = st, BlockEnd PROVE Core'
PROOF
<1>1. Calm /\ call.reading # "nothing" /\ BlockDone(call.got)
  BY DEF BlockEnd, InBlock, Calm, Draws
<1>2. /\ Heir(client, st)
      /\ call.cmd.verb = "CAPABILITIES" => call.step \in CapabilitySteps /\ call.method = "connect"
      /\ call.method = "connect" /\ st.encrypted => IsPlain(call.got)
  BY <1>1, WaitingHasClient DEF Core, CallFine, Opening, Asking
<1> DEFINE labels == {call.got[i].label : i \in DOMAIN call.got}
           c == [client EXCEPT !.capabilities = labels]
           f == [client EXCEPT !.overview_fmt = "served"]
           g == [client EXCEPT !.group = call.arg]
<1>6. call.method = "connect" /\ client.encrypted => "STARTTLS" \notin labels
  BY <1>2 DEF IsPlain, Heir
<1> HIDE DEF labels
<1>3. (call.method = "connect" => Heir(c, st)) /\ Heir(f, st) /\ Heir(g, st)
  BY <1>2, <1>6, Heirs
<1>4. \/ call.cmd.verb = "CAPABILITIES" /\ AfterCapabilities(c)
      \/ AfterFormat(f) \/ Return(g, "Ok") \/ Return(client, "Ok")
  BY <1>1 DEF BlockDone, labels
<1>5. "Ok" \in Results
  BY DEF Results
<1> HIDE DEF c, f, g
<1> QED BY <1>1, <1>2, <1>3, <1>4, <1>5, CapabilitiesRead, FormatKnown, Returned

LEMMA FailuresKeep ==
    ASSUME Core, st' = st, ReadFails \/ BlockCancelled \/ ReadTimeout \/ ReadReset
    PROVE  Core'
PROOF
<1>1. /\ call.reading # "nothing"
      /\ \E error \in FatalErrors : Fail(client, error) \/ Fail(Desynchronised(client), error)
  BY DEF ReadFails, OverlongLine, NotAStatusLine, EndOfStream, SendRefused, BlockCancelled, Stopped,
         ReadTimeout, ReadReset, Blocked, Reading, FatalErrors
<1>2. Calm
  <2>1. Draws
    BY DEF ReadFails, OverlongLine, NotAStatusLine, EndOfStream, SendRefused, BlockCancelled,
           ReadTimeout, ReadReset, Draws
  <2> QED BY <1>1, <2>1 DEF Fail, Calm
<1>3. FatalErrors \subseteq Results
  BY DEF Results
<1> QED BY <1>1, <1>2, <1>3, WaitingHasClient, Failed, GivesUpInDisorder

\* The client reads.
LEMMA ReadsKeep == ASSUME Core, st' = st, ClientReads PROVE Core'
BY StatusKeeps, BlockLineKeeps, BlockEndKeeps, FailuresKeep DEF ClientReads, ReadBlockLine

-------------------------------------------------------------------------------
(* The calls.                                                                  *)

\* One call of a public method that asks at once.
LEMMA Asked ==
    ASSUME Calm, Heir(client, st), NEW method, method \notin {"idle", "connect"}, NEW verb,
           verb \notin Opening, verb # "article", NEW a,
           NEW arg, verb = "POST" => arg.groups \in Seq(STRING),
           Ask(method, Command(verb, a), arg)
    PROVE  Core'
BY PlainSaid DEF Ask

LEMMA FormatAsked ==
    ASSUME Calm, Heir(client, st), NEW method, method \notin {"idle", "connect"}, NEW range,
           AskOverviewFmt(method, range)
    PROVE  Core'
BY PlainSaid DEF AskOverviewFmt, Opening, Asking

\* One that is refused by the client itself.
LEMMA Refused ==
    ASSUME Calm, NEW method, NEW result,
           result \in {"Ok", "NoGroupSelected", "CommandNotSupported", "PostingNotAllowed", "Proto"},
           Refuse(method, result)
    PROVE  Core'
PROOF
<1>1. result \in Results
  BY DEF Results, ServerErrors, FatalErrors
<1> QED BY <1>1, RefuseKeeps DEF Calm

LEMMA InvokeKeeps ==
    ASSUME Core, st' = st, NEW m, Callable(m), Invoke(m)
    PROVE  Core'
PROOF
<1>1. Calm /\ Heir(client, st)
  <2>1. client.up /\ Calm
    BY DEF Invoke, Local, Calm, Draws
  <2>2. ~NoClient.up
    BY DEF NoClient
  <2> QED BY <2>1, <2>2 DEF Core, ClientFine
<1>2. CASE m.method = "select_group"
  <2>1. SelectGroup(m.arg)
    BY <1>2 DEF Invoke
  <2> QED BY <1>1, <2>1, Asked DEF SelectGroup, Opening, Asking
<1>3. CASE m.method \in {"list_groups", "list_group_descriptions", "group_creation_times",
                         "available_header_fields"}
  <2>1. \E method \in Methods : \E keyword, pattern : List(method, keyword, pattern)
    BY <1>3 DEF Invoke, ListGroups, ListGroupDescriptions, GroupCreationTimes, AvailableHeaderFields,
                Methods
  <2> QED BY <1>1, <2>1, Asked DEF List, Methods, Opening, Asking
<1>4. CASE m.method = "overview_format"
  <2>1. Refuse("overview_format", "Ok") \/ AskOverviewFmt("overview_format", NoArg)
    BY <1>4 DEF Invoke, OverviewFormat
  <2> QED BY <1>1, <2>1, Refused, FormatAsked
<1>5. CASE m.method = "overview"
  <2>1. Overview(m.arg)
    BY <1>5 DEF Invoke
  <2>2. \/ Refuse("overview", "NoGroupSelected") \/ Refuse("overview", "CommandNotSupported")
        \/ AskOverviewFmt("overview", m.arg)
        \/ OverviewStyle(client) # "Unavailable" /\ OverviewStreaming(client, m.arg)
    BY <2>1 DEF Overview
  <2> QED BY <1>1, <2>2, Refused, FormatAsked, Streams
<1>6. CASE m.method = "fetch"
  <2>1. Fetch(m.verb, m.arg)
    BY <1>6 DEF Invoke
  <2>2. Refuse("fetch", "NoGroupSelected") \/ Ask("fetch", Command(m.verb, m.arg), m.arg)
    BY <2>1 DEF Fetch
  <2>3. m.verb \in {"ARTICLE", "HEAD", "BODY", "STAT"}
    BY <1>6 DEF Callable, BlockFetchCode
  <2> QED BY <1>1, <2>2, <2>3, Refused, Asked DEF Opening, Asking
<1>7. CASE m.method \in {"server_date", "help", "quit"}
  <2>1. ServerDate \/ Help \/ Quit
    BY <1>7 DEF Invoke
  <2> QED BY <1>1, <2>1, Asked DEF ServerDate, Help, Quit, Opening, Asking
<1>8. CASE m.method = "header_field"
  <2>1. HeaderField(m.arg)
    BY <1>8 DEF Invoke
  <2>2. \/ Refuse("header_field", "NoGroupSelected") \/ Refuse("header_field", "CommandNotSupported")
        \/ HeaderStyle(client) # "Unavailable" /\ HeaderFieldStreaming(client, m.arg)
    BY <2>1 DEF HeaderField
  <2> QED BY <1>1, <2>2, Refused, Streams
<1>9. CASE m.method = "article_numbers"
  <2>1. ArticleNumbers(m.arg)
    BY <1>9 DEF Invoke
  <2>2. \/ Refuse("article_numbers", "NoGroupSelected")
        \/ \E a : Ask("article_numbers", Command("LISTGROUP", a), NoArg)
    BY <2>1 DEF ArticleNumbers
  <2> QED BY <1>1, <2>2, Refused, Asked DEF Opening, Asking
<1>10. CASE m.method = "step"
  <2>1. Step(m.verb)
    BY <1>10 DEF Invoke
  <2>2. Refuse("step", "NoGroupSelected") \/ Ask("step", Command(m.verb, NoArg), NoArg)
    BY <2>1 DEF Step
  <2>3. m.verb \in {"NEXT", "LAST"}
    BY <1>10 DEF Callable
  <2> QED BY <1>1, <2>2, <2>3, Refused, Asked DEF Opening, Asking
<1>11. CASE m.method = "new_groups"
  <2>1. NewGroups(m.arg)
    BY <1>11 DEF Invoke
  <2> QED BY <1>1, <2>1, Asked DEF NewGroups, Opening, Asking
<1>12. CASE m.method = "post"
  <2>1. Post(m.arg)
    BY <1>12 DEF Invoke
  <2>2. \/ Refuse("post", "PostingNotAllowed") \/ Refuse("post", "Proto")
        \/ Ask("post", Command("POST", NoArg), m.arg)
    BY <2>1 DEF Post
  <2>3. m.arg.groups \in Seq(STRING)
    BY <1>12 DEF Callable
  <2> QED BY <1>1, <2>2, <2>3, Refused, Asked DEF Opening, Asking
<1> QED BY <1>2, <1>3, <1>4, <1>5, <1>6, <1>7, <1>8, <1>9, <1>10, <1>11, <1>12
       DEF Methods, Callable

-------------------------------------------------------------------------------
(* The whole conversation.                                                     *)

StageNames(job) ==
    {"date", "format", "headers", "list", "select", "newest", "quit"}
        \cup (IF job.command \in {"doctor", "article"} THEN {"fetch"} ELSE {})

CallerFine ==
    /\ scene \in Scenes /\ profile = scene.profile
    /\ todo \in Seq(StageNames(scene.job))
    /\ srv \in {"off", "greet", "command", "article", "tls"}

(***************************************************************************)
(* The inductive invariant: with the caller and the server where they may  *)
(* be, what holds of the client, its call, what it returned and what is on *)
(* its way to the server.                                                  *)
(***************************************************************************)
Whole == Core /\ CallerFine /\ IsCorpus(corpus)

\* A one-shot command has only calls to make that it can make.
LEMMA StagesAre ==
    ASSUME NEW s \in Scenes
    PROVE  /\ Stages(s.job) \in Seq(StageNames(s.job))
           /\ \A stage \in StageNames(s.job) : \A summary : Callable(CallAt(s.job, stage, summary))
PROOF
<1> DEFINE names == StageNames(s.job)
<1>1. /\ s.job.command \in {"worker", "doctor", "groups", "overview", "article"}
      /\ s.job.command = "article" => s.job.part \in DOMAIN BlockFetchCode
  BY ScenesAssumption
<1>2. Stages(s.job) \in Seq(names)
  <2>1. /\ {"date", "format", "headers", "list", "select", "newest", "quit"} \subseteq names
        /\ s.job.command \in {"doctor", "article"} => "fetch" \in names
    BY DEF StageNames
  <2> HIDE DEF names
  <2>2. CASE s.job.command = "worker"
    BY <2>2 DEF Stages
  <2>3. CASE s.job.command = "doctor"
    <3>1. Probes(s.job.group) \in Seq(names)
      BY <2>1, <2>3 DEF Probes
    <3>2. <<"date", "format", "headers">> \in Seq(names) /\ <<"quit">> \in Seq(names)
      BY <2>1
    <3>3. Stages(s.job) = <<"date", "format", "headers">> \o Probes(s.job.group) \o <<"quit">>
      BY <2>3 DEF Stages
    <3> QED BY <3>1, <3>2, <3>3
  <2>4. CASE s.job.command = "groups"
    BY <2>1, <2>4 DEF Stages
  <2>5. CASE s.job.command = "overview"
    BY <2>1, <2>5 DEF Stages
  <2>6. CASE s.job.command = "article"
    <3>1. Stages(s.job) \in {<<>>, <<"fetch", "quit">>, <<"select", "fetch", "quit">>}
      BY <2>6 DEF Stages
    <3>2. "fetch" \in names /\ "quit" \in names /\ "select" \in names
      BY <2>1, <2>6
    <3>3. /\ <<>> \in Seq(names) /\ <<"fetch", "quit">> \in Seq(names)
          /\ <<"select", "fetch", "quit">> \in Seq(names)
      BY <3>2
    <3> QED BY <3>1, <3>3
  <2> QED BY <1>1, <2>2, <2>3, <2>4, <2>5, <2>6
<1>3. ASSUME NEW stage \in names, NEW summary PROVE Callable(CallAt(s.job, stage, summary))
  <2>1. CASE stage = "fetch"
    <3>1. s.job.command \in {"doctor", "article"}
      BY <2>1 DEF StageNames
    <3>2. CallAt(s.job, stage, summary)
            = [method |-> "fetch", verb |-> IF s.job.command = "doctor" THEN "ARTICLE" ELSE s.job.part,
               arg |-> IF s.job.command = "doctor" THEN ByNumber(summary.high) ELSE s.job.spec]
      BY <2>1, <3>1 DEF CallAt
    <3>3. "ARTICLE" \in DOMAIN BlockFetchCode
      BY DEF BlockFetchCode
    <3> QED BY <1>1, <3>1, <3>2, <3>3 DEF Callable, Methods
  <2>2. CASE stage # "fetch"
    <3>1. stage \in {"date", "format", "headers", "list", "select", "newest", "quit"}
      BY <2>2 DEF StageNames
    <3>2. CallAt(s.job, stage, summary).method \in Methods \ {"fetch", "step", "post"}
      BY <3>1 DEF CallAt, Methods
    <3> QED BY <3>2 DEF Callable
  <2> QED BY <2>1, <2>2
<1> QED BY <1>2, <1>3

LEMMA Remains ==
    ASSUME NEW job, NEW names, "quit" \in names, NEW l \in Seq(names), l # <<>>, NEW result, NEW summary
    PROVE  Remaining(job, l, result, summary) \in Seq(names)
PROOF
<1>1. Remaining(job, l, result, summary) \in {<<"quit">>, <<>>, Tail(l)}
  BY DEF Remaining
<1>2. <<"quit">> \in Seq(names) /\ <<>> \in Seq(names) /\ Tail(l) \in Seq(names)
  OBVIOUS
<1> QED BY <1>1, <1>2

\* At first.
LEMMA WholeBegins == Init => Whole
PROOF
<1> SUFFICES ASSUME Init PROVE Whole
  OBVIOUS
<1>1. scene \in Scenes /\ profile = scene.profile
  BY DEF Init
<1>2. ProfileFine
  BY <1>1, ScenesAssumption DEF ProfileFine
<1>3. ClientFine /\ OutcomeFine
  BY DEF Init, ClientFine, OutcomeFine, Results
<1>4. CallFine
  <2>1. call = Idle
    BY DEF Init
  <2>2. /\ Idle.method = "idle" /\ Idle.cmd.verb = "" /\ Idle.got = <<>> /\ Idle.reading = "nothing"
        /\ DOMAIN Idle = {"method", "step", "cmd", "arg", "reading", "got"}
    BY DEF Idle, Command
  <2>3. IsCall(Idle, profile.max_block_lines)
    <3>1. IsList(Idle.got) /\ Len(Idle.got) = 0
      BY <2>2, ListsBegin
    <3>2. Len(Idle.got) <= profile.max_block_lines
      BY <1>2, <3>1 DEF ProfileFine
    <3>3. Idle.reading \in {"nothing", "status", "block", "refused", "handshake"}
      BY <2>2
    <3> QED BY <2>2, <3>1, <3>2, <3>3 DEF IsCall
  <2> QED BY <2>1, <2>2, <2>3 DEF CallFine
<1>5. WireFine
  <2>1. c2s = <<>> /\ IsList(c2s) /\ Len(c2s) = 0
    BY ListsBegin DEF Init
  <2>2. DOMAIN c2s = 1..0
    BY <2>1, ListsGrow
  <2> QED BY <2>1, <2>2 DEF WireFine, IsWire
<1>6. IsState(st)
  BY DEF Init, IsState, StateFields, NewSession, Users
<1>7. CallerFine
  BY <1>1, StagesAre DEF Init, CallerFine
<1>8. TalkFine
  BY DEF Init, TalkFine, Idle, Command, Opening, Asking
<1>9. IsCorpus(corpus)
  BY ScenesAssumption DEF Init
<1> QED BY <1>2, <1>3, <1>4, <1>5, <1>6, <1>7, <1>8, <1>9 DEF Whole, Core

\* A command taken off the wire leaves what is on it as it was.
LEMMA WireShortens ==
    ASSUME NEW l, NEW s, NEW p, IsWire(l, s, p), l # <<>>
    PROVE  IsWire(Tail(l), s, p) /\ Sayable(Head(l), s, p)
PROOF
<1>1. IsList(l) /\ \A i \in DOMAIN l : Sayable(l[i], s, p)
  BY DEF IsWire
<1>2. /\ IsList(Tail(l)) /\ Head(l) = l[1] /\ 1 \in DOMAIN l
      /\ \A i \in DOMAIN Tail(l) : i + 1 \in DOMAIN l /\ Tail(l)[i] = l[i + 1]
  BY <1>1, ListsGrow
<1>3. Sayable(Head(l), s, p)
  <2>1. Sayable(l[1], s, p)
    BY <1>1, <1>2
  <2> QED BY <1>2, <2>1
<1>4. ASSUME NEW i \in DOMAIN Tail(l) PROVE Sayable(Tail(l)[i], s, p)
  <2>1. Sayable(l[i + 1], s, p)
    BY <1>1, <1>2
  <2> QED BY <1>2, <2>1
<1> QED BY <1>2, <1>3, <1>4 DEF IsWire

\* The client's side stays, the session is as encrypted as it was, and the wire
\* has at most lost a command.
LEMMA ServerKeeps ==
    ASSUME Core, UNCHANGED <<profile, client, call, outcome>>, IsState(st'),
           st'.encrypted = st.encrypted,
           call.method = "connect" /\ st.encrypted /\ IsLines(s2c) => IsLines(s2c'),
           UNCHANGED c2s \/ (c2s # <<>> /\ c2s' = Tail(c2s))
    PROVE  Core'
PROOF
<1>1. \A l : IsWire(l, st, profile) => IsWire(l, st', profile')
  BY DEF IsWire, Sayable, Safe
<1>2. WireFine'
  <2>1. IsWire(c2s, st, profile)
    BY DEF Core, WireFine
  <2>2. c2s # <<>> => IsWire(Tail(c2s), st, profile)
    BY <2>1, WireShortens
  <2>3. IsWire(c2s', st, profile)
    BY <2>1, <2>2
  <2> QED BY <1>1, <2>3 DEF WireFine
<1>3. \A c : Heir(c, st) => Heir(c, st')
  BY DEF Heir
<1>4. ClientFine' /\ CallFine'
  BY <1>3 DEF Core, ClientFine, CallFine, Safe
<1>5. OutcomeFine' /\ ProfileFine'
  BY DEF Core, OutcomeFine, ProfileFine
<1>6. TalkFine'
  <2>1. ASSUME \A i \in DOMAIN c2s : c2s[i].verb \in Asking
        PROVE  \A i \in DOMAIN c2s' : c2s'[i].verb \in Asking
    <3>1. c2s # <<>> => \A i \in DOMAIN Tail(c2s) : i + 1 \in DOMAIN c2s /\ Tail(c2s)[i] = c2s[i + 1]
      BY ListsGrow DEF Core, WireFine, IsWire
    <3> QED BY <2>1, <3>1
  <2> QED BY <2>1 DEF Core, TalkFine
<1> QED BY <1>2, <1>4, <1>5, <1>6 DEF Core

LEMMA AnswersKeep ==
    ASSUME Core, NEW reply, Answers(st, reply), NEW next, Sends(reply, next),
           call.method = "connect" /\ st.encrypted => IsLines(reply.lines),
           UNCHANGED c2s \/ (c2s # <<>> /\ c2s' = Tail(c2s))
    PROVE  Core'
PROOF
<1>1. IsLines(s2c) /\ IsLines(reply.lines) => IsLines(s2c')
  BY LinesGrow DEF Sends
<1> QED BY <1>1, ServerKeeps DEF Sends, Answers

\* The session thread.
LEMMA ServerStepKeeps ==
    ASSUME Core, scene \in Scenes, ServerStep
    PROVE  Core'
PROOF
<1>1. IsState(st) /\ (c2s # <<>> => Sayable(Head(c2s), st, profile))
  BY WireShortens DEF Core, WireFine
<1>2. CASE ServerGreets
  <2>1. Config.greeting \in Greetings
    BY ScenesAssumption DEF ServerConfig, Config
  <2>2. Answers(st, Greet(Config, st))
    BY <1>1, <2>1, GreetingAnswers
  <2>3. IsLines(Greet(Config, st).lines)
    BY <2>1, OneLine DEF Greet, Greetings, Answer, Reply
  <2> QED BY <1>2, <2>2, <2>3, AnswersKeep DEF ServerGreets
<1>3. CASE ServerHandles
  <2> DEFINE reply == Handle(Config, corpus, st, Head(c2s))
  <2>1. c2s # <<>> /\ c2s' = Tail(c2s) /\ \E next : Sends(reply, next)
    BY <1>3 DEF ServerHandles
  <2>2. Answers(st, reply)
    BY <1>1, <2>1, HandleAnswers DEF Sayable
  <2>3. ASSUME call.method = "connect", st.encrypted PROVE IsLines(reply.lines)
    <3>1. IsList(c2s) /\ 1 \in DOMAIN c2s /\ Head(c2s) = c2s[1]
      BY <2>1, ListsGrow DEF Core, WireFine, IsWire
    <3>2. Head(c2s).verb \in Asking
      BY <2>3, <3>1 DEF Core, TalkFine
    <3> QED BY <1>1, <2>3, <3>2, OpeningReplies
  <2> HIDE DEF reply
  <2> QED BY <2>1, <2>2, <2>3, AnswersKeep
<1>4. CASE ServerTakesLine
  BY <1>1, <1>4, ServerKeeps DEF ServerTakesLine, serverVars
<1>5. CASE ServerTakesArticle
  <2>1. Answers(st, AcceptArticle(Config, corpus, st, Head(c2s).arg))
    BY <1>1, ArticleAnswers
  <2>2. IsLines(AcceptArticle(Config, corpus, st, Head(c2s).arg).lines)
    BY OneLine DEF AcceptArticle, Refusal, Answer, Reply
  <2> QED BY <1>5, <2>1, <2>2, AnswersKeep DEF ServerTakesArticle
<1>6. CASE ServerSeesEnd
  BY <1>1, <1>6, ServerKeeps DEF ServerSeesEnd
<1> QED BY <1>2, <1>3, <1>4, <1>5, <1>6 DEF ServerStep

\* The handshake.
LEMMA UpgradeKeeps == ASSUME Core, Upgrade PROVE Core'
PROOF
<1> DEFINE c == NewClient(client.posting_allowed, TRUE)
<1>1. AskCapabilities(c, "upgraded") /\ profile' = profile
  BY DEF Upgrade, Handshaken
<1>2. IsState(st) /\ st' = [st EXCEPT !.encrypted = TRUE]
  BY DEF Core, Upgrade
<1>3. IsState(st') /\ st'.encrypted = TRUE
  BY <1>2 DEF IsState
<1>4. Heir(c, st')
  BY <1>3, NewClientFine
<1>5. Onward
  BY <1>1, <1>3 DEF Onward, Upgrade, Draws
<1>6. call.method = "connect"
  BY DEF Core, TalkFine, Upgrade, TlsReady
<1> HIDE DEF c
<1> QED BY <1>1, <1>4, <1>5, <1>6, CapabilitiesAsked DEF CapabilitySteps

LEMMA UpgradeFailsKeeps == ASSUME Core, UpgradeFails PROVE Core'
PROOF
<1>1. call.reading # "nothing" /\ Return(client, "Tls") /\ profile' = profile /\ st' = st
  BY DEF UpgradeFails
<1>2. "Tls" \in Results
  BY DEF Results, FatalErrors
<1>3. Calm
  BY <1>1 DEF Calm, Draws, UpgradeFails
<1> QED BY <1>1, <1>2, <1>3, WaitingHasClient, Returned

\* The caller.
LEMMA DialKeeps == ASSUME Core, scene \in Scenes, Dial PROVE Core'
PROOF
<1> DEFINE encrypted == profile.security = "ImplicitTls"
           c == NewClient(FALSE, encrypted)
           s == [NewSession(Config) EXCEPT !.encrypted = encrypted]
           k == [Idle EXCEPT !.method = "connect", !.step = "greeting",
                             !.cmd = Command("greeting", NoArg), !.reading = "status"]
<1>1. /\ client' = c /\ st' = s /\ call' = k /\ c2s' = <<>> /\ s2c' = <<>>
      /\ UNCHANGED <<profile, outcome>>
  BY DEF Dial
<1>2. IsState(s) /\ s.encrypted = encrypted
  BY DEF IsState, StateFields, NewSession, Users
<1> HIDE DEF s
<1>3. Heir(c, s)
  BY <1>2, NewClientFine
<1> HIDE DEF c
<1>4. /\ k.method = "connect" /\ k.cmd.verb = "greeting" /\ k.reading = "status" /\ k.got = <<>>
      /\ DOMAIN k = {"method", "step", "cmd", "arg", "reading", "got"}
  BY DEF Idle, Command
<1> HIDE DEF k
<1>5. IsCall(k, profile.max_block_lines)
  <2>1. IsList(k.got) /\ Len(k.got) = 0 /\ profile.max_block_lines \in Nat
    BY <1>4, ListsBegin DEF Core, ProfileFine
  <2>2. Len(k.got) <= profile.max_block_lines
    BY <2>1
  <2>3. k.reading \in {"nothing", "status", "block", "refused", "handshake"}
    BY <1>4
  <2> QED BY <1>4, <2>1, <2>2, <2>3 DEF IsCall
<1>6. CallFine' /\ ClientFine'
  BY <1>1, <1>3, <1>4, <1>5 DEF CallFine, ClientFine
<1>7. WireFine'
  <2>1. c2s' = <<>> /\ IsList(c2s') /\ Len(c2s') = 0
    BY <1>1, ListsBegin
  <2>2. DOMAIN c2s' = 1..0
    BY <2>1, ListsGrow
  <2> QED BY <2>1, <2>2 DEF WireFine, IsWire
<1>8. OutcomeFine' /\ ProfileFine'
  BY <1>1 DEF Core, OutcomeFine, ProfileFine
<1>9. TalkFine'
  <2>1. IsLines(s2c') /\ IsPlain(call'.got)
    BY <1>1, <1>4, LinesGrow
  <2>2. DOMAIN c2s' = 1..0
    BY <1>1, ListsBegin, ListsGrow
  <2> QED BY <1>1, <1>4, <2>1, <2>2 DEF TalkFine
<1> QED BY <1>1, <1>2, <1>6, <1>7, <1>8, <1>9 DEF Core

\* The client is let go of, between two calls.
LEMMA DropKeeps ==
    ASSUME Core, client' \in {client, NoClient}, UNCHANGED <<profile, call, c2s, st>>, IsIdle,
           OutcomeFine'
    PROVE  Core'
PROOF
<1>1. call.method = "idle"
  BY DEF IsIdle
<1>2. CallFine'
  <2>1. call = Idle /\ Idle.cmd.verb = ""
    BY <1>1 DEF Core, CallFine, Idle, Command
  <2> QED BY <1>1, <2>1 DEF Core, CallFine
<1>3. ClientFine' /\ WireFine' /\ ProfileFine'
  BY DEF Core, ClientFine, WireFine, ProfileFine
<1>4. TalkFine'
  BY <1>1 DEF Core, TalkFine
<1> QED BY <1>2, <1>3, <1>4 DEF Core

\* Nothing of it changes.
LEMMA CoreStays ==
    ASSUME Core, UNCHANGED <<profile, client, call, outcome, c2s, st>>,
           call.method = "connect" /\ st.encrypted /\ IsLines(s2c) => IsLines(s2c')
    PROVE  Core'
BY DEF Core, ClientFine, CallFine, TalkFine, OutcomeFine, WireFine, ProfileFine

LEMMA CallerKeeps == ASSUME Whole, Caller PROVE Core'
PROOF
<1>1. Core /\ CallerFine /\ scene \in Scenes
  BY DEF Whole, CallerFine
<1>2. CASE Dial
  BY <1>1, <1>2, DialKeeps
<1>3. CASE WorkerCallsMethod
  <2>1. \E m \in WorkerCalls : Callable(m) /\ Invoke(m)
    BY <1>3, ScenesAssumption DEF WorkerCallsMethod
  <2> QED BY <1>1, <1>3, <2>1, InvokeKeeps DEF WorkerCallsMethod, serverVars
<1>4. CASE WorkerDropsClient
  <2>1. OutcomeFine'
    BY <1>1, <1>4 DEF WorkerDropsClient, Core, OutcomeFine, Results
  <2> QED BY <1>1, <1>4, <2>1, DropKeeps DEF WorkerDropsClient, serverVars
<1>5. CASE WorkerResets
  BY <1>1, <1>5, CoreStays DEF WorkerResets, serverVars
<1>6. CASE JobCalls
  <2>1. todo \in Seq(StageNames(scene.job)) /\ todo # <<>>
    BY <1>6 DEF Whole, CallerFine, JobCalls
  <2>2. Head(todo) \in StageNames(scene.job)
    BY <2>1
  <2> DEFINE m == CallAt(scene.job, Head(todo), client.group)
  <2>3. Callable(m)
    BY <1>1, <2>2, StagesAre
  <2>4. Invoke(m) /\ st' = st
    BY <1>6 DEF JobCalls, serverVars
  <2> HIDE DEF m
  <2> QED BY <1>1, <2>3, <2>4, InvokeKeeps
<1>7. CASE JobReturns
  <2>1. OutcomeFine'
    BY <1>1, <1>7 DEF JobReturns, Core, OutcomeFine
  <2> QED BY <1>1, <1>7, <2>1, DropKeeps DEF JobReturns, serverVars
<1>8. CASE JobDropsClient
  <2>1. OutcomeFine'
    BY <1>1, <1>8 DEF JobDropsClient, Core, OutcomeFine
  <2> QED BY <1>1, <1>8, <2>1, DropKeeps DEF JobDropsClient, Running, serverVars
<1> QED BY <1>2, <1>3, <1>4, <1>5, <1>6, <1>7, <1>8 DEF Caller

LEMMA FaultsKeep == ASSUME Core, GoesWrong PROVE Core'
PROOF
<1>1. CASE DialFails
  <2>1. OutcomeFine'
    BY <1>1 DEF DialFails, OutcomeFine, Results, FatalErrors
  <2> QED BY <1>1, <2>1, DropKeeps DEF DialFails, MayDial, serverVars
<1>2. CASE Times \/ GivesUp \/ Resets
  BY <1>2, FailuresKeep DEF Times, GivesUp, Resets, serverVars
<1>3. CASE Cancels \/ Chatters
  <2> DEFINE x == Data(Label("injected"))
  <2>1. x.text.label # "STARTTLS"
    BY DEF Data, Label
  <2>2. s2c' = s2c \/ s2c' = Append(s2c, x)
    BY <1>3 DEF Cancels, Chatters
  <2> HIDE DEF x
  <2>3. IsLines(s2c) => IsLines(s2c')
    BY <2>1, <2>2, LinesGrow
  <2> QED BY <1>3, <2>3, CoreStays DEF Cancels, Chatters, serverVars
<1>4. CASE Idles
  BY <1>4, CoreStays DEF Idles
<1> QED BY <1>1, <1>2, <1>3, <1>4 DEF GoesWrong

\* The scene, what is left of the job, and what the server is doing.
LEMMA CallerStays == ASSUME Whole, [Next]_vars PROVE CallerFine'
PROOF
<1>1. /\ scene \in Scenes /\ profile = scene.profile
      /\ todo \in Seq(StageNames(scene.job))
      /\ srv \in {"off", "greet", "command", "article", "tls"}
  BY DEF Whole, CallerFine
<1>2. ASSUME UNCHANGED <<scene, profile, todo>>, srv' \in {"off", "greet", "command", "article", "tls"}
      PROVE  CallerFine'
  BY <1>1, <1>2 DEF CallerFine
<1>3. CASE Caller
  <2>1. CASE JobReturns
    <3>1. "quit" \in StageNames(scene.job)
      BY DEF StageNames
    <3>2. todo # <<>> /\ UNCHANGED <<scene, profile, srv>>
          /\ \E result, summary : todo' = Remaining(scene.job, todo, result, summary)
      BY <2>1 DEF JobReturns, serverVars
    <3>3. todo' \in Seq(StageNames(scene.job))
      BY <1>1, <3>1, <3>2, Remains
    <3> QED BY <1>1, <3>2, <3>3 DEF CallerFine
  <2>2. CASE Dial \/ WorkerCallsMethod \/ WorkerDropsClient \/ WorkerResets \/ JobCalls \/ JobDropsClient
    BY <1>1, <1>2, <2>2 DEF Dial, WorkerCallsMethod, WorkerDropsClient, WorkerResets, JobCalls,
                            JobDropsClient, Invoke, Local, callerVars, serverVars
  <2> QED BY <1>3, <2>1, <2>2 DEF Caller
<1>4. CASE ClientSteps
  <2>1. UNCHANGED <<scene, todo, srv>>
    BY <1>4 DEF ClientSteps, serverVars
  <2>2. profile' = profile
    BY <1>4 DEF ClientSteps, ClientReads, ReadStatus, GreetingStatus, CapabilitiesStatus, ModeStatus,
         AuthStatus, StartTlsStatus, GroupStatus, ListingStatus, FormatStatus, OverviewStatus,
         HeaderStatus, FetchStatus, StatStatus, DateStatus, HelpStatus, ListGroupStatus, PostStatus,
         PostedStatus, QuitStatus, StatusFor, ReadBlockLine, BlockCancelled, BlockLine, BlockEnd,
         ReadFails, OverlongLine, NotAStatusLine, EndOfStream, SendRefused, Fail
  <2> QED BY <1>1, <1>2, <2>1, <2>2
<1>5. CASE ServerStep
  <2>1. UNCHANGED <<scene, profile, todo>>
    BY <1>5 DEF ServerStep, ServerGreets, ServerHandles, ServerTakesLine, ServerTakesArticle,
                ServerSeesEnd, Sends, callerVars
  <2>2. ASSUME NEW reply, NEW next \in {"command", "tls", "article"}, Sends(reply, next)
        PROVE  srv' \in {"off", "command", "tls", "article"}
    BY <2>2 DEF Sends
  <2>3. CASE ServerHandles
    <3> DEFINE reply == Handle(Config, corpus, st, Head(c2s))
    <3>1. \E next \in {"command", "tls", "article"} : Sends(reply, next)
      BY <2>3 DEF ServerHandles
    <3> HIDE DEF reply
    <3> QED BY <1>2, <2>1, <2>2, <3>1
  <2>4. CASE ServerGreets \/ ServerTakesArticle
    <3>1. \E reply : Sends(reply, "command")
      BY <2>4 DEF ServerGreets, ServerTakesArticle
    <3> QED BY <1>2, <2>1, <2>2, <3>1
  <2>5. CASE ServerTakesLine \/ ServerSeesEnd
    BY <1>1, <1>2, <2>1, <2>5 DEF ServerTakesLine, ServerSeesEnd, serverVars
  <2> QED BY <1>5, <2>3, <2>4, <2>5 DEF ServerStep
<1>6. CASE Upgrade \/ UpgradeFails
  BY <1>1, <1>2, <1>6 DEF Upgrade, UpgradeFails, callerVars
<1>7. CASE GoesWrong
  BY <1>1, <1>2, <1>7 DEF GoesWrong, DialFails, Times, GivesUp, Resets, Cancels, Idles, Chatters, Fault,
                     ReadTimeout, ReadReset, Fail, callerVars, serverVars
<1>8. CASE Finished \/ UNCHANGED vars
  BY <1>1, <1>2, <1>8 DEF Finished, vars, clientVars, callerVars, serverVars
<1> QED BY <1>3, <1>4, <1>5, <1>6, <1>7, <1>8 DEF Next

\* Filing what was posted leaves a corpus.
LEMMA CorpusStays == ASSUME Whole, [Next]_vars PROVE IsCorpus(corpus')
PROOF
<1>1. IsCorpus(corpus) /\ Core
  BY DEF Whole
<1>2. CASE ServerTakesArticle
  <2>1. Sayable(Head(c2s), st, profile) /\ Head(c2s).verb = "article"
    BY <1>1, <1>2, WireShortens DEF ServerTakesArticle, Core, WireFine
  <2> DEFINE article == Head(c2s).arg
             id == IdOf(st, article)
  <2>2. article.groups \in Seq(STRING)
    BY <2>1 DEF Sayable
  <2>3. corpus' \in {corpus, Inject(corpus, article.groups, id)}
    BY <1>2 DEF ServerTakesArticle, CorpusAfter
  <2> HIDE DEF article, id
  <2> QED BY <1>1, <2>2, <2>3, InjectAdds
<1>3. ASSUME ~ServerTakesArticle PROVE corpus' = corpus
  <2>1. CASE Caller
    BY <2>1 DEF Caller, Dial, WorkerCallsMethod, WorkerDropsClient, WorkerResets, JobCalls, JobReturns,
                JobDropsClient, serverVars
  <2>2. CASE ClientSteps
    BY <2>2 DEF ClientSteps, serverVars
  <2>3. CASE ServerStep
    BY <1>3, <2>3 DEF ServerStep, ServerGreets, ServerHandles, ServerTakesLine, ServerSeesEnd, serverVars
  <2>4. CASE Upgrade \/ UpgradeFails
    BY <2>4 DEF Upgrade, UpgradeFails
  <2>5. CASE GoesWrong
    BY <2>5 DEF GoesWrong, DialFails, Times, GivesUp, Resets, Cancels, Idles, Chatters, serverVars
  <2>6. CASE Finished \/ UNCHANGED vars
    BY <2>6 DEF Finished, vars, serverVars
  <2> QED BY <2>1, <2>2, <2>3, <2>4, <2>5, <2>6 DEF Next
<1> QED BY <1>1, <1>2, <1>3

LEMMA WholeStays == Whole /\ [Next]_vars => Whole'
PROOF
<1> SUFFICES ASSUME Whole, [Next]_vars PROVE Whole'
  OBVIOUS
<1>1. Core /\ scene \in Scenes
  BY DEF Whole, CallerFine
<1>2. ASSUME ClientSteps PROVE Core'
  BY <1>1, <1>2, ReadsKeep DEF ClientSteps, serverVars
<1>3. ASSUME Finished \/ UNCHANGED vars PROVE Core'
  BY <1>1, <1>3, CoreStays DEF Finished, vars, clientVars, serverVars
<1>4. Core'
  BY <1>1, <1>2, <1>3, CallerKeeps, ServerStepKeeps, UpgradeKeeps, UpgradeFailsKeeps, FaultsKeep DEF Next
<1>5. CallerFine'
  BY CallerStays
<1>6. IsCorpus(corpus')
  BY CorpusStays
<1> QED BY <1>4, <1>5, <1>6 DEF Whole

(***************************************************************************)
(* The invariant holds of every conversation.                              *)
(***************************************************************************)
THEOREM ConversationKept == Spec => []Whole
BY WholeBegins, WholeStays, PTL DEF Spec

(***************************************************************************)
(* The client, the call, what it returned and the session's State are what *)
(* the code's types allow, and no block is kept beyond its limit: the      *)
(* client of nntp-client/src/client.rs against the test server's session.  *)
(***************************************************************************)
THEOREM ConversationTyped == Spec => []TypeOK
PROOF
<1>1. ASSUME Whole PROVE TypeOK
  <2>1. client = NoClient \/ IsClient(client)
    BY <1>1 DEF Whole, Core, ClientFine, Heir
  <2>2. NoClient.up = FALSE
    BY DEF NoClient
  <2>3. /\ client.up \in BOOLEAN
        /\ client.up => /\ client.overview_style \in {"Unknown", "Over", "XOver", "Unavailable"}
                        /\ client.header_style \in {"Unknown", "Hdr", "XHdr", "Unavailable"}
                        /\ client.overview_fmt \in {"unknown", "served", "standard"}
    BY <2>1, <2>2 DEF IsClient
  <2>4. /\ call.reading \in {"nothing", "status", "block", "refused", "handshake"}
        /\ Len(call.got) <= profile.max_block_lines
    BY <1>1 DEF Whole, Core, CallFine, IsCall
  <2>5. scene \in Scenes /\ srv \in {"off", "greet", "command", "article", "tls"}
    BY <1>1 DEF Whole, CallerFine
  <2>6. outcome.result \in Results /\ st.pending_user \in Users
    BY <1>1 DEF Whole, Core, OutcomeFine, IsState
  <2> QED BY <2>3, <2>4, <2>5, <2>6 DEF TypeOK
<1> QED BY <1>1, ConversationKept, PTL

(***************************************************************************)
(* No password and no name is on the wire in the clear unless the user     *)
(* allowed it, whichever way the connection was opened: authenticate asks  *)
(* the connection, and the connection believes the link is encrypted only  *)
(* when it is.                                                             *)
(***************************************************************************)
THEOREM NothingInTheClear == Spec => []NoPlainCredentials
PROOF
<1>1. Whole => NoPlainCredentials
  BY DEF Whole, Core, WireFine, IsWire, Sayable, Safe, NoPlainCredentials
<1> QED BY <1>1, ConversationKept, PTL

(***************************************************************************)
(* What was learned before the TLS handshake is not used after it: the     *)
(* client that takes the link to be encrypted never holds STARTTLS, which  *)
(* only a list read in the clear can hold, and the session takes it to be  *)
(* encrypted too (connector::upgrade_with_starttls, Client::from_parts).   *)
(***************************************************************************)
THEOREM NothingLearnedInTheClear == Spec => []ClearForgotten
PROOF
<1>1. ASSUME Whole PROVE ClearForgotten
  <2>1. client = NoClient \/ Heir(client, st)
    BY <1>1 DEF Whole, Core, ClientFine
  <2>2. NoClient.up = FALSE
    BY DEF NoClient
  <2> QED BY <2>1, <2>2 DEF Heir, ClearForgotten
<1> QED BY <1>1, ConversationKept, PTL
-------------------------------------------------------------------------------
(* In step: as long as no read has failed, what is on its way is the answer to *)
(* what the call in progress has asked, and nothing else.                      *)

\* A client that has lost no place, and gives neither overviews nor header lines up.
Trusted(c) == /\ c.desynchronised = FALSE /\ c.authenticated \in BOOLEAN
              /\ c.overview_style # "Unavailable" /\ c.header_style # "Unavailable"

\* Client and session have the same group and the same idea of the login.
Agrees(c) == st.current_group = c.group.name /\ st.authenticated = c.authenticated

\* What the server does next when all it was sent is such a command.
Awaits(verb) ==
    IF verb = "greeting" THEN "greet" ELSE IF verb = "article" THEN "article" ELSE "command"

Resting ==
    Quiet(s2c, closed) /\ (~closed => c2s = <<>> /\ srv = "command" /\ Agrees(client))

\* The command is on its way, or the session is over.
Unanswered ==
    /\ Quiet(s2c, closed)
    /\ ~closed => /\ c2s = IF call.cmd.verb = "greeting" THEN <<>> ELSE <<call.cmd>>
                  /\ srv = Awaits(call.cmd.verb) /\ Agrees(client)

\* What the State is, of what the client takes it to be, as the first line says it.
Told(verb, status) ==
    /\ LogsIn(verb, status.code) => st.authenticated = TRUE
    /\ ~LogsIn(verb, status.code) => st.authenticated = client.authenticated
    /\ Selects(verb, status.code) => st.current_group = status.arg.name
    /\ ~Selects(verb, status.code) => st.current_group = client.group.name
    /\ verb = "STARTTLS" /\ status.code = 382 => client.authenticated = FALSE

\* The whole reply is on its way back.
Replied ==
    /\ Answered(call.cmd.verb, s2c, closed)
    /\ ~closed => /\ c2s = <<>> /\ srv = After(call.cmd.verb, s2c[1].code)
                  /\ Told(call.cmd.verb, s2c[1])

\* Its block is being read.  LISTGROUP's selection is the client's only after it.
Reads ==
    /\ BlockRest(s2c, closed)
    /\ ~closed => /\ c2s = <<>> /\ srv = "command" /\ st.authenticated = client.authenticated
                  /\ call.cmd.verb = "LISTGROUP" => st.current_group = call.arg.name
                  /\ call.cmd.verb # "LISTGROUP" => st.current_group = client.group.name

\* Both ends begin the handshake; what is on its way by now makes it fail.
Shakes ==
    /\ call.method = "connect" /\ call.step = "starttls"
    /\ ~closed => c2s = <<>> /\ srv = "tls" /\ Agrees(client) /\ client.authenticated = FALSE

\* What is so of a call by the way calls are made.
Suits(k, c) ==
    /\ k.method = "connect" => c.group.name = NoGroup
    /\ k.cmd.verb = "greeting" => c.authenticated = FALSE
    /\ k.step = "format" => k.cmd.verb = "LIST"
    /\ k.cmd.verb = "STARTTLS" => k.step = "starttls"
    /\ k.reading # "refused"

Sync ==
    /\ Trusted(client) /\ Suits(call, client)
    /\ closed => srv = "off"
    /\ ~closed => Serving(st)
    /\ call.reading = "nothing" => Resting
    /\ call.reading = "status" => Unanswered \/ Replied
    /\ call.reading = "block" => Reads
    /\ call.reading = "handshake" => Shakes

(***************************************************************************)
(* The invariant: a client no read has failed on is in step.               *)
(***************************************************************************)
Steady == client.up /\ ~lost => Sync

\* The session goes on as it is.
Stands == UNCHANGED <<closed, srv, st>>

\* After this step nothing is unread, the server is at `at`, and c is right.
Leaves(c, at) ==
    /\ Trusted(c) /\ Quiet(s2c', closed')
    /\ closed' => srv' = "off"
    /\ ~closed' => /\ c2s = <<>> /\ srv' = at /\ Serving(st')
                   /\ st'.current_group = c.group.name /\ st'.authenticated = c.authenticated

\* A call that is over, and one that goes on with its next exchange.
LEMMA ReturnSteady ==
    ASSUME NEW c, Leaves(c, "command"), NEW result, Return(c, result)
    PROVE  Steady'
PROOF
<1>1. client' = NoClient => Steady'
  BY DEF Steady, NoClient
<1>2. ASSUME client' = c PROVE Steady'
  <2>1. call' = Idle /\ c2s' = c2s
    BY DEF Return
  <2>2. Suits(call', client') /\ call'.reading = "nothing"
    BY <2>1 DEF Suits, Idle, Command
  <2>3. Resting'
    BY <1>2, <2>1 DEF Leaves, Resting, Agrees
  <2>4. Trusted(client') /\ (closed' => srv' = "off") /\ (~closed' => Serving(st'))
    BY <1>2 DEF Leaves
  <2>5. Sync'
    BY <2>2, <2>3, <2>4 DEF Sync
  <2> QED BY <2>5 DEF Steady
<1> QED BY <1>1, <1>2 DEF Return

LEMMA SaySteady ==
    ASSUME NEW c, NEW at, Leaves(c, at), NEW method, NEW step, NEW cmd, NEW arg,
           Say(c, method, step, cmd, arg), at = Awaits(cmd.verb), cmd.verb # "greeting",
           method = "connect" => c.group.name = NoGroup,
           step = "format" => cmd.verb = "LIST", cmd.verb = "STARTTLS" => step = "starttls"
    PROVE  Steady'
PROOF
<1>1. c.desynchronised = FALSE
  BY DEF Leaves, Trusted
<1>2. /\ client' = c /\ c2s' = Append(c2s, cmd)
      /\ call'.method = method /\ call'.step = step /\ call'.cmd = cmd /\ call'.reading = "status"
  BY <1>1 DEF Say
<1>3. Suits(call', client')
  BY <1>2 DEF Suits
<1>4. ASSUME ~closed' PROVE c2s' = <<cmd>>
  <2>1. c2s = <<>>
    BY <1>4 DEF Leaves
  <2>2. Append(<<>>, cmd) = <<cmd>>
    OBVIOUS
  <2> QED BY <1>2, <2>1, <2>2
<1>5. /\ Trusted(client') /\ Quiet(s2c', closed')
      /\ closed' => srv' = "off"
      /\ ~closed' => Serving(st')
  BY <1>2 DEF Leaves
<1>6. ~closed' => /\ srv' = Awaits(call'.cmd.verb)
                  /\ st'.current_group = client'.group.name /\ st'.authenticated = client'.authenticated
  BY <1>2 DEF Leaves
<1>7. Unanswered'
  BY <1>2, <1>4, <1>5, <1>6 DEF Unanswered, Agrees
<1>8. Sync'
  BY <1>2, <1>3, <1>5, <1>7 DEF Sync
<1> QED BY <1>8 DEF Steady

\* What is so of one client is so of another that has the same group and login.
LEMMA LeavesAlike ==
    ASSUME NEW c, NEW at, Leaves(c, at), NEW d, Trusted(d), d.group = c.group,
           d.authenticated = c.authenticated
    PROVE  Leaves(d, at)
BY DEF Leaves

\* A client with one field set.
LEMMA TrustedStill ==
    ASSUME NEW c, IsClient(c), Trusted(c), NEW v
    PROVE  /\ Trusted([c EXCEPT !.posting_allowed = v])
           /\ Trusted([c EXCEPT !.capabilities = v])
           /\ Trusted([c EXCEPT !.group = v])
           /\ Trusted([c EXCEPT !.overview_fmt = v])
           /\ v \in BOOLEAN => Trusted([c EXCEPT !.authenticated = v])
           /\ v # "Unavailable" => Trusted([c EXCEPT !.overview_style = v])
           /\ v # "Unavailable" => Trusted([c EXCEPT !.header_style = v])
BY DEF Trusted, IsClient, ClientFields

\* None of these is the group or the login.
LEMMA SameBeliefs ==
    ASSUME NEW c, IsClient(c), NEW v
    PROVE  \A d \in {[c EXCEPT !.posting_allowed = v], [c EXCEPT !.capabilities = v],
                     [c EXCEPT !.overview_fmt = v], [c EXCEPT !.overview_style = v],
                     [c EXCEPT !.header_style = v]} :
              d.group = c.group /\ d.authenticated = c.authenticated
BY DEF IsClient, ClientFields
-------------------------------------------------------------------------------
(* Replies: what hearing one leaves of what was in step.                       *)

\* What follows the first line of a reply.
LEMMA RestOfReply ==
    ASSUME NEW verb, NEW l, NEW over, Answered(verb, l, over)
    PROVE  /\ Announces(verb, l[1].code) => BlockRest(Tail(l), over)
           /\ ~Announces(verb, l[1].code) /\ ~(verb = "STARTTLS" /\ l[1].code = 382)
                 => Quiet(Tail(l), over)
BY DEF Answered

\* The client of a call in step reads the first line of its reply.
Hears(verbs) == Core /\ Steady /\ ~lost /\ Stands /\ StatusFor(verbs)

LEMMA ReplyHeard ==
    ASSUME NEW verbs, Hears(verbs)
    PROVE  /\ call.cmd.verb \in verbs /\ IsClient(client) /\ Trusted(client) /\ Suits(call, client)
           /\ Answered(call.cmd.verb, s2c, closed) /\ Line = s2c[1] /\ s2c' = Tail(s2c)
           /\ closed => srv = "off"
           /\ ~closed => /\ c2s = <<>> /\ srv = After(call.cmd.verb, Line.code) /\ Serving(st)
                         /\ Told(call.cmd.verb, Line)
           /\ call.cmd.verb \in Opening => call.method = "connect" /\ client.group.name = NoGroup
           /\ Stands
PROOF
<1>1. /\ call.reading = "status" /\ call.cmd.verb \in verbs /\ s2c # <<>> /\ s2c' = Tail(s2c)
      /\ profile' = profile
  BY DEF Hears, StatusFor
<1>2. Calm /\ call.reading # "nothing"
  BY <1>1 DEF Hears, Stands, Calm, Draws
<1>3. IsClient(client) /\ (call.cmd.verb \in Opening => call.method = "connect")
  BY <1>2, WaitingHasClient
<1>4. Sync
  BY <1>3 DEF Hears, Steady, IsClient
<1>5. Unanswered \/ Replied
  BY <1>1, <1>4 DEF Sync
<1>6. /\ Answered(call.cmd.verb, s2c, closed) /\ Line = s2c[1]
      /\ ~closed => /\ c2s = <<>> /\ srv = After(call.cmd.verb, Line.code)
                    /\ Told(call.cmd.verb, Line)
  <2>1. CASE Replied
    <3>1. IsList(s2c)
      BY <2>1 DEF Replied, Answered
    <3>2. Line = s2c[1]
      BY <1>1, <3>1, ListsGrow DEF Line
    <3> QED BY <2>1, <3>2 DEF Replied
  <2>2. CASE Unanswered
    <3>1. Quiet(s2c, closed)
      BY <2>2 DEF Unanswered
    <3>2. Quiet(Tail(s2c), closed) /\ s2c[1] = Hush /\ Line = s2c[1] /\ IsList(s2c) /\ closed
      BY <1>1, <3>1, QuietLists DEF Quiet, Line
    <3>3. Hush.kind = "status" /\ Hush.code = 400
      BY DEF Hush, Status
    <3>4. ~Announces(call.cmd.verb, Hush.code)
      BY <3>3 DEF Announces
    <3>5. Answered(call.cmd.verb, s2c, closed)
      <4>1. /\ s2c[1].kind = "status" /\ s2c[1].code = 400 /\ IsList(s2c) /\ s2c # <<>>
            /\ ~Announces(call.cmd.verb, s2c[1].code) /\ Quiet(Tail(s2c), closed)
        BY <1>1, <3>2, <3>3, <3>4
      <4> QED BY <4>1 DEF Answered
    <3> QED BY <3>2, <3>5
  <2> QED BY <1>5, <2>1, <2>2
<1>7. Trusted(client) /\ Suits(call, client) /\ (closed => srv = "off") /\ (~closed => Serving(st))
  BY <1>4 DEF Sync
<1>8. call.method = "connect" => client.group.name = NoGroup
  BY <1>7 DEF Suits
<1>9. Stands
  BY DEF Hears
<1> QED BY <1>1, <1>3, <1>6, <1>7, <1>8, <1>9

LEMMA RestHeard ==
    ASSUME NEW verbs, Hears(verbs)
    PROVE  /\ Announces(call.cmd.verb, Line.code) => BlockRest(s2c', closed')
           /\ ~Announces(call.cmd.verb, Line.code) /\ ~(call.cmd.verb = "STARTTLS" /\ Line.code = 382)
                 => Quiet(s2c', closed')
PROOF
<1> DEFINE verb == call.cmd.verb
           rest == Tail(s2c)
<1>1. Answered(verb, s2c, closed) /\ Line = s2c[1] /\ s2c' = rest
  BY ReplyHeard
<1>2. closed' = closed
  BY DEF Hears, Stands
<1> HIDE DEF verb
<1>3. /\ Announces(verb, s2c[1].code) => BlockRest(rest, closed)
      /\ ~Announces(verb, s2c[1].code) /\ ~(verb = "STARTTLS" /\ s2c[1].code = 382)
            => Quiet(rest, closed)
  BY <1>1, RestOfReply
<1> HIDE DEF rest
<1>4. BlockRest(rest, closed) => BlockRest(s2c', closed')
  BY <1>1, <1>2
<1>5. Quiet(rest, closed) => Quiet(s2c', closed')
  BY <1>1, <1>2
<1> QED BY <1>1, <1>3, <1>4, <1>5 DEF verb

\* A line that is the whole reply and changes nothing the client keeps of the session.
LEMMA HeardPlain ==
    ASSUME NEW verbs, Hears(verbs), ~Announces(call.cmd.verb, Line.code),
           ~LogsIn(call.cmd.verb, Line.code), ~Selects(call.cmd.verb, Line.code),
           ~(call.cmd.verb = "STARTTLS" /\ Line.code = 382),
           ~(call.cmd.verb = "POST" /\ Line.code = 340)
    PROVE  Leaves(client, "command")
PROOF
<1>1. Quiet(s2c', closed')
  BY RestHeard
<1>2. After(call.cmd.verb, Line.code) = "command"
  BY DEF After
<1>3. Trusted(client) /\ (closed' => srv' = "off")
  BY ReplyHeard DEF Stands
<1>4. ~closed' => /\ c2s = <<>> /\ srv' = "command" /\ Serving(st') /\ Told(call.cmd.verb, Line)
                  /\ st' = st
  BY <1>2, ReplyHeard DEF Stands
<1>5. ~closed' => st'.current_group = client.group.name /\ st'.authenticated = client.authenticated
  BY <1>4 DEF Told
<1> QED BY <1>1, <1>3, <1>4, <1>5 DEF Leaves

\* The one that logs the client in.
LEMMA HeardLogin ==
    ASSUME NEW verbs, Hears(verbs), LogsIn(call.cmd.verb, Line.code)
    PROVE  Leaves([client EXCEPT !.authenticated = TRUE], "command")
PROOF
<1> DEFINE c == [client EXCEPT !.authenticated = TRUE]
<1>0. IsClient(client) /\ Trusted(client)
  BY ReplyHeard
<1>1. c.authenticated = TRUE /\ c.group = client.group
  BY <1>0 DEF IsClient, ClientFields
<1>2. Trusted(c)
  BY <1>0, TrustedStill
<1> HIDE DEF c
<1>3. ~Announces(call.cmd.verb, Line.code) /\ ~Selects(call.cmd.verb, Line.code)
      /\ After(call.cmd.verb, Line.code) = "command" /\ call.cmd.verb # "STARTTLS"
  BY DEF LogsIn, Announces, Selects, After
<1>4. Quiet(s2c', closed')
  BY <1>3, RestHeard
<1>5. ~closed' => /\ c2s = <<>> /\ srv' = "command" /\ Serving(st') /\ Told(call.cmd.verb, Line)
                  /\ st' = st
  BY <1>3, ReplyHeard DEF Stands
<1>6. ~closed' => st'.current_group = c.group.name /\ st'.authenticated = c.authenticated
  BY <1>1, <1>3, <1>5 DEF Told
<1>7. closed' => srv' = "off"
  BY ReplyHeard DEF Stands
<1>8. Leaves(c, "command")
  BY <1>2, <1>4, <1>5, <1>6, <1>7 DEF Leaves
<1> QED BY <1>8 DEF c

\* The one that selects a group.
LEMMA HeardSelection ==
    ASSUME NEW verbs, Hears(verbs), call.cmd.verb = "GROUP", Line.code = 211
    PROVE  Leaves([client EXCEPT !.group = Line.arg], "command")
PROOF
<1> DEFINE c == [client EXCEPT !.group = Line.arg]
<1>0. IsClient(client) /\ Trusted(client)
  BY ReplyHeard
<1>1. c.authenticated = client.authenticated /\ c.group = Line.arg
  BY <1>0 DEF IsClient, ClientFields
<1>2. Trusted(c)
  BY <1>0 DEF Trusted, IsClient, ClientFields
<1> HIDE DEF c
<1>3. ~Announces("GROUP", 211) /\ ~LogsIn("GROUP", 211) /\ Selects("GROUP", 211)
      /\ After("GROUP", 211) = "command"
  BY DEF LogsIn, Announces, Selects, After
<1>4. Quiet(s2c', closed')
  BY <1>3, RestHeard
<1>5. ~closed' => /\ c2s = <<>> /\ srv' = "command" /\ Serving(st') /\ Told("GROUP", Line)
                  /\ st' = st
  BY <1>3, ReplyHeard DEF Stands
<1>6. ~closed' => st'.current_group = c.group.name /\ st'.authenticated = c.authenticated
  BY <1>1, <1>3, <1>5 DEF Told
<1>7. closed' => srv' = "off"
  BY ReplyHeard DEF Stands
<1>8. Leaves(c, "command")
  BY <1>2, <1>4, <1>5, <1>6, <1>7 DEF Leaves
<1> QED BY <1>8 DEF c

\* The offer to take an article.
LEMMA HeardOffer ==
    ASSUME NEW verbs, Hears(verbs), call.cmd.verb = "POST", Line.code = 340
    PROVE  Leaves(client, "article")
PROOF
<1>3. ~Announces("POST", 340) /\ ~LogsIn("POST", 340) /\ ~Selects("POST", 340)
      /\ After("POST", 340) = "article"
  BY DEF LogsIn, Announces, Selects, After
<1>4. Quiet(s2c', closed')
  BY <1>3, RestHeard
<1>5. ~closed' => /\ c2s = <<>> /\ srv' = "article" /\ Serving(st') /\ Told("POST", Line)
                  /\ st' = st
  BY <1>3, ReplyHeard DEF Stands
<1>6. ~closed' => st'.current_group = client.group.name /\ st'.authenticated = client.authenticated
  BY <1>3, <1>5 DEF Told
<1>7. Trusted(client) /\ (closed' => srv' = "off")
  BY ReplyHeard DEF Stands
<1> QED BY <1>4, <1>5, <1>6, <1>7 DEF Leaves

\* The announcement of a block, which the client goes on to read.
LEMMA HeardBlock ==
    ASSUME NEW verbs, Hears(verbs), Announces(call.cmd.verb, Line.code), NEW c, Trusted(c),
           c.group = client.group, c.authenticated = client.authenticated,
           client' = c, c2s' = c2s, call'.reading = "block", call'.cmd = call.cmd,
           call'.method = call.method, call'.step = call.step,
           call.cmd.verb = "LISTGROUP" => call'.arg = Line.arg
    PROVE  Steady'
PROOF
<1>1. BlockRest(s2c', closed')
  BY RestHeard
<1>2. ~LogsIn(call.cmd.verb, Line.code) /\ After(call.cmd.verb, Line.code) = "command"
      /\ (Selects(call.cmd.verb, Line.code) <=> call.cmd.verb = "LISTGROUP")
  BY DEF Announces, LogsIn, After, Selects
<1>3. ~closed' => /\ c2s' = <<>> /\ srv' = "command" /\ Serving(st') /\ Told(call.cmd.verb, Line)
                  /\ st' = st
  BY <1>2, ReplyHeard DEF Stands
<1>4. Reads'
  BY <1>1, <1>2, <1>3 DEF Reads, Told
<1>5. Suits(call, client) /\ (closed' => srv' = "off")
  BY ReplyHeard DEF Stands
<1>6. Suits(call', client')
  BY <1>5 DEF Suits
<1>7. Sync'
  BY <1>3, <1>4, <1>5, <1>6 DEF Sync
<1> QED BY <1>7 DEF Steady
-------------------------------------------------------------------------------
(* The status lines, method by method.                                         *)

\* A method of connect that asks for something more.
LEMMA ConnectAsksSteady ==
    ASSUME NEW c, Leaves(c, "command"), c.group.name = NoGroup, NEW step, step # "format",
           NEW verb, verb \in Asking, verb = "STARTTLS" => step = "starttls", NEW a,
           Say(c, "connect", step, Command(verb, a), NoArg)
    PROVE  Steady'
PROOF
<1> DEFINE cmd == Command(verb, a)
<1>1. cmd.verb = verb
  BY DEF Command
<1>2. Awaits(cmd.verb) = "command" /\ cmd.verb # "greeting"
  BY <1>1 DEF Awaits, Asking
<1>3. Say(c, "connect", step, cmd, NoArg)
  OBVIOUS
<1> HIDE DEF cmd
<1> QED BY <1>1, <1>2, <1>3, SaySteady

\* The steps of connect, wherever they are taken from.
LEMMA ConnectSteady ==
    ASSUME NEW c, Leaves(c, "command"), c.group.name = NoGroup
    PROVE  /\ \A step : step # "format" /\ AskCapabilities(c, step) => Steady'
           /\ EnterReaderMode(c) => Steady'
           /\ AskUser(c) \/ AskPass(c) => Steady'
           /\ Authenticate(c) => Steady'
           /\ OfferStartTls(c) => Steady'
PROOF
<1>1. ASSUME NEW step, step # "format", AskCapabilities(c, step) PROVE Steady'
  BY <1>1, ConnectAsksSteady DEF AskCapabilities, Asking
<1>2. ASSUME EnterReaderMode(c) PROVE Steady'
  BY <1>2, ConnectAsksSteady DEF EnterReaderMode, Asking
<1>3. ASSUME AskUser(c) PROVE Steady'
  BY <1>3, ConnectAsksSteady DEF AskUser, Asking
<1>4. ASSUME AskPass(c) PROVE Steady'
  BY <1>4, ConnectAsksSteady DEF AskPass, Asking
<1>5. ASSUME Authenticate(c) PROVE Steady'
  <2>1. AskUser(c) \/ (\E result : Return(c, result))
    BY <1>5 DEF Authenticate
  <2> QED BY <1>3, <2>1, ReturnSteady
<1>6. ASSUME OfferStartTls(c) PROVE Steady'
  <2>1. \/ Return(c, "Tls")
        \/ Say(c, "connect", "starttls", Command("STARTTLS", NoArg), NoArg)
    BY <1>6 DEF OfferStartTls
  <2> QED BY <2>1, ReturnSteady, ConnectAsksSteady DEF Asking
<1> QED BY <1>1, <1>2, <1>3, <1>4, <1>5, <1>6

LEMMA CapabilitiesReadSteady ==
    ASSUME NEW c, Leaves(c, "command"), c.group.name = NoGroup, call.step \in CapabilitySteps,
           AfterCapabilities(c)
    PROVE  Steady'
PROOF
<1>1. \/ EnterReaderMode(c) \/ Authenticate(c) \/ OfferStartTls(c)
      \/ AskCapabilities(c, "handshake") \/ Return(c, "Ok")
  BY DEF AfterCapabilities, AfterHandshake, Handshake, CapabilitySteps
<1> QED BY <1>1, ConnectSteady, ReturnSteady

\* Whatever else a first line says of a method it is not an announcement to.
LEMMA PlainlyReturned ==
    ASSUME NEW verbs, Hears(verbs), ~Announces(call.cmd.verb, Line.code),
           ~LogsIn(call.cmd.verb, Line.code), ~Selects(call.cmd.verb, Line.code),
           ~(call.cmd.verb = "STARTTLS" /\ Line.code = 382),
           ~(call.cmd.verb = "POST" /\ Line.code = 340),
           NEW result, Return(client, result)
    PROVE  Steady'
BY HeardPlain, ReturnSteady

LEMMA GreetingSteady ==
    ASSUME Core, Steady, ~lost, Stands, GreetingStatus PROVE Steady'
PROOF
<1>1. Hears({"greeting"}) /\ call.cmd.verb = "greeting"
  BY DEF GreetingStatus, Hears, StatusFor
<1>2. client.group.name = NoGroup /\ Suits(call, client) /\ IsClient(client)
  BY <1>1, ReplyHeard DEF Opening
<1>3. Leaves(client, "command")
  BY <1>1, HeardPlain DEF Announces, LogsIn, Selects
<1> DEFINE c == NewClient(Line.code = 200, client.encrypted)
<1>4. /\ Trusted(c) /\ c.group.name = NoGroup /\ c.authenticated = FALSE
  BY DEF Trusted, NewClient, NoSummary
<1>5. client.authenticated = FALSE
  BY <1>1, <1>2 DEF Suits
<1>6. Return(client, "Server") \/ AskCapabilities(c, "clear") \/ AskCapabilities(c, "handshake")
  BY DEF GreetingStatus, AfterGreeting, Handshake
<1> HIDE DEF c
<1>7. Leaves(c, "command")
  BY <1>2, <1>3, <1>4, <1>5 DEF Leaves
<1> QED BY <1>3, <1>4, <1>6, <1>7, ReturnSteady, ConnectSteady

LEMMA CapabilitiesSteady ==
    ASSUME Core, Steady, ~lost, Stands, CapabilitiesStatus PROVE Steady'
PROOF
<1>1. Hears({"CAPABILITIES"}) /\ call.cmd.verb = "CAPABILITIES"
  BY DEF CapabilitiesStatus, Hears, StatusFor
<1>2. client.group.name = NoGroup /\ IsClient(client) /\ Trusted(client) /\ call.step \in CapabilitySteps
  BY <1>1, ReplyHeard DEF Opening, Asking, Core, CallFine
<1>3. CASE Line.code = 101
  <2>1. ReadBlock(client)
    BY <1>3 DEF CapabilitiesStatus
  <2>2. /\ client' = client /\ c2s' = c2s /\ call'.reading = "block" /\ call'.cmd = call.cmd
        /\ call'.method = call.method /\ call'.step = call.step
    BY <2>1 DEF ReadBlock, Core, CallFine, IsCall
  <2>3. Announces(call.cmd.verb, Line.code)
    BY <1>1, <1>3 DEF Announces
  <2> QED BY <1>1, <1>2, <2>2, <2>3, HeardBlock
<1>4. CASE Line.code # 101
  <2>1. Leaves(client, "command")
    BY <1>1, <1>4, HeardPlain DEF Announces, LogsIn, Selects
  <2> DEFINE c == [client EXCEPT !.capabilities = {}]
  <2>2. c.group = client.group /\ c.authenticated = client.authenticated /\ Trusted(c)
    BY <1>2 DEF IsClient, ClientFields, Trusted
  <2>3. AfterCapabilities(c) \/ (\E result : Return(client, result))
    BY <1>4 DEF CapabilitiesStatus
  <2> HIDE DEF c
  <2>4. Leaves(c, "command")
    BY <2>1, <2>2, LeavesAlike
  <2> QED BY <1>2, <2>1, <2>2, <2>3, <2>4, ReturnSteady, CapabilitiesReadSteady
<1> QED BY <1>3, <1>4

LEMMA ModeSteady ==
    ASSUME Core, Steady, ~lost, Stands, ModeStatus PROVE Steady'
PROOF
<1>1. Hears({"MODE"}) /\ call.cmd.verb = "MODE"
  BY DEF ModeStatus, Hears, StatusFor
<1>2. client.group.name = NoGroup /\ IsClient(client) /\ Trusted(client)
  BY <1>1, ReplyHeard DEF Opening, Asking
<1>3. Leaves(client, "command")
  BY <1>1, HeardPlain DEF Announces, LogsIn, Selects
<1> DEFINE c == [client EXCEPT !.posting_allowed = (Line.code = 200)]
<1>4. c.group = client.group /\ c.authenticated = client.authenticated /\ Trusted(c)
  BY <1>2 DEF IsClient, ClientFields, Trusted
<1>5. \/ \E result : Return(client, result)
      \/ AskCapabilities(c, "again") \/ AskCapabilities(client, "again")
  BY DEF ModeStatus
<1> HIDE DEF c
<1>6. Leaves(c, "command") /\ c.group.name = NoGroup
  BY <1>2, <1>3, <1>4, LeavesAlike
<1> QED BY <1>2, <1>3, <1>5, <1>6, ReturnSteady, ConnectSteady

LEMMA AuthSteady ==
    ASSUME Core, Steady, ~lost, Stands, AuthStatus PROVE Steady'
PROOF
<1>1. Hears({"AUTHINFO"}) /\ call.cmd.verb = "AUTHINFO"
  BY DEF AuthStatus, Hears, StatusFor
<1>2. client.group.name = NoGroup /\ IsClient(client) /\ Trusted(client)
  BY <1>1, ReplyHeard DEF Opening, Asking
<1>3. CASE Line.code = 281
  <2> DEFINE c == [client EXCEPT !.authenticated = TRUE]
  <2>1. Leaves(c, "command")
    BY <1>1, <1>3, HeardLogin DEF LogsIn
  <2>2. c.group.name = NoGroup
    BY <1>2 DEF IsClient, ClientFields
  <2>3. Return(c, "Ok") \/ AskCapabilities(c, "relisted")
    BY <1>3 DEF AuthStatus
  <2> HIDE DEF c
  <2> QED BY <2>1, <2>2, <2>3, ReturnSteady, ConnectSteady
<1>4. CASE Line.code # 281
  <2>1. Leaves(client, "command")
    BY <1>1, <1>4, HeardPlain DEF Announces, LogsIn, Selects
  <2>2. AskPass(client) \/ (\E result : Return(client, result))
    BY <1>4 DEF AuthStatus
  <2> QED BY <1>2, <2>1, <2>2, ReturnSteady, ConnectSteady
<1> QED BY <1>3, <1>4
\* A 382 with more after it in the clear ends the connection, as any other answer does.
LEMMA StartTlsSteady ==
    ASSUME Core, Steady, ~lost, Stands, StartTlsStatus PROVE Steady'
PROOF
<1>1. Hears({"STARTTLS"}) /\ call.cmd.verb = "STARTTLS"
  BY DEF StartTlsStatus, Hears, StatusFor
<1>2. /\ call.method = "connect" /\ Suits(call, client) /\ Trusted(client) /\ IsClient(client)
      /\ closed => srv = "off"
      /\ ~closed => /\ c2s = <<>> /\ srv = After(call.cmd.verb, Line.code) /\ Serving(st)
                    /\ Told(call.cmd.verb, Line)
  BY <1>1, ReplyHeard DEF Opening, Asking
<1>3. call.step = "starttls"
  BY <1>1, <1>2 DEF Suits
<1>4. CASE Line.code # 382 \/ Tail(s2c) # <<>>
  <2>1. Return(client, "Tls")
    BY <1>4 DEF StartTlsStatus
  <2>2. ~KeptAfter("Tls")
    BY <1>2, <1>3 DEF KeptAfter
  <2>3. client' = NoClient
    BY <2>1, <2>2 DEF Return
  <2> QED BY <2>3 DEF Steady, NoClient
<1>5. CASE Line.code = 382 /\ Tail(s2c) = <<>>
  <2>1. call' = [call EXCEPT !.reading = "handshake"] /\ client' = client /\ c2s' = c2s
    BY <1>5 DEF StartTlsStatus
  <2>2. IsCall(call, profile.max_block_lines)
    BY DEF Core, CallFine
  <2>3. /\ call'.reading = "handshake" /\ call'.method = call.method /\ call'.step = call.step
        /\ call'.cmd = call.cmd
    BY <2>1, <2>2 DEF IsCall
  <2>4. /\ ~LogsIn("STARTTLS", 382) /\ ~Selects("STARTTLS", 382)
        /\ After("STARTTLS", 382) = "tls"
    BY DEF LogsIn, Selects, After
  <2>5. ~closed => /\ c2s = <<>> /\ srv = "tls" /\ st.current_group = client.group.name
                   /\ st.authenticated = client.authenticated /\ client.authenticated = FALSE
    BY <1>1, <1>2, <1>5, <2>4 DEF Told
  <2>6. closed' = closed /\ srv' = srv /\ st' = st
    BY DEF Stands
  <2>7. Shakes'
    BY <1>2, <1>3, <2>1, <2>3, <2>5, <2>6 DEF Shakes, Agrees
  <2>8. Suits(call', client')
    BY <1>2, <2>1, <2>3 DEF Suits
  <2>9. Trusted(client') /\ (closed' => srv' = "off") /\ (~closed' => Serving(st'))
    BY <1>2, <2>1, <2>6
  <2>10. Sync'
    BY <2>3, <2>7, <2>8, <2>9 DEF Sync
  <2> QED BY <2>10 DEF Steady
<1> QED BY <1>4, <1>5

LEMMA GroupSteady ==
    ASSUME Core, Steady, ~lost, Stands, GroupStatus PROVE Steady'
PROOF
<1>1. Hears({"GROUP"}) /\ call.cmd.verb = "GROUP"
  BY DEF GroupStatus, Hears, StatusFor
<1>2. CASE Line.code = 211
  <2> DEFINE c == [client EXCEPT !.group = Line.arg]
  <2>1. Leaves(c, "command")
    BY <1>1, <1>2, HeardSelection
  <2>2. Return(c, "Ok")
    BY <1>2 DEF GroupStatus
  <2> HIDE DEF c
  <2> QED BY <2>1, <2>2, ReturnSteady
<1>3. CASE Line.code # 211
  <2>1. \E result : Return(client, result)
    BY <1>3 DEF GroupStatus
  <2>2. /\ ~Announces(call.cmd.verb, Line.code) /\ ~LogsIn(call.cmd.verb, Line.code)
        /\ ~Selects(call.cmd.verb, Line.code)
    BY <1>1, <1>3 DEF Announces, LogsIn, Selects
  <2> QED BY <1>1, <2>1, <2>2, PlainlyReturned
<1> QED BY <1>2, <1>3

\* A block announced to a client that has the group and the login it had.
LEMMA AnnouncedSteady ==
    ASSUME NEW verbs, Hears(verbs), call.cmd.verb # "LISTGROUP",
           Announces(call.cmd.verb, Line.code), NEW c, Trusted(c),
           c.group = client.group, c.authenticated = client.authenticated, ReadBlock(c)
    PROVE  Steady'
PROOF
<1>1. /\ client' = c /\ c2s' = c2s /\ call'.reading = "block" /\ call'.cmd = call.cmd
      /\ call'.method = call.method /\ call'.step = call.step
  BY DEF ReadBlock, Hears, Core, CallFine, IsCall
<1> QED BY <1>1, HeardBlock

\* The methods that read a block after one code and an error after any other.
LEMMA BlockOrCodeSteady ==
    ASSUME Core, Steady, ~lost, Stands,
           ListingStatus \/ FetchStatus \/ HelpStatus
    PROVE  Steady'
PROOF
<1> DEFINE verb == call.cmd.verb
           code == Line.code
<1>1. /\ Hears({verb})
      /\ verb \in {"LIST", "NEWGROUPS", "ARTICLE", "HEAD", "BODY", "HELP"}
      /\ \/ ReadBlock(client) /\ Announces(verb, code)
         \/ (\E result : Return(client, result)) /\ ~Announces(verb, code)
  <2>1. CASE ListingStatus
    <3>1. Hears({verb}) /\ verb \in {"LIST", "NEWGROUPS"}
      BY <2>1 DEF ListingStatus, Hears, StatusFor
    <3>2. Announces(verb, code) <=> code = IF verb = "LIST" THEN 215 ELSE 231
      BY <3>1 DEF Announces
    <3>3. IF code = (IF verb = "LIST" THEN 215 ELSE 231) THEN ReadBlock(client)
          ELSE Return(client, FromStatus(code))
      BY <2>1 DEF ListingStatus
    <3> HIDE DEF verb, code
    <3> QED BY <3>1, <3>2, <3>3
  <2>2. CASE FetchStatus
    <3>1. Hears({verb}) /\ verb \in {"ARTICLE", "HEAD", "BODY"}
      BY <2>2 DEF FetchStatus, Hears, StatusFor, BlockFetchCode
    <3>2. Announces(verb, code) <=> code = BlockFetchCode[verb]
      BY <3>1 DEF Announces, BlockFetchCode
    <3>3. IF code = BlockFetchCode[verb] THEN ReadBlock(client)
          ELSE Return(client, FromStatus(code))
      BY <2>2 DEF FetchStatus
    <3> HIDE DEF verb, code
    <3> QED BY <3>1, <3>2, <3>3
  <2>3. CASE HelpStatus
    <3>1. Hears({verb}) /\ verb = "HELP"
      BY <2>3 DEF HelpStatus, Hears, StatusFor
    <3>2. Announces(verb, code) <=> code = 100
      BY <3>1 DEF Announces
    <3>3. IF code = 100 THEN ReadBlock(client) ELSE Return(client, FromStatus(code))
      BY <2>3 DEF HelpStatus
    <3> HIDE DEF verb, code
    <3> QED BY <3>1, <3>2, <3>3
  <2> QED BY <2>1, <2>2, <2>3
<1>2. ~LogsIn(verb, code) /\ ~Selects(verb, code)
  BY <1>1 DEF LogsIn, Selects
<1>3. Trusted(client)
  BY <1>1, ReplyHeard
<1> QED BY <1>1, <1>2, <1>3, AnnouncedSteady, PlainlyReturned

\* Those that read no block.
LEMMA CodeSteady ==
    ASSUME Core, Steady, ~lost, Stands,
           StatStatus \/ DateStatus \/ PostedStatus
    PROVE  Steady'
PROOF
<1> DEFINE verb == call.cmd.verb
           code == Line.code
<1>1. /\ Hears({verb})
      /\ verb \in {"STAT", "NEXT", "LAST", "DATE", "article"}
      /\ \E result : Return(client, result)
  BY DEF StatStatus, DateStatus, PostedStatus, Hears, StatusFor
<1>2. ~LogsIn(verb, code) /\ ~Selects(verb, code) /\ ~Announces(verb, code)
  BY <1>1 DEF LogsIn, Selects, Announces
<1> QED BY <1>1, <1>2, PlainlyReturned

LEMMA QuitSteady == ASSUME QuitStatus PROVE Steady'
BY DEF QuitStatus, Return, Steady, NoClient

LEMMA ListGroupSteady ==
    ASSUME Core, Steady, ~lost, Stands, ListGroupStatus PROVE Steady'
PROOF
<1>1. Hears({"LISTGROUP"}) /\ call.cmd.verb = "LISTGROUP"
  BY DEF ListGroupStatus, Hears, StatusFor
<1>2. CASE Line.code = 211
  <2> DEFINE k == [call EXCEPT !.reading = "block", !.arg = Line.arg]
  <2>1. call' = k /\ client' = client /\ c2s' = c2s
    BY <1>2 DEF ListGroupStatus
  <2>2. IsCall(call, profile.max_block_lines)
    BY DEF Core, CallFine
  <2>3. /\ k.reading = "block" /\ k.arg = Line.arg /\ k.method = call.method /\ k.step = call.step
        /\ k.cmd = call.cmd
    BY <2>2 DEF IsCall
  <2> HIDE DEF k
  <2>4. Trusted(client) /\ Announces(call.cmd.verb, Line.code)
    BY <1>1, <1>2, ReplyHeard DEF Announces
  <2> QED BY <1>1, <2>1, <2>3, <2>4, HeardBlock
<1>3. CASE Line.code # 211
  <2>1. \E result : Return(client, result)
    BY <1>3 DEF ListGroupStatus
  <2>2. /\ ~Announces(call.cmd.verb, Line.code) /\ ~LogsIn(call.cmd.verb, Line.code)
        /\ ~Selects(call.cmd.verb, Line.code)
    BY <1>1, <1>3 DEF Announces, LogsIn, Selects
  <2> QED BY <1>1, <2>1, <2>2, PlainlyReturned
<1> QED BY <1>2, <1>3

LEMMA PostSteady ==
    ASSUME Core, Steady, ~lost, Stands, PostStatus PROVE Steady'
PROOF
<1>1. Hears({"POST"}) /\ call.cmd.verb = "POST"
  BY DEF PostStatus, Hears, StatusFor
<1>2. CASE Line.code = 340
  <2> DEFINE cmd == Command("article", call.arg)
  <2>1. Leaves(client, "article")
    BY <1>1, <1>2, HeardOffer
  <2>2. Say(client, "post", "article", cmd, call.arg)
    BY <1>2 DEF PostStatus
  <2>3. cmd.verb = "article"
    BY DEF Command
  <2>4. Awaits(cmd.verb) = "article"
    BY <2>3 DEF Awaits
  <2> HIDE DEF cmd
  <2> QED BY <2>1, <2>2, <2>3, <2>4, SaySteady
<1>3. CASE Line.code # 340
  <2>1. \E result : Return(client, result)
    BY <1>3 DEF PostStatus
  <2>2. /\ ~Announces(call.cmd.verb, Line.code) /\ ~LogsIn(call.cmd.verb, Line.code)
        /\ ~Selects(call.cmd.verb, Line.code)
    BY <1>1 DEF Announces, LogsIn, Selects
  <2> QED BY <1>1, <1>3, <2>1, <2>2, PlainlyReturned
<1> QED BY <1>2, <1>3
\* OVER and HDR, tried again in the X form if the server has none.
LEMMA StreamsSteady ==
    ASSUME NEW c, Leaves(c, "command"), IsClient(c), NEW range
    PROVE  /\ OverviewStyle(c) # "Unavailable" /\ OverviewStreaming(c, range) => Steady'
           /\ HeaderStyle(c) # "Unavailable" /\ HeaderFieldStreaming(c, range) => Steady'
PROOF
<1>1. ASSUME NEW method \in {"overview", "header_field"}, NEW verb \in {"OVER", "XOVER", "HDR", "XHDR"},
             Say(c, method, method, Command(verb, range), range)
      PROVE  Steady'
  <2> DEFINE cmd == Command(verb, range)
  <2>1. cmd.verb = verb
    BY DEF Command
  <2>2. Awaits(cmd.verb) = "command" /\ cmd.verb \notin {"greeting", "STARTTLS"}
    BY <2>1 DEF Awaits
  <2>3. Say(c, method, method, cmd, range)
    BY <1>1
  <2>4. method # "connect" /\ method # "format"
    OBVIOUS
  <2> HIDE DEF cmd
  <2> QED BY <2>2, <2>3, <2>4, SaySteady
<1>2. OverviewStyle(c) \in {"Unknown", "Over", "XOver", "Unavailable"}
  BY DEF IsClient, OverviewStyle
<1>3. HeaderStyle(c) \in {"Unknown", "Hdr", "XHdr", "Unavailable"}
  BY DEF IsClient, HeaderStyle
<1>4. ASSUME OverviewStyle(c) # "Unavailable", OverviewStreaming(c, range) PROVE Steady'
  <2>1. \/ Say(c, "overview", "overview", Command("XOVER", range), range)
        \/ Say(c, "overview", "overview", Command("OVER", range), range)
    BY <1>2, <1>4 DEF OverviewStreaming
  <2> QED BY <1>1, <2>1
<1>5. ASSUME HeaderStyle(c) # "Unavailable", HeaderFieldStreaming(c, range) PROVE Steady'
  <2>1. \/ Say(c, "header_field", "header_field", Command("XHDR", range), range)
        \/ Say(c, "header_field", "header_field", Command("HDR", range), range)
    BY <1>3, <1>5 DEF HeaderFieldStreaming
  <2> QED BY <1>1, <2>1
<1> QED BY <1>4, <1>5

LEMMA FormatKnownSteady ==
    ASSUME NEW c, Leaves(c, "command"), IsClient(c), AfterFormat(c)
    PROVE  Steady'
PROOF
<1>1. \/ \E result : Return(c, result)
      \/ OverviewStyle(c) # "Unavailable" /\ OverviewStreaming(c, call.arg)
  BY DEF AfterFormat
<1> QED BY <1>1, ReturnSteady, StreamsSteady

LEMMA FormatSteady ==
    ASSUME Core, Steady, ~lost, Stands, FormatStatus PROVE Steady'
PROOF
<1>1. Hears({"LIST"}) /\ call.cmd.verb = "LIST"
  BY DEF FormatStatus, Hears, StatusFor
<1>2. IsClient(client) /\ Trusted(client)
  BY <1>1, ReplyHeard
<1>3. CASE Line.code = 215
  <2>1. ReadBlock(client) /\ Announces(call.cmd.verb, Line.code)
    BY <1>1, <1>3 DEF FormatStatus, Announces
  <2> QED BY <1>1, <1>2, <2>1, AnnouncedSteady
<1>4. CASE Line.code # 215
  <2>1. Leaves(client, "command")
    BY <1>1, <1>4, HeardPlain DEF Announces, LogsIn, Selects
  <2> DEFINE c == [client EXCEPT !.overview_fmt = "standard"]
  <2>2. /\ c.group = client.group /\ c.authenticated = client.authenticated /\ Trusted(c)
        /\ IsClient(c)
    BY <1>2 DEF IsClient, ClientFields, Trusted
  <2>3. AfterFormat(c)
    BY <1>4 DEF FormatStatus
  <2> HIDE DEF c
  <2>4. Leaves(c, "command")
    BY <2>1, <2>2, LeavesAlike
  <2> QED BY <2>2, <2>3, <2>4, FormatKnownSteady
<1> QED BY <1>3, <1>4

(***************************************************************************)
(* The session always serves the X forms, so overviews are never given up. *)
(***************************************************************************)
LEMMA OverviewSteady ==
    ASSUME Core, Steady, ~lost, Stands, OverviewStatus PROVE Steady'
PROOF
<1> DEFINE verb == call.cmd.verb
           code == Line.code
<1>1. Hears({"OVER", "XOVER"}) /\ verb \in {"OVER", "XOVER"}
  BY DEF OverviewStatus, Hears, StatusFor
<1>2. /\ IsClient(client) /\ Trusted(client)
      /\ verb = "XOVER" => code \notin {500, 503}
  BY <1>1, ReplyHeard DEF Answered
<1>3. ~LogsIn(verb, code) /\ ~Selects(verb, code) /\ (Announces(verb, code) <=> code = 224)
  BY <1>1 DEF LogsIn, Selects, Announces
<1>4. CASE code = 224
  <2> DEFINE style == IF verb = "XOVER" THEN "XOver" ELSE "Over"
             c == [client EXCEPT !.overview_style = style]
  <2>1. ReadBlock(c)
    BY <1>4 DEF OverviewStatus
  <2>2. style # "Unavailable"
    OBVIOUS
  <2> HIDE DEF style
  <2>3. c.group = client.group /\ c.authenticated = client.authenticated /\ Trusted(c)
    BY <1>2, <2>2 DEF IsClient, ClientFields, Trusted
  <2> HIDE DEF c
  <2> QED BY <1>1, <1>3, <1>4, <2>1, <2>3, AnnouncedSteady
<1>5. CASE code # 224
  <2>1. Leaves(client, "command")
    BY <1>1, <1>3, <1>5, HeardPlain
  <2>2. CASE VerbUnsupported(code)
    <3> DEFINE c == [client EXCEPT !.overview_style = "XOver"]
    <3>1. verb = "OVER"
      BY <1>1, <1>2, <2>2 DEF VerbUnsupported
    <3>2. OverviewStreaming(c, call.arg)
      BY <1>5, <2>2, <3>1 DEF OverviewStatus
    <3>3. /\ c.group = client.group /\ c.authenticated = client.authenticated /\ Trusted(c)
          /\ IsClient(c) /\ c.overview_style = "XOver"
      BY <1>2 DEF IsClient, ClientFields, Trusted
    <3> HIDE DEF c
    <3>4. Leaves(c, "command") /\ OverviewStyle(c) # "Unavailable"
      BY <2>1, <3>3, LeavesAlike DEF OverviewStyle
    <3> QED BY <3>2, <3>3, <3>4, StreamsSteady
  <2>3. CASE ~VerbUnsupported(code)
    <3>1. Return(client, FromStatus(code))
      BY <1>5, <2>3 DEF OverviewStatus
    <3> QED BY <2>1, <3>1, ReturnSteady
  <2> QED BY <2>2, <2>3
<1> QED BY <1>4, <1>5

LEMMA HeaderSteady ==
    ASSUME Core, Steady, ~lost, Stands, HeaderStatus PROVE Steady'
PROOF
<1> DEFINE verb == call.cmd.verb
           code == Line.code
<1>1. Hears({"HDR", "XHDR"}) /\ verb \in {"HDR", "XHDR"}
  BY DEF HeaderStatus, Hears, StatusFor
<1>2. /\ IsClient(client) /\ Trusted(client)
      /\ verb = "XHDR" => code \notin {500, 503}
  BY <1>1, ReplyHeard DEF Answered
<1>3. ~LogsIn(verb, code) /\ ~Selects(verb, code) /\ (Announces(verb, code) <=> code \in {225, 221})
  BY <1>1 DEF LogsIn, Selects, Announces
<1>4. CASE code \in {225, 221}
  <2> DEFINE style == IF verb = "XHDR" THEN "XHdr" ELSE "Hdr"
             c == [client EXCEPT !.header_style = style]
  <2>1. ReadBlock(c)
    BY <1>4 DEF HeaderStatus
  <2>2. style # "Unavailable"
    OBVIOUS
  <2> HIDE DEF style
  <2>3. c.group = client.group /\ c.authenticated = client.authenticated /\ Trusted(c)
    BY <1>2, <2>2 DEF IsClient, ClientFields, Trusted
  <2> HIDE DEF c
  <2> QED BY <1>1, <1>3, <1>4, <2>1, <2>3, AnnouncedSteady
<1>5. CASE code \notin {225, 221}
  <2>1. Leaves(client, "command")
    BY <1>1, <1>3, <1>5, HeardPlain
  <2>2. CASE VerbUnsupported(code)
    <3> DEFINE c == [client EXCEPT !.header_style = "XHdr"]
    <3>1. verb = "HDR"
      BY <1>1, <1>2, <2>2 DEF VerbUnsupported
    <3>2. HeaderFieldStreaming(c, call.arg)
      BY <1>5, <2>2, <3>1 DEF HeaderStatus
    <3>3. /\ c.group = client.group /\ c.authenticated = client.authenticated /\ Trusted(c)
          /\ IsClient(c) /\ c.header_style = "XHdr"
      BY <1>2 DEF IsClient, ClientFields, Trusted
    <3> HIDE DEF c
    <3>4. Leaves(c, "command") /\ HeaderStyle(c) # "Unavailable"
      BY <2>1, <3>3, LeavesAlike DEF HeaderStyle
    <3> QED BY <3>2, <3>3, <3>4, StreamsSteady
  <2>3. CASE ~VerbUnsupported(code)
    <3>1. Return(client, FromStatus(code))
      BY <1>5, <2>3 DEF HeaderStatus
    <3> QED BY <2>1, <3>1, ReturnSteady
  <2> QED BY <2>2, <2>3
<1> QED BY <1>4, <1>5

LEMMA StatusSteady ==
    ASSUME Core, Steady, ~lost, Stands, ReadStatus PROVE Steady'
BY GreetingSteady, CapabilitiesSteady, ModeSteady, AuthSteady, StartTlsSteady, GroupSteady,
   BlockOrCodeSteady, FormatSteady, OverviewSteady, HeaderSteady, CodeSteady, ListGroupSteady,
   PostSteady, QuitSteady DEF ReadStatus

-------------------------------------------------------------------------------
(* Blocks, and reads that fail.                                                *)

LEMMA BlockLineSteady ==
    ASSUME Core, Steady, ~lost, Stands, BlockLine PROVE Steady'
PROOF
<1>1. call.reading = "block" /\ s2c # <<>> /\ s2c' = Tail(s2c) /\ Line.kind \in {"data", "status"}
  BY DEF BlockLine, InBlock
<1>2. CASE lost'
  BY <1>2 DEF Steady
<1>3. CASE ~lost'
  <2>1. PICK got : /\ call' = [call EXCEPT !.got = got]
                   /\ UNCHANGED <<client, outcome, c2s>>
    BY <1>3 DEF BlockLine, Fail
  <2>2. IsCall(call, profile.max_block_lines)
    BY DEF Core, CallFine
  <2>3. /\ call'.reading = "block" /\ call'.method = call.method /\ call'.step = call.step
        /\ call'.cmd = call.cmd /\ call'.arg = call.arg
    BY <1>1, <2>1, <2>2 DEF IsCall
  <2>4. ASSUME client.up PROVE Sync'
    <3>1. Sync /\ Reads
      BY <1>1, <2>4 DEF Steady, Sync
    <3>2. BlockRest(s2c, closed) /\ Line = s2c[1] /\ Line.kind # "dot"
      BY <1>1, <3>1, BlockLists DEF Reads, Line
    <3>3. BlockRest(s2c', closed')
      BY <1>1, <3>2, BlockLists DEF Stands
    <3>4. Reads'
      BY <2>1, <2>3, <3>1, <3>3 DEF Reads, Stands
    <3>5. Suits(call', client') /\ Trusted(client')
      BY <2>1, <2>3, <3>1 DEF Suits, Sync
    <3>6. (closed' => srv' = "off") /\ (~closed' => Serving(st'))
      BY <3>1 DEF Sync, Stands
    <3> QED BY <2>3, <3>4, <3>5, <3>6 DEF Sync
  <2> QED BY <2>1, <2>4 DEF Steady
<1> QED BY <1>2, <1>3

\* The last line of a block: the call is over, or goes on to its next exchange.
LEMMA BlockEndSteady ==
    ASSUME Core, Steady, ~lost, Stands, BlockEnd PROVE Steady'
PROOF
<1>1. /\ call.reading = "block" /\ s2c # <<>> /\ s2c' = Tail(s2c) /\ Line.kind = "dot"
      /\ BlockDone(call.got) /\ profile' = profile
  BY DEF BlockEnd, InBlock
<1>2. Calm /\ call.reading # "nothing"
  BY <1>1 DEF Stands, Calm, Draws
<1>3. IsClient(client) /\ (call.cmd.verb \in Opening => call.method = "connect")
  BY <1>2, WaitingHasClient
<1>4. Sync /\ Reads
  BY <1>1, <1>3 DEF Steady, Sync, IsClient
<1>5. Quiet(s2c', closed')
  BY <1>1, <1>4, BlockLists DEF Reads, Line, Stands
<1>6. /\ Trusted(client) /\ Suits(call, client)
      /\ closed' => srv' = "off"
      /\ ~closed' => /\ c2s = <<>> /\ srv' = "command" /\ Serving(st')
                     /\ st'.authenticated = client.authenticated
                     /\ call.cmd.verb = "LISTGROUP" => st'.current_group = call.arg.name
                     /\ call.cmd.verb # "LISTGROUP" => st'.current_group = client.group.name
  BY <1>4 DEF Sync, Reads, Stands
<1>7. call.cmd.verb # "LISTGROUP" => Leaves(client, "command")
  BY <1>5, <1>6 DEF Leaves
<1> DEFINE labels == {call.got[i].label : i \in DOMAIN call.got}
           c == [client EXCEPT !.capabilities = labels]
           f == [client EXCEPT !.overview_fmt = "served"]
           g == [client EXCEPT !.group = call.arg]
<1>8. \/ call.cmd.verb = "CAPABILITIES" /\ AfterCapabilities(c)
      \/ call.step = "format" /\ AfterFormat(f)
      \/ call.cmd.verb = "LISTGROUP" /\ Return(g, "Ok")
      \/ call.cmd.verb # "LISTGROUP" /\ Return(client, "Ok")
  BY <1>1 DEF BlockDone
<1> HIDE DEF labels
<1>9. /\ c.group = client.group /\ c.authenticated = client.authenticated /\ Trusted(c)
      /\ f.group = client.group /\ f.authenticated = client.authenticated /\ Trusted(f)
      /\ IsClient(f)
      /\ g.group = call.arg /\ g.authenticated = client.authenticated /\ Trusted(g)
  BY <1>3, <1>6 DEF IsClient, ClientFields, Trusted
<1> HIDE DEF c, f, g
<1>10. ASSUME call.cmd.verb = "CAPABILITIES", AfterCapabilities(c) PROVE Steady'
  <2>1. Leaves(c, "command")
    BY <1>7, <1>9, <1>10, LeavesAlike
  <2>2. c.group.name = NoGroup /\ call.step \in CapabilitySteps
    BY <1>3, <1>6, <1>9, <1>10 DEF Suits, Opening, Asking, Core, CallFine
  <2> QED BY <1>10, <2>1, <2>2, CapabilitiesReadSteady
<1>11. ASSUME call.step = "format", AfterFormat(f) PROVE Steady'
  <2>1. call.cmd.verb = "LIST"
    BY <1>6, <1>11 DEF Suits
  <2>2. Leaves(f, "command")
    BY <1>7, <1>9, <2>1, LeavesAlike
  <2> QED BY <1>9, <1>11, <2>2, FormatKnownSteady
<1>12. ASSUME call.cmd.verb = "LISTGROUP", Return(g, "Ok") PROVE Steady'
  <2>1. Leaves(g, "command")
    BY <1>5, <1>6, <1>9, <1>12 DEF Leaves
  <2> QED BY <1>12, <2>1, ReturnSteady
<1>13. ASSUME call.cmd.verb # "LISTGROUP", Return(client, "Ok") PROVE Steady'
  BY <1>7, <1>13, ReturnSteady
<1> QED BY <1>8, <1>10, <1>11, <1>12, <1>13

LEMMA ReadsSteady ==
    ASSUME Core, Steady, Stands, ClientReads PROVE Steady'
PROOF
<1>1. CASE lost'
  BY <1>1 DEF Steady
<1>2. CASE ~lost'
  <2>1. ReadStatus \/ BlockLine \/ BlockEnd
    BY <1>2 DEF ClientReads, ReadBlockLine, ReadFails, BlockCancelled, OverlongLine, NotAStatusLine,
                EndOfStream, SendRefused, Fail
  <2>2. ~lost
    <3>1. ReadStatus \/ BlockEnd => lost' = lost
      BY DEF ReadStatus, BlockEnd, StatusFor, GreetingStatus, CapabilitiesStatus, ModeStatus,
             AuthStatus, StartTlsStatus, GroupStatus, ListingStatus, FormatStatus, OverviewStatus,
             HeaderStatus, FetchStatus, StatStatus, DateStatus, HelpStatus, ListGroupStatus,
             PostStatus, PostedStatus, QuitStatus
    <3>2. BlockLine => lost' = lost
      BY <1>2 DEF BlockLine, Fail
    <3> QED BY <1>2, <2>1, <3>1, <3>2
  <2> QED BY <2>1, <2>2, StatusSteady, BlockLineSteady, BlockEndSteady
<1> QED BY <1>1, <1>2
-------------------------------------------------------------------------------
(* The server's side of a call.                                                *)

\* A reply sent to a client that waits for it is a reply to what it asked.
LEMMA SendsSteady ==
    ASSUME Sync, ~closed, call.reading = "status", Unanswered, NEW verb, verb = call.cmd.verb,
           NEW r, Fits(st, verb, r), Ends(r) <=> r.flow = "Close", IsState(r.st),
           NEW next, next = NextOf(r.flow) \/ (next = "command" /\ verb \in {"greeting", "article"}),
           Sends(r, next), c2s' = <<>>
    PROVE  Sync'
PROOF
<1>1. s2c = <<>> /\ Agrees(client) /\ Trusted(client) /\ Suits(call, client) /\ Serving(st)
  BY DEF Sync, Unanswered, Quiet
<1>2. /\ st' = r.st /\ s2c' = s2c \o r.lines /\ client' = client /\ call' = call
      /\ r.flow = "Close" => closed' = TRUE /\ srv' = "off"
      /\ r.flow # "Close" => closed' = FALSE /\ srv' = next
  BY DEF Sends
<1>3. closed' <=> Ends(r)
  BY <1>2
<1>4. ASSUME NEW l, IsList(l) PROVE <<>> \o l = l
  BY <1>4, ConcatEmptySeq DEF IsList
<1>5. IsList(r.lines)
  BY ListsBegin DEF Fits, Answered
<1>6. s2c' = r.lines
  BY <1>1, <1>2, <1>4, <1>5
<1>7. CASE r.flow = "Close" /\ r.lines = <<>>
  <2>1. Quiet(s2c', closed') /\ closed'
    BY <1>2, <1>6, <1>7, QuietLists
  <2>2. Unanswered'
    BY <2>1 DEF Unanswered
  <2>3. Suits(call', client') /\ Trusted(client') /\ call'.reading = "status" /\ srv' = "off"
    BY <1>1, <1>2, <1>7
  <2> QED BY <2>1, <2>2, <2>3 DEF Sync
<1>8. CASE Answered(verb, r.lines, Ends(r)) /\ (~Ends(r) => Tells(st, verb, r.lines[1], r.st, r.flow))
  <2>1. Answered(verb, s2c', closed')
    <3>1. closed' = Ends(r)
      BY <1>2 DEF Ends
    <3> QED BY <1>6, <1>8, <3>1
  <2>2. ASSUME ~closed'
        PROVE  /\ srv' = After(verb, s2c'[1].code) /\ Serving(st')
               /\ LogsIn(verb, s2c'[1].code) => st'.authenticated = TRUE
               /\ ~LogsIn(verb, s2c'[1].code) => st'.authenticated = client'.authenticated
               /\ Selects(verb, s2c'[1].code) => st'.current_group = s2c'[1].arg.name
               /\ ~Selects(verb, s2c'[1].code) => st'.current_group = client'.group.name
               /\ verb = "STARTTLS" /\ s2c'[1].code = 382 => client'.authenticated = FALSE
    <3>1. Tells(st, verb, r.lines[1], r.st, r.flow) /\ ~Ends(r) /\ r.flow # "Close"
      BY <1>2, <1>3, <1>8, <2>2
    <3>2. srv' = After(verb, s2c'[1].code)
      BY <1>2, <1>6, <3>1 DEF Tells, After
    <3>3. r.st.close_requested = FALSE
      BY <3>1 DEF Ends, Fits
    <3>4. r.st.authenticated \in {TRUE, st.authenticated}
      BY <3>1 DEF Tells
    <3>5. Serving(st')
      BY <1>1, <1>2, <3>3, <3>4 DEF Serving, IsState
    <3>6. st.current_group = client'.group.name /\ st.authenticated = client'.authenticated
      BY <1>1, <1>2 DEF Agrees
    <3> QED BY <1>2, <1>6, <3>1, <3>2, <3>5, <3>6 DEF Tells
  <2>3. Replied'
    BY <1>2, <2>1, <2>2 DEF Replied, Told
  <2>4. /\ Suits(call', client') /\ Trusted(client') /\ call'.reading = "status"
        /\ closed' => srv' = "off"
    BY <1>1, <1>2
  <2> QED BY <2>2, <2>3, <2>4 DEF Sync
<1> QED BY <1>7, <1>8 DEF Fits

\* Only a client that waits for a reply has the server at work.
LEMMA ServerAtWork ==
    ASSUME Core, Sync, srv = "greet" \/ (srv \in {"command", "article"} /\ c2s # <<>>)
    PROVE  /\ ~closed /\ call.reading = "status" /\ Unanswered /\ Serving(st)
           /\ srv = "greet" => call.cmd.verb = "greeting" /\ c2s = <<>>
           /\ srv \in {"command", "article"} =>
                 /\ c2s = <<call.cmd>> /\ Head(c2s) = call.cmd /\ Tail(c2s) = <<>>
                 /\ (call.cmd.verb = "article") <=> (srv = "article")
PROOF
<1>1. ~closed /\ Serving(st)
  BY DEF Sync
<1>2. call.reading \in {"nothing", "status", "block", "refused", "handshake"}
  BY DEF Core, CallFine, IsCall
<1>3. call.reading = "status" /\ Unanswered
  <2>1. ~Resting /\ ~Reads /\ ~Shakes
    BY <1>1 DEF Resting, Reads, Shakes
  <2>2. ~Replied
    BY <1>1 DEF Replied, After
  <2> QED BY <1>2, <2>1, <2>2 DEF Sync, Suits
<1>4. /\ c2s = IF call.cmd.verb = "greeting" THEN <<>> ELSE <<call.cmd>>
      /\ srv = Awaits(call.cmd.verb)
  BY <1>1, <1>3 DEF Unanswered
<1>5. srv = "greet" => call.cmd.verb = "greeting" /\ c2s = <<>>
  BY <1>4 DEF Awaits
<1>6. srv \in {"command", "article"} =>
         /\ c2s = <<call.cmd>> /\ Head(<<call.cmd>>) = call.cmd /\ Tail(<<call.cmd>>) = <<>>
         /\ (call.cmd.verb = "article") <=> (srv = "article")
  BY <1>4 DEF Awaits
<1> QED BY <1>1, <1>3, <1>5, <1>6

LEMMA ServerStepSteady ==
    ASSUME Whole, Steady, ServerStep PROVE Steady'
PROOF
<1>1. Core /\ IsState(st) /\ IsCorpus(corpus) /\ scene \in Scenes
  BY DEF Whole, Core, CallerFine
<1>2. client' = client /\ call' = call /\ lost' = lost
  BY DEF ServerStep, ServerGreets, ServerHandles, ServerTakesLine, ServerTakesArticle,
         ServerSeesEnd, Sends, callerVars
<1> SUFFICES ASSUME client.up, ~lost PROVE Sync'
  BY <1>2 DEF Steady
<1>3. Sync
  BY DEF Steady
<1>4. CASE ServerGreets
  <2>1. Config.greeting \in Greetings
    BY <1>1, ScenesAssumption DEF ServerConfig, Config
  <2>2. /\ ~closed /\ call.reading = "status" /\ Unanswered /\ Serving(st)
        /\ call.cmd.verb = "greeting" /\ c2s = <<>>
    BY <1>1, <1>3, <1>4, ServerAtWork DEF ServerGreets
  <2> DEFINE r == Greet(Config, st)
             verb == "greeting"
  <2>3. Fits(st, verb, r) /\ (Ends(r) <=> r.flow = "Close")
    BY <2>1, <2>2, OpeningFits
  <2>4. IsState(r.st)
    BY <1>1, <2>1, GreetingAnswers DEF Answers
  <2>5. Sends(r, "command") /\ c2s' = <<>> /\ verb = call.cmd.verb
    BY <1>4, <2>2 DEF ServerGreets
  <2> HIDE DEF r
  <2> QED BY <1>3, <2>2, <2>3, <2>4, <2>5, SendsSteady
<1>5. CASE ServerHandles
  <2>1. /\ ~closed /\ call.reading = "status" /\ Unanswered /\ Serving(st)
        /\ Head(c2s) = call.cmd /\ Tail(c2s) = <<>>
    BY <1>1, <1>3, <1>5, ServerAtWork DEF ServerHandles
  <2> DEFINE r == Handle(Config, corpus, st, call.cmd)
             verb == call.cmd.verb
  <2>2. Fits(st, verb, r) /\ (Ends(r) <=> r.flow = "Close")
    BY <1>1, <2>1, HandleFits
  <2>3. IsState(r.st)
    <3>1. c2s # <<>>
      BY <1>5 DEF ServerHandles
    <3>2. Sayable(call.cmd, st, profile)
      BY <1>1, <2>1, <3>1, WireShortens DEF Core, WireFine
    <3> QED BY <1>1, <3>2, HandleAnswers DEF Sayable, Answers
  <2>4. Sends(r, NextOf(r.flow)) /\ c2s' = <<>>
    BY <1>5, <2>1 DEF ServerHandles, NextOf
  <2> HIDE DEF r
  <2> QED BY <1>3, <2>1, <2>2, <2>3, <2>4, SendsSteady
<1>6. CASE ServerTakesArticle
  <2>1. /\ ~closed /\ call.reading = "status" /\ Unanswered /\ Serving(st)
        /\ Head(c2s) = call.cmd /\ Tail(c2s) = <<>> /\ call.cmd.verb = "article"
    BY <1>1, <1>3, <1>6, ServerAtWork DEF ServerTakesArticle
  <2> DEFINE r == AcceptArticle(Config, corpus, st, call.cmd.arg)
             verb == "article"
  <2>2. Fits(st, verb, r) /\ (Ends(r) <=> r.flow = "Close")
    BY <2>1, ArticleFits
  <2>3. IsState(r.st)
    BY <1>1, ArticleAnswers DEF Answers
  <2>4. Sends(r, "command") /\ c2s' = <<>> /\ verb = call.cmd.verb
    BY <1>6, <2>1 DEF ServerTakesArticle
  <2> HIDE DEF r
  <2> QED BY <1>3, <2>1, <2>2, <2>3, <2>4, SendsSteady
<1>7. ~ServerTakesLine
  BY <1>1, <1>3, ServerAtWork DEF ServerTakesLine
<1>8. ~ServerSeesEnd
  BY DEF ServerSeesEnd
<1> QED BY <1>4, <1>5, <1>6, <1>7, <1>8 DEF ServerStep
-------------------------------------------------------------------------------
(* The caller, the handshake and the faults.                                   *)

\* Nothing that matters has changed.
LEMMA SteadyStays ==
    ASSUME Steady, UNCHANGED <<client, call, c2s, s2c, closed, lost, srv, st>>
    PROVE  Steady'
BY DEF Steady, Sync, Trusted, Suits, Resting, Unanswered, Replied, Reads, Shakes, Agrees, Told

\* A call on a client that rests.
LEMMA CallsSteady ==
    ASSUME Leaves(client, "command"), NEW method \in Methods, NEW verb,
           verb \notin {"greeting", "article", "STARTTLS"}, NEW a, NEW arg,
           Ask(method, Command(verb, a), arg)
    PROVE  Steady'
PROOF
<1> DEFINE cmd == Command(verb, a)
<1>1. cmd.verb = verb
  BY DEF Command
<1>2. Awaits(cmd.verb) = "command" /\ cmd.verb \notin {"greeting", "STARTTLS"}
  BY <1>1 DEF Awaits
<1>3. Say(client, method, method, cmd, arg)
  BY DEF Ask
<1>4. method # "connect" /\ method # "format"
  BY DEF Methods
<1> HIDE DEF cmd
<1> QED BY <1>2, <1>3, <1>4, SaySteady

LEMMA FormatAskedSteady ==
    ASSUME Leaves(client, "command"), NEW method \in Methods, NEW range,
           AskOverviewFmt(method, range)
    PROVE  Steady'
PROOF
<1> DEFINE cmd == Command("LIST", [keyword |-> "OVERVIEW.FMT", pattern |-> NoPattern])
<1>1. cmd.verb = "LIST"
  BY DEF Command
<1>2. Awaits(cmd.verb) = "command"
  BY <1>1 DEF Awaits
<1>3. Say(client, method, "format", cmd, range)
  BY DEF AskOverviewFmt
<1>4. method # "connect"
  BY DEF Methods
<1> HIDE DEF cmd
<1> QED BY <1>1, <1>2, <1>3, <1>4, SaySteady

LEMMA InvokeSteady ==
    ASSUME Core, Steady, Stands, NEW m, Callable(m), Invoke(m)
    PROVE  Steady'
PROOF
<1>0. client.up /\ IsIdle /\ s2c' = s2c /\ lost' = lost
  BY DEF Invoke, Local
<1>1. CASE lost
  BY <1>0, <1>1 DEF Steady
<1>2. ASSUME ~lost PROVE Leaves(client, "command") /\ IsClient(client)
  <2>1. Sync /\ call = Idle
    BY <1>0, <1>2 DEF Steady, Core, CallFine, IsIdle
  <2>2. Resting
    BY <2>1 DEF Sync, Idle
  <2>3. Leaves(client, "command")
    BY <1>0, <2>1, <2>2 DEF Leaves, Sync, Resting, Agrees, Stands
  <2>4. NoClient.up = FALSE
    BY DEF NoClient
  <2> QED BY <1>0, <2>3, <2>4 DEF Core, ClientFine, Heir
<1>3. ASSUME NEW method, NEW result, Refuse(method, result) PROVE Steady'
  BY <1>0, <1>3, SteadyStays DEF Refuse, Stands
<1> SUFFICES ASSUME ~lost PROVE Steady'
  BY <1>1
<1>4. \/ \E verb : \E method \in Methods : \E a, arg :
            /\ verb \notin {"greeting", "article", "STARTTLS"}
            /\ Ask(method, Command(verb, a), arg)
      \/ \E method, result : Refuse(method, result)
      \/ \E range : \E method \in Methods : AskOverviewFmt(method, range)
      \/ OverviewStyle(client) # "Unavailable" /\ OverviewStreaming(client, m.arg)
      \/ HeaderStyle(client) # "Unavailable" /\ HeaderFieldStreaming(client, m.arg)
  <2>1. CASE m.method \in {"select_group", "server_date", "help", "quit", "new_groups"}
    <3>1. SelectGroup(m.arg) \/ ServerDate \/ Help \/ Quit \/ NewGroups(m.arg)
      BY <2>1 DEF Invoke
    <3> QED BY <3>1 DEF SelectGroup, ServerDate, Help, Quit, NewGroups, Methods
  <2>2. CASE m.method \in {"list_groups", "list_group_descriptions", "group_creation_times",
                           "available_header_fields"}
    <3>1. \E method \in Methods : \E keyword, pattern : List(method, keyword, pattern)
      BY <2>2 DEF Invoke, ListGroups, ListGroupDescriptions, GroupCreationTimes,
                  AvailableHeaderFields, Methods
    <3> QED BY <3>1 DEF List
  <2>3. CASE m.method = "overview_format"
    <3>1. Refuse("overview_format", "Ok") \/ AskOverviewFmt("overview_format", NoArg)
      BY <2>3 DEF Invoke, OverviewFormat
    <3> QED BY <3>1 DEF Methods
  <2>4. CASE m.method = "overview"
    <3>1. Overview(m.arg)
      BY <2>4 DEF Invoke
    <3> QED BY <3>1 DEF Overview, Methods
  <2>5. CASE m.method = "fetch"
    <3>1. Fetch(m.verb, m.arg)
      BY <2>5 DEF Invoke
    <3>2. m.verb \in {"ARTICLE", "HEAD", "BODY", "STAT"}
      BY <2>5 DEF Callable, BlockFetchCode
    <3> QED BY <3>1, <3>2 DEF Fetch, Methods
  <2>6. CASE m.method = "header_field"
    <3>1. HeaderField(m.arg)
      BY <2>6 DEF Invoke
    <3> QED BY <3>1 DEF HeaderField
  <2>7. CASE m.method = "article_numbers"
    <3>1. ArticleNumbers(m.arg)
      BY <2>7 DEF Invoke
    <3> QED BY <3>1 DEF ArticleNumbers, Methods
  <2>8. CASE m.method = "step"
    <3>1. Step(m.verb)
      BY <2>8 DEF Invoke
    <3>2. m.verb \in {"NEXT", "LAST"}
      BY <2>8 DEF Callable
    <3> QED BY <3>1, <3>2 DEF Step, Methods
  <2>9. CASE m.method = "post"
    <3>1. Post(m.arg)
      BY <2>9 DEF Invoke
    <3> QED BY <3>1 DEF Post, Methods
  <2> QED BY <2>1, <2>2, <2>3, <2>4, <2>5, <2>6, <2>7, <2>8, <2>9 DEF Methods, Callable
<1>5. Leaves(client, "command") /\ IsClient(client)
  BY <1>2
<1>6. ASSUME NEW method \in Methods, NEW verb, NEW a, NEW arg,
             verb \notin {"greeting", "article", "STARTTLS"}, Ask(method, Command(verb, a), arg)
      PROVE  Steady'
  BY <1>5, <1>6, CallsSteady
<1>7. ASSUME NEW method \in Methods, NEW range, AskOverviewFmt(method, range) PROVE Steady'
  BY <1>5, <1>7, FormatAskedSteady
<1> QED BY <1>3, <1>4, <1>5, <1>6, <1>7, StreamsSteady

LEMMA DialSteady == ASSUME Core, scene \in Scenes, Dial PROVE Steady'
PROOF
<1> DEFINE encrypted == profile.security = "ImplicitTls"
           c == NewClient(FALSE, encrypted)
           s == [NewSession(Config) EXCEPT !.encrypted = encrypted]
<1>1. /\ client' = c /\ st' = s /\ c2s' = <<>> /\ s2c' = <<>> /\ closed' = FALSE /\ srv' = "greet"
      /\ call' = [Idle EXCEPT !.method = "connect", !.step = "greeting",
                              !.cmd = Command("greeting", NoArg), !.reading = "status"]
  BY DEF Dial
<1>2. /\ call'.method = "connect" /\ call'.step = "greeting" /\ call'.cmd.verb = "greeting"
      /\ call'.reading = "status"
  BY <1>1 DEF Idle, Command
<1>3. Trusted(c) /\ c.group.name = NoGroup /\ c.authenticated = FALSE
  BY DEF Trusted, NewClient, NoSummary
<1>4. Serving(s) /\ s.current_group = NoGroup /\ s.authenticated = FALSE
  BY DEF Serving, NewSession, StateFields
<1> HIDE DEF c, s
<1>5. Quiet(s2c', closed')
  BY <1>1, QuietLists
<1>6. Unanswered'
  BY <1>1, <1>2, <1>3, <1>4, <1>5 DEF Unanswered, Awaits, Agrees
<1>7. Suits(call', client')
  BY <1>1, <1>2, <1>3 DEF Suits
<1>8. Sync'
  BY <1>1, <1>2, <1>3, <1>4, <1>6, <1>7 DEF Sync
<1> QED BY <1>8 DEF Steady

LEMMA UpgradeSteady == ASSUME Core, Steady, Upgrade PROVE Steady'
PROOF
<1>1. /\ call.reading = "handshake" /\ srv = "tls" /\ s2c = <<>> /\ s2c' = s2c /\ lost' = lost
      /\ closed' = closed /\ srv' = "command" /\ st' = [st EXCEPT !.encrypted = TRUE]
  BY DEF Upgrade, TlsReady
<1>3. CASE lost
  BY <1>1, <1>3 DEF Steady
<1>4. CASE ~lost
  <2>1. client.up
    <3>1. IF call.method = "idle" THEN call = Idle ELSE Heir(client, st)
      BY DEF Core, CallFine
    <3>2. Idle.reading = "nothing"
      BY DEF Idle
    <3>3. Heir(client, st)
      BY <1>1, <3>1, <3>2
    <3> QED BY <3>3 DEF Heir, IsClient
  <2>2. Sync /\ Shakes /\ ~closed
    BY <1>1, <1>4, <2>1 DEF Steady, Sync
  <2>3. /\ c2s = <<>> /\ st.current_group = NoGroup /\ st.authenticated = FALSE
    BY <2>2 DEF Shakes, Agrees, Sync, Suits
  <2>4. st'.current_group = st.current_group /\ st'.authenticated = st.authenticated /\ Serving(st')
    BY <1>1, <2>2 DEF Sync, Serving, StateFields
  <2> DEFINE c == NewClient(client.posting_allowed, TRUE)
  <2>5. Trusted(c) /\ c.group.name = NoGroup /\ c.authenticated = FALSE
    BY DEF Trusted, NewClient, NoSummary
  <2>6. AskCapabilities(c, "upgraded")
    BY DEF Upgrade, Handshaken
  <2> HIDE DEF c
  <2>7. Leaves(c, "command")
    BY <1>1, <2>2, <2>3, <2>4, <2>5, QuietLists DEF Leaves
  <2> QED BY <2>5, <2>6, <2>7, ConnectSteady
<1> QED BY <1>3, <1>4

LEMMA UpgradeFailsSteady == ASSUME Core, Steady, UpgradeFails PROVE Steady'
PROOF
<1>1. call.reading = "handshake" /\ Return(client, "Tls") /\ lost' = lost
  BY DEF UpgradeFails
<1>2. CASE ~client.up \/ lost
  BY <1>1, <1>2 DEF Steady, Return, NoClient
<1>3. CASE client.up /\ ~lost
  <2>1. call.method = "connect" /\ call.step = "starttls"
    BY <1>1, <1>3 DEF Steady, Sync, Shakes
  <2>2. ~KeptAfter("Tls")
    BY <2>1 DEF KeptAfter
  <2> QED BY <1>1, <2>2 DEF Return, Steady, NoClient
<1> QED BY <1>2, <1>3

LEMMA CallerSteady == ASSUME Whole, Steady, Caller PROVE Steady'
PROOF
<1>1. Core /\ CallerFine /\ scene \in Scenes
  BY DEF Whole, CallerFine
<1>2. CASE Dial
  BY <1>1, <1>2, DialSteady
<1>3. CASE WorkerCallsMethod
  <2>1. \E m \in WorkerCalls : Callable(m) /\ Invoke(m)
    BY <1>3, ScenesAssumption DEF WorkerCallsMethod
  <2>2. Stands
    BY <1>3, <2>1 DEF WorkerCallsMethod, serverVars, Stands, Invoke, Local
  <2> QED BY <1>1, <2>1, <2>2, InvokeSteady
<1>4. CASE WorkerDropsClient \/ JobDropsClient
  BY <1>4 DEF WorkerDropsClient, JobDropsClient, Steady, NoClient
<1>5. CASE WorkerResets \/ JobReturns
  BY <1>5, SteadyStays DEF WorkerResets, JobReturns, serverVars
<1>6. CASE JobCalls
  <2>1. todo \in Seq(StageNames(scene.job)) /\ todo # <<>>
    BY <1>6 DEF Whole, CallerFine, JobCalls
  <2>2. Head(todo) \in StageNames(scene.job)
    BY <2>1
  <2> DEFINE m == CallAt(scene.job, Head(todo), client.group)
  <2>3. Callable(m)
    BY <1>1, <2>2, StagesAre
  <2>4. Invoke(m) /\ Stands
    BY <1>6 DEF JobCalls, serverVars, Stands, Invoke, Local
  <2> HIDE DEF m
  <2> QED BY <1>1, <2>3, <2>4, InvokeSteady
<1> QED BY <1>2, <1>3, <1>4, <1>5, <1>6 DEF Caller
\* A reply with the announcement after it that the server has gone.
LEMMA RepliesGrow ==
    ASSUME NEW verb, NEW l, Answered(verb, l, FALSE)
    PROVE  Answered(verb, l, TRUE) /\ Answered(verb, Append(l, Hush), TRUE)
PROOF
<1> DEFINE k == Append(l, Hush)
<1>1. PICK S : l \in Seq(S)
  BY DEF Answered, IsList
<1> DEFINE T == S \cup {Hush}
<1>2. l \in Seq(T) /\ l # <<>> /\ Hush \in T
  BY <1>1 DEF Answered
<1> HIDE DEF T
<1>3. IsList(k) /\ k # <<>> /\ k[1] = l[1] /\ Tail(k) = Append(Tail(l), Hush)
  <2>1. k \in Seq(T) /\ Len(k) = Len(l) + 1 /\ Len(l) >= 1
    BY <1>2
  <2>2. Tail(k) \in Seq(T) /\ Append(Tail(l), Hush) \in Seq(T) /\ k[1] = l[1] /\ k # <<>>
    BY <1>2, <2>1
  <2>3. Len(Tail(k)) = Len(l) /\ Len(Append(Tail(l), Hush)) = Len(l)
    BY <1>2, <2>1
  <2>4. ASSUME NEW i \in 1..Len(Tail(k)) PROVE Tail(k)[i] = Append(Tail(l), Hush)[i]
    <3>1. i \in 1..Len(l) /\ Len(l) \in Nat /\ Tail(l) \in Seq(T) /\ Len(Tail(l)) = Len(l) - 1
      BY <1>2, <2>1, <2>3
    <3>2. Tail(k)[i] = k[i + 1]
      BY <2>1, <2>2, <3>1
    <3>3. CASE i = Len(l)
      <4>1. k[i + 1] = Hush
        BY <1>2, <3>3
      <4>2. Append(Tail(l), Hush)[i] = Hush
        BY <1>2, <3>1, <3>3
      <4> QED BY <3>2, <4>1, <4>2
    <3>4. CASE i # Len(l)
      <4>1. i + 1 \in 1..Len(l) /\ i \in 1..(Len(l) - 1)
        <5>1. Len(l) \in Nat /\ i \in 1..Len(l)
          BY <3>1
        <5> QED BY ONLY <5>1, <3>4
      <4>2. k[i + 1] = l[i + 1]
        BY <1>2, <4>1
      <4>3. Append(Tail(l), Hush)[i] = Tail(l)[i]
        BY <1>2, <3>1, <4>1
      <4>4. Tail(l)[i] = l[i + 1]
        BY <1>2, <3>1, <4>1
      <4> QED BY <3>2, <4>2, <4>3, <4>4
    <3> QED BY <3>3, <3>4
  <2> QED BY <2>1, <2>2, <2>3, <2>4, SeqEqual DEF IsList
<1>4. l[1].kind = "status" /\ (verb \in {"XOVER", "XHDR"} => l[1].code \notin {500, 503})
  BY DEF Answered
<1> DEFINE rest == Append(Tail(l), Hush)
<1>5. IsList(l) /\ Tail(k) = rest /\ k[1] = l[1]
  BY <1>3 DEF Answered
<1>6. k[1].kind = "status" /\ (verb \in {"XOVER", "XHDR"} => k[1].code \notin {500, 503})
      /\ (Announces(verb, k[1].code) <=> Announces(verb, l[1].code))
  BY <1>4, <1>5
<1>7. ASSUME Announces(verb, l[1].code)
      PROVE  Answered(verb, l, TRUE) /\ Answered(verb, k, TRUE)
  <2>1. BlockRest(Tail(l), FALSE)
    BY <1>7 DEF Answered
  <2>2. BlockRest(Tail(l), TRUE) /\ BlockRest(rest, TRUE)
    BY <2>1, BlockLists
  <2> HIDE DEF k, rest
  <2>3. BlockRest(Tail(k), TRUE)
    BY <1>5, <2>2
  <2>4. Answered(verb, l, TRUE)
    BY <1>2, <1>4, <1>5, <1>7, <2>2 DEF Answered
  <2>5. Answered(verb, k, TRUE)
    BY <1>3, <1>6, <1>7, <2>3 DEF Answered
  <2> QED BY <2>4, <2>5
<1>8. ASSUME ~Announces(verb, l[1].code)
      PROVE  Answered(verb, l, TRUE) /\ Answered(verb, k, TRUE)
  <2>1. (verb = "STARTTLS" /\ l[1].code = 382) \/ Quiet(Tail(l), FALSE)
    BY <1>8 DEF Answered
  <2>2. \/ verb = "STARTTLS" /\ l[1].code = 382
        \/ Quiet(Tail(l), TRUE) /\ Quiet(rest, TRUE)
    BY <2>1, QuietLists
  <2> HIDE DEF k, rest
  <2>3. Quiet(rest, TRUE) => Quiet(Tail(k), TRUE)
    BY <1>5
  <2>4. (verb = "STARTTLS" /\ k[1].code = 382) \/ Quiet(Tail(k), TRUE)
    BY <1>5, <2>2, <2>3
  <2>5. Answered(verb, l, TRUE)
    BY <1>2, <1>4, <1>5, <1>8, <2>2 DEF Answered
  <2>6. Answered(verb, k, TRUE)
    BY <1>3, <1>6, <1>8, <2>4 DEF Answered
  <2> QED BY <2>5, <2>6
<1> QED BY <1>7, <1>8

\* The server gives up on a client that says nothing.
LEMMA IdlesSteady == ASSUME Core, Steady, Idles PROVE Steady'
PROOF
<1>1. /\ srv \in {"command", "article", "tls"} /\ c2s = <<>> /\ srv' = "off" /\ closed' = TRUE
      /\ s2c' \in {s2c, Append(s2c, Hush)}
      /\ UNCHANGED <<client, call, c2s, lost, st>>
  BY DEF Idles, Hush
<1> SUFFICES ASSUME client.up, ~lost PROVE Sync'
  BY <1>1 DEF Steady
<1>2. Sync /\ ~closed
  BY <1>1 DEF Steady, Sync
<1>3. call.reading \in {"nothing", "status", "block", "handshake"}
  BY <1>2 DEF Core, CallFine, IsCall, Sync, Suits
<1>4. call.reading = "nothing" => Resting'
  BY <1>1, <1>2, QuietLists DEF Sync, Resting
<1>5. ASSUME call.reading = "status" PROVE Unanswered' \/ Replied'
  <2>1. CASE Unanswered
    BY <1>1, <2>1, QuietLists DEF Unanswered
  <2>2. CASE Replied
    <3>1. Answered(call.cmd.verb, s2c, FALSE)
      <4>1. Answered(call.cmd.verb, s2c, closed)
        BY <2>2 DEF Replied
      <4> QED BY <1>2, <4>1 DEF Answered, BlockRest, Quiet
    <3>2. Answered(call.cmd.verb, s2c', TRUE)
      BY <1>1, <3>1, RepliesGrow
    <3> QED BY <1>1, <3>2 DEF Replied
  <2> QED BY <1>2, <1>5, <2>1, <2>2 DEF Sync
<1>6. ASSUME call.reading = "block" PROVE Reads'
  <2>1. BlockRest(s2c, FALSE)
    BY <1>2, <1>6 DEF Sync, Reads, BlockRest
  <2>2. BlockRest(s2c', TRUE)
    BY <1>1, <2>1, BlockLists
  <2> QED BY <1>1, <2>2 DEF Reads
<1>7. call.reading = "handshake" => Shakes'
  BY <1>1, <1>2 DEF Sync, Shakes
<1>8. Suits(call', client') /\ Trusted(client')
  BY <1>1, <1>2 DEF Sync
<1> QED BY <1>1, <1>3, <1>4, <1>5, <1>6, <1>7, <1>8 DEF Sync

\* More in the clear after a 382: the reply may go on, and a handshake has begun.
LEMMA ChattersSteady == ASSUME Core, Steady, Chatters PROVE Steady'
PROOF
<1> DEFINE x == Data(Label("injected"))
<1>1. /\ srv = "tls" /\ s2c' = Append(s2c, x)
      /\ UNCHANGED <<client, call, c2s, closed, lost, srv, st>>
  BY DEF Chatters, serverVars
<1> HIDE DEF x
<1> SUFFICES ASSUME client.up, ~lost PROVE Sync'
  BY <1>1 DEF Steady
<1>2. Sync /\ ~closed
  BY <1>1 DEF Steady, Sync
<1>3. call.reading \in {"nothing", "status", "block", "handshake"}
  BY <1>2 DEF Core, CallFine, IsCall, Sync, Suits
<1>4. call.reading \notin {"nothing", "block"}
  BY <1>1, <1>2 DEF Sync, Resting, Reads
<1>5. ASSUME call.reading = "status" PROVE Replied'
  <2>1. Replied
    BY <1>1, <1>2, <1>5 DEF Sync, Unanswered, Awaits
  <2>2. /\ call.cmd.verb = "STARTTLS" /\ s2c[1].code = 382 /\ s2c[1].kind = "status"
        /\ IsList(s2c) /\ s2c # <<>>
    BY <1>1, <1>2, <2>1 DEF Replied, After, Answered
  <2>3. IsList(s2c') /\ s2c' # <<>> /\ s2c'[1] = s2c[1]
    <3>1. /\ IsList(s2c') /\ Len(s2c) \in Nat /\ 1 \in 1..Len(s2c) /\ s2c'[1] = s2c[1]
          /\ Len(s2c') = Len(s2c) + 1
      BY <1>1, <2>2, ListsGrow
    <3>2. Len(<<>>) = 0 /\ Len(s2c') # 0
      BY <3>1, ListsBegin
    <3> QED BY <3>1, <3>2
  <2>4. ~Announces("STARTTLS", 382)
    BY DEF Announces
  <2>5. Answered(call.cmd.verb, s2c', closed)
    BY <2>2, <2>3, <2>4 DEF Answered
  <2> QED BY <1>1, <2>1, <2>3, <2>5 DEF Replied, Told
<1>6. call.reading = "handshake" => Shakes'
  BY <1>1, <1>2 DEF Sync, Shakes, Agrees
<1>7. /\ Suits(call', client') /\ Trusted(client')
      /\ closed' => srv' = "off"
      /\ ~closed' => Serving(st')
  BY <1>1, <1>2 DEF Sync
<1> QED BY <1>1, <1>3, <1>4, <1>5, <1>6, <1>7 DEF Sync

LEMMA FaultsSteady == ASSUME Core, Steady, GoesWrong PROVE Steady'
PROOF
<1>1. CASE DialFails \/ Cancels
  BY <1>1, SteadyStays DEF DialFails, Cancels, serverVars
<1>2. CASE Times \/ GivesUp \/ Resets
  BY <1>2 DEF Times, GivesUp, Resets, ReadTimeout, ReadReset, Fail, Steady
<1> QED BY <1>1, <1>2, IdlesSteady, ChattersSteady DEF GoesWrong

LEMMA SteadyBegins == Init => Steady
PROOF
<1>1. Init => client = NoClient
  BY DEF Init
<1>2. NoClient.up = FALSE
  BY DEF NoClient
<1> QED BY <1>1, <1>2 DEF Steady

LEMMA SteadyHolds == Whole /\ Steady /\ [Next]_vars => Steady'
PROOF
<1> SUFFICES ASSUME Whole, Steady, [Next]_vars PROVE Steady'
  OBVIOUS
<1>1. Core
  BY DEF Whole
<1>2. ASSUME ClientSteps PROVE Steady'
  <2>1. ClientReads /\ srv' = srv /\ st' = st
    BY <1>2 DEF ClientSteps, serverVars
  <2>2. closed' = closed
    BY <2>1 DEF ClientReads, ReadStatus, StatusFor, GreetingStatus, CapabilitiesStatus, ModeStatus,
       AuthStatus, StartTlsStatus, GroupStatus, ListingStatus, FormatStatus, OverviewStatus,
       HeaderStatus, FetchStatus, StatStatus, DateStatus, HelpStatus, ListGroupStatus,
       PostStatus, PostedStatus, QuitStatus, ReadBlockLine, BlockCancelled, BlockLine, BlockEnd,
       ReadFails, OverlongLine, NotAStatusLine, EndOfStream, SendRefused, Fail
  <2> QED BY <1>1, <2>1, <2>2, ReadsSteady DEF Stands
<1>3. ASSUME Finished \/ UNCHANGED vars PROVE Steady'
  BY <1>3, SteadyStays DEF Finished, vars, clientVars, serverVars
<1> QED BY <1>1, <1>2, <1>3, CallerSteady, ServerStepSteady, UpgradeSteady, UpgradeFailsSteady,
        FaultsSteady DEF Next

(***************************************************************************)
(* The in-step invariant holds of every conversation.                      *)
(***************************************************************************)
THEOREM ConversationSteady == Spec => []Steady
PROOF
<1>1. Init /\ [][Next]_vars /\ []Whole => []Steady
  BY SteadyBegins, SteadyHolds, PTL
<1> QED BY <1>1, ConversationKept, PTL DEF Spec

(***************************************************************************)
(* Between two calls nothing is left over, whatever the server's quirks,   *)
(* whatever was asked and whatever went wrong on the way: a client whose   *)
(* reads have all succeeded has no command unanswered and no line unread,  *)
(* and the server waits for a command, unless it has gone.  Every method   *)
(* of Client reads its reply to the last line on every path that keeps the *)
(* connection.                                                             *)
(***************************************************************************)
THEOREM ClientInStep == Spec => []InStep
PROOF
<1>1. ASSUME Whole, Steady PROVE InStep
  <2> SUFFICES ASSUME client.up, IsIdle, ~lost, ~closed
               PROVE  c2s = <<>> /\ s2c = <<>> /\ srv = "command"
    BY DEF InStep, Sound
  <2>1. Sync /\ call = Idle
    BY <1>1 DEF Steady, Whole, Core, CallFine, IsIdle
  <2>2. Resting
    BY <2>1 DEF Sync, Idle
  <2> QED BY <2>2 DEF Resting, Quiet
<1> QED BY <1>1, ConversationKept, ConversationSteady, PTL

(***************************************************************************)
(* What the client believes of the session is so: the group it takes to be *)
(* selected and whether it takes itself to be logged in, over every mix of *)
(* GROUP, LISTGROUP, refusals, logins and STARTTLS, and it never gives     *)
(* overviews or header lines up against a server that serves the X forms   *)
(* (Client::group, authenticate, overview_streaming).                      *)
(***************************************************************************)
THEOREM ClientBelievesWhatIs == Spec => []BeliefsAgree
PROOF
<1>1. ASSUME Whole, Steady PROVE BeliefsAgree
  <2>1. ASSUME client.up, ~lost PROVE Sync
    BY <1>1, <2>1 DEF Steady
  <2>2. ASSUME client.up, ~lost, IsIdle, ~closed
        PROVE  client.group.name = st.current_group /\ client.authenticated = st.authenticated
    <3>1. Sync /\ call = Idle
      BY <1>1, <2>1, <2>2 DEF Whole, Core, CallFine, IsIdle
    <3>2. Resting
      BY <3>1 DEF Sync, Idle
    <3> QED BY <2>2, <3>2 DEF Resting, Agrees
  <2>3. client.up /\ ~lost => /\ client.overview_style # "Unavailable"
                              /\ client.header_style # "Unavailable"
    BY <2>1 DEF Sync, Trusted
  <2> QED BY <2>2, <2>3 DEF BeliefsAgree, Sound
<1> QED BY <1>1, ConversationKept, ConversationSteady, PTL

-------------------------------------------------------------------------------
(* Posting: what the client does with a draft.                                 *)

\* The worker may be asked to post it.
IsPosted(article) == \E m \in WorkerCalls : m.method = "post" /\ m.arg = article

\* A call of post, and no other, posts.
IsPosting(k) ==
    /\ k.method = "post" <=> k.cmd.verb \in {"POST", "article"}
    /\ k.method = "post" => /\ k.reading \in {"status", "refused"} /\ k.step # "relisted"
                            /\ IsPosted(k.arg)

\* A step of the client that sends no article and says of none that it was accepted.
Turns ==
    /\ IsPosting(call') /\ call'.cmd.verb # "article"
    /\ c2s' = c2s \/ \E cmd : cmd.verb # "article" /\ c2s' = Append(c2s, cmd)
    /\ call.method = "post" => IsIdle' /\ outcome'.result # "Ok"

\* What any other method does: it returns, goes on, or waits for more.
Moves ==
    \/ \E c, result : Return(c, result)
    \/ \E c, method, step, cmd, arg :
          method # "post" /\ cmd.verb \notin {"POST", "article"} /\ Say(c, method, step, cmd, arg)
    \/ call'.method = call.method /\ call'.cmd = call.cmd /\ c2s' = c2s

TakesOffer == PostStatus /\ Line.code = 340
TakesYes == PostedStatus /\ Line.code = 240

\* No code of a failure is a success.
LEMMA CodesAreErrors == \A code : FromStatus(code) # "Ok"
BY DEF FromStatus

LEMMA IdlePosts == IsPosting(Idle) /\ Idle.cmd.verb # "article" /\ Idle.method # "post"
BY DEF IsPosting, Idle, Command

\* A method that returns, and one that is not post.
LEMMA ReturnTurns ==
    ASSUME NEW c, NEW result, call.method = "post" => result # "Ok", Return(c, result)
    PROVE  Turns
PROOF
<1>1. call' = Idle /\ c2s' = c2s /\ outcome'.result = result
  BY DEF Return
<1>2. IsIdle'
  BY <1>1 DEF IsIdle, Idle
<1> QED BY <1>1, <1>2, IdlePosts DEF Turns

LEMMA MovesTurn ==
    ASSUME IsPosting(call), call.method # "post", Moves
    PROVE  Turns
PROOF
<1>1. CASE \E c, result : Return(c, result)
  BY <1>1, ReturnTurns
<1>2. ASSUME NEW c, NEW method, NEW step, NEW cmd, NEW arg,
             method # "post", cmd.verb \notin {"POST", "article"}, Say(c, method, step, cmd, arg)
      PROVE  Turns
  <2>1. call'.method = method /\ call'.cmd = cmd /\ (c2s' = c2s \/ c2s' = Append(c2s, cmd))
    BY <1>2 DEF Say
  <2> QED BY <1>2, <2>1 DEF Turns, IsPosting
<1>3. CASE call'.method = call.method /\ call'.cmd = call.cmd /\ c2s' = c2s
  BY <1>3 DEF Turns, IsPosting
<1> QED BY <1>1, <1>2, <1>3 DEF Moves

\* A command that is no posting.
LEMMA SaidMoves ==
    ASSUME NEW c, NEW method, method # "post", NEW step, NEW verb, verb \notin {"POST", "article"},
           NEW a, NEW arg, Say(c, method, step, Command(verb, a), arg)
    PROVE  Moves
PROOF
<1>1. Command(verb, a).verb = verb
  BY DEF Command
<1> QED BY <1>1 DEF Moves

\* What the steps of connect and of the queries come to.
LEMMA ConnectMoves ==
    ASSUME NEW c, NEW step,
           \/ AskCapabilities(c, step) \/ AskUser(c) \/ AskPass(c) \/ Authenticate(c)
           \/ EnterReaderMode(c)
    PROVE  Moves
PROOF
<1>1. \/ \E result : Return(c, result)
      \/ \E s, verb, a : verb \notin {"POST", "article"}
                         /\ Say(c, "connect", s, Command(verb, a), NoArg)
  BY DEF AskCapabilities, AskUser, AskPass, Authenticate, EnterReaderMode
<1> QED BY <1>1, SaidMoves DEF Moves

LEMMA CapabilitiesMove ==
    ASSUME NEW c, call.step \in CapabilitySteps, AfterCapabilities(c)
    PROVE  Moves
PROOF
<1>1. \/ AskCapabilities(c, "handshake") \/ EnterReaderMode(c) \/ Authenticate(c)
      \/ \E result : Return(c, result)
      \/ Say(c, "connect", "starttls", Command("STARTTLS", NoArg), NoArg)
  BY DEF AfterCapabilities, CapabilitySteps, AfterHandshake, OfferStartTls, Handshake
<1> QED BY <1>1, ConnectMoves, SaidMoves DEF Moves

LEMMA StreamsMove ==
    ASSUME NEW c, IsClient(c), NEW range
    PROVE  /\ OverviewStyle(c) # "Unavailable" /\ OverviewStreaming(c, range) => Moves
           /\ HeaderStyle(c) # "Unavailable" /\ HeaderFieldStreaming(c, range) => Moves
PROOF
<1>1. /\ OverviewStyle(c) \in {"Unknown", "Over", "XOver", "Unavailable"}
      /\ HeaderStyle(c) \in {"Unknown", "Hdr", "XHdr", "Unavailable"}
  BY DEF IsClient, OverviewStyle, HeaderStyle
<1>2. ASSUME OverviewStyle(c) # "Unavailable", OverviewStreaming(c, range) PROVE Moves
  <2>1. \E verb \in {"XOVER", "OVER"} : Say(c, "overview", "overview", Command(verb, range), range)
    BY <1>1, <1>2 DEF OverviewStreaming
  <2> QED BY <2>1, SaidMoves
<1>3. ASSUME HeaderStyle(c) # "Unavailable", HeaderFieldStreaming(c, range) PROVE Moves
  <2>1. \E verb \in {"XHDR", "HDR"} :
           Say(c, "header_field", "header_field", Command(verb, range), range)
    BY <1>1, <1>3 DEF HeaderFieldStreaming
  <2> QED BY <2>1, SaidMoves
<1> QED BY <1>2, <1>3

LEMMA FormatMoves ==
    ASSUME NEW c, IsClient(c), AfterFormat(c)
    PROVE  Moves
PROOF
<1>1. \/ \E result : Return(c, result)
      \/ OverviewStyle(c) # "Unavailable" /\ OverviewStreaming(c, call.arg)
  BY DEF AfterFormat
<1> QED BY <1>1, StreamsMove DEF Moves

LEMMA BlockMoves ==
    ASSUME NEW c, IsCall(call, profile.max_block_lines), ReadBlock(c)
    PROVE  Moves
BY DEF ReadBlock, Moves, IsCall

\* A read that fails ends the call, and no posting that fails was accepted.
LEMMA FailTurns ==
    ASSUME IsPosting(call), NEW c, NEW error, error # "Ok", Fail(c, error)
    PROVE  Turns
PROOF
<1>1. PICK d : Return(d, IF \/ call.step = "relisted"
                            \/ call.method = "quit" /\ error = "ConnectionClosed"
                         THEN "Ok" ELSE error)
  BY DEF Fail
<1>2. call.method = "post" => call.step # "relisted" /\ call.method # "quit"
  BY DEF IsPosting
<1> QED BY <1>1, <1>2, ReturnTurns

LEMMA FailuresTurn ==
    ASSUME IsPosting(call), ReadFails \/ BlockCancelled \/ ReadTimeout \/ ReadReset
    PROVE  Turns
PROOF
<1>1. \E error \in FatalErrors : Fail(client, error) \/ Fail(Desynchronised(client), error)
  BY DEF ReadFails, OverlongLine, NotAStatusLine, EndOfStream, SendRefused, BlockCancelled,
         ReadTimeout, ReadReset, FatalErrors
<1>2. "Ok" \notin FatalErrors
  BY DEF FatalErrors
<1> QED BY <1>1, <1>2, FailTurns

(***************************************************************************)
(* What the client reads lets it send an article only if it was offered    *)
(* to take one, and report one accepted only if the answer was yes.        *)
(***************************************************************************)
LEMMA StatusTurns ==
    ASSUME Core, st' = st, IsPosting(call), ReadStatus
    PROVE  Turns \/ TakesOffer \/ TakesYes
PROOF
<1>1. /\ Calm /\ IsClient(client) /\ IsCall(call, profile.max_block_lines)
  BY StatusIsCalm DEF ReadStatus, GreetingStatus, CapabilitiesStatus, ModeStatus, AuthStatus,
         StartTlsStatus, GroupStatus, ListingStatus, FormatStatus, OverviewStatus, HeaderStatus,
         FetchStatus, StatStatus, DateStatus, HelpStatus, ListGroupStatus, PostStatus, PostedStatus,
         QuitStatus
<1>2. CASE GreetingStatus
  <2>1. /\ call.cmd.verb = "greeting"
        /\ \/ Return(client, "Server")
           \/ \E c, step : AskCapabilities(c, step)
    BY <1>2 DEF GreetingStatus, StatusFor, AfterGreeting, Handshake
  <2> QED BY <2>1, ConnectMoves, MovesTurn DEF Moves, IsPosting
<1>3. CASE CapabilitiesStatus
  <2>1. call.cmd.verb = "CAPABILITIES" /\ call.step \in CapabilitySteps
    BY <1>3 DEF CapabilitiesStatus, StatusFor, Core, CallFine
  <2>2. \/ ReadBlock(client) \/ \E c : AfterCapabilities(c)
        \/ \E result : Return(client, result)
    BY <1>3 DEF CapabilitiesStatus
  <2> QED BY <1>1, <2>1, <2>2, BlockMoves, CapabilitiesMove, MovesTurn DEF Moves, IsPosting
<1>4. CASE ModeStatus
  <2>1. /\ call.cmd.verb = "MODE"
        /\ \/ \E result : Return(client, result)
           \/ \E c, step : AskCapabilities(c, step)
    BY <1>4 DEF ModeStatus, StatusFor
  <2> QED BY <2>1, ConnectMoves, MovesTurn DEF Moves, IsPosting
<1>5. CASE AuthStatus
  <2>1. /\ call.cmd.verb = "AUTHINFO"
        /\ \/ \E c, result : Return(c, result)
           \/ \E c, step : AskCapabilities(c, step) \/ AskPass(c)
    BY <1>5 DEF AuthStatus, StatusFor
  <2> QED BY <2>1, ConnectMoves, MovesTurn DEF Moves, IsPosting
<1>6. CASE StartTlsStatus
  <2>1. /\ call.cmd.verb = "STARTTLS"
        /\ \/ \E result : Return(client, result)
           \/ call' = [call EXCEPT !.reading = "handshake"] /\ c2s' = c2s
    BY <1>6 DEF StartTlsStatus, StatusFor
  <2>2. Moves
    BY <1>1, <2>1 DEF Moves, IsCall
  <2> QED BY <2>1, <2>2, MovesTurn DEF IsPosting
<1>7. CASE GroupStatus \/ StatStatus \/ DateStatus \/ QuitStatus
  <2>1. /\ call.cmd.verb \notin {"POST", "article"}
        /\ \E c, result : Return(c, result)
    BY <1>7 DEF GroupStatus, StatStatus, DateStatus, QuitStatus, StatusFor
  <2> QED BY <2>1, MovesTurn DEF Moves, IsPosting
<1>8. CASE ListingStatus \/ FetchStatus \/ HelpStatus
  <2>1. /\ call.cmd.verb \notin {"POST", "article"}
        /\ ReadBlock(client) \/ \E result : Return(client, result)
    BY <1>8 DEF ListingStatus, FetchStatus, HelpStatus, StatusFor, BlockFetchCode
  <2> QED BY <1>1, <2>1, BlockMoves, MovesTurn DEF Moves, IsPosting
<1>9. CASE ListGroupStatus
  <2>1. /\ call.cmd.verb = "LISTGROUP"
        /\ \/ \E result : Return(client, result)
           \/ call' = [call EXCEPT !.reading = "block", !.arg = Line.arg] /\ c2s' = c2s
    BY <1>9 DEF ListGroupStatus, StatusFor
  <2>2. Moves
    BY <1>1, <2>1 DEF Moves, IsCall
  <2> QED BY <2>1, <2>2, MovesTurn DEF IsPosting
<1>10. CASE FormatStatus
  <2> DEFINE c == [client EXCEPT !.overview_fmt = "standard"]
  <2>1. call.cmd.verb = "LIST" /\ (ReadBlock(client) \/ AfterFormat(c))
    BY <1>10 DEF FormatStatus, StatusFor
  <2>2. IsClient(c)
    BY <1>1 DEF IsClient, ClientFields
  <2> HIDE DEF c
  <2> QED BY <1>1, <2>1, <2>2, BlockMoves, FormatMoves, MovesTurn DEF IsPosting
<1>11. CASE OverviewStatus
  <2> DEFINE x == [client EXCEPT !.overview_style = "XOver"]
  <2>1. /\ call.cmd.verb \notin {"POST", "article"}
        /\ \/ \E c : ReadBlock(c) \/ \E result : Return(c, result)
           \/ OverviewStreaming(x, call.arg)
    BY <1>11 DEF OverviewStatus, StatusFor
  <2>2. IsClient(x) /\ OverviewStyle(x) # "Unavailable"
    BY <1>1 DEF IsClient, ClientFields, OverviewStyle
  <2> HIDE DEF x
  <2> QED BY <1>1, <2>1, <2>2, BlockMoves, StreamsMove, MovesTurn DEF Moves, IsPosting
<1>12. CASE HeaderStatus
  <2> DEFINE x == [client EXCEPT !.header_style = "XHdr"]
  <2>1. /\ call.cmd.verb \notin {"POST", "article"}
        /\ \/ \E c : ReadBlock(c) \/ \E result : Return(c, result)
           \/ HeaderFieldStreaming(x, call.arg)
    BY <1>12 DEF HeaderStatus, StatusFor
  <2>2. IsClient(x) /\ HeaderStyle(x) # "Unavailable"
    BY <1>1 DEF IsClient, ClientFields, HeaderStyle
  <2> HIDE DEF x
  <2> QED BY <1>1, <2>1, <2>2, BlockMoves, StreamsMove, MovesTurn DEF Moves, IsPosting
<1>13. CASE PostStatus
  <2>1. ASSUME Line.code # 340 PROVE Turns
    <3>1. \E result : result # "Ok" /\ Return(client, result)
      BY <1>13, <2>1, CodesAreErrors DEF PostStatus
    <3> QED BY <3>1, ReturnTurns
  <2> QED BY <1>13, <2>1 DEF TakesOffer
<1>14. CASE PostedStatus
  <2>1. ASSUME Line.code # 240 PROVE Turns
    <3>1. \E result : result # "Ok" /\ Return(client, result)
      BY <1>14, <2>1, CodesAreErrors DEF PostedStatus
    <3> QED BY <3>1, ReturnTurns
  <2> QED BY <1>14, <2>1 DEF TakesYes
<1> QED BY <1>2, <1>3, <1>4, <1>5, <1>6, <1>7, <1>8, <1>9, <1>10, <1>11, <1>12, <1>13, <1>14
       DEF ReadStatus

LEMMA ReadsTurn ==
    ASSUME Core, st' = st, IsPosting(call), ClientReads
    PROVE  Turns \/ TakesOffer \/ TakesYes
PROOF
<1>1. IsCall(call, profile.max_block_lines)
  BY DEF Core, CallFine
<1>2. CASE BlockLine
  <2>1. call.reading = "block"
    BY <1>2 DEF BlockLine, InBlock
  <2>2. \/ \E c, error : error # "Ok" /\ Fail(c, error)
        \/ \E got : call' = [call EXCEPT !.got = got] /\ c2s' = c2s
    BY <1>2 DEF BlockLine
  <2>3. call.method # "post"
    BY <2>1 DEF IsPosting
  <2>4. ASSUME NEW got, call' = [call EXCEPT !.got = got], c2s' = c2s PROVE Moves
    BY <1>1, <2>4 DEF Moves, IsCall
  <2> QED BY <2>2, <2>3, <2>4, FailTurns, MovesTurn
<1>3. CASE BlockEnd
  <2>1. call.reading = "block" /\ BlockDone(call.got)
    BY <1>3 DEF BlockEnd, InBlock
  <2>2. call.method # "post"
    BY <2>1 DEF IsPosting
  <2>3. IsClient(client)
    <3>1. Idle.reading = "nothing"
      BY DEF Idle
    <3> QED BY <2>1, <3>1 DEF Core, CallFine, Heir
  <2> DEFINE f == [client EXCEPT !.overview_fmt = "served"]
  <2>4. IsClient(f)
    BY <2>3 DEF IsClient, ClientFields
  <2>5. call.cmd.verb = "CAPABILITIES" => call.step \in CapabilitySteps
    BY DEF Core, CallFine
  <2>6. \/ call.cmd.verb = "CAPABILITIES" /\ \E c : AfterCapabilities(c)
        \/ AfterFormat(f) \/ \E c, result : Return(c, result)
    BY <2>1 DEF BlockDone
  <2> HIDE DEF f
  <2> QED BY <2>2, <2>4, <2>5, <2>6, CapabilitiesMove, FormatMoves, MovesTurn DEF Moves
<1> QED BY <1>2, <1>3, StatusTurns, FailuresTurn DEF ClientReads, ReadBlockLine

\* A new call.
LEMMA InvokeTurns ==
    ASSUME Core, IsPosting(call), NEW m, Callable(m), m.method = "post" => IsPosted(m.arg), Invoke(m)
    PROVE  Turns
PROOF
<1>1. call.method = "idle" /\ IsClient(client)
  <2>1. client.up /\ IsIdle
    BY DEF Invoke
  <2>2. ~NoClient.up
    BY DEF NoClient
  <2> QED BY <2>1, <2>2 DEF Core, ClientFine, Heir, IsIdle
<1>2. \A method, result : Refuse(method, result) => Moves
  BY DEF Refuse, Moves
<1>3. CASE m.method # "post"
  <2>1. Callable(m) /\ m.method \in Methods
    BY DEF Callable
  <2>2. \/ \E method, result : Refuse(method, result)
        \/ \E method, step, verb, a, arg :
              method # "post" /\ verb \notin {"POST", "article"}
              /\ Say(client, method, step, Command(verb, a), arg)
        \/ \E range : OverviewStyle(client) # "Unavailable" /\ OverviewStreaming(client, range)
        \/ \E range : HeaderStyle(client) # "Unavailable" /\ HeaderFieldStreaming(client, range)
    <3>1. CASE m.method \in {"select_group", "server_date", "help", "quit", "new_groups"}
      BY <3>1 DEF Invoke, SelectGroup, ServerDate, Help, Quit, NewGroups, Ask
    <3>2. CASE m.method \in {"list_groups", "list_group_descriptions", "group_creation_times",
                             "available_header_fields"}
      BY <3>2 DEF Invoke, ListGroups, ListGroupDescriptions, GroupCreationTimes,
                  AvailableHeaderFields, List, Ask
    <3>3. CASE m.method = "overview_format"
      BY <3>3 DEF Invoke, OverviewFormat, AskOverviewFmt
    <3>4. CASE m.method = "overview"
      <4>1. Overview(m.arg)
        BY <3>4 DEF Invoke
      <4> QED BY <4>1 DEF Overview, AskOverviewFmt
    <3>5. CASE m.method = "fetch"
      <4>1. Fetch(m.verb, m.arg) /\ m.verb \in {"ARTICLE", "HEAD", "BODY", "STAT"}
        BY <3>5, <2>1 DEF Invoke, Callable, BlockFetchCode
      <4> QED BY <4>1 DEF Fetch, Ask
    <3>6. CASE m.method = "header_field"
      <4>1. HeaderField(m.arg)
        BY <3>6 DEF Invoke
      <4> QED BY <4>1 DEF HeaderField
    <3>7. CASE m.method = "article_numbers"
      <4>1. ArticleNumbers(m.arg)
        BY <3>7 DEF Invoke
      <4> QED BY <4>1 DEF ArticleNumbers, Ask
    <3>8. CASE m.method = "step"
      <4>1. Step(m.verb) /\ m.verb \in {"NEXT", "LAST"}
        BY <3>8, <2>1 DEF Invoke, Callable
      <4> QED BY <4>1 DEF Step, Ask
    <3> QED BY <1>3, <2>1, <3>1, <3>2, <3>3, <3>4, <3>5, <3>6, <3>7, <3>8 DEF Methods
  <2>3. Moves
    BY <1>1, <1>2, <2>2, SaidMoves, StreamsMove
  <2> QED BY <1>1, <2>3, MovesTurn
<1>4. CASE m.method = "post"
  <2>1. Post(m.arg) /\ IsPosted(m.arg)
    BY <1>4 DEF Invoke
  <2>2. \/ \E method, result : Refuse(method, result)
        \/ Say(client, "post", "post", Command("POST", NoArg), m.arg)
    BY <2>1 DEF Post, Ask
  <2>3. ASSUME Say(client, "post", "post", Command("POST", NoArg), m.arg) PROVE Turns
    <3>1. /\ call'.method = "post" /\ call'.step = "post" /\ call'.cmd = Command("POST", NoArg)
          /\ call'.arg = m.arg /\ call'.reading \in {"status", "refused"}
          /\ c2s' = c2s \/ c2s' = Append(c2s, Command("POST", NoArg))
      BY <2>3 DEF Say
    <3>2. Command("POST", NoArg).verb = "POST"
      BY DEF Command
    <3> QED BY <1>1, <2>1, <3>1, <3>2 DEF Turns, IsPosting
  <2> QED BY <1>1, <1>2, <2>2, <2>3, MovesTurn
<1> QED BY <1>3, <1>4

\* No command of the command line posts.
LEMMA JobsPostNothing ==
    ASSUME NEW s \in Scenes, NEW stage \in StageNames(s.job), NEW summary
    PROVE  CallAt(s.job, stage, summary).method # "post"
PROOF
<1>1. stage \in {"date", "format", "headers", "list", "select", "newest", "quit", "fetch"}
  BY DEF StageNames
<1>2. CASE stage = "fetch"
  <2>1. s.job.command \in {"doctor", "article"}
    BY <1>2 DEF StageNames
  <2>2. CallAt(s.job, stage, summary).method = "fetch"
    BY <1>2, <2>1 DEF CallAt
  <2> QED BY <2>2
<1>3. CASE stage # "fetch"
  BY <1>1, <1>3 DEF CallAt
<1> QED BY <1>2, <1>3

-------------------------------------------------------------------------------
(* Posting: what is under way.                                                 *)

Says(line, code) == line.kind = "status" /\ line.code = code

\* The reply read next.
SaysYes(l) == l # <<>> /\ Says(l[1], 240)
Offers(l) == l # <<>> /\ Says(l[1], 340)

\* An article is on its way to the server; there is one at most, and it was posted.
HasArticle(l) == \E i \in DOMAIN l : l[i].verb = "article"
OneArticle(l) ==
    /\ IsList(l)
    /\ \A i, j \in DOMAIN l : l[i].verb = "article" /\ l[j].verb = "article" => i = j
    /\ \A i \in DOMAIN l : l[i].verb = "article" => IsPosted(l[i].arg)

\* Nothing but the announcement of the end.
OnlyHush(l) == \A i \in DOMAIN l : l[i] = Hush

\* What may be on its way to the client, by what the server does and whether an article
\* is on its way to it.  A yes is the first line; an offer to take an article is the
\* last but for the announcement of the end, and nothing follows it while it stands.
Orderly(l, where, sent) ==
    /\ IsList(l)
    /\ \A i \in DOMAIN l : Says(l[i], 240) => i = 1
    /\ where = "article" => /\ sent => l = <<>>
                            /\ \A i \in DOMAIN l : Says(l[i], 340) => i = Len(l)
    /\ where = "off" => /\ sent => OnlyHush(l)
                        /\ \A i, j \in DOMAIN l : Says(l[i], 340) /\ j > i => l[j] = Hush
    /\ where \notin {"article", "off"} => ~sent /\ \A i \in DOMAIN l : ~Says(l[i], 340)

LEMMA HushSaysNeither == ~Says(Hush, 240) /\ ~Says(Hush, 340) /\ Hush.kind = "status"
BY DEF Says, Hush, Status

\* Two lists, one after the other.
LEMMA ListsJoin ==
    ASSUME NEW k, NEW l, IsList(k), IsList(l)
    PROVE  /\ IsList(k \o l) /\ Len(k \o l) = Len(k) + Len(l)
           /\ \A i \in DOMAIN k : i \in DOMAIN (k \o l) /\ (k \o l)[i] = k[i]
           /\ \A i \in DOMAIN (k \o l) :
                 i \notin DOMAIN k => i - Len(k) \in DOMAIN l /\ (k \o l)[i] = l[i - Len(k)]
           /\ k # <<>> => k \o l # <<>>
           /\ k = <<>> => k \o l = l
PROOF
<1>1. PICK S, T : k \in Seq(S) /\ l \in Seq(T)
  BY DEF IsList
<1> DEFINE U == S \cup T
           m == k \o l
<1>2. k \in Seq(U) /\ l \in Seq(U)
  BY <1>1
<1> HIDE DEF U
<1>3. /\ m \in Seq(U) /\ Len(m) = Len(k) + Len(l)
      /\ \A i \in 1..(Len(k) + Len(l)) : m[i] = IF i <= Len(k) THEN k[i] ELSE l[i - Len(k)]
  BY <1>2, ConcatProperties
<1>6. k = <<>> => m = l
  BY <1>2, ConcatEmptySeq
<1> HIDE DEF m
<1>4. /\ Len(k) \in Nat /\ Len(l) \in Nat /\ DOMAIN k = 1..Len(k) /\ DOMAIN l = 1..Len(l)
      /\ DOMAIN m = 1..(Len(k) + Len(l))
  BY <1>2, <1>3
<1>5. ASSUME NEW i \in DOMAIN k PROVE i \in DOMAIN m /\ m[i] = k[i]
  <2>1. i \in 1..(Len(k) + Len(l)) /\ i <= Len(k)
    BY <1>4
  <2> QED BY <1>3, <1>4, <2>1
<1>7. ASSUME NEW i \in DOMAIN m, i \notin DOMAIN k PROVE i - Len(k) \in DOMAIN l /\ m[i] = l[i - Len(k)]
  <2>1. i \in 1..(Len(k) + Len(l)) /\ ~(i <= Len(k)) /\ i - Len(k) \in 1..Len(l)
    BY <1>4, <1>7
  <2> QED BY <1>3, <1>4, <2>1
<1>8. k # <<>> => m # <<>>
  <2>1. ASSUME k # <<>> PROVE Len(m) # 0
    BY <1>2, <1>3, <1>4, <2>1
  <2>2. Len(<<>>) = 0
    BY ListsBegin
  <2> QED BY <2>1, <2>2
<1> QED BY <1>3, <1>5, <1>6, <1>7, <1>8 DEF m, IsList

\* The client takes a line, of which nothing needs to be said.
LEMMA OrderlyDraws ==
    ASSUME NEW l, NEW where, NEW sent \in BOOLEAN, Orderly(l, where, sent), l # <<>>,
           NEW m, m = Tail(l)
    PROVE  /\ Orderly(m, where, sent) /\ ~SaysYes(m)
           /\ SaysYes(l) => ~sent
           /\ Offers(l) => ~sent /\ Orderly(m, where, TRUE)
PROOF
<1>1. /\ IsList(Tail(l)) /\ IsList(l) /\ 1 \in DOMAIN l /\ Len(l) \in Nat /\ DOMAIN l = 1..Len(l)
      /\ \A i \in DOMAIN Tail(l) : i \in Nat /\ i >= 1 /\ i + 1 \in DOMAIN l /\ Tail(l)[i] = l[i + 1]
  <2>1. IsList(l)
    BY DEF Orderly
  <2>2. IsList(Tail(l)) /\ DOMAIN Tail(l) = 1..Len(Tail(l)) /\ Len(Tail(l)) \in Nat
    BY <2>1, ListsGrow
  <2> QED BY <2>1, <2>2, ListsGrow
<1>2. Len(Tail(l)) = Len(l) - 1
  <2>1. PICK S : l \in Seq(S)
    BY <1>1 DEF IsList
  <2> QED BY <2>1
<1>3. \A i \in DOMAIN Tail(l) : ~Says(Tail(l)[i], 240)
  <2> SUFFICES ASSUME NEW i \in DOMAIN Tail(l), Says(Tail(l)[i], 240) PROVE FALSE
    OBVIOUS
  <2>1. Says(l[i + 1], 240) /\ i + 1 \in DOMAIN l /\ i + 1 # 1
    BY <1>1
  <2> QED BY <2>1 DEF Orderly
<1>4. ~SaysYes(Tail(l))
  <2>1. Tail(l) # <<>> => 1 \in DOMAIN Tail(l)
    BY <1>1, ListsGrow
  <2> QED BY <1>3, <2>1 DEF SaysYes, Offers
<1>5. OnlyHush(l) => OnlyHush(Tail(l))
  BY <1>1 DEF OnlyHush
<1>6. where = "article" => \A i \in DOMAIN Tail(l) : Says(Tail(l)[i], 340) => i = Len(Tail(l))
  BY <1>1, <1>2 DEF Orderly
<1>7. where = "off" =>
         \A i, j \in DOMAIN Tail(l) : Says(Tail(l)[i], 340) /\ j > i => Tail(l)[j] = Hush
  BY <1>1 DEF Orderly
<1>8. where \notin {"article", "off"} => \A i \in DOMAIN Tail(l) : ~Says(Tail(l)[i], 340)
  BY <1>1 DEF Orderly
<1>9. Orderly(Tail(l), where, sent)
  <2>1. where = "article" => ~sent
    BY DEF Orderly
  <2>2. where = "off" /\ sent => OnlyHush(Tail(l))
    BY <1>5 DEF Orderly
  <2>3. where \notin {"article", "off"} => ~sent
    BY DEF Orderly
  <2> QED BY <1>1, <1>3, <1>6, <1>7, <1>8, <2>1, <2>2, <2>3 DEF Orderly
<1>10. ASSUME SaysYes(l) \/ Offers(l) PROVE ~sent
  <2>1. l[1] # Hush
    BY <1>10, HushSaysNeither DEF SaysYes, Offers
  <2> QED BY <1>1, <2>1 DEF Orderly, OnlyHush
<1>11. ASSUME Offers(l) PROVE Orderly(Tail(l), where, TRUE)
  <2>1. where \in {"article", "off"} /\ Says(l[1], 340)
    BY <1>1, <1>11 DEF Orderly, SaysYes, Offers
  <2>2. CASE where = "article"
    <3>1. Len(l) = 1
      BY <1>1, <2>1, <2>2 DEF Orderly
    <3>2. Tail(l) = <<>>
      <4>1. Len(Tail(l)) = 0
        BY <1>2, <3>1
      <4>2. PICK S : Tail(l) \in Seq(S)
        BY <1>1 DEF IsList
      <4> QED BY <4>1, <4>2, EmptySeq
    <3> QED BY <1>1, <1>3, <1>6, <2>2, <3>2 DEF Orderly
  <2>3. CASE where = "off"
    <3>1. ASSUME NEW i \in DOMAIN Tail(l) PROVE Tail(l)[i] = Hush
      <4>1. i + 1 \in DOMAIN l /\ i + 1 > 1 /\ Tail(l)[i] = l[i + 1]
        BY <1>1
      <4> QED BY <1>1, <2>1, <2>3, <4>1 DEF Orderly
    <3> QED BY <1>1, <1>3, <1>7, <2>3, <3>1 DEF Orderly, OnlyHush
  <2> QED BY <2>1, <2>2, <2>3
<1> QED BY <1>4, <1>9, <1>10, <1>11

\* Whether an article is on its way, or not.
LEMMA LineDrawn ==
    ASSUME NEW l, NEW where, l # <<>>, NEW m, m = Tail(l)
    PROVE  /\ Orderly(l, where, TRUE) => /\ Orderly(m, where, TRUE) /\ ~SaysYes(m)
                                         /\ ~SaysYes(l) /\ ~Offers(l)
           /\ Orderly(l, where, FALSE) => /\ Orderly(m, where, FALSE) /\ ~SaysYes(m)
                                          /\ Offers(l) => Orderly(m, where, TRUE)
PROOF
<1>1. ASSUME Orderly(l, where, TRUE)
      PROVE  /\ Orderly(m, where, TRUE) /\ ~SaysYes(m)
             /\ ~SaysYes(l) /\ ~Offers(l)
  BY <1>1, OrderlyDraws
<1>2. ASSUME Orderly(l, where, FALSE)
      PROVE  /\ Orderly(m, where, FALSE) /\ ~SaysYes(m)
             /\ Offers(l) => Orderly(m, where, TRUE)
  BY <1>2, OrderlyDraws
<1> QED BY <1>1, <1>2

\* The session ends, with or without saying so.
LEMMA OrderlyEnds ==
    ASSUME NEW l, NEW where, NEW sent \in BOOLEAN, Orderly(l, where, sent)
    PROVE  /\ Orderly(l, "off", sent) /\ Orderly(Append(l, Hush), "off", sent)
           /\ SaysYes(Append(l, Hush)) <=> SaysYes(l)
           /\ l # <<>> => Append(l, Hush) # <<>> /\ Append(l, Hush)[1] = l[1]
PROOF
<1> DEFINE m == Append(l, Hush)
<1>1. /\ IsList(l) /\ Len(l) \in Nat /\ DOMAIN l = 1..Len(l)
      /\ IsList(m) /\ DOMAIN m = 1..(Len(l) + 1) /\ m[Len(l) + 1] = Hush
      /\ \A i \in 1..Len(l) : m[i] = l[i]
      /\ l # <<>> => 1 \in DOMAIN l
  BY ListsGrow DEF Orderly
<1>2. \A i \in DOMAIN m : i \in DOMAIN l \/ m[i] = Hush
  BY <1>1
<1>3. l = <<>> => Len(l) = 0
  BY ListsBegin
<1>4. Orderly(l, "off", sent)
  <2>1. ASSUME where = "article" PROVE sent => OnlyHush(l)
    BY <1>1, <1>3, <2>1 DEF Orderly, OnlyHush
  <2>2. ASSUME where = "article", NEW i \in DOMAIN l, NEW j \in DOMAIN l, Says(l[i], 340), j > i
        PROVE  FALSE
    BY <1>1, <2>2 DEF Orderly
  <2>3. sent => OnlyHush(l)
    BY <2>1 DEF Orderly
  <2>4. \A i, j \in DOMAIN l : Says(l[i], 340) /\ j > i => l[j] = Hush
    BY <2>2 DEF Orderly
  <2> QED BY <2>3, <2>4 DEF Orderly
<1> HIDE DEF m
<1>5. Orderly(m, "off", sent)
  <2>1. sent => OnlyHush(m)
    BY <1>1, <1>2, <1>4 DEF Orderly, OnlyHush
  <2>2. ASSUME NEW i \in DOMAIN m, NEW j \in DOMAIN m, Says(m[i], 340), j > i PROVE m[j] = Hush
    <3>1. i \in DOMAIN l /\ m[i] = l[i]
      BY <1>1, <1>2, <2>2, HushSaysNeither
    <3>2. j \in DOMAIN l \/ m[j] = Hush
      BY <1>2
    <3> QED BY <1>1, <1>4, <2>2, <3>1, <3>2 DEF Orderly
  <2>3. ASSUME NEW i \in DOMAIN m, Says(m[i], 240) PROVE i = 1
    <3>1. i \in DOMAIN l /\ m[i] = l[i]
      BY <1>1, <1>2, <2>3, HushSaysNeither
    <3> QED BY <2>3, <3>1 DEF Orderly
  <2> QED BY <1>1, <2>1, <2>2, <2>3 DEF Orderly
<1>6. l # <<>> => m # <<>> /\ m[1] = l[1]
  <2>1. m # <<>>
    <3>1. 1 \in DOMAIN m /\ Len(<<>>) = 0 /\ DOMAIN <<>> = 1..Len(<<>>)
      BY <1>1, ListsBegin, ListsGrow
    <3> QED BY <3>1
  <2> QED BY <1>1, <2>1
<1>7. l = <<>> => m[1] = Hush
  BY <1>1, <1>3
<1>8. SaysYes(m) <=> SaysYes(l)
  BY <1>6, <1>7, HushSaysNeither DEF SaysYes, Offers
<1> QED BY <1>4, <1>5, <1>6, <1>8 DEF m

(***************************************************************************)
(* The answer to a command that is no article keeps the order: it holds no *)
(* yes, and an offer only if the session waits for the article then.       *)
(***************************************************************************)
LEMMA OrderlyAnswers ==
    ASSUME NEW l, NEW where, where \notin {"article", "off"}, NEW sent \in BOOLEAN, Orderly(l, where, sent),
           NEW s, NEW verb, verb # "article", NEW r, Fits(s, verb, r), Ends(r) <=> r.flow = "Close",
           NEW next, next = IF r.flow = "Close" THEN "off" ELSE NextOf(r.flow)
    PROVE  /\ Orderly(l \o r.lines, next, sent)
           /\ SaysYes(l \o r.lines) <=> SaysYes(l)
           /\ l # <<>> => l \o r.lines # <<>> /\ (l \o r.lines)[1] = l[1]
PROOF
<1> DEFINE m == l \o r.lines
<1>1. IsList(l) /\ ~sent /\ (\A i \in DOMAIN l : ~Says(l[i], 340) /\ (Says(l[i], 240) => i = 1))
  BY DEF Orderly
<1>2. IsList(r.lines)
  BY ListsBegin DEF Fits, Answered
<1>3. /\ IsList(m) /\ Len(m) = Len(l) + Len(r.lines)
      /\ \A i \in DOMAIN l : i \in DOMAIN m /\ m[i] = l[i]
      /\ \A i \in DOMAIN m :
            i \notin DOMAIN l => i - Len(l) \in DOMAIN r.lines /\ m[i] = r.lines[i - Len(l)]
      /\ l # <<>> => m # <<>>
      /\ l = <<>> => m = r.lines
  BY <1>1, <1>2, ListsJoin
<1> HIDE DEF m
<1>4. /\ Len(l) \in Nat /\ DOMAIN l = 1..Len(l) /\ (l # <<>> => 1 \in DOMAIN l)
      /\ Len(r.lines) \in Nat /\ DOMAIN r.lines = 1..Len(r.lines)
      /\ DOMAIN m = 1..(Len(l) + Len(r.lines))
  BY <1>1, <1>2, <1>3, ListsGrow
<1>5. Modest(verb, r.lines)
  <2>1. r.lines = <<>> => DOMAIN r.lines = {}
    BY <1>4, ListsBegin
  <2> QED BY <2>1 DEF Fits, Modest
<1>6. \A i \in DOMAIN r.lines : /\ ~Says(r.lines[i], 240)
                                /\ Says(r.lines[i], 340) => i = 1 /\ verb = "POST"
  BY <1>5, HushSaysNeither DEF Modest, Says, Strays
<1>7. \A i \in DOMAIN m : Says(m[i], 240) => i = 1
  BY <1>1, <1>3, <1>6
<1>8. l # <<>> => m[1] = l[1]
  BY <1>3, <1>4
<1>9. SaysYes(m) <=> SaysYes(l)
  <2>1. CASE l # <<>>
    BY <1>3, <1>8, <2>1 DEF SaysYes, Offers
  <2>2. CASE l = <<>>
    <3>1. r.lines # <<>> => 1 \in DOMAIN r.lines
      BY <1>2, ListsGrow
    <3> QED BY <1>3, <1>6, <2>2, <3>1 DEF SaysYes, Offers
  <2> QED BY <2>1, <2>2
<1>10. ASSUME NEW i \in DOMAIN m, Says(m[i], 340)
       PROVE  /\ i = Len(l) + 1 /\ verb = "POST" /\ r.lines # <<>> /\ r.lines[1].code = 340
              /\ Quiet(Tail(r.lines), Ends(r))
  <2>1. i \notin DOMAIN l
    BY <1>1, <1>3, <1>10
  <2>2. i - Len(l) \in DOMAIN r.lines /\ Says(r.lines[i - Len(l)], 340)
    BY <1>3, <1>10, <2>1
  <2>3. i - Len(l) = 1 /\ verb = "POST" /\ Says(r.lines[1], 340)
    BY <1>6, <2>2
  <2>4. i = Len(l) + 1
    BY <1>4, <2>3
  <2>5. r.lines # <<>>
    BY <1>4, <2>2, ListsBegin
  <2>6. Answered(verb, r.lines, Ends(r))
    BY <2>5 DEF Fits
  <2>7. r.lines[1].code = 340 /\ ~Announces(verb, 340)
    BY <2>3 DEF Says, Announces
  <2> QED BY <2>3, <2>4, <2>5, <2>6, <2>7 DEF Answered
<1>11. ASSUME NEW i \in DOMAIN m, Says(m[i], 340), NEW j \in DOMAIN m, j > i PROVE m[j] = Hush
  <2>1. i = Len(l) + 1 /\ Quiet(Tail(r.lines), Ends(r)) /\ r.lines # <<>>
    BY <1>10, <1>11
  <2>2. j \notin DOMAIN l /\ j - Len(l) > 1
    BY <1>4, <1>11, <2>1
  <2>3. m[j] = r.lines[j - Len(l)] /\ j - Len(l) \in DOMAIN r.lines
    BY <1>3, <2>2
  <2>4. /\ (j - Len(l)) - 1 \in DOMAIN Tail(r.lines)
        /\ Tail(r.lines)[(j - Len(l)) - 1] = r.lines[((j - Len(l)) - 1) + 1]
    <3>1. PICK S : r.lines \in Seq(S)
      BY <1>2 DEF IsList
    <3>2. Len(Tail(r.lines)) = Len(r.lines) - 1 /\ DOMAIN Tail(r.lines) = 1..(Len(r.lines) - 1)
      BY <2>1, <3>1
    <3>3. (j - Len(l)) - 1 \in 1..(Len(r.lines) - 1)
      BY <1>4, <2>2, <2>3
    <3> QED BY <1>2, <2>1, <3>2, <3>3, ListsGrow
  <2>5. ((j - Len(l)) - 1) + 1 = j - Len(l)
    BY <1>4, <2>3
  <2>6. Tail(r.lines)[(j - Len(l)) - 1] = Hush
    BY <2>1, <2>4 DEF Quiet
  <2> QED BY <2>3, <2>4, <2>5, <2>6
<1>12. ASSUME r.flow # "Close", NEW i \in DOMAIN m, Says(m[i], 340)
       PROVE  next = "article" /\ i = Len(m)
  <2>1. /\ i = Len(l) + 1 /\ verb = "POST" /\ r.lines # <<>> /\ r.lines[1].code = 340
        /\ Quiet(Tail(r.lines), Ends(r)) /\ ~Ends(r)
    BY <1>10, <1>12
  <2>2. Tail(r.lines) = <<>>
    BY <2>1 DEF Quiet
  <2>3. Len(r.lines) = 1
    <3>1. PICK S : r.lines \in Seq(S)
      BY <1>2 DEF IsList
    <3>2. Len(Tail(r.lines)) = Len(r.lines) - 1
      BY <2>1, <3>1
    <3>3. Len(Tail(r.lines)) = 0
      BY <2>2, ListsBegin
    <3>4. \A n \in Nat : n - 1 = 0 => n = 1
      OBVIOUS
    <3>5. Len(r.lines) \in Nat /\ Len(r.lines) - 1 = 0
      BY <1>4, <3>2, <3>3
    <3> QED BY <3>4, <3>5
  <2>4. Tells(s, verb, r.lines[1], r.st, r.flow)
    BY <1>12, <2>1 DEF Fits
  <2>5. NextOf(r.flow) = "article"
    BY <2>1, <2>4 DEF Tells, After
  <2> QED BY <1>3, <1>12, <2>1, <2>3, <2>5
<1>13. NextOf(r.flow) \in {"tls", "article", "command"}
  BY DEF NextOf
<1>14. Orderly(m, next, sent)
  <2>1. CASE r.flow = "Close"
    <3>1. next = "off"
      BY <2>1
    <3> QED BY <1>1, <1>3, <1>7, <1>11, <3>1 DEF Orderly
  <2>2. CASE r.flow # "Close"
    <3>1. next # "off"
      BY <1>13, <2>2
    <3> QED BY <1>1, <1>3, <1>7, <1>12, <2>2, <3>1 DEF Orderly
  <2> QED BY <2>1, <2>2
<1> QED BY <1>3, <1>8, <1>9, <1>14 DEF m

\* The answer to an article.
LEMMA OrderlyAnswer ==
    ASSUME NEW l, IsList(l), l # <<>>, \A i \in DOMAIN l : i = 1, ~Offers(l), NEW m, m = <<>> \o l
    PROVE  Orderly(m, "command", FALSE) /\ (SaysYes(m) <=> SaysYes(l))
PROOF
<1>1. m = l
  BY ConcatEmptySeq DEF IsList
<1>2. \A i \in DOMAIN l : ~Says(l[i], 340)
  BY DEF Offers
<1>3. Orderly(l, "command", FALSE)
  BY <1>2 DEF Orderly
<1> QED BY <1>1, <1>3

\* Commands join those on their way, and are taken.
LEMMA ArticlesMove ==
    ASSUME NEW l, OneArticle(l), NEW cmd
    PROVE  /\ cmd.verb # "article" => /\ OneArticle(Append(l, cmd))
                                      /\ HasArticle(Append(l, cmd)) <=> HasArticle(l)
           /\ cmd.verb = "article" /\ ~HasArticle(l) /\ IsPosted(cmd.arg) =>
                OneArticle(Append(l, cmd)) /\ HasArticle(Append(l, cmd))
           /\ l # <<>> =>
                /\ OneArticle(Tail(l))
                /\ Head(l).verb # "article" => (HasArticle(Tail(l)) <=> HasArticle(l))
                /\ Head(l).verb = "article" => /\ HasArticle(l) /\ ~HasArticle(Tail(l))
                                               /\ IsPosted(Head(l).arg)
PROOF
<1> DEFINE m == Append(l, cmd)
           n == Len(l) + 1
<1>1. /\ IsList(l) /\ Len(l) \in Nat /\ DOMAIN l = 1..Len(l)
      /\ IsList(m) /\ DOMAIN m = 1..n /\ m[n] = cmd
      /\ \A i \in 1..Len(l) : m[i] = l[i]
  BY ListsGrow DEF OneArticle
<1>2. n \in DOMAIN m /\ \A i \in DOMAIN m : i # n => i \in DOMAIN l /\ m[i] = l[i]
  BY <1>1
<1>3. \A i \in DOMAIN l : i \in DOMAIN m /\ i # n /\ m[i] = l[i]
  BY <1>1
<1> HIDE DEF m, n
<1>4. ASSUME cmd.verb # "article" PROVE OneArticle(m) /\ (HasArticle(m) <=> HasArticle(l))
  <2>1. \A i \in DOMAIN m : m[i].verb = "article" => i \in DOMAIN l /\ m[i] = l[i]
    BY <1>1, <1>2, <1>4
  <2> QED BY <1>1, <1>3, <2>1 DEF OneArticle, HasArticle
<1>5. ASSUME cmd.verb = "article", ~HasArticle(l), IsPosted(cmd.arg) PROVE OneArticle(m) /\ HasArticle(m)
  <2>1. \A i \in DOMAIN m : m[i].verb = "article" => i = n
    BY <1>2, <1>5 DEF HasArticle
  <2> QED BY <1>1, <1>2, <1>5, <2>1 DEF OneArticle, HasArticle
<1>6. ASSUME l # <<>>
      PROVE  /\ OneArticle(Tail(l))
             /\ Head(l).verb # "article" => (HasArticle(Tail(l)) <=> HasArticle(l))
             /\ Head(l).verb = "article" => HasArticle(l) /\ ~HasArticle(Tail(l)) /\ IsPosted(Head(l).arg)
  <2>1. /\ IsList(Tail(l)) /\ Head(l) = l[1] /\ 1 \in DOMAIN l
        /\ \A i \in DOMAIN Tail(l) : i + 1 \in DOMAIN l /\ Tail(l)[i] = l[i + 1]
    BY <1>1, <1>6, ListsGrow
  <2>2. DOMAIN Tail(l) = 1..(Len(l) - 1)
    <3>1. PICK S : l \in Seq(S)
      BY <1>1 DEF IsList
    <3> QED BY <1>6, <3>1
  <2>3. \A i \in DOMAIN Tail(l) : i \in Nat /\ i + 1 # 1
    BY <1>1, <2>2
  <2>4. OneArticle(Tail(l))
    <3>1. ASSUME NEW i \in DOMAIN Tail(l), NEW j \in DOMAIN Tail(l),
                 Tail(l)[i].verb = "article", Tail(l)[j].verb = "article"
          PROVE  i = j
      <4>1. i + 1 = j + 1
        BY <2>1, <3>1 DEF OneArticle
      <4> QED BY <2>3, <4>1
    <3>2. \A i \in DOMAIN Tail(l) : Tail(l)[i].verb = "article" => IsPosted(Tail(l)[i].arg)
      BY <2>1 DEF OneArticle
    <3> QED BY <2>1, <3>1, <3>2 DEF OneArticle
  <2>5. HasArticle(Tail(l)) => HasArticle(l)
    BY <2>1 DEF HasArticle
  <2>6. ASSUME Head(l).verb # "article", HasArticle(l) PROVE HasArticle(Tail(l))
    <3>1. PICK i \in DOMAIN l : l[i].verb = "article"
      BY <2>6 DEF HasArticle
    <3>2. i # 1
      BY <2>1, <2>6, <3>1
    <3>3. i - 1 \in DOMAIN Tail(l) /\ (i - 1) + 1 = i
      BY <1>1, <2>2, <3>1, <3>2
    <3>4. Tail(l)[i - 1] = l[i]
      BY <2>1, <3>3
    <3> QED BY <3>1, <3>3, <3>4 DEF HasArticle
  <2>7. ASSUME Head(l).verb = "article" PROVE HasArticle(l) /\ ~HasArticle(Tail(l)) /\ IsPosted(Head(l).arg)
    <3>1. l[1].verb = "article" /\ 1 \in DOMAIN l
      BY <2>1, <2>7
    <3>2. ~HasArticle(Tail(l))
      BY <2>1, <2>3, <3>1 DEF HasArticle, OneArticle
    <3> QED BY <2>1, <3>1, <3>2 DEF HasArticle, OneArticle
  <2> QED BY <2>4, <2>5, <2>6, <2>7
<1> QED BY <1>4, <1>5, <1>6 DEF m

-------------------------------------------------------------------------------
(* Posting: the account of what was filed and what was confirmed.              *)

\* No posting the worker is asked for names two groups that are carried.
OneFilingEach ==
    \A m \in WorkerCalls : m.method = "post" =>
        Cardinality({i \in DOMAIN m.arg.groups : Carries(InitialCorpus, m.arg.groups[i])}) <= 1

\* The yes to an article is what the client reads next.
Confirmed == SaysYes(s2c)

\* A call has sent its article and waits for the answer.
AwaitsAnswer == call.reading = "status" /\ call.cmd.verb = "article"

\* An article the session is about to take.
Due == HasArticle(c2s) /\ srv = "article"

ServerStands == /\ closed => srv = "off"
                /\ srv # "off" => Serving(st)

WireInOrder == /\ HasArticle(c2s) => Orderly(s2c, srv, TRUE)
               /\ ~HasArticle(c2s) => Orderly(s2c, srv, FALSE)

(***************************************************************************)
(* What a conversation keeps of its postings: one article at a time is     *)
(* offered, sent or answered, and nothing filed goes away.                 *)
(***************************************************************************)
Books == /\ IsPosting(call) /\ ServerStands /\ OneArticle(c2s) /\ WireInOrder
         /\ Grown(InitialCorpus, corpus)

\* The account.  Every yes, reported or still to be read, is something filed; and what
\* is filed was reported, unless a fault came between, or its yes is about to be read
\* by the call that waits for it.  An article nobody waits for any more owes its fault
\* before it is filed.
Promised == IF Confirmed THEN 1 ELSE 0
Awaited == IF AwaitsAnswer /\ Confirmed THEN 1 ELSE 0
Stray == IF ~AwaitsAnswer /\ Due THEN 1 ELSE 0

ConfirmedIsFiled == (accepted + Total(InitialCorpus)) + Promised <= Total(corpus)
FiledIsConfirmed ==
    Total(corpus) + Stray <= ((accepted + faults) + Total(InitialCorpus)) + Awaited

Ledger == /\ accepted \in Nat /\ faults \in Nat
          /\ ConfirmedIsFiled
          /\ OneFilingEach => FiledIsConfirmed

\* What the account comes to.
LEMMA AccountsAgree ==
    /\ \A a, z, p, t \in Nat : (a + z) + p <= t => a <= t - z
    /\ \A a, f, z, t, s \in Nat : t + s <= ((a + f) + z) + 0 => t - z <= a + f
OBVIOUS

LEMMA Sums ==
    ASSUME NEW a \in Nat, NEW z \in Nat, NEW t \in Nat, NEW p \in 0..1, NEW q \in 0..1
    PROVE  /\ (a + z) + p <= t /\ q <= p => (a + z) + q <= t
           /\ (a + z) + 1 <= t => ((a + 1) + z) + 0 <= t
           /\ \A u \in Nat : (a + z) + 0 <= t /\ u >= t + q => (a + z) + q <= u
OBVIOUS

LEMMA Balances ==
    ASSUME NEW a \in Nat, NEW f \in Nat, NEW z \in Nat, NEW t \in Nat,
           NEW s \in 0..1, NEW w \in 0..1, t + s <= ((a + f) + z) + w, NEW r \in 0..1, NEW v \in 0..1
    PROVE  /\ r <= s /\ w <= v => /\ t + r <= ((a + f) + z) + v
                                  /\ t + r <= ((a + (f + 1)) + z) + v
           /\ s = 0 /\ w = 0 /\ r = 0 => t + r <= ((a + f) + z) + v
           /\ r + w <= 1 => t + r <= ((a + (f + 1)) + z) + v
           /\ w = 1 => t + 0 <= (((a + 1) + f) + z) + 0
           /\ w = 0 /\ v = 1 => (t + 1) + 0 <= ((a + f) + z) + v
           /\ s = 1 /\ w = 0 => (t + 1) + 0 <= ((a + f) + z) + 0
OBVIOUS

(***************************************************************************)
(* A step in which nothing is filed and nothing is reported keeps the      *)
(* account, if it loses no awaited yes without a fault.                    *)
(***************************************************************************)
LEMMA LedgerStays ==
    ASSUME Ledger, IsCorpus(corpus), UNCHANGED <<accepted, corpus>>, faults' \in {faults, faults + 1},
           Confirmed' => Confirmed,
           \/ AwaitsAnswer' /\ ~AwaitsAnswer
           \/ (AwaitsAnswer' <=> AwaitsAnswer) /\ (Confirmed' <=> Confirmed) /\ (Due' => Due)
           \/ ~AwaitsAnswer' /\ ~AwaitsAnswer /\ (Due' => Due)
           \/ ~AwaitsAnswer' /\ ~Due' /\ ~Confirmed
           \/ ~AwaitsAnswer' /\ ~(Due' /\ Confirmed) /\ faults' = faults + 1
    PROVE  Ledger'
PROOF
<1>1. Total(corpus) \in Nat /\ Total(InitialCorpus) \in Nat /\ Total(corpus') = Total(corpus)
  BY TotalIsPlaces, ScenesAssumption
<1>2. PICK p \in 0..1, w \in 0..1, s \in 0..1 : p = Promised /\ w = Awaited /\ s = Stray
  BY DEF Promised, Awaited, Stray
<1>3. PICK q \in 0..1, v \in 0..1, r \in 0..1 : q = Promised' /\ v = Awaited' /\ r = Stray'
  BY DEF Promised, Awaited, Stray
<1>4. PICK f \in Nat : f = faults'
  BY DEF Ledger
<1>5. q <= p
  BY <1>2, <1>3 DEF Promised
<1>6. \/ r <= s /\ w <= v
      \/ r + w <= 1 /\ f = faults + 1
  <2>1. CASE AwaitsAnswer' /\ ~AwaitsAnswer
    BY <1>2, <1>3, <2>1 DEF Awaited, Stray
  <2>2. CASE (AwaitsAnswer' <=> AwaitsAnswer) /\ (Confirmed' <=> Confirmed) /\ (Due' => Due)
    BY <1>2, <1>3, <2>2 DEF Awaited, Stray
  <2>3. CASE ~AwaitsAnswer' /\ ~AwaitsAnswer /\ (Due' => Due)
    BY <1>2, <1>3, <2>3 DEF Awaited, Stray
  <2>4. CASE ~AwaitsAnswer' /\ ~Due' /\ ~Confirmed
    BY <1>2, <1>3, <2>4 DEF Awaited, Stray
  <2>5. CASE ~AwaitsAnswer' /\ ~(Due' /\ Confirmed) /\ faults' = faults + 1
    BY <1>2, <1>3, <1>4, <2>5 DEF Awaited, Stray
  <2> QED BY <2>1, <2>2, <2>3, <2>4, <2>5
<1>7. ConfirmedIsFiled'
  <2>1. (accepted + Total(InitialCorpus)) + q <= Total(corpus)
    BY <1>1, <1>2, <1>5, Sums DEF Ledger, ConfirmedIsFiled
  <2> QED BY <1>1, <1>3, <2>1 DEF ConfirmedIsFiled
<1>8. OneFilingEach => FiledIsConfirmed'
  <2>1. ASSUME OneFilingEach PROVE Total(corpus) + r <= ((accepted + f) + Total(InitialCorpus)) + v
    <3>1. Total(corpus) + s <= ((accepted + faults) + Total(InitialCorpus)) + w
      BY <1>2, <2>1 DEF Ledger, FiledIsConfirmed
    <3>2. accepted \in Nat /\ faults \in Nat /\ f \in {faults, faults + 1}
      BY <1>4 DEF Ledger
    <3> QED BY <1>1, <1>2, <1>3, <1>6, <3>1, <3>2, Balances
  <2> QED BY <1>1, <1>3, <1>4, <2>1 DEF FiledIsConfirmed
<1> QED BY <1>4, <1>7, <1>8 DEF Ledger

-------------------------------------------------------------------------------
(* Posting: the client's steps.                                                *)

\* A step of the client that turns leaves the books in order, and awaits no answer.
LEMMA TurnsKeep ==
    ASSUME Books, Turns, Draws, UNCHANGED <<closed, srv, st, corpus>>
    PROVE  Books' /\ ~AwaitsAnswer' /\ (Due' <=> Due) /\ (Confirmed' => Confirmed)
PROOF
<1>1. /\ IsPosting(call') /\ call'.cmd.verb # "article"
      /\ c2s' = c2s \/ \E cmd : cmd.verb # "article" /\ c2s' = Append(c2s, cmd)
  BY DEF Turns
<1>2. OneArticle(c2s') /\ (HasArticle(c2s') <=> HasArticle(c2s))
  BY <1>1, ArticlesMove DEF Books
<1>3. /\ Orderly(s2c, srv, TRUE) => Orderly(s2c', srv, TRUE)
      /\ Orderly(s2c, srv, FALSE) => Orderly(s2c', srv, FALSE)
  BY LineDrawn DEF Draws
<1>4. Confirmed' => Confirmed
  <2>1. Orderly(s2c, srv, TRUE) \/ Orderly(s2c, srv, FALSE)
    BY DEF Books, WireInOrder
  <2>2. s2c # <<>> /\ s2c' = Tail(s2c) => ~SaysYes(s2c')
    BY <2>1, LineDrawn
  <2> QED BY <2>2 DEF Draws, Confirmed
<1>5. WireInOrder'
  BY <1>2, <1>3 DEF Books, WireInOrder
<1>6. ServerStands' /\ Grown(InitialCorpus, corpus')
  BY DEF Books, ServerStands
<1>7. ~AwaitsAnswer' /\ (Due' <=> Due)
  BY <1>1, <1>2 DEF AwaitsAnswer, Due
<1> QED BY <1>1, <1>2, <1>4, <1>5, <1>6, <1>7 DEF Books

\* A read that fails a call waiting for the answer to its article, or an answer that is
\* no yes.
LEMMA AnswerMissed ==
    ASSUME Books, AwaitsAnswer, ClientReads, ~TakesYes
    PROVE  ~Confirmed /\ ~Due
PROOF
<1>1. call.reading = "status" /\ call.cmd.verb = "article"
  BY DEF AwaitsAnswer
<1>2. \/ s2c # <<>> /\ ~Says(Line, 240)
      \/ s2c = <<>> /\ closed
  <2>1. CASE ReadStatus
    <3>1. PostedStatus
      BY <1>1, <2>1 DEF ReadStatus, GreetingStatus, CapabilitiesStatus, ModeStatus, AuthStatus,
         StartTlsStatus, GroupStatus, ListingStatus, FormatStatus, OverviewStatus, HeaderStatus,
         FetchStatus, BlockFetchCode, StatStatus, DateStatus, HelpStatus, ListGroupStatus, PostStatus,
         QuitStatus, StatusFor
    <3> QED BY <3>1 DEF TakesYes, PostedStatus, StatusFor, Says
  <2>2. CASE ReadBlockLine
    BY <1>1, <2>2 DEF ReadBlockLine, BlockCancelled, BlockLine, BlockEnd, Stopped, InBlock
  <2>3. CASE ReadFails
    BY <1>1, <2>3 DEF ReadFails, OverlongLine, NotAStatusLine, EndOfStream, SendRefused, Says
  <2> QED BY <2>1, <2>2, <2>3 DEF ClientReads
<1>3. ~Confirmed
  <2>1. s2c # <<>> => Line = s2c[1]
    <3>1. IsList(s2c)
      BY DEF Books, WireInOrder, Orderly
    <3> QED BY <3>1, ListsGrow DEF Line
  <2> QED BY <1>2, <2>1 DEF Confirmed, SaysYes, Offers
<1>4. ~Due
  <2>1. srv = "article" /\ HasArticle(c2s) => s2c = <<>>
    BY DEF Books, WireInOrder, Orderly
  <2>2. closed => srv = "off"
    BY DEF Books, ServerStands
  <2> QED BY <1>2, <2>1, <2>2 DEF Due
<1> QED BY <1>3, <1>4

\* The article is sent, unless the connection has lost its place.
LEMMA OfferKeeps ==
    ASSUME Books, TakesOffer, UNCHANGED <<srv, st, corpus>>
    PROVE  /\ Books' /\ ~AwaitsAnswer /\ (Confirmed' => Confirmed)
           /\ AwaitsAnswer' \/ (Due' <=> Due)
           /\ call'.method # "idle"
PROOF
<1>1. /\ StatusFor({"POST"}) /\ Line.code = 340
      /\ Say(client, "post", "article", Command("article", call.arg), call.arg)
  BY DEF TakesOffer, PostStatus
<1>2. /\ call.cmd.verb = "POST" /\ s2c # <<>> /\ Says(Line, 340) /\ s2c' = Tail(s2c)
      /\ UNCHANGED closed
  BY <1>1 DEF StatusFor, Says
<1>3. call.method = "post" /\ IsPosted(call.arg)
  BY <1>2 DEF Books, IsPosting
<1>4. PICK sent \in BOOLEAN : Orderly(s2c, srv, sent)
  BY DEF Books, WireInOrder
<1>5. Offers(s2c)
  <2>1. IsList(s2c)
    BY <1>4 DEF Orderly
  <2>2. Line = s2c[1]
    BY <1>2, <2>1, ListsGrow DEF Line
  <2> QED BY <1>2, <2>2 DEF SaysYes, Offers
<1>6. ~HasArticle(c2s)
  <2>1. ~Orderly(s2c, srv, TRUE)
    BY <1>2, <1>5, LineDrawn
  <2> QED BY <2>1 DEF Books, WireInOrder
<1>7. Orderly(s2c', srv, TRUE) /\ Orderly(s2c', srv, FALSE) /\ ~Confirmed'
  <2>1. Orderly(s2c, srv, FALSE)
    BY <1>6 DEF Books, WireInOrder
  <2>2. Orderly(s2c', srv, TRUE) /\ Orderly(s2c', srv, FALSE) /\ ~SaysYes(s2c')
    BY <1>2, <1>5, <2>1, LineDrawn
  <2> QED BY <1>2, <2>2 DEF Confirmed
<1> DEFINE cmd == Command("article", call.arg)
<1>8. cmd.verb = "article" /\ cmd.arg = call.arg
  BY DEF Command
<1>9. /\ call'.method = "post" /\ call'.cmd = cmd /\ call'.arg = call.arg /\ call'.step = "article"
      /\ \/ call'.reading = "status" /\ c2s' = Append(c2s, cmd)
         \/ call'.reading = "refused" /\ c2s' = c2s
  BY <1>1 DEF Say
<1> HIDE DEF cmd
<1>10. OneArticle(c2s')
  <2>1. OneArticle(c2s) /\ IsPosted(cmd.arg)
    BY <1>3, <1>8 DEF Books
  <2>2. OneArticle(Append(c2s, cmd))
    BY <1>6, <1>8, <2>1, ArticlesMove
  <2> QED BY <1>9, <2>1, <2>2
<1>11. IsPosting(call')
  BY <1>3, <1>8, <1>9 DEF IsPosting
<1>12. ServerStands' /\ Grown(InitialCorpus, corpus')
  BY <1>2 DEF Books, ServerStands
<1>13. WireInOrder'
  BY <1>7 DEF WireInOrder
<1>14. ~AwaitsAnswer
  BY <1>2 DEF AwaitsAnswer
<1>15. AwaitsAnswer' \/ (Due' <=> Due)
  BY <1>8, <1>9 DEF AwaitsAnswer, Due
<1> QED BY <1>7, <1>9, <1>10, <1>11, <1>12, <1>13, <1>14, <1>15 DEF Books

\* The post is confirmed.
LEMMA YesKeeps ==
    ASSUME Books, TakesYes, UNCHANGED <<srv, st, corpus>>
    PROVE  /\ Books' /\ AwaitsAnswer /\ Confirmed /\ ~AwaitsAnswer' /\ ~Confirmed' /\ ~Due' /\ ~Due
           /\ call.method = "post" /\ IsIdle' /\ outcome'.result = "Ok"
PROOF
<1>1. StatusFor({"article"}) /\ Line.code = 240 /\ Return(client, "Ok")
  BY DEF TakesYes, PostedStatus
<1>2. /\ call.reading = "status" /\ call.cmd.verb = "article" /\ s2c # <<>> /\ Says(Line, 240)
      /\ s2c' = Tail(s2c) /\ UNCHANGED closed
  BY <1>1 DEF StatusFor, Says
<1>3. call.method = "post"
  BY <1>2 DEF Books, IsPosting
<1>4. PICK sent \in BOOLEAN : Orderly(s2c, srv, sent)
  BY DEF Books, WireInOrder
<1>5. SaysYes(s2c)
  <2>1. IsList(s2c)
    BY <1>4 DEF Orderly
  <2>2. Line = s2c[1]
    BY <1>2, <2>1, ListsGrow DEF Line
  <2> QED BY <1>2, <2>2 DEF SaysYes, Offers
<1>6. ~HasArticle(c2s)
  <2>1. ~Orderly(s2c, srv, TRUE)
    BY <1>2, <1>5, LineDrawn
  <2> QED BY <2>1 DEF Books, WireInOrder
<1>7. Orderly(s2c', srv, FALSE) /\ ~Confirmed'
  <2>1. Orderly(s2c, srv, FALSE)
    BY <1>6 DEF Books, WireInOrder
  <2>2. Orderly(s2c', srv, FALSE) /\ ~SaysYes(s2c')
    BY <1>2, <2>1, LineDrawn
  <2> QED BY <1>2, <2>2 DEF Confirmed
<1>8. call' = Idle /\ c2s' = c2s /\ outcome'.result = "Ok" /\ IsIdle'
  BY <1>1 DEF Return, IsIdle, Idle
<1>9. ~HasArticle(c2s') /\ OneArticle(c2s')
  BY <1>6, <1>8 DEF Books
<1>10. IsPosting(call') /\ ~AwaitsAnswer'
  BY <1>8, IdlePosts DEF AwaitsAnswer
<1>11. ServerStands' /\ Grown(InitialCorpus, corpus')
  BY <1>2 DEF Books, ServerStands
<1>12. WireInOrder'
  BY <1>7, <1>9 DEF WireInOrder
<1>13. AwaitsAnswer /\ Confirmed
  BY <1>2, <1>5 DEF AwaitsAnswer, Confirmed
<1>14. ~Due /\ ~Due'
  BY <1>6, <1>9 DEF Due
<1> QED BY <1>3, <1>7, <1>8, <1>9, <1>10, <1>11, <1>12, <1>13, <1>14 DEF Books

\* Its yes moves from what is promised to what is reported.
LEMMA YesIsEntered ==
    ASSUME Ledger, IsCorpus(corpus), UNCHANGED <<faults, corpus>>, accepted' = accepted + 1,
           AwaitsAnswer, Confirmed, ~AwaitsAnswer', ~Confirmed', ~Due'
    PROVE  Ledger'
PROOF
<1>1. Total(corpus) \in Nat /\ Total(InitialCorpus) \in Nat /\ Total(corpus') = Total(corpus)
  BY TotalIsPlaces, ScenesAssumption
<1>2. Promised = 1 /\ Awaited = 1 /\ Stray = 0 /\ Promised' = 0 /\ Awaited' = 0 /\ Stray' = 0
  BY DEF Promised, Awaited, Stray
<1>3. accepted \in Nat /\ faults \in Nat
  BY DEF Ledger
<1>4. ((accepted + 1) + Total(InitialCorpus)) + 0 <= Total(corpus)
  <2>1. (accepted + Total(InitialCorpus)) + 1 <= Total(corpus)
    BY <1>2 DEF Ledger, ConfirmedIsFiled
  <2> QED BY <1>1, <1>3, <2>1, Sums
<1>5. OneFilingEach => Total(corpus) + 0 <= (((accepted + 1) + faults) + Total(InitialCorpus)) + 0
  <2>1. ASSUME OneFilingEach
        PROVE  Total(corpus) + 0 <= ((accepted + faults) + Total(InitialCorpus)) + 1
    BY <1>2, <2>1 DEF Ledger, FiledIsConfirmed
  <2> QED BY <1>1, <1>3, <2>1, Balances
<1>6. PICK a \in Nat : a = accepted' /\ a = accepted + 1
  BY <1>3
<1>7. ConfirmedIsFiled'
  BY <1>1, <1>2, <1>4, <1>6 DEF ConfirmedIsFiled
<1>8. OneFilingEach => FiledIsConfirmed'
  BY <1>1, <1>2, <1>5, <1>6 DEF FiledIsConfirmed
<1> QED BY <1>3, <1>6, <1>7, <1>8 DEF Ledger

(***************************************************************************)
(* Reading on.                                                             *)
(***************************************************************************)
LEMMA ClientAccounts ==
    ASSUME Core, IsCorpus(corpus), Books, Ledger, ClientSteps
    PROVE  Books' /\ Ledger'
PROOF
<1>1. ClientReads /\ NoteAccepted /\ UNCHANGED <<faults, srv, st, corpus>>
  BY DEF ClientSteps, serverVars
<1>2. UNCHANGED closed /\ Draws
  BY <1>1 DEF ClientReads, ReadStatus, StatusFor, GreetingStatus, CapabilitiesStatus, ModeStatus,
     AuthStatus, StartTlsStatus, GroupStatus, ListingStatus, FormatStatus, OverviewStatus,
     HeaderStatus, FetchStatus, StatStatus, DateStatus, HelpStatus, ListGroupStatus,
     PostStatus, PostedStatus, QuitStatus, ReadBlockLine, BlockCancelled, BlockLine, BlockEnd, InBlock,
     ReadFails, OverlongLine, NotAStatusLine, EndOfStream, SendRefused, Fail, Draws
<1>3. CASE TakesOffer
  <2>1. accepted' = accepted
    BY <1>1, <1>3, OfferKeeps DEF NoteAccepted, IsIdle
  <2> QED BY <1>1, <1>3, <2>1, OfferKeeps, LedgerStays
<1>4. CASE TakesYes
  <2>1. accepted' = accepted + 1
    BY <1>1, <1>4, YesKeeps DEF NoteAccepted
  <2> QED BY <1>1, <1>4, <2>1, YesKeeps, YesIsEntered
<1>5. CASE Turns /\ ~TakesYes
  <2>1. accepted' = accepted
    BY <1>1, <1>5 DEF NoteAccepted, Turns
  <2>2. Books' /\ ~AwaitsAnswer' /\ (Due' <=> Due) /\ (Confirmed' => Confirmed)
    BY <1>1, <1>2, <1>5, TurnsKeep
  <2>3. AwaitsAnswer => ~Confirmed /\ ~Due
    BY <1>1, <1>5, AnswerMissed
  <2> QED BY <1>1, <2>1, <2>2, <2>3, LedgerStays
<1> QED BY <1>1, <1>3, <1>4, <1>5, ReadsTurn DEF Books

-------------------------------------------------------------------------------
(* Posting: the server's steps.                                                *)

\* Ways the account stays as it is.
LEMMA AccountStays ==
    ASSUME Ledger, IsCorpus(corpus), UNCHANGED <<call, accepted, corpus>>,
           faults' \in {faults, faults + 1}, Confirmed' <=> Confirmed, Due' => Due
    PROVE  Ledger'
PROOF
<1>1. AwaitsAnswer' <=> AwaitsAnswer
  BY DEF AwaitsAnswer
<1> QED BY <1>1, LedgerStays

\* A reply to anything but an article.
LEMMA ReplyAccounts ==
    ASSUME Books, srv \in {"greet", "command"}, NEW verb, verb # "article",
           NEW r, Fits(st, verb, r), Ends(r) <=> r.flow = "Close",
           r.flow # "Close" => Serving(r.st),
           NEW next, next = NextOf(r.flow), Sends(r, next),
           OneArticle(c2s'), HasArticle(c2s') <=> HasArticle(c2s), UNCHANGED corpus
    PROVE  Books' /\ (Confirmed' <=> Confirmed) /\ (Due' => Due)
PROOF
<1>1. /\ UNCHANGED call /\ st' = r.st /\ s2c' = s2c \o r.lines
      /\ srv' = IF r.flow = "Close" THEN "off" ELSE NextOf(r.flow)
      /\ closed' <=> r.flow = "Close"
  BY DEF Sends
<1>2. ~HasArticle(c2s) /\ Orderly(s2c, srv, FALSE)
  BY DEF Books, WireInOrder, Orderly
<1>3. Orderly(s2c', srv', FALSE) /\ (SaysYes(s2c') <=> SaysYes(s2c))
  <2> DEFINE m == IF r.flow = "Close" THEN "off" ELSE NextOf(r.flow)
  <2>1. srv \notin {"article", "off"} /\ srv' = m
    BY <1>1
  <2>2. Orderly(s2c \o r.lines, m, FALSE) /\ (SaysYes(s2c \o r.lines) <=> SaysYes(s2c))
    BY <1>2, <2>1, OrderlyAnswers
  <2> QED BY <1>1, <2>1, <2>2
<1>4. NextOf(r.flow) # "off"
  BY DEF NextOf
<1>5. ServerStands'
  BY <1>1, <1>4 DEF ServerStands
<1>6. WireInOrder' /\ IsPosting(call') /\ Grown(InitialCorpus, corpus')
  BY <1>1, <1>2, <1>3 DEF Books, WireInOrder
<1> QED BY <1>2, <1>3, <1>5, <1>6 DEF Books, Confirmed, Due

\* Reading commands.
LEMMA ServerReplies ==
    ASSUME Whole, Books, Ledger, ServerGreets \/ ServerHandles
    PROVE  Books' /\ Ledger'
PROOF
<1>1. Core /\ IsState(st) /\ IsCorpus(corpus) /\ scene \in Scenes
  BY DEF Whole, Core, CallerFine
<1>2. UNCHANGED <<call, accepted, faults, corpus>>
  BY DEF ServerGreets, ServerHandles, Sends, callerVars
<1>3. CASE ServerGreets
  <2>1. Config.greeting \in Greetings
    BY <1>1, ScenesAssumption DEF ServerConfig, Config
  <2> DEFINE r == Greet(Config, st)
             verb == "greeting"
  <2>2. srv = "greet" /\ c2s' = c2s /\ Sends(r, "command") /\ Serving(st)
    BY <1>3 DEF ServerGreets, Books, ServerStands
  <2>3. Fits(st, verb, r) /\ (Ends(r) <=> r.flow = "Close")
    BY <2>1, <2>2, OpeningFits
  <2>4. r.st = st /\ r.flow \in {"Continue", "Close"}
    BY <2>1 DEF Greet, Greetings, Answer, Reply
  <2>5. NextOf(r.flow) = "command"
    BY <2>4 DEF NextOf
  <2>6. verb # "article" /\ OneArticle(c2s') /\ (HasArticle(c2s') <=> HasArticle(c2s))
    BY <2>2 DEF Books
  <2> HIDE DEF r, verb
  <2>7. Books' /\ (Confirmed' <=> Confirmed) /\ (Due' => Due)
    BY <1>2, <2>2, <2>3, <2>4, <2>5, <2>6, ReplyAccounts
  <2> QED BY <1>1, <1>2, <2>7, AccountStays
<1>4. CASE ServerHandles
  <2> DEFINE cmd == Head(c2s)
             r == Handle(Config, corpus, st, cmd)
             verb == cmd.verb
  <2>1. /\ srv = "command" /\ c2s # <<>> /\ c2s' = Tail(c2s)
        /\ Sends(r, NextOf(r.flow)) /\ Serving(st)
    BY <1>4 DEF ServerHandles, NextOf, Books, ServerStands
  <2>2. Fits(st, verb, r) /\ (Ends(r) <=> r.flow = "Close")
    BY <1>1, <2>1, HandleFits
  <2>3. ~HasArticle(c2s)
    BY <2>1 DEF Books, WireInOrder, Orderly
  <2>4. /\ verb # "article" /\ OneArticle(c2s')
        /\ HasArticle(c2s') <=> HasArticle(c2s)
    BY <2>1, <2>3, ArticlesMove DEF Books
  <2>5. IsState(r.st)
    <3>1. Sayable(cmd, st, profile)
      BY <1>1, <2>1, WireShortens DEF Core, WireFine
    <3> QED BY <1>1, <3>1, HandleAnswers DEF Sayable, Answers
  <2> HIDE DEF r, verb, cmd
  <2>6. ASSUME r.flow # "Close" PROVE Serving(r.st)
    <3>1. ~Ends(r) /\ Tells(st, verb, r.lines[1], r.st, r.flow)
      BY <2>2, <2>6 DEF Fits
    <3>2. r.st.close_requested = FALSE
      BY <2>2, <3>1 DEF Ends, Fits
    <3>3. r.st.authenticated \in {TRUE, st.authenticated}
      BY <3>1 DEF Tells
    <3> QED BY <2>1, <2>5, <3>2, <3>3 DEF Serving, IsState
  <2>7. Books' /\ (Confirmed' <=> Confirmed) /\ (Due' => Due)
    BY <1>2, <2>1, <2>2, <2>4, <2>6, ReplyAccounts
  <2> QED BY <1>1, <1>2, <2>7, AccountStays
<1> QED BY <1>3, <1>4

\* The session ends, or its input does.
LEMMA EndAccounts ==
    ASSUME Books, UNCHANGED <<call, c2s, corpus>>, srv' = "off", closed' = TRUE,
           s2c' = s2c \/ s2c' = Append(s2c, Hush)
    PROVE  Books' /\ (Confirmed' <=> Confirmed) /\ ~Due'
PROOF
<1>1. PICK sent \in BOOLEAN : (sent <=> HasArticle(c2s)) /\ Orderly(s2c, srv, sent)
  BY DEF Books, WireInOrder
<1>2. Orderly(s2c', "off", sent) /\ (SaysYes(s2c') <=> SaysYes(s2c))
  <2> DEFINE m == Append(s2c, Hush)
  <2>1. Orderly(s2c, "off", sent)
    BY <1>1, OrderlyEnds
  <2>2. Orderly(m, "off", sent)
    BY <1>1, OrderlyEnds
  <2>3. SaysYes(m) <=> SaysYes(s2c)
    BY <1>1, OrderlyEnds
  <2>4. s2c' = s2c \/ s2c' = m
    OBVIOUS
  <2> HIDE DEF m
  <2> QED BY <2>1, <2>2, <2>3, <2>4
<1>3. WireInOrder'
  <2>1. CASE sent = TRUE
    BY <1>1, <1>2, <2>1 DEF WireInOrder
  <2>2. CASE sent = FALSE
    BY <1>1, <1>2, <2>2 DEF WireInOrder
  <2> QED BY <2>1, <2>2
<1>4. ServerStands' /\ IsPosting(call') /\ OneArticle(c2s') /\ Grown(InitialCorpus, corpus')
  BY DEF Books, ServerStands
<1> QED BY <1>2, <1>3, <1>4 DEF Books, Confirmed, Due

\* An article that is acceptable is filed, in one place if no post names two groups
\* that are carried.
LEMMA ArticleFiled ==
    ASSUME IsCorpus(corpus), Grown(InitialCorpus, corpus), NEW article, IsPosted(article),
           article.groups \in Seq(STRING), corpus' = CorpusAfter(Config, corpus, st, article)
    PROVE  /\ Grown(InitialCorpus, corpus')
           /\ \E t, u \in Nat :
                /\ t = Total(corpus) /\ u = Total(corpus')
                /\ Acceptable(Config, corpus, article) => u >= t + 1 /\ (OneFilingEach => u = t + 1)
                /\ ~Acceptable(Config, corpus, article) => u = t
PROOF
<1> DEFINE W == {i \in DOMAIN article.groups : Carries(corpus, article.groups[i])}
           id == IdOf(st, article)
           n == Cardinality(W)
<1>1. Total(corpus) \in Nat
  BY TotalIsPlaces
<1>2. CASE ~Acceptable(Config, corpus, article)
  <2>1. corpus' = corpus
    BY <1>2 DEF CorpusAfter
  <2> QED BY <1>1, <1>2, <2>1
<1>3. CASE Acceptable(Config, corpus, article)
  <2>1. corpus' = Inject(corpus, article.groups, id)
    BY <1>3 DEF CorpusAfter
  <2>2. /\ IsCorpus(corpus') /\ Grown(corpus, corpus')
        /\ Total(corpus') = Total(corpus) + n
    BY <2>1, InjectAdds
  <2>3. IsFiniteSet(W)
    <3>1. IsFiniteSet(DOMAIN article.groups)
      BY FS_Interval
    <3> QED BY <3>1, FS_Subset
  <2>4. W # {}
    BY <1>3 DEF Acceptable
  <2>5. ASSUME OneFilingEach PROVE n <= 1
    <3>1. PICK m \in WorkerCalls : m.method = "post" /\ m.arg = article
      BY DEF IsPosted
    <3>2. Cardinality({i \in DOMAIN article.groups : Carries(InitialCorpus, article.groups[i])}) <= 1
      BY <2>5, <3>1 DEF OneFilingEach
    <3>3. \A name : Carries(InitialCorpus, name) <=> Carries(corpus, name)
      BY ScenesAssumption, GrownCarries
    <3>4. W = {i \in DOMAIN article.groups : Carries(InitialCorpus, article.groups[i])}
      BY <3>3
    <3> QED BY <3>2, <3>4
  <2> HIDE DEF W
  <2>6. n \in Nat /\ n # 0
    BY <2>3, <2>4, FS_CardinalityType, FS_EmptySet
  <2>7. Grown(InitialCorpus, corpus')
    BY <2>2, GrownFurther
  <2>8. PICK u \in Nat : u = Total(corpus')
    BY <2>2, TotalIsPlaces
  <2> HIDE DEF n
  <2>9. PICK t \in Nat : t = Total(corpus)
    BY <1>1
  <2>10. u = t + n
    BY <2>2, <2>8, <2>9
  <2>11. u >= t + 1 /\ (OneFilingEach => u = t + 1)
    BY <2>5, <2>6, <2>8, <2>9, <2>10
  <2> QED BY <1>3, <2>7, <2>8, <2>9, <2>11
<1> QED BY <1>2, <1>3

(***************************************************************************)
(* Taking an article: it is filed and confirmed, or neither.               *)
(***************************************************************************)
LEMMA ArticleAccounts ==
    ASSUME Whole, Books, Ledger, ServerTakesArticle
    PROVE  Books' /\ Ledger'
PROOF
<1> DEFINE article == Head(c2s).arg
           ok == Acceptable(Config, corpus, article)
           arg == IF ok THEN Id(IdOf(st, article)) ELSE NoArg
           code == IF ok THEN 240 ELSE 441
           r == AcceptArticle(Config, corpus, st, article)
<1>1. /\ srv = "article" /\ c2s # <<>> /\ Head(c2s).verb = "article" /\ c2s' = Tail(c2s)
      /\ Sends(r, "command") /\ corpus' = CorpusAfter(Config, corpus, st, article)
  BY DEF ServerTakesArticle
<1>2. /\ HasArticle(c2s) /\ ~HasArticle(c2s') /\ OneArticle(c2s') /\ IsPosted(article)
  BY <1>1, ArticlesMove DEF Books
<1>3. s2c = <<>>
  BY <1>1, <1>2 DEF Books, WireInOrder, Orderly
<1>4. r.st = st /\ r.lines = <<Status(code, arg)>> /\ r.flow = "Continue"
  BY DEF AcceptArticle, Answer, Refusal, Reply
<1> DEFINE line == Status(code, arg)
           l == <<line>>
<1>5. ~Offers(l) /\ (SaysYes(l) <=> ok)
  <2>1. line.kind = "status" /\ (line.code = 240 <=> ok) /\ line.code # 340
    BY DEF Status
  <2>2. l # <<>> /\ l[1] = line
    OBVIOUS
  <2> HIDE DEF l, line, ok
  <2> QED BY <2>1, <2>2 DEF SaysYes, Offers, Says
<1>6. IsCorpus(corpus) /\ article.groups \in Seq(STRING)
  BY <1>1, WireShortens DEF Whole, Core, WireFine, Sayable
<1>7. /\ Grown(InitialCorpus, corpus')
      /\ \E t, u \in Nat : /\ t = Total(corpus) /\ u = Total(corpus')
                           /\ ok => u >= t + 1 /\ (OneFilingEach => u = t + 1)
                           /\ ~ok => u = t
  BY <1>1, <1>2, <1>6, ArticleFiled DEF Books
<1>8. /\ UNCHANGED <<call, accepted, faults>> /\ st' = st /\ srv' = "command" /\ ~closed'
      /\ s2c' = <<>> \o l
  <2> HIDE DEF code, arg, ok, r
  <2>1. r.lines = l
    BY <1>4
  <2> HIDE DEF l
  <2> QED BY <1>1, <1>3, <1>4, <2>1 DEF Sends, callerVars
<1>9. Orderly(s2c', "command", FALSE) /\ (SaysYes(s2c') <=> ok)
  <2> DEFINE m == <<>> \o l
  <2>1. s2c' = m
    BY <1>8
  <2> HIDE DEF line
  <2>2. IsList(l) /\ l # <<>>
    BY OneAndMore, ListsBegin
  <2>3. \A i \in DOMAIN l : i = 1
    OBVIOUS
  <2> HIDE DEF l, ok
  <2>4. Orderly(m, "command", FALSE) /\ (SaysYes(m) <=> SaysYes(l))
    BY <1>5, <2>2, <2>3, OrderlyAnswer
  <2> HIDE DEF m
  <2> QED BY <1>5, <2>1, <2>4
<1> HIDE DEF l, line, code, arg, ok, r, article
<1>10. WireInOrder'
  BY <1>2, <1>8, <1>9 DEF WireInOrder
<1>11. ServerStands' /\ IsPosting(call')
  BY <1>1, <1>8 DEF Books, ServerStands
<1>12. Books'
  BY <1>2, <1>7, <1>10, <1>11 DEF Books
<1>13. /\ ~Confirmed /\ Due /\ (Confirmed' <=> ok) /\ ~Due' /\ (AwaitsAnswer' <=> AwaitsAnswer)
  BY <1>1, <1>2, <1>3, <1>8, <1>9 DEF Confirmed, SaysYes, Due, AwaitsAnswer
<1>14. PICK t \in Nat, u \in Nat :
          /\ t = Total(corpus) /\ u = Total(corpus')
          /\ ok => u >= t + 1 /\ (OneFilingEach => u = t + 1)
          /\ ~ok => u = t
  BY <1>7
<1>15. PICK z \in Nat : z = Total(InitialCorpus)
  BY TotalIsPlaces, ScenesAssumption
<1>16. PICK s \in 0..1, q \in 0..1, v \in 0..1 :
          /\ s = Stray /\ q = Promised' /\ v = Awaited'
          /\ Promised = 0 /\ Awaited = 0 /\ Stray' = 0
          /\ ok => q = 1 /\ (s = 0 => v = 1)
          /\ ~ok => q = 0
          /\ s = 1 => v = 0
  BY <1>13 DEF Promised, Awaited, Stray
<1>17. accepted \in Nat /\ faults \in Nat
  BY DEF Ledger
<1>18. ConfirmedIsFiled'
  <2>1. (accepted + z) + 0 <= t /\ u >= t + q
    <3>1. (accepted + z) + 0 <= t
      BY <1>14, <1>15, <1>16 DEF Ledger, ConfirmedIsFiled
    <3> QED BY <1>14, <1>16, <3>1
  <2>2. (accepted + z) + q <= u
    BY <1>17, <2>1, Sums
  <2> QED BY <1>8, <1>14, <1>15, <1>16, <2>2 DEF ConfirmedIsFiled
<1>19. ASSUME OneFilingEach PROVE FiledIsConfirmed'
  <2>1. t + s <= ((accepted + faults) + z) + 0
    BY <1>14, <1>15, <1>16, <1>19 DEF Ledger, FiledIsConfirmed
  <2>2. CASE ok
    <3>1. u = t + 1
      BY <1>14, <1>19, <2>2
    <3>2. (t + 1) + 0 <= ((accepted + faults) + z) + v
      <4>1. CASE s = 1
        BY <1>16, <1>17, <2>1, <4>1, Balances
      <4>2. CASE s = 0
        BY <1>16, <1>17, <2>1, <2>2, <4>2, Balances
      <4> QED BY <4>1, <4>2
    <3> QED BY <1>8, <1>14, <1>15, <1>16, <3>1, <3>2 DEF FiledIsConfirmed
  <2>3. CASE ~ok
    <3>1. u = t
      BY <1>14, <2>3
    <3>2. t + 0 <= ((accepted + faults) + z) + v
      BY <1>17, <2>1, Balances
    <3> QED BY <1>8, <1>14, <1>15, <1>16, <3>1, <3>2 DEF FiledIsConfirmed
  <2> QED BY <2>2, <2>3
<1>20. accepted' \in Nat /\ faults' \in Nat
  BY <1>8, <1>17
<1> QED BY <1>12, <1>18, <1>19, <1>20 DEF Ledger

LEMMA ServerAccounts ==
    ASSUME Whole, Books, Ledger, ServerStep
    PROVE  Books' /\ Ledger'
PROOF
<1>1. IsCorpus(corpus)
  BY DEF Whole
<1>2. CASE ServerTakesLine
  <2>1. /\ srv = "article" /\ c2s # <<>> /\ Head(c2s).verb # "article" /\ c2s' = Tail(c2s)
        /\ UNCHANGED <<call, s2c, closed, faults, accepted, srv, st, corpus>>
    BY <1>2 DEF ServerTakesLine, serverVars, callerVars
  <2>2. OneArticle(c2s') /\ (HasArticle(c2s') <=> HasArticle(c2s))
    BY <2>1, ArticlesMove DEF Books
  <2>3. WireInOrder' /\ ServerStands' /\ IsPosting(call') /\ Grown(InitialCorpus, corpus')
    BY <2>1, <2>2 DEF Books, WireInOrder, ServerStands
  <2>4. (Confirmed' <=> Confirmed) /\ (Due' => Due)
    BY <2>1, <2>2 DEF Confirmed, Due
  <2> QED BY <1>1, <2>1, <2>2, <2>3, <2>4, AccountStays DEF Books
<1>3. CASE ServerSeesEnd
  <2>1. /\ UNCHANGED <<call, c2s, s2c, faults, accepted, corpus>>
        /\ srv' = "off" /\ closed' = TRUE
    BY <1>3 DEF ServerSeesEnd, callerVars
  <2>2. Books' /\ (Confirmed' <=> Confirmed) /\ ~Due'
    BY <2>1, EndAccounts
  <2> QED BY <1>1, <2>1, <2>2, AccountStays
<1> QED BY <1>2, <1>3, ServerReplies, ArticleAccounts DEF ServerStep

-------------------------------------------------------------------------------
(* Posting: the other steps.                                                   *)

\* An empty connection.
LEMMA NothingSaid ==
    /\ ~SaysYes(<<>>) /\ ~HasArticle(<<>>) /\ OneArticle(<<>>)
    /\ \A where : where # "off" => Orderly(<<>>, where, FALSE)
PROOF
<1>1. IsList(<<>>) /\ DOMAIN <<>> = {}
  BY ListsBegin
<1> QED BY <1>1 DEF SaysYes, HasArticle, OneArticle, Orderly

\* The handshake of STARTTLS.
LEMMA UpgradeAccounts ==
    ASSUME Core, IsCorpus(corpus), Books, Ledger, Upgrade
    PROVE  Books' /\ Ledger'
PROOF
<1>1. /\ call.reading = "handshake" /\ srv = "tls" /\ s2c = <<>> /\ s2c' = s2c /\ Handshaken
      /\ srv' = "command" /\ st' = [st EXCEPT !.encrypted = TRUE]
      /\ UNCHANGED <<closed, accepted, faults, corpus>>
  BY DEF Upgrade, TlsReady, callerVars
<1>2. Turns
  <2>1. call.method # "post"
    BY <1>1 DEF Books, IsPosting
  <2> QED BY <1>1, <2>1, ConnectMoves, MovesTurn DEF Books, Handshaken
<1>3. OneArticle(c2s') /\ (HasArticle(c2s') <=> HasArticle(c2s))
  BY <1>2, ArticlesMove DEF Books, Turns
<1>4. ~HasArticle(c2s) /\ Orderly(s2c, srv, FALSE)
  BY <1>1 DEF Books, WireInOrder, Orderly
<1>5. WireInOrder'
  BY <1>1, <1>3, <1>4, NothingSaid DEF WireInOrder
<1>6. ServerStands'
  <2>1. ~closed /\ Serving(st)
    BY <1>1 DEF Books, ServerStands
  <2>2. Serving(st')
    BY <1>1, <2>1 DEF Serving, StateFields
  <2> QED BY <1>1, <2>1, <2>2 DEF ServerStands
<1>7. Books'
  BY <1>1, <1>2, <1>3, <1>5, <1>6 DEF Books, Turns
<1>8. ~AwaitsAnswer /\ ~AwaitsAnswer' /\ ~Due' /\ (Confirmed' => Confirmed)
  BY <1>1, <1>2, <1>3, <1>4 DEF AwaitsAnswer, Turns, Due, Confirmed
<1> QED BY <1>1, <1>7, <1>8, LedgerStays

LEMMA UpgradeFailsAccounts ==
    ASSUME IsCorpus(corpus), Books, Ledger, UpgradeFails
    PROVE  Books' /\ Ledger'
PROOF
<1>1. /\ call.reading = "handshake" /\ Return(client, "Tls") /\ c2s' = c2s /\ s2c' = s2c
      /\ srv' = "off" /\ closed' = TRUE /\ faults' \in {faults, faults + 1}
      /\ UNCHANGED <<accepted, corpus>>
  BY DEF UpgradeFails, Return
<1>2. IsPosting(call') /\ ~AwaitsAnswer'
  BY <1>1, IdlePosts DEF Return, AwaitsAnswer
<1>3. WireInOrder'
  <2>1. ASSUME NEW sent \in BOOLEAN, Orderly(s2c, srv, sent) PROVE Orderly(s2c', "off", sent)
    BY <1>1, <2>1, OrderlyEnds
  <2> QED BY <1>1, <2>1 DEF Books, WireInOrder
<1>4. Books'
  BY <1>1, <1>2, <1>3 DEF Books, ServerStands
<1>5. ~AwaitsAnswer /\ ~Due' /\ (Confirmed' => Confirmed)
  BY <1>1 DEF AwaitsAnswer, Due, Confirmed
<1> QED BY <1>1, <1>2, <1>4, <1>5, LedgerStays

\* Between two calls no answer is waited for.
LEMMA NobodyAwaits == Core /\ IsIdle => ~AwaitsAnswer
BY IdlePosts DEF Core, CallFine, IsIdle, AwaitsAnswer

\* A new connection.
LEMMA DialAccounts ==
    ASSUME Core, scene \in Scenes, IsCorpus(corpus), Books, Ledger, Dial
    PROVE  Books' /\ Ledger'
PROOF
<1>1. /\ IsIdle /\ srv' = "greet" /\ c2s' = <<>> /\ s2c' = <<>> /\ closed' = FALSE
      /\ UNCHANGED <<accepted, faults, corpus>>
      /\ \E encrypted : st' = [NewSession(Config) EXCEPT !.encrypted = encrypted]
      /\ call'.method = "connect" /\ call'.cmd.verb = "greeting"
  BY DEF Dial, MayDial, Idle, Command
<1>2. ~AwaitsAnswer
  BY <1>1, NobodyAwaits
<1>3. IsPosting(call') /\ ~AwaitsAnswer'
  BY <1>1 DEF IsPosting, AwaitsAnswer
<1>4. Serving(st')
  <2>1. Serving(NewSession(Config))
    BY ScenesAssumption DEF Serving, NewSession, StateFields, ServerConfig, Config
  <2> QED BY <1>1, <2>1 DEF Serving, StateFields
<1>5. OneArticle(c2s') /\ ~HasArticle(c2s') /\ Orderly(s2c', srv', FALSE) /\ ~SaysYes(s2c')
  BY <1>1, NothingSaid
<1>6. Books'
  BY <1>1, <1>3, <1>4, <1>5 DEF Books, ServerStands, WireInOrder
<1>7. ~Due' /\ ~Confirmed'
  BY <1>5 DEF Due, Confirmed
<1> QED BY <1>1, <1>2, <1>3, <1>6, <1>7, LedgerStays

\* A line that is no reply.
LEMMA OrderlyGrows ==
    ASSUME NEW l, Orderly(l, "tls", FALSE), NEW x, \A code : ~Says(x, code), NEW m, m = Append(l, x)
    PROVE  Orderly(m, "tls", FALSE) /\ (SaysYes(m) <=> SaysYes(l))
PROOF
<1>1. /\ IsList(l) /\ Len(l) \in Nat /\ DOMAIN l = 1..Len(l)
      /\ IsList(m) /\ DOMAIN m = 1..(Len(l) + 1) /\ m[Len(l) + 1] = x
      /\ \A i \in 1..Len(l) : m[i] = l[i]
      /\ l # <<>> => 1 \in DOMAIN l
  BY ListsGrow DEF Orderly
<1>2. \A i \in DOMAIN m : (i \in DOMAIN l /\ m[i] = l[i]) \/ m[i] = x
  BY <1>1
<1>3. Orderly(m, "tls", FALSE)
  BY <1>1, <1>2 DEF Orderly
<1>4. m # <<>> /\ (l = <<>> => m[1] = x)
  <2>1. 1 \in DOMAIN m /\ Len(<<>>) = 0 /\ DOMAIN <<>> = 1..Len(<<>>)
    BY <1>1, ListsBegin, ListsGrow
  <2> QED BY <1>1, <2>1
<1>5. l # <<>> => m[1] = l[1]
  BY <1>1
<1> QED BY <1>3, <1>4, <1>5 DEF SaysYes

\* A new call sends no article, and may make room for none.
LEMMA CallAccounts ==
    ASSUME Core, IsCorpus(corpus), Books, Ledger, IsIdle, Turns, s2c' = s2c,
           UNCHANGED <<closed, srv, st, corpus, accepted, faults>>
    PROVE  Books' /\ Ledger'
PROOF
<1>1. Books' /\ ~AwaitsAnswer' /\ (Due' <=> Due) /\ (Confirmed' => Confirmed)
  BY TurnsKeep DEF Draws
<1>2. ~AwaitsAnswer
  BY NobodyAwaits
<1> QED BY <1>1, <1>2, LedgerStays

\* A step of the caller that touches neither end.
LEMMA NothingAccounts ==
    ASSUME IsCorpus(corpus), Books, Ledger, faults' \in {faults, faults + 1},
           UNCHANGED <<call, c2s, s2c, closed, accepted, srv, st, corpus>>
    PROVE  Books' /\ Ledger'
PROOF
<1>1. Books'
  BY DEF Books, ServerStands, WireInOrder
<1>2. (Confirmed' <=> Confirmed) /\ (Due' => Due)
  BY DEF Confirmed, Due
<1> QED BY <1>1, <1>2, AccountStays

LEMMA CallerAccounts ==
    ASSUME Whole, Books, Ledger, Caller
    PROVE  Books' /\ Ledger'
PROOF
<1>1. Core /\ IsCorpus(corpus) /\ scene \in Scenes /\ IsPosting(call)
  BY DEF Whole, CallerFine, Books
<1>2. CASE Dial
  BY <1>1, <1>2, DialAccounts
<1>3. CASE WorkerCallsMethod
  <2>1. PICK m \in WorkerCalls : Invoke(m)
    BY <1>3 DEF WorkerCallsMethod
  <2>2. Callable(m) /\ (m.method = "post" => IsPosted(m.arg))
    BY ScenesAssumption DEF IsPosted
  <2>3. Turns
    BY <1>1, <2>1, <2>2, InvokeTurns
  <2>4. IsIdle /\ UNCHANGED <<s2c, closed, srv, st, corpus, accepted, faults>>
    BY <1>3, <2>1 DEF WorkerCallsMethod, Invoke, Local, serverVars
  <2> QED BY <1>1, <2>3, <2>4, CallAccounts
<1>4. CASE JobCalls
  <2>1. todo \in Seq(StageNames(scene.job)) /\ todo # <<>>
    BY <1>4 DEF Whole, CallerFine, JobCalls
  <2>2. Head(todo) \in StageNames(scene.job)
    BY <2>1
  <2> DEFINE m == CallAt(scene.job, Head(todo), client.group)
  <2>3. Callable(m) /\ m.method # "post"
    BY <1>1, <2>2, StagesAre, JobsPostNothing
  <2>4. Invoke(m) /\ UNCHANGED <<srv, st, corpus, accepted, faults>>
    BY <1>4 DEF JobCalls, serverVars, callerVars
  <2> HIDE DEF m
  <2>5. Turns
    BY <1>1, <2>3, <2>4, InvokeTurns
  <2>6. IsIdle /\ s2c' = s2c /\ closed' = closed
    BY <2>4 DEF Invoke, Local
  <2> QED BY <1>1, <2>4, <2>5, <2>6, CallAccounts
<1>5. CASE WorkerDropsClient \/ WorkerResets \/ JobReturns \/ JobDropsClient
  <2>1. UNCHANGED <<call, c2s, s2c, closed, accepted, faults, srv, st, corpus>>
    BY <1>5 DEF WorkerDropsClient, WorkerResets, JobReturns, JobDropsClient, callerVars, serverVars
  <2> QED BY <1>1, <2>1, NothingAccounts
<1> QED BY <1>2, <1>3, <1>4, <1>5 DEF Caller

(***************************************************************************)
(* What goes wrong: a yes that is lost is lost to a fault.                 *)
(***************************************************************************)
LEMMA FaultAccounts ==
    ASSUME Core, IsCorpus(corpus), Books, Ledger, GoesWrong
    PROVE  Books' /\ Ledger'
PROOF
<1>1. IsPosting(call)
  BY DEF Books
<1>2. CASE DialFails \/ Cancels
  <2>1. /\ UNCHANGED <<call, c2s, s2c, closed, accepted, srv, st, corpus>>
        /\ faults' = faults + 1
    BY <1>2 DEF DialFails, Cancels, Fault, serverVars
  <2> QED BY <2>1, NothingAccounts
<1>3. CASE Times \/ Resets \/ GivesUp
  <2>1. /\ ReadTimeout \/ ReadReset
        /\ UNCHANGED <<srv, st, corpus, accepted>>
        /\ \/ faults' = faults + 1
           \/ faults' = faults /\ c2s = <<>> /\ ReadTimeout
    BY <1>3 DEF Times, Resets, GivesUp, Fault, serverVars, callerVars
  <2>2. Turns
    BY <1>1, <2>1, FailuresTurn
  <2>3. s2c' = s2c /\ closed' = closed
    BY <2>1 DEF ReadTimeout, ReadReset, Fail
  <2>4. Books' /\ ~AwaitsAnswer' /\ (Due' <=> Due) /\ (Confirmed' => Confirmed)
    BY <2>1, <2>2, <2>3, TurnsKeep DEF Draws
  <2>5. CASE faults' = faults + 1
    <3>1. Due => ~Confirmed
      BY NothingSaid DEF Due, Confirmed, Books, WireInOrder, Orderly
    <3>2. ~(Due' /\ Confirmed)
      BY <2>4, <3>1
    <3> QED BY <2>1, <2>4, <2>5, <3>2, LedgerStays
  <2>6. CASE faults' = faults /\ c2s = <<>> /\ ReadTimeout
    <3>1. ~Due /\ ~Confirmed
      BY <2>6, NothingSaid DEF Due, Confirmed, ReadTimeout
    <3> QED BY <2>1, <2>4, <2>6, <3>1, LedgerStays
  <2> QED BY <2>1, <2>5, <2>6
<1>4. CASE Idles
  <2>1. /\ UNCHANGED <<call, c2s, corpus, accepted>> /\ faults' = faults + 1
        /\ srv' = "off" /\ closed' = TRUE
        /\ s2c' = s2c \/ s2c' = Append(s2c, Hush)
    BY <1>4 DEF Idles, Fault, Hush
  <2>2. Books' /\ (Confirmed' <=> Confirmed) /\ ~Due'
    BY <2>1, EndAccounts
  <2> QED BY <2>1, <2>2, AccountStays
<1>5. CASE Chatters
  <2> DEFINE x == Data(Label("injected"))
  <2>1. /\ UNCHANGED <<call, c2s, closed, corpus, accepted, srv, st>> /\ faults' = faults + 1
        /\ srv = "tls" /\ s2c' = Append(s2c, x)
    BY <1>5 DEF Chatters, Fault, serverVars
  <2>2. \A code : ~Says(x, code)
    BY DEF Says, Data
  <2> HIDE DEF x
  <2>3. ~HasArticle(c2s) /\ Orderly(s2c, "tls", FALSE)
    BY <2>1 DEF Books, WireInOrder, Orderly
  <2>4. Orderly(s2c', "tls", FALSE) /\ (SaysYes(s2c') <=> SaysYes(s2c))
    BY <2>1, <2>2, <2>3, OrderlyGrows
  <2>5. Books'
    BY <2>1, <2>3, <2>4 DEF Books, ServerStands, WireInOrder
  <2>6. (Confirmed' <=> Confirmed) /\ (Due' => Due)
    BY <2>1, <2>4 DEF Confirmed, Due
  <2> QED BY <2>1, <2>5, <2>6, AccountStays
<1> QED BY <1>2, <1>3, <1>4, <1>5 DEF GoesWrong

LEMMA PostingBegins == Init => Books /\ Ledger
PROOF
<1> SUFFICES ASSUME Init PROVE Books /\ Ledger
  OBVIOUS
<1>1. /\ call = Idle /\ c2s = <<>> /\ s2c = <<>> /\ closed = FALSE /\ srv = "off"
      /\ accepted = 0 /\ faults = 0 /\ corpus = InitialCorpus
  BY DEF Init
<1>2. Orderly(<<>>, "off", FALSE)
  <2>1. IsList(<<>>) /\ DOMAIN <<>> = {}
    BY ListsBegin
  <2> QED BY <2>1 DEF Orderly
<1>3. Grown(InitialCorpus, corpus)
  BY <1>1 DEF Grown
<1>4. Books
  BY <1>1, <1>2, <1>3, IdlePosts, NothingSaid DEF Books, ServerStands, WireInOrder
<1>5. Promised = 0 /\ Awaited = 0 /\ Stray = 0
  BY <1>1, NothingSaid DEF Promised, Awaited, Stray, Confirmed, Due
<1>6. PICK z \in Nat : z = Total(InitialCorpus) /\ z = Total(corpus)
  BY <1>1, TotalIsPlaces, ScenesAssumption
<1>7. (0 + z) + 0 <= z /\ z + 0 <= ((0 + 0) + z) + 0
  OBVIOUS
<1>8. ConfirmedIsFiled /\ FiledIsConfirmed
  BY <1>1, <1>5, <1>6, <1>7 DEF ConfirmedIsFiled, FiledIsConfirmed
<1> QED BY <1>1, <1>4, <1>8 DEF Ledger

LEMMA PostingStays == Whole /\ Books /\ Ledger /\ [Next]_vars => Books' /\ Ledger'
PROOF
<1> SUFFICES ASSUME Whole, Books, Ledger, [Next]_vars PROVE Books' /\ Ledger'
  OBVIOUS
<1>1. Core /\ IsCorpus(corpus)
  BY DEF Whole
<1>3. ASSUME Finished \/ UNCHANGED vars PROVE Books' /\ Ledger'
  <2>1. UNCHANGED <<call, c2s, s2c, closed, accepted, faults, srv, st, corpus>>
    BY <1>3 DEF Finished, vars, clientVars, callerVars, serverVars
  <2> QED BY <1>1, <2>1, NothingAccounts
<1> QED BY <1>1, <1>3, CallerAccounts, ClientAccounts, ServerAccounts, UpgradeAccounts,
        UpgradeFailsAccounts, FaultAccounts DEF Next

(***************************************************************************)
(* The books are kept in every conversation, and the account is balanced.  *)
(***************************************************************************)
THEOREM PostingsKept == Spec => [](Books /\ Ledger)
PROOF
<1>1. Init /\ [][Next]_vars /\ []Whole => [](Books /\ Ledger)
  BY PostingBegins, PostingStays, PTL
<1> QED BY <1>1, ConversationKept, PTL DEF Spec

(***************************************************************************)
(* What post() reports accepted is in the corpus, whatever the server's    *)
(* quirks and whatever goes wrong on the way: no other 240 is ever taken   *)
(* for the answer to an article (Client::post, Session::accept_article).   *)
(***************************************************************************)
THEOREM AcceptedWasFiled == Spec => [](accepted <= Filed)
PROOF
<1>1. ASSUME Whole, Ledger PROVE accepted <= Filed
  <2>1. PICK t \in Nat, z \in Nat : t = Total(corpus) /\ z = Total(InitialCorpus)
    BY <1>1, TotalIsPlaces, ScenesAssumption DEF Whole
  <2>2. PICK p \in Nat : p = Promised
    BY DEF Promised
  <2>3. accepted \in Nat /\ (accepted + z) + p <= t
    BY <1>1, <2>1, <2>2 DEF Ledger, ConfirmedIsFiled
  <2>4. accepted <= t - z
    BY <2>3, AccountsAgree
  <2> QED BY <2>1, <2>4 DEF Filed
<1> QED BY <1>1, ConversationKept, PostingsKept, PTL

(***************************************************************************)
(* What post() returned is what the server did: every post reported        *)
(* accepted is filed, and one filed that was not reported took a fault to  *)
(* lose the reply.  A posting that names several groups the server carries *)
(* is filed in each of them, and is set aside (Client::post,               *)
(* Session::accept_article, Corpus::inject).                               *)
(***************************************************************************)
THEOREM PostsAreAccounted ==
    ASSUME OneFilingEach
    PROVE  Spec => []PostsAccounted
PROOF
<1>1. ASSUME Whole, Ledger, IsIdle PROVE Filed <= accepted + faults
  <2>1. PICK t \in Nat, z \in Nat : t = Total(corpus) /\ z = Total(InitialCorpus)
    BY <1>1, TotalIsPlaces, ScenesAssumption DEF Whole
  <2>2. PICK s \in Nat : s = Stray
    BY DEF Stray
  <2>3. Awaited = 0
    BY <1>1, NobodyAwaits DEF Whole, Awaited
  <2>4. accepted \in Nat /\ faults \in Nat /\ t + s <= ((accepted + faults) + z) + 0
    BY <1>1, <2>1, <2>2, <2>3 DEF Ledger, FiledIsConfirmed
  <2>5. t - z <= accepted + faults
    BY <2>1, <2>2, <2>4, AccountsAgree
  <2> QED BY <2>1, <2>5 DEF Filed
<1>2. Whole /\ Ledger /\ accepted <= Filed => PostsAccounted
  BY <1>1 DEF PostsAccounted
<1> QED BY <1>2, ConversationKept, PostingsKept, AcceptedWasFiled, PTL
=============================================================================
