---------------------------- MODULE Conversation ----------------------------
(***************************************************************************)
(* A reader and the test server at the two ends of a connection: the       *)
(* client of Client, the session of ServerSession, and the callers of      *)
(* OneShot and of the network worker above them.  The server handles a     *)
(* command in one step; the client takes one line at a time; between them  *)
(* the network delays, and the faults a scene allows happen at any moment. *)
(***************************************************************************)
EXTENDS Client, ServerSession, OneShot

CONSTANTS
    Scenes,       \* the servers, profiles, callers, faults and calls to try
    InitialCorpus,\* what the server carries at first
    WorkerCalls,  \* the calls the reader's worker may be asked to make
    MaxDials,     \* bound: connections opened
    MaxFaults     \* bound: things that go wrong

\* A call of a public method: article, head, body and stat are one, and so are
\* next_article and previous_article.
Callable(m) ==
    /\ m.method \in Methods
    /\ m.method = "fetch" => m.verb \in DOMAIN BlockFetchCode \cup {"STAT"}
    /\ m.method = "step" => m.verb \in {"NEXT", "LAST"}
    /\ m.method = "post" => m.arg.groups \in Seq(STRING)

ASSUME ScenesAssumption ==
    /\ \A s \in Scenes :
          /\ s.config \in ServerConfig
          /\ s.profile.user \in Users /\ s.profile.pass \in Users
          /\ s.profile.max_block_lines \in Nat
          /\ s.job.command \in {"worker", "doctor", "groups", "overview", "article"}
          /\ s.job.command = "article" => s.job.part \in DOMAIN BlockFetchCode
    /\ \A m \in WorkerCalls : Callable(m)
    /\ IsCorpus(InitialCorpus)

VARIABLES
    scene,        \* the scene of this behaviour
    todo,         \* a one-shot command's remaining stages
    calls,        \* calls the worker has made
    dials,        \* connections opened so far
    faults,       \* things that have gone wrong so far
    srv,          \* what the session thread is doing
    st,           \* its State
    corpus,       \* the articles, shared by every session
    accepted      \* posts the caller was told were accepted

callerVars == <<scene, todo, calls, dials, faults, accepted>>
serverVars == <<srv, st, corpus>>
vars == <<clientVars, callerVars, serverVars>>

Config == scene.config

Init ==
    /\ scene \in Scenes
    /\ profile = scene.profile
    /\ client = NoClient /\ call = Idle
    /\ outcome = [method |-> "none", cmd |-> Command("", NoArg), result |-> "Ok"]
    /\ cancel = FALSE /\ c2s = <<>> /\ s2c = <<>> /\ closed = FALSE /\ lost = FALSE
    /\ todo = Stages(scene.job)
    /\ calls = 0 /\ dials = 0 /\ faults = 0 /\ accepted = 0
    /\ srv = "off" /\ st = NewSession(Config) /\ corpus = InitialCorpus

-----------------------------------------------------------------------------
(* The caller.                                                             *)

\* The previous session has ended by then: TestServer has two at a time.
MayDial ==
    /\ ~client.up /\ IsIdle /\ srv = "off"
    /\ dials < MaxDials
    /\ IF scene.job.command = "worker" THEN calls < scene.calls ELSE dials = 0

\* connector::connect up to the greeting; implicit TLS is negotiated first.
Dial ==
    /\ MayDial
    /\ LET encrypted == profile.security = "ImplicitTls"
       IN  /\ client' = NewClient(FALSE, encrypted)
           /\ st' = [NewSession(Config) EXCEPT !.encrypted = encrypted]
    /\ call' = [Idle EXCEPT !.method = "connect", !.step = "greeting",
                            !.cmd = Command("greeting", NoArg), !.reading = "status"]
    /\ srv' = "greet"
    /\ dials' = dials + 1
    /\ c2s' = <<>> /\ s2c' = <<>> /\ closed' = FALSE /\ lost' = FALSE
    /\ UNCHANGED <<profile, outcome, cancel, scene, todo, calls, faults, corpus, accepted>>

\* connect_tcp, or the handshake of implicit TLS, fails.
DialFails ==
    /\ MayDial
    /\ faults < MaxFaults /\ "dial" \in scene.faults
    /\ outcome' = [method |-> "connect", cmd |-> Command("", NoArg), result |-> "Io"]
    /\ dials' = dials + 1 /\ faults' = faults + 1
    /\ UNCHANGED <<profile, client, call, cancel, c2s, s2c, closed, lost, scene, todo, calls,
                   accepted, serverVars>>

\* The worker serves a request with the client it has.
WorkerCallsMethod ==
    /\ scene.job.command = "worker"
    /\ calls < scene.calls /\ ~cancel /\ ~IsConnectionFatal(outcome.result)
    /\ calls' = calls + 1
    /\ \E m \in WorkerCalls : Invoke(m)
    /\ UNCHANGED <<scene, todo, dials, faults, accepted, serverVars>>

\* Worker::dispatch: an error that finished the connection takes the client.
WorkerDropsClient ==
    /\ scene.job.command = "worker" /\ IsIdle /\ client.up
    /\ IsConnectionFatal(outcome.result)
    /\ client' = NoClient
    /\ outcome' = [outcome EXCEPT !.result = "Dropped"]
    /\ UNCHANGED <<profile, call, cancel, c2s, s2c, closed, lost, callerVars, serverVars>>

\* Worker::handle: the flag is lowered after every request.
WorkerResets ==
    /\ scene.job.command = "worker" /\ IsIdle /\ cancel
    /\ cancel' = FALSE
    /\ UNCHANGED <<profile, client, call, outcome, c2s, s2c, closed, lost, callerVars, serverVars>>

Running == scene.job.command # "worker" /\ client.up /\ IsIdle

\* The next stage of a one-shot command, and what its result leaves to do.
JobCalls ==
    /\ Running /\ todo # <<>> /\ outcome.method \in {"connect", "reported"}
    /\ Invoke(CallAt(scene.job, Head(todo), client.group))
    /\ UNCHANGED <<callerVars, serverVars>>

JobReturns ==
    /\ scene.job.command # "worker" /\ IsIdle /\ todo # <<>>
    /\ outcome.method \notin {"none", "connect", "reported"}
    /\ todo' = Remaining(scene.job, todo, outcome.result,
                         IF client.up THEN client.group ELSE NoSummary)
    /\ outcome' = [outcome EXCEPT !.method = "reported"]
    /\ UNCHANGED <<profile, client, call, cancel, c2s, s2c, closed, lost, scene, calls, dials,
                   faults, accepted, serverVars>>

\* The function returns and the client goes out of scope.
JobDropsClient ==
    /\ Running /\ todo = <<>>
    /\ client' = NoClient
    /\ UNCHANGED <<profile, call, outcome, cancel, c2s, s2c, closed, lost, callerVars, serverVars>>

\* The reply to a draft reaches the caller.
NoteAccepted ==
    accepted' = IF call.method = "post" /\ IsIdle' /\ outcome'.result = "Ok"
                THEN accepted + 1 ELSE accepted

ClientSteps ==
    /\ ClientReads
    /\ NoteAccepted
    /\ UNCHANGED <<scene, todo, calls, dials, faults, serverVars>>

Caller == \/ Dial \/ WorkerCallsMethod \/ WorkerDropsClient \/ WorkerResets
          \/ JobCalls \/ JobReturns \/ JobDropsClient

-----------------------------------------------------------------------------
(* The server's session thread.                                            *)

Sends(reply, next) ==
    /\ st' = reply.st
    /\ s2c' = s2c \o reply.lines
    /\ srv' = IF reply.flow = "Close" THEN "off" ELSE next
    /\ closed' = (reply.flow = "Close")
    /\ UNCHANGED <<profile, client, call, outcome, cancel, lost, callerVars>>

ServerGreets ==
    /\ srv = "greet"
    /\ Sends(Greet(Config, st), "command")
    /\ UNCHANGED <<c2s, corpus>>

\* command_loop_duplex: one command, its whole reply, and what comes after it.
ServerHandles ==
    /\ srv = "command" /\ c2s # <<>>
    /\ LET reply == Handle(Config, corpus, st, Head(c2s))
       IN  Sends(reply, CASE reply.flow = "UpgradeToTls" -> "tls"
                          [] reply.flow = "ReadArticle" -> "article"
                          [] OTHER -> "command")
    /\ c2s' = Tail(c2s)
    /\ UNCHANGED corpus

\* read_article takes whatever comes for a line of the article, up to the dot that
\* ends the block a client sends after a 340.
ServerTakesLine ==
    /\ srv = "article" /\ c2s # <<>> /\ Head(c2s).verb # "article"
    /\ c2s' = Tail(c2s)
    /\ UNCHANGED <<profile, client, call, outcome, cancel, s2c, closed, lost, callerVars,
                   serverVars>>

ServerTakesArticle ==
    /\ srv = "article" /\ c2s # <<>> /\ Head(c2s).verb = "article"
    /\ Sends(AcceptArticle(Config, corpus, st, Head(c2s).arg), "command")
    /\ corpus' = CorpusAfter(Config, corpus, st, Head(c2s).arg)
    /\ c2s' = Tail(c2s)

\* End of input: the client is gone, and nothing it sent is left to handle.
ServerSeesEnd ==
    /\ srv # "off" /\ ~client.up /\ c2s = <<>>
    /\ srv' = "off" /\ closed' = TRUE
    /\ UNCHANGED <<profile, client, call, outcome, cancel, c2s, s2c, lost, callerVars, st, corpus>>

ServerStep == ServerGreets \/ ServerHandles \/ ServerTakesLine \/ ServerTakesArticle \/ ServerSeesEnd

-----------------------------------------------------------------------------
(* STARTTLS: both ends take part in the handshake.                         *)

TlsReady == call.reading = "handshake" /\ srv = "tls"

\* upgrade_with_starttls after its checks, and server::upgrade.  Whatever was
\* learned in the clear is forgotten; there is no second greeting.
Upgrade ==
    /\ TlsReady /\ s2c = <<>>
    /\ Handshaken
    /\ srv' = "command" /\ st' = [st EXCEPT !.encrypted = TRUE]
    /\ UNCHANGED <<profile, cancel, s2c, closed, lost, callerVars, corpus>>

\* A handshake that meets anything else fails, and both ends close.
UpgradeFails ==
    /\ call.reading = "handshake"
    /\ \/ s2c # <<>> /\ faults' = faults
       \/ srv = "off" /\ faults' = faults
       \/ s2c = <<>> /\ srv = "tls" /\ "tls" \in scene.faults /\ faults < MaxFaults
          /\ faults' = faults + 1
    /\ Return(client, "Tls")
    /\ srv' = "off" /\ closed' = TRUE
    /\ UNCHANGED <<profile, cancel, s2c, lost, scene, todo, calls, dials, accepted, st, corpus>>

-----------------------------------------------------------------------------
(* What goes wrong.                                                        *)

Fault(kind) ==
    /\ kind \in scene.faults /\ faults < MaxFaults
    /\ faults' = faults + 1
    /\ UNCHANGED <<scene, todo, calls, dials, accepted>>

\* The reply takes longer than the read timeout, or the network drops the link.
Times == Fault("timeout") /\ ReadTimeout /\ UNCHANGED serverVars

\* Both ends wait for the other: only the timeout is left.
GivesUp ==
    /\ srv \in {"command", "article", "tls"} /\ c2s = <<>>
    /\ ReadTimeout
    /\ UNCHANGED <<callerVars, serverVars>>

Resets == Fault("reset") /\ ReadReset /\ UNCHANGED serverVars

\* The user asks for the block to be abandoned.
Cancels ==
    /\ Fault("cancel") /\ scene.job.command = "worker" /\ ~IsIdle /\ ~cancel
    /\ cancel' = TRUE
    /\ UNCHANGED <<profile, client, call, outcome, c2s, s2c, closed, lost, serverVars>>

\* server::serve: the client was silent for too long.  Over plain TCP the server
\* says so; over TLS it just goes.
Idles ==
    /\ Fault("idle") /\ srv \in {"command", "article", "tls"} /\ c2s = <<>>
    /\ srv' = "off" /\ closed' = TRUE
    /\ s2c' = IF st.encrypted \/ srv = "tls" THEN s2c ELSE Append(s2c, Status(400, NoArg))
    /\ UNCHANGED <<profile, client, call, outcome, cancel, c2s, lost, st, corpus>>

\* Something follows the 382 in the clear.
Chatters ==
    /\ Fault("chatty") /\ srv = "tls"
    /\ s2c' = Append(s2c, Data(Label("injected")))
    /\ UNCHANGED <<profile, client, call, outcome, cancel, c2s, closed, lost, serverVars>>

GoesWrong == DialFails \/ Times \/ GivesUp \/ Resets \/ Cancels \/ Idles \/ Chatters

\* Everyone has stopped: the caller is done, or a bound is reached.
Finished ==
    /\ IsIdle /\ ~cancel
    /\ \/ srv = "off" /\ ~client.up
       \/ calls = scene.calls /\ client.up /\ ~IsConnectionFatal(outcome.result)
    /\ UNCHANGED vars

Next ==
    \/ Caller \/ ClientSteps \/ ServerStep \/ Upgrade \/ UpgradeFails \/ GoesWrong
    \/ Finished

Spec == Init /\ [][Next]_vars

\* The client's thread reads what has arrived, the session thread handles what it
\* is sent, and a handshake both take part in comes to an end.  The read timeout
\* is left out: no call may depend on it.
FairSpec ==
    /\ Spec
    /\ WF_vars(ClientSteps) /\ WF_vars(ServerStep) /\ WF_vars(Upgrade \/ UpgradeFails)

-----------------------------------------------------------------------------
(* Properties.                                                             *)

Results == FatalErrors \cup ServerErrors \cup {"Ok", "Dropped"}

\* The type invariant: the client, the call in progress, the outcome and the
\* server's State are among the values the code's types allow.
TypeOK ==
    /\ scene \in Scenes
    /\ client.up \in BOOLEAN
    /\ client.up => /\ client.overview_style \in {"Unknown", "Over", "XOver", "Unavailable"}
                    /\ client.header_style \in {"Unknown", "Hdr", "XHdr", "Unavailable"}
                    /\ client.overview_fmt \in {"unknown", "served", "standard"}
    /\ call.reading \in {"nothing", "status", "block", "refused", "handshake"}
    /\ outcome.result \in Results
    /\ srv \in {"off", "greet", "command", "article", "tls"}
    /\ st.pending_user \in Users
    /\ Len(call.got) <= profile.max_block_lines

\* A client its caller may use again, whose reads have all succeeded.
Sound == client.up /\ IsIdle /\ ~lost

\* Between two calls nothing is left over: no command unanswered, no line unread
\* but the announcement that the server is closing, and the server is waiting
\* for a command.  Client's methods have to read every reply to its last line
\* on every path that does not give up the connection.
InStep ==
    Sound => \/ closed
             \/ c2s = <<>> /\ s2c = <<>> /\ srv = "command"

\* What the client believes of the session is so.  The group it takes to be
\* selected is the one the server answers about, whatever mix of GROUP, LISTGROUP
\* and refusals came before (select_group, article_numbers); it takes itself to be
\* logged in exactly when the server does, over a STARTTLS upgrade, a refused
\* password and the capability refresh that follows (authenticate); and as the
\* server always serves the X forms, a refused range, a missing group or a verb
\* advertised and not there never makes it give overview or header lines up for
\* the session (overview_streaming, header_field_streaming).
BeliefsAgree ==
    /\ (Sound /\ ~closed) => /\ client.group.name = st.current_group
                             /\ client.authenticated = st.authenticated
    /\ (client.up /\ ~lost) => /\ client.overview_style # "Unavailable"
                               /\ client.header_style # "Unavailable"

\* Credentials are on the wire only if it is encrypted or the user allowed it
\* (authenticate, through whichever way the connection was opened).
NoPlainCredentials ==
    (\E i \in DOMAIN c2s : c2s[i].verb = "AUTHINFO") =>
        st.encrypted \/ profile.allow_plaintext

\* What was learned before the TLS handshake is not used after it: the client's
\* idea of the server never holds STARTTLS, which only a list read in the clear
\* can hold, and both ends agree that the link is encrypted.
ClearForgotten ==
    (client.up /\ client.encrypted) =>
        "STARTTLS" \notin client.capabilities /\ st.encrypted

\* Articles filed since the start, over all groups.
Filed == Total(corpus) - Total(InitialCorpus)

\* Every post the caller was told was accepted is in the corpus, and an article
\* in the corpus the caller was not told of took a fault to lose the reply: with
\* none, what post() returned is what the server did.
PostsAccounted ==
    /\ accepted <= Filed
    /\ IsIdle => Filed <= accepted + faults

\* Nobody waits for the other for ever: every call on a connection whose reads have
\* succeeded so far returns without the help of the read timeout, whatever the
\* server's quirks are and whatever goes wrong during the call.
CallsEnd == (~IsIdle /\ ~lost) ~> IsIdle

\* Replies the server owes or has sent and nobody has read.
Owed == Cardinality({i \in DOMAIN c2s : c2s[i].verb # "article"})
          + Cardinality({i \in DOMAIN s2c : s2c[i].kind = "status"})

\* What is_connection_fatal documents ("continuing would read one response as
\* another"): while a reply is awaited on an open connection, at most one is on
\* its way, so the reply read next is the reply to the command sent last.
OneReplyOwed == (call.reading = "status" /\ ~closed) => Owed <= 1

=============================================================================
