----------------------------- MODULE TestServer -----------------------------
(***************************************************************************)
(* The test server as threads: the accept loop, one thread per session,    *)
(* and whoever shuts the server down.  The sessions share the corpus,      *)
(* behind a read-write lock, and the postbox, behind a mutex.  A command's *)
(* effect on a session is ServerSession's; what is added here is when its  *)
(* locks are held, and that its reply takes time to write.                 *)
(***************************************************************************)
EXTENDS ServerSession

CONSTANTS
    Clients,       \* the connections that may arrive
    Config,        \* the ServerConfig they share
    InitialCorpus, \* what the server carries at first
    Commands,      \* the commands clients send
    Articles,      \* the articles clients post
    MaxCommands    \* bound: commands per session

\* STARTTLS takes a session to another stream, in Conversation.
ASSUME PlainAssumption == ~Config.starttls

ASSUME ServerAssumption ==
    /\ IsFiniteSet(Clients)
    /\ IsCorpus(InitialCorpus)
    /\ \A a \in Articles : a.groups \in Seq(STRING)

VARIABLES
    loop,          \* where the accept loop is
    stop,          \* the stop flag
    handles,       \* the session threads it will join
    sess,          \* the session of each connection
    corpus,        \* the shared corpus
    postbox        \* what posted() returns: who posted, in order

vars == <<loop, stop, handles, sess, corpus, postbox>>

\* A session thread: what it is doing, its State, whether it is holding the
\* corpus for reading, and the article it is about to file.
Unborn == [phase |-> "absent", st |-> NewSession(Config), guard |-> FALSE,
           flow |-> "Continue", article |-> NoArg]

Phases == {"absent", "waiting", "greeting", "ready", "writing", "reading", "filing",
           "boxing", "ended"}

Init ==
    /\ loop = "check" /\ stop = FALSE /\ handles = {}
    /\ sess = [c \in Clients |-> Unborn]
    /\ corpus = InitialCorpus /\ postbox = <<>>

-----------------------------------------------------------------------------
(* The accept loop and its end.                                            *)

\* A client connects: the listener queues it whether or not anyone accepts.
Connect(c) ==
    /\ sess[c].phase = "absent"
    /\ sess' = [sess EXCEPT ![c].phase = "waiting"]
    /\ UNCHANGED <<loop, stop, handles, corpus, postbox>>

Queued == {c \in Clients : sess[c].phase = "waiting"}

LoopChecks ==
    /\ loop = "check"
    /\ loop' = IF stop THEN "join" ELSE "accept"
    /\ UNCHANGED <<stop, handles, sess, corpus, postbox>>

\* accept() returned a connection: a thread of its own serves it.
LoopAccepts(c) ==
    /\ loop = "accept" /\ c \in Queued
    /\ sess' = [sess EXCEPT ![c].phase = "greeting"]
    /\ handles' = handles \cup {c}
    /\ loop' = "retain"
    /\ UNCHANGED <<stop, corpus, postbox>>

\* No thread could be had: the connection is dropped and the loop goes on.
LoopSpawnFails(c) ==
    /\ loop = "accept" /\ c \in Queued
    /\ sess' = [sess EXCEPT ![c].phase = "ended"]
    /\ loop' = "retain"
    /\ UNCHANGED <<stop, handles, corpus, postbox>>

\* Nothing to accept, then a pause.
LoopSleeps ==
    /\ loop = "accept" /\ Queued = {}
    /\ loop' = "retain"
    /\ UNCHANGED <<stop, handles, sess, corpus, postbox>>

\* accept() failed: the loop is left.
LoopBreaks ==
    /\ loop = "accept"
    /\ loop' = "join"
    /\ UNCHANGED <<stop, handles, sess, corpus, postbox>>

Over(c) == sess[c].phase = "ended"

\* Mutant: the condition of retain the wrong way round.
RetainFinished ==
    /\ loop = "retain"
    /\ handles' = {c \in handles : Over(c)}
    /\ loop' = "check"
    /\ UNCHANGED <<stop, sess, corpus, postbox>>

\* The handles of threads that have finished are dropped.
LoopRetains ==
    /\ loop = "retain"
    /\ handles' = {c \in handles : ~Over(c)}
    /\ loop' = "check"
    /\ UNCHANGED <<stop, sess, corpus, postbox>>

LoopJoins ==
    /\ loop = "join" /\ \A c \in handles : Over(c)
    /\ loop' = "ended"
    /\ UNCHANGED <<stop, handles, sess, corpus, postbox>>

\* shutdown, or the server going out of scope.
StopAndJoin ==
    /\ ~stop
    /\ stop' = TRUE
    /\ UNCHANGED <<loop, handles, sess, corpus, postbox>>

Loop == LoopChecks \/ (\E c \in Clients : LoopAccepts(c)) \/ LoopSleeps \/ LoopRetains \/ LoopJoins

-----------------------------------------------------------------------------
(* A session thread.                                                       *)

Goes(c, reply) ==
    sess' = [sess EXCEPT ![c].phase = "writing", ![c].st = reply.st,
                         ![c].guard = reply.guard, ![c].flow = reply.flow]

SessionGreets(c) ==
    /\ sess[c].phase = "greeting"
    /\ Goes(c, Greet(Config, sess[c].st))
    /\ UNCHANGED <<loop, stop, handles, corpus, postbox>>

\* One command: the corpus is read under the lock, which is free again before
\* the reply is written, but for the replies written under the guard.
SessionHandles(c, cmd) ==
    /\ sess[c].phase = "ready" /\ sess[c].st.commands_served < MaxCommands
    /\ Goes(c, Handle(Config, corpus, sess[c].st, cmd))
    /\ UNCHANGED <<loop, stop, handles, corpus, postbox>>

AfterReply(c) ==
    CASE sess[c].flow = "ReadArticle" -> "reading"
      [] sess[c].flow = "Continue" -> "ready"
      [] OTHER -> "ended"

\* Mutant: the guard outlives the reply.
SessionWritesHolding(c) ==
    /\ sess[c].phase = "writing"
    /\ \E next \in {AfterReply(c), "ended"} : sess' = [sess EXCEPT ![c].phase = next]
    /\ UNCHANGED <<loop, stop, handles, corpus, postbox>>

\* The last byte is written, and the guard, if any, is dropped.  A client that
\* does not read is given up when the write timeout expires.
SessionWrites(c) ==
    /\ sess[c].phase = "writing"
    /\ \E next \in {AfterReply(c), "ended"} :
           sess' = [sess EXCEPT ![c].phase = next, ![c].guard = FALSE]
    /\ UNCHANGED <<loop, stop, handles, corpus, postbox>>

\* read_article, up to the dot or to the end of input: what has arrived by then
\* is the article.
SessionReads(c, article) ==
    /\ sess[c].phase = "reading"
    /\ sess' = [sess EXCEPT ![c].phase = "filing", ![c].article = article]
    /\ UNCHANGED <<loop, stop, handles, corpus, postbox>>

Held == {c \in Clients : sess[c].guard}

\* Mutant: every article offered goes to the postbox.
SessionFilesAll(c) ==
    /\ sess[c].phase = "filing" /\ Held = {}
    /\ corpus' = CorpusAfter(Config, corpus, sess[c].st, sess[c].article)
    /\ sess' = [sess EXCEPT ![c].phase = "boxing"]
    /\ UNCHANGED <<loop, stop, handles, postbox>>

\* The write lock waits for every guard.
SessionFiles(c) ==
    /\ sess[c].phase = "filing" /\ Held = {}
    /\ corpus' = CorpusAfter(Config, corpus, sess[c].st, sess[c].article)
    /\ IF Acceptable(Config, corpus, sess[c].article)
       THEN sess' = [sess EXCEPT ![c].phase = "boxing"]
       ELSE Goes(c, AcceptArticle(Config, corpus, sess[c].st, sess[c].article))
    /\ UNCHANGED <<loop, stop, handles, postbox>>

\* The postbox has a lock of its own, taken after the other is released.
SessionBoxes(c) ==
    /\ sess[c].phase = "boxing"
    /\ postbox' = Append(postbox, c)
    /\ Goes(c, AcceptArticle(Config, corpus, sess[c].st, sess[c].article))
    /\ UNCHANGED <<loop, stop, handles, corpus>>

\* Mutant: no timeout while an article is being read.
SessionEndsReady(c) ==
    /\ sess[c].phase = "ready"
    /\ sess' = [sess EXCEPT ![c].phase = "ended"]
    /\ UNCHANGED <<loop, stop, handles, corpus, postbox>>

\* The client leaves, or says nothing for as long as the idle timeout allows.
SessionEnds(c) ==
    /\ sess[c].phase \in {"ready", "reading"}
    /\ sess' = [sess EXCEPT ![c].phase = "ended"]
    /\ UNCHANGED <<loop, stop, handles, corpus, postbox>>

Working(c) == SessionGreets(c) \/ SessionWrites(c) \/ SessionFiles(c) \/ SessionBoxes(c)

Busy(c) ==
    \/ \E cmd \in Commands : SessionHandles(c, cmd)
    \/ \E article \in Articles : SessionReads(c, article)

Finished ==
    /\ loop = "ended" /\ stop
    /\ UNCHANGED vars

Next ==
    \/ Loop \/ LoopBreaks \/ StopAndJoin \/ Finished
    \/ \E c \in Clients : Connect(c) \/ LoopSpawnFails(c) \/ Working(c) \/ Busy(c) \/ SessionEnds(c)

Spec == Init /\ [][Next]_vars

\* Threads run, a lock that is free is granted, and the socket timeouts end a
\* session whose client does nothing.
FairSpec ==
    /\ Spec
    /\ WF_vars(Loop)
    /\ \A c \in Clients : WF_vars(Working(c)) /\ WF_vars(SessionEnds(c))

-----------------------------------------------------------------------------
(* Properties.                                                             *)

\* What has been filed keeps its number and stays: a posting from one session never
\* replaces an article another session can see (Corpus::inject numbers past the
\* highest, gaps included).
FiledStays ==
    [][\A i \in DOMAIN corpus : \A n \in Numbers(corpus[i]) :
           n \in Numbers(corpus'[i]) /\ corpus'[i].articles[n] = corpus[i].articles[n]]_vars

\* The postbox holds an article for each one filed, bar those whose session is
\* between the two locks, and never one that was refused.
PostboxAgrees ==
    Total(corpus) - Total(InitialCorpus) =
        Len(postbox) + Cardinality({c \in Clients : sess[c].phase = "boxing"})

\* The accept loop ends only after every session it accepted, which is what keeps a
\* client's last read from racing the shutdown.
JoinedAll ==
    loop = "ended" => \A c \in Clients : sess[c].phase \in {"absent", "waiting", "ended"}

\* Shutting down ends: no session, holding a lock or waiting for one, keeps the
\* accept loop from its join.
ShutdownEnds == stop ~> loop = "ended"

\* A client that has sent its article is answered, whatever the other sessions hold.
PostsAnswered == \A c \in Clients : sess[c].phase = "filing" ~> sess[c].phase # "filing"

=============================================================================
