----------------------------- MODULE ServerProofs -----------------------------
(***************************************************************************)
(* What the test server keeps whatever its clients do: a filed article     *)
(* stays where it was filed, the postbox agrees with the corpus, and the   *)
(* accept loop ends after every session it accepted.                       *)
(***************************************************************************)
EXTENDS TestServer, SessionProofs

-------------------------------------------------------------------------------
(* The sessions.                                                               *)

Shaped(s) ==
    s = [phase |-> s.phase, st |-> s.st, guard |-> s.guard, flow |-> s.flow, article |-> s.article]

\* A session's thread: it is somewhere in its life, and what it is about to file is an
\* article it was sent.
IsSession(s) ==
    /\ Shaped(s)
    /\ s.phase \in Phases
    /\ s.phase \in {"filing", "boxing"} => s.article \in Articles

SessionsOK == sess = [c \in Clients |-> sess[c]] /\ \A c \in Clients : IsSession(sess[c])

\* One session has moved on and the others have not.
Moved(c, p) ==
    /\ SessionsOK'
    /\ sess'[c].phase = p
    /\ \A d \in Clients : d # c => sess'[d] = sess[d]

\* A session, field by field.
Session(p, t, g, f, a) == [phase |-> p, st |-> t, guard |-> g, flow |-> f, article |-> a]

\* The fields that are set together, one after the other.
Going(s, p, t, g, f) == [s EXCEPT !.phase = p, !.st = t, !.guard = g, !.flow = f]
Written(s, p, g) == [s EXCEPT !.phase = p, !.guard = g]
Given(s, p, a) == [s EXCEPT !.phase = p, !.article = a]

\* What the steps change of a session, written out.
LEMMA FieldsSet ==
    ASSUME NEW s, Shaped(s), NEW p, NEW t, NEW g, NEW f, NEW a
    PROVE  /\ Going(s, p, t, g, f) = Session(p, t, g, f, s.article)
           /\ Written(s, p, g) = Session(p, s.st, g, s.flow, s.article)
           /\ Given(s, p, a) = Session(p, s.st, s.guard, s.flow, a)
PROOF
<1>1. PICK v, w, x, y, z : s = Session(v, w, x, y, z)
  BY DEF Shaped, Session
<1>2. s.st = w /\ s.guard = x /\ s.flow = y /\ s.article = z
  BY <1>1 DEF Session
<1> DEFINE s1 == [s EXCEPT !.phase = p]
           s2 == [s1 EXCEPT !.st = t]
           s3 == [s2 EXCEPT !.guard = g]
           s4 == [s3 EXCEPT !.flow = f]
           s5 == [s1 EXCEPT !.guard = g]
           s6 == [s1 EXCEPT !.article = a]
<1>3. Going(s, p, t, g, f) = s4 /\ Written(s, p, g) = s5 /\ Given(s, p, a) = s6
  BY DEF Going, Written, Given
<1>4. s1 = Session(p, w, x, y, z)
  BY <1>1 DEF Session
<1>5. s2 = Session(p, t, x, y, z)
  <2> HIDE DEF s1
  <2> QED BY <1>4 DEF Session
<1>6. s3 = Session(p, t, g, y, z)
  <2> HIDE DEF s2
  <2> QED BY <1>5 DEF Session
<1>7. s4 = Session(p, t, g, f, z)
  <2> HIDE DEF s3
  <2> QED BY <1>6 DEF Session
<1>8. s5 = Session(p, w, g, y, z)
  <2> HIDE DEF s1
  <2> QED BY <1>4 DEF Session
<1>9. s6 = Session(p, w, x, y, a)
  <2> HIDE DEF s1
  <2> QED BY <1>4 DEF Session
<1> HIDE DEF s1, s2, s3, s4, s5, s6
<1> QED BY <1>2, <1>3, <1>7, <1>8, <1>9

\* One session replaced.
LEMMA Replaced ==
    ASSUME SessionsOK, NEW c \in Clients, NEW r, IsSession(r), sess' = [sess EXCEPT ![c] = r]
    PROVE  Moved(c, r.phase)
PROOF
<1>1. sess' = [d \in Clients |-> IF d = c THEN r ELSE sess[d]]
  BY DEF SessionsOK
<1>2. sess'[c] = r /\ \A d \in Clients : d # c => sess'[d] = sess[d]
  BY <1>1
<1>3. sess' = [d \in Clients |-> sess'[d]]
  BY <1>1
<1>4. \A d \in Clients : IsSession(sess'[d])
  BY <1>2 DEF SessionsOK
<1> QED BY <1>2, <1>3, <1>4 DEF Moved, SessionsOK

\* A session of which only the phase changes.
LEMMA PhaseMoves ==
    ASSUME SessionsOK, NEW c \in Clients, NEW p \in Phases,
           p \in {"filing", "boxing"} => sess[c].article \in Articles,
           sess' = [sess EXCEPT ![c].phase = p]
    PROVE  Moved(c, p)
PROOF
<1> DEFINE r == [sess[c] EXCEPT !.phase = p]
<1>1. Shaped(sess[c])
  BY DEF SessionsOK, IsSession
<1>2. r = [phase |-> p, st |-> sess[c].st, guard |-> sess[c].guard, flow |-> sess[c].flow,
           article |-> sess[c].article]
  BY <1>1 DEF Shaped
<1>3. Shaped(r) /\ r.phase = p /\ r.article = sess[c].article
  BY <1>2 DEF Shaped
<1>4. sess' = [sess EXCEPT ![c] = r]
  BY DEF SessionsOK
<1> HIDE DEF r
<1>5. IsSession(r)
  BY <1>3 DEF IsSession
<1> QED BY <1>3, <1>4, <1>5, Replaced

\* A session that has a reply to write.
LEMMA GoesMoves ==
    ASSUME SessionsOK, NEW c \in Clients, NEW reply, Goes(c, reply)
    PROVE  Moved(c, "writing")
PROOF
<1> DEFINE r == Session("writing", reply.st, reply.guard, reply.flow, sess[c].article)
<1>1. Shaped(sess[c])
  BY DEF SessionsOK, IsSession
<1>2. sess' = [sess EXCEPT ![c] = r]
  <2>1. sess = [d \in Clients |-> sess[d]]
    BY DEF SessionsOK
  <2> DEFINE q == Going(sess[c], "writing", reply.st, reply.guard, reply.flow)
  <2>2. q = r
    BY <1>1, FieldsSet
  <2>3. sess' = [sess EXCEPT ![c] = q]
    BY <2>1 DEF Goes, Going
  <2> HIDE DEF q, r
  <2> QED BY <2>2, <2>3
<1>3. Shaped(r) /\ r.phase = "writing"
  BY DEF Shaped, Session
<1> HIDE DEF r
<1>4. IsSession(r)
  BY <1>3 DEF IsSession, Phases
<1> QED BY <1>2, <1>3, <1>4, Replaced

\* After the reply a session is ready, has an article to read, or is over.
LEMMA WritesMoves ==
    ASSUME SessionsOK, NEW c \in Clients, SessionWrites(c)
    PROVE  \E p \in {"ready", "reading", "ended"} : Moved(c, p)
PROOF
<1>1. Shaped(sess[c])
  BY DEF SessionsOK, IsSession
<1>2. PICK p \in {AfterReply(c), "ended"} : sess' = [sess EXCEPT ![c].phase = p, ![c].guard = FALSE]
  BY DEF SessionWrites
<1>3. p \in {"ready", "reading", "ended"}
  BY <1>2 DEF AfterReply
<1> DEFINE r == Session(p, sess[c].st, FALSE, sess[c].flow, sess[c].article)
<1>4. sess' = [sess EXCEPT ![c] = r]
  <2>1. sess = [d \in Clients |-> sess[d]]
    BY DEF SessionsOK
  <2> DEFINE q == Written(sess[c], p, FALSE)
  <2>2. q = r
    BY <1>1, FieldsSet
  <2>3. sess' = [sess EXCEPT ![c] = q]
    BY <1>2, <2>1 DEF Written
  <2> HIDE DEF q, r
  <2> QED BY <2>2, <2>3
<1>5. Shaped(r) /\ r.phase = p
  BY DEF Shaped, Session
<1> HIDE DEF r
<1>6. IsSession(r)
  BY <1>3, <1>5 DEF IsSession, Phases
<1>7. Moved(c, p)
  BY <1>4, <1>5, <1>6, Replaced
<1> QED BY <1>3, <1>7

\* The article that has arrived is the one to file.
LEMMA ReadsMoves ==
    ASSUME SessionsOK, NEW c \in Clients, NEW article \in Articles, SessionReads(c, article)
    PROVE  Moved(c, "filing")
PROOF
<1>1. Shaped(sess[c])
  BY DEF SessionsOK, IsSession
<1> DEFINE r == Session("filing", sess[c].st, sess[c].guard, sess[c].flow, article)
<1>4. sess' = [sess EXCEPT ![c] = r]
  <2>1. sess = [d \in Clients |-> sess[d]]
    BY DEF SessionsOK
  <2> DEFINE q == Given(sess[c], "filing", article)
  <2>2. q = r
    BY <1>1, FieldsSet
  <2>3. sess' = [sess EXCEPT ![c] = q]
    BY <2>1 DEF SessionReads, Given
  <2> HIDE DEF q, r
  <2> QED BY <2>2, <2>3
<1>5. Shaped(r) /\ r.phase = "filing" /\ r.article = article
  BY DEF Shaped, Session
<1> HIDE DEF r
<1>6. IsSession(r)
  BY <1>5 DEF IsSession, Phases
<1> QED BY <1>4, <1>5, <1>6, Replaced
\* What a step does to the sessions: the phase one of them is found in and the one it
\* is left in.
Steps(c, p, q) == sess[c].phase = p /\ Moved(c, q)

(***************************************************************************)
(* Every step leaves the sessions alone or takes one of them on.           *)
(***************************************************************************)
LEMMA EveryStep ==
    ASSUME SessionsOK, [Next]_vars
    PROVE  \/ /\ sess' = sess /\ corpus' = corpus /\ postbox' = postbox
              /\ \/ handles' = handles /\ loop' \in {loop, "accept", "join"} /\ loop # "ended"
                 \/ handles' = handles /\ loop' = loop
                 \/ handles' = {c \in handles : ~Over(c)} /\ loop' = "check"
                 \/ LoopSleeps \/ LoopJoins
           \/ \E c \in Clients : Connect(c) /\ Steps(c, "absent", "waiting")
           \/ \E c \in Clients : LoopAccepts(c) /\ Steps(c, "waiting", "greeting")
           \/ \E c \in Clients : LoopSpawnFails(c) /\ Steps(c, "waiting", "ended")
           \/ \E c \in Clients :
                 /\ loop' = loop /\ handles' = handles /\ corpus' = corpus /\ postbox' = postbox
                 /\ \/ \E p \in {"greeting", "ready"} : Steps(c, p, "writing")
                    \/ \E q \in {"ready", "reading", "ended"} : Steps(c, "writing", q)
                    \/ Steps(c, "reading", "filing")
                    \/ \E p \in {"ready", "reading"} : Steps(c, p, "ended")
           \/ \E c \in Clients : /\ SessionFiles(c) /\ Acceptable(Config, corpus, sess[c].article)
                                 /\ Steps(c, "filing", "boxing")
           \/ \E c \in Clients : /\ SessionFiles(c) /\ ~Acceptable(Config, corpus, sess[c].article)
                                 /\ Steps(c, "filing", "writing")
           \/ \E c \in Clients : SessionBoxes(c) /\ Steps(c, "boxing", "writing")
PROOF
<1>1. CASE UNCHANGED vars
  BY <1>1 DEF vars
<1>2. CASE Finished
  BY <1>2 DEF Finished, vars
<1>3. CASE LoopChecks
  BY <1>3 DEF LoopChecks
<1>4. ASSUME NEW c \in Clients, LoopAccepts(c)
      PROVE  LoopAccepts(c) /\ Steps(c, "waiting", "greeting")
  <2>1. sess[c].phase = "waiting" /\ sess' = [sess EXCEPT ![c].phase = "greeting"]
    BY <1>4 DEF LoopAccepts, Queued
  <2> QED BY <1>4, <2>1, PhaseMoves DEF Steps, Phases
<1>5. CASE LoopSleeps
  BY <1>5 DEF LoopSleeps
<1>6. CASE LoopRetains
  BY <1>6 DEF LoopRetains
<1>7. CASE LoopJoins
  BY <1>7 DEF LoopJoins
<1>8. CASE LoopBreaks
  BY <1>8 DEF LoopBreaks
<1>9. CASE StopAndJoin
  BY <1>9 DEF StopAndJoin
<1>10. ASSUME NEW c \in Clients, Connect(c)
       PROVE  Connect(c) /\ Steps(c, "absent", "waiting")
  <2>1. sess[c].phase = "absent" /\ sess' = [sess EXCEPT ![c].phase = "waiting"]
    BY <1>10 DEF Connect
  <2> QED BY <1>10, <2>1, PhaseMoves DEF Steps, Phases
<1>11. ASSUME NEW c \in Clients, LoopSpawnFails(c)
       PROVE  LoopSpawnFails(c) /\ Steps(c, "waiting", "ended")
  <2>1. sess[c].phase = "waiting" /\ sess' = [sess EXCEPT ![c].phase = "ended"]
    BY <1>11 DEF LoopSpawnFails, Queued
  <2> QED BY <1>11, <2>1, PhaseMoves DEF Steps, Phases
<1>12. ASSUME NEW c \in Clients, SessionGreets(c)
       PROVE  /\ Steps(c, "greeting", "writing")
              /\ loop' = loop /\ handles' = handles /\ corpus' = corpus /\ postbox' = postbox
  BY <1>12, GoesMoves DEF SessionGreets, Steps
<1>13. ASSUME NEW c \in Clients, NEW cmd, SessionHandles(c, cmd)
       PROVE  /\ Steps(c, "ready", "writing")
              /\ loop' = loop /\ handles' = handles /\ corpus' = corpus /\ postbox' = postbox
  BY <1>13, GoesMoves DEF SessionHandles, Steps
<1>14. ASSUME NEW c \in Clients, SessionWrites(c)
       PROVE  /\ \E q \in {"ready", "reading", "ended"} : Steps(c, "writing", q)
              /\ loop' = loop /\ handles' = handles /\ corpus' = corpus /\ postbox' = postbox
  <2>1. \E q \in {"ready", "reading", "ended"} : Moved(c, q)
    BY <1>14, WritesMoves
  <2> QED BY <1>14, <2>1 DEF SessionWrites, Steps
<1>15. ASSUME NEW c \in Clients, NEW article \in Articles, SessionReads(c, article)
       PROVE  /\ Steps(c, "reading", "filing")
              /\ loop' = loop /\ handles' = handles /\ corpus' = corpus /\ postbox' = postbox
  <2>1. Moved(c, "filing")
    BY <1>15, ReadsMoves
  <2> QED BY <1>15, <2>1 DEF SessionReads, Steps
<1>16. ASSUME NEW c \in Clients, SessionFiles(c), Acceptable(Config, corpus, sess[c].article)
       PROVE  Steps(c, "filing", "boxing")
  <2>1. sess[c].phase = "filing" /\ sess' = [sess EXCEPT ![c].phase = "boxing"]
    BY <1>16 DEF SessionFiles
  <2>2. sess[c].article \in Articles
    BY <2>1 DEF SessionsOK, IsSession
  <2> QED BY <2>1, <2>2, PhaseMoves DEF Steps, Phases
<1>17. ASSUME NEW c \in Clients, SessionFiles(c), ~Acceptable(Config, corpus, sess[c].article)
       PROVE  Steps(c, "filing", "writing")
  BY <1>17, GoesMoves DEF SessionFiles, Steps
<1>18. ASSUME NEW c \in Clients, SessionBoxes(c)
       PROVE  Steps(c, "boxing", "writing")
  BY <1>18, GoesMoves DEF SessionBoxes, Steps
<1>19. ASSUME NEW c \in Clients, SessionEnds(c)
       PROVE  /\ \E p \in {"ready", "reading"} : Steps(c, p, "ended")
              /\ loop' = loop /\ handles' = handles /\ corpus' = corpus /\ postbox' = postbox
  <2>1. sess[c].phase \in {"ready", "reading"} /\ sess' = [sess EXCEPT ![c].phase = "ended"]
    BY <1>19 DEF SessionEnds
  <2>2. Moved(c, "ended")
    BY <2>1, PhaseMoves DEF Phases
  <2> QED BY <1>19, <2>1, <2>2 DEF SessionEnds, Steps
<1> QED
  BY <1>1, <1>2, <1>3, <1>4, <1>5, <1>6, <1>7, <1>8, <1>9, <1>10, <1>11, <1>12, <1>13, <1>14,
     <1>15, <1>16, <1>17, <1>18, <1>19
     DEF Next, Loop, Working, Busy
\* The sessions are sessions to begin with.
LEMMA SessionsBegin ==
    ASSUME Init
    PROVE  SessionsOK /\ \A c \in Clients : sess[c].phase = "absent"
PROOF
<1>1. sess = [c \in Clients |-> Unborn]
  BY DEF Init
<1>2. IsSession(Unborn) /\ Unborn.phase = "absent"
  BY DEF IsSession, Shaped, Unborn, Phases
<1>3. \A c \in Clients : sess[c] = Unborn
  BY <1>1
<1>4. sess = [c \in Clients |-> sess[c]]
  BY <1>1
<1> QED BY <1>2, <1>3, <1>4 DEF SessionsOK

\* They stay sessions.
LEMMA SessionsStay ==
    ASSUME SessionsOK, [Next]_vars
    PROVE  SessionsOK'
PROOF
<1>1. ASSUME sess' = sess PROVE SessionsOK'
  BY <1>1 DEF SessionsOK
<1>2. ASSUME NEW c \in Clients, NEW p, NEW q, Steps(c, p, q) PROVE SessionsOK'
  BY <1>2 DEF Steps, Moved
<1> QED BY <1>1, <1>2, EveryStep

-------------------------------------------------------------------------------
(* Who is joined.                                                              *)

\* A session the accept loop has accepted and that is not over.
Alive(c) == sess[c].phase \notin {"absent", "waiting", "ended"}

\* Every session alive has its handle kept, and the loop ends when no handle is of
\* one that is alive.
Handled ==
    /\ handles \subseteq Clients
    /\ \A c \in Clients : Alive(c) => c \in handles
    /\ loop = "ended" => \A c \in handles : Over(c)

\* A session that goes on was alive or, once accepted, has its handle.
LEMMA HandledStays ==
    ASSUME SessionsOK, Handled, [Next]_vars
    PROVE  Handled'
PROOF
<1>1. ASSUME sess' = sess,
             \/ handles' = handles /\ loop' \in {loop, "accept", "join"} /\ loop # "ended"
             \/ handles' = handles /\ loop' = loop
             \/ handles' = {c \in handles : ~Over(c)} /\ loop' = "check"
             \/ LoopSleeps \/ LoopJoins
      PROVE  Handled'
  <2>1. \A c : (Alive(c)' <=> Alive(c)) /\ (Over(c)' <=> Over(c)) /\ (Alive(c) => ~Over(c))
    BY <1>1 DEF Alive, Over
  <2>2. CASE handles' = handles /\ loop' \in {loop, "accept", "join"} /\ loop # "ended"
    BY <2>1, <2>2 DEF Handled
  <2>3. CASE handles' = handles /\ loop' = loop
    BY <2>1, <2>3 DEF Handled
  <2>4. CASE handles' = {c \in handles : ~Over(c)} /\ loop' = "check"
    BY <2>1, <2>4 DEF Handled
  <2>5. CASE LoopSleeps
    BY <2>1, <2>5 DEF Handled, LoopSleeps
  <2>6. CASE LoopJoins
    BY <2>1, <2>6 DEF Handled, LoopJoins
  <2> QED BY <1>1, <2>2, <2>3, <2>4, <2>5, <2>6
<1>2. ASSUME NEW c \in Clients, NEW p, NEW q, Steps(c, p, q), handles' = handles, loop' = loop,
             p # "ended", q \in {"absent", "waiting", "ended"} \/ p \notin {"absent", "waiting"}
      PROVE  Handled'
  <2>1. \A d \in Clients : d # c => (Alive(d)' <=> Alive(d)) /\ (Over(d)' <=> Over(d))
    BY <1>2 DEF Steps, Moved, Alive, Over
  <2>2. ~Over(c) /\ (Alive(c)' => Alive(c))
    BY <1>2 DEF Steps, Moved, Alive, Over
  <2> QED BY <1>2, <2>1, <2>2 DEF Handled
<1>3. ASSUME NEW c \in Clients, Connect(c), Steps(c, "absent", "waiting") PROVE Handled'
  BY <1>2, <1>3 DEF Connect
<1>4. ASSUME NEW c \in Clients, LoopAccepts(c), Steps(c, "waiting", "greeting") PROVE Handled'
  <2>1. \A d \in Clients : d # c => (Alive(d)' <=> Alive(d))
    BY <1>4 DEF Steps, Moved, Alive
  <2> QED BY <1>4, <2>1 DEF Handled, LoopAccepts
<1>5. ASSUME NEW c \in Clients, LoopSpawnFails(c), Steps(c, "waiting", "ended") PROVE Handled'
  <2>1. \A d \in Clients : d # c => (Alive(d)' <=> Alive(d))
    BY <1>5 DEF Steps, Moved, Alive
  <2>2. ~Alive(c)'
    BY <1>5 DEF Steps, Moved, Alive
  <2> QED BY <1>5, <2>1, <2>2 DEF Handled, LoopSpawnFails
<1>6. ASSUME NEW c \in Clients, SessionFiles(c),
             Steps(c, "filing", "boxing") \/ Steps(c, "filing", "writing")
      PROVE  Handled'
  BY <1>2, <1>6 DEF SessionFiles, Goes
<1>7. ASSUME NEW c \in Clients, SessionBoxes(c), Steps(c, "boxing", "writing") PROVE Handled'
  BY <1>2, <1>7 DEF SessionBoxes
<1>8. ASSUME NEW c \in Clients, loop' = loop, handles' = handles,
             \/ \E p \in {"greeting", "ready"} : Steps(c, p, "writing")
             \/ \E q \in {"ready", "reading", "ended"} : Steps(c, "writing", q)
             \/ Steps(c, "reading", "filing")
             \/ \E p \in {"ready", "reading"} : Steps(c, p, "ended")
      PROVE  Handled'
  BY <1>2, <1>8
<1> QED BY <1>1, <1>3, <1>4, <1>5, <1>6, <1>7, <1>8, EveryStep

\* The accept loop, once it is over, has outlived every session it ever accepted, whatever
\* the clients do, and however it came to leave the loop (TestServer::shutdown, drop).
THEOREM EverySessionJoined == Spec => []JoinedAll
PROOF
<1>1. Init => SessionsOK /\ Handled
  <2> SUFFICES ASSUME Init PROVE SessionsOK /\ Handled
    OBVIOUS
  <2>1. \A c \in Clients : ~Alive(c)
    BY SessionsBegin DEF Alive
  <2>2. handles = {} /\ loop # "ended"
    BY DEF Init
  <2> QED BY <2>1, <2>2, SessionsBegin DEF Handled
<1>2. SessionsOK /\ Handled /\ [Next]_vars => (SessionsOK /\ Handled)'
  BY SessionsStay, HandledStays
<1>3. Handled => JoinedAll
  BY DEF Handled, JoinedAll, Alive, Over
<1> QED BY <1>1, <1>2, <1>3, PTL DEF Spec
-------------------------------------------------------------------------------
(* What is filed.                                                              *)

\* The shared corpus is one, with the groups it began with and all that was filed there.
CorpusOK == IsCorpus(corpus) /\ Grown(InitialCorpus, corpus)

\* Filing, or refusing, leaves a corpus that has grown from the one before.
LEMMA FilesGrow ==
    ASSUME SessionsOK, CorpusOK, NEW c \in Clients, SessionFiles(c), sess[c].phase = "filing"
    PROVE  IsCorpus(corpus') /\ Grown(corpus, corpus')
PROOF
<1>1. corpus' = CorpusAfter(Config, corpus, sess[c].st, sess[c].article)
  BY DEF SessionFiles
<1>2. sess[c].article.groups \in Seq(STRING)
  BY ServerAssumption DEF SessionsOK, IsSession
<1>3. IsCorpus(corpus)
  BY DEF CorpusOK
<1>4. /\ IsCorpus(Inject(corpus, sess[c].article.groups, IdOf(sess[c].st, sess[c].article)))
      /\ Grown(corpus, Inject(corpus, sess[c].article.groups, IdOf(sess[c].st, sess[c].article)))
  BY <1>2, <1>3, InjectAdds
<1>5. Grown(corpus, corpus)
  BY DEF Grown
<1> QED BY <1>1, <1>3, <1>4, <1>5 DEF CorpusAfter

\* No other step touches the corpus.
LEMMA CorpusGrows ==
    ASSUME SessionsOK, CorpusOK, [Next]_vars
    PROVE  IsCorpus(corpus') /\ Grown(corpus, corpus')
PROOF
<1>1. ASSUME corpus' = corpus PROVE IsCorpus(corpus') /\ Grown(corpus, corpus')
  BY <1>1 DEF CorpusOK, Grown
<1>2. ASSUME NEW c \in Clients, SessionFiles(c) PROVE IsCorpus(corpus') /\ Grown(corpus, corpus')
  BY <1>2, FilesGrow DEF SessionFiles
<1> QED
  BY <1>1, <1>2, EveryStep DEF Connect, LoopAccepts, LoopSpawnFails, SessionBoxes

\* The corpus stays a corpus grown from the first one.
LEMMA CorpusInvariant == Spec => [](SessionsOK /\ CorpusOK)
PROOF
<1>1. Init => SessionsOK /\ CorpusOK
  BY SessionsBegin, ServerAssumption DEF Init, CorpusOK, Grown
<1>2. SessionsOK /\ CorpusOK /\ [Next]_vars => (SessionsOK /\ CorpusOK)'
  <2> SUFFICES ASSUME SessionsOK, CorpusOK, [Next]_vars PROVE SessionsOK' /\ CorpusOK'
    OBVIOUS
  <2>1. IsCorpus(corpus') /\ Grown(corpus, corpus') /\ Grown(InitialCorpus, corpus)
    BY CorpusGrows DEF CorpusOK
  <2> QED BY <2>1, SessionsStay, GrownFurther DEF CorpusOK
<1> QED BY <1>1, <1>2, PTL DEF Spec

\* What one session has filed, no session's posting ever moves, replaces or drops:
\* Corpus::inject numbers past the highest, whatever gaps there are.
THEOREM NothingFiledIsLost == Spec => FiledStays
PROOF
<1> DEFINE Kept == \A i \in DOMAIN corpus : \A n \in Numbers(corpus[i]) :
                      n \in Numbers(corpus'[i]) /\ corpus'[i].articles[n] = corpus[i].articles[n]
<1>1. SessionsOK /\ CorpusOK /\ [Next]_vars => [Kept]_vars
  <2> SUFFICES ASSUME SessionsOK, CorpusOK, [Next]_vars PROVE Kept
    OBVIOUS
  <2>1. Grown(corpus, corpus') /\ DOMAIN corpus = 1..Len(corpus)
    BY CorpusGrows DEF CorpusOK, IsCorpus
  <2> QED BY <2>1 DEF Grown
<1> HIDE DEF Kept
<1>2. Spec => [][Kept]_vars
  BY <1>1, CorpusInvariant, PTL DEF Spec
<1> QED BY <1>2 DEF Kept, FiledStays

-------------------------------------------------------------------------------
(* The postbox.                                                                *)

Boxing == {c \in Clients : sess[c].phase = "boxing"}

\* Every article names at most one group that is carried: what is not crossposted.
NoCrossposts ==
    \A a \in Articles : Cardinality({i \in DOMAIN a.groups : Carries(InitialCorpus, a.groups[i])}) <= 1

PostsOK == postbox \in Seq(Clients) /\ PostboxAgrees

\* How many sessions are between the two locks.
LEMMA BoxingCounted ==
    ASSUME SessionsOK, NEW c \in Clients, NEW p, NEW q, Steps(c, p, q)
    PROVE  /\ IsFiniteSet(Boxing) /\ Cardinality(Boxing) \in Nat
           /\ p # "boxing" /\ q # "boxing" => Boxing' = Boxing
           /\ p # "boxing" /\ q = "boxing" => Cardinality(Boxing') = Cardinality(Boxing) + 1
           /\ p = "boxing" /\ q # "boxing" => Cardinality(Boxing') = Cardinality(Boxing) - 1
PROOF
<1>1. IsFiniteSet(Boxing)
  BY ServerAssumption, FS_Subset DEF Boxing
<1>2. Cardinality(Boxing) \in Nat
  BY <1>1, FS_CardinalityType
<1>3. /\ sess[c].phase = p /\ sess'[c].phase = q
      /\ \A d \in Clients : d # c => sess'[d] = sess[d]
  BY DEF Steps, Moved
<1>4. ASSUME p # "boxing", q # "boxing" PROVE Boxing' = Boxing
  BY <1>3, <1>4 DEF Boxing
<1>5. ASSUME p # "boxing", q = "boxing" PROVE Cardinality(Boxing') = Cardinality(Boxing) + 1
  <2>1. Boxing' = Boxing \cup {c} /\ c \notin Boxing
    BY <1>3, <1>5 DEF Boxing
  <2> QED BY <1>1, <2>1, FS_AddElement
<1>6. ASSUME p = "boxing", q # "boxing" PROVE Cardinality(Boxing') = Cardinality(Boxing) - 1
  <2>1. Boxing' = Boxing \ {c} /\ c \in Boxing
    BY <1>3, <1>6 DEF Boxing
  <2> QED BY <1>1, <2>1, FS_RemoveElement
<1> QED BY <1>1, <1>2, <1>4, <1>5, <1>6

\* An article that is accepted is filed exactly once.
LEMMA FiledOnce ==
    ASSUME NoCrossposts, SessionsOK, CorpusOK, NEW c \in Clients, sess[c].phase = "filing",
           SessionFiles(c), Acceptable(Config, corpus, sess[c].article)
    PROVE  Total(corpus') = Total(corpus) + 1
PROOF
<1> DEFINE a == sess[c].article
           W == {i \in DOMAIN a.groups : Carries(corpus, a.groups[i])}
<1>1. a \in Articles /\ a.groups \in Seq(STRING)
  BY ServerAssumption DEF SessionsOK, IsSession
<1>2. IsCorpus(corpus) /\ Grown(InitialCorpus, corpus) /\ IsCorpus(InitialCorpus)
  BY ServerAssumption DEF CorpusOK
<1>3. corpus' = Inject(corpus, a.groups, IdOf(sess[c].st, a))
  BY DEF SessionFiles, CorpusAfter
<1>4. Total(corpus') = Total(corpus) + Cardinality(W)
  BY <1>1, <1>2, <1>3, InjectAdds
<1>5. W = {i \in DOMAIN a.groups : Carries(InitialCorpus, a.groups[i])}
  <2>1. \A name : Carries(InitialCorpus, name) <=> Carries(corpus, name)
    BY <1>2, GrownCarries
  <2> QED BY <2>1
<1>6. Cardinality(W) <= 1
  BY <1>1, <1>5 DEF NoCrossposts
<1>7. W # {}
  BY DEF Acceptable
<1>8. IsFiniteSet(W)
  <2>1. IsFiniteSet(DOMAIN a.groups)
    BY <1>1, FS_Interval
  <2> QED BY <2>1, FS_Subset
<1> HIDE DEF W
<1>9. Cardinality(W) = 1
  <2>1. Cardinality(W) \in Nat /\ Cardinality(W) # 0
    BY <1>7, <1>8, FS_CardinalityType, FS_EmptySet
  <2> QED BY <1>6, <2>1
<1> QED BY <1>4, <1>9

\* Each step keeps the account.
LEMMA PostsStay ==
    ASSUME NoCrossposts, SessionsOK, CorpusOK, PostsOK, [Next]_vars
    PROVE  PostsOK'
PROOF
<1>1. /\ postbox \in Seq(Clients) /\ Len(postbox) \in Nat
      /\ Total(corpus) - Total(InitialCorpus) = Len(postbox) + Cardinality(Boxing)
      /\ Total(corpus) \in Nat /\ Total(InitialCorpus) \in Nat
  BY ServerAssumption, TotalIsPlaces DEF PostsOK, PostboxAgrees, Boxing, CorpusOK
<1>2. PostboxAgrees' <=>
         Total(corpus') - Total(InitialCorpus) = Len(postbox') + Cardinality(Boxing')
  BY DEF PostboxAgrees, Boxing
<1>3. ASSUME sess' = sess, corpus' = corpus, postbox' = postbox PROVE PostsOK'
  <2>1. Boxing' = Boxing
    BY <1>3 DEF Boxing
  <2> QED BY <1>1, <1>2, <1>3, <2>1 DEF PostsOK
<1>4. ASSUME NEW c \in Clients, NEW p, NEW q, Steps(c, p, q), p # "boxing", q # "boxing",
             corpus' = corpus, postbox' = postbox
      PROVE  PostsOK'
  <2>1. Boxing' = Boxing
    BY <1>4, BoxingCounted
  <2> QED BY <1>1, <1>2, <1>4, <2>1 DEF PostsOK
<1>5. ASSUME NEW c \in Clients, SessionFiles(c), Acceptable(Config, corpus, sess[c].article),
             Steps(c, "filing", "boxing")
      PROVE  PostsOK'
  <2>1. Total(corpus') = Total(corpus) + 1
    BY <1>5, FiledOnce DEF Steps
  <2>2. Cardinality(Boxing') = Cardinality(Boxing) + 1 /\ Cardinality(Boxing) \in Nat
    BY <1>5, BoxingCounted
  <2>3. postbox' = postbox
    BY <1>5 DEF SessionFiles
  <2> QED BY <1>1, <1>2, <2>1, <2>2, <2>3 DEF PostsOK
<1>6. ASSUME NEW c \in Clients, SessionFiles(c), ~Acceptable(Config, corpus, sess[c].article),
             Steps(c, "filing", "writing")
      PROVE  PostsOK'
  BY <1>4, <1>6 DEF SessionFiles, CorpusAfter
<1>7. ASSUME NEW c \in Clients, SessionBoxes(c), Steps(c, "boxing", "writing") PROVE PostsOK'
  <2>1. corpus' = corpus /\ postbox' = Append(postbox, c)
    BY <1>7 DEF SessionBoxes
  <2>2. Cardinality(Boxing') = Cardinality(Boxing) - 1 /\ Cardinality(Boxing) \in Nat
    BY <1>7, BoxingCounted
  <2>3. postbox' \in Seq(Clients) /\ Len(postbox') = Len(postbox) + 1
    BY <1>1, <2>1
  <2> QED BY <1>1, <1>2, <2>1, <2>2, <2>3 DEF PostsOK
<1>8. ASSUME NEW c \in Clients, corpus' = corpus, postbox' = postbox,
             \/ \E p \in {"greeting", "ready"} : Steps(c, p, "writing")
             \/ \E q \in {"ready", "reading", "ended"} : Steps(c, "writing", q)
             \/ Steps(c, "reading", "filing")
             \/ \E p \in {"ready", "reading"} : Steps(c, p, "ended")
      PROVE  PostsOK'
  BY <1>4, <1>8
<1>9. ASSUME NEW c \in Clients, Connect(c) \/ LoopAccepts(c) \/ LoopSpawnFails(c),
             \/ Steps(c, "absent", "waiting")
             \/ Steps(c, "waiting", "greeting")
             \/ Steps(c, "waiting", "ended")
      PROVE  PostsOK'
  BY <1>4, <1>9 DEF Connect, LoopAccepts, LoopSpawnFails
<1> QED BY <1>3, <1>5, <1>6, <1>7, <1>8, <1>9, EveryStep

\* As long as nothing is crossposted to groups that are carried, the postbox and the
\* corpus agree on how many articles were taken, between the two locks too (Session's
\* accept_article, TestServer::posted); a crosspost is filed several times and posted once.
THEOREM PostboxKept ==
    ASSUME NoCrossposts
    PROVE  Spec => []PostboxAgrees
PROOF
<1>1. Init => PostsOK
  <2> SUFFICES ASSUME Init PROVE PostsOK
    OBVIOUS
  <2>1. postbox = <<>> /\ corpus = InitialCorpus
    BY DEF Init
  <2>2. {c \in Clients : sess[c].phase = "boxing"} = {}
    BY SessionsBegin
  <2>3. Cardinality({c \in Clients : sess[c].phase = "boxing"}) = 0
    BY <2>2, FS_EmptySet
  <2>4. Total(InitialCorpus) \in Nat
    BY ServerAssumption, TotalIsPlaces
  <2> QED BY <2>1, <2>3, <2>4 DEF PostsOK, PostboxAgrees
<1>2. SessionsOK /\ CorpusOK /\ PostsOK /\ [Next]_vars => PostsOK'
  BY PostsStay
<1>3. PostsOK => PostboxAgrees
  BY DEF PostsOK
<1> QED BY <1>1, <1>2, <1>3, CorpusInvariant, PTL DEF Spec

=============================================================================
