----------------------------- MODULE ViewProofs -----------------------------
(***************************************************************************)
(* Proofs about the parts of the reader that work alone: the chunks a      *)
(* range of article numbers is fetched in, for numbers of every width; the *)
(* credentials a session is set up with, for every command line and every  *)
(* configuration file; the wildcards and the batches of a subscription;    *)
(* and the blocks a body is sent in.                                       *)
(***************************************************************************)
EXTENDS Ranges, Setup, Patterns, Blocks, FiniteSetTheorems, SequenceTheorems,
        WellFoundedInduction, TLAPS

-----------------------------------------------------------------------------
(* Shared by the sections: folds without weights, least and greatest       *)

NoWeight(c, i) == 0

\* The loop that adds up the lengths of the items, for FoldTheorems.
TotalStep(c, sum, item) == sum + Length(item)

TotalSoFar(c, k, sum) == sum \in Nat /\ sum = c[k]

Packing == INSTANCE FoldTheorems WITH step <- TotalStep, weigh <- NoWeight, Holds <- TotalSoFar

\* Min picks the element that is below all the others.
LEMMA LeastOf ==
    ASSUME NEW S, S \subseteq Nat, NEW m \in S, \A x \in S : m <= x
    PROVE  Min(S) = m
PROOF
<1>1. \A x \in S : (\A y \in S : x <= y) => x = m
  BY SMT
<1> QED
  BY <1>1 DEF Min

\* Max picks the element that is above all the others.
LEMMA GreatestOf ==
    ASSUME NEW S, S \subseteq Nat, NEW m \in S, \A x \in S : m >= x
    PROVE  Max(S) = m
PROOF
<1>1. \A x \in S : (\A y \in S : x >= y) => x = m
  BY SMT
<1> QED
  BY <1>1 DEF Max

-----------------------------------------------------------------------------
(* Range::chunks                                                           *)

Pairs == [low : Nat, high : Nat]

\* Where the loop stands: inside the range, or past the last number there is.
RangesTypeOK ==
    /\ span \in Spans
    /\ cut \in Seq(Pairs)
    /\ start \in span.range.low .. span.range.high \/ start = Top + 1

\* The chunks cut so far are not reversed, and lie in the range before start.
ChunksBehind ==
    \A i \in DOMAIN cut :
        /\ span.range.low <= cut[i].low /\ cut[i].low <= cut[i].high
        /\ cut[i].high <= span.range.high /\ cut[i].high < start

RangesInv == RangesTypeOK /\ ChunksBehind /\ ChunksCover

(***************************************************************************)
(* Range::between orders its bounds, so a span is never reversed.          *)
(***************************************************************************)
LEMMA SpanFields ==
    ASSUME NEW s \in Spans
    PROVE  /\ s.range = [low |-> s.range.low, high |-> s.range.high]
           /\ s.range.low \in Nat /\ s.range.high \in Nat /\ s.chunk \in Nat
           /\ s.range.low <= s.range.high /\ s.range.high <= Top
PROOF
<1>1. PICK low, high, chunk \in ArticleNumbers :
         s = [range |-> RangeBetween(low, high), chunk |-> chunk]
  BY DEF Spans
<1> QED
  BY <1>1, TopAssumption DEF RangeBetween, ArticleNumbers

(***************************************************************************)
(* Before the loop is done it stands inside the range.                     *)
(***************************************************************************)
LEMMA Standing ==
    ASSUME RangesTypeOK
    PROVE  /\ span.range = [low |-> span.range.low, high |-> span.range.high]
           /\ span.range.low \in Nat /\ span.range.high \in Nat /\ span.chunk \in Nat
           /\ span.range.low <= span.range.high /\ span.range.high <= Top
           /\ start \in Nat
           /\ start <= Top => span.range.low <= start /\ start <= span.range.high
PROOF
<1>1. span \in Spans /\ (start \in span.range.low .. span.range.high \/ start = Top + 1)
  BY DEF RangesTypeOK
<1>2. /\ span.range = [low |-> span.range.low, high |-> span.range.high]
      /\ span.range.low \in Nat /\ span.range.high \in Nat /\ span.chunk \in Nat
      /\ span.range.low <= span.range.high /\ span.range.high <= Top
  BY <1>1, SpanFields, Zenon
<1>3. start \in Nat /\ (start <= Top => span.range.low <= start /\ start <= span.range.high)
  BY <1>1, <1>2, TopAssumption
<1> QED
  BY <1>2, <1>3

(***************************************************************************)
(* The end of a chunk: not before its start, and no longer than asked for. *)
(***************************************************************************)
LEMMA EndIs ==
    ASSUME RangesTypeOK, start <= Top, span.chunk # 0
    PROVE  /\ End(start) \in start .. span.range.high
           /\ RangeBetween(start, End(start)) = [low |-> start, high |-> End(start)]
           /\ End(start) - start + 1 <= span.chunk
PROOF
<1>1. /\ start \in Nat /\ start <= span.range.high
      /\ span.range.high \in Nat /\ span.chunk \in Nat
  BY Standing
<1> QED
  BY <1>1 DEF End, RangeBetween

(***************************************************************************)
(* Nothing cut, nothing due: the invariant holds at the start.             *)
(***************************************************************************)
LEMMA RangesStart == RangesInit => RangesInv
PROOF
<1> SUFFICES ASSUME RangesInit PROVE RangesInv
  OBVIOUS
<1>1. RangesTypeOK
  <2>1. span \in Spans /\ cut = <<>> /\ start = span.range.low
    BY DEF RangesInit
  <2>2. span.range.low \in Nat /\ span.range.high \in Nat /\ span.range.low <= span.range.high
    BY <2>1, SpanFields, Zenon
  <2> QED BY <2>1, <2>2 DEF RangesTypeOK
<1>2. DOMAIN cut = {}
  BY DEF RangesInit
<1>3. {n \in ArticleNumbers : RangeContains(span.range, n) /\ n < start} = {}
  <2>1. start = span.range.low /\ span.range.low \in Nat
    BY SpanFields DEF RangesInit
  <2> QED BY <2>1 DEF RangeContains, ArticleNumbers
<1> QED
  BY <1>1, <1>2, <1>3 DEF RangesInv, ChunksBehind, ChunksCover

(***************************************************************************)
(* One turn of the loop.                                                   *)
(***************************************************************************)
LEMMA RangesStep == RangesInv /\ CutChunk => RangesInv'
PROOF
<1> SUFFICES ASSUME RangesInv, CutChunk PROVE RangesInv'
  OBVIOUS
<1> DEFINE Done == {n \in ArticleNumbers : \E i \in DOMAIN cut : RangeContains(cut[i], n)}
           Due(s) == {n \in ArticleNumbers : RangeContains(span.range, n) /\ n < s}
<1>1. /\ RangesTypeOK /\ span' = span /\ start <= Top
      /\ start \in Nat /\ span.range.low <= start /\ start <= span.range.high
      /\ span.range.low \in Nat /\ span.range.high \in Nat /\ span.chunk \in Nat
      /\ span.range.low <= span.range.high /\ span.range.high <= Top
      /\ cut \in Seq(Pairs)
  <2>1. RangesTypeOK /\ span' = span /\ start <= Top
    BY DEF RangesInv, CutChunk
  <2>2. cut \in Seq(Pairs)
    BY <2>1 DEF RangesTypeOK
  <2> QED BY <2>1, <2>2, Standing
<1>2. Done = Due(start)
  BY DEF RangesInv, ChunksCover
<1>3. CASE span.chunk = 0
  <2>1. cut' = <<span.range>> /\ start' = Top + 1
    BY <1>3 DEF CutChunk
  <2>2. /\ cut' \in Seq(Pairs) /\ DOMAIN cut' = {1} /\ cut'[1] = span.range
    <3>1. span.range \in Pairs
      BY <1>1, Standing DEF Pairs
    <3> QED BY <3>1, <2>1
  <2>3. RangesTypeOK' /\ ChunksBehind'
    BY <2>1, <2>2, <1>1, TopAssumption DEF RangesTypeOK, ChunksBehind
  <2>4. ChunksCover'
    BY <2>1, <2>2, <1>1, <1>3, TopAssumption DEF ChunksCover, RangeContains, ArticleNumbers
  <2> QED BY <2>3, <2>4 DEF RangesInv
<1>4. CASE span.chunk # 0
  <2> DEFINE e == End(start)
             new == [low |-> start, high |-> e]
  <2>1. e \in Nat /\ start <= e /\ e <= span.range.high /\ e - start + 1 <= span.chunk
    BY <1>1, <1>4, EndIs
  <2>2. /\ cut' = Append(cut, new)
        /\ start' = IF e >= span.range.high THEN Top + 1 ELSE e + 1
    BY <1>1, <1>4, EndIs DEF CutChunk
  <2> HIDE DEF e
  <2>3. /\ cut' \in Seq(Pairs)
        /\ DOMAIN cut = 1 .. Len(cut) /\ DOMAIN cut' = 1 .. (Len(cut) + 1) /\ Len(cut) \in Nat
        /\ \A i \in 1 .. Len(cut) : cut'[i] = cut[i]
        /\ cut'[Len(cut) + 1] = new
    <3>1. new \in Pairs
      BY <1>1, <2>1 DEF Pairs
    <3> QED BY <1>1, <2>2, <3>1
  <2>4. start' \in Nat /\ e < start' /\ start < start'
    <3>1. CASE e >= span.range.high
      BY <3>1, <1>1, <2>1, <2>2, TopAssumption
    <3>2. CASE ~(e >= span.range.high)
      BY <3>2, <1>1, <2>1, <2>2
    <3> QED BY <3>1, <3>2
  <2>5. RangesTypeOK'
    BY <1>1, <2>1, <2>2, <2>3, TopAssumption DEF RangesTypeOK
  <2>6. \A i \in DOMAIN cut :
           /\ cut[i].low \in Nat /\ cut[i].high \in Nat
           /\ span.range.low <= cut[i].low /\ cut[i].low <= cut[i].high
           /\ cut[i].high <= span.range.high /\ cut[i].high < start
    <3>0. cut \in Seq(Pairs)
      BY <1>1
    <3>1. \A i \in DOMAIN cut : cut[i] \in Pairs
      BY <3>0
    <3>2. \A i \in DOMAIN cut : cut[i].low \in Nat /\ cut[i].high \in Nat
      BY <3>1 DEF Pairs
    <3> QED BY <3>2 DEF RangesInv, ChunksBehind
  <2>7. ChunksBehind'
    <3> SUFFICES ASSUME NEW i \in 1 .. (Len(cut) + 1)
                 PROVE  /\ span.range.low <= cut'[i].low /\ cut'[i].low <= cut'[i].high
                        /\ cut'[i].high <= span.range.high /\ cut'[i].high < start'
      BY <1>1, <2>3 DEF ChunksBehind
    <3>1. CASE i \in 1 .. Len(cut)
      <4>1. cut'[i] = cut[i] /\ i \in DOMAIN cut
        BY <3>1, <2>3
      <4>2. /\ cut[i].high \in Nat
            /\ span.range.low <= cut[i].low /\ cut[i].low <= cut[i].high
            /\ cut[i].high <= span.range.high /\ cut[i].high < start
        BY <4>1, <2>6
      <4>3. cut[i].high < start'
        BY <4>2, <2>4, <1>1
      <4> QED BY <4>1, <4>2, <4>3
    <3>2. CASE i = Len(cut) + 1
      BY <3>2, <2>3, <2>4, <2>1, <1>1
    <3> QED BY <3>1, <3>2, <2>3
  <2>8. ChunksCover'
    <3>1. {n \in ArticleNumbers : \E i \in DOMAIN cut' : RangeContains(cut'[i], n)}
             = Done \cup {n \in ArticleNumbers : start <= n /\ n <= e}
      <4>1. \A n \in ArticleNumbers :
               (\E i \in DOMAIN cut' : RangeContains(cut'[i], n))
                 <=> (\/ \E i \in DOMAIN cut : RangeContains(cut[i], n)
                      \/ RangeContains(new, n))
        BY <2>3
      <4>2. \A n \in ArticleNumbers : RangeContains(new, n) <=> start <= n /\ n <= e
        BY <1>1, <2>1 DEF RangeContains, ArticleNumbers
      <4> QED BY <4>1, <4>2
    <3>2. Due(start') = Due(start) \cup {n \in ArticleNumbers : start <= n /\ n <= e}
      BY <1>1, <2>1, <2>2, TopAssumption DEF RangeContains, ArticleNumbers
    <3>3. \A i, j \in DOMAIN cut' : i < j => cut'[i].high < cut'[j].low
      <4> SUFFICES ASSUME NEW i \in 1 .. (Len(cut) + 1), NEW j \in 1 .. (Len(cut) + 1), i < j
                   PROVE  cut'[i].high < cut'[j].low
        BY <2>3
      <4>1. i \in 1 .. Len(cut) /\ cut'[i] = cut[i]
        BY <2>3
      <4>2. CASE j \in 1 .. Len(cut)
        BY <4>1, <4>2, <2>3 DEF RangesInv, ChunksCover
      <4>3. CASE j = Len(cut) + 1
        BY <4>1, <4>3, <2>3, <2>6
      <4> QED BY <4>2, <4>3, <2>3
    <3>4. \A i \in DOMAIN cut' : Spanned(cut'[i]) <= span.chunk
      <4>1. \A i \in DOMAIN cut : Spanned(cut[i]) <= span.chunk
        BY <1>1, <1>4 DEF RangesInv, ChunksCover
      <4>2. Spanned(new) <= span.chunk
        BY <2>1 DEF Spanned
      <4> QED BY <4>1, <4>2, <2>3
    <3> QED BY <1>1, <1>2, <3>1, <3>2, <3>3, <3>4 DEF ChunksCover
  <2> QED BY <2>5, <2>7, <2>8 DEF RangesInv
<1> QED BY <1>3, <1>4

(***************************************************************************)
(* Range::chunks is right for numbers of every width: at every turn the    *)
(* chunks cut so far are exactly the numbers of the range before start, in *)
(* order, each once, none longer than asked for; it never runs past the    *)
(* widest number.                                                          *)
(***************************************************************************)
THEOREM ChunksAreRight == RangesSpec => []ChunksCover
PROOF
<1>1. RangesInit => RangesInv
  BY RangesStart
<1>2. RangesInv /\ [CutChunk]_rangeVars => RangesInv'
  <2>1. RangesInv /\ UNCHANGED rangeVars => RangesInv'
    BY DEF RangesInv, RangesTypeOK, ChunksBehind, ChunksCover, rangeVars
  <2> QED BY <2>1, RangesStep
<1>3. RangesInv => ChunksCover
  BY DEF RangesInv
<1> QED
  BY <1>1, <1>2, <1>3, PTL DEF RangesSpec

-----------------------------------------------------------------------------
(* session::resolve, and what is sent with its result                      *)

\* The file that was read is the one on disk, and target is what resolve made of it.
Settled ==
    /\ invocation.command # "config" /\ file \in Files /\ Loads
    /\ config = file
    /\ ~(ServerFor(config, Flags.server) = Absent /\ Flags.host = Absent)
    /\ target = Overridden(Base(config, Flags), Flags)

\* Nothing resolved yet.
Unsettled == target = DefaultServer /\ dials = 0 /\ sent = {}

\* A secret resolve_password may return for this target.
Obtained(secret) == \E value \in {"unset", "", "word"} : secret \in Resolved(value)

\* `config init` may replace the file, but then nothing is connected to.
FileKept == file \in Files \/ (invocation.command = "config" /\ Unsettled)

ConfigRead == phase = "loaded" => /\ invocation.command # "config" /\ file \in Files
                                  /\ Loads /\ config = file

PasswordMeant == phase = "authenticating" => Obtained(password)

SentAsMeant ==
    \A s \in sent : /\ s.to = Options /\ s.username = target.username
                    /\ Obtained(s.password)
                    /\ Options.encrypted \/ target.allow_plaintext

SetupInv ==
    /\ invocation \in Invocations
    /\ FileKept /\ ConfigRead /\ PasswordMeant /\ SentAsMeant
    /\ Settled \/ Unsettled
    /\ phase \in {"resolved", "dialled", "authenticating", "ready"} => Settled
    /\ phase \in {"start", "logging", "checked", "loaded", "done"} => Unsettled
    /\ invocation.command = "config" => Unsettled
    /\ dials \in Nat

(***************************************************************************)
(* Where each setting of the merge comes from.                             *)
(***************************************************************************)
LEMMA OverriddenFields ==
    ASSUME NEW server, server = DefaultServer \/ \E e : server \in Settings(e),
           NEW args \in FlagSettings
    PROVE  LET t == Overridden(server, args)
               flagged == args.password_command \/ args.password_env
           IN  /\ t.host = Given(args.host, server.host)
               /\ t.port = PortFor(server, args)
               /\ t.username = Given(args.username, server.username)
               /\ t.trust = Given(args.trust, server.trust)
               /\ t.allow_plaintext = (server.allow_plaintext \/ args.allow_plaintext)
               /\ t.blank = server.blank
               /\ ~flagged => /\ t.password = server.password
                              /\ t.password_env = server.password_env
                              /\ t.password_command = server.password_command
               /\ flagged => /\ t.password = Absent
                             /\ t.password_command = IF args.password_command THEN Flag ELSE Absent
                             /\ t.password_env = IF args.password_env THEN Flag ELSE Absent
PROOF
<1> DEFINE merged == [server EXCEPT
            !.host = Given(args.host, @),
            !.port = PortFor(server, args),
            !.security = Given(args.security, @),
            !.username = Given(args.username, @),
            !.allow_plaintext = @ \/ args.allow_plaintext,
            !.trust = Given(args.trust, @)]
<1>1. /\ DOMAIN merged = {"host", "port", "security", "usable", "username", "password", "blank",
                          "password_env", "password_command", "allow_plaintext", "trust"}
      /\ merged.host = Given(args.host, server.host)
      /\ merged.port = PortFor(server, args)
      /\ merged.username = Given(args.username, server.username)
      /\ merged.trust = Given(args.trust, server.trust)
      /\ merged.allow_plaintext = (server.allow_plaintext \/ args.allow_plaintext)
      /\ merged.blank = server.blank
      /\ merged.password = server.password
      /\ merged.password_env = server.password_env
      /\ merged.password_command = server.password_command
  <2>1. CASE server = DefaultServer
    BY <2>1 DEF DefaultServer
  <2>2. CASE \E e : server \in Settings(e)
    BY <2>2 DEF Settings
  <2> QED BY <2>1, <2>2
<1>2. Overridden(server, args) = WithPasswordFlag(merged, args)
  BY DEF Overridden
<1> HIDE DEF merged
<1>3. args.password_command \in BOOLEAN /\ args.password_env \in BOOLEAN
  BY DEF FlagSettings
<1> QED
  BY <1>1, <1>2, <1>3 DEF WithPasswordFlag

(***************************************************************************)
(* Config::server finds a definition of the file, or none.                 *)
(***************************************************************************)
LEMMA ServerFound ==
    ASSUME NEW c, Valid(c), NEW entry
    PROVE  \/ ServerFor(c, entry) = Absent
           \/ /\ ServerFor(c, entry) \in DOMAIN c.servers
              /\ entry # Absent => ServerFor(c, entry) = entry
PROOF
<1>1. Cardinality(DOMAIN c.servers) = 1 => DOMAIN c.servers # {}
  BY FS_EmptySet
<1> QED
  BY <1>1 DEF ServerFor, Valid

(***************************************************************************)
(* Config::load accepts only files that are valid.                         *)
(***************************************************************************)
LEMMA LoadedIsValid ==
    ASSUME file \in Files, Loads
    PROVE  Valid(file) /\ \A e \in DOMAIN file.servers : file.servers[e] \in Settings(e)
PROOF
<1>1. \A e \in DOMAIN file.servers : file.servers[e] \in Settings(e)
  BY SetupAssumption
<1>2. CASE file.state = "missing"
  <2>1. file = DefaultConfig
    BY <1>2, SetupAssumption
  <2>2. file.default_server = Absent /\ file.servers = <<>>
    BY <2>1 DEF DefaultConfig
  <2> QED BY <1>1, <2>2 DEF Valid
<1>3. CASE file.state # "missing"
  BY <1>1, <1>3 DEF Loads
<1> QED BY <1>2, <1>3

(***************************************************************************)
(* The flags that count are flags as clap lets them through.               *)
(***************************************************************************)
LEMMA FlagsType == invocation \in Invocations => Flags \in FlagSettings
  BY SetupAssumption DEF Flags

(***************************************************************************)
(* The merge starts from nothing, or from one definition whose host is     *)
(* kept unless --server names that definition.                             *)
(***************************************************************************)
LEMMA BaseIs ==
    ASSUME SetupInv, Settled
    PROVE  \/ Base(config, Flags) = DefaultServer
           \/ \E e \in DOMAIN file.servers :
                 /\ Base(config, Flags) = file.servers[e]
                 /\ Base(config, Flags) \in Settings(e)
                 /\ Cardinality(Sources(file.servers[e])) <= 1
                 /\ Given(Flags.host, file.servers[e].host) = file.servers[e].host \/ Flags.server = e
PROOF
<1>1. Valid(file) /\ (\A e \in DOMAIN file.servers : file.servers[e] \in Settings(e)) /\ config = file
  BY LoadedIsValid DEF Settled
<1> DEFINE entry == ServerFor(file, Flags.server)
<1>2. CASE entry = Absent
  BY <1>1, <1>2 DEF Base, Found
<1>3. CASE entry # Absent
  <2>1. entry \in DOMAIN file.servers /\ (Flags.server # Absent => entry = Flags.server)
    BY <1>1, <1>3, ServerFound
  <2>2. Found(config, Flags) = file.servers[entry]
    BY <1>1, <1>3 DEF Found
  <2> HIDE DEF entry
  <2>3. CASE Flags.host # Absent /\ Flags.server = Absent /\ Flags.host # file.servers[entry].host
    BY <2>2, <2>3 DEF Base
  <2>4. CASE ~(Flags.host # Absent /\ Flags.server = Absent /\ Flags.host # file.servers[entry].host)
    <3>1. Base(config, Flags) = file.servers[entry]
      BY <2>2, <2>4 DEF Base
    <3>2. Given(Flags.host, file.servers[entry].host) = file.servers[entry].host \/ Flags.server = entry
      BY <2>1, <2>4 DEF Given
    <3>3. Cardinality(Sources(file.servers[entry])) <= 1
      BY <1>1, <2>1 DEF Valid
    <3> QED BY <1>1, <2>1, <3>1, <3>2, <3>3
  <2> QED BY <2>3, <2>4
<1> QED BY <1>2, <1>3

(***************************************************************************)
(* Sources(server) is decided by three settings.                           *)
(***************************************************************************)
LEMMA SourcesFew ==
    ASSUME NEW x, Sources(x) \subseteq {"password"} \/ Sources(x) \subseteq {"password_env"}
                                \/ Sources(x) \subseteq {"password_command"}
    PROVE  Cardinality(Sources(x)) <= 1
PROOF
<1>1. \A y : Cardinality({y}) = 1 /\ IsFiniteSet({y})
  BY FS_Singleton
<1>2. PICK y : Sources(x) \subseteq {y}
  OBVIOUS
<1>3. Sources(x) \in SUBSET {y} /\ IsFiniteSet({y}) /\ Cardinality({y}) = 1
  BY <1>1, <1>2
<1>4. Cardinality(Sources(x)) <= Cardinality({y})
  BY <1>3, FS_Subset
<1> QED BY <1>3, <1>4

(***************************************************************************)
(* The default definition sets nothing that is traced.                     *)
(***************************************************************************)
LEMMA DefaultIs ==
    /\ DefaultServer.username = Absent /\ DefaultServer.trust = Absent
    /\ DefaultServer.password = Absent /\ DefaultServer.password_env = Absent
    /\ DefaultServer.password_command = Absent /\ DefaultServer.port = Absent
    /\ DefaultServer.allow_plaintext = FALSE
    /\ Cardinality(Sources(DefaultServer)) <= 1
PROOF
<1>1. /\ DefaultServer.username = Absent /\ DefaultServer.trust = Absent
      /\ DefaultServer.password = Absent /\ DefaultServer.password_env = Absent
      /\ DefaultServer.password_command = Absent /\ DefaultServer.port = Absent
      /\ DefaultServer.allow_plaintext = FALSE
  BY DEF DefaultServer
<1>2. Sources(DefaultServer) \subseteq {"password"}
  BY <1>1 DEF Sources
<1> QED BY <1>1, <1>2, SourcesFew

(***************************************************************************)
(* What resolve makes of any file and any flags: each traced setting is a  *)
(* flag's, or that of one definition at home; one password source.         *)
(***************************************************************************)
LEMMA TargetIs ==
    ASSUME SetupInv, Settled
    PROVE  /\ Cardinality(Sources(target)) <= 1
           /\ Flags.password_env \/ Flags.password_command
                 => /\ target.password = Absent
                    /\ target.password_env \in {Absent, Flag}
                    /\ target.password_command \in {Absent, Flag}
           /\ \/ /\ {target.username, target.trust, target.password, target.password_env,
                     target.password_command} \subseteq {Absent, Flag}
                 /\ target.allow_plaintext => Flags.allow_plaintext
                 /\ target.port = Flags.port
              \/ \E e \in DOMAIN file.servers :
                    /\ {target.username, target.trust, target.password, target.password_env,
                        target.password_command} \subseteq {Absent, Flag, e}
                    /\ target.allow_plaintext
                          => Flags.allow_plaintext \/ file.servers[e].allow_plaintext
                    /\ target.host = file.servers[e].host \/ Flags.server = e
                    /\ \/ target.port = Flags.port \/ target.port = Absent
                       \/ target.port = file.servers[e].port /\ target.host = file.servers[e].host
PROOF
<1> DEFINE base == Base(config, Flags)
           flagged == Flags.password_command \/ Flags.password_env
<1>1. /\ Flags \in FlagSettings /\ target = Overridden(base, Flags)
  BY FlagsType DEF SetupInv, Settled
<1>2. /\ Flags.username \in {Absent, Flag} /\ Flags.trust \in {Absent, Flag}
      /\ Flags.password_command \in BOOLEAN /\ Flags.password_env \in BOOLEAN
      /\ Flags.allow_plaintext \in BOOLEAN
      /\ ~(Flags.password_command /\ Flags.password_env)
  BY <1>1 DEF FlagSettings
<1>3. ASSUME base = DefaultServer \/ \E e : base \in Settings(e), Cardinality(Sources(base)) <= 1
      PROVE  /\ Cardinality(Sources(target)) <= 1
             /\ flagged => /\ target.password = Absent
                           /\ target.password_env \in {Absent, Flag}
                           /\ target.password_command \in {Absent, Flag}
             /\ target.host = Given(Flags.host, base.host)
             /\ target.port = PortFor(base, Flags)
             /\ {target.username, target.trust, target.password, target.password_env,
                 target.password_command}
                  \subseteq {Absent, Flag, base.username, base.trust, base.password,
                             base.password_env, base.password_command}
             /\ target.allow_plaintext => Flags.allow_plaintext \/ base.allow_plaintext
  <2> HIDE DEF base
  <2>1. /\ target.host = Given(Flags.host, base.host)
        /\ target.port = PortFor(base, Flags)
        /\ target.username = Given(Flags.username, base.username)
        /\ target.trust = Given(Flags.trust, base.trust)
        /\ target.allow_plaintext = (base.allow_plaintext \/ Flags.allow_plaintext)
        /\ ~flagged => /\ target.password = base.password
                       /\ target.password_env = base.password_env
                       /\ target.password_command = base.password_command
        /\ flagged => /\ target.password = Absent
                      /\ target.password_command = IF Flags.password_command THEN Flag ELSE Absent
                      /\ target.password_env = IF Flags.password_env THEN Flag ELSE Absent
    BY <1>1, <1>3, OverriddenFields
  <2>2. Cardinality(Sources(target)) <= 1
    <3>1. CASE ~flagged
      <4>1. Sources(target) = Sources(base)
        BY <3>1, <2>1 DEF Sources
      <4> QED BY <4>1, <1>3
    <3>2. CASE flagged
      <4>1. \/ Sources(target) \subseteq {"password_env"}
            \/ Sources(target) \subseteq {"password_command"}
        BY <3>2, <2>1, <1>2 DEF Sources
      <4> QED BY <4>1, SourcesFew
    <3> QED BY <3>1, <3>2
  <2>3. {target.username, target.trust} \subseteq {Absent, Flag, base.username, base.trust}
    BY <2>1, <1>2 DEF Given
  <2>4. {target.password, target.password_env, target.password_command}
           \subseteq {Absent, Flag, base.password, base.password_env, base.password_command}
    BY <2>1
  <2> QED BY <2>1, <2>2, <2>3, <2>4
<1>4. CASE base = DefaultServer
  <2> HIDE DEF base
  <2>2. Cardinality(Sources(base)) <= 1
    BY <1>4, DefaultIs
  <2>3. /\ base.username = Absent /\ base.trust = Absent /\ base.password = Absent
        /\ base.password_env = Absent /\ base.password_command = Absent
        /\ base.allow_plaintext = FALSE /\ base.port = Absent
    BY <1>4, DefaultIs
  <2>4. target.port = Flags.port
    BY <1>3, <1>4, <2>2, <2>3 DEF PortFor, Given
  <2> QED BY <1>3, <1>4, <2>2, <2>3, <2>4
<1>5. CASE base # DefaultServer
  <2>1. PICK e \in DOMAIN file.servers :
           /\ base = file.servers[e] /\ base \in Settings(e)
           /\ Cardinality(Sources(file.servers[e])) <= 1
           /\ Given(Flags.host, file.servers[e].host) = file.servers[e].host \/ Flags.server = e
    BY <1>5, BaseIs
  <2> HIDE DEF base
  <2>2. /\ base.username \in {e, Absent} /\ base.trust \in {e, Absent}
        /\ base.password \in {e, Absent} /\ base.password_env \in {e, Absent}
        /\ base.password_command \in {e, Absent}
    BY <2>1 DEF Settings
  <2>3. \/ target.port = Flags.port \/ target.port = Absent
        \/ target.port = file.servers[e].port /\ target.host = file.servers[e].host
    BY <1>3, <2>1 DEF PortFor, Given
  <2>4. target.host = file.servers[e].host \/ Flags.server = e
    BY <1>3, <2>1
  <2>5. {target.username, target.trust, target.password, target.password_env,
         target.password_command} \subseteq {Absent, Flag, e}
    BY <1>3, <2>1, <2>2
  <2>6. target.allow_plaintext => Flags.allow_plaintext \/ file.servers[e].allow_plaintext
    BY <1>3, <2>1
  <2> QED BY <1>3, <2>1, <2>3, <2>4, <2>5, <2>6
<1> QED BY <1>4, <1>5

(***************************************************************************)
(* What resolve_password may return: the setting it read it from, and no   *)
(* empty secret but a written one.                                         *)
(***************************************************************************)
LEMMA ObtainedIs ==
    ASSUME NEW secret, Obtained(secret)
    PROVE  /\ secret.owner \in {Absent, target.password, target.password_env, target.password_command}
           /\ secret.text = "" => secret.source = "password"
           /\ secret # NoSecret /\ target.password = Absent
                 => \/ secret.owner = target.password_env /\ target.password_env # Absent
                    \/ secret.owner = target.password_command /\ target.password_command # Absent
PROOF
<1>1. PICK value \in {"unset", "", "word"} : secret \in Resolved(value)
  BY DEF Obtained
<1>2. CASE target.password # Absent
  <2>1. secret = Secret("password", target.password, IF target.blank THEN "" ELSE "word")
    BY <1>1, <1>2 DEF Resolved
  <2>2. secret.owner = target.password /\ secret.source = "password"
    BY <2>1 DEF Secret
  <2> QED BY <1>2, <2>2
<1>3. CASE target.password = Absent /\ target.password_env # Absent
  <2>1. value \notin {"unset", ""} /\ secret = Secret("password_env", target.password_env, value)
    BY <1>1, <1>3 DEF Resolved, FromEnvironment
  <2>2. secret.owner = target.password_env /\ secret.text = value
    BY <2>1 DEF Secret
  <2> QED BY <1>3, <2>1, <2>2
<1>4. CASE target.password = Absent /\ target.password_env = Absent /\ target.password_command # Absent
  <2>1. value \notin {"unset", ""} /\ secret = Secret("password_command", target.password_command, value)
    BY <1>1, <1>4 DEF Resolved, FromCommand
  <2>2. secret.owner = target.password_command /\ secret.text = value
    BY <2>1 DEF Secret
  <2> QED BY <1>4, <2>1, <2>2
<1>5. CASE target.password = Absent /\ target.password_env = Absent /\ target.password_command = Absent
  <2>1. secret = NoSecret
    BY <1>1, <1>5 DEF Resolved
  <2> QED BY <2>1 DEF NoSecret, Secret, Absent
<1> QED BY <1>2, <1>3, <1>4, <1>5

(***************************************************************************)
(* The invariant gives the property.                                       *)
(***************************************************************************)
LEMMA SetupInvEnough == SetupInv => CredentialsStayHome
PROOF
<1> SUFFICES ASSUME SetupInv PROVE CredentialsStayHome
  OBVIOUS
<1>1. CASE Unsettled
  <2>1. sent = {} /\ target = DefaultServer
    BY <1>1 DEF Unsettled
  <2>2. Cardinality(Sources(target)) <= 1
    BY <2>1, DefaultIs
  <2> QED BY <2>1, <2>2
          DEF CredentialsStayHome, SecretsStayHome, PortsStayHome, OneSource, NoEmptyPassword
<1>2. CASE Settled
  <2>1. ASSUME NEW s \in sent
        PROVE  /\ s.to.host = target.host /\ s.to.trust = target.trust
               /\ s.to.port = Given(target.port, DefaultPort(target.security))
               /\ s.username = target.username
               /\ Obtained(s.password)
               /\ s.to.encrypted \/ target.allow_plaintext
    <3>1. s.to = Options /\ s.username = target.username /\ Obtained(s.password)
          /\ (Options.encrypted \/ target.allow_plaintext)
      BY DEF SetupInv, SentAsMeant
    <3> QED BY <3>1 DEF Options
  <2>2. SecretsStayHome
    <3> SUFFICES ASSUME NEW s \in sent
                 PROVE  /\ \A e \in Owners(s) \ {Absent, Flag} : AtHome(s, e)
                        /\ s.to.encrypted \/ Flags.allow_plaintext
                           \/ \E e \in DOMAIN file.servers :
                                 file.servers[e].allow_plaintext /\ AtHome(s, e)
      BY DEF SecretsStayHome
    <3>1. Owners(s) \subseteq {Absent, target.username, target.trust, target.password,
                               target.password_env, target.password_command}
      BY <2>1, ObtainedIs DEF Owners
    <3>2. CASE /\ {target.username, target.trust, target.password, target.password_env,
                   target.password_command} \subseteq {Absent, Flag}
               /\ target.allow_plaintext => Flags.allow_plaintext
      BY <2>1, <3>1, <3>2
    <3>3. ASSUME NEW e \in DOMAIN file.servers,
                 {target.username, target.trust, target.password, target.password_env,
                  target.password_command} \subseteq {Absent, Flag, e},
                 target.allow_plaintext => Flags.allow_plaintext \/ file.servers[e].allow_plaintext,
                 target.host = file.servers[e].host \/ Flags.server = e
          PROVE  /\ \A x \in Owners(s) \ {Absent, Flag} : AtHome(s, x)
                 /\ s.to.encrypted \/ Flags.allow_plaintext
                    \/ \E x \in DOMAIN file.servers :
                          file.servers[x].allow_plaintext /\ AtHome(s, x)
      <4>1. AtHome(s, e)
        BY <2>1, <3>3 DEF AtHome
      <4>2. \A x \in Owners(s) \ {Absent, Flag} : x = e
        BY <3>1, <3>3
      <4> QED BY <2>1, <3>3, <4>1, <4>2
    <3> QED BY <1>2, TargetIs, <3>2, <3>3
  <2>3. PortsStayHome
    <3> SUFFICES ASSUME NEW s \in sent, Flags.port = Absent,
                        s.to.port # DefaultPort(target.security)
                 PROVE  \E e \in DOMAIN file.servers :
                           s.to.host = file.servers[e].host /\ s.to.port = file.servers[e].port
      BY DEF PortsStayHome
    <3>1. target.port # Absent /\ s.to.port = target.port
      BY <2>1 DEF Given
    <3> QED BY <1>2, <2>1, <3>1, TargetIs
  <2>4. OneSource
    <3>1. ASSUME NEW s \in sent, s.password # NoSecret,
                 Flags.password_env \/ Flags.password_command
          PROVE  s.password.owner = Flag
      BY <1>2, <2>1, <3>1, TargetIs, ObtainedIs
    <3> QED BY <1>2, <3>1, TargetIs DEF OneSource
  <2>5. NoEmptyPassword
    BY <2>1, ObtainedIs DEF NoEmptyPassword
  <2> QED BY <2>2, <2>3, <2>4, <2>5 DEF CredentialsStayHome
<1> QED BY <1>1, <1>2 DEF SetupInv

(***************************************************************************)
(* Every action of the set-up keeps the invariant.                         *)
(***************************************************************************)
LEMMA SetupStep == SetupInv /\ SetupNext => SetupInv'
PROOF
<1> SUFFICES ASSUME SetupInv, SetupNext PROVE SetupInv'
  OBVIOUS
<1> USE DEF SetupInv
<1>1. ASSUME UNCHANGED <<invocation, file, config, target>>
      PROVE  /\ Settled' = Settled /\ Options' = Options /\ Flags' = Flags
             /\ \A secret : Obtained(secret)' = Obtained(secret)
             /\ Loads' = Loads
  BY <1>1 DEF Settled, Options, Flags, Obtained, Resolved, FromEnvironment, FromCommand, Loads
<1>2. CASE StartLogging
  BY <1>1, <1>2 DEF StartLogging, Unsettled, FileKept, ConfigRead, PasswordMeant, SentAsMeant
<1>3. CASE Check
  BY <1>1, <1>3 DEF Check, Unsettled, FileKept, ConfigRead, PasswordMeant, SentAsMeant
<1>4. CASE ConfigPath
  BY <1>1, <1>4 DEF ConfigPath, Configuring, Unsettled, FileKept, ConfigRead, PasswordMeant, SentAsMeant
<1>5. CASE ConfigShow
  BY <1>1, <1>5 DEF ConfigShow, Configuring, Unsettled, FileKept, ConfigRead, PasswordMeant, SentAsMeant
<1>6. CASE ConfigInit
  <2>1. /\ invocation' = invocation /\ invocation.command = "config" /\ target' = target
        /\ dials' = dials /\ sent' = sent /\ phase' \in {"done", "failed"} /\ Unsettled
    BY <1>6 DEF ConfigInit, Configuring
  <2> QED BY <2>1 DEF Unsettled, FileKept, ConfigRead, PasswordMeant, SentAsMeant
<1>7. CASE Load
  <2>1. /\ UNCHANGED <<invocation, file, target, password, dials, sent>> /\ Unsettled
        /\ invocation.command # "config" /\ phase' \in {"loaded", "failed"}
        /\ phase' = "loaded" => Loads /\ config' = file
    BY <1>7 DEF Load
  <2> QED BY <2>1 DEF Unsettled, FileKept, ConfigRead, PasswordMeant, SentAsMeant, Loads
<1>8. CASE Resolve
  <2>1. /\ UNCHANGED <<invocation, file, config, dials, sent>> /\ Unsettled
        /\ invocation.command # "config" /\ file \in Files /\ Loads /\ config = file
    BY <1>8 DEF Resolve, ConfigRead
  <2>2. CASE ServerFor(config, Flags.server) = Absent /\ Flags.host = Absent
    BY <2>1, <2>2, <1>8 DEF Resolve, Unsettled, FileKept, ConfigRead, PasswordMeant, SentAsMeant
  <2>3. CASE ~(ServerFor(config, Flags.server) = Absent /\ Flags.host = Absent)
    <3>1. target' = Overridden(Base(config, Flags), Flags) /\ phase' = "resolved"
      BY <2>3, <1>8 DEF Resolve
    <3>2. Settled'
      BY <2>1, <2>3, <3>1 DEF Settled, Flags, Loads
    <3> QED BY <2>1, <3>1, <3>2 DEF Unsettled, FileKept, ConfigRead, PasswordMeant, SentAsMeant
  <2> QED BY <2>2, <2>3
<1>9. CASE Dial
  <2>1. /\ UNCHANGED <<invocation, file, config, target, sent>> /\ Settled
        /\ dials' = dials + 1 /\ phase' \in {"dialled", "failed"}
    BY <1>9 DEF Dial
  <2>2. Settled' /\ invocation.command # "config" /\ file \in Files
    BY <2>1, <1>1 DEF Settled
  <2>3. SentAsMeant'
    BY <2>1, <1>1 DEF SentAsMeant
  <2> QED BY <2>1, <2>2, <2>3 DEF FileKept, ConfigRead, PasswordMeant
<1>10. CASE ObtainPassword
  BY <1>1, <1>10 DEF ObtainPassword, Obtained, Unsettled, FileKept, ConfigRead, PasswordMeant, SentAsMeant
<1>11. CASE Authenticate
  <2>1. /\ UNCHANGED <<invocation, file, config, target, password, dials>> /\ Settled
        /\ phase' \in {"ready", "failed"} /\ Obtained(password)
    BY <1>11 DEF Authenticate, PasswordMeant
  <2>2. Settled' /\ invocation.command # "config" /\ file \in Files
    BY <2>1, <1>1 DEF Settled
  <2>3. SentAsMeant'
    <3> SUFFICES ASSUME NEW s \in sent'
                 PROVE  /\ s.to = Options /\ s.username = target.username
                        /\ Obtained(s.password)
                        /\ Options.encrypted \/ target.allow_plaintext
      BY <2>1, <1>1 DEF SentAsMeant
    <3>1. CASE s \in sent
      BY <3>1 DEF SentAsMeant
    <3>2. CASE s \notin sent
      <4>1. /\ Options.encrypted \/ target.allow_plaintext
            /\ s = [to |-> Options, username |-> target.username, password |-> password]
        BY <1>11, <3>2 DEF Authenticate
      <4> QED BY <4>1, <2>1
    <3> QED BY <3>1, <3>2
  <2> QED BY <2>1, <2>2, <2>3 DEF FileKept, ConfigRead, PasswordMeant
<1>12. CASE Redial
  BY <1>1, <1>12 DEF Redial, OpensTheReader, Unsettled, FileKept, ConfigRead, PasswordMeant, SentAsMeant
<1> QED
  BY <1>2, <1>3, <1>4, <1>5, <1>6, <1>7, <1>8, <1>9, <1>10, <1>11, <1>12 DEF SetupNext

(***************************************************************************)
(* For every command line, every configuration file and however often the  *)
(* reader reconnects: what is offered to a server was written for it, over *)
(* a port of its own, with a password from one source that yielded one.    *)
(***************************************************************************)
THEOREM CredentialsAtHome == SetupSpec => []CredentialsStayHome
PROOF
<1>1. SetupInit => SetupInv
  BY DEF SetupInit, SetupInv, Unsettled, FileKept, ConfigRead, PasswordMeant, SentAsMeant
<1>2. SetupInv /\ [SetupNext]_setupVars => SetupInv'
  <2>1. SetupInv /\ UNCHANGED setupVars => SetupInv'
    BY DEF setupVars, SetupInv, Settled, Unsettled, FileKept, ConfigRead, PasswordMeant, SentAsMeant,
           Obtained, Resolved, FromEnvironment, FromCommand, Options, Flags, Loads
  <2> QED BY <2>1, SetupStep
<1> QED
  BY <1>1, <1>2, SetupInvEnough, PTL DEF SetupSpec

-----------------------------------------------------------------------------
(* Matching one pattern                                                    *)

\* Some way to cut what is left of the name, j characters being taken, into the runs
\* of what is left of the pattern, i characters being used.
RestCut(cuts, pat, str, i, j) ==
    /\ cuts \in [i..Len(pat) -> 0..Len(str)]
    /\ cuts[i] = j /\ cuts[Len(pat)] = Len(str)
    /\ \A k \in (i + 1)..Len(pat) : Takes(pat, str, k, cuts[k - 1], cuts[k])

Rest(pat, str, i, j) == \E cuts : RestCut(cuts, pat, str, i, j)

\* What a pattern means is that all of it takes all of the name.
LEMMA RestIsAll ==
    ASSUME NEW pat \in Seq(Characters), NEW str \in Seq(Characters)
    PROVE  Denotes1(pat, str) <=> Rest(pat, str, 0, 0)
  BY DEF Denotes1, Rest, RestCut

\* Nothing left of the pattern takes nothing.
LEMMA RestOfNothing ==
    ASSUME NEW pat \in Seq(Characters), NEW str \in Seq(Characters), NEW j \in 0..Len(str)
    PROVE  Rest(pat, str, Len(pat), j) <=> j = Len(str)
PROOF
<1> DEFINE L == Len(pat)
           cuts == [k \in L..L |-> j]
<1>1. L \in Nat /\ Len(str) \in Nat
  OBVIOUS
<1>2. ASSUME Rest(pat, str, L, j) PROVE j = Len(str)
  BY <1>2 DEF Rest, RestCut
<1>3. ASSUME j = Len(str) PROVE Rest(pat, str, L, j)
  <2>1. RestCut(cuts, pat, str, L, j)
    BY <1>1, <1>3 DEF RestCut
  <2> QED BY <2>1 DEF Rest
<1> QED BY <1>2, <1>3

\* The first character of what is left takes a run, the others take the rest.
LEMMA RestTakes ==
    ASSUME NEW pat \in Seq(Characters), NEW str \in Seq(Characters),
           NEW i \in 0..Len(pat), i < Len(pat), NEW j \in 0..Len(str)
    PROVE  Rest(pat, str, i, j) <=>
              \E t \in 0..Len(str) : Takes(pat, str, i + 1, j, t) /\ Rest(pat, str, i + 1, t)
PROOF
<1> DEFINE L == Len(pat)
           N == Len(str)
<1>1. L \in Nat /\ N \in Nat /\ i \in Nat /\ i + 1 \in i..L /\ i \in i..L /\ i + 1 <= L /\ L \in (i + 1)..L
  OBVIOUS
<1>2. ASSUME Rest(pat, str, i, j)
      PROVE  \E t \in 0..N : Takes(pat, str, i + 1, j, t) /\ Rest(pat, str, i + 1, t)
  <2>1. PICK cuts : RestCut(cuts, pat, str, i, j)
    BY <1>2 DEF Rest
  <2> DEFINE later == [k \in (i + 1)..L |-> cuts[k]]
             t == cuts[i + 1]
  <2>2. t \in 0..N
    BY <1>1, <2>1 DEF RestCut
  <2>3. Takes(pat, str, i + 1, j, t)
    <3>1. i + 1 \in (i + 1)..L /\ (i + 1) - 1 = i
      BY <1>1
    <3>2. Takes(pat, str, i + 1, cuts[(i + 1) - 1], cuts[i + 1])
      BY <2>1, <3>1 DEF RestCut
    <3> QED BY <2>1, <3>1, <3>2 DEF RestCut
  <2>4. RestCut(later, pat, str, i + 1, t)
    <3>1. later \in [(i + 1)..L -> 0..N]
      BY <1>1, <2>1 DEF RestCut
    <3>2. later[i + 1] = t /\ later[L] = N
      BY <1>1, <2>1 DEF RestCut
    <3>3. ASSUME NEW k \in ((i + 1) + 1)..L PROVE Takes(pat, str, k, later[k - 1], later[k])
      <4>1. k \in (i + 1)..L /\ k - 1 \in (i + 1)..L
        BY <1>1
      <4>2. Takes(pat, str, k, cuts[k - 1], cuts[k])
        BY <2>1, <4>1 DEF RestCut
      <4> QED BY <4>1, <4>2
    <3> QED BY <3>1, <3>2, <3>3 DEF RestCut
  <2> QED BY <2>2, <2>3, <2>4 DEF Rest
<1>3. ASSUME NEW t \in 0..N, Takes(pat, str, i + 1, j, t), Rest(pat, str, i + 1, t)
      PROVE  Rest(pat, str, i, j)
  <2>1. PICK cuts : RestCut(cuts, pat, str, i + 1, t)
    BY <1>3 DEF Rest
  <2> DEFINE longer == [k \in i..L |-> IF k = i THEN j ELSE cuts[k]]
  <2>2. longer \in [i..L -> 0..N]
    BY <1>1, <2>1 DEF RestCut
  <2>3. longer[i] = j /\ longer[L] = N
    BY <1>1, <2>1 DEF RestCut
  <2>4. ASSUME NEW k \in (i + 1)..L PROVE Takes(pat, str, k, longer[k - 1], longer[k])
    <3>1. CASE k = i + 1
      <4>1. longer[k] = t /\ longer[k - 1] = j
        BY <1>1, <2>1, <3>1 DEF RestCut
      <4> QED BY <1>3, <3>1, <4>1
    <3>2. CASE k # i + 1
      <4>1. k \in ((i + 1) + 1)..L /\ longer[k] = cuts[k] /\ longer[k - 1] = cuts[k - 1]
        BY <1>1, <3>2
      <4>2. Takes(pat, str, k, cuts[k - 1], cuts[k])
        BY <2>1, <4>1 DEF RestCut
      <4> QED BY <4>1, <4>2
    <3> QED BY <3>1, <3>2
  <2>5. RestCut(longer, pat, str, i, j)
    BY <2>2, <2>3, <2>4 DEF RestCut
  <2> QED BY <2>5 DEF Rest
<1> QED BY <1>2, <1>3

\* A character other than a star takes one character of the name.
LEMMA RestOfCharacter ==
    ASSUME NEW pat \in Seq(Characters), NEW str \in Seq(Characters),
           NEW i \in 0..Len(pat), i < Len(pat), NEW j \in 0..Len(str), pat[i + 1] # "*"
    PROVE  Rest(pat, str, i, j) <=>
              j < Len(str) /\ pat[i + 1] \in {"?", str[j + 1]} /\ Rest(pat, str, i + 1, j + 1)
PROOF
<1>1. Rest(pat, str, i, j) <=>
         \E t \in 0..Len(str) : t = j + 1 /\ pat[i + 1] \in {"?", str[t]} /\ Rest(pat, str, i + 1, t)
  BY RestTakes DEF Takes
<1>2. j + 1 \in 0..Len(str) <=> j < Len(str)
  OBVIOUS
<1> QED BY <1>1, <1>2

\* A star takes any run.
LEMMA RestOfStar ==
    ASSUME NEW pat \in Seq(Characters), NEW str \in Seq(Characters),
           NEW i \in 0..Len(pat), i < Len(pat), NEW j \in 0..Len(str), pat[i + 1] = "*"
    PROVE  Rest(pat, str, i, j) <=> \E t \in j..Len(str) : Rest(pat, str, i + 1, t)
PROOF
<1>1. Rest(pat, str, i, j) <=> \E t \in 0..Len(str) : j <= t /\ Rest(pat, str, i + 1, t)
  BY RestTakes DEF Takes
<1>2. \A t : t \in j..Len(str) <=> t \in 0..Len(str) /\ j <= t
  OBVIOUS
<1> QED BY <1>1, <1>2

\* Characters other than stars take as many characters of the name as they are.
LEMMA RestSkips ==
    ASSUME NEW pat \in Seq(Characters), NEW str \in Seq(Characters),
           NEW s \in 0..Len(pat), NEW q \in s..Len(pat), NEW j \in 0..Len(str),
           \A k \in (s + 1)..q : pat[k] # "*",
           Rest(pat, str, s, j)
    PROVE  j + (q - s) <= Len(str) /\ Rest(pat, str, q, j + (q - s))
PROOF
<1> DEFINE Reached(m) == j + (m - s) <= Len(str) /\ Rest(pat, str, m, j + (m - s))
           Bad == {m \in s..q : ~Reached(m)}
<1>1. Len(pat) \in Nat /\ Len(str) \in Nat /\ s \in Nat /\ q \in Nat /\ j \in Nat /\ q \in s..q
  OBVIOUS
<1>2. Reached(s)
  BY <1>1
<1>3. ASSUME NEW m \in s..q, m # s, Reached(m - 1) PROVE Reached(m)
  <2>1. m \in Nat /\ m - 1 \in 0..Len(pat) /\ m - 1 < Len(pat) /\ (m - 1) + 1 = m /\ pat[m] # "*"
    BY <1>1, <1>3
  <2> DEFINE t == j + ((m - 1) - s)
  <2>2. t \in 0..Len(str) /\ t + 1 = j + (m - s)
    BY <1>1, <1>3, <2>1
  <2>3. Rest(pat, str, m - 1, t)
    BY <1>3
  <2> HIDE DEF t
  <2>4. t < Len(str) /\ Rest(pat, str, m, t + 1)
    BY <2>1, <2>2, <2>3, RestOfCharacter
  <2>5. t + 1 <= Len(str)
    BY <1>1, <2>2, <2>4
  <2> QED BY <2>2, <2>4, <2>5
<1> HIDE DEF Reached
<1>4. Bad = {}
  <2> SUFFICES ASSUME Bad # {} PROVE FALSE
    OBVIOUS
  <2>1. Bad \subseteq Nat
    BY <1>1
  <2>2. PICK m \in Bad : \A x \in Bad : m <= x
    BY <2>1, Packing!LeastNumber
  <2>3. m \in s..q /\ ~Reached(m) /\ m # s
    BY <1>2, <2>2
  <2>4. m - 1 \in s..q /\ ~(m <= m - 1)
    BY <1>1, <2>3
  <2>5. Reached(m - 1)
    BY <2>2, <2>4
  <2> QED BY <1>3, <2>3, <2>5
<1>5. Reached(q)
  BY <1>1, <1>4
<1> QED BY <1>5 DEF Reached

\* With the name used up, what is left of the pattern may only be stars.
LEMMA RestAtEnd ==
    ASSUME NEW pat \in Seq(Characters), NEW str \in Seq(Characters), NEW i \in 0..Len(pat)
    PROVE  Rest(pat, str, i, Len(str)) <=> \A k \in (i + 1)..Len(pat) : pat[k] = "*"
PROOF
<1> DEFINE L == Len(pat)
           N == Len(str)
           Right(d) == Rest(pat, str, L - d, N) <=> \A k \in ((L - d) + 1)..L : pat[k] = "*"
           Bad == {d \in 0..L : ~Right(d)}
<1>1. L \in Nat /\ N \in Nat /\ N \in 0..N
  OBVIOUS
<1>2. Right(0)
  <2>1. L - 0 = L /\ (L + 1)..L = {}
    BY <1>1
  <2> QED BY <1>1, <2>1, RestOfNothing
<1>3. ASSUME NEW d \in 0..L, d # 0, Right(d - 1) PROVE Right(d)
  <2> DEFINE m == L - d
  <2>1. m \in 0..L /\ m < L /\ L - (d - 1) = m + 1 /\ m \in Nat
    BY <1>1, <1>3
  <2>2. Rest(pat, str, m + 1, N) <=> \A k \in ((m + 1) + 1)..L : pat[k] = "*"
    BY <1>3, <2>1
  <2>3. (\A k \in (m + 1)..L : pat[k] = "*") <=> pat[m + 1] = "*" /\ \A k \in ((m + 1) + 1)..L : pat[k] = "*"
    <3>1. \A k : k \in (m + 1)..L <=> k = m + 1 \/ k \in ((m + 1) + 1)..L
      BY <1>1, <2>1
    <3> QED BY <3>1
  <2> HIDE DEF m
  <2>4. CASE pat[m + 1] = "*"
    <3>1. \A t : t \in N..N <=> t = N
      BY <1>1
    <3>2. Rest(pat, str, m, N) <=> Rest(pat, str, m + 1, N)
      BY <1>1, <2>1, <2>4, <3>1, RestOfStar
    <3> QED BY <2>2, <2>3, <2>4, <3>2 DEF m
  <2>5. CASE pat[m + 1] # "*"
    <3>1. ~Rest(pat, str, m, N)
      <4>1. ~(N < N)
        BY <1>1
      <4> QED BY <1>1, <2>1, <2>5, <4>1, RestOfCharacter
    <3> QED BY <2>3, <2>5, <3>1 DEF m
  <2> QED BY <2>4, <2>5
<1> HIDE DEF Right
<1>4. Bad = {}
  <2> SUFFICES ASSUME Bad # {} PROVE FALSE
    OBVIOUS
  <2>1. Bad \subseteq Nat
    BY <1>1
  <2>2. PICK d \in Bad : \A x \in Bad : d <= x
    BY <2>1, Packing!LeastNumber
  <2>3. d \in 0..L /\ ~Right(d) /\ d # 0
    BY <1>2, <2>2
  <2>4. d - 1 \in 0..L /\ ~(d <= d - 1)
    BY <1>1, <2>3
  <2>5. Right(d - 1)
    BY <2>2, <2>4
  <2> QED BY <1>3, <2>3, <2>5
<1>5. L - i \in 0..L /\ L - (L - i) = i
  BY <1>1
<1>6. Right(L - i)
  BY <1>4, <1>5
<1> QED BY <1>5, <1>6 DEF Right

-----------------------------------------------------------------------------
(***************************************************************************)
(* Where matches_one stands, p and n counting from 1.  With a star behind  *)
(* it, what lies between that star and p has been taken by the characters  *)
(* from resume to n, one by one; the name matches if the pattern after     *)
(* that star takes the rest from resume or from any later place; and it    *)
(* does so from resume if what is left at p takes what is left at n.       *)
(***************************************************************************)
Stands(pat, str, p, n, star, resume) ==
    /\ star = 0 => (Denotes1(pat, str) <=> Rest(pat, str, p - 1, n - 1))
    /\ star # 0 =>
          /\ star < p /\ resume \in 1..n /\ n - resume = (p - 1) - star
          /\ \A k \in (star + 1)..(p - 1) : pat[k] # "*"
          /\ Denotes1(pat, str) <=> \E t \in (resume - 1)..Len(str) : Rest(pat, str, star, t)
          /\ Rest(pat, str, star, resume - 1) <=> Rest(pat, str, p - 1, n - 1)

\* The name at n matches what is left, or the name is used up, and so decides.
LEMMA StandsDecided ==
    ASSUME NEW pat \in Seq(Characters), NEW str \in Seq(Characters),
           NEW p \in 1..(Len(pat) + 1), NEW n \in 1..(Len(str) + 1),
           NEW star \in 0..Len(pat), NEW resume \in Nat,
           Stands(pat, str, p, n, star, resume),
           n = Len(str) + 1 \/ (p <= Len(pat) /\ pat[p] = "*")
    PROVE  Denotes1(pat, str) <=> Rest(pat, str, p - 1, n - 1)
PROOF
<1>1. Len(pat) \in Nat /\ Len(str) \in Nat /\ p - 1 \in 0..Len(pat) /\ n - 1 \in 0..Len(str) /\ (p - 1) + 1 = p
  OBVIOUS
<1>2. CASE star = 0
  BY <1>2 DEF Stands
<1>3. CASE star # 0
  <2>1. /\ star < p /\ resume \in 1..n /\ n - resume = (p - 1) - star
        /\ \A k \in (star + 1)..(p - 1) : pat[k] # "*"
        /\ Denotes1(pat, str) <=> \E t \in (resume - 1)..Len(str) : Rest(pat, str, star, t)
        /\ Rest(pat, str, star, resume - 1) <=> Rest(pat, str, p - 1, n - 1)
    BY <1>3 DEF Stands
  <2>2. resume - 1 \in (resume - 1)..Len(str) /\ p - 1 \in star..Len(pat) /\ resume - 1 \in Nat
    BY <1>1, <2>1
  <2>3. ASSUME NEW t \in (resume - 1)..Len(str), Rest(pat, str, star, t)
        PROVE  Rest(pat, str, p - 1, n - 1)
    <3> DEFINE u == t + ((p - 1) - star)
    <3>1. t \in 0..Len(str)
      BY <1>1, <2>2
    <3>2. u <= Len(str) /\ Rest(pat, str, p - 1, u)
      BY <2>1, <2>2, <2>3, <3>1, RestSkips
    <3>3. n - 1 <= u /\ u \in Nat
      BY <1>1, <2>1, <2>2, <3>1
    <3> HIDE DEF u
    <3>4. CASE n = Len(str) + 1
      <4>1. u = n - 1
        BY <1>1, <3>2, <3>3, <3>4
      <4> QED BY <3>2, <4>1
    <3>5. CASE p <= Len(pat) /\ pat[p] = "*"
      <4>1. u \in 0..Len(str) /\ p - 1 < Len(pat)
        BY <1>1, <3>2, <3>3, <3>5
      <4>2. PICK v \in u..Len(str) : Rest(pat, str, p, v)
        BY <1>1, <3>2, <3>5, <4>1, RestOfStar
      <4>3. v \in (n - 1)..Len(str)
        BY <1>1, <3>3
      <4>4. pat[(p - 1) + 1] = "*" /\ \E x \in (n - 1)..Len(str) : Rest(pat, str, (p - 1) + 1, x)
        BY <1>1, <3>5, <4>2, <4>3
      <4> QED BY <1>1, <4>1, <4>4, RestOfStar
    <3> QED BY <3>4, <3>5
  <2> QED BY <2>1, <2>2, <2>3
<1> QED BY <1>2, <1>3

\* Reading a star forgets the one before it, and loses no match.
LEMMA StandsAtStar ==
    ASSUME NEW pat \in Seq(Characters), NEW str \in Seq(Characters),
           NEW p \in 1..(Len(pat) + 1), NEW n \in 1..(Len(str) + 1),
           NEW star \in 0..Len(pat), NEW resume \in Nat,
           Stands(pat, str, p, n, star, resume), p <= Len(pat), pat[p] = "*"
    PROVE  Stands(pat, str, p + 1, n, p, n)
PROOF
<1>1. /\ Len(pat) \in Nat /\ Len(str) \in Nat /\ p - 1 \in 0..Len(pat) /\ n - 1 \in 0..Len(str)
      /\ (p - 1) + 1 = p /\ p - 1 < Len(pat) /\ (p + 1) - 1 = p /\ (p + 1)..p = {}
      /\ p < p + 1 /\ n \in 1..n /\ n - n = p - p /\ p # 0
  OBVIOUS
<1>2. Denotes1(pat, str) <=> Rest(pat, str, p - 1, n - 1)
  BY StandsDecided
<1>3. Rest(pat, str, p - 1, n - 1) <=> \E t \in (n - 1)..Len(str) : Rest(pat, str, p, t)
  BY <1>1, RestOfStar
<1> QED BY <1>1, <1>2, <1>3 DEF Stands

\* A character that fits is taken.
LEMMA StandsAfterCharacter ==
    ASSUME NEW pat \in Seq(Characters), NEW str \in Seq(Characters),
           NEW p \in 1..(Len(pat) + 1), NEW n \in 1..(Len(str) + 1),
           NEW star \in 0..Len(pat), NEW resume \in Nat,
           Stands(pat, str, p, n, star, resume), p <= Len(pat), n <= Len(str),
           pat[p] # "*", pat[p] \in {"?", str[n]}
    PROVE  Stands(pat, str, p + 1, n + 1, star, resume)
PROOF
<1>1. /\ Len(pat) \in Nat /\ Len(str) \in Nat /\ p - 1 \in 0..Len(pat) /\ n - 1 \in 0..Len(str)
      /\ (p - 1) + 1 = p /\ (n - 1) + 1 = n /\ p - 1 < Len(pat) /\ n - 1 < Len(str)
      /\ (p + 1) - 1 = p /\ (n + 1) - 1 = n
  OBVIOUS
<1>2. Rest(pat, str, p - 1, n - 1) <=> Rest(pat, str, p, n)
  BY <1>1, RestOfCharacter
<1>3. ASSUME star # 0, star < p, resume \in 1..n, n - resume = (p - 1) - star,
             \A k \in (star + 1)..(p - 1) : pat[k] # "*"
      PROVE  /\ star < p + 1 /\ resume \in 1..(n + 1) /\ (n + 1) - resume = p - star
             /\ \A k \in (star + 1)..p : pat[k] # "*"
  <2>1. \A k \in (star + 1)..p : k = p \/ k \in (star + 1)..(p - 1)
    BY <1>1
  <2>2. star < p + 1 /\ resume \in 1..(n + 1) /\ (n + 1) - resume = p - star
    BY <1>1, <1>3
  <2> QED BY <1>3, <2>1, <2>2
<1> QED BY <1>1, <1>2, <1>3 DEF Stands

\* Where nothing fits, what is left does not match from here.
LEMMA NothingFits ==
    ASSUME NEW pat \in Seq(Characters), NEW str \in Seq(Characters),
           NEW p \in 1..(Len(pat) + 1), NEW n \in 1..Len(str),
           p <= Len(pat) => pat[p] \notin {"*", "?", str[n]}
    PROVE  ~Rest(pat, str, p - 1, n - 1)
PROOF
<1>1. /\ Len(pat) \in Nat /\ Len(str) \in Nat /\ p - 1 \in 0..Len(pat) /\ n - 1 \in 0..Len(str)
      /\ (p - 1) + 1 = p /\ (n - 1) + 1 = n /\ n - 1 # Len(str)
  OBVIOUS
<1>2. CASE p <= Len(pat)
  <2>1. p - 1 < Len(pat)
    BY <1>1, <1>2
  <2> QED BY <1>1, <1>2, <2>1, RestOfCharacter
<1>3. CASE ~(p <= Len(pat))
  <2>1. p - 1 = Len(pat)
    BY <1>1, <1>3
  <2> QED BY <1>1, <2>1, RestOfNothing
<1> QED BY <1>2, <1>3

\* Going back gives the last star one character more.
LEMMA StandsBack ==
    ASSUME NEW pat \in Seq(Characters), NEW str \in Seq(Characters),
           NEW p \in 1..(Len(pat) + 1), NEW n \in 1..Len(str),
           NEW star \in 0..Len(pat), NEW resume \in Nat,
           Stands(pat, str, p, n, star, resume), star # 0,
           p <= Len(pat) => pat[p] \notin {"*", "?", str[n]}
    PROVE  Stands(pat, str, star + 1, resume + 1, star, resume + 1) /\ resume <= Len(str)
PROOF
<1>1. /\ Len(pat) \in Nat /\ Len(str) \in Nat
      /\ star < p /\ resume \in 1..n
      /\ Denotes1(pat, str) <=> \E t \in (resume - 1)..Len(str) : Rest(pat, str, star, t)
      /\ ~Rest(pat, str, star, resume - 1)
  BY NothingFits DEF Stands
<1>2. \A t : t \in (resume - 1)..Len(str) <=> t = resume - 1 \/ t \in ((resume + 1) - 1)..Len(str)
  BY <1>1
<1>3. Denotes1(pat, str) <=> \E t \in ((resume + 1) - 1)..Len(str) : Rest(pat, str, star, t)
  BY <1>1, <1>2
<1>4. /\ resume <= Len(str) /\ star < star + 1 /\ resume + 1 \in 1..(resume + 1)
      /\ (resume + 1) - (resume + 1) = ((star + 1) - 1) - star
      /\ (star + 1)..((star + 1) - 1) = {} /\ (star + 1) - 1 = star
  BY <1>1
<1> QED BY <1>3, <1>4 DEF Stands

Scans == [p : 1..(Len(pattern) + 1), n : 1..(Len(name) + 1), star : 0..Len(pattern),
          resume : Nat, verdict : {"open", "yes", "no"}]

\* The locals of matches_one, and what its answer says.
ScanInv ==
    /\ trial \in Seq(Characters) \X Seq(Characters)
    /\ scan \in Scans
    /\ scan.verdict = "open" => Stands(pattern, name, scan.p, scan.n, scan.star, scan.resume)
    /\ MatchesAsMeant

Located(p, n, star, resume) ==
    [p |-> p, n |-> n, star |-> star, resume |-> resume, verdict |-> "open"]

\* matches_one starts before both.
LEMMA ScanStart == PatternsInit => ScanInv
PROOF
<1> SUFFICES ASSUME PatternsInit PROVE ScanInv
  OBVIOUS
<1>1. trial \in Seq(Characters) \X Seq(Characters)
  BY PatternsAssumption DEF PatternsInit
<1>2. pattern \in Seq(Characters) /\ name \in Seq(Characters)
  BY <1>1 DEF pattern, name
<1>3. Stands(pattern, name, 1, 1, 0, 1)
  BY <1>2, RestIsAll DEF Stands
<1>4. scan = [p |-> 1, n |-> 1, star |-> 0, resume |-> 1, verdict |-> "open"]
  BY DEF PatternsInit
<1>5. Len(pattern) \in Nat /\ Len(name) \in Nat
  BY <1>2
<1> QED BY <1>1, <1>3, <1>4, <1>5 DEF ScanInv, MatchesAsMeant, Scans

\* Every turn of its loops keeps to where it stands.
LEMMA ScanStep == ScanInv /\ Matching => ScanInv'
PROOF
<1> SUFFICES ASSUME ScanInv, Matching PROVE ScanInv'
  OBVIOUS
<1>1. /\ pattern \in Seq(Characters) /\ name \in Seq(Characters) /\ trial' = trial
      /\ pattern' = pattern /\ name' = name
  BY DEF ScanInv, Matching, pattern, name
<1>2. /\ Len(pattern) \in Nat /\ Len(name) \in Nat
      /\ scan.p \in 1..(Len(pattern) + 1) /\ scan.n \in 1..(Len(name) + 1)
      /\ scan.star \in 0..Len(pattern) /\ scan.resume \in Nat
  BY <1>1 DEF ScanInv, Scans
<1>3. scan.verdict = "open" /\ Stands(pattern, name, scan.p, scan.n, scan.star, scan.resume)
  BY DEF ScanInv, Matching, ReadStar, ReadCharacter, GoBack, GiveUp, EndOfName, Stuck, Scanning
<1>4. ASSUME Scanning PROVE scan.n \in 1..Len(name) /\ scan.n <= Len(name) /\ name[scan.n] \in Characters
  BY <1>1, <1>2, <1>4 DEF Scanning
<1>5. ASSUME NEW c \in Characters PROVE c # "end"
  BY PatternsAssumption
<1>6. ASSUME NEW p \in 1..(Len(pattern) + 1), NEW n \in 1..(Len(name) + 1),
             NEW star \in 0..Len(pattern), NEW resume \in Nat,
             Stands(pattern, name, p, n, star, resume),
             scan' = Located(p, n, star, resume)
      PROVE  ScanInv'
  <2>1. trial' \in Seq(Characters) \X Seq(Characters)
    BY <1>1 DEF ScanInv
  <2>2. /\ scan'.p = p /\ scan'.n = n /\ scan'.star = star /\ scan'.resume = resume /\ scan'.verdict = "open"
        /\ scan' \in Scans
    BY <1>6 DEF Located, Scans
  <2>3. Scans' = Scans
    BY <1>1 DEF Scans
  <2> QED BY <1>1, <1>6, <2>1, <2>2, <2>3 DEF ScanInv, MatchesAsMeant
<1>7. ASSUME NEW v \in {"yes", "no"}, scan' = [scan EXCEPT !.verdict = v],
             v = "yes" <=> Denotes1(pattern, name)
      PROVE  ScanInv'
  <2>1. trial' \in Seq(Characters) \X Seq(Characters)
    BY <1>1 DEF ScanInv
  <2>2. /\ scan'.verdict = v
        /\ scan' \in Scans
    BY <1>7 DEF ScanInv, Scans
  <2>3. Scans' = Scans
    BY <1>1 DEF Scans
  <2> QED BY <1>1, <1>7, <2>1, <2>2, <2>3 DEF ScanInv, MatchesAsMeant
<1>9. CASE ReadStar
  <2>1. Scanning /\ At(scan.p) = "*"
    BY <1>9 DEF ReadStar
  <2>2. scan.p <= Len(pattern) /\ pattern[scan.p] = "*"
    BY <1>2, <2>1 DEF At
  <2>3. Stands(pattern, name, scan.p + 1, scan.n, scan.p, scan.n)
    BY <1>1, <1>2, <1>3, <2>2, StandsAtStar
  <2>4. scan' = Located(scan.p + 1, scan.n, scan.p, scan.n)
    <3>1. scan \in Scans
      BY DEF ScanInv
    <3> QED BY <1>3, <1>9, <3>1 DEF ReadStar, Scans, Located
  <2>5. scan.p + 1 \in 1..(Len(pattern) + 1) /\ scan.p \in 0..Len(pattern) /\ scan.n \in Nat
    BY <1>2, <2>2
  <2> QED BY <1>2, <1>6, <2>3, <2>4, <2>5
<1>10. CASE ReadCharacter
  <2>1. Scanning /\ At(scan.p) # "*" /\ At(scan.p) \in {"?", name[scan.n]}
    BY <1>10 DEF ReadCharacter
  <2>2. At(scan.p) # "end"
    BY <1>4, <1>5, <2>1
  <2>3. scan.p <= Len(pattern) /\ pattern[scan.p] # "*" /\ pattern[scan.p] \in {"?", name[scan.n]}
    BY <1>2, <2>1, <2>2 DEF At
  <2>4. Stands(pattern, name, scan.p + 1, scan.n + 1, scan.star, scan.resume)
    BY <1>1, <1>2, <1>3, <1>4, <2>1, <2>3, StandsAfterCharacter
  <2>5. scan' = Located(scan.p + 1, scan.n + 1, scan.star, scan.resume)
    <3>1. scan \in Scans
      BY DEF ScanInv
    <3> QED BY <1>3, <1>10, <3>1 DEF ReadCharacter, Scans, Located
  <2>6. scan.p + 1 \in 1..(Len(pattern) + 1) /\ scan.n + 1 \in 1..(Len(name) + 1)
    BY <1>2, <1>4, <2>1, <2>3
  <2> QED BY <1>2, <1>6, <2>4, <2>5, <2>6
<1>11. CASE GoBack \/ GiveUp
  <2>1. Scanning /\ At(scan.p) \notin {"*", "?", name[scan.n]}
    BY <1>11 DEF GoBack, GiveUp, Stuck
  <2>2. scan.n \in 1..Len(name) /\ (scan.p <= Len(pattern) => pattern[scan.p] \notin {"*", "?", name[scan.n]})
    BY <1>4, <2>1 DEF At
  <2>3. CASE GoBack
    <3>1. scan.star # 0
      BY <2>3 DEF GoBack
    <3>2. /\ Stands(pattern, name, scan.star + 1, scan.resume + 1, scan.star, scan.resume + 1)
          /\ scan.resume <= Len(name)
      BY <1>1, <1>2, <1>3, <2>2, <3>1, StandsBack
    <3>3. scan' = Located(scan.star + 1, scan.resume + 1, scan.star, scan.resume + 1)
      <4>1. scan \in Scans
        BY DEF ScanInv
      <4> QED BY <1>3, <2>3, <4>1 DEF GoBack, Back, Scans, Located
    <3>4. /\ scan.star + 1 \in 1..(Len(pattern) + 1) /\ scan.resume + 1 \in 1..(Len(name) + 1)
          /\ scan.resume + 1 \in Nat
      BY <1>2, <3>2
    <3> QED BY <1>2, <1>6, <3>2, <3>3, <3>4
  <2>4. CASE GiveUp
    <3>1. scan.star = 0 /\ scan' = [scan EXCEPT !.verdict = "no"]
      BY <2>4 DEF GiveUp
    <3>2. ~Denotes1(pattern, name)
      BY <1>1, <1>2, <1>3, <2>2, <3>1, NothingFits DEF Stands
    <3> QED BY <1>7, <3>1, <3>2
  <2> QED BY <1>11, <2>3, <2>4
<1>12. CASE EndOfName
  <2>1. scan.n = Len(name) + 1 /\ scan' = [scan EXCEPT !.verdict = Verdict]
    BY <1>2, <1>12 DEF EndOfName
  <2>2. Denotes1(pattern, name) <=> Rest(pattern, name, scan.p - 1, scan.n - 1)
    BY <1>1, <1>2, <1>3, <2>1, StandsDecided
  <2>3. scan.n - 1 = Len(name) /\ scan.p - 1 \in 0..Len(pattern) /\ (scan.p - 1) + 1 = scan.p
    BY <1>2, <2>1
  <2>4. Rest(pattern, name, scan.p - 1, Len(name)) <=> \A k \in scan.p..Len(pattern) : pattern[k] = "*"
    BY <1>1, <2>3, RestAtEnd
  <2>5. Verdict \in {"yes", "no"} /\ (Verdict = "yes" <=> \A k \in scan.p..Len(pattern) : pattern[k] = "*")
    BY DEF Verdict
  <2> QED BY <1>7, <2>1, <2>2, <2>3, <2>4, <2>5
<1> QED BY <1>9, <1>10, <1>11, <1>12 DEF Matching

(***************************************************************************)
(* The matcher of the code, which can go back to one star only, decides    *)
(* as a search through every way to cut the name among the stars would,    *)
(* whatever the pattern and the name (command.rs, matches_one).            *)
(***************************************************************************)
THEOREM MatcherIsRight == PatternsSpec => []MatchesAsMeant
PROOF
<1>1. ScanInv /\ [PatternsNext]_patternVars => ScanInv'
  <2> SUFFICES ASSUME ScanInv, [PatternsNext]_patternVars PROVE ScanInv'
    OBVIOUS
  <2>1. CASE Matching
    BY <2>1, ScanStep
  <2>2. CASE UNCHANGED <<trial, scan>>
    BY <2>2 DEF ScanInv, Scans, MatchesAsMeant, pattern, name
  <2> QED BY <2>1, <2>2 DEF PatternsNext, Listing, patternVars
<1>2. ScanInv => MatchesAsMeant
  BY DEF ScanInv
<1> QED BY ScanStart, <1>1, <1>2, PTL DEF PatternsSpec

-----------------------------------------------------------------------------
(* Packing subscriptions                                                   *)

\* An item has a length.
LEMMA LengthIsNat == \A item \in Items : Length(item) \in Nat
PROOF
<1> SUFFICES ASSUME NEW item \in Items PROVE Length(item) \in Nat
  OBVIOUS
<1>1. item.text \in Seq(Characters)
  BY DEF Items
<1>2. Len(item.text) \in Nat
  BY <1>1
<1>3. CASE item.negated
  BY <1>2, <1>3 DEF Length
<1>4. CASE ~item.negated
  BY <1>2, <1>4 DEF Length
<1> QED BY <1>3, <1>4

\* The total is the fold of FoldTheorems.
LEMMA TotalIsFold == ASSUME NEW c, NEW items PROVE Total(items) = Packing!Fold(c, 0, items)
  BY DEF Total, TotalStep, FoldLeft, MapThenFoldSet, Max,
         Packing!Fold, Packing!FoldLeft, Packing!MapThenFoldSet, Packing!Max

\* One item more adds its length.
LEMMA TotalOfAppend ==
    ASSUME NEW items \in Seq(Items), NEW item \in Items
    PROVE  /\ Total(items) \in Nat
           /\ Total(Append(items, item)) = Total(items) + Length(item)
           /\ Total(<<item>>) = Length(item)
PROOF
<1> DEFINE n == Len(items)
           more == Append(items, item)
<1>1. /\ n \in Nat /\ DOMAIN items = 1..n /\ \A k \in 1..n : items[k] \in Items
      /\ n + 1 \in Nat /\ DOMAIN more = 1..(n + 1)
      /\ \A k \in 1..n : more[k] = items[k]
      /\ more[n + 1] = item
  OBVIOUS
<1> HIDE DEF n, more
<1>2. PICK it : Packing!Traces(it, 0, 0, items, n)
  BY <1>1, Packing!FoldTrace
<1>3. it[0] = 0 /\ (\A k \in 1..n : it[k] = it[k - 1] + Length(items[k])) /\ Total(items) = it[n]
  BY <1>2, TotalIsFold DEF Packing!Traces, TotalStep
<1>4. ASSUME NEW c, c[0] = 0, \A k \in 1..n : c[k] = c[k - 1] + Length(items[k])
      PROVE  Total(items) \in Nat /\ Total(items) = c[n]
  <2>1. TotalSoFar(c, 0, 0)
    BY <1>4 DEF TotalSoFar
  <2>2. \A k \in 1..n : \A x : TotalSoFar(c, k - 1, x) => TotalSoFar(c, k, TotalStep(c, x, items[k]))
    BY <1>1, <1>4, LengthIsNat DEF TotalSoFar, TotalStep
  <2>3. TotalSoFar(c, n, Packing!Fold(c, 0, items))
    BY <1>1, <2>1, <2>2, Packing!FoldKeeps
  <2> QED BY <2>3, TotalIsFold DEF TotalSoFar
<1>5. Total(items) \in Nat
  BY <1>3, <1>4
<1>6. Total(more) = Total(items) + Length(item)
  <2> DEFINE c == [k \in 0..(n + 1) |-> IF k = n + 1 THEN it[n] + Length(item) ELSE it[k]]
  <2>1. c[0] = 0 /\ c[n + 1] = it[n] + Length(item)
    BY <1>1, <1>3
  <2>2. ASSUME NEW k \in 1..(n + 1) PROVE c[k] = c[k - 1] + Length(more[k])
    <3>1. CASE k = n + 1
      <4>1. c[k - 1] = it[n]
        BY <1>1, <3>1
      <4> QED BY <1>1, <2>1, <3>1, <4>1
    <3>2. CASE k # n + 1
      <4>1. k \in 1..n /\ c[k] = it[k] /\ c[k - 1] = it[k - 1]
        BY <1>1, <3>2
      <4> QED BY <1>1, <1>3, <4>1
    <3> QED BY <3>1, <3>2
  <2> HIDE DEF c
  <2>3. TotalSoFar(c, 0, 0)
    BY <2>1 DEF TotalSoFar
  <2>4. \A k \in 1..(n + 1) : more[k] \in Items
    <3> SUFFICES ASSUME NEW k \in 1..(n + 1) PROVE more[k] \in Items
      OBVIOUS
    <3>1. k = n + 1 \/ k \in 1..n
      BY <1>1
    <3> QED BY <1>1, <3>1
  <2>5. \A k \in 1..(n + 1) : \A x : TotalSoFar(c, k - 1, x) => TotalSoFar(c, k, TotalStep(c, x, more[k]))
    BY <2>2, <2>4, LengthIsNat DEF TotalSoFar, TotalStep
  <2>6. TotalSoFar(c, n + 1, Packing!Fold(c, 0, more))
    BY <1>1, <2>3, <2>5, Packing!FoldKeeps
  <2> QED BY <1>3, <2>1, <2>6, TotalIsFold DEF TotalSoFar
<1>7. Total(<<item>>) = Length(item)
  <2> DEFINE one == <<item>>
             c == [k \in 0..1 |-> IF k = 0 THEN 0 ELSE Length(item)]
  <2>1. DOMAIN one = 1..1 /\ one[1] = item /\ c[0] = 0 /\ c[1] = Length(item) /\ 1 \in Nat
    OBVIOUS
  <2> HIDE DEF one, c
  <2>2. TotalSoFar(c, 0, 0)
    BY <2>1 DEF TotalSoFar
  <2>3. \A k \in 1..1 : \A x : TotalSoFar(c, k - 1, x) => TotalSoFar(c, k, TotalStep(c, x, one[k]))
    <3>1. \A k \in 1..1 : k = 1 /\ k - 1 = 0
      OBVIOUS
    <3>2. Length(item) \in Nat
      BY LengthIsNat
    <3> QED BY <2>1, <3>1, <3>2 DEF TotalSoFar, TotalStep
  <2>4. TotalSoFar(c, 1, Packing!Fold(c, 0, one))
    BY <2>1, <2>2, <2>3, Packing!FoldKeeps
  <2> QED BY <2>1, <2>4, TotalIsFold DEF TotalSoFar, one
<1> QED BY <1>5, <1>6, <1>7 DEF more
Members(seq) == {seq[i] : i \in DOMAIN seq}

Carried(batches) == UNION {Members(batches[b]) : b \in DOMAIN batches}

Including(items) == \A i \in DOMAIN items : ~items[i].negated

\* The groups that some item matches, all of them for no item.
Targets(items) ==
    {g \in Catalogue : items = <<>> \/ \E i \in DOMAIN items : Denotes1(items[i].text, g)}

\* One element more of a sequence.
LEMMA MembersOfAppend ==
    ASSUME NEW S, NEW seq \in Seq(S), NEW x \in S
    PROVE  /\ Append(seq, x) \in Seq(S) /\ Append(seq, x) # <<>>
           /\ Len(Append(seq, x)) = Len(seq) + 1
           /\ Members(Append(seq, x)) = Members(seq) \cup {x}
PROOF
<1> DEFINE n == Len(seq)
           more == Append(seq, x)
<1>1. /\ n \in Nat /\ DOMAIN seq = 1..n /\ DOMAIN more = 1..(n + 1) /\ n + 1 \in 1..(n + 1)
      /\ \A k \in 1..n : more[k] = seq[k] /\ k \in 1..(n + 1)
      /\ more[n + 1] = x /\ Len(more) = n + 1 /\ more \in Seq(S) /\ more # <<>>
  OBVIOUS
<1> HIDE DEF n, more
<1>2. \A k \in 1..(n + 1) : k = n + 1 \/ k \in 1..n
  BY <1>1
<1>3. Members(more) \subseteq Members(seq) \cup {x}
  BY <1>1, <1>2 DEF Members
<1>4. Members(seq) \cup {x} \subseteq Members(more)
  BY <1>1 DEF Members
<1> QED BY <1>1, <1>3, <1>4 DEF more, n

\* One batch more.
LEMMA CarriedOfAppend ==
    ASSUME NEW batches \in Seq(Seq(Items)), NEW batch \in Seq(Items)
    PROVE  Carried(Append(batches, batch)) = Carried(batches) \cup Members(batch)
PROOF
<1>1. Members(Append(batches, batch)) = Members(batches) \cup {batch}
  BY MembersOfAppend
<1>2. \A s : Carried(s) = UNION {Members(b) : b \in Members(s)}
  BY DEF Carried, Members
<1> QED BY <1>1, <1>2

(***************************************************************************)
(* Where nothing is excluded, the last item that matches is any item that  *)
(* matches.                                                                *)
(***************************************************************************)
LEMMA WantedPlain ==
    ASSUME NEW items \in Seq(Items), Including(items), NEW g
    PROVE  Wanted(items, g) <=> \E i \in DOMAIN items : Denotes1(items[i].text, g)
PROOF
<1> DEFINE hits == {i \in DOMAIN items : Denotes1(items[i].text, g)}
           last == CHOOSE i \in hits : \A j \in hits : j <= i
<1>1. CASE hits = {}
  BY <1>1 DEF Wanted
<1>2. CASE hits # {}
  <2>1. Len(items) \in Nat /\ hits \in SUBSET (1..Len(items))
    OBVIOUS
  <2>2. \E i \in hits : \A j \in hits : j <= i
    <3> HIDE DEF hits
    <3> QED BY <1>2, <2>1, Packing!GreatestIndex
  <2>3. last \in hits
    <3> HIDE DEF hits
    <3> QED BY <2>2
  <2>4. ~items[last].negated
    BY <2>3 DEF Including
  <2>5. Wanted(items, g)
    BY <1>2, <2>4 DEF Wanted
  <2>6. \E i \in DOMAIN items : Denotes1(items[i].text, g)
    BY <1>2
  <2> QED BY <2>5, <2>6
<1> QED BY <1>1, <1>2

\* The loop of Wildmat::matches, for FoldTheorems.
DecideStep(g, matched, item) == IF Denotes1(item.text, g) THEN ~item.negated ELSE matched

\* The last of the first k items that matches, if any, is not an exclusion.
Decided(c, k, matched) ==
    /\ matched \in BOOLEAN
    /\ matched <=> \E i \in 1..k : /\ Denotes1(c[1][i].text, c[2]) /\ ~c[1][i].negated
                                  /\ \A j \in (i + 1)..k : ~Denotes1(c[1][j].text, c[2])

DecideIn(c, matched, item) == DecideStep(c[2], matched, item)

Deciding == INSTANCE FoldTheorems WITH step <- DecideIn, weigh <- NoWeight, Holds <- Decided

(***************************************************************************)
(* The loop over the sub-patterns lets the last one that matches decide.   *)
(***************************************************************************)
LEMMA LastDecides ==
    ASSUME NEW items \in Seq(Items), NEW g
    PROVE  Matches(items, g) <=> Wanted(items, g)
PROOF
<1> DEFINE n == Len(items)
           c == <<items, g>>
           hit(i) == Denotes1(items[i].text, g)
<1>1. n \in Nat /\ DOMAIN items = 1..n /\ \A i \in 1..n : items[i].negated \in BOOLEAN
  <2>1. n \in Nat /\ DOMAIN items = 1..n /\ \A i \in 1..n : items[i] \in Items
    OBVIOUS
  <2> HIDE DEF n
  <2> QED BY <2>1 DEF Items
<1>2. c[1] = items /\ c[2] = g
  OBVIOUS
<1> HIDE DEF n, c
<1>3. Matches(items, g) = Deciding!Fold(c, FALSE, items)
  BY <1>2 DEF Matches, DecideIn, DecideStep, FoldLeft, MapThenFoldSet, Max,
              Deciding!Fold, Deciding!FoldLeft, Deciding!MapThenFoldSet, Deciding!Max
<1>4. Decided(c, 0, FALSE)
  BY DEF Decided
<1>5. ASSUME NEW k \in 1..n, NEW x, Decided(c, k - 1, x)
      PROVE  Decided(c, k, DecideIn(c, x, items[k]))
  <2>1. /\ k \in Nat /\ k - 1 \in Nat /\ items[k].negated \in BOOLEAN
        /\ \A i \in 1..k : i = k \/ i \in 1..(k - 1)
        /\ \A i \in 1..(k - 1) : i \in 1..k /\ k \in (i + 1)..k
        /\ \A i \in 1..(k - 1) : \A j \in (i + 1)..k : j = k \/ j \in (i + 1)..(k - 1)
        /\ \A i \in 1..(k - 1) : \A j \in (i + 1)..(k - 1) : j \in (i + 1)..k
        /\ k \in 1..k /\ \A j \in (k + 1)..k : FALSE
    BY <1>1
  <2>2. /\ x \in BOOLEAN
        /\ x <=> \E i \in 1..(k - 1) : /\ hit(i) /\ ~items[i].negated
                                       /\ \A j \in (i + 1)..(k - 1) : ~hit(j)
    BY <1>2, <1>5 DEF Decided
  <2> DEFINE next == DecideIn(c, x, items[k])
             found == \E i \in 1..k : /\ hit(i) /\ ~items[i].negated
                                      /\ \A j \in (i + 1)..k : ~hit(j)
  <2>3. next = IF hit(k) THEN ~items[k].negated ELSE x
    BY <1>2 DEF DecideIn, DecideStep
  <2> HIDE DEF next, hit
  <2>4. CASE hit(k)
    <3>1. next \in BOOLEAN /\ (next <=> ~items[k].negated)
      BY <2>1, <2>3, <2>4
    <3>2. found => ~items[k].negated
      <4> SUFFICES ASSUME NEW i \in 1..k, ~items[i].negated, \A j \in (i + 1)..k : ~hit(j)
                   PROVE  i = k
        OBVIOUS
      <4> QED BY <2>1, <2>4
    <3>3. ~items[k].negated => found
      BY <2>1, <2>4
    <3> QED BY <1>2, <3>1, <3>2, <3>3 DEF Decided, next, hit
  <2>5. CASE ~hit(k)
    <3>1. next \in BOOLEAN /\ (next <=> x)
      BY <2>2, <2>3, <2>5
    <3>2. found => x
      <4> SUFFICES ASSUME NEW i \in 1..k, hit(i), ~items[i].negated, \A j \in (i + 1)..k : ~hit(j)
                   PROVE  x
        OBVIOUS
      <4>1. i \in 1..(k - 1)
        BY <2>1, <2>5
      <4>2. \A j \in (i + 1)..(k - 1) : ~hit(j)
        BY <2>1, <4>1
      <4> QED BY <2>2, <4>1, <4>2
    <3>3. x => found
      <4> SUFFICES ASSUME x PROVE found
        OBVIOUS
      <4>1. PICK i \in 1..(k - 1) : /\ hit(i) /\ ~items[i].negated
                                    /\ \A j \in (i + 1)..(k - 1) : ~hit(j)
        BY <2>2
      <4>2. i \in 1..k /\ \A j \in (i + 1)..k : ~hit(j)
        BY <2>1, <2>5, <4>1
      <4> QED BY <4>1, <4>2
    <3> QED BY <1>2, <3>1, <3>2, <3>3 DEF Decided, next, hit
  <2> QED BY <2>4, <2>5
<1>6. Decided(c, n, Deciding!Fold(c, FALSE, items))
  BY <1>1, <1>4, <1>5, Deciding!FoldKeeps
<1>7. Matches(items, g) <=> \E i \in 1..n : /\ hit(i) /\ ~items[i].negated
                                            /\ \A j \in (i + 1)..n : ~hit(j)
  BY <1>2, <1>3, <1>6 DEF Decided
<1> DEFINE hits == {i \in 1..n : hit(i)}
           last == CHOOSE i \in hits : \A j \in hits : j <= i
<1>8. Wanted(items, g) <=> hits # {} /\ ~items[last].negated
  BY <1>1 DEF Wanted
<1> HIDE DEF hit
<1>9. CASE hits = {}
  BY <1>7, <1>8, <1>9
<1>10. CASE hits # {}
  <2>1. \E i \in hits : \A j \in hits : j <= i
    <3>1. hits \in SUBSET (1..n)
      OBVIOUS
    <3> HIDE DEF hits
    <3> QED BY <1>1, <1>10, <3>1, Packing!GreatestIndex
  <2>2. last \in hits /\ \A j \in hits : j <= last
    <3> HIDE DEF hits
    <3> QED BY <2>1
  <2> HIDE DEF last
  <2>3. last \in 1..n /\ hit(last) /\ \A j \in (last + 1)..n : ~hit(j)
    <3>1. last \in 1..n /\ hit(last)
      BY <2>2
    <3>2. \A j \in (last + 1)..n : j \in 1..n /\ ~(j <= last)
      BY <1>1, <3>1
    <3> QED BY <2>2, <3>1, <3>2
  <2>4. \A i \in 1..n : hit(i) /\ (\A j \in (i + 1)..n : ~hit(j)) => i = last
    <3> SUFFICES ASSUME NEW i \in 1..n, hit(i), \A j \in (i + 1)..n : ~hit(j)
                 PROVE  i = last
      OBVIOUS
    <3>1. i <= last
      BY <2>2
    <3>2. i < last => last \in (i + 1)..n
      BY <1>1, <2>3
    <3> QED BY <1>1, <2>3, <3>1, <3>2
  <2> QED BY <1>7, <1>8, <1>10, <2>3, <2>4
<1> QED BY <1>9, <1>10

\* The server's answer to a command without an exclusion.
LEMMA AnsweredPlain ==
    ASSUME NEW batch \in Seq(Items), Including(batch)
    PROVE  Answered(batch) = Targets(batch)
PROOF
<1>1. \A g \in Catalogue : Matches(batch, g) <=> \E i \in DOMAIN batch : Denotes1(batch[i].text, g)
  BY WantedPlain, LastDecides
<1> QED BY <1>1 DEF Answered, Targets

\* So does the filter of this side, one pattern at a time.
LEMMA FilteredPlain ==
    ASSUME NEW items \in Seq(Items), Including(items)
    PROVE  Filtered(items) = Targets(items)
PROOF
<1>1. ASSUME NEW g \in Catalogue, NEW i \in DOMAIN items
      PROVE  Matches(<<items[i]>>, g) <=> Denotes1(items[i].text, g)
  <2> DEFINE one == <<items[i]>>
  <2>1. items[i] \in Items /\ one \in Seq(Items) /\ DOMAIN one = {1} /\ one[1] = items[i]
    BY <1>1
  <2>2. Including(one)
    BY <1>1, <2>1 DEF Including
  <2> HIDE DEF one
  <2>3. Matches(one, g) <=> \E k \in DOMAIN one : Denotes1(one[k].text, g)
    BY <2>1, <2>2, WantedPlain, LastDecides
  <2> QED BY <2>1, <2>3 DEF one
<1> QED BY <1>1 DEF Filtered, Targets

Fetching ==
    [items : Seq(Items), batches : Seq(Seq(Items)), current : Seq(Items), length : Nat,
     taken : Nat, active : SUBSET Catalogue, state : {"packing", "listing", "filtered"}]

\* A fetch in the record of the model.
Fetch(items, batches, current, length, taken, active, state) ==
    [items |-> items, batches |-> batches, current |-> current, length |-> length,
     taken |-> taken, active |-> active, state |-> state]

Short(items) == \A i \in DOMAIN items : Length(items[i]) \in 1..MaxLen

NoneEmpty(batches) == \A b \in DOMAIN batches : batches[b] # <<>>

\* The items before the loop are on the batches, once the last one is closed.
Shared(items, batches, current, taken) ==
    Carried(batches) \cup Members(current) = {items[i] : i \in 1..taken}

PackInv(items, batches, current, length, taken) ==
    /\ taken <= Len(items) /\ NoneEmpty(batches)
    /\ current = <<>> => taken = 0 /\ length = 0 /\ batches = <<>>
    /\ current # <<>> => length = JoinedLength(current) /\ length <= MaxLen
    /\ Shared(items, batches, current, taken)

\* What is listed and what is still to be asked for make up what is wanted.
ListInv(items, batches, active) ==
    Including(items) =>
        /\ \A b \in DOMAIN batches : Including(batches[b])
        /\ active \cup UNION {Targets(batches[b]) : b \in DOMAIN batches} = Targets(items)

FetchInv ==
    /\ fetch \in Fetching
    /\ Short(fetch.items)
    /\ fetch.state = "packing" =>
           /\ fetch.active = {}
           /\ PackInv(fetch.items, fetch.batches, fetch.current, fetch.length, fetch.taken)
    /\ fetch.state # "packing" => ListInv(fetch.items, fetch.batches, fetch.active)

LEMMA FetchStart == PatternsInit => FetchInv
PROOF
<1> SUFFICES ASSUME PatternsInit PROVE FetchInv
  OBVIOUS
<1>1. PICK items \in Subscriptions : fetch = Fetch(items, <<>>, <<>>, 0, 0, {}, "packing")
  BY DEF PatternsInit, Fetches, Fetch
<1>2. items \in Seq(Items) /\ Short(items)
  BY SubscriptionsAssumption DEF Short
<1>3. fetch \in Fetching
  BY <1>1, <1>2 DEF Fetch, Fetching
<1>4. PackInv(items, <<>>, <<>>, 0, 0)
  <2>1. Shared(items, <<>>, <<>>, 0)
    BY DEF Shared, Carried, Members
  <2> QED BY <1>2, <2>1 DEF PackInv, NoneEmpty
<1> QED BY <1>1, <1>2, <1>3, <1>4 DEF FetchInv, Fetch

\* One item more is shared when it joins the batch that is open.
LEMMA SharedByOneMore ==
    ASSUME NEW items \in Seq(Items), NEW taken \in Nat, taken < Len(items)
    PROVE  /\ taken + 1 \in 1..Len(items) /\ items[taken + 1] \in Items
           /\ {items[i] : i \in 1..(taken + 1)}
                = {items[i] : i \in 1..taken} \cup {items[taken + 1]}
PROOF
<1>1. taken + 1 \in 1..Len(items) /\ items[taken + 1] \in Items
  OBVIOUS
<1>2. \A i : i \in 1..(taken + 1) <=> i \in 1..taken \/ i = taken + 1
  OBVIOUS
<1> QED BY <1>1, <1>2

\* The lengths batch_patterns keeps are those of the joined patterns.
LEMMA JoinedOfAppend ==
    ASSUME NEW items \in Seq(Items), NEW item \in Items
    PROVE  /\ JoinedLength(<<item>>) = Length(item)
           /\ JoinedLength(Append(items, item)) = JoinedLength(items) + Length(item) + 1
PROOF
<1>1. /\ Total(items) \in Nat /\ Length(item) \in Nat /\ Len(items) \in Nat
      /\ Total(Append(items, item)) = Total(items) + Length(item)
      /\ Total(<<item>>) = Length(item)
      /\ Len(Append(items, item)) = Len(items) + 1 /\ Len(<<item>>) = 1
  BY TotalOfAppend, LengthIsNat
<1>2. \A t, l, n \in Nat : (t + l) + ((n + 1) - 1) = (t + (n - 1)) + l + 1
  OBVIOUS
<1>3. \A l \in Nat : l + (1 - 1) = l
  OBVIOUS
<1> HIDE DEF Total, Length
<1>4. JoinedLength(<<item>>) = Length(item)
  BY <1>1, <1>3 DEF JoinedLength
<1> QED BY <1>1, <1>2, <1>4 DEF JoinedLength

\* A list has a total length.
LEMMA AppendedTotal == \A items \in Seq(Items) : Total(items) \in Nat /\ Len(items) \in Nat
PROOF
<1> SUFFICES ASSUME NEW items \in Seq(Items) PROVE Total(items) \in Nat
  OBVIOUS
<1>1. CASE items = <<>>
  <2>1. PICK it : Packing!Traces(it, 0, 0, items, 0)
    BY <1>1, Packing!FoldTrace
  <2> QED BY <2>1, TotalIsFold DEF Packing!Traces
<1>2. CASE items # <<>>
  <2>1. items[1] \in Items
    BY <1>2
  <2> QED BY <2>1, TotalOfAppend
<1> QED BY <1>1, <1>2

\* One item more of a list.
LEMMA PrefixGrows ==
    ASSUME NEW items \in Seq(Items), NEW k \in Nat, k + 1 \in 1..Len(items)
    PROVE  /\ SubSeq(items, 1, k) \in Seq(Items) /\ items[k + 1] \in Items
           /\ SubSeq(items, 1, k + 1) = Append(SubSeq(items, 1, k), items[k + 1])
PROOF
<1>1. items[k + 1] \in Items /\ k \in 0..Len(items)
  OBVIOUS
<1> DEFINE front == SubSeq(items, 1, k)
           more == SubSeq(items, 1, k + 1)
<1>2. front \in Seq(Items) /\ Len(front) = k /\ \A i \in 1..k : front[i] = items[i]
  OBVIOUS
<1>3. more \in Seq(Items) /\ Len(more) = k + 1 /\ \A i \in 1..(k + 1) : more[i] = items[i]
  OBVIOUS
<1> HIDE DEF front, more
<1>4. /\ Append(front, items[k + 1]) \in Seq(Items) /\ Len(Append(front, items[k + 1])) = k + 1
      /\ \A i \in 1..k : Append(front, items[k + 1])[i] = front[i]
      /\ Append(front, items[k + 1])[k + 1] = items[k + 1]
  BY <1>1, <1>2, AppendProperties
<1>5. \A i \in 1..(k + 1) : i = k + 1 \/ i \in 1..k
  OBVIOUS
<1>6. more = Append(front, items[k + 1])
  BY <1>2, <1>3, <1>4, <1>5, SeqEqual
<1> QED BY <1>1, <1>2, <1>6 DEF front, more

\* A turn of the loop of batch_patterns.
LEMMA PackStep == FetchInv /\ PackItem => FetchInv'
PROOF
<1> SUFFICES ASSUME FetchInv, PackItem PROVE FetchInv'
  OBVIOUS
<1> DEFINE items == fetch.items
           batches == fetch.batches
           current == fetch.current
           length == fetch.length
           taken == fetch.taken
           item == items[taken + 1]
<1>1. /\ items \in Seq(Items) /\ batches \in Seq(Seq(Items)) /\ current \in Seq(Items)
      /\ length \in Nat /\ taken \in Nat /\ fetch.active = {} /\ taken < Len(items)
      /\ Short(items) /\ PackInv(items, batches, current, length, taken)
      /\ fetch.state = "packing"
  BY DEF FetchInv, Fetching, PackItem
<1>2. /\ taken + 1 \in 1..Len(items) /\ item \in Items
      /\ {items[i] : i \in 1..(taken + 1)} = {items[i] : i \in 1..taken} \cup {item}
  BY <1>1, SharedByOneMore
<1>3. Length(item) \in 1..MaxLen /\ Length(item) \in Nat /\ taken + 1 <= Len(items) /\ taken + 1 \in Nat
  BY <1>1, <1>2 DEF Short
<1>4. ASSUME NEW b \in Seq(Seq(Items)), NEW c \in Seq(Items), NEW l \in Nat,
             fetch' = Fetch(items, b, c, l, taken + 1, {}, "packing"),
             NoneEmpty(b), c # <<>>, l = JoinedLength(c), l <= MaxLen,
             Shared(items, b, c, taken + 1)
      PROVE  FetchInv'
  <2>1. fetch' \in Fetching
    BY <1>1, <1>3, <1>4 DEF Fetch, Fetching
  <2>2. PackInv(items, b, c, l, taken + 1)
    BY <1>3, <1>4 DEF PackInv
  <2> HIDE DEF taken
  <2>3. /\ fetch'.items = items /\ fetch'.batches = b /\ fetch'.current = c /\ fetch'.length = l
        /\ fetch'.taken = taken + 1 /\ fetch'.active = {} /\ fetch'.state = "packing"
    BY <1>4 DEF Fetch
  <2> QED BY <1>1, <2>1, <2>2, <2>3 DEF FetchInv
<1>5. fetch \in Fetching
  BY DEF FetchInv
<1>6. CASE Fits(item)
  <2>1. fetch' = Fetch(items, batches, Append(current, item), length + Length(item) + Comma,
                       taken + 1, {}, "packing")
    BY <1>1, <1>5, <1>6 DEF PackItem, Fetching, Fetch
  <2>2. /\ Append(current, item) \in Seq(Items) /\ Append(current, item) # <<>>
        /\ Members(Append(current, item)) = Members(current) \cup {item}
    <3>1. current \in Seq(Items) /\ item \in Items
      BY <1>1, <1>2
    <3> HIDE DEF current, item
    <3> QED BY <3>1, MembersOfAppend
  <2>3. Shared(items, batches, Append(current, item), taken + 1)
    BY <1>1, <1>2, <2>2 DEF PackInv, Shared
  <2>4. /\ length + Length(item) + Comma \in Nat
        /\ length + Length(item) + Comma = JoinedLength(Append(current, item))
        /\ length + Length(item) + Comma <= MaxLen
    <3>1. CASE current = <<>>
      <4>1. length = 0 /\ Comma = 0 /\ Append(current, item) = <<item>>
        BY <1>1, <3>1 DEF PackInv, Comma
      <4>2. \A l \in Nat : 0 + l + 0 = l
        OBVIOUS
      <4>3. JoinedLength(<<item>>) = Length(item) /\ Length(item) <= MaxLen
        BY <1>1, <1>2, <1>3, JoinedOfAppend, PatternsAssumption
      <4> QED BY <1>3, <4>1, <4>2, <4>3
    <3>2. CASE current # <<>>
      <4>1. length = JoinedLength(current) /\ Comma = 1
        BY <1>1, <3>2 DEF PackInv, Comma
      <4>2. JoinedLength(Append(current, item)) = JoinedLength(current) + Length(item) + 1
        BY <1>1, <1>2, JoinedOfAppend
      <4>3. length + Length(item) + Comma <= MaxLen
        BY <1>6, <3>2 DEF Fits
      <4>4. length + Length(item) + Comma \in Nat
        BY <1>1, <1>3, <4>1
      <4> QED BY <4>1, <4>2, <4>3, <4>4
    <3> QED BY <3>1, <3>2
  <2>5. NoneEmpty(batches)
    BY <1>1 DEF PackInv
  <2> DEFINE l == length + Length(item) + Comma
             c == Append(current, item)
  <2> HIDE DEF l, c, items, batches, current, length, taken, item
  <2> QED BY <1>1, <1>4, <2>1, <2>2, <2>3, <2>4, <2>5 DEF l, c
<1>7. CASE ~Fits(item)
  <2>1. current # <<>> /\ JoinedLength(current) <= MaxLen /\ length \in Nat
    BY <1>1, <1>7 DEF Fits, PackInv
  <2>2. Packed(batches, current) = Append(batches, current)
    <3>1. ~(JoinedLength(current) > MaxLen)
      BY <1>1, <2>1, PatternsAssumption DEF PackInv
    <3> QED BY <3>1 DEF Packed
  <2>3. fetch' = Fetch(items, Append(batches, current), <<item>>, Length(item),
                       taken + 1, {}, "packing")
    BY <1>1, <1>5, <1>7, <2>2 DEF PackItem, Fetching, Fetch
  <2>4. /\ <<item>> \in Seq(Items) /\ <<item>> # <<>> /\ Members(<<item>>) = {item}
        /\ Append(batches, current) \in Seq(Seq(Items))
    <3>1. <<item>> \in Seq(Items) /\ DOMAIN <<item>> = {1} /\ <<item>>[1] = item
      BY <1>2
    <3> QED BY <1>1, <3>1 DEF Members
  <2>5. Carried(Append(batches, current)) = Carried(batches) \cup Members(current)
    BY <1>1, CarriedOfAppend
  <2>6. Shared(items, Append(batches, current), <<item>>, taken + 1)
    BY <1>1, <1>2, <2>4, <2>5 DEF PackInv, Shared
  <2>7. NoneEmpty(Append(batches, current))
    <3>1. NoneEmpty(batches) /\ Members(Append(batches, current)) = Members(batches) \cup {current}
      BY <1>1, MembersOfAppend DEF PackInv
    <3>2. \A s : NoneEmpty(s) <=> <<>> \notin Members(s)
      BY DEF NoneEmpty, Members
    <3> QED BY <2>1, <3>1, <3>2
  <2>8. JoinedLength(<<item>>) = Length(item) /\ Length(item) <= MaxLen
    BY <1>1, <1>2, <1>3, JoinedOfAppend, PatternsAssumption
  <2> DEFINE b == Append(batches, current)
             c == <<item>>
  <2> HIDE DEF b, c, items, batches, current, length, taken, item
  <2> QED BY <1>3, <1>4, <2>3, <2>4, <2>6, <2>7, <2>8 DEF b, c
<1> QED BY <1>6, <1>7

\* Batches that carry the items ask for what the items ask for.
LEMMA CarriedTargets ==
    ASSUME NEW items \in Seq(Items), NEW batches \in Seq(Seq(Items)),
           NoneEmpty(batches), items # <<>>, Carried(batches) = Members(items)
    PROVE  /\ Including(items) => \A b \in DOMAIN batches : Including(batches[b])
           /\ UNION {Targets(batches[b]) : b \in DOMAIN batches} = Targets(items)
PROOF
<1>1. \A s \in Seq(Items) : Including(s) <=> \A item \in Members(s) : ~item.negated
  BY DEF Including, Members
<1>2. \A s \in Seq(Items) : s # <<>> =>
          Targets(s) = {g \in Catalogue : \E item \in Members(s) : Denotes1(item.text, g)}
  BY DEF Targets, Members
<1>3. \A b \in DOMAIN batches : batches[b] \in Seq(Items) /\ batches[b] # <<>>
  BY DEF NoneEmpty
<1>4. Members(items) = UNION {Members(batches[b]) : b \in DOMAIN batches}
  BY DEF Carried
<1>5. Including(items) => \A b \in DOMAIN batches : Including(batches[b])
  BY <1>1, <1>3, <1>4
<1>6. ASSUME NEW g
      PROVE  g \in Targets(items) <=> \E b \in DOMAIN batches : g \in Targets(batches[b])
  <2>1. g \in Targets(items) <=> g \in Catalogue /\ \E item \in Members(items) : Denotes1(item.text, g)
    BY <1>2
  <2>2. \A b \in DOMAIN batches : g \in Targets(batches[b])
            <=> g \in Catalogue /\ \E item \in Members(batches[b]) : Denotes1(item.text, g)
    BY <1>2, <1>3
  <2> QED BY <1>4, <2>1, <2>2
<1> QED BY <1>5, <1>6

\* The turn after the last item: everything is on some batch.
LEMMA PackLastStep == FetchInv /\ PackLast => FetchInv'
PROOF
<1> SUFFICES ASSUME FetchInv, PackLast PROVE FetchInv'
  OBVIOUS
<1> DEFINE items == fetch.items
           batches == fetch.batches
           current == fetch.current
           all == IF current = <<>> THEN batches ELSE Packed(batches, current)
           queue == IF all = <<>> THEN << <<>> >> ELSE all
<1>1. /\ fetch \in Fetching /\ items \in Seq(Items) /\ batches \in Seq(Seq(Items))
      /\ current \in Seq(Items) /\ fetch.length \in Nat /\ fetch.active = {} /\ Short(items)
      /\ PackInv(items, batches, current, fetch.length, fetch.taken)
      /\ fetch.taken = Len(items)
  BY DEF FetchInv, Fetching, PackLast
<1>2. fetch' = [fetch EXCEPT !.current = <<>>, !.state = "listing", !.batches = queue]
  BY DEF PackLast
<1>3. queue \in Seq(Seq(Items)) /\ ListInv(items, queue, {})
  <2>1. CASE current = <<>>
    <3>1. items = <<>> /\ queue = << <<>> >>
      BY <1>1, <2>1 DEF PackInv
    <3>2. << <<>> >> \in Seq(Seq(Items)) /\ DOMAIN << <<>> >> = {1} /\ << <<>> >>[1] = <<>>
      OBVIOUS
    <3>3. Including(<<>>)
      BY DEF Including
    <3>4. ListInv(<<>>, << <<>> >>, {})
      <4> DEFINE b == << <<>> >>
      <4>1. \A i \in DOMAIN b : b[i] = <<>>
        BY <3>2
      <4>2. UNION {Targets(b[i]) : i \in DOMAIN b} = Targets(<<>>)
        BY <3>2
      <4> HIDE DEF b
      <4>3. ListInv(<<>>, b, {})
        BY <3>3, <4>1, <4>2 DEF ListInv
      <4> QED BY <4>3 DEF b
    <3> HIDE DEF queue, items
    <3> QED BY <3>1, <3>2, <3>4
  <2>2. CASE current # <<>>
    <3>1. ~(JoinedLength(current) > MaxLen)
      BY <1>1, <2>2, PatternsAssumption DEF PackInv
    <3>2. queue = Append(batches, current) /\ Append(batches, current) \in Seq(Seq(Items))
      <4>1. /\ Append(batches, current) \in Seq(Seq(Items))
            /\ Append(batches, current) # <<>>
        BY <1>1
      <4>2. all = Append(batches, current)
        BY <2>2, <3>1 DEF Packed
      <4> HIDE DEF all, batches, current
      <4> QED BY <4>1, <4>2
    <3>3. Carried(Append(batches, current)) = Members(items)
      <4>1. Carried(Append(batches, current)) = {items[i] : i \in 1..Len(items)}
        BY <1>1, CarriedOfAppend DEF PackInv, Shared
      <4> QED BY <1>1, <4>1 DEF Members
    <3>4. items # <<>>
      <4>1. PICK i \in DOMAIN current : current[i] \in Members(current)
        BY <1>1, <2>2 DEF Members
      <4>2. current[i] \in Carried(Append(batches, current))
        BY <1>1, <4>1, CarriedOfAppend
      <4> QED BY <3>3, <4>2 DEF Members
    <3>5. NoneEmpty(Append(batches, current))
      <4>1. NoneEmpty(batches) /\ Members(Append(batches, current)) = Members(batches) \cup {current}
        BY <1>1, MembersOfAppend DEF PackInv
      <4>2. \A s : NoneEmpty(s) <=> <<>> \notin Members(s)
        BY DEF NoneEmpty, Members
      <4> QED BY <2>2, <4>1, <4>2
    <3> DEFINE b == Append(batches, current)
    <3> HIDE DEF b, items, batches, current, all, queue
    <3>6. /\ Including(items) => \A i \in DOMAIN b : Including(b[i])
          /\ UNION {Targets(b[i]) : i \in DOMAIN b} = Targets(items)
      BY <1>1, <3>2, <3>3, <3>4, <3>5, CarriedTargets DEF b
    <3> QED BY <3>2, <3>6 DEF b, ListInv
  <2> QED BY <2>1, <2>2
<1> HIDE DEF queue
<1>4. fetch' = Fetch(items, queue, <<>>, fetch.length, fetch.taken, {}, "listing")
  BY <1>1, <1>2 DEF Fetching, Fetch
<1>5. fetch.taken \in Nat /\ <<>> \in Seq(Items)
  BY <1>1 DEF Fetching
<1>6. fetch' \in Fetching
  BY <1>1, <1>3, <1>4, <1>5 DEF Fetching, Fetch
<1>7. /\ fetch'.items = items /\ fetch'.batches = queue /\ fetch'.active = {}
      /\ fetch'.state = "listing"
  BY <1>4 DEF Fetch
<1> QED BY <1>1, <1>3, <1>6, <1>7 DEF FetchInv

\* A command answered, and one refused.
LEMMA ListStep == FetchInv /\ (ListBatch \/ BatchRefused) => FetchInv'
PROOF
<1> SUFFICES ASSUME FetchInv, ListBatch \/ BatchRefused PROVE FetchInv'
  OBVIOUS
<1> DEFINE items == fetch.items
           batches == fetch.batches
           active == fetch.active
<1>1. /\ fetch \in Fetching /\ items \in Seq(Items) /\ batches \in Seq(Seq(Items))
      /\ active \in SUBSET Catalogue /\ Short(items) /\ batches # <<>>
      /\ ListInv(items, batches, active)
      /\ fetch.state = "listing"
  BY DEF FetchInv, Fetching, ListBatch, BatchRefused
<1>2. CASE ListBatch
  <2> DEFINE more == active \cup Answered(Head(batches))
  <2>1. fetch' = [fetch EXCEPT !.active = more, !.batches = Tail(batches)]
    BY <1>2 DEF ListBatch
  <2>2. /\ Head(batches) = batches[1] /\ 1 \in DOMAIN batches /\ batches[1] \in Seq(Items)
        /\ Tail(batches) \in Seq(Seq(Items))
        /\ \A b \in DOMAIN Tail(batches) : b + 1 \in DOMAIN batches /\ Tail(batches)[b] = batches[b + 1]
        /\ \A b \in DOMAIN batches : b = 1 \/ (b - 1 \in DOMAIN Tail(batches) /\ (b - 1) + 1 = b)
    <3> DEFINE n == Len(batches)
    <3>1. /\ n \in Nat /\ n # 0 /\ DOMAIN batches = 1..n /\ Head(batches) = batches[1]
          /\ Tail(batches) \in Seq(Seq(Items)) /\ DOMAIN Tail(batches) = 1..(n - 1)
      BY <1>1
    <3>2. \A b \in 1..(n - 1) : Tail(batches)[b] = batches[b + 1]
      BY <1>1, <3>1
    <3> HIDE DEF n
    <3>3. 1 \in 1..n /\ \A b \in 1..(n - 1) : b + 1 \in 1..n
      BY <3>1
    <3>4. \A b \in 1..n : b = 1 \/ (b - 1 \in 1..(n - 1) /\ (b - 1) + 1 = b)
      BY <3>1
    <3>5. batches[1] \in Seq(Items)
      BY <1>1, <3>1, <3>3
    <3> QED BY <3>1, <3>2, <3>3, <3>4, <3>5
  <2>3. more \in SUBSET Catalogue
    BY <1>1 DEF Answered
  <2>4. ASSUME Including(items) PROVE Answered(Head(batches)) = Targets(batches[1])
    BY <1>1, <2>2, <2>4, AnsweredPlain DEF ListInv
  <2>5. ListInv(items, Tail(batches), more)
    <3> SUFFICES ASSUME Including(items)
                 PROVE  /\ \A b \in DOMAIN Tail(batches) : Including(Tail(batches)[b])
                        /\ more \cup UNION {Targets(Tail(batches)[b]) : b \in DOMAIN Tail(batches)}
                             = Targets(items)
      BY DEF ListInv
    <3>1. /\ \A b \in DOMAIN batches : Including(batches[b])
          /\ active \cup UNION {Targets(batches[b]) : b \in DOMAIN batches} = Targets(items)
      BY <1>1 DEF ListInv
    <3> DEFINE rest == Tail(batches)
    <3> HIDE DEF rest, items, batches, active
    <3>2. UNION {Targets(batches[b]) : b \in DOMAIN batches}
            = Targets(batches[1]) \cup UNION {Targets(rest[b]) : b \in DOMAIN rest}
      <4>1. \A x : x \in UNION {Targets(batches[b]) : b \in DOMAIN batches}
                     <=> \E b \in DOMAIN batches : x \in Targets(batches[b])
        OBVIOUS
      <4>2. \A x : x \in UNION {Targets(rest[b]) : b \in DOMAIN rest}
                     <=> \E b \in DOMAIN rest : x \in Targets(rest[b])
        OBVIOUS
      <4>3. \A x : (\E b \in DOMAIN batches : x \in Targets(batches[b]))
                     <=> x \in Targets(batches[1]) \/ \E b \in DOMAIN rest : x \in Targets(rest[b])
        BY <2>2 DEF rest
      <4> QED BY <4>1, <4>2, <4>3
    <3>3. \A b \in DOMAIN rest : Including(rest[b])
      BY <2>2, <3>1 DEF rest
    <3> QED BY <2>4, <3>1, <3>2, <3>3 DEF rest, more
  <2> HIDE DEF more
  <2>6. fetch' \in Fetching
    BY <1>1, <2>1, <2>2, <2>3 DEF Fetching
  <2>7. /\ fetch'.items = items /\ fetch'.batches = Tail(batches) /\ fetch'.active = more
        /\ fetch'.state = "listing"
    BY <1>1, <2>1 DEF Fetching
  <2> QED BY <1>1, <2>5, <2>6, <2>7 DEF FetchInv
<1>3. CASE BatchRefused
  <2>1. fetch' = [fetch EXCEPT !.active = Filtered(items), !.batches = <<>>, !.state = "filtered"]
    BY <1>3 DEF BatchRefused
  <2>2. Filtered(items) \in SUBSET Catalogue
    BY DEF Filtered
  <2>3. ListInv(items, <<>>, Filtered(items))
    BY <1>1, FilteredPlain DEF ListInv
  <2>4. fetch' \in Fetching
    <3>1. <<>> \in Seq(Seq(Items)) /\ fetch.current \in Seq(Items)
      BY <1>1 DEF Fetching
    <3> QED BY <1>1, <2>1, <2>2, <3>1 DEF Fetching
  <2>5. /\ fetch'.items = items /\ fetch'.batches = <<>> /\ fetch'.active = Filtered(items)
        /\ fetch'.state = "filtered"
    BY <1>1, <2>1 DEF Fetching
  <2> QED BY <1>1, <2>3, <2>4, <2>5 DEF FetchInv
<1> QED BY <1>2, <1>3

(***************************************************************************)
(* The first items of a list are no longer, joined, than the list.         *)
(***************************************************************************)
LEMMA PrefixesAreShorter ==
    ASSUME NEW items \in Seq(Items), NEW k \in 1..Len(items)
    PROVE  JoinedLength(SubSeq(items, 1, k)) <= JoinedLength(items)
PROOF
<1> DEFINE n == Len(items)
           first(m) == SubSeq(items, 1, m)
           G == {m \in 0..n : \/ n - m = 0
                             \/ JoinedLength(first(n - m)) <= JoinedLength(items)}
<1>1. n \in Nat /\ DOMAIN items = 1..n
  OBVIOUS
<1>2. first(n) = items
  BY LenProperties
<1>3. 0 \in G
  <2>1. Total(items) \in Nat /\ n \in Nat
    BY <1>1, AppendedTotal
  <2>2. JoinedLength(items) <= JoinedLength(items)
    BY <2>1 DEF JoinedLength, n
  <2>3. n - 0 = n /\ 0 \in 0..n
    BY <1>1
  <2>4. JoinedLength(first(n - 0)) <= JoinedLength(items)
    BY <1>2, <2>2, <2>3
  <2> HIDE DEF n, first
  <2> QED BY <2>3, <2>4
<1>4. ASSUME NEW m \in 1..n, m - 1 \in G PROVE m \in G
  <2> DEFINE p == n - m
  <2>1. p \in Nat /\ n - (m - 1) = p + 1 /\ p + 1 \in 1..n /\ m \in 0..n
    BY <1>1
  <2>2. CASE p = 0
    BY <2>1, <2>2
  <2>3. CASE p # 0
    <3>1. JoinedLength(first(p + 1)) <= JoinedLength(items)
      BY <1>4, <2>1
    <3>2. /\ first(p) \in Seq(Items) /\ items[p + 1] \in Items
          /\ first(p + 1) = Append(first(p), items[p + 1])
      <4>1. p + 1 \in 1..Len(items)
        BY <2>1
      <4> HIDE DEF p
      <4> QED BY <2>1, <4>1, PrefixGrows
    <3>3. /\ JoinedLength(first(p + 1)) = JoinedLength(first(p)) + Length(items[p + 1]) + 1
          /\ Length(items[p + 1]) \in Nat
      BY <3>2, JoinedOfAppend, LengthIsNat
    <3>4. JoinedLength(first(p)) \in Int /\ JoinedLength(items) \in Int
      <4>1. \A x \in Seq(Items) : JoinedLength(x) \in Int
        BY AppendedTotal DEF JoinedLength
      <4> QED BY <3>2, <4>1
    <3>5. JoinedLength(first(p)) <= JoinedLength(items)
      <4>1. \A a, b, l : a \in Int /\ b \in Int /\ l \in Nat /\ a + l + 1 <= b => a <= b
        OBVIOUS
      <4> QED BY <3>1, <3>3, <3>4, <4>1
    <3> QED BY <2>1, <3>5
  <2> QED BY <2>2, <2>3
<1>5. 0..n \subseteq G
  <2> HIDE DEF G
  <2> QED BY <1>1, <1>3, <1>4, Packing!Upward
<1>6. n - k \in 0..n /\ n - (n - k) = k /\ k # 0
  BY <1>1
<1>7. n - k \in G
  BY <1>5, <1>6
<1> QED BY <1>6, <1>7

\* The items fit one command.
Fitting(items) == items # <<>> /\ JoinedLength(items) <= MaxLen

(***************************************************************************)
(* Items that fit one command are never cut into two, and its answer is    *)
(* all that is listed.                                                     *)
(***************************************************************************)
OneCommand ==
    Fitting(fetch.items) =>
        /\ fetch.state = "packing" =>
               fetch.batches = <<>> /\ fetch.current = SubSeq(fetch.items, 1, fetch.taken)
        /\ fetch.state = "listing" =>
               \/ fetch.batches = <<fetch.items>> /\ fetch.active = {}
               \/ fetch.batches = <<>> /\ fetch.active = Answered(fetch.items)

LEMMA OneCommandStarts == PatternsInit => OneCommand
PROOF
<1> SUFFICES ASSUME PatternsInit PROVE OneCommand
  OBVIOUS
<1>1. PICK items \in Subscriptions : fetch = Fetch(items, <<>>, <<>>, 0, 0, {}, "packing")
  BY DEF PatternsInit, Fetches, Fetch
<1>2. SubSeq(items, 1, 0) = <<>>
  BY SubscriptionsAssumption
<1> QED BY <1>1, <1>2 DEF OneCommand, Fetch

LEMMA OneCommandPacks == FetchInv /\ OneCommand /\ (PackItem \/ PackLast) => OneCommand'
PROOF
<1> SUFFICES ASSUME FetchInv, OneCommand, PackItem \/ PackLast, Fitting(fetch.items)'
             PROVE  OneCommand'
  BY DEF OneCommand
<1> DEFINE items == fetch.items
           taken == fetch.taken
           item == items[taken + 1]
<1>1. /\ fetch \in Fetching /\ items \in Seq(Items) /\ taken \in Nat
      /\ fetch.state = "packing" /\ fetch'.items = items
  BY DEF FetchInv, Fetching, PackItem, PackLast
<1>2. Fitting(items)
  BY <1>1
<1>3. /\ fetch.batches = <<>> /\ fetch.current = SubSeq(items, 1, taken) /\ fetch.active = {}
      /\ PackInv(items, <<>>, fetch.current, fetch.length, taken)
  BY <1>1, <1>2 DEF OneCommand, FetchInv
<1>4. CASE PackItem
  <2>1. taken + 1 \in 1..Len(items) /\ item \in Items
    <3>1. taken < Len(items)
      BY <1>4 DEF PackItem
    <3> QED BY <1>1, <3>1, SharedByOneMore
  <2>2. Append(fetch.current, item) = SubSeq(items, 1, taken + 1)
    <3> HIDE DEF items, taken
    <3> QED BY <1>1, <1>3, <2>1, PrefixGrows DEF item
  <2>3. Fits(item)
    <3>1. CASE fetch.current = <<>>
      BY <3>1 DEF Fits
    <3>2. CASE fetch.current # <<>>
      <4>1. fetch.length = JoinedLength(fetch.current) /\ Comma = 1 /\ fetch.current \in Seq(Items)
        BY <1>1, <1>3, <3>2 DEF PackInv, Comma, Fetching
      <4>2. JoinedLength(SubSeq(items, 1, taken + 1)) = fetch.length + Length(item) + 1
        BY <2>1, <2>2, <4>1, JoinedOfAppend
      <4>3. JoinedLength(SubSeq(items, 1, taken + 1)) <= JoinedLength(items)
        BY <1>1, <2>1, PrefixesAreShorter
      <4>4. JoinedLength(items) \in Int /\ JoinedLength(SubSeq(items, 1, taken + 1)) \in Int
        <5>1. \A x \in Seq(Items) : JoinedLength(x) \in Int
          BY AppendedTotal DEF JoinedLength
        <5>2. SubSeq(items, 1, taken + 1) \in Seq(Items)
          <6> HIDE DEF items, taken, item
          <6> QED BY <2>1, <2>2, <4>1, AppendProperties
        <5> QED BY <1>1, <5>1, <5>2
      <4>5. JoinedLength(items) <= MaxLen /\ MaxLen \in Nat
        BY <1>2, PatternsAssumption DEF Fitting
      <4>6. fetch.length + Length(item) + Comma <= MaxLen
        <5>1. \A a, b, m \in Int : a <= b /\ b <= m => a <= m
          OBVIOUS
        <5> QED BY <4>1, <4>2, <4>3, <4>4, <4>5, <5>1
      <4> QED BY <4>6 DEF Fits
    <3> QED BY <3>1, <3>2
  <2>4. /\ fetch'.state = "packing" /\ fetch'.batches = <<>> /\ fetch'.taken = taken + 1
        /\ fetch'.current = Append(fetch.current, item)
    BY <1>1, <1>3, <1>4, <2>3 DEF PackItem, Fetching
  <2> QED BY <1>1, <2>2, <2>4 DEF OneCommand
<1>5. CASE PackLast
  <2>1. fetch.current = items
    <3>1. taken = Len(items)
      BY <1>5 DEF PackLast
    <3>2. SubSeq(items, 1, Len(items)) = items
      BY <1>1, LenProperties
    <3> QED BY <1>3, <3>1, <3>2
  <2>2. items # <<>> /\ ~(JoinedLength(items) > MaxLen)
    <3>1. JoinedLength(items) \in Int /\ MaxLen \in Nat
      BY <1>1, AppendedTotal, PatternsAssumption DEF JoinedLength
    <3>2. \A a, m \in Int : a <= m => ~(a > m)
      OBVIOUS
    <3> QED BY <1>2, <3>1, <3>2 DEF Fitting
  <2>3. Packed(<<>>, items) = <<items>>
    <3>1. Append(<<>>, items) = <<items>>
      BY <1>1
    <3> QED BY <2>2, <3>1 DEF Packed
  <2>4. <<items>> # <<>>
    OBVIOUS
  <2>5. fetch' = [fetch EXCEPT !.current = <<>>, !.state = "listing", !.batches = <<items>>]
    BY <1>3, <1>5, <2>1, <2>2, <2>3, <2>4 DEF PackLast
  <2>6. fetch'.state = "listing" /\ fetch'.batches = <<items>> /\ fetch'.active = {}
    BY <1>1, <1>3, <2>5 DEF Fetching
  <2> QED BY <1>1, <2>6 DEF OneCommand
<1> QED BY <1>4, <1>5

LEMMA OneCommandLists == FetchInv /\ OneCommand /\ (ListBatch \/ BatchRefused) => OneCommand'
PROOF
<1> SUFFICES ASSUME FetchInv, OneCommand, ListBatch \/ BatchRefused, Fitting(fetch.items)'
             PROVE  OneCommand'
  BY DEF OneCommand
<1> DEFINE items == fetch.items
<1>1. /\ fetch \in Fetching /\ items \in Seq(Items) /\ fetch.state = "listing"
      /\ fetch.batches # <<>> /\ fetch'.items = items
  BY DEF FetchInv, Fetching, ListBatch, BatchRefused
<1>2. Fitting(items)
  BY <1>1
<1>3. fetch.batches = <<items>> /\ fetch.active = {}
  BY <1>1, <1>2 DEF OneCommand
<1>4. CASE ListBatch
  <2>1. Head(<<items>>) = items /\ Tail(<<items>>) = <<>>
    OBVIOUS
  <2>2. fetch' = [fetch EXCEPT !.active = Answered(items), !.batches = <<>>]
    BY <1>3, <1>4, <2>1 DEF ListBatch
  <2>3. fetch'.state = "listing" /\ fetch'.batches = <<>> /\ fetch'.active = Answered(items)
    BY <1>1, <2>2 DEF Fetching
  <2> QED BY <1>1, <2>3 DEF OneCommand
<1>5. CASE BatchRefused
  <2>1. fetch'.state = "filtered"
    BY <1>1, <1>5 DEF BatchRefused, Fetching
  <2> QED BY <2>1 DEF OneCommand
<1> QED BY <1>4, <1>5

(***************************************************************************)
(* Patterns select what they say: one name at a time; as a list of         *)
(* subscriptions without an exclusion, however the items are packed into   *)
(* commands and wherever the server refuses one; and as a list with        *)
(* exclusions that is sent in one command (matches_one, Wildmat::matches,  *)
(* batch_patterns, load_groups).                                           *)
(***************************************************************************)
THEOREM PatternsRight == PatternsSpec => []PatternsAsMeant
PROOF
<1>1. FetchInv /\ OneCommand /\ [PatternsNext]_patternVars => (FetchInv /\ OneCommand)'
  <2> SUFFICES ASSUME FetchInv, OneCommand, [PatternsNext]_patternVars
               PROVE  (FetchInv /\ OneCommand)'
    OBVIOUS
  <2>1. CASE Listing
    BY <2>1, PackStep, PackLastStep, ListStep, OneCommandPacks, OneCommandLists DEF Listing
  <2>2. CASE UNCHANGED fetch
    BY <2>2 DEF FetchInv, OneCommand
  <2> QED BY <2>1, <2>2 DEF PatternsNext, Matching, patternVars
<1>2. FetchInv /\ OneCommand => SubscriptionsListed
  <2> SUFFICES ASSUME FetchInv, OneCommand, fetch.state # "packing", fetch.batches = <<>>,
                      NothingExcluded \/ InOneCommand
               PROVE  fetch.active = {g \in Catalogue : fetch.items = <<>> \/ Wanted(fetch.items, g)}
    BY DEF SubscriptionsListed
  <2>1. fetch.items \in Seq(Items) /\ fetch.active \in SUBSET Catalogue
    BY DEF FetchInv, Fetching
  <2>2. CASE Including(fetch.items)
    <3>1. fetch.active = Targets(fetch.items)
      <4>1. UNION {Targets(fetch.batches[b]) : b \in DOMAIN fetch.batches} = {}
        OBVIOUS
      <4>2. fetch.active \cup UNION {Targets(fetch.batches[b]) : b \in DOMAIN fetch.batches}
              = Targets(fetch.items)
        BY <2>2 DEF FetchInv, ListInv
      <4> QED BY <4>1, <4>2
    <3>2. \A g \in Catalogue : Wanted(fetch.items, g)
              <=> \E i \in DOMAIN fetch.items : Denotes1(fetch.items[i].text, g)
      BY <2>1, <2>2, WantedPlain
    <3> QED BY <3>1, <3>2 DEF Targets
  <2>3. CASE ~Including(fetch.items)
    <3>1. InOneCommand /\ fetch.items # <<>>
      BY <2>3 DEF Including, NothingExcluded
    <3>2. fetch.active = Answered(fetch.items)
      <4>1. <<fetch.items>> # <<>>
        OBVIOUS
      <4> QED BY <3>1, <4>1 DEF OneCommand, Fitting, InOneCommand
    <3>3. \A g \in Catalogue : Matches(fetch.items, g) <=> Wanted(fetch.items, g)
      BY <2>1, LastDecides
    <3> QED BY <3>2, <3>3 DEF Answered
  <2> QED BY <2>2, <2>3
<1>3. MatchesAsMeant /\ SubscriptionsListed => PatternsAsMeant
  BY DEF PatternsAsMeant
<1> QED BY MatcherIsRight, FetchStart, OneCommandStarts, <1>1, <1>2, <1>3, PTL DEF PatternsSpec

-----------------------------------------------------------------------------
(* From the editor to another reader's screen                              *)

Lines == Seq(Words)

Filled == Lines \ {<<>>}

\* A line of what the editor left is a line, and so is the one that ends a block.
LEMMA LinesOfModel == Terminator \in Lines /\ <<" ">> \in Lines /\ <<>> \in Lines
PROOF
<1>1. " " \in Words /\ "." \in Words
  BY DraftsAssumption
<1>2. \A word \in Words : <<word>> \in Seq(Words)
  OBVIOUS
<1>3. <<>> \in Seq(Words)
  OBVIOUS
<1> QED BY <1>1, <1>2, <1>3 DEF Terminator, Lines

\* A nonempty set of numbers has a least one.
LEMMA MinIs ==
    ASSUME NEW S, S \subseteq Nat, S # {}
    PROVE  Min(S) \in S /\ \A x \in S : Min(S) <= x
PROOF
<1>1. PICK m \in S : \A x \in S : m <= x
  BY Packing!LeastNumber
<1>2. Min(S) = m
  BY <1>1, LeastOf
<1> QED BY <1>1, <1>2

\* A nonempty set of positions has a greatest one.
LEMMA MaxIs ==
    ASSUME NEW n \in Nat, NEW S \in SUBSET (1..n), S # {}
    PROVE  Max(S) \in S /\ \A x \in S : x <= Max(S)
PROOF
<1>1. PICK m \in S : \A x \in S : x <= m
  BY Packing!GreatestIndex
<1>2. S \subseteq Nat /\ m \in S /\ \A x \in S : m >= x
  BY <1>1
<1>3. Max(S) = m
  BY <1>2, GreatestOf
<1> QED BY <1>1, <1>3

\* The headers end before the first blank line.
LEMMA HeadEndIs ==
    ASSUME NEW t \in Seq(Lines)
    PROVE  /\ HeadEnd(t) \in 1..(Len(t) + 1)
           /\ \A j \in 1..(HeadEnd(t) - 1) : j \in DOMAIN t /\ ~Blank(t[j])
PROOF
<1> DEFINE n == Len(t)
           S == {i \in 1..(n + 1) : i \in DOMAIN t => Blank(t[i])}
<1>1. n \in Nat /\ DOMAIN t = 1..n
  OBVIOUS
<1> HIDE DEF n
<1>2. n + 1 \in S /\ S \subseteq Nat
  BY <1>1
<1>3. Min(S) \in S /\ \A x \in S : Min(S) <= x
  <2> HIDE DEF S
  <2> QED BY <1>2, MinIs
<1>4. HeadEnd(t) = Min(S)
  BY DEF HeadEnd, n
<1>5. ASSUME NEW j \in 1..(Min(S) - 1) PROVE j \in DOMAIN t /\ ~Blank(t[j])
  <2>1. Min(S) \in 1..(n + 1)
    BY <1>3
  <2> HIDE DEF S
  <2>2. j \in 1..n /\ j \in 1..(n + 1) /\ ~(Min(S) <= j)
    BY <1>1, <2>1
  <2>3. j \notin S
    BY <1>3, <2>2
  <2> QED BY <1>1, <2>2, <2>3 DEF S
<1>6. Min(S) \in 1..(n + 1)
  BY <1>3
<1> HIDE DEF S
<1> QED BY <1>4, <1>5, <1>6 DEF n

\* What is left of a line that is not blank is a line that is not empty.
LEMMA TrimmedIsLine ==
    ASSUME NEW line \in Lines, ~Blank(line)
    PROVE  Trimmed(line) \in Filled /\ line # <<>>
PROOF
<1> DEFINE n == Len(line)
           S == Printed(line)
<1>1. n \in Nat /\ DOMAIN line = 1..n /\ \A i \in 1..n : line[i] \in Words
  BY DEF Lines
<1> HIDE DEF n
<1>2. S \in SUBSET (1..n) /\ S \subseteq Nat /\ S # {}
  <2>1. S \subseteq 1..n
    BY <1>1 DEF Printed
  <2>2. \E i \in DOMAIN line : line[i] # " "
    BY DEF Blank
  <2>3. S # {}
    BY <2>2 DEF Printed
  <2> HIDE DEF S
  <2> QED BY <1>1, <2>1, <2>3
<1> HIDE DEF S
<1>3. Min(S) \in S /\ Max(S) \in S /\ Min(S) <= Max(S)
  BY <1>1, <1>2, MinIs, MaxIs
<1>4. Min(S) \in 1..n /\ Max(S) \in 1..n
  BY <1>2, <1>3
<1>5. \A i \in (Min(S))..(Max(S)) : i \in 1..n
  BY <1>1, <1>4
<1>6. /\ SubSeq(line, Min(S), Max(S)) \in Seq(Words)
      /\ Len(SubSeq(line, Min(S), Max(S)))
           = IF Min(S) <= Max(S) THEN Max(S) - Min(S) + 1 ELSE 0
  BY <1>1, <1>4, <1>5, SubSeqProperties
<1>7. line # <<>>
  <2>1. 1..n # {}
    BY <1>4
  <2>2. DOMAIN line # {}
    BY <1>1, <2>1
  <2> QED BY <2>2
<1>8. SubSeq(line, Min(S), Max(S)) # <<>>
  <2>1. Max(S) - Min(S) + 1 # 0
    BY <1>3, <1>4
  <2>2. Len(SubSeq(line, Min(S), Max(S))) # 0
    BY <1>3, <1>6, <2>1
  <2> QED BY <1>6, <2>2, EmptySeq
<1> QED BY <1>6, <1>7, <1>8 DEF Trimmed, S, Lines, Filled

\* The loop of Draft::parse that unfolds the headers, for FoldTheorems.
UnfoldStep(c, headers, line) == Unfold(headers, line)

\* A line with something on it.
Legible == {line \in Lines : ~Blank(line)}

HeadersSoFar(c, k, headers) == headers \in Seq(Legible)

Unfolding == INSTANCE FoldTheorems WITH step <- UnfoldStep, weigh <- NoWeight, Holds <- HeadersSoFar

\* What is put after a line does not empty it.
LEMMA Longer ==
    ASSUME NEW S, NEW front \in Seq(S), NEW back \in Seq(S), front # <<>>
    PROVE  front \o back \in Seq(S) /\ front \o back # <<>>
PROOF
<1>1. /\ front \o back \in Seq(S) /\ Len(front \o back) = Len(front) + Len(back)
      /\ Len(front) \in Nat \ {0} /\ Len(back) \in Nat
  BY ConcatProperties, EmptySeq
<1>2. \A a \in Nat \ {0} : \A b \in Nat : a + b # 0
  OBVIOUS
<1>3. Len(front \o back) # 0
  BY <1>1, <1>2
<1> QED BY <1>1, <1>3, EmptySeq

\* A line with something on it keeps it when another is put after it.
LEMMA StaysLegible ==
    ASSUME NEW front \in Lines, NEW back \in Lines, ~Blank(front)
    PROVE  front \o back \in Lines /\ ~Blank(front \o back)
PROOF
<1>1. PICK i \in DOMAIN front : front[i] # " "
  BY DEF Blank
<1>2. front \in Seq(Words) /\ back \in Seq(Words)
  BY DEF Lines
<1>3. /\ front \o back \in Seq(Words) /\ Len(front \o back) = Len(front) + Len(back)
      /\ \A k \in 1..(Len(front) + Len(back)) :
            (front \o back)[k] = IF k <= Len(front) THEN front[k] ELSE back[k - Len(front)]
  BY <1>2, ConcatProperties
<1>4. i \in 1..Len(front) /\ Len(front) \in Nat /\ Len(back) \in Nat
  BY <1>2
<1>5. i \in 1..(Len(front) + Len(back)) /\ i <= Len(front)
  BY <1>4
<1>6. i \in DOMAIN (front \o back)
  BY <1>3, <1>5
<1>7. (front \o back)[i] # " "
  BY <1>1, <1>3, <1>5
<1> QED BY <1>3, <1>6, <1>7 DEF Blank, Lines

\* One more line of the headers.
LEMMA UnfoldKeeps ==
    ASSUME NEW headers \in Seq(Legible), NEW line \in Lines, ~Blank(line)
    PROVE  Unfold(headers, line) \in Seq(Legible)
PROOF
<1>1. line \in Legible /\ Trimmed(line) \in Seq(Words)
  BY TrimmedIsLine DEF Legible, Filled, Lines
<1>2. CASE headers # <<>> /\ line[1] = " "
  <2> DEFINE n == Len(headers)
             last == headers[n] \o <<" ">> \o Trimmed(line)
  <2>1. n \in 1..Len(headers) /\ headers[n] \in Legible
    <3>1. n \in Nat \ {0} /\ n = Len(headers)
      BY <1>2, EmptySeq
    <3> HIDE DEF n
    <3>2. n \in 1..Len(headers)
      BY <3>1
    <3> QED BY <3>2, ElementOfSeq
  <2>2. headers[n] \in Seq(Words) /\ <<" ">> \in Seq(Words)
    BY <2>1, LinesOfModel DEF Legible, Lines
  <2>3. headers[n] \o <<" ">> \in Seq(Words)
    BY <2>2, ConcatProperties
  <2>4. last \in Lines /\ ~Blank(last)
    <3>1. /\ headers[n] \in Lines /\ ~Blank(headers[n])
          /\ headers[n] \o <<" ">> \in Lines /\ <<" ">> \in Lines /\ Trimmed(line) \in Lines
      BY <1>1, <2>1, <2>2, <2>3 DEF Legible, Lines
    <3>2. ~Blank(headers[n] \o <<" ">>)
      BY <3>1, StaysLegible
    <3> QED BY <3>1, <3>2, StaysLegible
  <2>5. last \in Legible
    BY <2>4 DEF Legible
  <2> HIDE DEF last
  <2>6. [headers EXCEPT ![n] = last] \in Seq(Legible)
    BY <2>1, <2>5, ExceptSeq
  <2> QED BY <1>2, <2>6 DEF Unfold, last
<1>3. CASE ~(headers # <<>> /\ line[1] = " ")
  <2>1. Append(headers, line) \in Seq(Legible)
    BY <1>1, AppendProperties
  <2> QED BY <1>3, <2>1 DEF Unfold
<1> QED BY <1>2, <1>3

\* A header is a line that is not empty.
LEMMA HeaderIs ==
    ASSUME NEW line \in Legible
    PROVE  Header(line) \in Filled
PROOF
<1> DEFINE field == Trimmed(line)
           called == <<field[1]>>
<1>1. field \in Seq(Words) /\ field # <<>>
  BY TrimmedIsLine DEF Legible, Filled, Lines
<1> HIDE DEF field
<1>2. field[1] \in Words /\ Tail(field) \in Seq(Words)
  BY <1>1
<1>3. called \in Seq(Words) /\ called # <<>>
  BY <1>2
<1> HIDE DEF called
<1>4. CASE Blank(Tail(field))
  BY <1>3, <1>4 DEF Header, field, called, Filled, Lines
<1>5. CASE ~Blank(Tail(field))
  <2>1. Trimmed(Tail(field)) \in Seq(Words)
    BY <1>2, <1>5, TrimmedIsLine DEF Filled, Lines
  <2>2. called \o Trimmed(Tail(field)) \in Seq(Words) /\ called \o Trimmed(Tail(field)) # <<>>
    BY <1>3, <2>1, Longer
  <2> QED BY <1>5, <2>2 DEF Header, field, called, Filled, Lines
<1> QED BY <1>4, <1>5

\* The header lines with their continuations, before names and values are trimmed.
Unfolded(t) == FoldLeft(Unfold, <<>>, SubSeq(t, 1, HeadEnd(t) - 1))

\* The fold of DraftHeaders is that of FoldTheorems.
LEMMA HeadersAreFold ==
    ASSUME NEW c, NEW t
    PROVE  Unfolded(t) = Unfolding!Fold(c, <<>>, SubSeq(t, 1, HeadEnd(t) - 1))
  BY DEF Unfolded, UnfoldStep, FoldLeft, MapThenFoldSet, Max,
         Unfolding!Fold, Unfolding!FoldLeft, Unfolding!MapThenFoldSet, Unfolding!Max

(***************************************************************************)
(* No header of a draft is an empty line, and a draft that begins with a   *)
(* blank line has none.                                                    *)
(***************************************************************************)
LEMMA HeadersAre ==
    ASSUME NEW t \in Seq(Lines)
    PROVE  /\ DraftHeaders(t) \in Seq(Filled)
           /\ HeadEnd(t) = 1 => DraftHeaders(t) = <<>>
PROOF
<1> DEFINE h == HeadEnd(t)
           head == SubSeq(t, 1, h - 1)
           n == h - 1
<1>1. h \in 1..(Len(t) + 1) /\ \A j \in 1..n : j \in DOMAIN t /\ ~Blank(t[j])
  BY HeadEndIs
<1>2. n \in Nat /\ n \in Int /\ h \in Nat /\ 1 \in Int
  BY <1>1
<1>3. \A j \in 1..n : t[j] \in Lines
  BY <1>1
<1>4. head \in Seq(Lines) /\ Len(head) = n /\ \A j \in 1..n : head[j] = t[j]
  <2> HIDE DEF h
  <2>1. /\ head \in Seq(Lines)
        /\ Len(head) = IF 1 <= n THEN n - 1 + 1 ELSE 0
        /\ \A j \in 1..(n - 1 + 1) : head[j] = t[1 + j - 1]
    BY <1>2, <1>3, SubSeqProperties
  <2>2. n - 1 + 1 = n /\ (IF 1 <= n THEN n - 1 + 1 ELSE 0) = n /\ \A j \in 1..n : 1 + j - 1 = j
    BY <1>2
  <2> QED BY <2>1, <2>2
<1> HIDE DEF h, head
<1>5. DOMAIN head = 1..n
  BY <1>4
<1>6. HeadersSoFar(0, 0, <<>>)
  BY EmptySeq DEF HeadersSoFar
<1>7. \A k \in 1..n : \A x : HeadersSoFar(0, k - 1, x) => HeadersSoFar(0, k, UnfoldStep(0, x, head[k]))
  BY <1>1, <1>3, <1>4, UnfoldKeeps DEF HeadersSoFar, UnfoldStep
<1> HIDE DEF n
<1>8. HeadersSoFar(0, n, Unfolding!Fold(0, <<>>, head))
  BY <1>2, <1>5, <1>6, <1>7, Unfolding!FoldKeeps
<1>9. Unfolded(t) = Unfolding!Fold(0, <<>>, head)
  BY HeadersAreFold DEF head, h
<1> DEFINE unfolded == Unfolded(t)
<1>10. unfolded \in Seq(Legible)
  BY <1>8, <1>9 DEF HeadersSoFar
<1>11. DraftHeaders(t) = [i \in DOMAIN unfolded |-> Header(unfolded[i])]
  BY DEF DraftHeaders, Unfolded
<1> HIDE DEF unfolded
<1>12. DraftHeaders(t) \in Seq(Filled)
  <2>1. \A i \in DOMAIN unfolded : Header(unfolded[i]) \in Filled
    BY <1>10, HeaderIs
  <2>2. Len(unfolded) \in Nat /\ DOMAIN unfolded = 1..Len(unfolded)
    BY <1>10
  <2>3. [i \in 1..Len(unfolded) |-> Header(unfolded[i])] \in Seq(Filled)
    BY <2>1, <2>2
  <2> QED BY <1>11, <2>2, <2>3
<1>13. ASSUME h = 1 PROVE DraftHeaders(t) = <<>>
  <2>1. n = 0
    BY <1>13 DEF n
  <2>2. PICK it : Unfolding!Traces(it, 0, <<>>, head, n)
    BY <1>2, <1>5, Unfolding!FoldTrace
  <2>3. unfolded = <<>>
    BY <1>9, <2>1, <2>2 DEF Unfolding!Traces, unfolded
  <2>4. DOMAIN unfolded = {}
    BY <2>3
  <2>5. DOMAIN DraftHeaders(t) = {}
    BY <1>11, <2>4
  <2> QED BY <1>12, <2>5
<1> QED BY <1>12, <1>13 DEF h

\* A stuffed line never ends a block and comes back as it was.
LEMMA StuffIs ==
    ASSUME NEW line \in Lines
    PROVE  Stuff(line) \in Lines /\ Stuff(line) # Terminator /\ Unstuff(Stuff(line)) = line
PROOF
<1>1. CASE line # <<>> /\ line[1] = "."
  <2> DEFINE dot == <<".">>
             long == dot \o line
  <2>1. line \in Seq(Words) /\ Len(line) \in Nat \ {0} /\ dot \in Seq(Words) /\ Len(dot) = 1 /\ dot[1] = "."
    BY <1>1, LinesOfModel, EmptySeq DEF Lines, Terminator
  <2> HIDE DEF dot
  <2>2. /\ long \in Seq(Words) /\ Len(long) = 1 + Len(line)
        /\ \A i \in 1..(1 + Len(line)) : long[i] = IF i <= 1 THEN dot[i] ELSE line[i - 1]
    <3>1. /\ long \in Seq(Words) /\ Len(long) = Len(dot) + Len(line)
          /\ \A i \in 1..(Len(dot) + Len(line)) :
                long[i] = IF i <= Len(dot) THEN dot[i] ELSE line[i - Len(dot)]
      BY <2>1, ConcatProperties
    <3>2. Len(dot) = 1
      BY <2>1
    <3> HIDE DEF long
    <3> QED BY <3>1, <3>2
  <2> HIDE DEF long
  <2>3. Len(long) # 1 /\ Len(long) # 0 /\ long # <<>> /\ 1 \in 1..(1 + Len(line))
    BY <2>1, <2>2
  <2>4. long[1] = "."
    BY <2>1, <2>2, <2>3
  <2>5. Tail(long) = line
    <3>1. /\ Tail(long) \in Seq(Words) /\ Len(Tail(long)) = Len(long) - 1
          /\ \A i \in 1..Len(Tail(long)) : Tail(long)[i] = long[i + 1]
      BY <2>2, <2>3, HeadTailProperties
    <3>2. Len(Tail(long)) = Len(line)
      BY <2>1, <2>2, <3>1
    <3>3. ASSUME NEW i \in 1..Len(line) PROVE Tail(long)[i] = line[i]
      <4>1. i + 1 \in 1..(1 + Len(line)) /\ ~(i + 1 <= 1) /\ (i + 1) - 1 = i
        BY <2>1
      <4>2. long[i + 1] = line[i]
        BY <2>2, <4>1
      <4> QED BY <3>1, <3>2, <4>2
    <3> QED BY <2>1, <3>1, <3>2, <3>3, SeqEqual
  <2>6. Stuff(line) = long
    BY <1>1 DEF Stuff, long, dot
  <2>7. long # Terminator
    <3>1. Len(Terminator) = 1
      BY DEF Terminator
    <3> QED BY <2>3, <3>1
  <2> QED BY <2>2, <2>3, <2>4, <2>5, <2>6, <2>7 DEF Unstuff, Lines
<1>2. CASE ~(line # <<>> /\ line[1] = ".")
  <2>1. Stuff(line) = line /\ Unstuff(line) = line
    BY <1>2 DEF Stuff, Unstuff
  <2>2. line # Terminator
    <3>1. Terminator # <<>> /\ Terminator[1] = "."
      BY DEF Terminator
    <3> QED BY <1>2, <3>1
  <2> QED BY <2>1, <2>2
<1> QED BY <1>1, <1>2

\* The octets of a block: its lines, stuffed, and the line that ends it.
IsBlock(w, lines) ==
    /\ w \in Seq(Lines) /\ Len(w) = Len(lines) + 1
    /\ \A i \in 1..Len(lines) : w[i] = Stuff(lines[i])
    /\ w[Len(lines) + 1] = Terminator

LEMMA BlockIs ==
    ASSUME NEW lines \in Seq(Lines)
    PROVE  IsBlock(Block(lines), lines)
PROOF
<1> DEFINE n == Len(lines)
           stuffed == [i \in DOMAIN lines |-> Stuff(lines[i])]
<1>1. n \in Nat /\ DOMAIN lines = 1..n /\ \A i \in 1..n : lines[i] \in Lines
  BY LenProperties
<1>2. \A i \in 1..n : Stuff(lines[i]) \in Lines
  BY <1>1, StuffIs
<1>3. stuffed \in Seq(Lines) /\ Len(stuffed) = n /\ \A i \in 1..n : stuffed[i] = Stuff(lines[i])
  <2> HIDE DEF n
  <2>1. stuffed = [i \in 1..n |-> Stuff(lines[i])]
    BY <1>1
  <2>2. [i \in 1..n |-> Stuff(lines[i])] \in Seq(Lines)
    BY <1>1, <1>2
  <2> QED BY <1>1, <2>1, <2>2
<1> HIDE DEF stuffed
<1>4. /\ Append(stuffed, Terminator) \in Seq(Lines) /\ Len(Append(stuffed, Terminator)) = n + 1
      /\ \A i \in 1..n : Append(stuffed, Terminator)[i] = stuffed[i]
      /\ Append(stuffed, Terminator)[n + 1] = Terminator
  <2> HIDE DEF n
  <2>1. Terminator \in Lines
    BY LinesOfModel
  <2> QED BY <1>3, <2>1, AppendProperties
<1> QED BY <1>3, <1>4 DEF Block, IsBlock, stuffed

\* The end of a block is seen exactly when its lines have been read.
LEMMA BlockReads ==
    ASSUME NEW lines \in Seq(Lines), NEW w, IsBlock(w, lines)
    PROVE  /\ w # <<>>
           /\ Head(w) = Terminator => lines = <<>> /\ Tail(w) = <<>>
           /\ Head(w) # Terminator => /\ lines # <<>>
                                      /\ Unstuff(Head(w)) = Head(lines)
                                      /\ IsBlock(Tail(w), Tail(lines))
PROOF
<1> DEFINE n == Len(lines)
<1>1. n \in Nat /\ w \in Seq(Lines) /\ Len(w) = n + 1 /\ n + 1 # 0
  BY LenProperties DEF IsBlock
<1>2. w # <<>> /\ Head(w) = w[1]
  BY <1>1
<1>3. /\ Tail(w) \in Seq(Lines) /\ Len(Tail(w)) = n + 1 - 1
      /\ \A i \in 1..Len(Tail(w)) : Tail(w)[i] = w[i + 1]
  BY <1>1, <1>2, HeadTailProperties
<1>4. CASE lines = <<>>
  <2>1. n = 0 /\ w[1] = Terminator
    BY <1>1, <1>4 DEF IsBlock
  <2>2. Tail(w) = <<>>
    <3>1. Len(Tail(w)) = 0
      BY <1>3, <2>1
    <3> QED BY <1>3, <3>1, EmptySeq
  <2> QED BY <1>2, <1>4, <2>1, <2>2
<1>5. CASE lines # <<>>
  <2>1. n # 0 /\ 1 \in 1..n /\ Head(lines) = lines[1] /\ lines[1] \in Lines
    BY <1>1, <1>5, EmptySeq, ElementOfSeq
  <2>2. Head(w) = Stuff(lines[1])
    BY <1>2, <2>1 DEF IsBlock
  <2>3. Head(w) # Terminator /\ Unstuff(Head(w)) = Head(lines)
    BY <2>1, <2>2, StuffIs
  <2>4. /\ Tail(lines) \in Seq(Lines) /\ Len(Tail(lines)) = n - 1
        /\ \A i \in 1..Len(Tail(lines)) : Tail(lines)[i] = lines[i + 1]
    BY <1>5, HeadTailProperties
  <2>5. Len(Tail(w)) = n /\ (n - 1) + 1 = n /\ n \in 1..n
    BY <1>1, <1>3, <2>1
  <2>6. ASSUME NEW i \in 1..(n - 1) PROVE Tail(w)[i] = Stuff(Tail(lines)[i])
    <3>1. i + 1 \in 1..n /\ i \in 1..n
      BY <1>1
    <3>2. Tail(w)[i] = w[i + 1] /\ Tail(lines)[i] = lines[i + 1]
      BY <1>3, <2>4, <2>5, <3>1
    <3> QED BY <3>1, <3>2 DEF IsBlock
  <2>7. Tail(w)[n] = Terminator
    <3>1. Tail(w)[n] = w[n + 1]
      BY <1>3, <2>5
    <3> QED BY <3>1 DEF IsBlock
  <2> HIDE DEF n
  <2>8. IsBlock(Tail(w), Tail(lines))
    BY <1>3, <2>4, <2>5, <2>6, <2>7 DEF IsBlock
  <2> QED BY <1>2, <1>5, <2>3, <2>8
<1> QED BY <1>4, <1>5

\* A line read moves from what is to come to what has come.
LEMMA LineMoves ==
    ASSUME NEW S, NEW front \in Seq(S), NEW rest \in Seq(S), rest # <<>>
    PROVE  /\ Append(front, Head(rest)) \in Seq(S) /\ Tail(rest) \in Seq(S)
           /\ Append(front, Head(rest)) \o Tail(rest) = front \o rest
PROOF
<1>1. Head(rest) \in S /\ Tail(rest) \in Seq(S) /\ <<Head(rest)>> \in Seq(S)
  BY HeadTailProperties
<1>2. rest = <<Head(rest)>> \o Tail(rest)
  <2> DEFINE one == <<Head(rest)>>
             both == one \o Tail(rest)
             n == Len(rest)
  <2>1. n \in Nat \ {0} /\ Len(one) = 1 /\ one[1] = Head(rest) /\ Head(rest) = rest[1]
    BY EmptySeq
  <2>2. Len(Tail(rest)) = n - 1 /\ \A i \in 1..(n - 1) : Tail(rest)[i] = rest[i + 1]
    BY HeadTailProperties
  <2> HIDE DEF one
  <2>3. /\ both \in Seq(S) /\ Len(both) = 1 + (n - 1)
        /\ \A i \in 1..(1 + (n - 1)) : both[i] = IF i <= 1 THEN one[i] ELSE Tail(rest)[i - 1]
    BY <1>1, <2>1, <2>2, ConcatProperties DEF one
  <2> HIDE DEF both, n
  <2>4. Len(both) = n
    BY <2>1, <2>3
  <2>5. ASSUME NEW i \in 1..n PROVE both[i] = rest[i]
    <3>1. i \in 1..(1 + (n - 1))
      BY <2>1
    <3>2. CASE i = 1
      BY <2>1, <2>3, <3>1, <3>2
    <3>3. CASE i # 1
      <4>1. ~(i <= 1) /\ i - 1 \in 1..(n - 1) /\ (i - 1) + 1 = i
        BY <2>1, <3>3
      <4> QED BY <2>2, <2>3, <3>1, <4>1
    <3> QED BY <3>2, <3>3
  <2>6. both = rest
    BY <2>3, <2>4, <2>5, SeqEqual DEF n
  <2> QED BY <2>6 DEF both, one
<1>3. Append(front, Head(rest)) = front \o <<Head(rest)>> /\ Append(front, Head(rest)) \in Seq(S)
  BY <1>1, AppendIsConcat, AppendProperties
<1>4. (front \o <<Head(rest)>>) \o Tail(rest) = front \o (<<Head(rest)>> \o Tail(rest))
  BY <1>1, ConcatAssociative
<1> QED BY <1>1, <1>2, <1>3, <1>4

\* The rest of a sequence, from a position or to one.
LEMMA CutIs ==
    ASSUME NEW S, NEW seq \in Seq(S), NEW a \in 1..(Len(seq) + 1), NEW b \in 0..Len(seq)
    PROVE  SubSeq(seq, a, Len(seq)) \in Seq(S) /\ SubSeq(seq, 1, b) \in Seq(S)
PROOF
<1> DEFINE n == Len(seq)
<1>1. n \in Nat /\ n \in Int /\ a \in Int /\ a >= 1 /\ b \in Int /\ b <= n /\ 1 \in Int
  BY LenProperties
<1>2. \A i \in 1..n : seq[i] \in S
  BY ElementOfSeq
<1>3. (\A i \in a..n : seq[i] \in S) /\ (\A i \in 1..b : seq[i] \in S)
  BY <1>1, <1>2
<1> HIDE DEF n
<1> QED BY <1>1, <1>3, SubSeqProperties DEF n

\* What is sent of a body.
LEMMA SentAreLines ==
    ASSUME NEW lines \in Seq(Lines)
    PROVE  WithoutTrailing(lines) \in Seq(Lines)
PROOF
<1> DEFINE kept == {i \in DOMAIN lines : lines[i] # <<>>}
<1>1. Len(lines) \in Nat /\ kept \in SUBSET (1..Len(lines))
  BY LenProperties
<1>2. CASE kept = {}
  BY <1>2, EmptySeq DEF WithoutTrailing
<1>3. CASE kept # {}
  <2>1. Max(kept) \in kept
    <3> HIDE DEF kept
    <3> QED BY <1>1, <1>3, MaxIs
  <2>2. Max(kept) \in 0..Len(lines)
    <3> DEFINE last == Max(kept)
    <3>1. last \in 1..Len(lines)
      <4> HIDE DEF kept
      <4> QED BY <1>1, <2>1
    <3> HIDE DEF last
    <3>2. last \in 0..Len(lines)
      BY <3>1
    <3> QED BY <3>2 DEF last
  <2>3. SubSeq(lines, 1, Max(kept)) \in Seq(Lines)
    <3> HIDE DEF kept
    <3>1. 1 \in 1..(Len(lines) + 1)
      BY <1>1
    <3> QED BY <2>2, <3>1, CutIs
  <2> QED BY <1>3, <2>3 DEF WithoutTrailing
<1> QED BY <1>2, <1>3

(***************************************************************************)
(* A draft that can be posted, and whose headers end at an empty line, has *)
(* the lines after that line as its body, though Draft::parse looks for    *)
(* the body on its own.                                                    *)
(***************************************************************************)
LEMMA BodyIsBelow ==
    ASSUME NEW t \in Seq(Lines), ~Problems(t)
    PROVE  /\ DraftBody(t) \in Seq(Lines)
           /\ HeadEnd(t) \in DOMAIN t /\ t[HeadEnd(t)] = <<>>
                => DraftBody(t) = SubSeq(t, HeadEnd(t) + 1, Len(t))
PROOF
<1> DEFINE n == Len(t)
           h == HeadEnd(t)
           S == Separators(t)
<1>1. n \in Nat /\ DOMAIN t = 1..n
  BY LenProperties
<1>2. S \subseteq Nat /\ \A i \in S : i \in 2..(n - 1) /\ t[i] = <<>>
  BY <1>1 DEF Separators
<1>3. S # {}
  <2>1. ~\A i \in DOMAIN DraftBody(t) : Blank(DraftBody(t)[i])
    BY DEF Problems
  <2>2. DraftBody(t) # <<>>
    BY <2>1
  <2> QED BY <2>2 DEF DraftBody
<1>4. DraftBody(t) = SubSeq(t, Min(S) + 1, n)
  BY <1>3 DEF DraftBody
<1> HIDE DEF S
<1>5. Min(S) \in S /\ \A x \in S : Min(S) <= x
  BY <1>2, <1>3, MinIs
<1>6. Min(S) \in 2..(n - 1) /\ t[Min(S)] = <<>>
  BY <1>2, <1>5
<1> HIDE DEF n
<1>7. DraftBody(t) \in Seq(Lines)
  <2>1. Min(S) + 1 \in 1..(Len(t) + 1) /\ 0 \in 0..Len(t)
    BY <1>1, <1>6 DEF n
  <2> QED BY <1>4, <2>1, CutIs DEF n
<1>8. ASSUME h \in DOMAIN t, t[h] = <<>> PROVE h = Min(S)
  <2>1. h \in 1..(n + 1) /\ \A j \in 1..(h - 1) : ~Blank(t[j])
    BY HeadEndIs DEF n
  <2>2. Blank(<<>>)
    <3>1. DOMAIN <<>> = {}
      OBVIOUS
    <3> QED BY <3>1 DEF Blank
  <2>3. ~(Min(S) \in 1..(h - 1))
    BY <1>6, <2>1, <2>2
  <2>4. h <= Min(S)
    <3> HIDE DEF h
    <3> QED BY <1>1, <1>6, <2>1, <2>3
  <2>5. h # 1
    <3>1. DraftHeaders(t) # <<>>
      <4>1. "From:" \in {"From:", "Newsgroups:", "Subject:"}
        OBVIOUS
      <4>2. \E i \in DOMAIN DraftHeaders(t) : DraftHeaders(t)[i][1] = "From:"
        BY <4>1 DEF Problems
      <4> QED BY <4>2
    <3> QED BY <3>1, HeadersAre
  <2>6. h \in S
    <3>1. h \in 2..(n - 1)
      <4> HIDE DEF h
      <4> QED BY <1>1, <1>6, <2>1, <2>4, <2>5
    <3> QED BY <1>8, <3>1 DEF S, Separators, n
  <2>7. Min(S) <= h
    BY <1>5, <2>6
  <2> HIDE DEF h
  <2> QED BY <1>6, <2>1, <2>4, <2>7
<1> QED BY <1>4, <1>7, <1>8 DEF n

\* The lines posted.
LEMMA PostedAreLines ==
    ASSUME NEW t \in Seq(Lines), ~Problems(t)
    PROVE  /\ DraftHeaders(t) \in Seq(Filled) /\ DraftHeaders(t) \in Seq(Lines)
           /\ WithoutTrailing(DraftBody(t)) \in Seq(Lines)
           /\ << <<>> >> \in Seq(Lines)
           /\ ToLines(t) \in Seq(Lines)
PROOF
<1>1. DraftHeaders(t) \in Seq(Filled) /\ DraftHeaders(t) \in Seq(Lines)
  <2>1. Filled \subseteq Lines
    BY DEF Filled
  <2> QED BY <2>1, HeadersAre, SeqMonotonic
<1>2. WithoutTrailing(DraftBody(t)) \in Seq(Lines)
  BY BodyIsBelow, SentAreLines
<1>3. << <<>> >> \in Seq(Lines)
  <2>1. \A line \in Lines : <<line>> \in Seq(Lines)
    OBVIOUS
  <2> QED BY <2>1, LinesOfModel
<1>4. DraftHeaders(t) \o << <<>> >> \in Seq(Lines)
  BY <1>1, <1>3, ConcatProperties
<1>5. ToLines(t) \in Seq(Lines)
  BY <1>2, <1>4, ConcatProperties DEF ToLines
<1> QED BY <1>1, <1>2, <1>3, <1>5

\* The first empty line is the one between the parts.
LEMMA SplitIs ==
    ASSUME NEW head \in Seq(Filled), NEW body \in Seq(Lines)
    PROVE  /\ HeadOf(head \o << <<>> >> \o body) = head
           /\ BodyOf(head \o << <<>> >> \o body) = body
PROOF
<1> DEFINE one == << <<>> >>
           front == head \o one
           all == front \o body
           m == Len(head)
           n == Len(body)
           S == {i \in 1..Len(all) : all[i] = <<>>}
<1>1. /\ head \in Seq(Lines) /\ one \in Seq(Lines) /\ Len(one) = 1 /\ one[1] = <<>>
      /\ m \in Nat /\ n \in Nat /\ \A i \in 1..m : head[i] # <<>>
  <2>1. Filled \subseteq Lines
    BY DEF Filled
  <2>2. head \in Seq(Lines)
    BY <2>1, SeqMonotonic
  <2>3. \A i \in 1..m : head[i] # <<>>
    BY ElementOfSeq DEF Filled
  <2>4. \A line \in Lines : <<line>> \in Seq(Lines) /\ Len(<<line>>) = 1 /\ <<line>>[1] = line
    OBVIOUS
  <2>5. one \in Seq(Lines) /\ Len(one) = 1 /\ one[1] = <<>>
    BY <2>4, LinesOfModel
  <2>6. m \in Nat /\ n \in Nat
    BY LenProperties
  <2> HIDE DEF one, m, n
  <2> QED BY <2>2, <2>3, <2>5, <2>6
<1> HIDE DEF one
<1>2. /\ front \in Seq(Lines) /\ Len(front) = m + 1
      /\ \A i \in 1..(m + 1) : front[i] = IF i <= m THEN head[i] ELSE one[i - m]
  <2>1. /\ front \in Seq(Lines) /\ Len(front) = Len(head) + Len(one)
        /\ \A i \in 1..(Len(head) + Len(one)) :
              front[i] = IF i <= Len(head) THEN head[i] ELSE one[i - Len(head)]
    BY <1>1, ConcatProperties
  <2>2. Len(one) = 1
    BY <1>1
  <2> HIDE DEF front
  <2> QED BY <2>1, <2>2
<1> HIDE DEF front
<1>3. /\ all \in Seq(Lines) /\ Len(all) = (m + 1) + n
      /\ \A i \in 1..((m + 1) + n) : all[i] = IF i <= m + 1 THEN front[i] ELSE body[i - (m + 1)]
  <2>1. /\ all \in Seq(Lines) /\ Len(all) = Len(front) + Len(body)
        /\ \A i \in 1..(Len(front) + Len(body)) :
              all[i] = IF i <= Len(front) THEN front[i] ELSE body[i - Len(front)]
    <3>1. front \in Seq(Lines) /\ body \in Seq(Lines)
      BY <1>2
    <3> QED BY ONLY <3>1, ConcatProperties
  <2> HIDE DEF all
  <2> QED BY <1>2, <2>1
<1> HIDE DEF all, m, n
<1>4. /\ m + 1 \in 1..Len(all)
      /\ all[m + 1] = <<>> /\ \A i \in 1..m : i \in 1..Len(all) /\ all[i] = head[i]
  <2>1. m + 1 \in 1..((m + 1) + n) /\ m + 1 \in 1..(m + 1) /\ ~(m + 1 <= m) /\ (m + 1) - m = 1
    BY <1>1
  <2>2. all[m + 1] = front[m + 1] /\ front[m + 1] = one[1]
    BY <1>2, <1>3, <2>1
  <2>3. \A i \in 1..m : i \in 1..((m + 1) + n) /\ i \in 1..(m + 1) /\ i <= m /\ i <= m + 1
    BY <1>1
  <2> QED BY <1>1, <1>2, <1>3, <2>1, <2>2, <2>3
<1>5. m + 1 \in S /\ S \subseteq Nat /\ \A i \in S : m + 1 <= i
  <2>1. S \subseteq Nat /\ m + 1 \in S
    BY <1>4
  <2>2. ASSUME NEW i \in S PROVE m + 1 <= i
    <3>1. i \in Nat /\ i >= 1 /\ all[i] = <<>>
      BY <2>2
    <3>2. i \notin 1..m
      BY <1>1, <1>4, <3>1 DEF m
    <3> HIDE DEF S
    <3> QED BY <1>1, <3>1, <3>2
  <2> QED BY <2>1, <2>2
<1> HIDE DEF S
<1>6. Min(S) = m + 1 /\ S # {}
  BY <1>5, LeastOf
<1>7. SplitAt(all) = m + 1 /\ SplitAt(all) # 0
  <2>1. SplitAt(all) = IF S # {} THEN Min(S) ELSE 0
    BY DEF SplitAt, SelectInSeq, S
  <2> QED BY <1>1, <1>6, <2>1
<1>8. HeadOf(all) = head
  <2>1. (m + 1) - 1 = m /\ m \in Int /\ 1 \in Int /\ (IF 1 <= m THEN m - 1 + 1 ELSE 0) = m
        /\ m - 1 + 1 = m /\ \A i \in 1..m : 1 + i - 1 = i
    BY <1>1
  <2>2. HeadOf(all) = SubSeq(all, 1, m)
    BY <1>7, <2>1 DEF HeadOf
  <2>3. \A i \in 1..m : all[i] \in Lines
    BY <1>3, <1>4, ElementOfSeq
  <2>4. /\ SubSeq(all, 1, m) \in Seq(Lines) /\ Len(SubSeq(all, 1, m)) = m
        /\ \A i \in 1..m : SubSeq(all, 1, m)[i] = all[i]
    <3>1. /\ SubSeq(all, 1, m) \in Seq(Lines)
          /\ Len(SubSeq(all, 1, m)) = IF 1 <= m THEN m - 1 + 1 ELSE 0
          /\ \A i \in 1..(m - 1 + 1) : SubSeq(all, 1, m)[i] = all[1 + i - 1]
      BY <2>1, <2>3, SubSeqProperties
    <3> QED BY <2>1, <3>1
  <2> QED BY <1>1, <1>4, <2>2, <2>4, SeqEqual DEF m
<1>9. BodyOf(all) = body
  <2> DEFINE a == (m + 1) + 1
             b == (m + 1) + n
  <2>1. /\ a \in Int /\ b \in Int /\ (IF a <= b THEN b - a + 1 ELSE 0) = n /\ b - a + 1 = n
        /\ \A i \in a..b : i \in 1..b
        /\ \A i \in 1..n : a + i - 1 = (m + 1) + i /\ (m + 1) + i \in 1..b
                           /\ ~((m + 1) + i <= m + 1) /\ ((m + 1) + i) - (m + 1) = i
    BY <1>1
  <2>2. BodyOf(all) = SubSeq(all, a, b)
    BY <1>3, <1>7 DEF BodyOf
  <2> HIDE DEF a
  <2>3. \A i \in a..b : all[i] \in Lines
    BY <1>3, <2>1, ElementOfSeq
  <2>4. \A i \in 1..n : all[a + i - 1] = body[i]
    BY <1>3, <2>1
  <2> HIDE DEF b
  <2>5. /\ SubSeq(all, a, b) \in Seq(Lines)
        /\ Len(SubSeq(all, a, b)) = IF a <= b THEN b - a + 1 ELSE 0
        /\ \A i \in 1..(b - a + 1) : SubSeq(all, a, b)[i] = all[a + i - 1]
    BY <2>1, <2>3, SubSeqProperties
  <2>6. Len(SubSeq(all, a, b)) = n /\ \A i \in 1..n : SubSeq(all, a, b)[i] = body[i]
    BY <2>1, <2>4, <2>5
  <2> QED BY <2>2, <2>5, <2>6, SeqEqual DEF n
<1> QED BY <1>8, <1>9 DEF all, front, one

\* What has been read and what is still on the wire make up what was posted.
Underway ==
    \E rest \in Seq(Lines) : IsBlock(wire, rest) /\ got \in Seq(Lines) /\ got \o rest = ToLines(text)

TravelInv ==
    /\ text \in Drafts
    /\ stage \in {"typed", "refused", "posting", "fetching", "shown"}
    /\ stage = "typed" => got = <<>>
    /\ stage \in {"posting", "fetching"} => ~Problems(text) /\ Underway
    /\ stage = "shown" => ~Problems(text) /\ wire = <<>> /\ got = ToLines(text)

LEMMA TravelStep == TravelInv /\ [BlocksNext]_blockVars => TravelInv'
PROOF
<1> SUFFICES ASSUME TravelInv, [BlocksNext]_blockVars PROVE TravelInv'
  OBVIOUS
<1>1. text \in Drafts /\ text \in Seq(Lines)
  BY DraftsAssumption DEF TravelInv, Lines
<1>2. text' = text
  BY DEF BlocksNext, Offer, ReadLine, Relay, Show, blockVars
<1>3. ASSUME NEW rest \in Seq(Lines), IsBlock(wire', rest), got' \in Seq(Lines),
             got' \o rest = ToLines(text), stage' \in {"posting", "fetching"}, ~Problems(text)
      PROVE  TravelInv'
  <2>1. Underway'
    BY <1>2, <1>3 DEF Underway
  <2>2. Problems(text)' = Problems(text)
    BY <1>2
  <2> QED BY <1>1, <1>2, <1>3, <2>1, <2>2 DEF TravelInv
<1>4. CASE UNCHANGED blockVars
  BY <1>4 DEF blockVars, TravelInv, Underway
<1>5. CASE Offer
  <2>1. CASE Problems(text)
    BY <1>1, <1>2, <1>5, <2>1 DEF Offer, TravelInv
  <2>2. CASE ~Problems(text)
    <3>1. stage' = "posting" /\ wire' = Block(ToLines(text)) /\ got' = <<>>
      BY <1>5, <2>2 DEF Offer, TravelInv
    <3>2. ToLines(text) \in Seq(Lines)
      BY <1>1, <2>2, PostedAreLines
    <3>3. IsBlock(wire', ToLines(text))
      BY <3>1, <3>2, BlockIs
    <3>4. got' \in Seq(Lines) /\ got' \o ToLines(text) = ToLines(text)
      BY <3>1, <3>2, EmptySeq, ConcatEmptySeq
    <3> QED BY <1>3, <2>2, <3>1, <3>2, <3>3, <3>4
  <2> QED BY <2>1, <2>2
<1>6. ASSUME stage \in {"posting", "fetching"}
      PROVE  /\ ~Problems(text)
             /\ \E rest \in Seq(Lines) :
                  IsBlock(wire, rest) /\ got \in Seq(Lines) /\ got \o rest = ToLines(text)
  BY <1>6 DEF TravelInv, Underway
<1>7. CASE ReadLine
  <2>1. stage \in {"posting", "fetching"}
    BY <1>7 DEF ReadLine
  <2>2. PICK rest \in Seq(Lines) :
            IsBlock(wire, rest) /\ got \in Seq(Lines) /\ got \o rest = ToLines(text)
    BY <1>6, <2>1
  <2>3. /\ Head(wire) # Terminator /\ got' = Append(got, Unstuff(Head(wire))) /\ wire' = Tail(wire)
        /\ stage' = stage
    BY <1>7 DEF ReadLine
  <2>4. rest # <<>> /\ Unstuff(Head(wire)) = Head(rest) /\ IsBlock(wire', Tail(rest))
    BY <2>2, <2>3, BlockReads
  <2>5. /\ got' \in Seq(Lines) /\ Tail(rest) \in Seq(Lines)
        /\ got' \o Tail(rest) = ToLines(text)
    <3>1. /\ Append(got, Head(rest)) \in Seq(Lines) /\ Tail(rest) \in Seq(Lines)
          /\ Append(got, Head(rest)) \o Tail(rest) = got \o rest
      BY <2>2, <2>4, LineMoves
    <3>2. got' = Append(got, Head(rest))
      BY <2>3, <2>4
    <3> QED BY <2>2, <3>1, <3>2
  <2> QED BY <1>3, <1>6, <2>1, <2>3, <2>4, <2>5
<1>8. ASSUME Relay \/ Show
      PROVE  ~Problems(text) /\ got = ToLines(text) /\ got \in Seq(Lines) /\ Tail(wire) = <<>>
  <2>1. stage \in {"posting", "fetching"} /\ Head(wire) = Terminator
    BY <1>8 DEF Relay, Show
  <2>2. PICK rest \in Seq(Lines) :
            IsBlock(wire, rest) /\ got \in Seq(Lines) /\ got \o rest = ToLines(text)
    BY <1>6, <2>1
  <2>3. rest = <<>> /\ Tail(wire) = <<>>
    BY <2>1, <2>2, BlockReads
  <2>4. got \o rest = got
    BY <2>2, <2>3, ConcatEmptySeq
  <2> QED BY <1>6, <2>1, <2>2, <2>3, <2>4
<1>9. CASE Relay
  <2>1. wire' = Tail(wire) \o Block(got) /\ got' = <<>> /\ stage' = "fetching"
    BY <1>9 DEF Relay
  <2>2. IsBlock(Block(got), got)
    BY <1>8, <1>9, BlockIs
  <2>3. <<>> \o Block(got) = Block(got)
    BY <2>2, ConcatEmptySeq DEF IsBlock
  <2>4. IsBlock(wire', got)
    BY <1>8, <1>9, <2>1, <2>2, <2>3
  <2>5. got' \in Seq(Lines) /\ got' \o got = ToLines(text)
    BY <1>8, <1>9, <2>1, EmptySeq, ConcatEmptySeq
  <2> QED BY <1>3, <1>8, <1>9, <2>1, <2>4, <2>5
<1>10. CASE Show
  <2>1. wire' = <<>> /\ got' = got /\ stage' = "shown"
    BY <1>8, <1>10 DEF Show
  <2>2. Problems(text)' = Problems(text) /\ ToLines(text)' = ToLines(text)
    BY <1>2
  <2> QED BY <1>1, <1>2, <1>8, <1>10, <2>1, <2>2 DEF TravelInv
<1> QED BY <1>4, <1>5, <1>7, <1>9, <1>10 DEF BlocksNext

(***************************************************************************)
(* What another reader is shown is what was typed, for any text whose      *)
(* headers end at an empty line: headers, and every line below it,         *)
(* whatever dots it begins with (Draft::to_lines, send_block,              *)
(* push_raw_line, split_head_body).                                        *)
(***************************************************************************)
THEOREM TypedComesThrough == BlocksSpec => []TypedIsShown
PROOF
<1>1. BlocksInit => TravelInv
  BY DEF BlocksInit, TravelInv
<1>2. TravelInv => TypedIsShown
  <2> SUFFICES ASSUME TravelInv, stage = "shown", HeadEnd(text) \in DOMAIN text,
                      text[HeadEnd(text)] = <<>>
               PROVE  /\ HeadOf(got) = DraftHeaders(text)
                      /\ BodyOf(got) = WithoutTrailing(SubSeq(text, HeadEnd(text) + 1, Len(text)))
                      /\ wire = <<>>
    BY DEF TypedIsShown
  <2>1. text \in Seq(Lines) /\ ~Problems(text) /\ wire = <<>> /\ got = ToLines(text)
    BY DraftsAssumption DEF TravelInv, Lines
  <2>2. /\ DraftHeaders(text) \in Seq(Filled)
        /\ WithoutTrailing(DraftBody(text)) \in Seq(Lines)
    BY <2>1, PostedAreLines
  <2>3. HeadOf(got) = DraftHeaders(text) /\ BodyOf(got) = WithoutTrailing(DraftBody(text))
    BY <2>1, <2>2, SplitIs DEF ToLines
  <2>4. DraftBody(text) = SubSeq(text, HeadEnd(text) + 1, Len(text))
    BY <2>1, BodyIsBelow
  <2> QED BY <2>1, <2>3, <2>4
<1> QED BY TravelStep, <1>1, <1>2, PTL DEF BlocksSpec
=============================================================================
