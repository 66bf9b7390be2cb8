----------------------------- MODULE ReadStore -----------------------------
(***************************************************************************)
(* The read state of one server and its file (readstate/store.rs), as      *)
(* readers use them: loaded when a reader starts, changed in memory,       *)
(* written once as it leaves (tui/mod.rs).  The file system is modelled as *)
(* save uses it: two names in one directory, each a link to a file whose   *)
(* contents a process that has it open may still be writing.               *)
(***************************************************************************)
EXTENDS ReadSet

CONSTANTS
    Readers,          \* processes started against the same server
    Groups,           \* names of newsgroups
    Junk,             \* a comment, a blank line, or one that is not `group: ranges`
    InitialTexts,     \* what the file may hold before the first start
    Faults,           \* subset of {"unreadable", "create", "write", "rename", "crash"}
    MaxStarts,        \* bound: how often each reader is started
    MaxChanges,       \* bound: changes in one session
    None              \* the state of a reader that is not running

\* A line of the file: an entry, or one that is none.
Entries == [group: Groups, subscribed: BOOLEAN, ranges: Seq(Piece)]
Lines   == {Junk} \cup Entries

\* What a store may say: the numbers read in each group, and whether it has a `!`.
States == [Groups -> [read: SUBSET (1..MaxNumber), unsubscribed: BOOLEAN]]

ASSUME StoreAssumption ==
    /\ IsFiniteSet(Readers) /\ Readers # {}
    /\ IsFiniteSet(Groups)
    /\ InitialTexts \subseteq Seq(Lines)
    /\ Faults \subseteq {"unreadable", "create", "write", "rename", "crash"}
    /\ MaxStarts \in Nat /\ MaxChanges \in Nat
    /\ Junk \notin Entries /\ None \notin States

VARIABLES
    phase,            \* "off", "running", "writing", "renaming"
    store,            \* ReadStore.groups of each reader: group -> entry
    dirty,            \* ReadStore.dirty
    problem,          \* whether load reported that the file could not be read
    fd,               \* the file a reader has open for writing, 0 for none
    file, temporary,  \* what the two names link to, 0 for no such name
    data,             \* contents of every file: [text, whole]
    starts, changes   \* for the bounds

reader == <<phase, store, dirty, problem, fd>>
disk   == <<file, temporary, data>>
vars   == <<reader, disk, starts, changes>>

Nothing == [g \in {} |-> None]

-----------------------------------------------------------------------------
(***************************************************************************)
(* Loading and rendering.  A text is a sequence of lines; a line names a   *)
(* group, its `:` or `!`, and the pieces of its range list.                *)
(***************************************************************************)

\* The map with the entry of g set.
WithEntry(s, g, e) == [h \in DOMAIN s \cup {g} |-> IF h = g THEN e ELSE s[h]]

\* A line with a group name and a `:` or `!`; other lines are passed over.
SplitsLine(line) == line # Junk

\* The loop that merges one read set into another, range by range.
InsertAll(old, new) ==
    FoldLeft(LAMBDA r, x : InsertRange(r, x.low, x.high), old, new)

\* A repeated group is merged; a group seen first starts as Entry::default().
AbsorbLine(s, line) ==
    IF ~SplitsLine(line) THEN s
    ELSE LET old == IF line.group \in DOMAIN s THEN s[line.group]
                    ELSE [read |-> <<>>, subscribed |-> FALSE]
         IN WithEntry(s, line.group, [read |-> InsertAll(old.read, Parse(line.ranges)),
                                      subscribed |-> old.subscribed \/ line.subscribed])

Load(text) == FoldLeft(AbsorbLine, Nothing, text)

Line(s, g) == [group |-> g, subscribed |-> s[g].subscribed,
               ranges |-> Display(s[g].read)]

\* Mutant: every group with nothing read is left out, its flag too.
ToNewsrcReadOnly(s) ==
    LET written == SetToSeq({g \in DOMAIN s : s[g].read # <<>>})
    IN [i \in DOMAIN written |-> Line(s, written[i])]

\* A subscribed group with nothing read is left out.
ToNewsrc(s) ==
    LET written == SetToSeq({g \in DOMAIN s : s[g].read # <<>> \/ ~s[g].subscribed})
    IN [i \in DOMAIN written |-> Line(s, written[i])]

ReadSetOf(s, g) == IF g \in DOMAIN s THEN s[g].read ELSE <<>>

\* Mutant: the entry is made anew, subscribed.
WithReadAnew(s, g, r) == WithEntry(s, g, [read |-> r, subscribed |-> TRUE])

\* The entry of g, made subscribed when there is none, with its read set replaced.
WithRead(s, g, r) ==
    WithEntry(s, g, [read |-> r,
                     subscribed |-> IF g \in DOMAIN s THEN s[g].subscribed ELSE TRUE])

-----------------------------------------------------------------------------
Off(p) == /\ phase' = [phase EXCEPT ![p] = "off"]
          /\ store' = [store EXCEPT ![p] = Nothing]
          /\ dirty' = [dirty EXCEPT ![p] = FALSE]
          /\ problem' = [problem EXCEPT ![p] = FALSE]
          /\ fd' = [fd EXCEPT ![p] = 0]
          /\ changes' = [changes EXCEPT ![p] = 0]
          /\ UNCHANGED starts

\* Files as numbers: enough for both names and one open file per reader.
Files == 1..(Cardinality(Readers) + 2)

Unused == CHOOSE i \in Files : i \notin {file, temporary} \cup {fd[p] : p \in Readers}

Init ==
    /\ phase = [p \in Readers |-> "off"]
    /\ store = [p \in Readers |-> Nothing]
    /\ dirty = [p \in Readers |-> FALSE]
    /\ problem = [p \in Readers |-> FALSE]
    /\ fd = [p \in Readers |-> 0]
    /\ \/ file = 0 /\ data = [i \in Files |-> [text |-> <<>>, whole |-> TRUE]]
       \/ /\ file = 1
          /\ \E text \in InitialTexts :
                data = [i \in Files |-> [text |-> IF i = 1 THEN text ELSE <<>>,
                                         whole |-> TRUE]]
    /\ temporary = 0
    /\ starts = [p \in Readers |-> 0]
    /\ changes = [p \in Readers |-> 0]

\* A missing file is an empty store; so is one that is too large or unreadable.
Start(p) ==
    /\ phase[p] = "off" /\ starts[p] < MaxStarts
    /\ phase' = [phase EXCEPT ![p] = "running"]
    /\ \/ /\ store' = [store EXCEPT ![p] =
                          IF file = 0 THEN Nothing ELSE Load(data[file].text)]
          /\ UNCHANGED problem
       \/ /\ "unreadable" \in Faults /\ file # 0
          /\ problem' = [problem EXCEPT ![p] = TRUE]
          /\ UNCHANGED store
    /\ starts' = [starts EXCEPT ![p] = @ + 1]
    /\ UNCHANGED <<dirty, fd, disk, changes>>

Changes(p, g, r, isDirty) ==
    /\ phase[p] = "running" /\ changes[p] < MaxChanges
    /\ store' = [store EXCEPT ![p] = WithRead(store[p], g, r)]
    /\ dirty' = [dirty EXCEPT ![p] = isDirty]
    /\ changes' = [changes EXCEPT ![p] = @ + 1]
    /\ UNCHANGED <<phase, problem, fd, disk, starts>>

MarkRead(p, g, n) ==
    Changes(p, g, InsertRange(ReadSetOf(store[p], g), n, n), TRUE)

MarkRangeRead(p, g, low, high) ==
    Changes(p, g, InsertRange(ReadSetOf(store[p], g), low, high), TRUE)

MarkUnread(p, g, n) ==
    Changes(p, g, RemoveNumber(ReadSetOf(store[p], g), n), TRUE)

\* Mutant: only the number of ranges is compared.
ForgetExpiredByRanges(p, g, low) ==
    LET before == ReadSetOf(store[p], g)
        after  == RemoveRange(before, 1, low - 1)
    IN /\ low > 1 /\ g \in DOMAIN store[p]
       /\ Changes(p, g, after, dirty[p] \/ Len(after) # Len(before))

ForgetExpired(p, g, low) ==
    LET before == ReadSetOf(store[p], g)
        after  == RemoveRange(before, 1, low - 1)
    IN /\ low > 1 /\ g \in DOMAIN store[p]
       /\ Changes(p, g, after, \/ dirty[p]
                               \/ Len(after) # Len(before)
                               \/ Count(after) # Count(before))

-----------------------------------------------------------------------------
(***************************************************************************)
(* save_if_dirty, the last thing a reader does with its store.             *)
(***************************************************************************)
LeaveClean(p) == /\ phase[p] = "running" /\ ~dirty[p]
                 /\ Off(p)
                 /\ UNCHANGED disk

Truncated == [text |-> <<>>, whole |-> FALSE]

\* Mutant: the file itself is opened, not a temporary name beside it.
CreateInPlace(p) ==
    LET i == IF file = 0 THEN Unused ELSE file
    IN /\ phase[p] = "running" /\ dirty[p]
       /\ phase' = [phase EXCEPT ![p] = "writing"]
       /\ fd' = [fd EXCEPT ![p] = i]
       /\ file' = i
       /\ data' = [data EXCEPT ![i] = Truncated]
       /\ UNCHANGED <<store, dirty, problem, temporary, starts, changes>>

\* create_dir_all, then fs::write opens the temporary name, truncating what is there.
CreateTemporary(p) ==
    LET i == IF temporary = 0 THEN Unused ELSE temporary
    IN /\ phase[p] = "running" /\ dirty[p]
       /\ phase' = [phase EXCEPT ![p] = "writing"]
       /\ fd' = [fd EXCEPT ![p] = i]
       /\ temporary' = i
       /\ data' = [data EXCEPT ![i] = Truncated]
       /\ UNCHANGED <<store, dirty, problem, file, starts, changes>>

Written(i, text, whole) == data' = [data EXCEPT ![i] = [text |-> text, whole |-> whole]]

\* Over another writer's longer text, the end of that text stays behind: the rest
\* of a line, and lines.
WriteTemporary(p) ==
    LET text  == ToNewsrc(store[p])
        under == data[fd[p]].text
    IN /\ phase[p] = "writing"
       /\ phase' = [phase EXCEPT ![p] = "renaming"]
       /\ fd' = [fd EXCEPT ![p] = 0]
       /\ \/ Written(fd[p], text, TRUE)
          \/ /\ under # <<>>
             /\ \E rest \in Suffixes(Tail(under)) :
                   Written(fd[p], text \o <<Junk>> \o rest, FALSE)
       /\ UNCHANGED <<store, dirty, problem, file, temporary, starts, changes>>

\* Mutant: the temporary file is copied to its place and stays.
RenameByCopy(p) == /\ phase[p] = "renaming" /\ temporary # 0
                   /\ file' = Unused
                   /\ data' = [data EXCEPT ![Unused] = data[temporary]]
                   /\ UNCHANGED temporary
                   /\ Off(p)

Rename(p) == /\ phase[p] = "renaming" /\ temporary # 0
             /\ file' = temporary
             /\ temporary' = 0
             /\ UNCHANGED data
             /\ Off(p)

\* Mutant: the reader waits for the temporary file to come back.
RenameWaits(p) == /\ phase[p] = "renaming" /\ temporary = 0
                  /\ UNCHANGED vars

\* Somebody else renamed the temporary file: the error is logged.
RenameMissing(p) == /\ phase[p] = "renaming" /\ temporary = 0
                    /\ Off(p)
                    /\ UNCHANGED disk

\* A write cut short leaves the lines written so far.
CutShort(p) ==
    /\ \E text \in Prefixes(ToNewsrc(store[p])) : Written(fd[p], text, FALSE)
    /\ UNCHANGED <<file, temporary>>

\* A step of save fails: the error is logged and the temporary file stays.
SaveFails(p) ==
    /\ \/ "create" \in Faults /\ phase[p] = "running" /\ dirty[p] /\ UNCHANGED disk
       \/ "write" \in Faults /\ phase[p] = "writing" /\ CutShort(p)
       \/ "rename" \in Faults /\ phase[p] = "renaming" /\ UNCHANGED disk
    /\ Off(p)

Crash(p) ==
    /\ "crash" \in Faults /\ phase[p] # "off"
    /\ IF phase[p] = "writing" THEN CutShort(p) ELSE UNCHANGED disk
    /\ Off(p)

-----------------------------------------------------------------------------
Use(p) == \E g \in Groups :
    \/ \E n \in 1..MaxNumber : MarkRead(p, g, n) \/ MarkUnread(p, g, n)
    \/ \E n \in 1..MaxNumber : ForgetExpired(p, g, n)
    \/ \E low, high \in 1..MaxNumber : low <= high /\ MarkRangeRead(p, g, low, high)

Save(p) == \/ LeaveClean(p) \/ CreateTemporary(p) \/ WriteTemporary(p)
           \/ Rename(p) \/ RenameMissing(p)

Next == \E p \in Readers : \/ Start(p) \/ Use(p) \/ Save(p)
                           \/ SaveFails(p) \/ Crash(p)

Spec == Init /\ [][Next]_vars

\* A reader that has begun to save goes on; when it leaves is up to the user.
FairSpec == /\ Spec
            /\ \A p \in Readers : /\ WF_vars(WriteTemporary(p))
                                  /\ WF_vars(Rename(p) \/ RenameMissing(p))

-----------------------------------------------------------------------------
(***************************************************************************)
(* What a store says of each group: the numbers read, and whether it is    *)
(* marked unsubscribed.                                                    *)
(***************************************************************************)
Says(s) == [g \in Groups |->
               [read |-> Denotes(ReadSetOf(s, g)),
                unsubscribed |-> g \in DOMAIN s /\ ~s[g].subscribed]]

(***************************************************************************)
(* What a newsrc text says, read as any newsreader would: a number is read *)
(* in a group if some line of the group names it, and the group is         *)
(* unsubscribed if all its lines have a `!`.                               *)
(***************************************************************************)
LinesOf(text, g) == {line \in ToSet(text) \ {Junk} : line.group = g}

Named(line) == UNION {Between(p[1], p[Len(p)]) : p \in ToSet(line.ranges) \ {<<>>}}

TextSays(text) ==
    [g \in Groups |->
        [read |-> UNION {Named(line) : line \in LinesOf(text, g)},
         unsubscribed |-> /\ LinesOf(text, g) # {}
                          /\ \A line \in LinesOf(text, g) : ~line.subscribed]]

OnFile == IF file = 0 THEN <<>> ELSE data[file].text

(***************************************************************************)
(* save: "a crash or a full disk leaves either the old state or the new,   *)
(* never a half-written file".                                             *)
(***************************************************************************)
NeverHalfWritten == file # 0 => data[file].whole

(***************************************************************************)
(* The dirty flag never misses a change: while a reader runs, whatever     *)
(* changes what its store would say if loaded again (forget_expired        *)
(* decides by comparing counts) leaves it dirty, so that leaving without   *)
(* a save loses nothing.                                                   *)
(***************************************************************************)
ChangesAreDirty ==
    [][\A p \in Readers :
          (/\ phase[p] = "running" /\ phase'[p] = "running"
           /\ Says(store'[p]) # Says(store[p])) => dirty'[p]]_vars

(***************************************************************************)
(* A `!` that another newsreader put in the file survives every session    *)
(* that could read it: marking, expiring and saving keep it, with or       *)
(* without anything read in the group.                                     *)
(***************************************************************************)
UnsubscribedKept ==
    [][\A g \in Groups :
          TextSays(OnFile)[g].unsubscribed
              => \/ TextSays(OnFile)'[g].unsubscribed
                 \/ \E p \in Readers : problem[p]]_vars

(***************************************************************************)
(* ADR-0009: with two readers on one server, "the last one to exit" wins:  *)
(* a reader that saves, and leaves when all the others have left, leaves a *)
(* file that says what it held.                                            *)
(***************************************************************************)
LastExitWins ==
    [][\A p \in Readers :
          (/\ phase[p] = "renaming" /\ phase'[p] = "off"
           /\ \A q \in Readers \ {p} : phase[q] = "off")
              => TextSays(OnFile)' = Says(store[p])]_vars

(***************************************************************************)
(* Readers that save at the same time do not hold each other up: each save *)
(* ends, also when another reader has taken the temporary file away.       *)
(***************************************************************************)
SavesEnd == \A p \in Readers : phase[p] \in {"writing", "renaming"} ~> phase[p] = "off"

(***************************************************************************)
(* Once nobody is saving, and no save has failed, no temporary file is     *)
(* left in the directory, however the saves interleaved.                   *)
(***************************************************************************)
NoLitter == (\A p \in Readers : phase[p] \in {"off", "running"}) => temporary = 0

(***************************************************************************)
(* Whatever fails and wherever a reader crashes, the file says what it     *)
(* said before or what the leaving reader held; and a reader that starts   *)
(* holds what the file says, repeated groups and reversed ranges included, *)
(* or nothing if it cannot be read.                                        *)
(***************************************************************************)
Atomic == INSTANCE AtomicStore WITH
    Blank  <- Says(Nothing),
    saved  <- TextSays(OnFile),
    memory <- [p \in Readers |-> IF phase[p] = "off" THEN None ELSE Says(store[p])]

ImplementsAtomicStore == Atomic!Spec

=============================================================================
