------------------------------ MODULE Patterns ------------------------------
(***************************************************************************)
(* Wildmat patterns: the matcher of command.rs, which remembers one star   *)
(* to go back to, and the fetch of a group list narrowed by subscriptions, *)
(* packed into as few commands as their length allows and filtered here    *)
(* when the server refuses.  A pattern and a name are sequences of         *)
(* characters; an item is a sub-pattern with its negation.                 *)
(***************************************************************************)
EXTENDS Naturals, Sequences, SequencesExt

CONSTANTS Characters,         \* the characters of patterns and names
          Trials,             \* pairs of a sub-pattern and a name to match
          Subscriptions,      \* lists of items to subscribe with
          Catalogue,          \* the names of the server's groups
          MaxLen              \* Wildmat::MAX_LEN

Items == [negated : BOOLEAN, text : Seq(Characters)]

\* The octets of an item, its "!" included.
Length(item) == Len(item.text) + (IF item.negated THEN 1 ELSE 0)

ASSUME PatternsAssumption ==
    /\ MaxLen \in Nat
    /\ "end" \notin Characters
    /\ Trials \subseteq Seq(Characters) \X Seq(Characters)

\* Wildmat::parse refuses a pattern that is empty or too long.
ASSUME SubscriptionsAssumption ==
    /\ Subscriptions \subseteq Seq(Items)
    /\ \A items \in Subscriptions : \A i \in DOMAIN items : Length(items[i]) \in 1..MaxLen

VARIABLES trial,              \* the sub-pattern and the name
          scan,               \* the locals of matches_one
          fetch               \* the locals of load_groups

patternVars == <<trial, scan, fetch>>

pattern == trial[1]
name == trial[2]

Fetches ==
    {[items |-> items, batches |-> <<>>, current |-> <<>>, length |-> 0,
      taken |-> 0, active |-> {}, state |-> "packing"] : items \in Subscriptions}

PatternsInit ==
    /\ trial \in Trials
    /\ scan = [p |-> 1, n |-> 1, star |-> 0, resume |-> 1, verdict |-> "open"]
    /\ fetch \in Fetches

-----------------------------------------------------------------------------
(* matches_one                                                             *)

At(i) == IF i <= Len(pattern) THEN pattern[i] ELSE "end"

Scanning == scan.verdict = "open" /\ scan.n <= Len(name)

ReadStar ==
    /\ Scanning /\ At(scan.p) = "*"
    /\ scan' = [scan EXCEPT !.star = scan.p, !.resume = scan.n, !.p = @ + 1]

ReadCharacter ==
    /\ Scanning /\ At(scan.p) # "*" /\ At(scan.p) \in {"?", name[scan.n]}
    /\ scan' = [scan EXCEPT !.p = @ + 1, !.n = @ + 1]

Stuck == Scanning /\ At(scan.p) \notin {"*", "?", name[scan.n]}

\* The last star takes one more character.
Back == [scan EXCEPT !.p = scan.star + 1, !.resume = @ + 1, !.n = scan.resume + 1]

GoBack == Stuck /\ scan.star # 0 /\ scan' = Back

GiveUp == Stuck /\ scan.star = 0 /\ scan' = [scan EXCEPT !.verdict = "no"]

\* Trailing stars may match nothing; anything else left does not match.
Verdict ==
    IF \A i \in scan.p .. Len(pattern) : pattern[i] = "*" THEN "yes" ELSE "no"

EndOfName ==
    /\ scan.verdict = "open" /\ scan.n > Len(name)
    /\ scan' = [scan EXCEPT !.verdict = Verdict]

Matching ==
    /\ ReadStar \/ ReadCharacter \/ GoBack \/ GiveUp \/ EndOfName
    /\ UNCHANGED <<trial, fetch>>

-----------------------------------------------------------------------------
(* What a pattern means: some way to cut the name into the runs of its     *)
(* characters, where a star takes any run and anything else takes one.     *)

Takes(pat, str, k, from, to) ==
    IF pat[k] = "*" THEN from <= to ELSE to = from + 1 /\ pat[k] \in {"?", str[to]}

Denotes1(pat, str) ==
    \E cuts \in [0..Len(pat) -> 0..Len(str)] :
        /\ cuts[0] = 0 /\ cuts[Len(pat)] = Len(str)
        /\ \A k \in 1..Len(pat) : Takes(pat, str, k, cuts[k - 1], cuts[k])

\* What a list means: the last sub-pattern that matches decides.
Wanted(items, str) ==
    LET hits == {i \in DOMAIN items : Denotes1(items[i].text, str)}
    IN  hits # {} /\ ~items[CHOOSE i \in hits : \A j \in hits : j <= i].negated

\* Wildmat::matches: the loop over the sub-patterns, by what matches_one decides.
Matches(items, str) ==
    FoldLeft(LAMBDA matched, item : IF Denotes1(item.text, str) THEN ~item.negated ELSE matched,
             FALSE, items)

-----------------------------------------------------------------------------
(* batch_patterns and load_groups                                          *)

Total(items) == FoldLeft(LAMBDA sum, item : sum + Length(item), 0, items)

\* Wildmat::join: the items and the commas between them.
JoinedLength(items) == Total(items) + (Len(items) - 1)

\* A batch that cannot be joined is an error, which the loop drops.
Packed(batches, current) ==
    IF JoinedLength(current) > MaxLen THEN batches ELSE Append(batches, current)

Comma == IF fetch.current = <<>> THEN 0 ELSE 1

\* Mutant: the comma is left out of the length.
FitsWithoutComma(item) == fetch.current = <<>> \/ fetch.length + Length(item) <= MaxLen

Fits(item) == fetch.current = <<>> \/ fetch.length + Length(item) + Comma <= MaxLen

\* One turn of the loop of batch_patterns.
PackItem ==
    /\ fetch.state = "packing" /\ fetch.taken < Len(fetch.items)
    /\ LET item == fetch.items[fetch.taken + 1]
       IN  fetch' = IF Fits(item)
                    THEN [fetch EXCEPT !.current = Append(@, item), !.taken = @ + 1,
                                       !.length = @ + Length(item) + Comma]
                    ELSE [fetch EXCEPT !.batches = Packed(@, fetch.current),
                                       !.current = <<item>>, !.taken = @ + 1,
                                       !.length = Length(item)]

\* One unfiltered command, where nothing is left to send.
PackLast ==
    /\ fetch.state = "packing" /\ fetch.taken = Len(fetch.items)
    /\ LET batches == IF fetch.current = <<>> THEN fetch.batches
                      ELSE Packed(fetch.batches, fetch.current)
       IN  fetch' = [fetch EXCEPT !.current = <<>>, !.state = "listing",
                                  !.batches = IF batches = <<>> THEN << <<>> >> ELSE batches]

\* The server's side of LIST ACTIVE; the empty batch is a command without a pattern.
Answered(batch) == {g \in Catalogue : batch = <<>> \/ Matches(batch, g)}

ListBatch ==
    /\ fetch.state = "listing" /\ fetch.batches # <<>>
    /\ fetch' = [fetch EXCEPT !.active = @ \cup Answered(Head(fetch.batches)),
                              !.batches = Tail(@)]

\* list_all_and_filter: everything, kept where any pattern matches it.
Filtered(items) == {g \in Catalogue : \/ items = <<>>
                                      \/ \E i \in DOMAIN items : Matches(<<items[i]>>, g)}

BatchRefused ==
    /\ fetch.state = "listing" /\ fetch.batches # <<>> /\ Head(fetch.batches) # <<>>
    /\ fetch' = [fetch EXCEPT !.active = Filtered(fetch.items), !.batches = <<>>,
                              !.state = "filtered"]

Listing ==
    /\ PackItem \/ PackLast \/ ListBatch \/ BatchRefused
    /\ UNCHANGED <<trial, scan>>

PatternsNext == Matching \/ Listing

PatternsSpec == PatternsInit /\ [][PatternsNext]_patternVars

-----------------------------------------------------------------------------
(***************************************************************************)
(* The matcher with one star to go back to decides as a search through     *)
(* every way to divide the name among the stars would: forgetting the      *)
(* earlier stars of a pattern never loses a match.                         *)
(***************************************************************************)
MatchesAsMeant ==
    scan.verdict # "open" => (scan.verdict = "yes" <=> Denotes1(pattern, name))

(***************************************************************************)
(* Subscriptions list exactly the groups for which the last pattern that   *)
(* matches does not exclude: without an exclusion however the patterns are *)
(* packed, and even where the server refuses one of the commands halfway;  *)
(* with exclusions where the server takes the one command that has room    *)
(* for all of them.  Two commands, or the local filter, do not know of one *)
(* another's exclusions.                                                   *)
(***************************************************************************)
NothingExcluded == \A i \in DOMAIN fetch.items : ~fetch.items[i].negated
InOneCommand == fetch.state = "listing" /\ JoinedLength(fetch.items) <= MaxLen

SubscriptionsListed ==
    /\ fetch.state # "packing" /\ fetch.batches = <<>>
    /\ NothingExcluded \/ InOneCommand
    => fetch.active = {g \in Catalogue : fetch.items = <<>> \/ Wanted(fetch.items, g)}

(***************************************************************************)
(* Patterns select what they say, one name at a time and as a list of      *)
(* subscriptions (matches_one, batch_patterns, load_groups).               *)
(***************************************************************************)
PatternsAsMeant == MatchesAsMeant /\ SubscriptionsListed

=============================================================================
