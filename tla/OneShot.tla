------------------------------ MODULE OneShot -------------------------------
(***************************************************************************)
(* The commands that open one connection, ask a few things and leave:      *)
(* doctor, groups, overview and article.  A job is the sequence of calls   *)
(* it has still to make; an error drops the client without a QUIT, except  *)
(* in doctor, which reports it and goes on.                                *)
(***************************************************************************)
EXTENDS Wire

\* The reader's worker, which makes whatever calls it is asked to.
ReaderJob == [command |-> "worker"]

\* parse_spec: a message-id stands alone, a number needs a group.
ParseSpec(job) == job.spec.by = "id" \/ job.group # NoGroup

Probes(group) == IF group = NoGroup THEN <<>> ELSE <<"select", "newest", "fetch">>

Stages(job) ==
    CASE job.command = "worker" -> <<>>
      [] job.command = "doctor" -> <<"date", "format", "headers">> \o Probes(job.group) \o <<"quit">>
      [] job.command = "groups" -> <<"list", "quit">>
      [] job.command = "overview" -> <<"select", "newest", "quit">>
      [] job.command = "article" ->
            IF ~ParseSpec(job) THEN <<>>
            ELSE IF job.group = NoGroup THEN <<"fetch", "quit">>
            ELSE <<"select", "fetch", "quit">>

\* GroupSummary::is_empty
EmptySummary(summary) == summary.count = 0 \/ summary.high = 0 \/ summary.low > summary.high

\* The last few numbers of a group, however few there are: both subtractions
\* stop at zero.
MonusFrom(a, b) == IF a < b THEN 0 ELSE a - b

Newest(summary, count) ==
    LET first == MonusFrom(summary.high, MonusFrom(count, 1))
    IN  ByRange(IF first < summary.low THEN summary.low ELSE first, summary.high)

\* The call a stage makes.
CallAt(job, stage, summary) ==
    CASE stage = "date" -> [method |-> "server_date"]
      [] stage = "format" -> [method |-> "overview_format"]
      [] stage = "headers" -> [method |-> "available_header_fields"]
      [] stage = "list" ->
            [method |-> IF job.descriptions THEN "list_group_descriptions" ELSE "list_groups",
             arg |-> job.pattern]
      [] stage = "select" -> [method |-> "select_group", arg |-> job.group]
      [] stage = "newest" ->
            [method |-> "overview",
             arg |-> Newest(summary, IF job.command = "doctor" THEN 5 ELSE job.count)]
      [] stage = "fetch" /\ job.command = "doctor" ->
            [method |-> "fetch", verb |-> "ARTICLE", arg |-> ByNumber(summary.high)]
      [] stage = "fetch" /\ job.command = "article" ->
            [method |-> "fetch", verb |-> job.part, arg |-> job.spec]
      [] stage = "quit" -> [method |-> "quit"]

\* What is left to do once the first stage has returned.
Remaining(job, todo, result, summary) ==
    CASE result = "Ok" /\ Head(todo) = "select" /\ job.command # "article"
         /\ EmptySummary(summary) -> <<"quit">>
      [] result # "Ok" /\ job.command = "doctor" /\ Head(todo) = "select" -> <<"quit">>
      [] result # "Ok" /\ job.command # "doctor" -> <<>>
      [] OTHER -> Tail(todo)

=============================================================================
