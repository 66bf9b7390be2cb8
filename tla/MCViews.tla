------------------------------ MODULE MCViews -------------------------------
(***************************************************************************)
(* The parts of the reader that work alone, one topic at a time: the read  *)
(* set, the threading, the panes, the set-up of a session, the wildmat     *)
(* matcher, the group list, overview ranges, drafts and MIME parts.  Each  *)
(* behaviour is about one topic; the others stay as they start.            *)
(***************************************************************************)
EXTENDS ReadSetCalls, Threading, Panes, Setup, Patterns, Blocks, Ranges, Parts

CONSTANTS ma, mb, mc, md, open, void,
          Topics              \* the topics of the run

VARIABLE topic

viewsVars == <<topic, callVars, threadVars, panesVars, setupVars, patternVars, blockVars,
               rangeVars, partVars>>

-----------------------------------------------------------------------------
(* Threading: three records, a repeated id and a missing one, chains over  *)
(* each other, themselves and a missing article; subjects to join by; and  *)
(* four records deep enough for the clamp.                                 *)

Ids == {ma, mb, mc, md}

Rec(id, references, subject) == [id |-> id, references |-> references, subject |-> subject]

IdRows == {<<ma, mb, mc>>, <<ma, mb, ma>>, <<ma, NoId, mb>>}

Chains == {<<>>, <<mc, md, ma>>, <<ma, mb, md>>, <<ma, ma>>} \cup {<<x>> : x \in {ma, mb, md}}
          \cup {<<ma, mb>>, <<mb, ma>>, <<ma, mc>>, <<mc, ma>>, <<mb, mc>>, <<mc, mb>>}

LinkedInputs ==
    {[i \in 1..3 |-> Rec(ids[i], chains[i], <<>>)] : ids \in IdRows, chains \in [1..3 -> Chains]}

Titles == {<<"x">>, <<"re", "x">>, <<"tag", "re", "x">>, <<"y">>, <<"re">>}

TitledInputs ==
    {[i \in 1..3 |-> Rec(<<ma, mb, mc>>[i], chains[i], titles[i])] :
        titles \in [1..3 -> Titles],
        chains \in {<< <<>>, <<>>, <<>> >>, << <<>>, <<ma>>, <<>> >>, << <<md>>, <<md>>, <<mb>> >>}}

\* Four records, which may reply to one another in a single line.
DeepInputs ==
    {[i \in 1..4 |-> Rec(<<ma, mb, mc, md>>[i], chains[i], <<>>)] :
        chains \in [1..4 -> {<<>>, <<ma>>, <<mb>>, <<mc>>}]}

MCThreadInputs == LinkedInputs \cup TitledInputs \cup DeepInputs

-----------------------------------------------------------------------------
(* Panes: three articles in three chunks, one of them empty; two threads;  *)
(* two groups, one of them empty; one family of keys at a time.            *)

MCHeaders == <<Rec(ma, <<>>, <<>>), Rec(mb, <<>>, <<>>), Rec(mc, <<ma>>, <<>>)>>
MCChunks == <<{2, 3}, {}, {1}>>
MCGroupLists == {<<void, open>>, <<open>>}
MCFilterReach == [g \in {open, void} |-> IF g = open THEN 1 ELSE 0]
MCBodyLines == [n \in 1..3 |-> IF n = 1 THEN 3 ELSE 1]
MCOverlayLines == [Help |-> 4, Messages |-> 1]

UnreadKeys == {"enter", "down", "u", "M", "n", "r"}
ReloadKeys == {"enter", "esc", "down", "u", "p", "r"}
ThreadKeys == {"enter", "down", "u", "t", "z", "M"}
GroupKeys == {"enter", "esc", "/", "char", "backspace", "down", "up", "home", "end"}
BodyKeys == {"enter", "tab", "backtab", "c", "down", "pagedown", "pageup", "home", "end", "esc"}
OverlayKeys == {"tab", "Help", "Messages", "down", "pagedown", "pageup", "home", "end", "esc"}
MCKeyboards == {UnreadKeys, ReloadKeys, ThreadKeys, GroupKeys, BodyKeys, OverlayKeys}

\* The fewest keys with which the highlighted row and the opened one part.
PlaceKeyboards == {{"enter", "down", "u"}}

-----------------------------------------------------------------------------
(* Set-up: one server, several with and without a default, every kind of   *)
(* password source, and files that do not load.                            *)

ServerEntry(e, host) == [DefaultServer EXCEPT !.host = host, !.username = e]

es == [ServerEntry("es", "h1") EXCEPT !.port = "1119", !.password_command = "es", !.trust = "es"]
work == [ServerEntry("work", "h2") EXCEPT !.security = "Plain", !.allow_plaintext = TRUE,
                                          !.password = "work", !.blank = TRUE]
home == [ServerEntry("home", "h1") EXCEPT !.password_env = "home"]
guest == [ServerEntry("guest", "h3") EXCEPT !.security = "StartTls"]

Written(default, servers) ==
    [state |-> "written", default_server |-> default, servers |-> servers]

MCFiles ==
    {DefaultConfig, [DefaultConfig EXCEPT !.state = "broken"],
     Written("es", [es |-> es, work |-> work]),
     Written(Absent, [es |-> es, work |-> work]),
     Written(Absent, [work |-> work]),
     Written("home", [home |-> home, work |-> work]),
     Written("guest", [guest |-> guest, es |-> es]),
     Written("nobody", [es |-> es]),
     Written("es", [es |-> [es EXCEPT !.password_env = "es"]]),
     Written("es", [es |-> es, work |-> [work EXCEPT !.host = ""]]),
     Written("es", [es |-> [es EXCEPT !.usable = FALSE]])}

\* clap refuses both password flags at once.
ServerArgs ==
    {args \in [server : {Absent, "es", "work", "typo"}, host : {Absent, "h1", "h2"},
               port : {Absent, "2119"}, security : {Absent, "Plain"}, username : {Absent, Flag},
               password_command : BOOLEAN, password_env : BOOLEAN,
               allow_plaintext : {FALSE}, trust : {Absent}] :
        ~(args.password_command /\ args.password_env)}

Invoked(command, before, after) ==
    [command |-> command, before |-> before, after |-> after, log_file |-> FALSE,
     action |-> Absent, force |-> FALSE]

MCInvocations ==
    {Invoked(Absent, args, NoFlags) : args \in ServerArgs}
    \cup {Invoked("groups", NoFlags, [args EXCEPT !.allow_plaintext = TRUE]) :
             args \in {x \in ServerArgs : x.port = Absent}}
    \cup {Invoked("tui", [NoFlags EXCEPT !.host = "h1"], [NoFlags EXCEPT !.host = "h2"]),
          Invoked("tui", NoFlags, [NoFlags EXCEPT !.host = ""]),
          [Invoked("tui", NoFlags, [NoFlags EXCEPT !.trust = Flag]) EXCEPT !.log_file = TRUE]}
    \cup {[Invoked("config", NoFlags, NoFlags) EXCEPT !.action = action, !.force = force] :
             action \in {"path", "show", "init"}, force \in BOOLEAN}

-----------------------------------------------------------------------------
(* Patterns of four characters, and lists of three that need one, two or   *)
(* three commands.                                                         *)

MCTrials == BoundedSeq({"*", "?", "x", "y"}, 4) \X BoundedSeq({"x", "y"}, 3)

Item(negated, chars) == [negated |-> negated, text |-> chars]

MCSubscriptions ==
    BoundedSeq({Item(FALSE, <<"x", "*">>), Item(FALSE, <<"*", "y">>), Item(FALSE, <<"?">>),
                Item(FALSE, <<"x", "y", "x">>), Item(TRUE, <<"y">>)}, 3)

MCCatalogue == {<<"x">>, <<"y">>, <<"x", "y">>, <<"y", "x">>, <<"x", "y", "x">>}

-----------------------------------------------------------------------------
(* Drafts: headers complete, folded, empty, missing and not ours to write, *)
(* over bodies of up to three lines.                                       *)

DraftHeads ==
    {<< <<"From:", "x">>, <<"Newsgroups:", "x">>, <<"Subject:", "x">> >>,
     << <<"From:", "x">>, <<" ", "x">>, <<"Newsgroups:", "x">>, <<"Subject:", "x">>, <<" ", ".">> >>,
     << <<"From:">>, <<"From:", "x">>, <<"Newsgroups:", "x">>, <<"Subject:", "x">> >>,
     << <<" ", "From:", " ", "x">>, <<"Newsgroups:", "x", " ">>, <<"Subject:", "x">> >>,
     << <<" ", "x">>, <<"From:", "x">>, <<"Newsgroups:", "x">>, <<"Subject:", "x">> >>,
     << <<"From:", "x">>, <<"Newsgroups:", "x">>, <<"Path:", "x">>, <<"Subject:", "x">> >>,
     << <<"From:", "x">>, <<"Newsgroups:", "x">> >>}

DraftBodies == BoundedSeq({<<>>, <<" ">>, <<".">>, <<".", ".">>, <<".", "x">>, <<"x">>}, 3)

MCDrafts == {head \o <<separator>> \o body :
                head \in DraftHeads, separator \in {<<>>, <<" ">>}, body \in DraftBodies}

-----------------------------------------------------------------------------
(* Messages of two to four parts, one of them a container; delimiters left *)
(* out, an unusable boundary, and a container nested too deep.             *)

Line(is, tag) == [is |-> is, tag |-> tag]

LeafKinds == {Undeclared, Kind("html", "", FALSE), Kind("plain", "", TRUE), Kind("signature", "", FALSE)}

Leaf(kind, tag) == <<Line("head", kind), Line("blank", 0), Line("text", tag)>>

Simple(tag) == {Leaf(kind, tag) : kind \in LeafKinds}
               \cup {<<Line("text", tag)>>, <<Line("text", tag), Line("blank", 0), Line("text", tag + 1)>>}

Nested(tag) ==
    {Leaf(kind, tag) \o <<Line("open", "in")>> \o first \o <<Line("open", "in")>> \o Leaf(last, tag + 3) \o end :
        kind \in {Kind("alternative", "in", FALSE), Kind("mixed", "in", FALSE), Kind("mixed", "", FALSE)},
        first \in Simple(tag + 1), last \in {Undeclared, Kind("mixed", "deep", FALSE)},
        end \in {<<>>, <<Line("close", "in"), Line("text", tag + 4)>>}}

MCMessages ==
    {[kind |-> root,
      lines |-> <<Line("text", 0), Line("open", "out")>> \o first \o <<Line("open", "out")>> \o second \o end] :
        root \in {Kind("mixed", "out", FALSE), Kind("alternative", "out", FALSE), Undeclared},
        first \in Simple(10) \cup Nested(10), second \in Simple(20),
        end \in {<<>>, <<Line("close", "out"), Line("text", 30)>>,
                 <<Line("open", "out"), Line("text", 40)>>,
                 <<Line("open", "out"), Line("text", 40), Line("open", "out"), Line("text", 50)>>}}

-----------------------------------------------------------------------------
\* The part of a topic that is not this behaviour's starts from one input.
One(inputs) == CHOOSE x \in inputs : TRUE

IdleInit ==
    /\ IF topic = "set" THEN TRUE ELSE CallInit /\ call = <<"parse", <<>>>>
    /\ IF topic = "threads" THEN TRUE ELSE records = One(MCThreadInputs) /\ ThreadInit
    /\ IF topic = "panes" THEN TRUE ELSE keyboard = One(Keyboards) /\ PanesInit
    /\ IF topic = "setup" THEN TRUE
       ELSE invocation = One(MCInvocations) /\ file = One(MCFiles) /\ SetupInit
    /\ IF topic \in {"match", "list"} THEN TRUE
       ELSE trial = One(MCTrials) /\ fetch = One(Fetches) /\ PatternsInit
    /\ IF topic = "drafts" THEN TRUE ELSE text = One(MCDrafts) /\ BlocksInit
    /\ IF topic = "ranges" THEN TRUE ELSE span = One(Spans) /\ RangesInit
    /\ IF topic = "parts" THEN TRUE ELSE message = One(MCMessages) /\ PartsInit

ViewsInit ==
    /\ topic \in Topics
    /\ IdleInit
    /\ CASE topic = "set" -> CallInit
         [] topic = "threads" -> ThreadInit
         [] topic = "panes" -> PanesInit
         [] topic = "setup" -> SetupInit
         [] topic = "match" -> fetch = One(Fetches) /\ PatternsInit
         [] topic = "list" -> trial = One(MCTrials) /\ PatternsInit
         [] topic = "drafts" -> BlocksInit
         [] topic = "ranges" -> RangesInit
         [] topic = "parts" -> PartsInit

ViewsNext ==
    /\ UNCHANGED topic
    /\ IF topic = "set" THEN CallNext ELSE UNCHANGED callVars
    /\ IF topic = "threads" THEN ThreadNext ELSE UNCHANGED threadVars
    /\ IF topic = "panes" THEN PanesNext ELSE UNCHANGED panesVars
    /\ IF topic = "setup" THEN SetupNext ELSE UNCHANGED setupVars
    /\ CASE topic = "match" -> Matching
         [] topic = "list" -> Listing
         [] OTHER -> UNCHANGED patternVars
    /\ IF topic = "drafts" THEN BlocksNext ELSE UNCHANGED blockVars
    /\ IF topic = "ranges" THEN CutChunk ELSE UNCHANGED rangeVars
    /\ IF topic = "parts" THEN SplitPart ELSE UNCHANGED partVars

ViewsSpec == ViewsInit /\ [][ViewsNext]_viewsVars

=============================================================================
