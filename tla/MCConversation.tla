--------------------------- MODULE MCConversation ---------------------------
(***************************************************************************)
(* Instances of Conversation: two groups, one of them empty, and the       *)
(* servers, profiles and callers that make the interesting cases happen.   *)
(***************************************************************************)
EXTENDS Conversation

MCCorpus == <<Group("a", 1, [n \in {2, 3} |-> <<"a", n>>]), Group("b", 3, <<>>)>>

Draft == [complete |-> TRUE, groups |-> <<"a">>, id |-> NoId]

NoLogin == [security |-> "Plain", user |-> "nobody", pass |-> "nobody",
            allow_plaintext |-> FALSE, probing |-> FALSE, max_block_lines |-> 9]

Login(security, pass) ==
    [NoLogin EXCEPT !.security = security, !.user = "right", !.pass = pass]

\* Two calls of the worker are enough for most scenes.
Scene(config, pro, job, wrong) ==
    [config |-> config, profile |-> pro, job |-> job, faults |-> wrong, calls |-> 2]

Longer(scenes) == {[s EXCEPT !.calls = 3] : s \in scenes}

Quirk(q) == [DefaultConfig EXCEPT !.quirks = {q}]

As(p) == [DefaultConfig EXCEPT !.capabilities = p]

Secured == RequireAuth([DefaultConfig EXCEPT !.starttls = TRUE])

Call(method) == [method |-> method]
CallOn(method, arg) == [method |-> method, arg |-> arg]

MCCalls ==
    {CallOn("select_group", g) : g \in {"a", "b"}}
    \cup {CallOn("list_groups", p) : p \in {NoPattern, {"b"}}}
    \cup {CallOn("overview", ByRange(1, h)) : h \in {3, Open}}
    \cup {CallOn("header_field", t) : t \in {ByRange(1, Open), ById(<<"a", 2>>)}}
    \cup {[method |-> "fetch", verb |-> "ARTICLE", arg |-> Current],
          [method |-> "fetch", verb |-> "STAT", arg |-> ByNumber(3)],
          [method |-> "fetch", verb |-> "HEAD", arg |-> ById(<<"zz", 1>>)]}
    \cup {CallOn("article_numbers", g) : g \in {NoGroup, "b"}}
    \cup {[method |-> "step", verb |-> v] : v \in {"NEXT", "LAST"}}
    \cup {CallOn("select_group", "zz"), CallOn("new_groups", 2), CallOn("post", Draft), Call("help"), Call("quit")}

Disruptions == {"timeout", "reset", "cancel", "idle", "dial"}

\* One scene per quirk, profile and way of opening the session for the worker,
\* and each one-shot command against a server that may fail it.
MCScenes ==
    {Scene(Quirk(q), NoLogin, ReaderJob, {}) : q \in Quirks}
    \cup Longer({Scene(As(p), NoLogin, ReaderJob, {}) : p \in {"NoOver", "Transit"}})
    \cup {Scene([DefaultConfig EXCEPT !.greeting = g], NoLogin, ReaderJob, {"idle"}) :
              g \in {"NoPosting", "Refuse"}}
    \cup {Scene(DefaultConfig, NoLogin, ReaderJob, Disruptions),
          Scene(As("Legacy"), [NoLogin EXCEPT !.max_block_lines = 1], ReaderJob, {}),
          Scene([DefaultConfig EXCEPT !.close_after_commands = 3], NoLogin, ReaderJob, {})}

\* Opening a session.
MCOpenings ==
    Longer({Scene(RequireAuth(As(p)), [Login("Plain", "right") EXCEPT !.allow_plaintext = TRUE],
                  ReaderJob, {"timeout"}) : p \in {"Transit", "Legacy"}})
    \cup
    {Scene(Secured, Login("StartTls", p), ReaderJob, {"timeout", "tls", "chatty", "idle"}) :
        p \in {"right", "wrong", "nobody"}}
    \cup {Scene(Secured, Login("ImplicitTls", "right"), ReaderJob, {"idle"}),
          Scene(Secured, Login("Plain", "right"), ReaderJob, {}),
          Scene(As("Legacy"), Login("StartTls", "right"), ReaderJob, {}),
          Scene(DefaultConfig, Login("StartTls", "right"), ReaderJob, {}),
          Scene(DefaultConfig, [Login("Plain", "right") EXCEPT !.allow_plaintext = TRUE],
                ReaderJob, {})}

MCJobs ==
    {[command |-> "doctor", group |-> g] : g \in {NoGroup, "a", "b", "zz"}}
    \cup {[command |-> "groups", descriptions |-> d, pattern |-> NoPattern] : d \in BOOLEAN}
    \cup {[command |-> "overview", group |-> g, count |-> 1] : g \in {"a", "b"}}
    \cup {[command |-> "article", group |-> g, spec |-> s, part |-> "ARTICLE"] :
              g \in {NoGroup, "a"}, s \in {ByNumber(2), ById(<<"a", 2>>)}}

JobScenes ==
    {Scene(DefaultConfig, [NoLogin EXCEPT !.probing = (job.command = "doctor")], job,
           {"timeout", "idle"}) : job \in MCJobs}
    \cup {Scene(Secured, [Login(s, "wrong") EXCEPT !.probing = TRUE],
                [command |-> "doctor", group |-> "a"], {"timeout"}) : s \in {"Plain", "StartTls"}}

EveryScene == MCScenes \cup MCOpenings \cup JobScenes

\* A login whose capability refresh comes too late.
LateScene ==
    {Scene(RequireAuth(DefaultConfig), [Login("Plain", "right") EXCEPT !.allow_plaintext = TRUE],
           ReaderJob, {"timeout"})}

=============================================================================
