---------------------------- MODULE MCTestServer ----------------------------
(***************************************************************************)
(* Two clients of one test server: a group with a gap below its first      *)
(* article and an empty one, a command whose reply is written under the    *)
(* guard, and articles of which one names a group nobody carries.          *)
(***************************************************************************)
EXTENDS TestServer

MCCorpus == <<Group("a", 1, [n \in {2, 3} |-> <<"a", n>>]), Group("b", 3, <<>>)>>

MCCommands ==
    {Command("POST", NoArg), Command("OVER", ById(<<"a", 2>>)), Command("QUIT", NoArg)}

Post(groups) == [complete |-> TRUE, groups |-> groups, id |-> NoId]

\* The last one was cut short by the end of input.
MCArticles == {Post(<<"a">>), Post(<<"zz">>), [Post(<<>>) EXCEPT !.complete = FALSE]}

=============================================================================
