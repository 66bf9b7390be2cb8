---------------------------- MODULE MCReadStore ----------------------------
(* ReadStore with files as another newsreader or an editor leaves them.    *)
EXTENDS ReadStore

CONSTANTS g1, g2

Entry(g, subscribed, ranges) ==
    [group |-> g, subscribed |-> subscribed, ranges |-> ranges]

\* A group repeated, an unsubscribed one with and without marks, pieces out of
\* order and unreadable, and a line that is not an entry.
EditedTexts ==
    {<<Entry(g1, FALSE, << >>), Junk, Entry(g2, TRUE, <<<<2>>, << >>, <<1>>>>)>>,
     <<Entry(g2, FALSE, <<<<1>>>>), Entry(g2, TRUE, <<<<2, 0>>>>), Entry(g1, FALSE, <<<<2>>>>)>>}

NoText == {}

=============================================================================
