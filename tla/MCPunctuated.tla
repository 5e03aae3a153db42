---------------------------- MODULE MCPunctuated ----------------------------
(***************************************************************************)
(* The constants of PunctuatedClient for TLC.                              *)
(***************************************************************************)
EXTENDS PunctuatedClient

\* Lists of up to MaxLen items, equal ones included, as a parse makes them.
ParsedLists ==
    {Empty} \cup {Some(first, rest) : first \in Item, rest \in BoundedSeq(Pair, MaxLen - 1)}
=============================================================================
