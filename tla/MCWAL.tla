------------------------------- MODULE MCWAL -------------------------------
(* The write-ahead log on its own, on small sets of entries.               *)
EXTENDS WAL, TLC

CONSTANTS e1, e2, e3, e4

AllEntries == {e1, e2, e3, e4}
NoEntries == {}
BigEntry == {e1}

\* e2 is so long that its torn line and another one do not fit the scanner together.
TornPairs == {{Part(e2, FALSE), Whole(e)} : e \in {e3, e4}}

\* The other entries are interchangeable.
SmallEntries == Permutations({e3, e4})
=============================================================================
