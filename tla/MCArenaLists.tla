---------------------------- MODULE MCArenaLists ----------------------------
(* A list of pointers and a list of two-word string views in one arena.    *)
EXTENDS ArenaLists

CONSTANTS nodeList, viewList
WordsPerElem == [l \in {nodeList, viewList} |-> IF l = viewList THEN 2 ELSE 1]
=============================================================================
