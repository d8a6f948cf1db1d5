-------------------------------- MODULE InOrder --------------------------------
(***************************************************************************)
(* What a filter keeps of a sequence, in the sequence's order: the places  *)
(* of the elements kept, ascending.                                        *)
(***************************************************************************)
EXTENDS Naturals, FiniteSets, Functions

\* the numbers of a finite set, ascending
Ascending(S) ==
    CHOOSE way \in Bijection(1 .. Cardinality(S), S) : \A i, j \in DOMAIN way : i < j => way[i] < way[j]
================================================================================
