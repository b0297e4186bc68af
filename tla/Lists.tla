-------------------------------- MODULE Lists --------------------------------
(***************************************************************************)
(* What a loop that appends the elements it keeps makes of a list.         *)
(***************************************************************************)
EXTENDS Integers, Sequences, FiniteSets

(* The numbers of S in ascending order: the j-th is the one that j of them  *)
(* are not greater than.                                                   *)
Ascending(S) == [j \in 1 .. Cardinality(S) |-> CHOOSE n \in S : Cardinality({m \in S : m <= n}) = j]

(* The elements of s at the places in S, in their order. *)
Sublist(s, S) == [j \in 1 .. Cardinality(S) |-> s[Ascending(S)[j]]]
=============================================================================
