-------------------------------- MODULE Kept --------------------------------
(***************************************************************************)
(* One pass over a list that keeps some of it: over the offered pairs of a *)
(* dial (hedge.go) and over the exits of the client (client.js).  It says  *)
(* which element comes k-th, instead of recurring over the list.           *)
(***************************************************************************)
EXTENDS Integers, FiniteSets

\* The elements of s that S holds, in their order: the k-th has k - 1 of them before it.
Only(s, S) ==
  LET kept == {i \in DOMAIN s : s[i] \in S}
  IN [k \in 1 .. Cardinality(kept) |->
        s[CHOOSE i \in kept : Cardinality({j \in kept : j < i}) = k - 1]]
=============================================================================
