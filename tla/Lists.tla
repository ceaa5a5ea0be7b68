------------------------------- MODULE Lists -------------------------------
(***************************************************************************)
(* The operations of std::list and std::vector that the modules share, in  *)
(* a form without recursion.                                               *)
(***************************************************************************)
EXTENDS Integers, Sequences, FiniteSets

\* The elements at the positions in K, in their order: what remove_if leaves.
Keep(s, K) ==
  [k \in 1 .. Cardinality(K) |-> s[CHOOSE i \in K : Cardinality({j \in K : j <= i}) = k]]

\* list::remove: every occurrence of x goes.
Remove(s, x) == Keep(s, {i \in DOMAIN s : s[i] # x})

\* What a list holds, and that it holds nothing twice.
Elements(s) == {s[i] : i \in DOMAIN s}
Distinct(s) == \A i, j \in DOMAIN s : s[i] = s[j] => i = j
=============================================================================
