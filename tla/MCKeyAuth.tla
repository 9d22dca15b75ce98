------------------------------- MODULE MCKeyAuth -------------------------------
(* KeyAuth on small instances. *)
EXTENDS KeyAuth, TLC

\* Keys that happen to begin with the same 8 characters.
SharedPrefix == [k \in Keys |-> "ak_01234"]

Symmetry == Permutations(Threads) \cup Permutations(Keys)
===============================================================================
