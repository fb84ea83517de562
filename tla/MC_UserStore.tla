---------------------------- MODULE MC_UserStore ----------------------------
(***************************************************************************)
(* An instance of UserStore for TLC.                                       *)
(***************************************************************************)
EXTENDS UserStore, TLC

CONSTANTS r1, r2, r3, r4, r5

FiveRequests == {r1, r2, r3, r4, r5}
SameRequests == Permutations(FiveRequests)

\* Odd and even ids are in different shards.
Parity == [u \in 0 .. 6 |-> 1 + (u % 2)]

=============================================================================
