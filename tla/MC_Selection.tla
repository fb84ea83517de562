---------------------------- MODULE MC_Selection ----------------------------
(***************************************************************************)
(* Instances of Selection for TLC.                                         *)
(***************************************************************************)
EXTENDS Selection, TLC

CONSTANTS r1, r2

TwoRequests == {r1, r2}

\* Requests are interchangeable.  (Not used where liveness is checked.)
SameRequests == Permutations(TwoRequests)

=============================================================================
