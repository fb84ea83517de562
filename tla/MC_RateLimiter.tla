-------------------------- MODULE MC_RateLimiter ---------------------------
(***************************************************************************)
(* A small instance of RateLimiter for TLC.  Keys do not share anything    *)
(* but the shards a sweep visits, so there is one key and a sweep that     *)
(* visits shards before and after the key's.                               *)
(***************************************************************************)
EXTENDS RateLimiter, TLC

CONSTANTS k1, a1, a2, a3, a4, a5, s1

FiveRequests == {a1, a2, a3, a4, a5}
OneKey == {k1}
SameKey == [r \in FiveRequests |-> k1]
MiddleShard == (k1 :> 2)
OneSweeper == {s1}

\* The oldest representable instant: with a Window of 2, calls made at time 0
\* panic and later ones do not.
JustBeforeStart == -1

SameCalls == Permutations(FiveRequests)

=============================================================================
