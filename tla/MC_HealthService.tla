-------------------------- MODULE MC_HealthService --------------------------
(***************************************************************************)
(* Instances of HealthService for TLC.                                     *)
(***************************************************************************)
EXTENDS HealthService, TLC

CONSTANTS e1, e2, a1, a2

\* Two entries that share a backend.
TwoEntries == {e1, e2}
TwoAddresses == {a1, a2}
Sharing == (e1 :> {a1, a2}) @@ (e2 :> {a2})

=============================================================================
