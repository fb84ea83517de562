---------------------------- MODULE MC_Upstream -----------------------------
(***************************************************************************)
(* An instance of Upstream for TLC.                                        *)
(***************************************************************************)
EXTENDS Upstream

CONSTANT r1

OneRequest == {r1}

=============================================================================
