----------------------------- MODULE MCDltGroup -----------------------------
(* Instances of DltGroup for TLC. *)
EXTENDS DltGroup, TLC

CONSTANTS r1, r2

Two == {r1, r2}

=============================================================================
