---------------------------- MODULE MCResidency ----------------------------
(***************************************************************************)
(* Residency for TLC: a caller, a loader thread, and two values, the       *)
(* second of which gets the first to rebuild itself; the budgets hold one  *)
(* of them at a time, or the first alone.                                  *)
(***************************************************************************)
EXTENDS Residency, TLC

CONSTANTS a, b, t1, l1

MCValues == {a, b}
MCSize   == a :> 1 @@ b :> 2
MCNeeds  == a :> {} @@ b :> {a}

=============================================================================
