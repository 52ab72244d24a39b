----------------------------- MODULE MCDashboard -----------------------------
(* A small instance of Dashboard.  The monitor's threads are alike. *)
EXTENDS Dashboard, TLC

Alike == Permutations(Slot)
=============================================================================
