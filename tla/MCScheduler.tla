---------------------------- MODULE MCScheduler -----------------------------
(***************************************************************************)
(* Scheduler for TLC: two configurations of one probe, which the factory   *)
(* can build from one of them only.                                        *)
(***************************************************************************)
EXTENDS Scheduler

CONSTANTS p1, k1, k2

MCProbesOf == [k \in {k1, k2} |-> {p1}]
MCUnbuildable == {<<k2, p1>>}
=============================================================================
