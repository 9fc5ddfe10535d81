------------------------------ MODULE MCDaemon ------------------------------
(***************************************************************************)
(* Instances of Daemon for TLC.                                            *)
(***************************************************************************)
EXTENDS Daemon, TLC

CONSTANTS p1, k1, k2, k3

\* Two configurations of one probe, and one without probes.
ThreeConfigs == [k \in {k1, k2, k3} |-> IF k = k3 THEN {} ELSE {p1}]

\* One probe in both configurations.
TwoConfigs == [k \in {k1, k2} |-> {p1}]

MCResult == [worker : Worker, num : 1..(MaxRuns * MaxTargets)]
=============================================================================
