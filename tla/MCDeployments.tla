---------------------------- MODULE MCDeployments ----------------------------
(* Instances of Deployments for TLC: stage and canary publish what they run,   *)
(* prod gets it by promotion; canary and prod are of one job.                 *)
EXTENDS Deployments, TLC

CONSTANTS stage, canary, prod, staging, production, channel, r1, r2

MCJobOf == [t \in Targets |-> IF t = stage THEN staging ELSE production]
MCPublishes == [t \in Targets |-> IF t = prod THEN {} ELSE {channel}]
MCSubscribes == [t \in Targets |-> IF t = prod THEN {channel} ELSE {}]
\* The places for pipeline runs are alike.
Alike == Permutations(Runs)
SoakInProd == [t \in Targets |-> IF t = prod THEN 1 ELSE 0]
=============================================================================
