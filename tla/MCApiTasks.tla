----------------------------- MODULE MCApiTasks -----------------------------
(* Instances of ApiTasks for TLC. *)
EXTENDS ApiTasks, TLC

CONSTANTS o1, o2, t1, t2, d1, p1, p2, m1

\* The desired state changes, and the second organization is added by the first
\* merge.
GrowingMembers == [v \in Versions |-> IF v = 0 THEN {o1} ELSE {o1, o2}]
=============================================================================
