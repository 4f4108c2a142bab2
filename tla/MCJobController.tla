-------------------------- MODULE MCJobController --------------------------
(* Instances of JobController for TLC. *)
EXTENDS JobController

CONSTANTS c1, c2, n1, n2

Single(policy) == [names |-> {n1}, policy |-> policy, single |-> TRUE]
List(policy)   == [names |-> Names, policy |-> policy, single |-> FALSE]

\* The real runs: rosa/session.py, the external resources reconciler.
ReplaceFailed == {"REPLACE_FAILED"}
ReplaceEnded  == {"REPLACE_FAILED", "REPLACE_FINISHED"}

RosaCalls  == {Single(ReplaceFailed)}
ListCalls  == {List(ReplaceEnded)}
MixedCalls == {Single(ReplaceFailed), List(ReplaceEnded)}
\* The dry run of a merge request, by every pipeline of that request.
DryRunCalls == {List(PolicyFlags)}

NoTimeout == -1
=============================================================================
