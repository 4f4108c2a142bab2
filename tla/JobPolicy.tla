----------------------------- MODULE JobPolicy -----------------------------
(***************************************************************************)
(* The part of reconcile/utils/jobcontroller that decides, from the status  *)
(* the controller reads in its cache, what enqueue_job does to the job of   *)
(* the same name on the cluster.  The module is shared by the specification *)
(* of the controller itself (JobController) and by its heaviest user, the   *)
(* external resources manager (ExternalResources).                          *)
(***************************************************************************)

\* JobStatus: a job that is not on the cluster reads as NOT_EXISTS.
JobStatuses == {"SUCCESS", "ERROR", "IN_PROGRESS", "NOT_EXISTS"}

Finished == {"SUCCESS", "ERROR"}

\* JobConcurrencyPolicy is an IntFlag; NO_REPLACE is the absence of the three
\* other flags, so a policy is the set of the flags that are on.
PolicyFlags == {"REPLACE_FAILED", "REPLACE_IN_PROGRESS", "REPLACE_FINISHED"}

\* The flag that allows enqueue_job to replace a job it believes has a status.
ReplaceFlag == [ERROR       |-> "REPLACE_FAILED",
                IN_PROGRESS |-> "REPLACE_IN_PROGRESS",
                SUCCESS     |-> "REPLACE_FINISHED"]

\* Mutant: any policy but NO_REPLACE replaces whatever job there is.
CancelsExistingAny(status, policy) == status # "NOT_EXISTS" /\ policy # {}

\* enqueue_job deletes the existing job first.
CancelsExisting(status, policy) ==
    status # "NOT_EXISTS" /\ ReplaceFlag[status] \in policy

\* enqueue_job creates a job (and returns True).
CreatesJob(status, policy) ==
    status = "NOT_EXISTS" \/ CancelsExisting(status, policy)
=============================================================================
