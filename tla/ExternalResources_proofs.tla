---------------------- MODULE ExternalResources_proofs ----------------------
(* Theorems about ExternalResources, for every value of its constants.      *)
EXTENDS ExternalResources, TLAPS

\* The steps of the loop that work on a reconciliation.
Iteration == {"status", "link", "decide", "create", "mark"}

\* The type invariant is not inductive by itself: the lookups of an iteration
\* need to know that its reconciliation has a key.
TypeInv == TypeOK /\ (pc \in Iteration => r \in ReconciliationType)

USE DEF Actions, StoredStatuses, InProgress, JobStatuses, Finished

LEMMA RecordTypes ==
    /\ EmptyState \in StateType
    /\ StateType \subseteq ItemType
    /\ NoItem \in ItemType
    /\ NoJob \in JobType
BY DEF EmptyState, NoItem, NoJob, ItemType, StateType, Items, JobType

LEMMA TypeInit == Init => TypeInv
<1> SUFFICES ASSUME Init PROVE TypeInv
  OBVIOUS
<1> USE ConstantsAssumption, RecordTypes
<1>1. /\ db \in [Keys -> ItemType] /\ jobs \in [Keys -> JobType]
      /\ cache \in [Keys -> JobType] /\ state \in StateType
  BY DEF Init, NothingRunning
<1>2. /\ infra \in [Keys -> Hashes \cup {NoHash}]
      /\ outputs \in [Keys -> Hashes \cup {NoHash}]
      /\ vault \in [Keys -> Hashes \cup {NoHash}]
      /\ target \in [Keys -> Hashes \cup {NoHash}] /\ newer \in SUBSET Keys
      /\ secrets \in [Keys -> Hashes \cup {NoHash}]
  BY DEF Init, NothingRunning
<1>3. /\ config \in [Keys -> SpecType] /\ inv \in [Keys -> SpecType]
      /\ mr \in SUBSET MergeRequests /\ cli \in Keys \cup {NoKey}
      /\ merges \in Nat /\ faults \in Nat /\ cliRuns \in Nat
  BY DEF Init, NothingRunning
<1> QED
  BY <1>1, <1>2, <1>3 DEF Init, NothingRunning, TypeInv, TypeOK, Iteration

LEMMA PlanType ==
    ASSUME TypeOK
    PROVE  DesiredReconciliations(inv) \cup DeletedReconciliations(inv) \subseteq ReconciliationType
<1>1. DesiredReconciliations(inv) \subseteq ReconciliationType
  BY ConstantsAssumption
     DEF TypeOK, DesiredReconciliations, ApplyOf, ReconciliationType, LinkedResources, SpecType
<1>2. DeletedReconciliations(inv) \subseteq ReconciliationType
  <2>1. ASSUME NEW k \in Keys
        PROVE  DestroyOf(k) \in ReconciliationType
    BY DEF DestroyOf, TypeOK, ReconciliationType, ItemType, Items
  <2> QED
    BY <2>1 DEF DeletedReconciliations
<1> QED
  BY <1>1, <1>2

LEMMA StatusType ==
    ASSUME NEW rec \in ReconciliationType, NEW st \in StateType,
           NEW jobStatus \in JobStatuses
    PROVE  ReconciliationStatus(rec, st, jobStatus) \in StoredStatuses \cup {"DELETED"}
BY DEF ReconciliationStatus, StatusAfterSuccess, ReconciliationType, StateType, Items

LEMMA UpdateItemType ==
    ASSUME TypeOK, NEW k \in Keys, NEW s \in StoredStatuses
    PROVE  UpdateItem(k, s) \in [Keys -> ItemType]
<1> DEFINE t == IF db[k].status \in {"ABSENT", "STUB"} THEN "STUB" ELSE s
<1>1. db[k] \in ItemType
  BY DEF TypeOK
<1>2. [db[k] EXCEPT !.status = t] \in ItemType
  BY <1>1 DEF ItemType, Items
<1> QED
  BY <1>2 DEF TypeOK, UpdateItem

LEMMA RunOverType ==
    ASSUME RunOver
    PROVE  /\ pc' = "idle" /\ inv' \in [Keys -> SpecType]
           /\ pending' = {} /\ plan' = {} /\ r' = NoReconciliation
           /\ state' \in StateType /\ links' = {} /\ cached' = FALSE
           /\ cache' \in [Keys -> JobType] /\ toSync' = {}
           /\ secrets' \in [Keys -> Hashes \cup {NoHash}]
           /\ publish' = {} /\ drop' = {} /\ failed' = {}
BY ConstantsAssumption, RecordTypes DEF RunOver

\* However the clusters are synchronised, the run goes on to Vault or gives up.
LEMMA SyncFrame ==
    ASSUME SyncToClusters \/ SyncToClustersPartly \/ SyncToClustersFails
    PROVE  /\ pc = "sync" /\ pc' \in {"publish", "created"}
           /\ UNCHANGED <<config, mr, jobs, infra, outputs, vault, cli, merges, faults, cliRuns,
                          db, inv, pending, plan, r, state, links, cached, cache, toSync, drop>>
BY DEF SyncToClusters, SyncToClustersPartly, SyncToClustersFails, GoOnToVault

LEMMA SyncTypes ==
    ASSUME TypeOK, SyncToClusters \/ SyncToClustersPartly \/ SyncToClustersFails
    PROVE  /\ target' \in [Keys -> Hashes \cup {NoHash}] /\ newer' \in SUBSET Keys
           /\ secrets' \in [Keys -> Hashes \cup {NoHash}]
           /\ publish' \in SUBSET Keys /\ failed' \in SUBSET Keys
<1>1. SyncSpecs \subseteq Keys /\ Found \subseteq Keys
  BY DEF TypeOK, SyncSpecs, Found
<1>2. ASSUME NEW S \in SUBSET Found, ApplyToClusters(S)
      PROVE  target' \in [Keys -> Hashes \cup {NoHash}] /\ newer' \in SUBSET Keys
  BY <1>1, <1>2 DEF ApplyToClusters, TypeOK
<1>3. GoOnToVault => secrets' \in [Keys -> Hashes \cup {NoHash}] /\ publish' \in SUBSET Keys
  BY <1>1 DEF GoOnToVault, TypeOK
<1> QED
  BY <1>1, <1>2, <1>3 DEF SyncToClusters, SyncToClustersPartly, SyncToClustersFails, TypeOK

LEMMA TypeStep == TypeInv /\ [Next]_vars => TypeInv'
<1> SUFFICES ASSUME TypeInv, [Next]_vars PROVE TypeInv'
  OBVIOUS
<1> USE ConstantsAssumption, RecordTypes DEF TypeInv, TypeOK, Iteration, outputVars
<1>1. CASE StartRun
  BY <1>1 DEF StartRun, worldVars, secretVars
<1>2. CASE Plan
  BY <1>2, PlanType DEF Plan, worldVars, secretVars
<1>3. ASSUME NEW rec \in plan, GetState(rec) PROVE TypeInv'
  BY <1>3 DEF GetState, worldVars, secretVars, ReadState, Exists, ReconciliationType, ItemType, StateType, Items
<1>4. CASE UpdateState
  <2>1. NewStatus \in StoredStatuses \cup {"DELETED"}
    <3>1. r \in ReconciliationType /\ r.key \in Keys
      BY <1>4 DEF UpdateState, ReconciliationType
    <3>2. SeenStatus \in JobStatuses
      BY <3>1 DEF SeenStatus, SeenJobs, JobType
    <3> QED
      BY <3>1, <3>2, StatusType DEF NewStatus
  <2>2. [state EXCEPT !.status = NewStatus, !.expired = FALSE] \in StateType
        \/ NewStatus = "DELETED"
    BY <2>1 DEF StateType, Items
  <2>3. SeenJobs \in [Keys -> JobType]
    BY DEF SeenJobs
  <2>4. /\ db' \in [Keys -> ItemType] /\ state' \in StateType
        /\ links' \in SUBSET Keys /\ pc' \in {"decide", "link"}
        /\ toSync' \in SUBSET Keys
    BY <1>4, <2>1, <2>2 DEF UpdateState, KeysToSync, ReconciliationType
  <2> QED
    BY <1>4, <2>3, <2>4 DEF UpdateState, worldVars, secretVars
<1>5. ASSUME NEW d \in links, RequestLinked(d) PROVE TypeInv'
  <2>1. [ReadState(d) EXCEPT !.status = "RECONCILIATION_REQUESTED"] \in ItemType
    BY <1>5 DEF ReadState, ItemType, StateType, Items
  <2> QED
    BY <1>5, <2>1 DEF RequestLinked, worldVars, secretVars
<1>6. CASE LinksDone
  BY <1>6 DEF LinksDone, worldVars, secretVars
<1>7. CASE NothingToDo
  BY <1>7 DEF NothingToDo, worldVars, secretVars
<1>8. CASE ReplaceJob
  BY <1>8 DEF ReplaceJob, worldVars, secretVars, SeenJobs
<1>9. CASE SkipReplace
  BY <1>9 DEF SkipReplace, worldVars, secretVars, SeenJobs
<1>10. CASE CreateJob
  BY <1>10 DEF CreateJob, worldVars, secretVars, JobType, ReconciliationType
<1>11. CASE MarkInProgress
  BY <1>11 DEF MarkInProgress, worldVars, secretVars, ItemType, Items, ReconciliationType
<1>12. CASE LoopDone
  BY <1>12 DEF LoopDone, worldVars, secretVars
<1>13. CASE NothingToSync \/ EndRun \/ RunFails
  BY <1>13, RunOverType DEF NothingToSync, EndRun, RunFails, worldVars
<1>14. CASE SyncToClusters \/ SyncToClustersPartly \/ SyncToClustersFails
  BY <1>14, SyncFrame, SyncTypes
<1>15. ASSUME NEW k \in Keys, SyncFromVault(k) PROVE TypeInv'
  BY <1>15 DEF SyncFromVault, runAndTable, runVars, secretVars
<1>16. ASSUME NEW k \in publish, WriteToVault(k) PROVE TypeInv'
  BY <1>16 DEF WriteToVault, worldVars, secretVars
<1>17. ASSUME NEW k \in drop, DeleteSource(k) PROVE TypeInv'
  BY <1>17 DEF DeleteSource, worldVars, secretVars
<1>18. ASSUME NEW k \in publish \cup drop, PublishFails(k) PROVE TypeInv'
  BY <1>18 DEF PublishFails, worldVars, secretVars
<1>19. CASE PublishDone
  BY <1>19 DEF PublishDone, worldVars, secretVars
<1>20. ASSUME NEW k \in toSync, MarkCreated(k) PROVE TypeInv'
  BY <1>20, UpdateItemType DEF MarkCreated, worldVars, secretVars
<1>21. CASE RunDies
  BY <1>21, RunOverType DEF RunDies, worldVars
<1>22. ASSUME NEW k \in Keys, JobSucceeds(k) PROVE TypeInv'
  BY <1>22 DEF JobSucceeds, runAndTable, runVars, secretVars, JobType
<1>23. ASSUME NEW k \in Keys, JobFails(k) PROVE TypeInv'
  <2>1. jobs' \in [Keys -> JobType] /\ infra' \in [Keys -> Hashes \cup {NoHash}]
    BY <1>23 DEF JobFails, JobType
  <2> QED
    BY <1>23, <2>1 DEF JobFails, runAndTable, runVars, secretVars
<1>24. ASSUME NEW k \in Keys, JobExpires(k) PROVE TypeInv'
  BY <1>24 DEF JobExpires, runAndTable, runVars, secretVars
<1>25. ASSUME NEW k \in Keys, DriftIntervalPasses(k) PROVE TypeInv'
  <2>1. [db[k] EXCEPT !.expired = TRUE] \in ItemType
    BY DEF ItemType, Items
  <2> QED
    BY <1>25, <2>1 DEF DriftIntervalPasses, worldVars, runVars, secretVars
<1>26. ASSUME NEW m \in MergeRequests, ValidateMergeRequest(m) PROVE TypeInv'
  BY <1>26 DEF ValidateMergeRequest, runAndTable, runVars, secretVars
<1>27. ASSUME NEW m \in mr, Merge(m) PROVE TypeInv'
  BY <1>27 DEF Merge, runAndTable, runVars, secretVars, MergeRequests
<1>28. ASSUME NEW k \in Keys, CliRead(k) PROVE TypeInv'
  BY <1>28 DEF CliRead, runAndTable, runVars, secretVars
<1>29. CASE CliWrite
  BY <1>29, UpdateItemType DEF CliWrite, runVars, secretVars
<1>30. CASE UNCHANGED vars
  BY <1>30 DEF vars, worldVars, runVars, secretVars
<1>31. QED
  BY <1>1, <1>2, <1>3, <1>4, <1>5, <1>6, <1>7, <1>8, <1>9, <1>10, <1>11, <1>12, <1>13,
     <1>14, <1>15, <1>16, <1>17, <1>18, <1>19, <1>20, <1>21, <1>22, <1>23, <1>24, <1>25,
     <1>26, <1>27, <1>28, <1>29, <1>30
  DEF Next, Run, World

\* Every variable keeps its type in every behaviour.
THEOREM TypeCorrect == Spec => []TypeOK
<1>1. TypeInv => TypeOK
  BY DEF TypeInv
<1> QED
  BY <1>1, TypeInit, TypeStep, PTL DEF Spec
-----------------------------------------------------------------------------
(* The inductive invariant behind the two results below.  The job cache and *)
(* the pending snapshot are older than the table and the cluster they are    *)
(* used against; the invariant says for which keys they can still be trusted *)
(* and why that is enough.                                                   *)

\* Keys the run has yet to read, and keys it may still enqueue a job for.
Unread(k) == \/ pc = "plan"
             \/ \E rec \in plan : rec.key = k
             \/ pc = "status" /\ r.key = k
Unhandled(k) == Unread(k) \/ (pc \in {"link", "decide"} /\ r.key = k)

\* A run handles every key at most once.
PlanInv ==
    /\ \A a, b \in plan : a.key = b.key => a = b
    /\ pc \in Iteration => \A rec \in plan : rec.key # r.key
    /\ pc \notin Iteration \cup {"loop"} => plan = {}

\* For the keys a run may still enqueue, a cached job that is finished or
\* missing has not come to life on the cluster.
CacheInv ==
    /\ pc \in {"idle", "plan"} => ~cached
    /\ cached => \A k \in Keys : Unhandled(k) =>
          /\ cache[k].status = "NOT_EXISTS" => jobs[k].status = "NOT_EXISTS"
          /\ cache[k].status \in Finished => jobs[k].status # "IN_PROGRESS"
    /\ pc = "create" => jobs[r.key].status = "NOT_EXISTS"

HasItem(k) == db[k].status \notin {"ABSENT", "STUB"}

\* A key that was pending when the run began cannot be deleted by it, because
\* only a key in progress is, and it is handled once.
SyncInv ==
    /\ pc \in {"idle", "plan"} => toSync = {}
    /\ \A k \in toSync \cup pending : HasItem(k)
    /\ \A k \in pending : Unread(k) => db[k].status \notin InProgress
    /\ \A k \in toSync : ~Unread(k)
    /\ pc = "status" => /\ state.status # "NOT_EXISTS" => HasItem(r.key)
                        /\ r.key \in pending => state.status \notin InProgress

IInv == TypeInv /\ PlanInv /\ CacheInv /\ SyncInv

LEMMA NextCases ==
    ASSUME [Next]_vars
    PROVE  \/ StartRun \/ Plan \/ (\E rec \in plan : GetState(rec)) \/ UpdateState
           \/ (\E d \in links : RequestLinked(d)) \/ LinksDone \/ NothingToDo
           \/ ReplaceJob \/ SkipReplace \/ CreateJob \/ MarkInProgress
           \/ LoopDone \/ SyncToClusters \/ SyncToClustersPartly \/ SyncToClustersFails
           \/ (\E k \in publish : WriteToVault(k)) \/ (\E k \in drop : DeleteSource(k))
           \/ (\E k \in publish \cup drop : PublishFails(k)) \/ PublishDone
           \/ (\E k \in toSync : MarkCreated(k))
           \/ (RunOver /\ UNCHANGED <<jobs, db>>)
           \/ (\E k \in Keys : JobSucceeds(k)) \/ (\E k \in Keys : JobFails(k))
           \/ (\E k \in Keys : JobExpires(k)) \/ (\E k \in Keys : DriftIntervalPasses(k))
           \/ CliWrite \/ (UNCHANGED <<jobs, db, runVars>>)
BY DEF Next, Run, World, NothingToSync, EndRun, RunFails, RunDies, vars, runVars, worldVars,
       runAndTable, CliRead, Merge, ValidateMergeRequest, SyncFromVault

LEMMA PlanStep == TypeInv /\ PlanInv /\ [Next]_vars => PlanInv'
<1> SUFFICES ASSUME TypeInv, PlanInv, [Next]_vars PROVE PlanInv'
  OBVIOUS
<1> USE DEF PlanInv, Iteration
<1>1. CASE StartRun \/ LoopDone \/ PublishDone
  BY <1>1 DEF StartRun, LoopDone, PublishDone
<1>9. CASE SyncToClusters \/ SyncToClustersPartly \/ SyncToClustersFails
  BY <1>9, SyncFrame
<1>2. CASE Plan
  <2>1. ASSUME NEW a \in DesiredReconciliations(inv) \cup DeletedReconciliations(inv),
               NEW b \in DesiredReconciliations(inv) \cup DeletedReconciliations(inv),
               a.key = b.key
        PROVE  a = b
    <3>1. ASSUME NEW c \in DesiredReconciliations(inv)
          PROVE  c = ApplyOf(inv, c.key) /\ inv[c.key].mode = "apply"
      BY <3>1 DEF DesiredReconciliations, ApplyOf
    <3>2. ASSUME NEW c \in DeletedReconciliations(inv)
          PROVE  c = DestroyOf(c.key) /\ inv[c.key].mode = "delete"
      BY <3>2 DEF DeletedReconciliations, DestroyOf
    <3> QED
      BY <2>1, <3>1, <3>2
  <2> QED
    BY <1>2, <2>1 DEF Plan
<1>3. ASSUME NEW rec \in plan, GetState(rec) PROVE PlanInv'
  BY <1>3 DEF GetState
<1>4. CASE UpdateState
  BY <1>4 DEF UpdateState
<1>5. CASE LinksDone \/ ReplaceJob \/ SkipReplace \/ CreateJob
  BY <1>5 DEF LinksDone, ReplaceJob, SkipReplace, CreateJob
<1>6. CASE NothingToDo \/ MarkInProgress
  BY <1>6 DEF NothingToDo, MarkInProgress
<1>7. ASSUME UNCHANGED <<plan, pc, r>> PROVE PlanInv'
  BY <1>7
<1>8. CASE RunOver
  BY <1>8 DEF RunOver
<1> QED
  BY <1>1, <1>2, <1>3, <1>4, <1>5, <1>6, <1>7, <1>8, <1>9, NextCases
  DEF RequestLinked, WriteToVault, DeleteSource, PublishFails, MarkCreated, runVars,
      JobSucceeds, JobFails, JobExpires, DriftIntervalPasses, CliWrite, runAndTable

LEMMA CacheStep == TypeInv /\ PlanInv /\ CacheInv /\ [Next]_vars => CacheInv'
<1> SUFFICES ASSUME TypeInv, PlanInv, CacheInv, [Next]_vars PROVE CacheInv'
  OBVIOUS
<1> USE DEF CacheInv, Unhandled, Unread
<1>1. CASE StartRun \/ LoopDone \/ PublishDone
  BY <1>1 DEF StartRun, LoopDone, PublishDone, worldVars
<1>15. CASE SyncToClusters \/ SyncToClustersPartly \/ SyncToClustersFails
  BY <1>15, SyncFrame
<1>2. CASE Plan
  BY <1>2 DEF Plan, worldVars
<1>3. ASSUME NEW rec \in plan, GetState(rec) PROVE CacheInv'
  BY <1>3 DEF GetState, worldVars
<1>4. CASE UpdateState
  BY <1>4 DEF UpdateState, SeenJobs, worldVars
<1>5. CASE LinksDone \/ NothingToDo
  BY <1>5 DEF LinksDone, NothingToDo, worldVars
<1>6. CASE ReplaceJob
  BY <1>6 DEF ReplaceJob, SeenJobs, PlanInv, Iteration, NoJob, TypeInv, TypeOK, ReconciliationType
<1>7. CASE SkipReplace
  BY <1>7 DEF SkipReplace, SeenJobs, SeenStatus, worldVars, CreatesJob, PlanInv, Iteration,
     TypeInv, TypeOK, ReconciliationType
<1>8. CASE CreateJob
  BY <1>8 DEF CreateJob, PlanInv, Iteration
<1>9. CASE MarkInProgress
  BY <1>9 DEF MarkInProgress, worldVars
<1>10. ASSUME NEW k \in Keys, JobSucceeds(k) PROVE CacheInv'
  BY <1>10 DEF JobSucceeds, runAndTable, runVars, TypeInv, TypeOK
<1>11. ASSUME NEW k \in Keys, JobFails(k) PROVE CacheInv'
  BY <1>11 DEF JobFails, runAndTable, runVars, TypeInv, TypeOK
<1>12. ASSUME NEW k \in Keys, JobExpires(k) PROVE CacheInv'
  BY <1>12 DEF JobExpires, runAndTable, runVars, TypeInv, TypeOK, NoJob
<1>13. ASSUME UNCHANGED <<plan, pc, r, cached, cache, jobs>> PROVE CacheInv'
  BY <1>13
<1>14. CASE RunOver
  BY <1>14 DEF RunOver
<1> QED
  BY <1>1, <1>2, <1>3, <1>4, <1>5, <1>6, <1>7, <1>8, <1>9, <1>10, <1>11, <1>12, <1>13,
     <1>14, <1>15, NextCases
  DEF RequestLinked, WriteToVault, DeleteSource, PublishFails, MarkCreated, runVars,
      DriftIntervalPasses, CliWrite, worldVars

LEMMA StatusCases ==
    ASSUME NEW rec \in ReconciliationType, NEW st \in StateType, NEW jobStatus \in JobStatuses
    PROVE  LET new == ReconciliationStatus(rec, st, jobStatus) IN
           /\ new = "DELETED" => st.status \in InProgress
           /\ new = "PENDING_SECRET_SYNC" /\ ~NeedsStateUpdate(st, new)
              => st.status = "PENDING_SECRET_SYNC"
<1>1. st.status \in StoredStatuses
  BY DEF StateType, Items
<1>2. CASE st.status \notin InProgress
  <2>1. ReconciliationStatus(rec, st, jobStatus) = st.status
    BY <1>2 DEF ReconciliationStatus
  <2> QED
    BY <1>1, <2>1
<1>3. CASE st.status \in InProgress
  BY <1>3 DEF NeedsStateUpdate
<1> QED
  BY <1>2, <1>3

LEMMA SyncStep == TypeInv /\ PlanInv /\ SyncInv /\ [Next]_vars => SyncInv'
<1> SUFFICES ASSUME TypeInv, PlanInv, SyncInv, [Next]_vars PROVE SyncInv'
  OBVIOUS
<1> USE DEF SyncInv, Unread, HasItem
<1>1. CASE StartRun
  BY <1>1 DEF StartRun, TypeInv, TypeOK, PlanInv, Iteration
<1>2. CASE Plan
  BY <1>2 DEF Plan
<1>3. ASSUME NEW rec \in plan, GetState(rec) PROVE SyncInv'
  BY <1>3 DEF GetState, PlanInv, ReadState, Exists, EmptyState
<1>4. CASE UpdateState
  <2> USE <1>4 DEF TypeInv, TypeOK, Iteration
  <2>1. /\ pc = "status" /\ r \in ReconciliationType /\ r.key \in Keys
        /\ pc' \in {"decide", "link"} /\ plan' = plan /\ r' = r /\ pending' = pending
        /\ \A rec \in plan : rec.key # r.key
    BY DEF UpdateState, ReconciliationType, PlanInv
  <2>2. \A k \in Keys : Unread(k)' => Unread(k) /\ k # r.key
    BY <2>1
  <2>3. SeenStatus \in JobStatuses
    BY <2>1 DEF SeenStatus, SeenJobs, JobType
  <2>4. /\ NewStatus = "DELETED" => state.status \in InProgress
        /\ NewStatus = "PENDING_SECRET_SYNC" /\ ~NeedsStateUpdate(state, NewStatus)
           => state.status = "PENDING_SECRET_SYNC"
    BY <2>1, <2>3, StatusCases DEF NewStatus
  <2>5. NewStatus \in {"DELETED"} \cup StoredStatuses
    BY <2>1, <2>3, StatusType DEF NewStatus
  <2>6. CASE ~NeedsStateUpdate(state, NewStatus)
    BY <2>1, <2>2, <2>4, <2>6 DEF UpdateState, KeysToSync
  <2>7. CASE NeedsStateUpdate(state, NewStatus) /\ NewStatus = "DELETED"
    BY <2>1, <2>2, <2>4, <2>7 DEF UpdateState, KeysToSync
  <2>8. CASE NeedsStateUpdate(state, NewStatus) /\ NewStatus # "DELETED"
    <3>1. db' = [db EXCEPT ![r.key] = state'] /\ state'.status \in StoredStatuses
      BY <2>5, <2>8 DEF UpdateState, StateType, Items
    <3> QED
      BY <2>1, <2>2, <2>8, <3>1 DEF UpdateState, KeysToSync
  <2> QED
    BY <2>6, <2>7, <2>8
<1>5. ASSUME NEW d \in links, RequestLinked(d) PROVE SyncInv'
  BY <1>5 DEF RequestLinked, TypeInv, TypeOK
<1>6. CASE LinksDone \/ NothingToDo \/ ReplaceJob \/ SkipReplace \/ CreateJob
  BY <1>6 DEF LinksDone, NothingToDo, ReplaceJob, SkipReplace, CreateJob
<1>7. CASE MarkInProgress
  BY <1>7 DEF MarkInProgress, PlanInv, Iteration, TypeInv, TypeOK
<1>8. CASE LoopDone
  BY <1>8 DEF LoopDone
<1>9. CASE PublishDone
  BY <1>9 DEF PublishDone
<1>15. CASE SyncToClusters \/ SyncToClustersPartly \/ SyncToClustersFails
  BY <1>15, SyncFrame
<1>10. ASSUME NEW k \in toSync, MarkCreated(k) PROVE SyncInv'
  BY <1>10 DEF MarkCreated, UpdateItem, PlanInv, Iteration, TypeInv, TypeOK
<1>11. ASSUME NEW k \in Keys, DriftIntervalPasses(k) PROVE SyncInv'
  BY <1>11 DEF DriftIntervalPasses, runVars, TypeInv, TypeOK
<1>12. CASE CliWrite
  BY <1>12 DEF CliWrite, UpdateItem, runVars, TypeInv, TypeOK
<1>13. ASSUME UNCHANGED <<plan, pc, r, state, toSync, pending, db>> PROVE SyncInv'
  BY <1>13
<1>14. CASE RunOver
  BY <1>14 DEF RunOver
<1> QED
  BY <1>1, <1>2, <1>3, <1>4, <1>5, <1>6, <1>7, <1>8, <1>9, <1>10, <1>11, <1>12, <1>13,
     <1>14, <1>15, NextCases
  DEF WriteToVault, DeleteSource, PublishFails, runVars, JobSucceeds, JobFails, JobExpires,
      runAndTable

LEMMA Inductive == Init /\ [][Next]_vars => []IInv
<1>1. Init => IInv
  <2> SUFFICES ASSUME Init PROVE IInv
    OBVIOUS
  <2> QED
    BY TypeInit DEF Init, NothingRunning, IInv, PlanInv, CacheInv, SyncInv, Iteration
<1>2. IInv /\ [Next]_vars => IInv'
  BY TypeStep, PlanStep, CacheStep, SyncStep DEF IInv
<1> QED
  BY <1>1, <1>2, PTL

\* _sync_secrets never makes update_item create an item: every key it is given
\* has one, in every behaviour, with crashes and the command line at work.
THEOREM NoUpsert == Spec => []SyncedItemsExist
<1>1. IInv => SyncedItemsExist
  BY DEF IInv, SyncInv, SyncedItemsExist, HasItem
<1> QED
  BY <1>1, Inductive, PTL DEF Spec

LEMMA SlotsInit == Init => Slots!Init
BY DEF Init, Slots!Init, Slots!Empty, JobSlot, NoJob, NoWork

LEMMA SlotsStep == IInv /\ [Next]_vars => [Slots!Next]_JobSlot
<1> SUFFICES ASSUME IInv, [Next]_vars PROVE Slots!Next \/ UNCHANGED JobSlot
  BY DEF Slots!Next
<1> USE DEF IInv, TypeInv, TypeOK
<1> USE DEF JobSlot, Slots!Finished, Finished
<1>1. CASE ReplaceJob
  <2>1. r \in ReconciliationType /\ r.key \in Keys
    BY <1>1 DEF ReplaceJob, Iteration, ReconciliationType
  <2>2. jobs[r.key].status \in Finished
    <3>1. SeenStatus \in {"ERROR", "SUCCESS"}
      BY <1>1, <2>1 DEF ReplaceJob, CancelsExisting, ReconcilePolicy, ReplaceFlag, SeenStatus,
         SeenJobs, JobType
    <3> QED
      BY <1>1, <2>1, <3>1 DEF ReplaceJob, SeenStatus, SeenJobs, CacheInv, Unhandled, JobType
  <2>3. PICK k \in Keys : k = r.key
    BY <2>1
  <2>4. Slots!Remove(k)
    BY <1>1, <2>2, <2>3 DEF ReplaceJob, Slots!Remove, Slots!Empty, NoJob, NoWork
  <2> QED
    BY <2>4 DEF Slots!Next
<1>2. CASE CreateJob
  <2>1. r \in ReconciliationType /\ r.key \in Keys
    BY <1>2 DEF CreateJob, Iteration, ReconciliationType
  <2>2. [hash |-> r.hash, action |-> r.action] \in Work
    BY <2>1 DEF ReconciliationType, Work
  <2>3. PICK k \in Keys : k = r.key
    BY <2>1
  <2>4. Slots!Start(k)
    BY <1>2, <2>2, <2>3 DEF CreateJob, Slots!Start, CacheInv
  <2> QED
    BY <2>4 DEF Slots!Next
<1>0. ASSUME NEW k \in Keys, NEW s \in Finished, jobs' = [jobs EXCEPT ![k].status = s]
      PROVE  JobSlot' = [JobSlot EXCEPT ![k].status = s]
  <2>1. \A n \in Keys : JobSlot'[n] = [JobSlot EXCEPT ![k].status = s][n]
    BY <1>0 DEF JobType
  <2> QED
    BY <2>1
<1>3. ASSUME NEW k \in Keys, JobSucceeds(k) PROVE Slots!Finish(k)
  <2>1. JobSlot' = [JobSlot EXCEPT ![k].status = "SUCCESS"]
    BY <1>3, <1>0 DEF JobSucceeds
  <2> QED
    BY <1>3, <2>1 DEF JobSucceeds, Slots!Finish
<1>4. ASSUME NEW k \in Keys, JobFails(k) PROVE Slots!Finish(k)
  <2>1. JobSlot' = [JobSlot EXCEPT ![k].status = "ERROR"]
    BY <1>4, <1>0 DEF JobFails
  <2> QED
    BY <1>4, <2>1 DEF JobFails, Slots!Finish
<1>5. ASSUME NEW k \in Keys, JobExpires(k) PROVE Slots!Remove(k)
  BY <1>5 DEF JobExpires, Slots!Remove, Slots!Empty, NoJob, NoWork
<1>6. ASSUME UNCHANGED jobs PROVE UNCHANGED JobSlot
  BY <1>6
<1> QED
  BY <1>1, <1>2, <1>3, <1>4, <1>5, <1>6, NextCases, SyncFrame
  DEF Slots!Next, StartRun, Plan, GetState, UpdateState, RequestLinked, LinksDone, NothingToDo,
      SkipReplace, MarkInProgress, LoopDone, WriteToVault,
      DeleteSource, PublishFails, PublishDone, MarkCreated, DriftIntervalPasses, CliWrite,
      worldVars

\* The jobs of the manager are slots: one unit of work at a time under every
\* name, never replaced before it ends, whatever the age of the job cache.
THEOREM JobsAreSlots == Spec => ImplementsJobSlots
BY SlotsInit, SlotsStep, Inductive, PTL DEF Spec, ImplementsJobSlots, Slots!Spec
-----------------------------------------------------------------------------
(* What the table says of jobs and resources, while no run dies, nobody uses *)
(* the command line and no module has outputs to synchronise: each of these  *)
(* writes a status that is not about the job that runs.                      *)

Undisturbed == MaxFaults = 0 /\ MaxCli = 0 /\ SecretSynced = {}

\* Nothing is ever pending or a stub, and no run gets to its second part.
QuietInv ==
    /\ cli = NoKey
    /\ toSync = {} /\ pending = {}
    /\ pc \notin {"sync", "publish", "created"}
    /\ state.status # "PENDING_SECRET_SYNC"
    /\ \A k \in Keys : db[k].status \notin {"PENDING_SECRET_SYNC", "STUB"}

\* A run knows what the table says of its key, and a job that is running in its old
\* cache of jobs is on record, so that it is not taken for a new one.
TrackInv ==
    /\ \A k \in Keys : Running(k) => Awaited(k)
    /\ pc = "status" => /\ state.status = ReadState(r.key).status
                        /\ state.hash = ReadState(r.key).hash
    /\ pc \in {"link", "decide"} /\ db[r.key].status \in InProgress => state.status \in InProgress
    /\ pc \in {"create", "mark"} => db[r.key].status \notin InProgress
    /\ cached => \A k \in Keys : Unhandled(k) /\ cache[k].status = "IN_PROGRESS" =>
          db[k].status \in InProgress

LEMMA QuietCases ==
    ASSUME Undisturbed, TypeOK, QuietInv, [Next]_vars
    PROVE  \/ StartRun \/ Plan \/ (\E rec \in plan : GetState(rec)) \/ UpdateState
           \/ (\E d \in links : RequestLinked(d)) \/ LinksDone \/ NothingToDo
           \/ ReplaceJob \/ SkipReplace \/ CreateJob \/ MarkInProgress
           \/ (RunOver /\ pc # "mark" /\ UNCHANGED <<worldVars, db>>)
           \/ (\E k \in Keys : JobSucceeds(k)) \/ (\E k \in Keys : JobFails(k))
           \/ (\E k \in Keys : JobExpires(k) /\ ~Awaited(k))
           \/ (\E k \in Keys : DriftIntervalPasses(k))
           \/ (\E m \in MergeRequests : ValidateMergeRequest(m)) \/ (\E m \in mr : Merge(m))
           \/ UNCHANGED vars
<1>1. faults \in Nat /\ cliRuns \in Nat /\ MaxFaults = 0 /\ MaxCli = 0
  BY DEF Undisturbed, TypeOK
<1>2. ~RunDies /\ (\A k \in Keys : ~CliRead(k) /\ ~SyncFromVault(k)) /\ ~CliWrite
  BY <1>1 DEF RunDies, CliRead, CliWrite, SyncFromVault, QuietInv, Undisturbed
<1>3. \A k \in Keys : JobExpires(k) => ~Awaited(k)
  BY <1>1 DEF JobExpires
<1>4. /\ ~LoopDone /\ ~PublishDone /\ ~EndRun
      /\ ~SyncToClusters /\ ~SyncToClustersPartly /\ ~SyncToClustersFails
      /\ \A k : ~WriteToVault(k) /\ ~DeleteSource(k) /\ ~PublishFails(k) /\ ~MarkCreated(k)
  BY SyncFrame DEF QuietInv, LoopDone, PublishDone, EndRun, WriteToVault, DeleteSource, PublishFails, MarkCreated
<1>5. NothingToSync \/ RunFails => RunOver /\ pc # "mark" /\ UNCHANGED <<worldVars, db>>
  BY DEF NothingToSync, RunFails
<1> QED BY <1>2, <1>3, <1>4, <1>5 DEF Next, Run, World

\* What an iteration finds and writes.
LEMMA UpdateParts ==
    ASSUME TypeInv, UpdateState
    PROVE  /\ r \in ReconciliationType /\ r.key \in Keys /\ pc = "status"
           /\ SeenStatus = SeenJobs[r.key].status /\ SeenStatus \in JobStatuses
           /\ pc' \in {"decide", "link"} /\ UNCHANGED <<jobs, infra, r, plan, pending, cli>>
           /\ \/ db' = db /\ state' = state
              \/ /\ db' = [db EXCEPT ![r.key] = NoItem] /\ state' = state
                 /\ NewStatus = "DELETED" /\ state.status \in InProgress
              \/ /\ state' = [state EXCEPT !.status = NewStatus, !.expired = FALSE]
                 /\ state' \in StateType /\ state'.status = NewStatus /\ state'.hash = state.hash
                 /\ db' = [db EXCEPT ![r.key] = state']
                 /\ NewStatus \notin InProgress
                 /\ state.status \in InProgress \/ (state.status = "NOT_EXISTS" /\ NewStatus = "NOT_EXISTS")
           /\ state.status \notin InProgress => NewStatus = state.status
           /\ SeenStatus = "IN_PROGRESS" => NewStatus = state.status
<1>1. pc = "status" /\ pc' \in {"decide", "link"} /\ UNCHANGED <<jobs, infra, r, plan, pending, cli>>
  BY DEF UpdateState, worldVars
<1>2. r \in ReconciliationType /\ r.key \in Keys /\ state \in StateType
  BY <1>1 DEF TypeInv, TypeOK, Iteration, ReconciliationType
<1>3. SeenStatus = SeenJobs[r.key].status /\ SeenStatus \in JobStatuses
  BY <1>2 DEF SeenStatus, SeenJobs, TypeInv, TypeOK, JobType
<1>4. NewStatus \in StoredStatuses \cup {"DELETED"}
  BY <1>2, <1>3, StatusType DEF NewStatus
<1>5. /\ state.status \notin InProgress => NewStatus = state.status
      /\ SeenStatus = "IN_PROGRESS" => NewStatus = state.status
  BY DEF NewStatus, ReconciliationStatus
<1>6. state.status \in StoredStatuses
  BY <1>2 DEF StateType, Items
<1>7. CASE ~NeedsStateUpdate(state, NewStatus)
  BY <1>1, <1>2, <1>3, <1>5, <1>7 DEF UpdateState
<1>8. CASE NeedsStateUpdate(state, NewStatus) /\ NewStatus = "DELETED"
  <2>1. state.status \in InProgress
    BY <1>5, <1>6, <1>8
  <2> QED BY <1>1, <1>2, <1>3, <1>5, <1>8, <2>1 DEF UpdateState
<1>9. CASE NeedsStateUpdate(state, NewStatus) /\ NewStatus # "DELETED"
  <2>1. /\ state' = [state EXCEPT !.status = NewStatus, !.expired = FALSE]
        /\ db' = [db EXCEPT ![r.key] = state']
    BY <1>9 DEF UpdateState
  <2>2. state' \in StateType /\ state'.status = NewStatus /\ state'.hash = state.hash
    BY <1>2, <1>4, <1>9, <2>1 DEF StateType, Items
  <2>3. /\ NewStatus \notin InProgress
        /\ state.status \in InProgress \/ (state.status = "NOT_EXISTS" /\ NewStatus = "NOT_EXISTS")
    BY <1>5, <1>9 DEF NeedsStateUpdate
  <2> QED BY <1>1, <1>2, <1>3, <1>5, <2>1, <2>2, <2>3
<1> QED BY <1>7, <1>8, <1>9

LEMMA QuietStep ==
    ASSUME Undisturbed, TypeInv, QuietInv, [Next]_vars
    PROVE  QuietInv'
<1> USE DEF QuietInv
<1>1. CASE StartRun
  BY <1>1 DEF StartRun, worldVars
<1>2. CASE Plan \/ LinksDone \/ SkipReplace \/ ReplaceJob \/ CreateJob
  BY <1>2 DEF Plan, LinksDone, SkipReplace, ReplaceJob, CreateJob, worldVars
<1>3. ASSUME NEW rec \in plan, GetState(rec) PROVE QuietInv'
  <2>1. rec.key \in Keys
    BY DEF TypeInv, TypeOK, ReconciliationType
  <2>2. ReadState(rec.key).status # "PENDING_SECRET_SYNC"
    BY <2>1 DEF ReadState, EmptyState
  <2> QED BY <1>3, <2>2 DEF GetState, worldVars
<1>4. CASE UpdateState
  <2>1. TypeInv /\ TypeOK
    BY DEF TypeInv
  <2>2. r.key \in Keys /\ db \in [Keys -> ItemType] /\ cli' = cli /\ pending' = pending
        /\ pc' \in {"decide", "link"}
    BY <1>4, <2>1, UpdateParts DEF TypeOK
  <2>3. NewStatus # "PENDING_SECRET_SYNC"
    BY DEF NewStatus, ReconciliationStatus, StatusAfterSuccess, Undisturbed
  <2>4. toSync' = {}
    BY <1>4, <2>3 DEF UpdateState, KeysToSync
  <2>5. NewStatus \in StoredStatuses \cup {"DELETED"}
    BY <1>4, <2>1, UpdateParts, StatusType DEF NewStatus, TypeOK
  <2>6. \/ db' = db /\ state' = state
        \/ db' = [db EXCEPT ![r.key] = NoItem] /\ state' = state
        \/ db' = [db EXCEPT ![r.key] = state'] /\ state'.status = NewStatus
    BY <1>4, <2>1, UpdateParts
  <2>7. NewStatus = "DELETED" => db' = db \/ db' = [db EXCEPT ![r.key] = NoItem]
    BY <1>4 DEF UpdateState
  <2>8. /\ state'.status # "PENDING_SECRET_SYNC"
        /\ \A k \in Keys : db'[k].status \notin {"PENDING_SECRET_SYNC", "STUB"}
    BY <2>2, <2>3, <2>5, <2>6 DEF NoItem
  <2> QED BY <2>2, <2>4, <2>8
<1>5. ASSUME NEW d \in links, RequestLinked(d) PROVE QuietInv'
  BY <1>5 DEF RequestLinked, worldVars, TypeInv, TypeOK, ReadState, EmptyState
<1>6. CASE NothingToDo \/ MarkInProgress
  BY <1>6 DEF NothingToDo, MarkInProgress, worldVars, EmptyState, TypeInv, TypeOK
<1>7. CASE RunOver /\ UNCHANGED <<worldVars, db>>
  BY <1>7 DEF RunOver, worldVars, EmptyState
<1>8. ASSUME NEW k \in Keys, JobSucceeds(k) \/ JobFails(k) \/ JobExpires(k) PROVE QuietInv'
  BY <1>8 DEF JobSucceeds, JobFails, JobExpires, runAndTable, runVars
<1>9. ASSUME NEW k \in Keys, DriftIntervalPasses(k) PROVE QuietInv'
  BY <1>9 DEF DriftIntervalPasses, worldVars, runVars, TypeInv, TypeOK
<1>10. ASSUME NEW m, ValidateMergeRequest(m) \/ Merge(m) PROVE QuietInv'
  BY <1>10 DEF ValidateMergeRequest, Merge, runAndTable, runVars
<1>11. CASE UNCHANGED vars
  BY <1>11 DEF vars, worldVars, runVars
<1>12. TypeOK
  BY DEF TypeInv
<1> QED BY <1>1, <1>2, <1>3, <1>4, <1>5, <1>6, <1>7, <1>8, <1>9, <1>10, <1>11, <1>12, QuietCases

\* The job the run sees is not older than the job there is, for a key it still
\* has to deal with: it can only have ended or gone since.
LEMMA SeenIsRunning ==
    ASSUME TypeInv, CacheInv, NEW k \in Keys, Unhandled(k), Running(k)
    PROVE  SeenJobs[k].status = "IN_PROGRESS"
<1>1. CASE cached
  BY <1>1 DEF CacheInv, SeenJobs, Running, TypeInv, TypeOK, JobType
<1>2. CASE ~cached
  BY <1>2 DEF SeenJobs, Running
<1> QED BY <1>1, <1>2

\* A reconciliation is not started for a key that is in progress in the table.
LEMMA NotInProgress ==
    ASSUME TrackInv, pc = "decide", NeedsReconciliation(r, state)
    PROVE  db[r.key].status \notin InProgress
BY DEF TrackInv, NeedsReconciliation, UnappliedStatuses, DestroyableStatuses

LEMMA TrackStep ==
    ASSUME Undisturbed, TypeInv, PlanInv, CacheInv, QuietInv, TrackInv, [Next]_vars
    PROVE  TrackInv'
<1> USE DEF TrackInv, Running, Awaited
<1>0. TypeOK
  BY DEF TypeInv
<1>1. CASE StartRun \/ Plan
  BY <1>1 DEF StartRun, Plan, worldVars, CacheInv
<1>2. ASSUME NEW rec \in plan, GetState(rec) PROVE TrackInv'
  BY <1>2 DEF GetState, worldVars, Unhandled, Unread, ReadState, Exists
<1>3. CASE UpdateState
  <2> USE <1>3
  <2>1. /\ r.key \in Keys /\ pc = "status" /\ pc' \in {"decide", "link"}
        /\ UNCHANGED <<jobs, r, plan>> /\ db \in [Keys -> ItemType]
        /\ SeenStatus = SeenJobs[r.key].status
    BY <1>0, UpdateParts DEF TypeOK
  <2>2. cached' = (cached \/ state.status \in InProgress) /\ (cached' => cache' = SeenJobs)
    BY DEF UpdateState
  <2>3. Unhandled(r.key) /\ \A k \in Keys : Unhandled(k)' => Unhandled(k)
    BY <2>1 DEF Unhandled, Unread
  <2>4. SeenStatus = "IN_PROGRESS" => db[r.key].status \in InProgress
    <3>1. CASE cached
      BY <2>1, <2>3, <3>1 DEF SeenJobs
    <3>2. CASE ~cached
      BY <2>1, <3>2 DEF SeenJobs
    <3> QED BY <3>1, <3>2
  <2>5. db[r.key].status \in InProgress => state.status \in InProgress
    BY <2>1 DEF ReadState, Exists
  <2>6. SeenStatus = "IN_PROGRESS" => db' = db
    <3> SUFFICES ASSUME SeenStatus = "IN_PROGRESS" PROVE db' = db
      OBVIOUS
    <3>1. state.status \in InProgress /\ NewStatus = state.status
      BY <2>4, <2>5, UpdateParts
    <3> QED BY <3>1, UpdateParts
  <2>7. \A k \in Keys : k # r.key => db'[k] = db[k]
    BY <2>1, UpdateParts
  <2>8. \A k \in Keys : Running(k) => db'[k].status \in InProgress
    <3> SUFFICES ASSUME NEW k \in Keys, Running(k) PROVE db'[k].status \in InProgress
      OBVIOUS
    <3>1. db[k].status \in InProgress
      BY <2>1
    <3>2. k = r.key => db' = db
      BY <2>1, <2>3, <2>6, SeenIsRunning
    <3> QED BY <2>7, <3>1, <3>2
  <2>9. db'[r.key].status \in InProgress => state'.status \in InProgress
    <3>1. CASE db' = db /\ state' = state
      BY <2>5, <3>1
    <3>2. CASE db' = [db EXCEPT ![r.key] = NoItem]
      BY <2>1, <3>2 DEF NoItem
    <3>3. CASE db' = [db EXCEPT ![r.key] = state']
      BY <2>1, <3>3
    <3> QED BY <3>1, <3>2, <3>3, UpdateParts
  <2>10. cached' => \A k \in Keys : Unhandled(k)' /\ cache'[k].status = "IN_PROGRESS" =>
            db'[k].status \in InProgress
    <3> SUFFICES ASSUME cached', NEW k \in Keys, Unhandled(k)', cache'[k].status = "IN_PROGRESS"
                 PROVE  db'[k].status \in InProgress
      OBVIOUS
    <3>1. SeenJobs[k].status = "IN_PROGRESS" /\ Unhandled(k)
      BY <2>2, <2>3
    <3>2. db[k].status \in InProgress
      BY <2>1, <3>1 DEF SeenJobs
    <3>3. k = r.key => db' = db
      BY <2>1, <2>6, <3>1
    <3> QED BY <2>7, <3>2, <3>3
  <2> QED BY <2>1, <2>8, <2>9, <2>10
<1>4. ASSUME NEW d \in links, RequestLinked(d) PROVE TrackInv'
  <2>1. d \in Keys /\ db \in [Keys -> ItemType] /\ pc = "link" /\ UNCHANGED <<jobs, pc, plan, r, state, cached, cache>>
    BY <1>0, <1>4 DEF TypeOK, RequestLinked, worldVars
  <2>2. \A k \in Keys : db'[k].status \in InProgress <=> db[k].status \in InProgress
    <3>1. db' = db \/ (db[d].status \notin InProgress
                        /\ db' = [db EXCEPT ![d] = [ReadState(d) EXCEPT !.status = "RECONCILIATION_REQUESTED"]])
      BY <1>4 DEF RequestLinked, ReadState, Exists
    <3>2. [ReadState(d) EXCEPT !.status = "RECONCILIATION_REQUESTED"].status = "RECONCILIATION_REQUESTED"
      BY <2>1 DEF ReadState, EmptyState, ItemType, Items
    <3> QED BY <2>1, <3>1, <3>2
  <2>3. r.key \in Keys
    BY <2>1 DEF TypeInv, Iteration, ReconciliationType
  <2> QED BY <2>1, <2>2, <2>3 DEF Unhandled, Unread
<1>5. CASE LinksDone \/ NothingToDo
  BY <1>5 DEF LinksDone, NothingToDo, worldVars, Unhandled, Unread
<1>6. CASE ReplaceJob
  <2>1. r.key \in Keys
    BY <1>6 DEF ReplaceJob, TypeInv, Iteration, ReconciliationType
  <2>2. db[r.key].status \notin InProgress
    BY <1>6, NotInProgress DEF ReplaceJob
  <2> QED BY <1>0, <1>6, <2>1, <2>2 DEF ReplaceJob, Unhandled, Unread, SeenJobs, NoJob, TypeOK
<1>7. CASE SkipReplace
  <2>1. db[r.key].status \notin InProgress
    BY <1>7, NotInProgress DEF SkipReplace
  <2> QED BY <1>7, <2>1 DEF SkipReplace, worldVars, Unhandled, Unread, SeenJobs
<1>8. CASE CreateJob
  BY <1>0, <1>8 DEF CreateJob, Unhandled, Unread, TypeOK
<1>9. CASE MarkInProgress
  <2>1. r \in ReconciliationType /\ r.key \in Keys /\ db \in [Keys -> ItemType] /\ pc = "mark"
        /\ \A rec \in plan : rec.key # r.key
    BY <1>0, <1>9 DEF MarkInProgress, TypeInv, TypeOK, Iteration, ReconciliationType, PlanInv
  <2>2. /\ db'[r.key].status \in InProgress
        /\ \A k \in Keys : k # r.key => db'[k] = db[k]
    BY <1>9, <2>1 DEF MarkInProgress
  <2> QED BY <1>9, <2>1, <2>2 DEF MarkInProgress, worldVars, Unhandled, Unread
<1>10. CASE RunOver /\ pc # "mark" /\ UNCHANGED <<worldVars, db>>
  BY <1>10 DEF RunOver, worldVars
<1>11. ASSUME NEW k \in Keys, JobSucceeds(k) \/ JobFails(k) \/ JobExpires(k) PROVE TrackInv'
  <2>1. /\ UNCHANGED <<db, pc, r, state, plan, cached, cache>>
        /\ \/ jobs' = [jobs EXCEPT ![k].status = "SUCCESS"]
           \/ jobs' = [jobs EXCEPT ![k].status = "ERROR"]
           \/ jobs' = [jobs EXCEPT ![k] = NoJob]
    BY <1>11 DEF JobSucceeds, JobFails, JobExpires, runAndTable, runVars
  <2>2. \A j \in Keys : jobs'[j].status = "IN_PROGRESS" => jobs[j].status = "IN_PROGRESS"
    <3>1. jobs \in [Keys -> JobType]
      BY <1>0 DEF TypeOK
    <3> QED BY <2>1, <3>1 DEF JobType, NoJob
  <2> QED BY <2>1, <2>2 DEF Unhandled, Unread, ReadState, Exists
<1>12. ASSUME NEW k \in Keys, DriftIntervalPasses(k) PROVE TrackInv'
  <2>1. /\ UNCHANGED <<jobs, pc, r, state, plan, cached, cache>>
        /\ \A j \in Keys : db'[j].status = db[j].status /\ db'[j].hash = db[j].hash
    BY <1>0, <1>12 DEF DriftIntervalPasses, worldVars, runVars, TypeOK, ItemType, Items
  <2>2. pc \in Iteration => r.key \in Keys
    BY DEF TypeInv, ReconciliationType
  <2> QED BY <2>1, <2>2 DEF Unhandled, Unread, ReadState, Exists, Iteration
<1>13. ASSUME NEW m, ValidateMergeRequest(m) \/ Merge(m) PROVE TrackInv'
  BY <1>13 DEF ValidateMergeRequest, Merge, runAndTable, runVars, Unhandled, Unread, ReadState, Exists
<1>14. CASE UNCHANGED vars
  BY <1>14 DEF vars, worldVars, runVars, Unhandled, Unread, ReadState, Exists
<1> QED BY <1>0, <1>1, <1>2, <1>3, <1>4, <1>5, <1>6, <1>7, <1>8, <1>9, <1>10, <1>11, <1>12,
           <1>13, <1>14, QuietCases

LEMMA Tracked == Undisturbed /\ Init /\ [][Next]_vars => [](IInv /\ QuietInv /\ TrackInv)
<1>1. Undisturbed /\ Init => QuietInv /\ TrackInv
  <2> SUFFICES ASSUME Init PROVE QuietInv /\ TrackInv
    OBVIOUS
  <2>1. QuietInv
    BY DEF Init, NothingRunning, QuietInv, EmptyState, NoItem
  <2>2. TrackInv
    BY DEF Init, NothingRunning, TrackInv, Running, NoJob
  <2> QED BY <2>1, <2>2
<1>2. Undisturbed /\ IInv /\ QuietInv /\ TrackInv /\ [Next]_vars => QuietInv' /\ TrackInv'
  BY QuietStep, TrackStep DEF IInv
<1>3. CASE Undisturbed
  BY <1>1, <1>2, <1>3, Inductive, PTL
<1>4. CASE ~Undisturbed
  BY <1>4
<1> QED BY <1>3, <1>4

\* While nothing disturbs the table, a job that runs is on record as in
\* progress, or about to be: no run takes it for a job of the past.
THEOREM JobsAreTracked == Undisturbed /\ Spec => []RunningJobIsTracked
<1>1. TrackInv => RunningJobIsTracked
  BY DEF TrackInv, RunningJobIsTracked
<1> QED BY <1>1, Tracked, PTL DEF Spec
-----------------------------------------------------------------------------
(* What the table says of the cloud.  The success of a job counts for the   *)
(* action that is wanted when it is read: the theorem is about keys that    *)
(* stay declared, for which that is the action of the job.                  *)

\* No key is ever marked to delete.
KeptDeclared ==
    /\ \A s \in Specs : s.mode # "delete"
    /\ \A k \in Keys : InitialConfig[k].mode # "delete"

\* Every reconciliation is an apply.
NoDeletes ==
    /\ \A k \in Keys : config[k].mode # "delete" /\ inv[k].mode # "delete"
    /\ \A m \in mr : m.spec.mode # "delete"
    /\ \A rec \in plan : rec.action = "APPLY"
    /\ r.action = "APPLY"
    /\ \A k \in Keys : db[k].status # "DELETE_IN_PROGRESS"
    /\ state.status # "DELETE_IN_PROGRESS"

\* The job of the key applies the inputs, and has done so when it succeeded.
Applying(k, h) ==
    /\ jobs[k].status # "NOT_EXISTS" /\ jobs[k].action = "APPLY" /\ jobs[k].hash = h
    /\ jobs[k].status = "SUCCESS" => infra[k] = h

\* What is on record as in progress is the job of the key, and the end of that
\* job in an old cache is the end it has come to.
ApplyInv ==
    /\ \A k \in Keys : db[k].status = "IN_PROGRESS" => Applying(k, db[k].hash)
    /\ pc = "mark" => Applying(r.key, r.hash)
    /\ \A k \in Keys : db[k].status = "CREATED" /\ ~(pc = "mark" /\ r.key = k)
                          => infra[k] = db[k].hash
    /\ cached => \A k \in Keys :
          Unhandled(k) /\ db[k].status \in InProgress /\ cache[k].status \in Finished
              => jobs[k].status = cache[k].status

LEMMA DeclaredStep ==
    ASSUME Undisturbed, KeptDeclared, TypeInv, QuietInv, NoDeletes, [Next]_vars
    PROVE  NoDeletes'
<1> USE DEF NoDeletes
<1>0. TypeOK
  BY DEF TypeInv
<1>1. CASE StartRun
  BY <1>1 DEF StartRun, worldVars
<1>2. CASE Plan
  <2>1. \A rec \in DesiredReconciliations(inv) \cup DeletedReconciliations(inv) : rec.action = "APPLY"
    BY DEF DesiredReconciliations, ApplyOf, DeletedReconciliations
  <2> QED BY <1>2, <2>1 DEF Plan, worldVars
<1>3. ASSUME NEW rec \in plan, GetState(rec) PROVE NoDeletes'
  <2>1. rec.key \in Keys
    BY <1>0 DEF TypeOK, ReconciliationType
  <2>2. ReadState(rec.key).status # "DELETE_IN_PROGRESS"
    BY <2>1 DEF ReadState, EmptyState
  <2> QED BY <1>3, <2>2 DEF GetState, worldVars
<1>4. CASE UpdateState
  <2>1. UNCHANGED <<config, inv, mr, plan, r>> /\ r.key \in Keys /\ db \in [Keys -> ItemType]
    BY <1>0, <1>4, UpdateParts DEF UpdateState, worldVars, TypeOK
  <2>2. CASE db' = db /\ state' = state
    BY <2>1, <2>2
  <2>3. CASE db' = [db EXCEPT ![r.key] = NoItem] /\ state' = state
    BY <2>1, <2>3 DEF NoItem
  <2>4. CASE db' = [db EXCEPT ![r.key] = state'] /\ state'.status = NewStatus /\ NewStatus \notin InProgress
    BY <2>1, <2>4
  <2> QED BY <1>4, <2>2, <2>3, <2>4, UpdateParts
<1>5. ASSUME NEW d \in links, RequestLinked(d) PROVE NoDeletes'
  <2>1. d \in Keys /\ db \in [Keys -> ItemType]
    BY <1>0 DEF TypeOK
  <2>2. [ReadState(d) EXCEPT !.status = "RECONCILIATION_REQUESTED"].status = "RECONCILIATION_REQUESTED"
    BY <2>1 DEF ReadState, EmptyState, ItemType, Items
  <2> QED BY <1>5, <2>1, <2>2 DEF RequestLinked, worldVars
<1>6. CASE LinksDone \/ SkipReplace \/ ReplaceJob \/ CreateJob
  BY <1>6 DEF LinksDone, SkipReplace, ReplaceJob, CreateJob, worldVars
<1>7. CASE NothingToDo
  BY <1>7 DEF NothingToDo, worldVars, NoReconciliation, EmptyState
<1>8. CASE MarkInProgress
  BY <1>0, <1>8 DEF MarkInProgress, worldVars, NoReconciliation, EmptyState, TypeOK
<1>9. CASE RunOver /\ UNCHANGED <<worldVars, db>>
  BY <1>9 DEF RunOver, worldVars, NoReconciliation, EmptyState, KeptDeclared
<1>10. ASSUME NEW k \in Keys, JobSucceeds(k) \/ JobFails(k) \/ JobExpires(k) PROVE NoDeletes'
  BY <1>10 DEF JobSucceeds, JobFails, JobExpires, runAndTable, runVars
<1>11. ASSUME NEW k \in Keys, DriftIntervalPasses(k) PROVE NoDeletes'
  BY <1>0, <1>11 DEF DriftIntervalPasses, worldVars, runVars, TypeOK
<1>12. ASSUME NEW m \in MergeRequests, ValidateMergeRequest(m) PROVE NoDeletes'
  BY <1>12 DEF ValidateMergeRequest, runAndTable, runVars, MergeRequests, KeptDeclared
<1>13. ASSUME NEW m \in mr, Merge(m) PROVE NoDeletes'
  BY <1>0, <1>13 DEF Merge, runAndTable, runVars, TypeOK
<1>14. CASE UNCHANGED vars
  BY <1>14 DEF vars, worldVars, runVars
<1> QED BY <1>0, <1>1, <1>2, <1>3, <1>4, <1>5, <1>6, <1>7, <1>8, <1>9, <1>10, <1>11, <1>12,
           <1>13, <1>14, QuietCases

LEMMA ApplyStep ==
    ASSUME Undisturbed, TypeInv, PlanInv, CacheInv, QuietInv, TrackInv, NoDeletes, ApplyInv,
           [Next]_vars
    PROVE  ApplyInv'
<1> USE DEF ApplyInv
<1>0. /\ TypeOK /\ db \in [Keys -> ItemType] /\ jobs \in [Keys -> JobType]
      /\ infra \in [Keys -> Hashes \cup {NoHash}]
      /\ pc \in Iteration => r \in ReconciliationType /\ r.key \in Keys
  BY DEF TypeInv, TypeOK, ReconciliationType
<1>1. CASE StartRun \/ Plan
  BY <1>1 DEF StartRun, Plan, worldVars, CacheInv, Applying
<1>2. ASSUME NEW rec \in plan, GetState(rec) PROVE ApplyInv'
  BY <1>2 DEF GetState, worldVars, Unhandled, Unread, Applying
<1>3. CASE UpdateState
  <2> USE <1>3
  <2>1. /\ r.key \in Keys /\ pc = "status" /\ pc' \in {"decide", "link"}
        /\ UNCHANGED <<jobs, infra, r, plan>> /\ r.action = "APPLY"
        /\ SeenStatus = SeenJobs[r.key].status /\ SeenStatus \in JobStatuses
    BY UpdateParts DEF NoDeletes
  <2>2. cached' = (cached \/ state.status \in InProgress) /\ (cached' => cache' = SeenJobs)
    BY DEF UpdateState
  <2>3. Unhandled(r.key) /\ \A k \in Keys : Unhandled(k)' => Unhandled(k)
    BY <2>1 DEF Unhandled, Unread
  <2>4. NewStatus = "CREATED" => state.status = "CREATED" \/ SeenStatus = "SUCCESS"
    BY <2>1 DEF NewStatus, ReconciliationStatus
  <2>5. SeenStatus = "SUCCESS" /\ db[r.key].status = "IN_PROGRESS" => infra[r.key] = db[r.key].hash
    <3>1. SeenStatus = "SUCCESS" /\ db[r.key].status = "IN_PROGRESS" => jobs[r.key].status = "SUCCESS"
      BY <2>1, <2>3 DEF SeenJobs
    <3> QED BY <2>1, <3>1 DEF Applying
  <2>6. \A k \in Keys : db'[k].status \in InProgress => db'[k] = db[k]
    <3>1. CASE db' = db
      BY <3>1
    <3>2. CASE db' = [db EXCEPT ![r.key] = NoItem]
      BY <1>0, <2>1, <3>2 DEF NoItem
    <3>3. CASE db' = [db EXCEPT ![r.key] = state'] /\ state'.status = NewStatus
               /\ NewStatus \notin InProgress
      BY <1>0, <2>1, <3>3
    <3> QED BY <3>1, <3>2, <3>3, UpdateParts
  <2>7. ASSUME NEW k \in Keys, db'[k].status = "CREATED" PROVE infra[k] = db'[k].hash
    <3>1. CASE db'[k] = db[k]
      BY <2>1, <2>7, <3>1
    <3>2. CASE db'[k] # db[k]
      <4>1. k = r.key /\ db' # db
        BY <1>0, <2>1, <3>2, UpdateParts
      <4>2. db' # [db EXCEPT ![r.key] = NoItem]
        BY <1>0, <2>7, <4>1 DEF NoItem
      <4>3. /\ db' = [db EXCEPT ![r.key] = state'] /\ state'.status = NewStatus
            /\ state'.hash = state.hash
            /\ state.status \in InProgress \/ (state.status = "NOT_EXISTS" /\ NewStatus = "NOT_EXISTS")
        BY <4>1, <4>2, UpdateParts
      <4>4. db'[k].status = NewStatus /\ db'[k].hash = state.hash
        BY <1>0, <4>1, <4>3
      <4>5. state.status = "IN_PROGRESS"
        BY <2>7, <4>3, <4>4 DEF NoDeletes
      <4>6. db[r.key].status = "IN_PROGRESS" /\ db[r.key].hash = state.hash
        BY <2>1, <4>5 DEF TrackInv, ReadState, Exists, EmptyState
      <4> QED BY <2>4, <2>5, <2>7, <4>1, <4>4, <4>5, <4>6
    <3> QED BY <3>1, <3>2
  <2>8. cached' => \A k \in Keys :
          Unhandled(k)' /\ db'[k].status \in InProgress /\ cache'[k].status \in Finished
              => jobs[k].status = cache'[k].status
    BY <2>2, <2>3, <2>6 DEF SeenJobs
  <2> QED BY <2>1, <2>6, <2>7, <2>8 DEF Applying
<1>4. ASSUME NEW d \in links, RequestLinked(d) PROVE ApplyInv'
  <2>1. d \in Keys /\ pc = "link" /\ UNCHANGED <<jobs, infra, pc, plan, r, cached, cache>>
    BY <1>0, <1>4 DEF TypeOK, RequestLinked, worldVars
  <2>2. [ReadState(d) EXCEPT !.status = "RECONCILIATION_REQUESTED"].status = "RECONCILIATION_REQUESTED"
    BY <1>0, <2>1 DEF ReadState, EmptyState, ItemType, Items
  <2>3. \A k \in Keys : db'[k] = db[k] \/ db'[k].status = "RECONCILIATION_REQUESTED"
    BY <1>0, <1>4, <2>1, <2>2 DEF RequestLinked
  <2> QED BY <2>1, <2>3 DEF Unhandled, Unread, Applying
<1>5. CASE LinksDone \/ NothingToDo
  BY <1>5 DEF LinksDone, NothingToDo, worldVars, Unhandled, Unread, Applying
<1>6. CASE ReplaceJob
  <2>1. db[r.key].status \notin InProgress /\ r.key \in Keys /\ pc' = "create"
    BY <1>0, <1>6, NotInProgress DEF ReplaceJob, Iteration
  <2>2. \A k \in Keys : k # r.key => jobs'[k] = jobs[k]
    BY <1>0, <1>6, <2>1 DEF ReplaceJob
  <2>3. UNCHANGED <<db, infra, r, plan>> /\ cache' = SeenJobs
    BY <1>6 DEF ReplaceJob
  <2>4. \A k \in Keys : Unhandled(k)' => k # r.key /\ Unhandled(k)
    BY <1>6, <2>1, <2>3 DEF ReplaceJob, Unhandled, Unread, PlanInv, Iteration
  <2>5. \A k \in Keys : Unhandled(k)' /\ db'[k].status \in InProgress /\ cache'[k].status \in Finished
              => jobs'[k].status = cache'[k].status
    BY <2>2, <2>3, <2>4 DEF SeenJobs
  <2>6. pc = "decide"
    BY <1>6 DEF ReplaceJob
  <2> QED BY <2>1, <2>2, <2>3, <2>5, <2>6 DEF Applying
<1>7. CASE SkipReplace
  <2>1. db[r.key].status \notin InProgress /\ r.key \in Keys /\ pc = "decide" /\ Unhandled(r.key)
    BY <1>0, <1>7, NotInProgress DEF SkipReplace, Iteration, Unhandled
  <2>2. SeenStatus \in JobStatuses /\ SeenStatus = SeenJobs[r.key].status
    BY <1>0, <2>1 DEF SeenStatus, SeenJobs, TypeOK, JobType
  <2>3. SeenStatus # "IN_PROGRESS"
    BY <2>1, <2>2 DEF SeenJobs, TrackInv, Running, Awaited
  <2>4. pc' = "create"
    BY <1>7, <2>2, <2>3 DEF SkipReplace, CreatesJob, CancelsExisting, ReplaceFlag, ReconcilePolicy
  <2>5. UNCHANGED <<db, jobs, infra, r, plan>> /\ cache' = SeenJobs
    BY <1>7 DEF SkipReplace, worldVars
  <2>6. \A k \in Keys : Unhandled(k)' => Unhandled(k)
    BY <2>1, <2>4, <2>5 DEF Unhandled, Unread
  <2> QED BY <2>1, <2>4, <2>5, <2>6 DEF SeenJobs, Applying
<1>8. CASE CreateJob
  <2>1. /\ pc = "create" /\ pc' = "mark" /\ UNCHANGED <<db, infra, r, plan, cached, cache>>
        /\ r.key \in Keys /\ r.action = "APPLY"
        /\ jobs' = [jobs EXCEPT ![r.key] =
                       [status |-> "IN_PROGRESS", hash |-> r.hash, action |-> r.action]]
    BY <1>0, <1>8 DEF CreateJob, Iteration, NoDeletes
  <2>2. db[r.key].status \notin InProgress
    BY <2>1 DEF TrackInv
  <2>3. \A k \in Keys : Unhandled(k)' => Unhandled(k) /\ k # r.key
    BY <2>1 DEF Unhandled, Unread, PlanInv, Iteration
  <2>4. \A k \in Keys : k # r.key => jobs'[k] = jobs[k]
    BY <1>0, <2>1
  <2>5. Applying(r.key, r.hash)'
    BY <1>0, <2>1 DEF Applying
  <2> QED BY <2>1, <2>2, <2>3, <2>4, <2>5 DEF Applying
<1>9. CASE MarkInProgress
  <2>1. /\ pc = "mark" /\ pc' = "loop" /\ UNCHANGED <<jobs, infra, plan, cached, cache>>
        /\ r.key \in Keys /\ r.action = "APPLY"
    BY <1>0, <1>9 DEF MarkInProgress, Iteration, NoDeletes, worldVars
  <2>2. /\ db'[r.key].status = "IN_PROGRESS" /\ db'[r.key].hash = r.hash
        /\ \A k \in Keys : k # r.key => db'[k] = db[k]
    BY <1>0, <1>9, <2>1 DEF MarkInProgress
  <2>3. \A k \in Keys : Unhandled(k)' => Unhandled(k) /\ k # r.key
    BY <2>1 DEF Unhandled, Unread, PlanInv, Iteration
  <2> QED BY <2>1, <2>2, <2>3 DEF Applying
<1>10. CASE RunOver /\ pc # "mark" /\ UNCHANGED <<worldVars, db>>
  BY <1>10 DEF RunOver, worldVars, Applying
<1>11. ASSUME NEW k \in Keys, JobSucceeds(k) \/ JobFails(k) PROVE ApplyInv'
  <2>1. /\ Running(k) /\ UNCHANGED <<db, pc, r, plan, cached, cache>>
        /\ \/ /\ jobs' = [jobs EXCEPT ![k].status = "SUCCESS"]
              /\ infra' = [infra EXCEPT ![k] = IF jobs[k].action = "APPLY" THEN jobs[k].hash ELSE NoHash]
           \/ /\ jobs' = [jobs EXCEPT ![k].status = "ERROR"]
              /\ infra' \in {infra, [infra EXCEPT ![k] = IF jobs[k].action = "APPLY" THEN jobs[k].hash
                                                         ELSE NoHash]}
    BY <1>11 DEF JobSucceeds, JobFails, runAndTable, runVars, Running
  <2>2. /\ \A j \in Keys : j # k => jobs'[j] = jobs[j] /\ infra'[j] = infra[j]
        /\ jobs'[k].status # "NOT_EXISTS" /\ jobs'[k].action = jobs[k].action
        /\ jobs'[k].hash = jobs[k].hash
        /\ jobs'[k].status = "SUCCESS" /\ jobs[k].action = "APPLY" => infra'[k] = jobs[k].hash
    BY <1>0, <2>1 DEF JobType
  <2>3. \A j \in Keys : \A h : Applying(j, h) => Applying(j, h)'
    BY <2>2 DEF Applying
  <2>4. Awaited(k)
    BY <2>1 DEF TrackInv
  <2>5. \A j \in Keys : db[j].status = "CREATED" /\ ~(pc = "mark" /\ r.key = j) => j # k
    BY <2>4 DEF Awaited
  <2>6. cached => \A j \in Keys : Unhandled(j) /\ cache[j].status \in Finished => j # k
    BY <2>1 DEF CacheInv, Running
  <2>7. \A j \in Keys : Unhandled(j)' => Unhandled(j)
    BY <2>1 DEF Unhandled, Unread
  <2>8. pc = "mark" => r.key \in Keys
    BY <1>0 DEF Iteration
  <2> QED BY <2>1, <2>2, <2>3, <2>5, <2>6, <2>7, <2>8
<1>12. ASSUME NEW k \in Keys, JobExpires(k), ~Awaited(k) PROVE ApplyInv'
  <2>1. /\ UNCHANGED <<db, infra, pc, r, plan, cached, cache>>
        /\ jobs' = [jobs EXCEPT ![k] = NoJob]
    BY <1>12 DEF JobExpires, runAndTable, runVars
  <2>2. \A j \in Keys : j # k => jobs'[j] = jobs[j]
    BY <1>0, <2>1
  <2>3. db[k].status \notin InProgress /\ ~(pc = "mark" /\ r.key = k)
    BY <1>12 DEF Awaited
  <2>4. pc = "mark" => r.key \in Keys
    BY <1>0 DEF Iteration
  <2> QED BY <2>1, <2>2, <2>3, <2>4 DEF Applying, Unhandled, Unread
<1>13. ASSUME NEW k \in Keys, DriftIntervalPasses(k) PROVE ApplyInv'
  <2>1. /\ UNCHANGED <<jobs, infra, pc, r, plan, cached, cache>>
        /\ \A j \in Keys : db'[j].status = db[j].status /\ db'[j].hash = db[j].hash
    BY <1>0, <1>13 DEF DriftIntervalPasses, worldVars, runVars, ItemType, Items
  <2> QED BY <2>1 DEF Unhandled, Unread, Applying
<1>14. ASSUME NEW m, ValidateMergeRequest(m) \/ Merge(m) PROVE ApplyInv'
  BY <1>14 DEF ValidateMergeRequest, Merge, runAndTable, runVars, Unhandled, Unread, Applying
<1>15. CASE UNCHANGED vars
  BY <1>15 DEF vars, worldVars, runVars, Unhandled, Unread, Applying
<1> QED BY <1>0, <1>1, <1>2, <1>3, <1>4, <1>5, <1>6, <1>7, <1>8, <1>9, <1>10, <1>11, <1>12,
           <1>13, <1>14, <1>15, QuietCases

\* While nothing disturbs the table and no key is deleted, what is on record as
\* created is in the cloud with the inputs on record.
THEOREM CreatedIsApplied == Undisturbed /\ KeptDeclared /\ Spec => []CreatedMeansApplied
<1>1. CASE Undisturbed /\ KeptDeclared
  <2>1. Init => NoDeletes /\ ApplyInv
    <3> SUFFICES ASSUME Init PROVE NoDeletes /\ ApplyInv
      OBVIOUS
    <3>1. NoDeletes
      BY <1>1 DEF Init, NothingRunning, NoDeletes, KeptDeclared, NoReconciliation, EmptyState, NoItem
    <3>2. ApplyInv
      BY DEF Init, NothingRunning, ApplyInv, NoItem
    <3> QED BY <3>1, <3>2
  <2>2. IInv /\ QuietInv /\ TrackInv /\ NoDeletes /\ ApplyInv /\ [Next]_vars => NoDeletes' /\ ApplyInv'
    BY <1>1, DeclaredStep, ApplyStep DEF IInv
  <2>3. QuietInv /\ ApplyInv => CreatedMeansApplied
    BY DEF QuietInv, ApplyInv, CreatedMeansApplied
  <2> QED BY <1>1, <2>1, <2>2, <2>3, Tracked, PTL DEF Spec
<1>2. CASE ~(Undisturbed /\ KeptDeclared)
  BY <1>2
<1> QED BY <1>1, <1>2
=============================================================================
