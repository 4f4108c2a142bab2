------------------------- MODULE ExternalResources -------------------------
(***************************************************************************)
(* reconcile/external_resources: the manager that drives the external       *)
(* resources (ERv2) declared in app-interface, its DynamoDB state table,    *)
(* the Kubernetes jobs that provision the resources, the synchronisation of *)
(* their outputs secrets, and the `external-resources reconcile` command    *)
(* line that writes to the same table.                                      *)
(*                                                                         *)
(* One run of the integration is a sequence of steps (pc); between any two  *)
(* of them jobs finish or are garbage collected, merge requests change the  *)
(* desired state, the command line writes to the table, time passes, and    *)
(* the run itself may die.                                                  *)
(***************************************************************************)
EXTENDS Naturals, FiniteSets, JobPolicy

CONSTANTS
    Keys,          \* ExternalResourceKey
    NoKey,         \* not a key
    Hashes,        \* Reconciliation.resource_hash of a built resource
    NoHash,        \* resource_hash of Reconciliation(key=key): ""
    Images,        \* module image:version, NoHash for the default ""
    Dependants,    \* [Keys -> SUBSET Keys]: replicas, MSK connectors, ...
    SecretSynced,  \* keys of modules with outputs_secret_sync
    Specs,         \* the values a merge request may give to a key
    InitialConfig, \* the desired state the history starts from
    MaxMerges,     \* bound on merge requests
    MaxFaults,     \* bound on runs that die and on job results lost
    MaxCli         \* bound on `external-resources reconcile` calls

\* What app-interface says of a key.  "gone": the key is not in the inventory;
\* "delete": marked_to_delete; "invalid": the factory rejects the resource.
SpecType == [mode : {"gone", "apply", "delete", "invalid"},
             hash : Hashes, image : Images, overridden : BOOLEAN]

ASSUME ConstantsAssumption ==
    /\ IsFiniteSet(Keys)
    /\ NoKey \notin Keys
    /\ NoHash \notin Hashes
    /\ NoHash \notin Images
    /\ Dependants \in [Keys -> SUBSET Keys]
    /\ \A k \in Keys : k \notin Dependants[k]
    /\ SecretSynced \subseteq Keys
    /\ Specs \subseteq SpecType
    /\ InitialConfig \in [Keys -> SpecType]
    /\ MaxMerges \in Nat /\ MaxFaults \in Nat /\ MaxCli \in Nat

Actions == {"APPLY", "DESTROY"}

\* ResourceStatus, without the two values the code never stores (ABANDONED,
\* and DELETED, which removes the item).
StoredStatuses == {"CREATED", "NOT_EXISTS", "IN_PROGRESS", "DELETE_IN_PROGRESS",
                   "ERROR", "PENDING_SECRET_SYNC", "RECONCILIATION_REQUESTED"}
InProgress == {"IN_PROGRESS", "DELETE_IN_PROGRESS"}

\* A table slot: an item, no item ("ABSENT"), or the stub that update_item
\* leaves when it upserts a missing key ("STUB"): it has a status and no
\* reconciliation, and every reader of it dies with a KeyError.
Items(statuses) == [status : statuses,
                    hash : Hashes \cup {NoHash}, image : Images \cup {NoHash},
                    action : Actions, expired : BOOLEAN]
ItemType  == Items(StoredStatuses \cup {"ABSENT", "STUB"})
StateType == Items(StoredStatuses)

\* get_external_resource_state of a key that has no item.
EmptyState == [status |-> "NOT_EXISTS", hash |-> NoHash, image |-> NoHash,
               action |-> "APPLY", expired |-> FALSE]
NoItem == [status |-> "ABSENT", hash |-> NoHash, image |-> NoHash,
           action |-> "APPLY", expired |-> FALSE]

JobType == [status : JobStatuses, hash : Hashes \cup {NoHash}, action : Actions]
NoJob   == [status |-> "NOT_EXISTS", hash |-> NoHash, action |-> "APPLY"]

\* Reconciliation.  linked_resources is not stored in the table.
ReconciliationType ==
    [key : Keys, hash : Hashes \cup {NoHash}, image : Images \cup {NoHash},
     action : Actions, overridden : BOOLEAN, linked : SUBSET Keys]

NoReconciliation == [key |-> NoKey, hash |-> NoHash, image |-> NoHash,
                     action |-> "APPLY", overridden |-> FALSE, linked |-> {}]

MergeRequests == [key : Keys, spec : Specs]

VARIABLES
    config,    \* app-interface as merged: [Keys -> SpecType]
    mr,        \* merge requests that passed their dry run and are not merged
    db,        \* the DynamoDB table
    jobs,      \* the jobs of the workers namespace, by key
    infra,     \* hash of the resource as it exists in the cloud, NoHash if none
    outputs,   \* the outputs secret a job left in the workers namespace
    vault,     \* the outputs secret in Vault
    target,    \* the outputs secret in the namespace of the resource
    newer,     \* keys of which target has a later time stamp than Vault
    cli,       \* key the command line has read and will write
    merges, faults, cliRuns

VARIABLES
    pc,        \* next step of the run
    inv,       \* er_inventory of the run
    pending,   \* partial_resources with PENDING_SECRET_SYNC
    plan,      \* reconciliations the loop has not reached
    r,         \* reconciliation of the current iteration
    state,     \* state, the copy the iteration reads and writes
    links,     \* linked resources still to be requested
    cached,    \* controller._cache is not None
    cache,     \* controller._cache
    toSync,    \* to_sync_keys
    secrets,   \* outputs read by _populate_secret_data
    publish,   \* specs with a secret not yet written to Vault
    drop,      \* spec written to Vault whose source secret is still to be deleted
    failed     \* sync_error_spec_keys

outputVars == <<outputs, vault, target, newer>>
worldVars == <<config, mr, jobs, infra, outputVars, cli, merges, faults, cliRuns>>
secretVars == <<secrets, publish, drop, failed>>
runVars == <<pc, inv, pending, plan, r, state, links,
             cached, cache, toSync, secretVars>>
vars == <<worldVars, db, runVars>>
-----------------------------------------------------------------------------
(* Operators of the manager, the state and the controller.                  *)

Exists(k) == db[k].status # "ABSENT"

\* get_external_resource_state.
ReadState(k) == IF Exists(k) THEN db[k] ELSE EmptyState

\* find_linked_resources: the dependants that are in the inventory and not
\* marked to delete.
LinkedResources(inventory, k) ==
    {d \in Dependants[k] : inventory[d].mode \in {"apply", "invalid"}}

\* _get_desired_objects_reconciliations: a resource that does not validate is
\* recorded in errors and left out of the run.
ApplyOf(inventory, k) ==
    [key |-> k, hash |-> inventory[k].hash, image |-> inventory[k].image,
     action |-> "APPLY", overridden |-> inventory[k].overridden,
     linked |-> LinkedResources(inventory, k)]
DesiredReconciliations(inventory) ==
    {ApplyOf(inventory, k) : k \in {j \in Keys : inventory[j].mode = "apply"}}

\* _get_deleted_objects_reconciliations: what is destroyed is what the table
\* says was last reconciled.
DestroyOf(k) ==
    [key |-> k, hash |-> db[k].hash, image |-> db[k].image,
     action |-> "DESTROY", overridden |-> FALSE, linked |-> {}]
DeletedReconciliations(inventory) ==
    {DestroyOf(k) : k \in {j \in Keys : /\ inventory[j].mode = "delete"
                                       /\ ReadState(j).status # "NOT_EXISTS"}}

\* Mutant: the outputs of an applied resource are never synchronised.
StatusAfterSuccessUnsynced(rec) == IF rec.action = "DESTROY" THEN "DELETED" ELSE "CREATED"

StatusAfterSuccess(rec) ==
    IF rec.action = "DESTROY" THEN "DELETED"
    ELSE IF rec.key \in SecretSynced THEN "PENDING_SECRET_SYNC" ELSE "CREATED"

\* Mutant: a job that vanished abandons the resource.
ReconciliationStatusAbandons(rec, st, jobStatus) ==
    IF st.status \notin InProgress \/ jobStatus = "IN_PROGRESS" THEN st.status
    ELSE IF jobStatus = "NOT_EXISTS" THEN "ABANDONED"
    ELSE IF jobStatus = "ERROR" THEN "ERROR" ELSE StatusAfterSuccess(rec)

\* Mutant: a job that ended has succeeded.
ReconciliationStatusAnyEnd(rec, st, jobStatus) ==
    IF st.status \notin InProgress \/ jobStatus = "IN_PROGRESS" THEN st.status
    ELSE IF jobStatus = "NOT_EXISTS" THEN "ERROR" ELSE StatusAfterSuccess(rec)

\* _get_reconciliation_status: the resource status the iteration goes on with,
\* from the stored status and the status of the job in the controller's cache.
\* What a success means is decided by the action wanted now, not by the action
\* the job was created for; a job that vanished counts as failed.
ReconciliationStatus(rec, st, jobStatus) ==
    IF st.status \notin InProgress \/ jobStatus = "IN_PROGRESS" THEN st.status
    ELSE IF jobStatus \in {"ERROR", "NOT_EXISTS"} THEN "ERROR" ELSE StatusAfterSuccess(rec)

\* reconciliation_needs_state_update.
NeedsStateUpdate(st, status) ==
    st.status \in InProgress \cup {"NOT_EXISTS"} /\ status \notin InProgress

\* _get_reconcile_action # NOOP, i.e. _resource_needs_reconciliation: an apply
\* starts whatever the inputs in these statuses ...
\* Mutant: a requested reconciliation is not one of them.
UnappliedStatusesUnrequested == {"NOT_EXISTS", "ERROR"}
UnappliedStatuses == {"RECONCILIATION_REQUESTED", "NOT_EXISTS", "ERROR"}

\* ... a destroy only in these ...
\* Mutant: a destroy that failed is not tried again.
DestroyableStatusesOnce == {"CREATED"}
DestroyableStatuses == {"CREATED", "ERROR"}

\* ... and what has been applied is applied again when its inputs change or its
\* drift interval has passed.
\* Mutant: the drift interval is not looked at.
OutdatedByInputs(rec, st) == rec.hash # st.hash \/ (rec.overridden /\ rec.image # st.image)
Outdated(rec, st) ==
    rec.hash # st.hash \/ st.expired \/ (rec.overridden /\ rec.image # st.image)

NeedsReconciliation(rec, st) ==
    \/ /\ rec.action = "APPLY"
       /\ \/ st.status \in UnappliedStatuses
          \/ st.status \in {"CREATED", "PENDING_SECRET_SYNC"} /\ Outdated(rec, st)
    \/ rec.action = "DESTROY" /\ st.status \in DestroyableStatuses

\* Mutant: a dry run's policy used by the real run.
ReconcilePolicyOfDryRun == PolicyFlags

\* reconcile_resource outside a dry run.
ReconcilePolicy == {"REPLACE_FAILED", "REPLACE_FINISHED"}

\* The jobs the controller sees: _cache is filled by its first use and then
\* kept for the rest of the run.
SeenJobs == IF cached THEN cache ELSE jobs
-----------------------------------------------------------------------------
(* The run: create_er_manager, then handle_resources.                       *)

NothingRunning ==
    /\ pc = "idle" /\ inv = InitialConfig /\ pending = {} /\ plan = {}
    /\ r = NoReconciliation /\ state = EmptyState /\ links = {}
    /\ cached = FALSE /\ cache = [k \in Keys |-> NoJob] /\ toSync = {}
    /\ secrets = [k \in Keys |-> NoHash] /\ publish = {} /\ drop = {} /\ failed = {}

Init ==
    /\ config = InitialConfig
    /\ mr = {}
    /\ db = [k \in Keys |-> NoItem]
    /\ jobs = [k \in Keys |-> NoJob]
    /\ infra = [k \in Keys |-> NoHash]
    /\ outputs = [k \in Keys |-> NoHash]
    /\ vault = [k \in Keys |-> NoHash]
    /\ target = [k \in Keys |-> NoHash]
    /\ newer = {}
    /\ cli = NoKey
    /\ merges = 0 /\ faults = 0 /\ cliRuns = 0
    /\ NothingRunning

\* The inventory and the partial resources are read once, when the manager is
\* built; the rest of the run works with these snapshots.
StartRun ==
    /\ pc = "idle"
    /\ \A k \in Keys : db[k].status # "STUB"
    /\ pc' = "plan"
    /\ inv' = config
    /\ pending' = {k \in Keys : db[k].status = "PENDING_SECRET_SYNC"}
    /\ UNCHANGED <<worldVars, db, plan, r, state, links, cached, cache, toSync, secretVars>>

Plan ==
    /\ pc = "plan"
    /\ \A k \in Keys : inv[k].mode = "delete" => db[k].status # "STUB"
    /\ pc' = "loop"
    /\ plan' = DesiredReconciliations(inv) \cup DeletedReconciliations(inv)
    /\ UNCHANGED <<worldVars, db, inv, pending, r, state, links, cached, cache, toSync, secretVars>>

\* The loop takes the reconciliations in the arbitrary order of a set and
\* reads the state of the next one.
GetState(rec) ==
    /\ pc = "loop"
    /\ db[rec.key].status # "STUB"
    /\ pc' = "status"
    /\ plan' = plan \ {rec}
    /\ r' = rec
    /\ state' = ReadState(rec.key)
    /\ UNCHANGED <<worldVars, db, inv, pending, links, cached, cache, toSync, secretVars>>

SeenStatus == SeenJobs[r.key].status
NewStatus  == ReconciliationStatus(r, state, SeenStatus)

\* to_sync_keys after the iteration has found the new status.
\* Mutant: every resource of a synchronised module is added.
KeysToSyncOfModule ==
    IF NewStatus \in {"PENDING_SECRET_SYNC", "DELETED"} THEN toSync \cup {r.key} ELSE toSync
KeysToSync == IF NewStatus = "PENDING_SECRET_SYNC" THEN toSync \cup {r.key} ELSE toSync

\* _get_reconciliation_status and the part of _update_resource_state that
\* writes the item; DELETED removes it and leaves the local state as it was.
\* The controller's cache is filled the first time a job has to be looked up.
UpdateState ==
    /\ pc = "status"
    /\ cached' = (cached \/ state.status \in InProgress)
    /\ cache' = IF cached' THEN SeenJobs ELSE cache
    /\ toSync' = KeysToSync
    /\ IF ~NeedsStateUpdate(state, NewStatus)
       THEN /\ pc' = "decide"
            /\ UNCHANGED <<db, state, links>>
       ELSE IF NewStatus = "DELETED"
       THEN /\ pc' = "decide"
            /\ db' = [db EXCEPT ![r.key] = NoItem]
            /\ UNCHANGED <<state, links>>
       ELSE /\ pc' = "link"
            /\ state' = [state EXCEPT !.status = NewStatus, !.expired = FALSE]
            /\ db' = [db EXCEPT ![r.key] = state']
            /\ links' = r.linked
    /\ UNCHANGED <<worldVars, inv, pending, plan, r, secretVars>>

\* Mutant: a linked resource that is in progress is requested as well.
RequestLinkedAnyway(d) ==
    /\ pc = "link"
    /\ db[d].status # "STUB"
    /\ links' = links \ {d}
    /\ db' = [db EXCEPT ![d] = [ReadState(d) EXCEPT !.status = "RECONCILIATION_REQUESTED"]]
    /\ UNCHANGED <<worldVars, pc, inv, pending, plan, r, state, cached, cache, toSync, secretVars>>

\* A linked resource that is in progress is skipped; one without an item gets
\* one.
RequestLinked(d) ==
    /\ pc = "link"
    /\ db[d].status # "STUB"
    /\ links' = links \ {d}
    /\ db' = IF ReadState(d).status \in InProgress THEN db
             ELSE [db EXCEPT ![d] = [ReadState(d) EXCEPT !.status = "RECONCILIATION_REQUESTED"]]
    /\ UNCHANGED <<worldVars, pc, inv, pending, plan, r, state, cached, cache, toSync, secretVars>>

LinksDone ==
    /\ pc = "link"
    /\ links = {}
    /\ pc' = "decide"
    /\ UNCHANGED <<worldVars, db, inv, pending, plan, r, state, links, cached, cache, toSync, secretVars>>

\* The end of an iteration that starts nothing.
NothingToDo ==
    /\ pc = "decide"
    /\ ~NeedsReconciliation(r, state)
    /\ pc' = "loop"
    /\ r' = NoReconciliation
    /\ state' = EmptyState
    /\ UNCHANGED <<worldVars, db, inv, pending, plan, links, cached, cache, toSync, secretVars>>

\* enqueue_job up to the deletion of the job it replaces.  `oc delete` of a job
\* that is gone raises: see RunFails.
ReplaceJob ==
    /\ pc = "decide"
    /\ NeedsReconciliation(r, state)
    /\ CancelsExisting(SeenStatus, ReconcilePolicy)
    /\ jobs[r.key].status # "NOT_EXISTS"
    /\ cached' = TRUE /\ cache' = SeenJobs
    /\ jobs' = [jobs EXCEPT ![r.key] = NoJob]
    /\ pc' = "create"
    /\ UNCHANGED <<config, mr, infra, outputVars, cli, merges, faults, cliRuns, db,
                   inv, pending, plan, r, state, links, toSync, secretVars>>

\* enqueue_job with nothing to delete.  When the job is in progress nothing is
\* created either, and reconcile_resource ignores the False it gets back.
SkipReplace ==
    /\ pc = "decide"
    /\ NeedsReconciliation(r, state)
    /\ ~CancelsExisting(SeenStatus, ReconcilePolicy)
    /\ cached' = TRUE /\ cache' = SeenJobs
    /\ pc' = IF CreatesJob(SeenStatus, ReconcilePolicy) THEN "create" ELSE "mark"
    /\ UNCHANGED <<worldVars, db, inv, pending, plan, r, state, links, toSync, secretVars>>

CreateJob ==
    /\ pc = "create"
    /\ jobs' = [jobs EXCEPT ![r.key] =
                   [status |-> "IN_PROGRESS", hash |-> r.hash, action |-> r.action]]
    /\ pc' = "mark"
    /\ UNCHANGED <<config, mr, infra, outputVars, cli, merges, faults, cliRuns, db,
                   inv, pending, plan, r, state, links, cached, cache, toSync, secretVars>>

\* _set_resource_reconciliation_in_progress.
MarkInProgress ==
    /\ pc = "mark"
    /\ db' = [db EXCEPT ![r.key] =
                 [status |-> IF r.action = "APPLY" THEN "IN_PROGRESS" ELSE "DELETE_IN_PROGRESS",
                  hash |-> r.hash, image |-> r.image, action |-> r.action, expired |-> FALSE]]
    /\ pc' = "loop"
    /\ r' = NoReconciliation
    /\ state' = EmptyState
    /\ UNCHANGED <<worldVars, inv, pending, plan, links, cached, cache, toSync, secretVars>>

\* update_resource_status: update_item sets one attribute and creates the item
\* when there is none.
UpdateItem(k, status) ==
    [db EXCEPT ![k].status = IF @ \in {"ABSENT", "STUB"} THEN "STUB" ELSE status]

\* Whatever a run knows is lost when it ends.
RunOver ==
    /\ pc' = "idle" /\ inv' = InitialConfig /\ pending' = {} /\ plan' = {}
    /\ r' = NoReconciliation /\ state' = EmptyState /\ links' = {}
    /\ cached' = FALSE /\ cache' = [k \in Keys |-> NoJob] /\ toSync' = {}
    /\ secrets' = [k \in Keys |-> NoHash] /\ publish' = {} /\ drop' = {} /\ failed' = {}

\* After the loop: the keys seen pending in this iteration and those that were
\* pending in the snapshot taken when the manager was built.  From here on the
\* run looks neither at the snapshot nor at the jobs.
LoopDone ==
    /\ pc = "loop"
    /\ plan = {}
    /\ toSync \cup pending # {}
    /\ pc' = "sync"
    /\ toSync' = toSync \cup pending
    /\ pending' = {}
    /\ cached' = FALSE /\ cache' = [k \in Keys |-> NoJob]
    /\ UNCHANGED <<worldVars, db, inv, plan, r, state, links, secretVars>>

NothingToSync ==
    /\ pc = "loop"
    /\ plan = {}
    /\ toSync \cup pending = {}
    /\ RunOver
    /\ UNCHANGED <<worldVars, db>>

\* _sync_secrets works on the keys the inventory knows.
SyncSpecs == {k \in toSync : inv[k].mode # "gone"}

\* The specs _populate_secret_data finds a source secret of.
Found == {k \in SyncSpecs : outputs[k] # NoHash}

\* The secrets of S are applied where they differ; the time stamp is that of now.
ApplyToClusters(S) ==
    /\ target' = [k \in Keys |-> IF k \in S THEN outputs[k] ELSE target[k]]
    /\ newer' = newer \cup {k \in S : target[k] # outputs[k]}

\* InClusterSecretsReconciler.sync_secrets once its clusters are done: whatever
\* they say, every secret that was found goes on to Vault.
GoOnToVault ==
    /\ secrets' = [k \in Keys |-> IF k \in Found THEN outputs[k] ELSE NoHash]
    /\ publish' = Found
    /\ pc' = "publish"
    /\ UNCHANGED <<config, mr, jobs, infra, outputs, vault, cli, merges, faults, cliRuns, db,
                   inv, pending, plan, r, state, links, cached, cache, toSync, drop>>

SyncToClusters ==
    /\ pc = "sync"
    /\ ApplyToClusters(Found)
    /\ failed' = {}
    /\ GoOnToVault

\* Some secrets are not applied: a namespace that does not exist is only warned
\* of, an error of a cluster makes every spec one with an error.
SyncToClustersPartly ==
    /\ pc = "sync"
    /\ Found # {}
    /\ \E S \in SUBSET Found : ApplyToClusters(S)
    /\ failed' \in {{}, SyncSpecs}
    /\ GoOnToVault

\* An exception: every spec is one with an error, and nothing goes to Vault.
SyncToClustersFails ==
    /\ pc = "sync"
    /\ \E S \in SUBSET Found : ApplyToClusters(S)
    /\ failed' = SyncSpecs
    /\ pc' = "created"
    /\ UNCHANGED <<config, mr, jobs, infra, outputs, vault, cli, merges, faults, cliRuns, db,
                   inv, pending, plan, r, state, links, cached, cache, toSync, secrets,
                   publish, drop>>

WriteToVault(k) ==
    /\ pc = "publish"
    /\ drop = {}
    /\ vault' = [vault EXCEPT ![k] = secrets[k]]
    /\ newer' = newer \ {k}
    /\ publish' = publish \ {k}
    /\ drop' = {k}
    /\ UNCHANGED <<config, mr, jobs, infra, outputs, target, cli, merges, faults, cliRuns, db, pc,
                   inv, pending, plan, r, state, links, cached, cache, toSync, secrets, failed>>

DeleteSource(k) ==
    /\ pc = "publish"
    /\ outputs' = [outputs EXCEPT ![k] = NoHash]
    /\ drop' = {}
    /\ UNCHANGED <<config, mr, jobs, infra, vault, target, newer, cli, merges, faults, cliRuns, db,
                   pc, inv, pending, plan, r, state, links, cached, cache, toSync, secrets,
                   publish, failed>>

\* Writing to Vault or deleting the source secret raises.
PublishFails(k) ==
    /\ pc = "publish"
    /\ k \in drop \/ drop = {}
    /\ publish' = publish \ {k}
    /\ drop' = {}
    /\ failed' = failed \cup {k}
    /\ UNCHANGED <<worldVars, db, pc, inv, pending, plan, r, state, links, cached, cache,
                   toSync, secrets>>

PublishDone ==
    /\ pc = "publish"
    /\ publish \cup drop = {}
    /\ pc' = "created"
    /\ UNCHANGED <<worldVars, db, inv, pending, plan, r, state, links, cached, cache, toSync,
                   secretVars>>

\* The status becomes CREATED whatever it is by now.
MarkCreated(k) ==
    /\ pc = "created"
    /\ k \notin failed
    /\ toSync' = toSync \ {k}
    /\ db' = UpdateItem(k, "CREATED")
    /\ UNCHANGED <<worldVars, pc, inv, pending, plan, r, state, links, cached, cache, secretVars>>

EndRun ==
    /\ pc = "created"
    /\ toSync \subseteq failed
    /\ RunOver
    /\ UNCHANGED <<worldVars, db>>

\* The exceptions of this model: reading a stub, deleting a job that is gone.
\* Nothing catches them, so they end the run.
RunFails ==
    /\ \/ pc = "plan" /\ \E k \in Keys : inv[k].mode = "delete" /\ db[k].status = "STUB"
       \/ pc = "loop" /\ \E rec \in plan : db[rec.key].status = "STUB"
       \/ pc = "link" /\ \E d \in links : db[d].status = "STUB"
       \/ /\ pc = "decide" /\ NeedsReconciliation(r, state)
          /\ CancelsExisting(SeenStatus, ReconcilePolicy)
          /\ jobs[r.key].status = "NOT_EXISTS"
    /\ RunOver
    /\ UNCHANGED <<worldVars, db>>

\* The pod is killed, or a call to AWS or to the cluster fails.
RunDies ==
    /\ pc # "idle"
    /\ faults < MaxFaults
    /\ faults' = faults + 1
    /\ RunOver
    /\ UNCHANGED <<config, mr, jobs, infra, outputVars, cli, merges, cliRuns, db>>

Run ==
    \/ StartRun \/ Plan \/ UpdateState \/ LinksDone \/ NothingToDo
    \/ ReplaceJob \/ SkipReplace \/ CreateJob \/ MarkInProgress
    \/ LoopDone \/ NothingToSync
    \/ SyncToClusters \/ SyncToClustersPartly \/ SyncToClustersFails
    \/ PublishDone \/ EndRun \/ RunFails
    \/ \E rec \in plan : GetState(rec)
    \/ \E d \in links : RequestLinked(d)
    \/ \E k \in publish : WriteToVault(k)
    \/ \E k \in drop : DeleteSource(k)
    \/ \E k \in publish \cup drop : PublishFails(k)
    \/ \E k \in toSync : MarkCreated(k)
-----------------------------------------------------------------------------
(* What happens around the run.                                             *)

runAndTable == <<db, runVars>>

\* The job's containers reach their end: the module has applied or destroyed
\* the resource and, after an apply, the outputs container has written the
\* secret.  Outputs nobody reads (no outputs_secret_sync) are not kept.
JobSucceeds(k) ==
    LET applied == jobs[k].action = "APPLY" IN
    /\ jobs[k].status = "IN_PROGRESS"
    /\ jobs' = [jobs EXCEPT ![k].status = "SUCCESS"]
    /\ infra' = [infra EXCEPT ![k] = IF applied THEN jobs[k].hash ELSE NoHash]
    /\ outputs' = IF applied /\ k \in SecretSynced
                  THEN [outputs EXCEPT ![k] = jobs[k].hash] ELSE outputs
    /\ UNCHANGED <<config, mr, vault, target, newer, cli, merges, faults, cliRuns, runAndTable>>

\* The module or the outputs container fails, or the active deadline passes;
\* the resource may or may not have been touched.  backoff_limit is 0.
JobFails(k) ==
    /\ jobs[k].status = "IN_PROGRESS"
    /\ jobs' = [jobs EXCEPT ![k].status = "ERROR"]
    /\ infra' \in {infra,
                   [infra EXCEPT ![k] = IF jobs[k].action = "APPLY" THEN jobs[k].hash ELSE NoHash]}
    /\ UNCHANGED <<config, mr, outputVars, cli, merges, faults, cliRuns, runAndTable>>

\* The result of the job is on record as awaited, or about to be.
Awaited(k) == db[k].status \in InProgress \/ (pc = "mark" /\ r.key = k)

\* ttl_seconds_after_finished, one hour.  Runs follow one another within
\* minutes: a result that no run has recorded expires only in an outage.
JobExpires(k) ==
    /\ jobs[k].status \in Finished
    /\ IF Awaited(k)
       THEN faults < MaxFaults /\ faults' = faults + 1
       ELSE faults' = faults
    /\ jobs' = [jobs EXCEPT ![k] = NoJob]
    /\ UNCHANGED <<config, mr, infra, outputVars, cli, merges, cliRuns, runAndTable>>

\* reconcile_drift_interval_minutes have passed since the item's time stamp.
\* Only the statuses in which the code asks for it.
DriftIntervalPasses(k) ==
    /\ db[k].status \in {"CREATED", "PENDING_SECRET_SYNC"}
    /\ db' = [db EXCEPT ![k].expired = TRUE]
    /\ UNCHANGED <<worldVars, runVars>>

\* The dry run of a merge request: the orphan check of the table as it is now
\* against the inventory as the request would leave it.  Resources that do not
\* validate are logged, and do not fail it.
ValidateMergeRequest(m) ==
    LET merged == [config EXCEPT ![m.key] = m.spec] IN
    /\ merges < MaxMerges
    /\ \A k \in Keys : db[k].status # "STUB"
    /\ \A k \in Keys : Exists(k) => merged[k].mode # "gone"
    /\ m.spec # config[m.key]
    /\ mr' = mr \cup {m}
    /\ merges' = merges + 1
    /\ UNCHANGED <<config, jobs, infra, outputVars, cli, faults, cliRuns, runAndTable>>

Merge(m) ==
    /\ config' = [config EXCEPT ![m.key] = m.spec]
    /\ mr' = mr \ {m}
    /\ UNCHANGED <<jobs, infra, outputVars, cli, merges, faults, cliRuns, runAndTable>>

\* Erv2Cli.reconcile: a read, then an unconditional update of the item.
CliRead(k) ==
    /\ cli = NoKey
    /\ cliRuns < MaxCli
    /\ db[k].status # "STUB"
    /\ ReadState(k).status # "NOT_EXISTS"
    /\ cli' = k
    /\ cliRuns' = cliRuns + 1
    /\ UNCHANGED <<config, mr, jobs, infra, outputVars, merges, faults, runAndTable>>

CliWrite ==
    /\ cli # NoKey
    /\ db' = UpdateItem(cli, "RECONCILIATION_REQUESTED")
    /\ cli' = NoKey
    /\ UNCHANGED <<config, mr, jobs, infra, outputVars, merges, faults, cliRuns, runVars>>

\* external-resources-secrets-sync brings what is in Vault to the clusters, of what
\* is declared, unless the secret there is the same or newer.
SyncFromVault(k) ==
    /\ k \in SecretSynced
    /\ config[k].mode \in {"apply", "invalid"}
    /\ vault[k] # NoHash
    /\ k \notin newer
    /\ target[k] # vault[k]
    /\ target' = [target EXCEPT ![k] = vault[k]]
    /\ UNCHANGED <<config, mr, jobs, infra, outputs, vault, newer, cli, merges, faults, cliRuns,
                   runAndTable>>

World ==
    \/ \E k \in Keys : \/ JobSucceeds(k) \/ JobFails(k) \/ JobExpires(k)
                       \/ DriftIntervalPasses(k) \/ CliRead(k) \/ SyncFromVault(k)
    \/ \E m \in MergeRequests : ValidateMergeRequest(m)
    \/ \E m \in mr : Merge(m)
    \/ CliWrite

Next == Run \/ RunDies \/ World

Spec == Init /\ [][Next]_vars

\* The integration is started again and again and a run is not suspended for
\* ever; every external call it makes that may fail (a job, the target
\* clusters, Vault) succeeds if it is tried often enough; the drift interval
\* passes.
Fairness ==
    /\ WF_vars(Run)
    /\ SF_vars(SyncToClusters)
    /\ \A k \in Keys : /\ SF_vars(JobSucceeds(k))
                       /\ SF_vars(WriteToVault(k))
                       /\ SF_vars(DeleteSource(k))
                       /\ SF_vars(SyncFromVault(k))
                       /\ WF_vars(DriftIntervalPasses(k))

FairSpec == Spec /\ Fairness
-----------------------------------------------------------------------------
(* Properties.                                                              *)

TypeOK ==
    /\ config \in [Keys -> SpecType]
    /\ mr \in SUBSET MergeRequests
    /\ db \in [Keys -> ItemType]
    /\ jobs \in [Keys -> JobType]
    /\ infra \in [Keys -> Hashes \cup {NoHash}]
    /\ outputs \in [Keys -> Hashes \cup {NoHash}]
    /\ vault \in [Keys -> Hashes \cup {NoHash}]
    /\ target \in [Keys -> Hashes \cup {NoHash}]
    /\ newer \in SUBSET Keys
    /\ cli \in Keys \cup {NoKey}
    /\ merges \in Nat /\ faults \in Nat /\ cliRuns \in Nat
    /\ pc \in {"idle", "plan", "loop", "status", "link", "decide", "create", "mark",
               "sync", "publish", "created"}
    /\ inv \in [Keys -> SpecType]
    /\ pending \in SUBSET Keys
    /\ plan \in SUBSET ReconciliationType
    /\ r \in ReconciliationType \cup {NoReconciliation}
    /\ state \in StateType
    /\ links \in SUBSET Keys
    /\ cached \in BOOLEAN /\ cache \in [Keys -> JobType]
    /\ toSync \in SUBSET Keys
    /\ secrets \in [Keys -> Hashes \cup {NoHash}]
    /\ publish \in SUBSET Keys /\ drop \in SUBSET Keys /\ failed \in SUBSET Keys

Running(k) == jobs[k].status = "IN_PROGRESS"

\* The jobs as slots: the unit of work of a job is what it applies or destroys.
Work == [hash : Hashes \cup {NoHash}, action : Actions]
NoWork == [hash |-> NoHash, action |-> "APPLY"]
JobSlot == [k \in Keys |->
              [status |-> jobs[k].status,
               unit   |-> [hash |-> jobs[k].hash, action |-> jobs[k].action]]]
Slots == INSTANCE JobSlots WITH
            Names <- Keys, Units <- Work, NoUnit <- NoWork, slot <- JobSlot

\* A running job is never deleted or replaced and a job is only created in an
\* empty slot, although enqueue_job trusts a cache that is loaded once per run
\* and stale from then on: that is enough because a run handles a key once and
\* nobody else creates jobs.
ImplementsJobSlots == Slots!Spec

\* update_item creates what it does not find; the manager only ever calls it
\* for keys that still have an item, although it takes them from a snapshot
\* older than the deletions of the run.
SyncedItemsExist ==
    \A k \in toSync \cup pending : db[k].status \notin {"ABSENT", "STUB"}

\* Every running job is on record: the item of its key is in progress, or the
\* run is about to make it so.
RunningJobIsTracked == \A k \in Keys : Running(k) => Awaited(k)

\* A resource on record as created exists in the cloud with the inputs on
\* record, except for the moment between enqueue_job and the record of it.
CreatedMeansApplied ==
    \A k \in Keys :
        /\ db[k].status \in {"CREATED", "PENDING_SECRET_SYNC"}
        /\ ~(pc = "mark" /\ r.key = k)
        => infra[k] = db[k].hash

\* A key that stays declared ends up provisioned as declared, through failed
\* jobs, dead runs and lost results: what is recorded as created is applied
\* again when its drift interval passes.
ApplyConverges ==
    \A k \in Keys : \A h \in Hashes :
        <>[](config[k].mode = "apply" /\ config[k].hash = h) => <>[](infra[k] = h)

\* ... and its outputs reach Vault and the namespace they are for, although the
\* manager records it as created when only one of its syncs has done its part.
OutputsConverge ==
    \A k \in SecretSynced : \A h \in Hashes :
        <>[](config[k].mode = "apply" /\ config[k].hash = h) => <>[](vault[k] = h /\ target[k] = h)

\* A key that stays marked to delete ends up recorded as not existing.
DeleteConverges ==
    \A k \in Keys : <>[](config[k].mode = "delete") =>
        <>[](ReadState(k).status = "NOT_EXISTS")

\* A reconciliation that was requested (by the command line or by the resource
\* it depends on) of a key that stays declared is taken up.
RequestsAreTaken ==
    \A k \in Keys :
        db[k].status = "RECONCILIATION_REQUESTED"
            ~> (db[k].status # "RECONCILIATION_REQUESTED" \/ config[k].mode # "apply")

\* A deletion the manager skips because the "resource has already been
\* removed" (manager.py) has left no item behind: the orphan check would keep
\* the key in app-interface for ever.
SkippedDeletionsLeaveNoItem ==
    [][Plan => \A k \in Keys : inv[k].mode = "delete" /\ ReadState(k).status = "NOT_EXISTS"
                                 => ~Exists(k)]_vars

\* A key whose item the manager has removed has nothing left in the cloud
\* (manager.py: "Resource has already been removed").
RemovedMeansDestroyed ==
    \A k \in Keys : config[k].mode = "delete" /\ db[k].status = "ABSENT" => infra[k] = NoHash

\* Linked resources are reconciled every time the parent finishes its
\* reconciliation (aws.py): once it is on record, every one of them has a
\* reconciliation that starts after that moment ahead of it.
LinkedAlwaysRequested ==
    [][\A d \in Keys : RequestLinked(d) => db'[d].status = "RECONCILIATION_REQUESTED"]_vars

\* A resource is marked CREATED when its outputs have been reconciled, not while
\* a job for it is running.
CreatedIsNotRunning ==
    [][\A k \in Keys : db'[k].status = "CREATED" /\ db[k].status # "CREATED" => ~Running(k)]_vars

\* "Outputs secret for key has been reconciled. Marking resource as CREATED"
\* (manager.py): the namespace of a resource so marked has an outputs secret.
CreatedMeansSynced ==
    [][\A k \in SecretSynced :
          db[k].status = "PENDING_SECRET_SYNC" /\ db'[k].status = "CREATED"
              => target[k] # NoHash]_vars

\* `external-resources reconcile` refuses a resource that does not exist, so it
\* never leaves an item nobody can read.
CliNeverCreates == \A k \in Keys : db[k].status # "STUB"
=============================================================================
