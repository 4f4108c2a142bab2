# qontract-reconcile in TLA+

qontract-reconcile is a collection of integrations that bring the world (AWS accounts, OpenShift
clusters, GitLab, Quay, Vault, ...) to the state that app-interface declares. An integration is a
process that is started again and again; between two runs it remembers nothing except what it
leaves in DynamoDB, S3, Kubernetes, Redis or the systems it manages. What is hard to test in this
program is therefore not the comparison of a desired with a current state. It is what happens when
that comparison is made from snapshots, and jobs, merges, command lines, crashes and other
processes get in between.

The specifications here are written from the code. Paths are relative to the repository,
which is at `src/`; `PROJECT.json` lists for every definition the lines it was translated from.

Contents: [inventory](#inventory), [modules](#modules-and-the-code),
[runs](#what-the-runs-check), [bounds](#bounds), [fairness](#fairness), [proofs](#proofs),
[divergences](#divergences-found), [not modelled](#what-is-not-modelled), [plan](#plan),
[how to run](#how-to-run).

## Inventory

### Components that are modelled

**External resources manager (ERv2)** (`reconcile/external_resources/`).
- *State.* A DynamoDB table with one item per resource (status, last reconciliation, time stamp);
  within a run: the inventory, the keys pending secret sync, the reconciliation in hand and a
  copy of its item, and the job controller's cache. All of it but the table dies with the run.
- *Operations.* `handle_resources`: for each desired or deleted resource, read the state, look up
  the job, derive the new status, write it, request linked resources, decide whether to
  reconcile, replace or create the job, record IN_PROGRESS; then sync the outputs secrets and
  mark the keys CREATED. `ExternalResourceDryRunsValidator` rejects merge requests that would
  orphan an item. `qontract-cli external-resources reconcile` requests a reconciliation.
- *Interacts with* the job controller (calls), the jobs it creates (through the cluster), the
  outputs secrets they leave (shared state), Vault, the merges of app-interface and the command
  line (shared table without conditional writes).
- *Hard.* The run acts on three snapshots of different age (inventory, pending keys, job cache)
  and on a table that others write; a crash between creating a job and recording it; a change of
  the desired action while a job of the other action runs.
- *Correct means.* Running jobs are not replaced; what is recorded as created has been applied;
  what is declared is applied in the end and its outputs reach Vault; what is deleted disappears,
  from the record after the cloud and not before.

**Kubernetes job controller** (`reconcile/utils/jobcontroller/`).
- *State.* A cache of the jobs of a namespace per `K8sJobController`, loaded lazily; the elapsed
  time and the statuses of a wait. The jobs and their secrets are in the cluster.
- *Operations.* `enqueue_job` with a concurrency policy, `create_job` (job, uid lookup, secret with
  the job as owner), `delete_job`, `wait_for_job_completion`, `wait_for_job_list_completion`.
- *Interacts with* its users (ERv2 and its dry runs, rosa sessions) and with Kubernetes: deadline,
  time to live after the end, garbage collection by owner references.
- *Hard.* Names are derived from the unit of work, so clients meet in one job; the decision is
  made from a cache of any age; job and secret are two calls; the wait counts sleeping and polling.
- *Correct means.* The policy is obeyed; a wait ends in time and reports what happened; work that is
  asked for again and again is done.

**Background tasks of qontract-api** (`qontract_api/qontract_api/tasks/`, integrations).
- *State.* Broker queues and unacknowledged messages, a Redis lock with a time to live per set of
  organizations, the worker processes.
- *Operations.* Post (the reconcile loop for production, merge request checks for dry runs), take,
  acquire the lock, reconcile one organization after the other, release, acknowledge late;
  redelivery after the visibility timeout.
- *Interacts with* the clients in `reconcile/*_api.py` (HTTP), Redis, the external systems.
- *Hard.* Locks expire under runs; lost workers leave both a lock and a message; tasks that wait
  for a lock get it in no order; the key of the lock is the whole list of organizations.
- *Correct means.* No two production runs of the same work at once; the newest desired state wins;
  dry runs do not depend on production.

**Two-tier cache of qontract-api** (`qontract_api/cache/`, the workspace clients).
- *State.* A memory tier per worker process, entries in Redis with a time to live, a Redis lock per key.
- *Operations.* The double-checked read (memory, Redis, lock, again, fetch, fill); a write under the
  lock or beside it; the invalidation of memory, then Redis.
- *Interacts with* the tasks and requests that read and write through a workspace client, and with
  the service whose data it caches, which others change too.
- *Hard.* Each worker's memory is its own; a reader that fetched before a write stores after it; the
  lock is not renewed; the two halves of an invalidation fail separately.
- *Correct means.* Staleness is bounded by the times to live; nothing older than the last
  invalidation gets back into Redis; nobody waits for a lock for ever.

**GitLab housekeeping and the merge queue** (`gitlab_housekeeping.py`, ADR-019).
- *State.* None of its own: labels, source branches, pipelines and the target branch in GitLab.
- *Operations.* `rebase_merge_requests` and `merge_merge_requests` with their limits and retries,
  the health check of error labels, and for `active-cap-multi-merge` the group: lead and pending
  labels, the check of the target branch, expansion, ejection and clearing.
- *Interacts with* people (approvals, holds, pushes, merges) and pipelines.
- *Hard.* Candidates of a group keep the pipeline they have; labels are the only memory, and are
  written one request at a time; a retry starts over from an old list.
- *Correct means.* What merges was tested on what it merges into, as far as the strategy promises;
  one group; the queue moves.

**SaaS deployments and promotions** (`utils/saasherder/`, `promotion_state.py`,
`openshift_saas_deploy*.py`).
- *State.* In S3: what each trigger integration has recorded of each target, and the promotion data
  of each channel, publisher and commit. Within a trigger run: the set of triggered jobs.
- *Operations.* `get_diff`, one thread per difference (`_register_trigger`, create the pipeline run,
  `update_state`); in the pipeline run populate, validate promotions, realize, publish promotions.
- *Interacts with* app-interface, the branches, Tekton and the clusters; trigger integrations and
  pipeline runs through S3 only.
- *Hard.* Threads of one job save state while another triggers; pipeline runs of one job overlap;
  promotion data are read and written in two requests; success of a run, of a publisher and of the
  past are three things.
- *Correct means.* No change goes without a pipeline run; nothing is promoted that its publishers have
  not run without error for the soak days.

**SaaS auto-promotions manager** (`saas_auto_promotions_manager/`).
- *State.* The open merge requests, with content hashes, a flag whether they may be batched, and
  labels of failed checks.
- *Operations.* Compute the wanted promotions from the bundle and the promotion data, compare with
  the open requests (unbatch, remove outdated, batch the rest), close, render all additions from
  master, then open them one by one, each on a branch of the main of that moment whose files are
  overwritten.
- *Interacts with* publishers (promotion data), gitlab-housekeeping (merges) and qontract-server.
- *Hard.* Four views of different age: bundle, promotion data, open requests, rendered files.
- *Correct means.* One request per channel; no request promotes to an older version than there is; a
  bad promotion does not block the others. That nothing is rolled back is too much to ask
  (divergence 26).

**Advanced upgrade service** (`reconcile/aus/`).
- *State.* In S3 per organization: days soaked per version and workload, with the clusters that
  report them; in OCM: the upgrade policies.
- *Operations.* Per organization: list policies, aggregate with the organizations it inherits from,
  update and save the history, calculate the difference (sectors, soak days, mutexes, parallel
  upgrades, control plane and node pools), create or delete policies.
- *Interacts with* OCM, which executes policies, and with health providers.
- *Hard.* All organizations are listed before the first is processed; limits over clusters, sectors,
  mutexes and workloads at once; inherited data are those of the last run.
- *Correct means.* Mutual exclusion; sectors in order; soak days that were really soaked; progress.

**ERv2 outputs secrets sync** (`external_resources/secrets_sync.py`, `integration_secrets_sync.py`).
- *State.* None of its own: the secret a job left in the workers namespace, the one in Vault, the
  one in the namespace of the resource, and the time stamps of the last two.
- *Operations.* At the end of a run of the manager: read the source secrets, apply them to the target
  clusters, write each to Vault and delete its source. An integration of its own applies what is in
  Vault to the clusters, unless the secret there is newer.
- *Hard.* The parts fail separately: an exception while the clusters are done ends the sync, an
  error that a cluster registers does not, and a namespace that does not exist is only warned of.
- *Correct means.* Outputs reach Vault and their namespace.

### Components that are not modelled yet

| Component | State | Operations that matter | Hard | Correct means |
|---|---|---|---|---|
| Merge request manager (base of SAPM's) | open merge requests | dedupe, close | two runs, merges in between | one open request per content |
| State store (`utils/state.py`) | S3 objects | add, get, rm, transaction | crash within a transaction | a committed value is complete |
| Change owners | none (pure) | coverage of changes, decisions from comments | order of commands | a change is approved only by those who own it |
| Openshift base, three-way diff | none between runs | realize_data | partial failure stops deletion | nothing is deleted after an error |
| SQL query, database access manager | state store, jobs, secrets | run, collect, remove | crash between steps | a query runs once |
| Terraform client, early exit cache | plans, cache | plan, apply, approve deletions | cached result of a failed run | no unapproved deletion |
| AWS account manager | state store | sequence of requests | resume | each step once |
| MR queue (`gitlab_mr_sqs_consumer.py`) | SQS | receive, create, delete | duplicates | no duplicated request |
| Runtime, sharding, integrations manager | none | dry run, early exit, shards | - | every spec in exactly one shard |
| Events, HTTP layer, secrets, tenants' integrations, GraphQL, terrascript | none | stateless calls | - | - |

`PROJECT.json` names the sources and the reason of each.

## Modules and the code

| Module | Is |
|---|---|
| `JobPolicy` | what `enqueue_job` decides from a status and a policy; shared |
| `JobSlots` | abstract: every job name is a slot with one unit of work at a time |
| `ExternalResources` | the ERv2 run, its table, jobs, secrets, merge requests and command line; implements `JobSlots` |
| `JobController` | any number of clients of the job controller on one namespace; implements `JobSlots` for one client |
| `ApiTasks` | queues, workers and locks of one qontract-api integration |
| `StaleRegister` | abstract: a register whose readers may be shown an old version, but only for so long |
| `TwoTierCache` | readers and writers of one key, both tiers, the lock; implements `StaleRegister` |
| `MergeQueue` | the merge queue of one repository in its three strategies |
| `PromotionBatches` | SAPM's merge requests |
| `Deployments` | triggers, pipeline runs, promotion gate and promotion data |
| `Upgrades` | AUS over several organizations |
| `MC...` of each of these | constants for TLC |
| `..._proofs` of each of the eight | theorems, for every value of the constants |

`ExternalResources` uses the job controller as an atomic lookup plus the two steps `ReplaceJob` and
`CreateJob`, with the decision from `JobPolicy`. `JobController` models the controller itself at
the grain of the calls to the cluster. Both are shown to implement the same `JobSlots`, which is
what ties the two grains together.

### ExternalResources

One run is a program counter:

| `pc` | Code | Actions |
|---|---|---|
| `idle` | `integration.run` builds the manager | `StartRun` takes the snapshots `inv` and `pending` |
| `plan` | `_get_desired_objects_reconciliations`, `_get_deleted_...` | `Plan` |
| `loop` | `for r in desired_r.union(deleted_r)` | `GetState`, `LoopDone`, `NothingToSync` |
| `status` | `_get_reconciliation_status`, `_update_resource_state` | `UpdateState` |
| `link` | the loop over `linked_resources` | `RequestLinked`, `LinksDone` |
| `decide` | `_resource_needs_reconciliation`, `enqueue_job` | `NothingToDo`, `ReplaceJob`, `SkipReplace` |
| `create` | `create_job` | `CreateJob` |
| `mark` | `_set_resource_reconciliation_in_progress` | `MarkInProgress` |
| `sync` | `sync_secrets` to the clusters | `SyncToClusters`, `SyncToClustersPartly`, `SyncToClustersFails` |
| `publish` | Vault, then the source secret, of each key | `WriteToVault`, `DeleteSource`, `PublishFails`, `PublishDone` |
| `created` | `update_resource_status(key, CREATED)` | `MarkCreated`, `EndRun` |

`RunFails` is every exception the model produces itself (a stub item, a job that is gone),
`RunDies` a crash anywhere. Around the run: `JobSucceeds`, `JobFails`, `JobExpires`,
`DriftIntervalPasses`, `ValidateMergeRequest`, `Merge`, `CliRead`, `CliWrite`, and `SyncFromVault`, the
integration that brings secrets from Vault to the clusters.

The three ways the clusters may be done differ in what follows. Complete or in part
(`SyncToClustersPartly`), the run goes on to Vault and to the source secrets of whatever it found
(`GoOnToVault`); in part, every key stays PENDING_SECRET_SYNC if a cluster registered an error
and none does if a namespace was missing. Only an exception (`SyncToClustersFails`) leaves Vault and
the source secrets alone. The next run finds no source secret of a key that stayed pending and
marks it CREATED; that its outputs arrive all the same (`OutputsConverge`) is due to `SyncFromVault`
and to the drift interval. `SyncFromVault` reads Vault, compares and applies in one step: what a write
in between would leave old is put right by the next sync. `newer` holds the keys of which the secret in
the namespace has a later time stamp than the one in Vault. A job that ends between the reading of the
source secrets and their deletion loses its outputs (`DeleteSource`). After the loop a run looks
neither at its job cache nor at its snapshot of pending keys, which `LoopDone` therefore clears.

Abstractions: a resource's data is a hash; the module's image is a second value because an override
of it is compared separately. Time is one bit per item, `expired`, that the drift interval has
passed. `infra` is what exists in the cloud, which the code never sees and the properties need.
The factories' validation is the mode `invalid`. `update_item` on a missing key creates an item
with only a status, `STUB`, that every reader fails on, as DynamoDB does. A dry run creates jobs of
its own names and touches no state of the manager; its jobs appear in `JobController`
(`DryRunCalls`).

### JobController

A client is `idle`, enqueues its jobs (`enqueue`, `delete`, `create`, `lookup`, `secret`), then
polls (`poll`, `check`). `Begin` is a call with a list of jobs, a policy and which of the two waits
it uses. The cache is `cached`/`cache`; `Seen` is the lazy property. Time counts only while waiting,
as in the code: the sleep of `_sleep_until_timeout` plus a delay of the poll. The cluster starts
pods only when the secret exists (`JobStarts`), fails them at the deadline, expires results, and
collects secrets whose owner is gone. Uids are a finite set and are reused when nothing refers to
them any more.

### ApiTasks

A task carries the version of the desired state it was posted with. `Take` delivers it,
`TryLock`/`RetryLock` are `acquire` with `blocking=True`, `ReconcileOrg`/`OrgFails` the loop over
organizations, `EndRun` releases if the lock is still the worker's, `Acknowledge` is `acks_late`,
`Redeliver` the visibility timeout. `Tick` is time for locks and runs. Dry runs take no lock and
have workers of their own. quay-repos stands for the integrations that share this frame; they differ
in the lock key's prefix and in what reconciling an organization means.

### TwoTierCache

`pc` of a worker follows `get_or_fetch` of `cache/base.py` and its callers: `ReadHit`, `ReadMiss`, the
lock (`Acquire`, shared by reads and writes), `RecheckMiss`, `Fetch`, `Fill`, and for a write
`StartWrite`, `Write`, `Drop`, either in the order of the clients that hold the lock while they write
(quay, secret managers) or of those that invalidate under it afterwards (ocm, glitchtip, github);
`writeLocked` says which, and both are checked. One task per process at a time is the solo pool of
`app.sh:24`. An entry that memory takes over from Redis gets the full `memory_ttl`, though its own
time may be shorter, as in the code; that is the second tier of the bound in `Staleness`. `Tick` is
time for entries, lock and whoever holds it; `MaxHold` bounds how long that is. With
`MaxHold < LockTtl` no lock expires under its holder; the code does not guarantee it
(`TTRenewal.cfg`). In `StaleRegister` a writer may show nobody, itself included, what it knows
superseded: the refinement mapping takes the age of versions from the history variables.

### MergeQueue

A run is a `phase`: `HealthCheck`, `StartRun`, then `Serial` (the loop of `merge_merge_requests`)
or the group (`FormGroup`, `Apply`, `Applied`, `CheckGroup`, `Member...`, `Expand`, the two halves
of `clear_omm_group`), then `RebaseQueue`. On-demand tests (`OnDemand`) belong to the last commit:
`passed` are the requests whose commit has passed them, and every rebase and push takes a request
out of it. The merging half goes by `listed`, what is waiting and verified when `StartMerging`
looks (also in a retry); the rebasing half goes by all that is waiting (`queue`), as in the code.
`Retry` is the `@retry` around the merges, which starts over with the list of the first attempt,
`Crash` a killed run. Labels are the labels that decide something, one for each kind. Looking at a
merge request and merging it is one step: GitLab refuses what is not fast-forward any more.
`target` keeps, with each commit, what it was tested on, which GitLab does not, and the properties
need. Not modelled: repositories that do not rebase, `wait_for_pipeline` and `insist` (off by
default, `cli.py:1215`), drafts, who may set which label, errors of a rebase that GitLab reports
later (`merge_error`; a rebase is one step here), the retry when the lead's merge commit is not
there yet, and `skip_unmergeable` (conflicting requests, which are only rechecked).

### PromotionBatches

A promotion is a channel and a version; its content hash stands for both. A run is `ComputeDesired`
(from promotion data and the bundle), `FetchRequests` (all of the batcher, which is pure: `Alone`,
`Outdated`, `Missing`, `WithRoom`, `Batches`), then `Close` one by one, then `Render` for all
additions and only then `Open` one by one; each call may fail or be the last. A rendered request carries
the whole files its promotions change (`FileOf`, `content`): what else was in them when it was rendered
is what it brings back, where master has moved on. GitLab shows it as a difference of the new branch
and not as a conflict, so `Open` keeps what differs from master by then, and opens nothing if
nothing does.
Around it: `Publish`, `LoadBundle`, `CheckEnds`, `MergeRequest`, `Crash`. A schedule, a
blocked version or a service-level objective that holds a promotion up makes it not `ready`. Published
versions only grow. A request whose check fails by accident and that may not be batched stays
until people check it again, as in the code. The subscribers of a channel are in one file, the
files of one addition are read in one step, and nobody else changes those files or removes them.

### Deployments

A trigger integration has one thread per target that differs (`specs`): `GetDiff`, `Register` (the
set under `_trigger_lock`), `Create`, `CreateFails`, `UpdateState`. `moving-commits` only notes a
target it does not know. A pipeline run is `PopulateDesiredState` (a target whose template fails is left
out), `ValidatePromotions`, `Apply` per target, `StartPublishing`, then `ReadPromotionData` and
`PublishPromotionData` per publication. `Merge`, `Push` and `DayPasses` are people and time.
Commits are numbered; a target either names one or follows the branch. The commits of one pipeline
run are read in one step, and so are the promotion data it validates. Tekton does not
serialise the pipeline runs of a job, and nothing retries a failed one: both are in the model
(`overlapped` records the first). `untriggered` and `proven` are history: changes that no pipeline
run has been created after, and the days since a commit was first deployed without error.
Changes are not taken back in `dp_deploys` (`TakesBack`), see divergence 21.

### Upgrades

One run goes over the organizations in order: `GetUpgradeSpecs` lists them all, then for each
`FetchCurrentState`, `UpdateHistory`, `Consider` for each cluster in the order of `_sort`, `Act` per
policy, `EndOrg`, `NextOrg`; `phase` says where it is (`idle`, `orgs`, `history`, `upgrades`). An
organization may fail (`OrgFails`), a run die (`Crash`). OCM executes a policy (`Upgrade`) at any moment in between;
`DayPasses` only between runs, as a run takes no time. `DiffOf` is the body of the loop of
`calculate_diff` for one cluster, given what is planned for those before it; `Soak`, `Stats`,
`Inherited`, `SectorDependencies`, `ConditionsMet`, `AllowedParallel` are the pure functions of
`base.py`, `models.py` and `cluster_version_data.py` under their names or close to them. A schedule that is near, with
the version gates agreed, is the parameter of `FetchCurrentState`. OCM refuses a policy
that is no upgrade. Not modelled: gates and their approval, the schedule itself, switches of
channels, addons, and the second call that only feeds metrics.

## What the runs check

| Run | Instance | Shows |
|---|---|---|
| `er_two_keys` | a database and its replica, a merge request that deletes one of them, the command line once | `ImplementsJobSlots`: the run never replaces a running job although its job cache is stale. `SyncedItemsExist`: it never recreates an item it has removed. `TypeOK` |
| `er_tracked` | the same with two updates (other inputs, pinned image, invalid) and without crashes and deletions | `RunningJobIsTracked`, `CreatedMeansApplied`: record and cloud agree, also when the parent requests the replica while it is being reconciled |
| `er_apply` | one key, any two merge requests of six kinds, one crash or lost result | `ApplyConverges`, `OutputsConverge`, `DeleteConverges` |
| `jc_one_client` | two jobs, list wait, policy of the real run, one crash | `ImplementsJobSlots`, `NoOversleep`, `ResultsStick` |
| `jc_work` | two clients on one job, single and list waits, one crash, active deadline | `CallsEnd`, `WorkSucceeds` |
| `at_tasks` | two production workers, one for merge requests, a desired state that gains an organization, one fault | `ExclusiveRuns`, `NewestWins`, `DryRunsEnd` |
| `tt_cache` | two workers, two changes, both disciplines, one crash or failing request | `ImplementsStaleRegister`, `NoRepopulation`, `LockWaitsEnd` |
| `mq_queue` | three merge requests, two of one tenant, three strategies; a merge of somebody else, a label, a push and a fault | `SerialMergesAreTested`, `GroupMergesOnGroup`, `OneGroup`, `HeldIsNotMerged` |
| `mq_drains` | three tenants, rebase limit 1, on-demand tests, a merge of somebody else, a fault | `QueueDrains`, `GroupsEnd`, `OneMergePerRun` |
| `pb_batches` | three channels, two of them in one file, one bad promotion, batches of two, four changes, one fault | `OneRequestPerChannel`, `OneBatchWithRoom`, `NoneIsBehind`, `GoodPromotionsAreMerged` |
| `up_upgrades` | two organizations, four clusters (one hosted), a chain of sectors with an empty one, a mutex, 25% of two clusters, one fault | `OneUpgradePerCluster`, `MutexesHold`, `SectorsInOrder`, `SoakedBeforeUpgrade`, `PublishersFirst`, `ClustersAreUpgraded` |
| `dp_deploys` | a stage target on the branch, canary and prod of one job, two pipeline runs, a soak day, one fault | `PromotedAfterSuccess`, `SoakedBeforePromotion`, `ChangesAreTriggered`, `OnceIsKept` |

These are the runs of `PROJECT.json`. `TypeOK` of every module has been checked in the instance of its run
(`UPVersions` also has it, with a second version to upgrade to, and passes). `ERRequests` passes too:
`RequestsAreTaken` and `ApplyConverges` when the command line is called at any moment. The other
configurations are those of the [divergences](#divergences-found), which do not pass.

Why the preconditions of `er_tracked` are needed is itself a result. A crash between `enqueue_job`
and the put of IN_PROGRESS leaves a running job nobody awaits (the drift interval repairs it, which
is what `ApplyConverges` shows), and a success that is recorded under another action breaks
`CreatedMeansApplied` (divergence 1). No key there has outputs to synchronise, because of
divergence 2. In `er_two_keys` deadlock is not checked: the command line can leave a stub that
every later run dies on (divergence 6), and then nothing moves.

`NewestWins` deserves a word: tasks that wait for one lock get it in any order, and redelivered
messages may be older than finished ones, so an older desired state does overwrite a newer one. The
property says that this stops, because every later post carries the newest version and the
backlog is finite.

Some properties of the newer modules, in the terms of the code.
- `SerialMergesAreTested` and `GroupMergesOnGroup` say what "tested" means for each strategy. Members
  of a group merge on the strength of an old pipeline; what must hold is that all they bring in
  untested are other members.
- `NoneIsBehind` is about the channels a request promotes, `GoodPromotionsAreMerged` also about the others
  in its files: what a request that was rendered early takes back is promoted again.
- `QueueDrains` has two premises. Pipelines end; and where on-demand tests are asked for, every request
  passes those of its last commit again and again until it is merged: somebody has to start them
  after each rebase. Without the second, divergence 25.
- `PublishersFirst` is about organizations, `SectorsInOrder` about sectors, each for the workloads two
  clusters share. Both are stated of what runs in the clusters and not of what the history says.
- `SoakedBeforePromotion` adds up, over the channels a target subscribes to and their publishers, the days
  since the first deployment without error (`ProvenDays`), not since `check_in`: it holds because
  `check_in` starts again after a failure, and never earlier. A target that subscribes to nothing has no gate.
- `ChangesAreTriggered` is the invariant that makes a crash or a failed creation of a pipeline run
  harmless: whatever waits still differs from what is saved, for some target of the job.

Every property of a passing run has a mutant in `PROJECT.json`: a plausible bug in a mapped
definition under which TLC finds that property violated. The mutants are the operators marked
`Mutant:` next to the definition they change.

## Bounds

| Constant | Bounds | Why it is enough |
|---|---|---|
| `Keys` | two keys: parent and dependant | the only interaction between keys is a link, and the loop takes keys in any order; the theorems hold for any set |
| `Hashes`, `Images` | two each | properties compare only for equality |
| `MaxMerges` | 1 or 2 merge requests | apply-change-delete and delete-redeclare need two; validation and merge are separate steps |
| `MaxFaults` | 1 crash or lost result | repair from one fault is the claim; `er_two_keys` has no faults because `ImplementsJobSlots` and `SyncedItemsExist` are proved for any number, as are the safety properties of the newer modules |
| `MaxCli` | 1 call | read and write are separate steps, so it races everything once |
| `Clients`, `Names` | 2 clients with 1 job, 1 client with 2 jobs | interference needs two clients on one job; the list wait needs two jobs |
| `Uids` | 5 or 6 | jobs, secrets and lookups can hold at most that many at once |
| `Interval`, `Timeout`, `MaxDelay` | 2, 2 or 3, 0 or 1 | the timeout is not a multiple of the interval in `jc_one_client`, so the last sleep is cut; polls may overrun |
| `MaxVersion`, `Orgs` | one change that adds the second organization | two lock keys that overlap |
| `ProdTasks`, `DryRuns` | 2 and 1 outstanding | a backlog of one behind the running task; a slot is reused by later posts, so posts are unbounded |
| `LockTimeout`, `MaxRun` | 2, 1 | the least values with `MaxRun < LockTimeout` |
| `Procs`, `MaxVersion`, `MemoryTtl`, `RedisTtl` (`TwoTierCache`) | 2, 2, 2, 2 | a reader and a writer of either discipline; a version superseded twice; each tier shows an entry for more than a tick |
| `LockTtl`, `MaxHold` | 2, 1 | the least values with `MaxHold < LockTtl` |
| `MRs`, `RebaseLimit`, `MergeLimit` | 3, 1 or 2, 2 | lead, member and one of the member's tenant; a limit less than the queue |
| `OnDemand` | TRUE in `mq_drains`, FALSE in `mq_queue` | what is not verified only shrinks what merges, so the queue is where it matters; the theorems are for both values. In `mq_drains` no member has a pipeline that runs (its tests have passed), so members that wait for one occur in `mq_queue` only |
| `MaxExternal`, `MaxRelabels`, `MaxPushes` | 1 each, 0 where liveness is checked | one disturbance of each kind at any moment; QueueDrains is about what people leave alone |
| `Channels`, `BatchLimit`, `MaxChanges` | 3, 2, 4 | a full batch, one with room and one alone; two channels in one file and one in another (`FileOf`); without a bound on changes, other promotions of a batch can start its check over for ever |
| `Clusters`, `MaxVersion`, `MaxSoak` (`Upgrades`) | 4, 1, 1; 3, 2, 2 in `UPVersions` | a publisher, an upstream sector, two that share a sector and a mutex; soak days saturate at `MaxSoak`, which is what a cluster waits for |
| `Targets`, `Runs`, `MaxCommit`, `MaxSoak` (`Deployments`) | 3, 2, 1, 1 | two publishers, of which one is of the subscriber's job; two pipeline runs that overlap; one commit to promote |
| `MaxFaults` of the newer modules | 1 | as above; with two, `QueueDrains` fails (divergence 16) |

Symmetry is declared in `dp_deploys` only, of the two slots for pipeline runs: they are alike, and the
run checks safety. Deadlock is checked in every run but `er_two_keys`.

## Fairness

- `ExternalResources`: weak fairness of the run as a whole (an integration is a loop in a pod that
  Kubernetes restarts); strong fairness of the success of a job, of the sync to clusters and of
  the writes to Vault, of the deletion of the source and of the sync from Vault, each of which the
  code tries again in the next run; weak fairness of the drift interval, which is time. None of the command line,
  merges, crashes or expiry.
- `JobController`: weak fairness of a client's steps and of its next call, strong fairness of the
  start and the success of a job and weak fairness of its deadline. None of expiry or garbage
  collection. Liveness of work assumes that it is asked for again and again, which integrations do.
- `ApiTasks`: the workers for merge requests keep going and the broker delivers what is queued.
  `DryRunsEnd` assumes nothing of production; `NewestWins` assumes the production workers, the
  posts of the reconcile loop and time (`ProdFairness`).
- `TwoTierCache`: a worker that waits takes the lock if it is free again and again (redis-py polls),
  one that has begun goes on, and time passes. No worker has to begin anything.
- `MergeQueue`: the integration runs again and again, and the window in which a group may grow
  closes, which is time. Pipelines need not end: `QueueDrains` assumes it where it says so.
- `PromotionBatches`: SAPM's runs, qontract-server's reload, the checks of merge requests and their
  merge by gitlab-housekeeping.
- `Upgrades`: the runs and the days go on, OCM executes a policy, and the schedule of every cluster
  comes near again and again with its gates agreed, which is stated as the premise `[]<>(c \in due)`.
- `Deployments`: only safety is checked; nothing there retries a pipeline run.

## Proofs

All proofs are checked by `tlapm` for every value of the constants that satisfies the named
assumptions. Every invariant, action property and refinement that a run checks has a theorem; what
is model-checked only is liveness.

| Theorem | Property | Hypothesis |
|---|---|---|
| `TypeCorrect`, in each `_proofs` module | `TypeOK` | |
| `ExternalResources_proofs!NoUpsert` | `SyncedItemsExist` | |
| `ExternalResources_proofs!JobsAreSlots` | `ImplementsJobSlots` | |
| `ExternalResources_proofs!JobsAreTracked` | `RunningJobIsTracked` | `Undisturbed` |
| `ExternalResources_proofs!CreatedIsApplied` | `CreatedMeansApplied` | `Undisturbed`, `KeptDeclared` |
| `JobController_proofs!WaitIsBounded` | `NoOversleep` | |
| `JobController_proofs!ResultsStand` | `ResultsStick` | |
| `JobController_proofs!OneClientImplementsSlots` | `ImplementsJobSlots` | one client, no REPLACE_IN_PROGRESS |
| `ApiTasks_proofs!MutualExclusion` | `ExclusiveRuns` | `MaxRun < LockTimeout` |
| `TwoTierCache_proofs!LockIsKeptAlways` | `LockIsKept` | `LockOutlastsHolders` |
| `TwoTierCache_proofs!NothingComesBack` | `NoRepopulation` | `LockOutlastsHolders` |
| `TwoTierCache_proofs!Refinement` | `ImplementsStaleRegister` | `LockOutlastsHolders` |
| `MergeQueue_proofs!SerialIsTested` | `SerialMergesAreTested` | |
| `MergeQueue_proofs!GroupIsIntact` | `GroupMergesOnGroup` | |
| `MergeQueue_proofs!GroupIsOne` | `OneGroup` | |
| `MergeQueue_proofs!RunMergesOne` | `OneMergePerRun` | |
| `MergeQueue_proofs!HeldStaysOpen` | `HeldIsNotMerged` | |
| `PromotionBatches_proofs!RequestsAreApart` | `OneRequestPerChannel` | |
| `PromotionBatches_proofs!BatchesAreFull` | `OneBatchWithRoom` | |
| `PromotionBatches_proofs!NothingPromotesBackwards` | `NoneIsBehind` | |
| `PromotionBatches_proofs!FilesOfOneAreNotRolledBack` | `NoRollback` | no two channels in one file |
| `Deployments_proofs!GateHolds` | `PromotedAfterSuccess` | `NewPublishToNew` |
| `Deployments_proofs!PromotionsAreSoaked` | `SoakedBeforePromotion` | `NewPublishToNew` |
| `Deployments_proofs!SuccessIsKept` | `OnceIsKept` | |
| `Deployments_proofs!NothingIsForgotten` | `ChangesAreTriggered` | `OnlyForward` |
| `Upgrades_proofs!MutexesAreHeld` | `MutexesHold` | |
| `Upgrades_proofs!SectorsAreInOrder` | `SectorsInOrder` | |
| `Upgrades_proofs!UpgradesAreSoaked` | `SoakedBeforeUpgrade` | |
| `Upgrades_proofs!PublishersGoFirst` | `PublishersFirst` | |
| `Upgrades_proofs!UpgradesAreSingle` | `OneUpgradePerCluster` | `HostedAlone` |

### Assumptions and hypotheses

The `ASSUME` of each module gives the constants their types. Those that say more are of `Upgrades`
and `Deployments`. `SectorsAssumption`: the dependencies of sectors have no cycle, which
`Sector.validate_dependencies` (`aus/models.py:262`) rejects, and a sector is of one organization,
which keeps its sectors to itself. Clusters, organizations, sectors, targets and channels are finite
in number.

A hypothesis is stated in the theorem that needs it. All but `NewPublishToNew` are the line between
what the code promises and a divergence below (the number in parentheses): without them the property
is false.

- `MaxRun < LockTimeout`, `LockOutlastsHolders` (`MaxHold < LockTtl`): work under a Redis lock ends
  before the lock expires. The code guarantees it nowhere (a task's lock lives 600 seconds, a task
  has no limit as short as that); the theorems are what it promises as long as it is so. Without:
  `TTRenewal.cfg` (14).
- `Undisturbed`: no run dies, the command line is not used, no module has outputs to synchronise. A
  run that dies between the job and IN_PROGRESS, a command line that overwrites IN_PROGRESS and the
  end of the sync (2) each leave a running job that the record does not speak of. `KeptDeclared`:
  nothing is deleted (1). These are the conditions of `er_tracked`, for any keys and merges.
- `NewPublishToNew`: what is deployed at first does not subscribe to a target that never was. It is
  about the state that the model starts in, which the gate has not seen come about.
- No two channels have subscribers in the same file: then a request carries nothing but what it promotes.
  Without: `PBOverwrite.cfg` (26).
- `OnlyForward`: changes are not taken back (21), and a target that follows its branch has been
  deployed before (22).
- `HostedAlone`: no sector with a hosted cluster allows that cluster's own mutex to be held twice.
  Only `max_parallel_upgrades` given as a number can do that, as a percentage (up to 100) is
  taken of the clusters with the mutex, which for the own mutex is one. Without: `UPTwoOfLate.cfg` (19).

### The inductive invariants

**External resources.** The inductive invariant is `IInv == TypeInv /\ PlanInv /\ CacheInv /\
SyncInv`. `PlanInv`: each key is handled at most once in a run, so the key in hand is not in the
rest of the plan. `CacheInv`: for a key that has not been handled, a job the cache calls finished is
not running, and when the run is about to create a job the slot is empty. The step that needs it is
`ReplaceJob`: the decision comes from the cache, the deletion hits the cluster, and only because
jobs of a key are created by this run alone, once, can a cached "finished" not have become
"running". `SyncInv`: a key that was pending when the run began, or that the run has found pending,
has an item. A run removes an item only when it finds the key in progress with its job done; a
pending key is not in progress until this run has handled it, and it is handled once. The command
line and the sync itself only ever change the status of an item they find.

For record and cloud, `QuietInv` says what `Undisturbed` rules out (nothing pending, no stub), and
`TrackInv` that the copy of the item in hand is what the table says, and that a job the old cache
shows in progress is on record as such: then `NeedsReconciliation` never starts work over a job that
runs, which is what `RunningJobIsTracked` needs although it compares only table and cluster.
`ApplyInv` adds that what is on record as in progress is the job of the key with those inputs, that
its success left them in the cloud, and that an end seen in the cache is still the end of the job.

**Job controller.** `IInv` adds to the type where a name is set, that elapsed time is at most the
timeout when a poll starts (the sleep is cut) and at most one poll more when it is checked, and that
whatever is left has no final result. For `OneClientImplementsSlots`, `CacheInv` says that a job the
cache calls finished does not run for as long as the cache is still going to be consulted about it
(`Consults`: all names between calls and after a poll, those not yet enqueued during a call). The
assumption of one client is not a convenience: with two the property fails (divergence 8).

**Tasks.** `IInv == TypeOK /\ CurrentInv /\ LockInv`. `LockInv`: the lock of a run is its worker's
and has `LockTimeout - age` left. It cannot expire under the run, which makes it exclusive, through
lost workers (whose lock stays until it expires) and redeliveries.

**Cache.** `LockInv` is the same argument. `GotInv`: what a reader has fetched and not yet filled in
has not been invalidated since, because a writer invalidates under the lock that the reader holds,
and is superseded for no longer than the lock is held. `RedisInv` and `MemoryInv` carry that age
into the tiers, where each tick that ages a version also takes from the time to live. The bound of
`Staleness` is then the sum of the three, and each read a read of `StaleRegister`.

**Merge queue.** `SerialMergesAreTested` and `GroupMergesOnGroup` are about `target`, which grows
for ever; what keeps them is about its end. `LeadInv`: a lead label belongs to the one request that
was merged as a lead and since when only members and merges of others came. `TestedInv`: as long as
there has been no lead, the pipeline of a request ran on what it is rebased on; a group is what
breaks the link, as candidates keep their pipelines. `MembersInv`: a member still to be looked at
that is on the tip finds the group whole below it (`TailIsGroup`) and nothing merged in this run.
`ApartInv`: the members share no tenant, neither with one another nor with the candidates being
added. `ListInv`: whatever list a run goes by, what was held when it began is not in it. `_form_omm_group` takes candidates in the order of the queue unless they share a tenant
with what it has; `Chosen` states the result as a set that has that property, and `ChosenExists`
says that there is one.

**Promotions.** What is open, what is being rendered or opened and what is being closed are never apart at
once (`PhaseInv`, `ApartInv`): `OpeningInv` says that a request yet to be opened shares a channel only
with one that is on the list to be closed, and the close loop is over when the open loop begins;
`RenderedInv` that what is rendered is rendered once. `VersionInv` orders master, open requests, what is
wanted and what is published: whatever else merges in between can only move a channel up to a version
that is open, which is not newer than what is wanted, or back to one that a file carries, which is
not newer than what is asked for. That is why a request is never behind for its own channels although
master itself may move back. `RoomInv` is the same for batches with room. For
`FilesOfOneAreNotRolledBack`, `OwnInv` adds that a request carries only its own promotions.

**Deployments.** The four properties have an invariant each on top of `TypeInv`. `GateInv` follows a
success from the target into promotion data (`DataInv`), from there through the copy a publishing
run has read (`ResultsOf`) and through the gate to what a run still applies (`GateOf`): each is of a
success that there was. `SoakInv` does so for days: `check_in` and every copy of it is not older
than `proven`. `OverlapInv` and `ReadInv` say that while no two runs of the publisher's job are in
progress, what a run has read of a success is what is there. `WaitInv` and `ContentInv`: a change
that waits has a target in its job whose saved state is behind and is not just being saved, or is
behind of what is being saved.

**Upgrades.** A run goes by a list of all clusters that grows old while it works. `ListingInv` and
`AheadInv`: versions only grow, so the list is a lower bound, and a policy is above the version of
its cluster. `PlanInv`: a run is alone in creating policies, so what has one is among what it has
seen, and whoever it plans for it has considered. From there `MutexInv` and `SectorInv` treat what
is planned as created: what a run allows while it looks at one cluster after the other is allowed
for all of them together, and stays so while OCM executes policies in any order. `FirstOnPaths` and
`FirstOnTheWay` are about `workload_sector_dependencies`: by going on upstream where a sector has no
cluster with the workload, every sector upstream is covered, as the nearest ones are by the check
and those behind by `SectorInv`. `StatsInv` and `PublishInv`: the inherited minimum of an old run is
still a lower bound. `SoakInv`: the days a history counts, and will count with what was listed or is
there, have been real days (`ran`).

**Sums and minima.** Soak days are added up with folds of the community modules, over sets whose
size is a constant. No induction theorem can be instantiated here, so `SumExists` shows that the
function behind the fold exists by a largest set of subsets for which it does, and `SumGrows` that
it is monotone by a smallest counterexample (the subset order of a finite set is well-founded);
`FiniteMinimum`, `LowestSector` and `ChosenExists` are of the same kind.

### Model-checked only

The liveness properties (`ApplyConverges`, `OutputsConverge`, `DeleteConverges`, `CallsEnd`,
`WorkSucceeds`, `NewestWins`, `DryRunsEnd`, `LockWaitsEnd`, `QueueDrains`, `GroupsEnd`,
`GoodPromotionsAreMerged`, `ClustersAreUpgraded`): the provers here reason about steps, not about
fairness. The properties of the divergences are refuted by TLC.

## Divergences found

Where the code does something else than a comment, a document or a test of the repository says, or
than its callers need. The property that states it is in the module; where no configuration is
named, TLC finds it violated in the instance of a run, with the property in the place of those of the run.
`ERDiverges.cfg` is the instance of five of them: it checks the first and names the others.
`PROJECT.json` lists no findings: its runs are all of properties that hold.

External resources, job controller and tasks:

1. `RemovedMeansDestroyed` (`ERDiverges.cfg`; `manager.py:330`). The meaning of a job's success is taken
   from the action wanted now. Mark a resource to delete while its apply job runs: the success of the
   apply is recorded as DELETED, the item is removed, no destroy job ever runs, and the resource stays
   in the cloud.
2. `CreatedIsNotRunning` (`ERDiverges.cfg`; `manager.py:411`). The end of a run marks every key
   CREATED that was pending secret sync when the run began, also one for which this run has just
   started a job and recorded IN_PROGRESS. The job's result is then not recorded and its outputs are
   not synchronised until the drift interval passes.
3. `WorkSucceeds` without a deadline (`JCSecretless.cfg`; `controller.py:338`). A client that dies between
   the job and its secret leaves a pod that cannot start; without an active deadline (rosa) the job
   stays in progress for ever and every later call waits for it. With a deadline the work is done
   (`jc_work`).
4. `DuplicatesAreSkipped` (instance of `at_tasks`; `cache/redis.py:142`). A duplicate waits for the lock
   and runs; the documented SKIPPED is never returned.
5. `OneRunPerOrg` (instance of `at_tasks`; `quay_repos/tasks.py:30`). The lock key is the whole list of
   organizations, so when the list changes two tasks work on the same organizations at once.
6. `CliNeverCreates` (`ERDiverges.cfg`). The command line reads, the run removes the item, and the
   unconditional `update_item` creates a stub that every later run dies on.
7. `LinkedAlwaysRequested` (`ERLinked.cfg`). "Every time the parent finishes" (`aws.py`): a dependant
   whose job is running is skipped and not requested later.
8. `PolicyObeyed` (`JCPolicy.cfg`). With two clients on one job, a policy without
   REPLACE_IN_PROGRESS deletes a running job, decided from a cache in which it had failed.
9. `ReturnedMeansFinished` (`JCTimeout.cfg`). The list wait's docstring says that a timeout raises;
   it returns.
10. `StartsWithOwnSecret` (`JCSecret.cfg`). A replaced job may start with the secret of its predecessor,
    which is collected only later.
11. `SkippedDeletionsLeaveNoItem` (`ERDiverges.cfg`). An item with status NOT_EXISTS (crash before
    its first job) is skipped as already removed, and its orphan check then keeps the key.
12. `DeleteConverges` under links (`ERDeleteStuck.cfg`). A replica requested by its parent and then
    marked to delete stays RECONCILIATION_REQUESTED: the destroy branch does not list that status.
13. `CallsEnd` without a timeout (`JCForever.cfg`). A wait for a job that is not there never ends: its
    result expired before the first poll, or another client deleted it and died.

Cache, merge queue, upgrades and deployments:

14. `LockIsKept` (`TTRenewal.cfg`). The lock's docstring promises "Automatic renewal (watch-dog pattern)"
    (`redis.py:124`); redis locks are not renewed, and a holder that takes longer than the timeout
    works beside the next one.
15. `UntestedIsDisjoint` (`MQOverlap.cfg`). ADR-019: a member's pipeline result "is still valid because the
    MR's changes do not overlap with the merged changes". Overlap is only checked within a group: what was
    merged after the member's pipeline ran and before the group was formed may be of its own tenant.
16. `QueueDrains` with two faults (`MQOrphan.cfg`). If the strategy is changed away from
    `active-cap-multi-merge` and the first run after it fails between the two halves of
    `clear_omm_group`, the members keep `omm-pending`; the other strategies neither clear that label
    nor rebase what carries it.
17. `WithheldIsNotMerged` (instance of `mq_queue`). A member that loses its approval is merged with its
    group all the same: only holds and failed pipelines are looked at again.
18. The docstring "Enforces `merge_limit`" (`gitlab_housekeeping.py:1322`): a group merges at most what it
    says, but outside a group a run merges one request whatever the limit is, since nothing else is
    rebased after it (`OneMergePerRun`, which holds).
19. `OneUpgradePerCluster` with `max_parallel_upgrades` of two (`UPTwoOfLate.cfg`). The upgrade of a hosted
    cluster's nodes that an earlier run scheduled takes one of the two places of its sector; the next run
    still finds the nodes behind and creates the same policy again ("node pool update policy not yet
    created", `base.py:1304`). With one upgrade allowed, the cluster's own mutex prevents it.
20. `MutexIsExclusive` (`UPMixed.cfg`). "We allow 1 upgrade per mutex, across the whole org"
    (`base.py:1073`) holds for clusters of sectors without a maximum only: a cluster of a
    sector with one does not look at the mutexes that others hold.
21. `NothingIsLost` when a change is taken back (`DPTakenBack.cfg`). Two targets of a job change; the
    thread of the first is to create the pipeline run, the thread of the second saves its target as
    triggered, and the creation fails (`openshift_saas_deploy_trigger_base.py:320`). As long as the
    first differs the next run triggers the job for both, which is `ChangesAreTriggered`; once the
    change of the first is taken back, nothing differs and the second is not deployed.
22. `ChangesAreTriggered` for a new target (`DPNewTarget.cfg`; `saasherder.py:1597`). `moving-commits` notes
    the newest commit of a target it does not know, and leaves its deployment to `configs`, whose
    pipeline run may have read an older commit: the commit is not deployed until the next one comes.
23. `OnceIsForever` (instance of `dp_deploys`). "This shouldnt be overridden on subsequent promotions of
    same ref" (`promotion_state.py:30`): two pipeline runs of a job that overlap read the promotion data
    before either has written, and the failure of the second hides the success of the first.
24. `NewestStays` (instance of `dp_deploys`). An older pipeline run of a job that applies after a newer one
    leaves its targets at what was wanted before, and nothing differs any more.
25. `TestedAreMerged` (`MQOnDemand.cfg`; `gitlab_housekeeping.py:943`). Of requests that must pass on-demand
    tests the merging half leaves out those that have not, the rebasing half does not: one that is
    approved, rebased and green and whose tests nobody starts takes up a slot of the rebase
    limit for good, and requests whose tests do pass are never rebased.
26. `NoRollback` (`PBOverwrite.cfg`; `merge_request_manager_v2.py:173`). All additions are rendered before
    the first is opened, and a branch is made of the main of that later moment with whole files
    overwritten (`mr/base.py:172`): a promotion of another channel of the same file that was merged in
    between is taken back without a conflict. A later run promotes it again
    (`GoodPromotionsAreMerged`); no request is ever behind for its own channels (`NoneIsBehind`).
27. `CreatedMeansSynced` (`ERDiverges.cfg`; `secrets_sync.py:427`). "Outputs secret for key has been reconciled.
    Marking resource as CREATED" (`manager.py:406`): if the namespace does not exist the key is marked at
    once, and after an error that a cluster registered by the next run, as Vault has been written and
    the source secret deleted. The outputs are then not where they belong until the sync from Vault
    brings them.

## What is not modelled

Logging, metrics, formatting and the content of secrets and manifests, the dry run of ERv2 beyond
its jobs, the logs of jobs, the generation of Terraform documents, GraphQL and the thin API clients.
The GET that waits for the result of a task. Of the modules' components, what each section of
[modules](#modules-and-the-code) says; of gitlab-housekeeping also stale issues and old pipelines, of
saasherder also the triggers for upstream jobs and images, the processing of templates, blocked and
hotfix versions, the hash in `promotion_data` and service-level objectives. Kubernetes,
DynamoDB, S3, Redis, Celery, Tekton, GitLab and OCM are modelled by what the code relies on, and those
definitions are marked external. The components in the second table of the inventory follow the
plan or are of the same kind as one that is modelled; those of the last row keep no state. Most of the repository is
such code: queries, clients, renderers and one-pass comparisons, where a model would only restate
the program.

## Plan

Modelled so far: the external resources, the job controller, the tasks, the cache, the merge queue, the
auto-promotions, the deployments and the upgrades. What is left, in this order:

1. Proofs. Every safety property that a run checks has a theorem. What is worth more: for ERv2 an
   invariant that relates record and cloud with crashes, deletions and outputs (what a drift interval
   may repair), for the sync that the outputs in Vault are those of a job that has ended,
   for `ApiTasks` the order in which versions reach an organization, and the abstract
   specifications still to be stated for the merge queue and the promotion gate.
2. `StateStore`: the keys of S3 with the transaction context manager, as an abstract specification
   that `Deployments` and `Upgrades` write to in one step.
3. `SecretsSync`: the two reconcilers of `secrets_sync.py` at the grain of their calls, with clusters and
   time stamps, as a module of their own that implements the sync steps of `ExternalResources`.
4. `ChangeDecision`: coverage and decision as pure operators against a reference definition.
5. The waiting GET over `ApiTasks`; the schedule between merges and runs, for the orphan check's
   window (`manager.py:117`).

## How to run

    tlasany ExternalResources.tla
    tlc -workers 2 -config ERApply.cfg MCExternalResources.tla
    tlapm JobController_proofs.tla
