------------------------------ MODULE ApiTasks ------------------------------
(***************************************************************************)
(* The background tasks of one qontract-api integration (quay-repos and its *)
(* siblings).  Every tick of the reconcile loop posts the desired state of  *)
(* all organizations and forgets about it; the checks of merge requests     *)
(* post dry runs.  Celery puts the tasks on the queue of their kind, and    *)
(* workers of that queue run them one at a time and acknowledge them late.  *)
(* Production tasks run under a distributed lock with a time to live.       *)
(*                                                                         *)
(* Time is counted in ticks while a production task holds its lock.         *)
(***************************************************************************)
EXTENDS Integers, FiniteSets

CONSTANTS
    Orgs,
    MaxVersion,   \* bound on the changes of the desired state
    Members,      \* the organizations of a version of the desired state
    ProdTasks,    \* production tasks at a time: the bound on the backlog
    DryRuns,      \* dry runs at a time
    ProdWorkers,
    MrWorkers,    \* workers of the queue for merge requests
    NoTask,       \* not a task
    NoWorker,     \* not a worker
    LockTimeout,  \* timeout of deduplicated_task
    MaxRun,       \* bound on the run of a production task
    MaxFaults     \* bound on lost workers, failing organizations, redeliveries

Versions == 0..MaxVersion
Workers == ProdWorkers \cup MrWorkers
Tasks == ProdTasks \cup DryRuns

ASSUME ApiTasksAssumption ==
    /\ MaxVersion \in Nat
    /\ Members \in [Versions -> SUBSET Orgs]
    /\ NoTask \notin Tasks
    /\ NoWorker \notin Workers
    /\ ProdWorkers \cap MrWorkers = {}
    /\ ProdTasks \cap DryRuns = {}
    /\ LockTimeout \in Nat \ {0}
    /\ MaxRun \in Nat
    /\ MaxFaults \in Nat

VARIABLES
    version, \* of the desired state in app-interface
    applied, \* the version an organization was last brought to
    task,    \* the desired state a task has to bring about, by its version
    queued,  \* tasks on the queues of the broker
    unacked, \* tasks delivered and not acknowledged
    lock,    \* by lock key: owner, and time to live
    faults

VARIABLES
    pc,      \* of a worker
    current, \* its task
    todo,    \* organizations its task has not reconciled yet
    age      \* ticks since it got the lock

broker == <<task, queued, unacked>>
worker == <<pc, current, todo, age>>
vars == <<version, applied, broker, lock, faults, worker>>

Unlocked == [owner |-> NoWorker, ttl |-> 0]

\* generate_lock_key: one key for all organizations of a task.
LockKey(t) == Members[task[t]]
LockKeys == {Members[v] : v \in Versions}

\* The workers of queue_for.
QueueFor(t) == IF t \in DryRuns THEN MrWorkers ELSE ProdWorkers

\* Mutant: dry runs take the lock of their organizations as well.
NeedsLockAlways(t) == TRUE
NeedsLock(t) == t \notin DryRuns

\* Mutant: the lock lives exactly as long as the longest run.
LockTtlTight == MaxRun
LockTtl == LockTimeout

\* Mutant: a lock without a timeout stays until it is released.
AgedNever(l) == l
\* Mutant: the time to live is counted down past its end.
AgedBelow(l) == [l EXCEPT !.ttl = @ - 1]
\* The broker counts a lock down and removes it at the end of its time.
Aged(l) == IF l.ttl <= 1 THEN Unlocked ELSE [l EXCEPT !.ttl = @ - 1]

\* Nobody will deliver or run the task any more.
Over(t) ==
    /\ t \notin queued \cup unacked
    /\ \A w \in Workers : current[w] # t
-----------------------------------------------------------------------------
Init ==
    /\ version = 0
    /\ applied = [o \in Orgs |-> 0]
    /\ task = [t \in Tasks |-> 0]
    /\ queued = {}
    /\ unacked = {}
    /\ lock = [k \in LockKeys |-> Unlocked]
    /\ faults = 0
    /\ pc = [w \in Workers |-> "idle"]
    /\ current = [w \in Workers |-> NoTask]
    /\ todo = [w \in Workers |-> {}]
    /\ age = [w \in Workers |-> 0]

\* A merge to app-interface.
Merge ==
    /\ version < MaxVersion
    /\ version' = version + 1
    /\ UNCHANGED <<applied, broker, lock, faults, worker>>

\* async_run posts the desired state it has just read.
Post(t) ==
    /\ Over(t)
    /\ task' = [task EXCEPT ![t] = version]
    /\ queued' = queued \cup {t}
    /\ UNCHANGED <<version, applied, unacked, lock, faults, worker>>

Take(w, t) ==
    /\ pc[w] = "idle"
    /\ t \in queued
    /\ w \in QueueFor(t)
    /\ queued' = queued \ {t}
    /\ unacked' = unacked \cup {t}
    /\ current' = [current EXCEPT ![w] = t]
    /\ todo' = [todo EXCEPT ![w] = Members[task[t]]]
    /\ pc' = [pc EXCEPT ![w] = IF NeedsLock(t) THEN "try" ELSE "run"]
    /\ UNCHANGED <<version, applied, task, lock, faults, age>>

GetLock(w) ==
    LET key == LockKey(current[w]) IN
    /\ lock[key] = Unlocked
    /\ lock' = [lock EXCEPT ![key] = [owner |-> w, ttl |-> LockTtl]]
    /\ pc' = [pc EXCEPT ![w] = "run"]
    /\ age' = [age EXCEPT ![w] = 0]

\* The lock is blocking and has no blocking timeout: acquire comes back only
\* with the lock, so the result SKIPPED is never returned.
TryLock(w) ==
    /\ pc[w] = "try"
    /\ \/ GetLock(w)
       \/ /\ lock[LockKey(current[w])] # Unlocked
          /\ pc' = [pc EXCEPT ![w] = "blocked"]
          /\ UNCHANGED <<lock, age>>
    /\ UNCHANGED <<version, applied, broker, faults, current, todo>>

RetryLock(w) ==
    /\ pc[w] = "blocked"
    /\ GetLock(w)
    /\ UNCHANGED <<version, applied, broker, faults, current, todo>>

\* service.reconcile, one organization after the other, the errors of one
\* do not keep it from the next.
ReconcileOrg(w, o) ==
    /\ pc[w] = "run"
    /\ o \in todo[w]
    /\ todo' = [todo EXCEPT ![w] = @ \ {o}]
    /\ applied' = IF current[w] \in DryRuns THEN applied
                  ELSE [applied EXCEPT ![o] = task[current[w]]]
    /\ UNCHANGED <<version, broker, lock, faults, pc, current, age>>

OrgFails(w, o) ==
    /\ pc[w] = "run"
    /\ o \in todo[w]
    /\ faults < MaxFaults
    /\ faults' = faults + 1
    /\ todo' = [todo EXCEPT ![w] = @ \ {o}]
    /\ UNCHANGED <<version, applied, broker, lock, pc, current, age>>

\* The lock is released, unless it is no longer the worker's.
EndRun(w) ==
    LET key == LockKey(current[w]) IN
    /\ pc[w] = "run"
    /\ todo[w] = {}
    /\ lock' = IF lock[key].owner = w THEN [lock EXCEPT ![key] = Unlocked] ELSE lock
    /\ pc' = [pc EXCEPT ![w] = "done"]
    /\ age' = [age EXCEPT ![w] = 0]
    /\ UNCHANGED <<version, applied, broker, faults, current, todo>>

\* acks_late.
Acknowledge(w) ==
    /\ pc[w] = "done"
    /\ unacked' = unacked \ {current[w]}
    /\ pc' = [pc EXCEPT ![w] = "idle"]
    /\ current' = [current EXCEPT ![w] = NoTask]
    /\ UNCHANGED <<version, applied, task, queued, lock, faults, todo, age>>

\* The pod of a worker goes, its lock and its message stay.
WorkerDies(w) ==
    /\ pc[w] # "idle"
    /\ faults < MaxFaults
    /\ faults' = faults + 1
    /\ pc' = [pc EXCEPT ![w] = "idle"]
    /\ current' = [current EXCEPT ![w] = NoTask]
    /\ todo' = [todo EXCEPT ![w] = {}]
    /\ age' = [age EXCEPT ![w] = 0]
    /\ UNCHANGED <<version, applied, broker, lock>>

\* The visibility timeout of a message that is not acknowledged passes, as a
\* rule because its worker is gone.
Redeliver(t) ==
    /\ t \in unacked
    /\ IF \E w \in Workers : current[w] = t
       THEN faults < MaxFaults /\ faults' = faults + 1
       ELSE faults' = faults
    /\ unacked' = unacked \ {t}
    /\ queued' = queued \cup {t}
    /\ UNCHANGED <<version, applied, task, lock, worker>>

\* The workers that run a production task.
Running == {w \in Workers : pc[w] = "run" /\ current[w] \in ProdTasks}

Tick ==
    /\ \E k \in LockKeys : lock[k] # Unlocked
    /\ \A w \in Running : age[w] < MaxRun
    /\ age' = [w \in Workers |-> IF w \in Running THEN age[w] + 1 ELSE age[w]]
    /\ lock' = [k \in LockKeys |-> Aged(lock[k])]
    /\ UNCHANGED <<version, applied, broker, faults, pc, current, todo>>

Step(w) ==
    \/ \E t \in Tasks : Take(w, t)
    \/ TryLock(w) \/ RetryLock(w)
    \/ \E o \in Orgs : ReconcileOrg(w, o)
    \/ EndRun(w) \/ Acknowledge(w)

Next ==
    \/ Merge
    \/ \E t \in Tasks : Post(t) \/ Redeliver(t)
    \/ \E w \in Workers : Step(w) \/ WorkerDies(w) \/ \E o \in Orgs : OrgFails(w, o)
    \/ Tick

Spec == Init /\ [][Next]_vars

\* The workers for merge requests keep going, and the broker does its part: it
\* delivers again what a lost worker had, and its queues are first in, first
\* out, so a task is not passed over for ever by later ones.
FairSpec ==
    /\ Spec
    /\ \A w \in MrWorkers : WF_vars(Step(w))
    /\ \A t \in Tasks : /\ SF_vars(\E w \in MrWorkers : Take(w, t))
                         /\ WF_vars(Redeliver(t) /\ faults' = faults)

\* The reconcile loop keeps ticking, production workers and time go on.
ProdFairness ==
    /\ \A w \in ProdWorkers : WF_vars(Step(w))
    /\ WF_vars(\E t \in ProdTasks : Post(t))
    /\ WF_vars(Tick)
-----------------------------------------------------------------------------
TypeOK ==
    /\ version \in Versions
    /\ applied \in [Orgs -> Versions]
    /\ task \in [Tasks -> Versions]
    /\ queued \subseteq Tasks
    /\ unacked \subseteq Tasks
    /\ lock \in [LockKeys -> [owner : Workers \cup {NoWorker}, ttl : 0..LockTimeout]]
    /\ faults \in Nat
    /\ pc \in [Workers -> {"idle", "try", "blocked", "run", "done"}]
    /\ current \in [Workers -> Tasks \cup {NoTask}]
    /\ todo \in [Workers -> SUBSET Orgs]
    /\ age \in [Workers -> 0..MaxRun]

\* deduplicated_task: "Prevents multiple instances of the same task from
\* running simultaneously", through lost workers and redelivered messages, as
\* long as no run outlasts the timeout of the lock.
ExclusiveRuns ==
    \A v, w \in Running : LockKey(current[v]) = LockKey(current[w]) => v = w

\* After the last merge, the organizations come to stay in its desired state:
\* tasks with older ones, which wait for the lock in no order or are delivered
\* again, only undo that for a while.
NewestWins ==
    ProdFairness =>
        <>[](\A o \in Members[MaxVersion] : version = MaxVersion => applied[o] = MaxVersion)

\* A dry run ends whatever happens to production: nothing is assumed of
\* production workers, not even that they ever give back a lock.
DryRunsEnd == \A t \in DryRuns : t \in queued ~> Over(t)

\* "Non-blocking: Returns the function's own result type with SKIPPED status if
\* duplicate detected": what has met the lock of another run does not run.
DuplicatesAreSkipped == [][\A w \in Workers : pc[w] = "blocked" => pc'[w] # "run"]_vars

\* Tasks are deduplicated "to prevent concurrent reconciliations for the same
\* organizations".
OneRunPerOrg ==
    \A v, w \in Running :
        LockKey(current[v]) \cap LockKey(current[w]) # {} => v = w
=============================================================================
