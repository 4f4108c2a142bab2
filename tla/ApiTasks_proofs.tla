-------------------------- MODULE ApiTasks_proofs --------------------------
(***************************************************************************)
(* Type correctness of the task queue, and the mutual exclusion of its      *)
(* production tasks, for any number of workers, tasks and organizations,    *)
(* any desired states and any number of faults, given that no run outlasts  *)
(* the timeout of the lock.                                                 *)
(***************************************************************************)
EXTENDS ApiTasks, TLAPS

\* A worker has a task exactly when it is not idle, and only production tasks
\* ask for a lock.
CurrentInv ==
    /\ \A w \in Workers : pc[w] # "idle" => current[w] \in Tasks
    /\ \A w \in Workers : pc[w] \in {"try", "blocked"} => current[w] \in ProdTasks

\* The lock of a run is the worker's, and has as much time left as the timeout
\* exceeds the age of the run.
LockInv ==
    \A w \in Running :
        /\ lock[LockKey(current[w])].owner = w
        /\ lock[LockKey(current[w])].ttl = LockTimeout - age[w]

IInv == TypeOK /\ CurrentInv /\ LockInv

\* The lock key of a task is a lock key.
LEMMA KeyOfTask ==
    ASSUME TypeOK, NEW t \in Tasks
    PROVE  LockKey(t) \in LockKeys
BY DEF TypeOK, LockKey, LockKeys

\* What the broker makes of a lock in a tick is a lock.
LEMMA AgedType ==
    ASSUME NEW l \in [owner : Workers \cup {NoWorker}, ttl : 0..LockTimeout]
    PROVE  Aged(l) \in [owner : Workers \cup {NoWorker}, ttl : 0..LockTimeout]
BY ApiTasksAssumption DEF Aged, Unlocked

\* Every step keeps types, and the tasks of workers.
LEMMA TypeStep ==
    ASSUME TypeOK, CurrentInv, Next
    PROVE  TypeOK' /\ CurrentInv'
<1> USE ApiTasksAssumption
<1>1. CASE Merge
  BY <1>1 DEF Merge, TypeOK, CurrentInv, worker, broker, Versions
<1>2. ASSUME NEW t \in Tasks, Post(t) PROVE TypeOK' /\ CurrentInv'
  BY <1>2 DEF Post, TypeOK, CurrentInv, worker
<1>3. ASSUME NEW t \in Tasks, Redeliver(t) PROVE TypeOK' /\ CurrentInv'
  BY <1>3 DEF Redeliver, TypeOK, CurrentInv, worker
<1>4. ASSUME NEW w \in Workers, NEW t \in Tasks, Take(w, t) PROVE TypeOK' /\ CurrentInv'
  <2>1. Members[task[t]] \in SUBSET Orgs
    BY DEF TypeOK
  <2>2. TypeOK'
    BY <1>4, <2>1 DEF Take, TypeOK
  <2>3. CurrentInv'
    BY <1>4 DEF Take, TypeOK, CurrentInv, NeedsLock, Tasks
  <2> QED BY <2>2, <2>3
<1>5. ASSUME NEW w \in Workers, current[w] \in Tasks, GetLock(w),
             UNCHANGED <<version, applied, broker, faults, current, todo>>
      PROVE  TypeOK' /\ CurrentInv'
  <2>1. LockKey(current[w]) \in LockKeys
    BY <1>5, KeyOfTask
  <2>2. [owner |-> w, ttl |-> LockTtl] \in [owner : Workers \cup {NoWorker}, ttl : 0..LockTimeout]
    BY DEF LockTtl
  <2>3. TypeOK'
    BY <1>5, <2>1, <2>2 DEF GetLock, TypeOK, broker
  <2>4. CurrentInv'
    BY <1>5 DEF GetLock, TypeOK, CurrentInv
  <2> QED BY <2>3, <2>4
<1>6. ASSUME NEW w \in Workers, TryLock(w) PROVE TypeOK' /\ CurrentInv'
  <2>1. current[w] \in Tasks
    BY <1>6 DEF TryLock, CurrentInv
  <2>2. CASE GetLock(w)
    BY <1>5, <1>6, <2>1, <2>2 DEF TryLock
  <2>3. CASE ~GetLock(w)
    BY <1>6, <2>3 DEF TryLock, TypeOK, CurrentInv, broker
  <2> QED BY <2>2, <2>3
<1>7. ASSUME NEW w \in Workers, RetryLock(w) PROVE TypeOK' /\ CurrentInv'
  BY <1>5, <1>7 DEF RetryLock, CurrentInv
<1>8. ASSUME NEW w \in Workers, NEW o \in Orgs, ReconcileOrg(w, o)
      PROVE  TypeOK' /\ CurrentInv'
  <2>1. task[current[w]] \in Versions
    BY <1>8 DEF ReconcileOrg, TypeOK, CurrentInv
  <2>2. applied' \in [Orgs -> Versions]
    BY <1>8, <2>1 DEF ReconcileOrg, TypeOK
  <2> QED BY <1>8, <2>2 DEF ReconcileOrg, TypeOK, CurrentInv, broker
<1>9. ASSUME NEW w \in Workers, NEW o \in Orgs, OrgFails(w, o)
      PROVE  TypeOK' /\ CurrentInv'
  BY <1>9 DEF OrgFails, TypeOK, CurrentInv, broker
<1>10. ASSUME NEW w \in Workers, EndRun(w) PROVE TypeOK' /\ CurrentInv'
  <2>1. LockKey(current[w]) \in LockKeys
    BY <1>10, KeyOfTask DEF EndRun, CurrentInv
  <2>2. Unlocked \in [owner : Workers \cup {NoWorker}, ttl : 0..LockTimeout]
    BY DEF Unlocked
  <2>3. lock' \in [LockKeys -> [owner : Workers \cup {NoWorker}, ttl : 0..LockTimeout]]
    BY <1>10, <2>1, <2>2 DEF EndRun, TypeOK
  <2> QED BY <1>10, <2>3 DEF EndRun, TypeOK, CurrentInv, broker
<1>11. ASSUME NEW w \in Workers, Acknowledge(w) PROVE TypeOK' /\ CurrentInv'
  BY <1>11 DEF Acknowledge, TypeOK, CurrentInv
<1>12. ASSUME NEW w \in Workers, WorkerDies(w) PROVE TypeOK' /\ CurrentInv'
  BY <1>12 DEF WorkerDies, TypeOK, CurrentInv, broker
<1>13. CASE Tick
  <2>1. age' \in [Workers -> 0..MaxRun]
    BY <1>13 DEF Tick, TypeOK
  <2>2. lock' \in [LockKeys -> [owner : Workers \cup {NoWorker}, ttl : 0..LockTimeout]]
    BY <1>13, AgedType DEF Tick, TypeOK
  <2> QED BY <1>13, <2>1, <2>2 DEF Tick, TypeOK, CurrentInv, broker
<1> QED
  BY <1>1, <1>2, <1>3, <1>4, <1>6, <1>7, <1>8, <1>9, <1>10, <1>11, <1>12, <1>13
  DEF Next, Step

LEMMA TypeInit == ASSUME Init PROVE TypeOK /\ CurrentInv
BY ApiTasksAssumption DEF Init, TypeOK, CurrentInv, Versions, Unlocked

LEMMA TypeStutter == ASSUME TypeOK, CurrentInv, UNCHANGED vars PROVE TypeOK' /\ CurrentInv'
BY DEF TypeOK, CurrentInv, vars, broker, worker

\* Every value the queue, the broker and the workers hold is of its type.
THEOREM TypeCorrect == Spec => []TypeOK
<1>1. Init => TypeOK /\ CurrentInv
  BY TypeInit
<1>2. TypeOK /\ CurrentInv /\ [Next]_vars => (TypeOK /\ CurrentInv)'
  BY TypeStep, TypeStutter
<1> QED BY <1>1, <1>2, PTL DEF Spec
-----------------------------------------------------------------------------
\* A lock keeps its owner in a tick and loses one tick of its time, unless that
\* was its last.
LEMMA AgedKeeps ==
    ASSUME NEW l \in [owner : Workers \cup {NoWorker}, ttl : 0..LockTimeout], l.ttl > 1
    PROVE  Aged(l).owner = l.owner /\ Aged(l).ttl = l.ttl - 1
BY ApiTasksAssumption DEF Aged

\* Steps that leave the locks, the runs and their ages alone.
LEMMA LockUnchanged ==
    ASSUME LockInv, UNCHANGED <<lock, age, task>>,
           \A w \in Running' : w \in Running /\ current'[w] = current[w]
    PROVE  LockInv'
BY DEF LockInv, LockKey, Running

\* A worker gets a lock nobody runs under.
LEMMA LockGet ==
    ASSUME IInv, NEW w \in Workers, pc[w] \in {"try", "blocked"}, GetLock(w),
           UNCHANGED <<task, current>>
    PROVE  LockInv'
<1> DEFINE key == LockKey(current[w])
<1>1. current[w] \in Tasks /\ key \in LockKeys
  BY KeyOfTask DEF IInv, CurrentInv, Tasks
<1>2. lock'[key] = [owner |-> w, ttl |-> LockTimeout] /\ age'[w] = 0
  BY <1>1 DEF GetLock, IInv, TypeOK, LockTtl
<1> SUFFICES ASSUME NEW v \in Running'
             PROVE  /\ lock'[LockKey(current[v])].owner = v
                    /\ lock'[LockKey(current[v])].ttl = LockTimeout - age'[v]
  BY DEF LockInv, LockKey
<1>3. CASE v = w
  BY <1>2, <1>3, ApiTasksAssumption
<1>4. CASE v # w
  <2>1. v \in Running /\ v \in Workers
    BY <1>4 DEF Running, GetLock, IInv, TypeOK
  <2>2. lock[LockKey(current[v])].owner = v
    BY <2>1 DEF IInv, LockInv
  <2>3. LockKey(current[v]) # key
    BY <2>1, <2>2, ApiTasksAssumption DEF GetLock, Unlocked
  <2>4. lock'[LockKey(current[v])] = lock[LockKey(current[v])]
    BY <1>1, <2>3, KeyOfTask, <2>1 DEF GetLock, IInv, TypeOK, Running, Tasks
  <2>5. age'[v] = age[v]
    BY <1>4, <2>1 DEF GetLock, IInv, TypeOK
  <2> QED BY <2>1, <2>4, <2>5 DEF IInv, LockInv
<1> QED BY <1>3, <1>4

\* A worker that ends its run gives back no lock but its own.
LEMMA LockEnd ==
    ASSUME IInv, NEW w \in Workers, EndRun(w)
    PROVE  LockInv'
<1> DEFINE key == LockKey(current[w])
<1>1. current[w] \in Tasks /\ key \in LockKeys
  BY KeyOfTask DEF IInv, CurrentInv, EndRun
<1> SUFFICES ASSUME NEW v \in Running'
             PROVE  /\ lock'[LockKey(current[v])].owner = v
                    /\ lock'[LockKey(current[v])].ttl = LockTimeout - age'[v]
  BY DEF LockInv, LockKey, EndRun, broker
<1>2. v # w /\ v \in Workers /\ v \in Running
  BY DEF Running, EndRun, IInv, TypeOK
<1>3. lock[LockKey(current[v])].owner = v
  BY <1>2 DEF IInv, LockInv
<1>4. lock'[LockKey(current[v])] = lock[LockKey(current[v])]
  BY <1>1, <1>2, <1>3 DEF EndRun, IInv, TypeOK
<1>5. age'[v] = age[v]
  BY <1>2 DEF EndRun, IInv, TypeOK
<1> QED BY <1>2, <1>4, <1>5 DEF IInv, LockInv

\* No lock of a run expires: the run ends first.
LEMMA LockTick ==
    ASSUME IInv, MaxRun < LockTimeout, Tick
    PROVE  LockInv'
<1> SUFFICES ASSUME NEW v \in Running'
             PROVE  /\ lock'[LockKey(current[v])].owner = v
                    /\ lock'[LockKey(current[v])].ttl = LockTimeout - age'[v]
  BY DEF LockInv, LockKey, Tick, broker
<1>1. v \in Running /\ v \in Workers /\ current[v] \in Tasks
  BY DEF Running, Tick, Tasks
<1>2. LockKey(current[v]) \in LockKeys
  BY <1>1, KeyOfTask DEF IInv
<1> DEFINE l == lock[LockKey(current[v])]
<1>3. l \in [owner : Workers \cup {NoWorker}, ttl : 0..LockTimeout]
  BY <1>2 DEF IInv, TypeOK
<1>4. l.owner = v /\ l.ttl = LockTimeout - age[v]
  BY <1>1 DEF IInv, LockInv
<1>5. age[v] \in 0..MaxRun /\ age[v] < MaxRun /\ age'[v] = age[v] + 1
  BY <1>1 DEF Tick, IInv, TypeOK
<1>6. l.ttl > 1
  BY <1>4, <1>5, ApiTasksAssumption
<1>7. Aged(l).owner = v /\ Aged(l).ttl = l.ttl - 1
  BY <1>3, <1>4, <1>6, AgedKeeps
<1>8. lock'[LockKey(current[v])] = Aged(l)
  BY <1>2 DEF Tick
<1> QED BY <1>4, <1>5, <1>7, <1>8, ApiTasksAssumption

\* Every step keeps the locks of the runs.
LEMMA LockStep ==
    ASSUME IInv, MaxRun < LockTimeout, Next
    PROVE  LockInv'
<1>1. CASE Merge
  BY <1>1, LockUnchanged DEF Merge, IInv, Running, worker, broker
<1>2. ASSUME NEW t \in Tasks, Post(t) PROVE LockInv'
  <2> SUFFICES ASSUME NEW w \in Running'
               PROVE  /\ lock'[Members[task'[current[w]]]].owner = w
                      /\ lock'[Members[task'[current[w]]]].ttl = LockTimeout - age'[w]
    BY <1>2 DEF LockInv, LockKey, Post, worker
  <2>1. w \in Running /\ current[w] \in Tasks /\ current[w] # t
    BY <1>2 DEF Running, Post, Over, worker, Tasks
  <2>2. task'[current[w]] = task[current[w]]
    BY <1>2, <2>1 DEF Post, IInv, TypeOK
  <2> QED BY <1>2, <2>1, <2>2 DEF Post, IInv, LockInv, LockKey, worker
<1>3. ASSUME NEW t \in Tasks, Redeliver(t) PROVE LockInv'
  BY <1>3, LockUnchanged DEF Redeliver, IInv, Running, worker
<1>4. ASSUME NEW w \in Workers, NEW t \in Tasks, Take(w, t) PROVE LockInv'
  <2>1. \A v \in Running' : v \in Running /\ current'[v] = current[v]
    BY <1>4, ApiTasksAssumption DEF Take, IInv, TypeOK, Running, NeedsLock, Tasks
  <2> QED BY <1>4, <2>1, LockUnchanged DEF Take, IInv
<1>5. ASSUME NEW w \in Workers, TryLock(w) PROVE LockInv'
  <2>1. CASE GetLock(w)
    BY <1>5, <2>1, LockGet DEF TryLock, broker
  <2>2. CASE ~GetLock(w)
    <3>1. \A v \in Running' : v \in Running /\ current'[v] = current[v]
      BY <1>5, <2>2 DEF TryLock, IInv, TypeOK, Running
    <3> QED BY <1>5, <2>2, <3>1, LockUnchanged DEF TryLock, IInv, broker
  <2> QED BY <2>1, <2>2
<1>6. ASSUME NEW w \in Workers, RetryLock(w) PROVE LockInv'
  BY <1>6, LockGet DEF RetryLock, broker
<1>7. ASSUME NEW w \in Workers, NEW o \in Orgs, ReconcileOrg(w, o) PROVE LockInv'
  BY <1>7, LockUnchanged DEF ReconcileOrg, IInv, Running, broker
<1>8. ASSUME NEW w \in Workers, NEW o \in Orgs, OrgFails(w, o) PROVE LockInv'
  BY <1>8, LockUnchanged DEF OrgFails, IInv, Running, broker
<1>9. ASSUME NEW w \in Workers, EndRun(w) PROVE LockInv'
  BY <1>9, LockEnd
<1>10. ASSUME NEW w \in Workers, Acknowledge(w) PROVE LockInv'
  <2>1. \A v \in Running' : v \in Running /\ current'[v] = current[v]
    BY <1>10 DEF Acknowledge, IInv, TypeOK, Running
  <2> QED BY <1>10, <2>1, LockUnchanged DEF Acknowledge, IInv
<1>11. ASSUME NEW w \in Workers, WorkerDies(w) PROVE LockInv'
  <2>1. \A v \in Running' : v \in Running /\ v # w
    BY <1>11 DEF WorkerDies, IInv, TypeOK, Running
  <2>2. \A v \in Running' : current'[v] = current[v] /\ age'[v] = age[v]
    BY <1>11, <2>1 DEF WorkerDies, IInv, TypeOK, Running
  <2> QED BY <1>11, <2>1, <2>2 DEF WorkerDies, IInv, LockInv, LockKey, broker
<1>12. CASE Tick
  BY <1>12, LockTick
<1> QED
  BY <1>1, <1>2, <1>3, <1>4, <1>5, <1>6, <1>7, <1>8, <1>9, <1>10, <1>11, <1>12
  DEF Next, Step

\* Production tasks with the same lock key never run at the same time, as long
\* as no run outlasts the timeout of the lock.
THEOREM MutualExclusion ==
    ASSUME MaxRun < LockTimeout
    PROVE  Spec => []ExclusiveRuns
<1>1. Init => IInv
  BY TypeInit DEF Init, IInv, LockInv, Running
<1>2. IInv /\ [Next]_vars => IInv'
  <2>1. CASE IInv /\ Next
    BY <2>1, TypeStep, LockStep DEF IInv
  <2>2. CASE IInv /\ UNCHANGED vars
    BY <2>2, TypeStutter, LockUnchanged DEF IInv, vars, worker, broker, Running
  <2> QED BY <2>1, <2>2
<1>3. IInv => ExclusiveRuns
  BY DEF IInv, LockInv, ExclusiveRuns
<1> QED BY <1>1, <1>2, <1>3, PTL DEF Spec
=============================================================================
