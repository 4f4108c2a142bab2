------------------------ MODULE JobController_proofs ------------------------
(***************************************************************************)
(* What waiting for jobs guarantees, for any number of clients, jobs, uids  *)
(* and faults, any calls, any interval and any timeout: the type of the     *)
(* state, the bound on the time a wait takes, and that reported results     *)
(* stand.  For a single client whose policies never replace a job in        *)
(* progress, the controller implements JobSlots.                            *)
(***************************************************************************)
EXTENDS JobController, TLAPS

Preparing == {"enqueue", "delete", "create", "lookup", "secret"}

\* A client between the steps of one job has that job's name.
NameInv ==
    \A c \in Clients : pc[c] \in Preparing \ {"enqueue"} => name[c] \in Names

\* Time is only counted while waiting, and a poll never starts past the timeout.
ElapsedInv ==
    \A c \in Clients : Timeout >= 0 =>
        /\ pc[c] = "poll" => elapsed[c] <= Timeout
        /\ pc[c] = "check" => elapsed[c] <= Timeout + MaxDelay
        /\ pc[c] \notin {"poll", "check"} => elapsed[c] = 0

\* Nothing is reported before the wait, and nothing that is left is reported
\* as finished.
ResultInv ==
    \A c \in Clients :
        /\ pc[c] \in Preparing => \A n \in Names : result[c][n] = "NOT_EXISTS"
        /\ pc[c] \in {"poll", "check"} => \A n \in left[c] : result[c][n] \notin Finished

IInv == TypeOK /\ NameInv /\ ElapsedInv /\ ResultInv
-----------------------------------------------------------------------------
(* The type of the state.                                                   *)

LEMMA CallNames ==
    ASSUME TypeOK, NEW c \in Clients
    PROVE  call[c].names \subseteq Names
BY ControllerAssumption DEF TypeOK, NoCall, CallType

LEMMA StatusType ==
    ASSUME NEW phase \in Phases
    PROVE  StatusOf(phase) \in JobStatuses
BY DEF StatusOf, JobStatuses, Phases

LEMMA ObservedType == ASSUME TypeOK PROVE Observed \in [Names -> JobStatuses]
BY StatusType DEF TypeOK, Observed

LEMMA ProcessOverType ==
    ASSUME TypeOK, NEW c \in Clients, ProcessOver(c)
    PROVE  /\ pc' \in [Clients -> {"idle", "enqueue", "delete", "create", "lookup", "secret",
                                   "poll", "check"}]
           /\ todo' \in [Clients -> SUBSET Names]
           /\ name' \in [Clients -> Names \cup {NoName}]
           /\ owner' \in [Clients -> Uids \cup {NoUid}]
           /\ cached' \in [Clients -> BOOLEAN]
           /\ cache' \in [Clients -> [Names -> JobStatuses]]
           /\ left' \in [Clients -> SUBSET Names]
           /\ elapsed' \in [Clients -> Nat]
<1>1. [n \in Names |-> "NOT_EXISTS"] \in [Names -> JobStatuses]
  BY DEF JobStatuses
<1> QED BY <1>1 DEF TypeOK, ProcessOver

\* enqueue_job goes on to delete or create the job, or leaves it as it is.
LEMMA EnqueueMoves ==
    ASSUME NEW c \in Clients, NEW n \in todo[c], Enqueue(c, n)
    PROVE  \/ UNCHANGED <<name, pc>>
           \/ /\ name' = [name EXCEPT ![c] = n]
              /\ \/ /\ pc' = [pc EXCEPT ![c] = "delete"]
                    /\ CancelsExisting(Seen(c)[n], call[c].policy)
                 \/ pc' = [pc EXCEPT ![c] = "create"]
<1> DEFINE status == Seen(c)[n]
           policy == call[c].policy
<1>1. CASE ~CreatesJob(status, policy)
  BY <1>1 DEF Enqueue
<1>2. CASE CreatesJob(status, policy) /\ CancelsExisting(status, policy)
  BY <1>2 DEF Enqueue
<1>3. CASE CreatesJob(status, policy) /\ ~CancelsExisting(status, policy)
  BY <1>3 DEF Enqueue
<1> QED BY <1>1, <1>2, <1>3

LEMMA TypeInit == Init => IInv
<1> SUFFICES ASSUME Init PROVE IInv
  OBVIOUS
<1>1. TypeOK
  BY DEF Init, TypeOK, NoJob, Phases, Outcomes, JobStatuses
<1>2. NameInv /\ ElapsedInv /\ ResultInv
  BY DEF Init, NameInv, ElapsedInv, ResultInv, Preparing
<1> QED BY <1>1, <1>2 DEF IInv

LEMMA TypeStep == ASSUME TypeOK, NameInv, Next PROVE TypeOK'
<1> USE ControllerAssumption
<1>1. ASSUME NEW c \in Clients, NEW request \in Calls, Begin(c, request) PROVE TypeOK'
  <2>1. request.names \subseteq Names
    BY DEF CallType
  <2>2. [n \in Names |-> "NOT_EXISTS"] \in [Names -> JobStatuses]
    BY DEF JobStatuses
  <2> QED BY <1>1, <2>1, <2>2 DEF Begin, TypeOK, cluster, Outcomes
<1>2. ASSUME NEW c \in Clients, NEW n \in todo[c], Enqueue(c, n) PROVE TypeOK'
  <2>1. n \in Names
    BY DEF TypeOK
  <2>2. Seen(c) \in [Names -> JobStatuses]
    BY ObservedType DEF Seen, TypeOK
  <2>3. name' \in [Clients -> Names \cup {NoName}] /\ pc' \in [Clients -> {"idle",
            "enqueue", "delete", "create", "lookup", "secret", "poll", "check"}]
    <3>1. CASE UNCHANGED <<name, pc>>
      BY <3>1 DEF TypeOK
    <3>2. CASE name' = [name EXCEPT ![c] = n] /\ \E p \in {"delete", "create"} :
                                                    pc' = [pc EXCEPT ![c] = p]
      BY <2>1, <3>2 DEF TypeOK
    <3> QED BY <1>2, <3>1, <3>2, EnqueueMoves
  <2> QED BY <1>2, <2>2, <2>3 DEF Enqueue, TypeOK, cluster, waiting
<1>3. ASSUME NEW c \in Clients, DeleteJob(c) PROVE TypeOK'
  BY <1>3 DEF DeleteJob, TypeOK, NoJob, Phases, waiting
<1>4. ASSUME NEW c \in Clients, ApplyJob(c) PROVE TypeOK'
  <2>1. jobs' \in [Names -> [phase : Phases, uid : Uids \cup {NoUid}]]
    <3>1. CASE jobs[name[c]].phase = "none"
      <4>1. (CHOOSE u \in Uids : u \notin UidsInUse) \in Uids
        BY <1>4, <3>1 DEF ApplyJob
      <4>2. PICK u \in Uids : jobs' = [jobs EXCEPT ![name[c]] = [phase |-> "pending", uid |-> u]]
        BY <1>4, <3>1, <4>1 DEF ApplyJob
      <4> QED BY <4>2 DEF TypeOK, Phases
    <3>2. CASE jobs[name[c]].phase # "none"
      BY <1>4, <3>2 DEF ApplyJob, TypeOK
    <3> QED BY <3>1, <3>2
  <2> QED BY <1>4, <2>1 DEF ApplyJob, TypeOK, waiting
<1>5. ASSUME NEW c \in Clients, LookupUid(c) PROVE TypeOK'
  <2>1. name[c] \in Names
    BY <1>5 DEF LookupUid, NameInv, Preparing
  <2> QED BY <1>5, <2>1 DEF LookupUid, TypeOK, cluster, waiting
<1>6. ASSUME NEW c \in Clients, ApplySecret(c) PROVE TypeOK'
  BY <1>6 DEF ApplySecret, TypeOK, waiting
<1>7. ASSUME NEW c \in Clients, StartWait(c) PROVE TypeOK'
  BY <1>7, CallNames DEF StartWait, TypeOK, cluster
<1>8. ASSUME NEW c \in Clients, NEW delay \in 0..MaxDelay, Poll(c, delay) PROVE TypeOK'
  <2>1. Polled(c) \in [Names -> JobStatuses]
    BY ObservedType DEF Polled, TypeOK
  <2>2. left' \in [Clients -> SUBSET Names] /\ elapsed' \in [Clients -> Nat]
    BY <1>8 DEF Poll, TypeOK
  <2>3. cache' \in [Clients -> [Names -> JobStatuses]]
    BY <1>8, ObservedType DEF Poll, TypeOK
  <2>4. pc' \in [Clients -> {"idle", "enqueue", "delete", "create", "lookup", "secret",
                             "poll", "check"}] /\ outcome' \in [Clients -> Outcomes]
    BY <1>8 DEF Poll, TypeOK, Outcomes
  <2> QED BY <1>8, <2>1, <2>2, <2>3, <2>4 DEF Poll, TypeOK, cluster
<1>9. ASSUME NEW c \in Clients, Sleep(c) PROVE TypeOK'
  <2>1. SleepTime(c) \in Nat
    BY <1>9 DEF Sleep, SleepTime, TimedOut, Least, TypeOK
  <2> QED BY <1>9, <2>1 DEF Sleep, TypeOK, cluster
<1>10. ASSUME NEW c \in Clients, ListTimesOut(c) PROVE TypeOK'
  BY <1>10 DEF ListTimesOut, TypeOK, cluster, Outcomes
<1>11. ASSUME NEW c \in Clients, ProcessOver(c), UNCHANGED <<call, result>>,
              UNCHANGED <<jobs, secrets>>, faults' \in Nat,
              outcome' \in [Clients -> Outcomes]
       PROVE TypeOK'
  BY <1>11, ProcessOverType DEF TypeOK
<1>12. ASSUME NEW c \in Clients, SingleTimesOut(c) \/ CallFails(c) \/ EndProcess(c) \/ Crash(c)
       PROVE TypeOK'
  <2>1. faults' \in Nat
    BY <1>12 DEF SingleTimesOut, CallFails, EndProcess, Crash, TypeOK, cluster
  <2>2. outcome' \in [Clients -> Outcomes]
    BY <1>12 DEF SingleTimesOut, CallFails, EndProcess, Crash, TypeOK, Outcomes
  <2> QED BY <1>11, <1>12, <2>1, <2>2 DEF SingleTimesOut, CallFails, EndProcess, Crash, cluster
<1>13. ASSUME NEW n \in Names, JobStarts(n) \/ JobSucceeds(n) \/ JobFails(n) \/ DeadlinePasses(n)
       PROVE TypeOK'
  <2>1. PICK phase \in Phases : SetPhase(n, phase)
    BY <1>13 DEF JobStarts, JobSucceeds, JobFails, DeadlinePasses, Phases
  <2> QED BY <2>1 DEF SetPhase, TypeOK, clients, waiting
<1>14. ASSUME NEW n \in Names, JobExpires(n) PROVE TypeOK'
  <2>1. faults' \in Nat
    BY <1>14 DEF JobExpires, TypeOK
  <2> QED BY <1>14, <2>1 DEF JobExpires, TypeOK, NoJob, Phases, clients, waiting
<1>15. ASSUME NEW n \in Names, CollectSecret(n) PROVE TypeOK'
  BY <1>15 DEF CollectSecret, TypeOK, clients, waiting
<1> QED
  BY <1>1, <1>2, <1>3, <1>4, <1>5, <1>6, <1>7, <1>8, <1>9, <1>10, <1>12, <1>13, <1>14, <1>15
  DEF Next, Step
-----------------------------------------------------------------------------
(* The steps of clients, sorted by what they do to a wait.                  *)

\* Steps of a client before its wait: they touch neither time nor results.
Prepares(c) ==
    \/ \E n \in todo[c] : Enqueue(c, n)
    \/ DeleteJob(c) \/ ApplyJob(c) \/ LookupUid(c) \/ ApplySecret(c)

LEMMA PreparesKeeps ==
    ASSUME TypeOK, NameInv, NEW c \in Clients, Prepares(c)
    PROVE  /\ UNCHANGED <<call, waiting>>
           /\ pc[c] \in Preparing
           /\ \E p \in Preparing : pc' = [pc EXCEPT ![c] = p]
           /\ NameInv'
<1>1. ASSUME NEW n \in todo[c], Enqueue(c, n)
      PROVE  /\ UNCHANGED <<call, waiting>>
             /\ pc[c] \in Preparing
             /\ \E p \in Preparing : pc' = [pc EXCEPT ![c] = p]
             /\ NameInv'
  <2>1. UNCHANGED <<call, waiting>> /\ pc[c] = "enqueue" /\ n \in Names
    BY <1>1 DEF Enqueue, TypeOK
  <2>2. CASE UNCHANGED <<name, pc>>
    <3>1. pc' = [pc EXCEPT ![c] = "enqueue"]
      BY <2>1, <2>2 DEF TypeOK
    <3> QED BY <2>1, <2>2, <3>1 DEF NameInv, Preparing
  <2>3. CASE name' = [name EXCEPT ![c] = n] /\ \E p \in {"delete", "create"} :
                                                  pc' = [pc EXCEPT ![c] = p]
    BY <2>1, <2>3 DEF NameInv, Preparing, TypeOK
  <2> QED BY <1>1, <2>2, <2>3, EnqueueMoves
<1>2. CASE DeleteJob(c)
  BY <1>2 DEF DeleteJob, TypeOK, NameInv, Preparing
<1>3. CASE ApplyJob(c)
  BY <1>3 DEF ApplyJob, TypeOK, NameInv, Preparing
<1>4. CASE LookupUid(c)
  BY <1>4 DEF LookupUid, TypeOK, NameInv, Preparing
<1>5. CASE ApplySecret(c)
  BY <1>5 DEF ApplySecret, TypeOK, NameInv, Preparing
<1> QED BY <1>1, <1>2, <1>3, <1>4, <1>5 DEF Prepares

\* Every way to leave a call leaves no time behind.
Leaves(c) == ListTimesOut(c) \/ SingleTimesOut(c) \/ CallFails(c) \/ EndProcess(c) \/ Crash(c)

LEMMA LeavesKeeps ==
    ASSUME TypeOK, NameInv, NEW c \in Clients, Leaves(c)
    PROVE  /\ UNCHANGED <<jobs, call, result>>
           /\ pc' = [pc EXCEPT ![c] = "idle"]
           /\ left' = [left EXCEPT ![c] = {}]
           /\ elapsed' = [elapsed EXCEPT ![c] = 0]
           /\ NameInv'
<1>1. /\ UNCHANGED <<jobs, call, result>>
      /\ pc' = [pc EXCEPT ![c] = "idle"]
      /\ left' = [left EXCEPT ![c] = {}]
      /\ elapsed' = [elapsed EXCEPT ![c] = 0]
  BY DEF Leaves, ListTimesOut, SingleTimesOut, CallFails, EndProcess, Crash, ProcessOver, cluster
<1>2. \A d \in Clients \ {c} : name'[d] = name[d]
  BY DEF Leaves, ListTimesOut, SingleTimesOut, CallFails, EndProcess, Crash, ProcessOver, cluster,
         TypeOK
<1> QED BY <1>1, <1>2 DEF NameInv, TypeOK, Preparing

\* The steps of the cluster.
ClusterStep ==
    \E n \in Names : \/ JobStarts(n) \/ JobSucceeds(n) \/ JobFails(n)
                     \/ DeadlinePasses(n) \/ JobExpires(n) \/ CollectSecret(n)

LEMMA ClusterKeeps == ASSUME ClusterStep PROVE UNCHANGED clients
BY DEF ClusterStep, JobStarts, JobSucceeds, JobFails, DeadlinePasses, JobExpires, CollectSecret,
       SetPhase

LEMMA Steps ==
    ASSUME Next
    PROVE  \/ \E c \in Clients :
                  \/ \E request \in Calls : Begin(c, request)
                  \/ Prepares(c) \/ StartWait(c)
                  \/ \E delay \in 0..MaxDelay : Poll(c, delay)
                  \/ Sleep(c) \/ Leaves(c)
           \/ ClusterStep
BY DEF Next, Step, Prepares, Leaves, ClusterStep

\* Every step keeps the name, the time and the results of every client.
LEMMA WaitStep ==
    ASSUME IInv, Next
    PROVE  NameInv' /\ ElapsedInv' /\ ResultInv'
<1> USE ControllerAssumption
<1> TypeOK /\ NameInv /\ ElapsedInv /\ ResultInv
  BY DEF IInv
<1>1. ASSUME NEW c \in Clients, NEW request \in Calls, Begin(c, request)
      PROVE  NameInv' /\ ElapsedInv' /\ ResultInv'
  <2>1. NameInv' /\ ElapsedInv'
    BY <1>1 DEF Begin, TypeOK, NameInv, ElapsedInv, Preparing
  <2>2. ResultInv'
    BY <1>1 DEF Begin, TypeOK, ResultInv, Preparing
  <2> QED BY <2>1, <2>2
<1>2. ASSUME NEW c \in Clients, Prepares(c) PROVE NameInv' /\ ElapsedInv' /\ ResultInv'
  <2>1. PICK p \in Preparing : pc' = [pc EXCEPT ![c] = p]
    BY <1>2, PreparesKeeps
  <2>2. pc[c] \in Preparing /\ UNCHANGED <<call, waiting>> /\ NameInv'
    BY <1>2, PreparesKeeps
  <2> QED BY <2>1, <2>2 DEF ElapsedInv, ResultInv, Preparing, TypeOK, waiting
<1>3. ASSUME NEW c \in Clients, StartWait(c) PROVE NameInv' /\ ElapsedInv' /\ ResultInv'
  <2>1. NameInv' /\ ElapsedInv'
    BY <1>3 DEF StartWait, TypeOK, NameInv, ElapsedInv, Preparing
  <2>2. ResultInv'
    BY <1>3, CallNames DEF StartWait, TypeOK, ResultInv, Preparing, Finished
  <2> QED BY <2>1, <2>2
<1>4. ASSUME NEW c \in Clients, NEW delay \in 0..MaxDelay, Poll(c, delay)
      PROVE  NameInv' /\ ElapsedInv' /\ ResultInv'
  <2>1. /\ pc[c] = "poll"
        /\ left'[c] = {n \in left[c] : Observed[n] \notin Finished}
        /\ pc'[c] = IF left'[c] = {} THEN "idle" ELSE "check"
        /\ elapsed'[c] = IF left'[c] = {} THEN 0 ELSE IF Timeout < 0 THEN elapsed[c]
                                                     ELSE elapsed[c] + delay
        /\ result'[c] = Polled(c)
        /\ UNCHANGED <<call, name>>
    BY <1>4 DEF Poll, TypeOK
  <2>2. \A d \in Clients \ {c} : /\ pc'[d] = pc[d] /\ left'[d] = left[d]
                                 /\ elapsed'[d] = elapsed[d] /\ result'[d] = result[d]
    BY <1>4 DEF Poll, TypeOK
  <2>3. \A n \in left'[c] : n \in Names /\ result'[c][n] \notin Finished
    BY <2>1 DEF Polled, TypeOK
  <2>4. NameInv'
    BY <2>1, <2>2 DEF NameInv, Preparing
  <2>5. ElapsedInv'
    <3>1. Timeout >= 0 => elapsed[c] \in Nat /\ elapsed[c] <= Timeout
      BY <2>1 DEF ElapsedInv, TypeOK
    <3>2. Timeout >= 0 => /\ pc'[c] = "check" => elapsed'[c] <= Timeout + MaxDelay
                          /\ pc'[c] # "check" => pc'[c] = "idle" /\ elapsed'[c] = 0
      <4>1. CASE left'[c] = {}
        BY <2>1, <4>1
      <4>2. CASE left'[c] # {}
        <5> SUFFICES ASSUME Timeout >= 0 PROVE elapsed'[c] <= Timeout + MaxDelay
          BY <2>1, <4>2
        <5>1. elapsed'[c] = elapsed[c] + delay
          BY <2>1, <4>2
        <5> QED BY <3>1, <5>1
      <4> QED BY <4>1, <4>2
    <3>3. ASSUME NEW d \in Clients \ {c}
          PROVE  Timeout >= 0 => /\ pc'[d] = "poll" => elapsed'[d] <= Timeout
                                 /\ pc'[d] = "check" => elapsed'[d] <= Timeout + MaxDelay
                                 /\ pc'[d] \notin {"poll", "check"} => elapsed'[d] = 0
      BY <2>2, <3>3 DEF ElapsedInv
    <3> QED BY <3>2, <3>3 DEF ElapsedInv
  <2>6. ResultInv'
    BY <2>1, <2>2, <2>3 DEF ResultInv, Preparing
  <2> QED BY <2>4, <2>5, <2>6
<1>5. ASSUME NEW c \in Clients, Sleep(c) PROVE NameInv' /\ ElapsedInv' /\ ResultInv'
  <2>1. Timeout >= 0 => elapsed[c] + SleepTime(c) <= Timeout
    BY <1>5 DEF Sleep, SleepTime, Least, TimedOut, TypeOK
  <2>2. ElapsedInv'
    BY <1>5, <2>1 DEF Sleep, ElapsedInv, TypeOK
  <2> QED BY <1>5, <2>2 DEF Sleep, NameInv, ResultInv, Preparing, TypeOK
<1>6. ASSUME NEW c \in Clients, Leaves(c) PROVE NameInv' /\ ElapsedInv' /\ ResultInv'
  <2>1. /\ UNCHANGED <<call, result>>
        /\ pc' = [pc EXCEPT ![c] = "idle"]
        /\ left' = [left EXCEPT ![c] = {}]
        /\ elapsed' = [elapsed EXCEPT ![c] = 0]
        /\ NameInv'
    BY <1>6, LeavesKeeps
  <2>2. ElapsedInv'
    BY <2>1 DEF ElapsedInv, TypeOK
  <2>3. ResultInv'
    BY <2>1 DEF ResultInv, Preparing, TypeOK
  <2> QED BY <2>1, <2>2, <2>3
<1>7. CASE ClusterStep
  BY <1>7, ClusterKeeps DEF clients, waiting, NameInv, ElapsedInv, ResultInv
<1> QED BY <1>1, <1>2, <1>3, <1>4, <1>5, <1>6, <1>7, Steps

LEMMA Stutter == ASSUME IInv, UNCHANGED vars PROVE IInv'
BY DEF IInv, TypeOK, NameInv, ElapsedInv, ResultInv, vars, cluster, waiting

LEMMA Invariance == Spec => []IInv
<1>1. IInv /\ [Next]_vars => IInv'
  BY TypeStep, WaitStep, Stutter DEF IInv
<1> QED BY TypeInit, <1>1, PTL DEF Spec

\* Every reachable state of the job controller has its type.
THEOREM TypeCorrect == Spec => []TypeOK
BY Invariance, PTL DEF IInv

\* wait_for_job_completion and wait_for_job_list_completion: whatever the
\* interval, the timeout and the calls, no client waits longer than its timeout
\* and the time of one more poll.
THEOREM WaitIsBounded == Spec => []NoOversleep
<1>1. IInv => NoOversleep
  BY ControllerAssumption DEF IInv, TypeOK, ElapsedInv, NoOversleep
<1> QED BY Invariance, <1>1, PTL

\* A result that a wait has recorded as finished is never overwritten while
\* the wait goes on.
THEOREM ResultsStand == Spec => ResultsStick
<1> DEFINE Stuck == \A c \in Clients : pc[c] \in {"poll", "check"} =>
                        \A n \in call[c].names : result[c][n] \in Finished => result'[c][n] = result[c][n]
<1>1. ASSUME IInv, Next PROVE Stuck
  <2> SUFFICES ASSUME NEW d \in Clients, pc[d] \in {"poll", "check"},
                      NEW n \in call[d].names, result[d][n] \in Finished
               PROVE  result'[d][n] = result[d][n]
    OBVIOUS
  <2> TypeOK /\ NameInv /\ ResultInv
    BY <1>1 DEF IInv
  <2>1. n \in Names \ left[d]
    BY CallNames DEF ResultInv
  <2>2. ASSUME NEW c \in Clients, NEW request \in Calls, Begin(c, request)
        PROVE  result'[d][n] = result[d][n]
    BY <2>2 DEF Begin, TypeOK
  <2>3. ASSUME NEW c \in Clients, NEW delay \in 0..MaxDelay, Poll(c, delay)
        PROVE  result'[d][n] = result[d][n]
    BY <2>1, <2>3 DEF Poll, Polled, TypeOK
  <2>4. ASSUME NEW c \in Clients, Prepares(c) \/ StartWait(c) \/ Sleep(c) \/ Leaves(c)
        PROVE  result'[d][n] = result[d][n]
    BY <2>4, PreparesKeeps, LeavesKeeps DEF StartWait, Sleep, waiting
  <2>5. CASE ClusterStep
    BY <2>5, ClusterKeeps DEF clients, waiting
  <2> QED BY <1>1, <2>2, <2>3, <2>4, <2>5, Steps
<1>2. ASSUME UNCHANGED vars PROVE Stuck
  BY <1>2 DEF vars, waiting
<1> QED BY Invariance, <1>1, <1>2, PTL DEF Spec, ResultsStick
-----------------------------------------------------------------------------
(* One client implements JobSlots.                                          *)

OneClient == \E c \in Clients : Clients = {c}
NoReplaceInProgress == \A request \in Calls : "REPLACE_IN_PROGRESS" \notin request.policy

\* What the client still has to learn from its cache: everything between calls
\* and after a poll, the jobs it has yet to enqueue during a call.
Consults(c) == IF pc[c] \in {"idle", "check"} THEN Names
               ELSE IF pc[c] \in Preparing THEN todo[c] ELSE {}

\* A job the cache calls finished does not run as long as the cache is going to
\* be consulted about it, no job that runs is about to be deleted, and a job is
\* enqueued once in a call.
CacheInv ==
    \A c \in Clients :
        /\ \A n \in Consults(c) :
              cached[c] /\ cache[c][n] \in Finished => jobs[n].phase \notin Unfinished
        /\ pc[c] = "delete" => jobs[name[c]].phase \notin Unfinished
        /\ pc[c] \in Preparing \ {"enqueue"} => name[c] \notin todo[c]

CInv == IInv /\ CacheInv

LEMMA CacheInit == ASSUME Init PROVE CacheInv
BY DEF Init, CacheInv, Consults, Preparing

\* What the cluster calls finished does not run.
LEMMA ObservedFinished ==
    ASSUME TypeOK, NEW n \in Names, Observed[n] \in Finished
    PROVE  jobs[n].phase \notin Unfinished
BY DEF Observed, StatusOf, Finished, Unfinished, TypeOK

\* No step of the cluster makes a job run that was not to run before.
LEMMA ClusterRunsNothing ==
    ASSUME TypeOK, ClusterStep, NEW n \in Names, jobs[n].phase \notin Unfinished
    PROVE  jobs'[n].phase \notin Unfinished
<1>1. PICK m \in Names : \/ JobStarts(m) \/ JobSucceeds(m) \/ JobFails(m)
                         \/ DeadlinePasses(m) \/ JobExpires(m) \/ CollectSecret(m)
  BY DEF ClusterStep
<1>2. CASE JobStarts(m)
  BY <1>2 DEF JobStarts, SetPhase, TypeOK, Unfinished
<1>3. CASE JobSucceeds(m) \/ JobFails(m) \/ DeadlinePasses(m)
  BY <1>3 DEF JobSucceeds, JobFails, DeadlinePasses, SetPhase, TypeOK, Unfinished
<1>4. CASE JobExpires(m)
  BY <1>4 DEF JobExpires, NoJob, TypeOK, Unfinished
<1>5. CASE CollectSecret(m)
  BY <1>5 DEF CollectSecret
<1> QED BY <1>1, <1>2, <1>3, <1>4, <1>5

\* Without REPLACE_IN_PROGRESS, enqueue_job deletes only what it takes for
\* finished.
LEMMA CancelsFinished ==
    ASSUME TypeOK, NoReplaceInProgress, NEW c \in Clients, NEW status \in JobStatuses,
           CancelsExisting(status, call[c].policy)
    PROVE  status \in Finished
<1>1. "REPLACE_IN_PROGRESS" \notin call[c].policy
  BY DEF TypeOK, NoReplaceInProgress, NoCall
<1> QED BY <1>1 DEF CancelsExisting, ReplaceFlag, JobStatuses, Finished

LEMMA CacheStep ==
    ASSUME IInv, CacheInv, NoReplaceInProgress, OneClient, Next
    PROVE  CacheInv'
<1> USE ControllerAssumption
<1> TypeOK /\ NameInv
  BY DEF IInv
<1>0. PICK c \in Clients : Clients = {c}
  BY DEF OneClient
<1>1. ASSUME NEW request \in Calls, Begin(c, request) PROVE CacheInv'
  <2>1. request.names \subseteq Names
    BY DEF CallType
  <2> QED BY <1>0, <1>1, <2>1 DEF Begin, CacheInv, Consults, Preparing, TypeOK, cluster
<1>2. ASSUME NEW n \in todo[c], Enqueue(c, n) PROVE CacheInv'
  <2>1. /\ pc[c] = "enqueue" /\ n \in Names
        /\ todo' = [todo EXCEPT ![c] = todo[c] \ {n}]
        /\ cached'[c] /\ cache'[c] = Seen(c) /\ UNCHANGED jobs
    BY <1>2 DEF Enqueue, TypeOK, cluster
  <2>2. \A m \in todo[c] : Seen(c)[m] \in Finished => jobs[m].phase \notin Unfinished
    BY <2>1, ObservedFinished DEF Seen, CacheInv, Consults, Preparing, TypeOK
  <2>3. \A m \in todo'[c] : cache'[c][m] \in Finished => jobs'[m].phase \notin Unfinished
    BY <2>1, <2>2 DEF TypeOK
  <2>4. CASE UNCHANGED <<name, pc>>
    BY <1>0, <2>1, <2>3, <2>4 DEF CacheInv, Consults, Preparing
  <2>5. CASE name' = [name EXCEPT ![c] = n] /\ pc' = [pc EXCEPT ![c] = "create"]
    <3>1. pc'[c] = "create" /\ name'[c] = n /\ n \notin todo'[c]
      BY <2>1, <2>5 DEF TypeOK
    <3> QED BY <1>0, <2>3, <3>1 DEF CacheInv, Consults, Preparing
  <2>6. CASE /\ name' = [name EXCEPT ![c] = n] /\ pc' = [pc EXCEPT ![c] = "delete"]
             /\ CancelsExisting(Seen(c)[n], call[c].policy)
    <3>1. pc'[c] = "delete" /\ name'[c] = n /\ n \notin todo'[c]
      BY <2>1, <2>6 DEF TypeOK
    <3>2. Seen(c)[n] \in JobStatuses
      BY <2>1, ObservedType DEF Seen, TypeOK
    <3>3. jobs'[n].phase \notin Unfinished
      BY <2>1, <2>2, <2>6, <3>2, CancelsFinished
    <3> QED BY <1>0, <2>3, <3>1, <3>3 DEF CacheInv, Consults, Preparing
  <2> QED BY <1>2, <2>4, <2>5, <2>6, EnqueueMoves
<1>3. CASE DeleteJob(c)
  <2>1. name[c] \in Names /\ pc[c] = "delete" /\ pc'[c] = "create"
    BY <1>3 DEF DeleteJob, NameInv, Preparing, TypeOK
  <2>2. \A m \in Names : m # name[c] => jobs'[m] = jobs[m]
    BY <1>3 DEF DeleteJob, TypeOK
  <2>3. UNCHANGED <<todo, name, cached, cache>>
    BY <1>3 DEF DeleteJob
  <2> QED BY <1>0, <2>1, <2>2, <2>3 DEF CacheInv, Consults, Preparing, TypeOK
<1>4. CASE ApplyJob(c)
  <2>1. name[c] \in Names /\ pc[c] = "create" /\ pc'[c] = "lookup"
    BY <1>4 DEF ApplyJob, NameInv, Preparing, TypeOK
  <2>2. \A m \in Names : m # name[c] => jobs'[m] = jobs[m]
    BY <1>4 DEF ApplyJob, TypeOK
  <2>3. UNCHANGED <<todo, name, cached, cache>>
    BY <1>4 DEF ApplyJob
  <2> QED BY <1>0, <2>1, <2>2, <2>3 DEF CacheInv, Consults, Preparing, TypeOK
<1>5. CASE LookupUid(c) \/ ApplySecret(c)
  <2>1. /\ pc[c] \in Preparing /\ pc'[c] \in {"secret", "enqueue"}
        /\ pc'[c] = "secret" => pc[c] = "lookup" /\ UNCHANGED name
        /\ UNCHANGED <<jobs, todo, cached, cache>>
    BY <1>5 DEF LookupUid, ApplySecret, TypeOK, Preparing, cluster
  <2> QED BY <1>0, <2>1 DEF CacheInv, Consults, Preparing
<1>6. CASE StartWait(c) \/ Sleep(c)
  <2>1. pc'[c] = "poll"
    BY <1>6 DEF StartWait, Sleep, TypeOK
  <2> QED BY <1>0, <2>1 DEF CacheInv, Consults, Preparing
<1>7. ASSUME NEW delay \in 0..MaxDelay, Poll(c, delay) PROVE CacheInv'
  <2>1. pc'[c] \in {"idle", "check"} /\ cache'[c] = Observed /\ UNCHANGED jobs
    BY <1>7 DEF Poll, TypeOK, cluster
  <2> QED BY <1>0, <2>1, ObservedFinished DEF CacheInv, Consults, Preparing
<1>8. CASE ListTimesOut(c)
  <2>1. pc[c] = "check" /\ pc'[c] = "idle" /\ UNCHANGED <<jobs, cached, cache>>
    BY <1>8 DEF ListTimesOut, TypeOK, cluster
  <2> QED BY <1>0, <2>1 DEF CacheInv, Consults, Preparing
<1>9. CASE SingleTimesOut(c) \/ CallFails(c) \/ EndProcess(c) \/ Crash(c)
  <2>1. pc'[c] = "idle" /\ ~cached'[c]
    BY <1>9 DEF SingleTimesOut, CallFails, EndProcess, Crash, ProcessOver, TypeOK
  <2> QED BY <1>0, <2>1 DEF CacheInv, Preparing
<1>10. CASE ClusterStep
  <2>1. UNCHANGED <<pc, todo, name, cached, cache>>
    BY <1>10, ClusterKeeps DEF clients
  <2>2. Consults(c)' = Consults(c) /\ Consults(c) \subseteq Names
    BY <2>1 DEF Consults, TypeOK
  <2>3. pc[c] = "delete" => name[c] \in Names
    BY DEF NameInv, Preparing
  <2> QED BY <1>0, <1>10, <2>1, <2>2, <2>3, ClusterRunsNothing DEF CacheInv
<1> QED
  BY <1>0, <1>1, <1>2, <1>3, <1>4, <1>5, <1>6, <1>7, <1>8, <1>9, <1>10, Steps
  DEF Prepares, Leaves

LEMMA CacheInvariance ==
    ASSUME NoReplaceInProgress, OneClient
    PROVE  Spec => []CInv
<1>1. Init => CInv
  BY TypeInit, CacheInit DEF CInv
<1>2. CInv /\ [Next]_vars => CInv'
  <2>1. ASSUME CInv, Next PROVE CInv'
    BY <2>1, TypeStep, WaitStep, CacheStep DEF CInv, IInv
  <2>2. ASSUME CInv, UNCHANGED vars PROVE CInv'
    <3>1. CacheInv'
      BY <2>2 DEF CInv, CacheInv, Consults, vars, cluster
    <3> QED BY <2>2, <3>1, Stutter DEF CInv
  <2> QED BY <2>1, <2>2
<1> QED BY <1>1, <1>2, PTL DEF Spec

\* A job's slot changes with the job and only with it.
LEMMA SlotOf ==
    ASSUME TypeOK, NEW n \in Names, NEW job \in [phase : Phases, uid : Uids \cup {NoUid}],
           jobs' = [jobs EXCEPT ![n] = job]
    PROVE  JobSlot' = [JobSlot EXCEPT ![n] = [status |-> StatusOf(job.phase), unit |-> job.uid]]
BY DEF TypeOK, JobSlot

\* A phase the cluster gives to a job that is not done.
LEMMA PhaseStep ==
    ASSUME TypeOK, NEW n \in Names, NEW phase \in Phases \ {"none"}, SetPhase(n, phase),
           jobs[n].phase \in Unfinished
    PROVE  UNCHANGED JobSlot \/ Slots!Finish(n)
<1>1. jobs' = [jobs EXCEPT ![n] = [phase |-> phase, uid |-> jobs[n].uid]]
  <2>1. jobs[n] \in [phase : Phases, uid : Uids \cup {NoUid}]
    BY DEF TypeOK
  <2>2. [jobs[n] EXCEPT !.phase = phase] = [phase |-> phase, uid |-> jobs[n].uid]
    BY <2>1
  <2> QED BY <2>2 DEF SetPhase
<1>2. JobSlot' = [JobSlot EXCEPT ![n] = [status |-> StatusOf(phase), unit |-> jobs[n].uid]]
  BY <1>1, SlotOf DEF TypeOK
<1>3. JobSlot[n] = [status |-> "IN_PROGRESS", unit |-> jobs[n].uid]
  BY DEF JobSlot, StatusOf, Unfinished
<1>4. JobSlot' = [JobSlot EXCEPT ![n].status = StatusOf(phase)]
  <2>1. [JobSlot[n] EXCEPT !.status = StatusOf(phase)]
            = [status |-> StatusOf(phase), unit |-> jobs[n].uid]
    BY <1>3
  <2> QED BY <1>2, <2>1
<1>5. CASE phase \in Unfinished
  <2>1. StatusOf(phase) = "IN_PROGRESS"
    BY <1>5 DEF StatusOf, Unfinished
  <2>2. JobSlot = [m \in Names |-> JobSlot[m]]
    BY DEF JobSlot
  <2> QED BY <1>2, <1>3, <2>1, <2>2
<1>6. CASE phase \notin Unfinished
  <2>1. StatusOf(phase) \in Finished
    BY <1>6 DEF StatusOf, Unfinished, Phases, Finished
  <2>2. JobSlot[n].status = "IN_PROGRESS"
    BY <1>3
  <2>3. Slots!Finished = Finished
    BY DEF Slots!Finished, Finished
  <2> QED BY <1>4, <2>1, <2>2, <2>3 DEF Slots!Finish
<1> QED BY <1>5, <1>6

\* Removing a finished job empties its slot.
LEMMA RemoveStep ==
    ASSUME TypeOK, NEW n \in Names, jobs[n].phase \in {"succeeded", "failed"},
           jobs' = [jobs EXCEPT ![n] = NoJob]
    PROVE  Slots!Remove(n)
<1>1. JobSlot' = [JobSlot EXCEPT ![n] = Slots!Empty]
  BY SlotOf DEF NoJob, Phases, StatusOf, Slots!Empty
<1>2. JobSlot[n].status \in Finished
  BY DEF JobSlot, StatusOf, Finished
<1>3. Slots!Finished = Finished
  BY DEF Slots!Finished, Finished
<1> QED BY <1>1, <1>2, <1>3 DEF Slots!Remove

\* Every step of the controller or of the cluster is a step of JobSlots, or none.
LEMMA SlotStep ==
    ASSUME CInv, Next
    PROVE  Slots!Next \/ UNCHANGED JobSlot
<1> TypeOK /\ NameInv /\ CacheInv
  BY DEF CInv, IInv
<1>1. ASSUME UNCHANGED jobs PROVE UNCHANGED JobSlot
  BY <1>1 DEF JobSlot
<1>2. ASSUME NEW c \in Clients, DeleteJob(c) PROVE Slots!Next
  <2>1. name[c] \in Names /\ jobs[name[c]].phase \in {"succeeded", "failed"}
    BY <1>2 DEF DeleteJob, NameInv, Preparing, CacheInv, TypeOK, Phases, Unfinished
  <2>2. Slots!Remove(name[c])
    BY <1>2, <2>1, RemoveStep DEF DeleteJob
  <2> QED BY <2>1, <2>2 DEF Slots!Next
<1>3. ASSUME NEW c \in Clients, ApplyJob(c) PROVE Slots!Next \/ UNCHANGED JobSlot
  <2>1. name[c] \in Names
    BY <1>3 DEF ApplyJob, NameInv, Preparing
  <2>2. CASE jobs[name[c]].phase # "none"
    BY <1>1, <1>3, <2>2 DEF ApplyJob
  <2>3. CASE jobs[name[c]].phase = "none"
    <3>1. (CHOOSE u \in Uids : u \notin UidsInUse) \in Uids
      BY <1>3, <2>3 DEF ApplyJob
    <3>2. PICK u \in Uids : jobs' = [jobs EXCEPT ![name[c]] = [phase |-> "pending", uid |-> u]]
      BY <1>3, <2>3, <3>1 DEF ApplyJob
    <3>3. JobSlot' = [JobSlot EXCEPT ![name[c]] = [status |-> "IN_PROGRESS", unit |-> u]]
      BY <2>1, <3>2, SlotOf DEF Phases, StatusOf
    <3>4. JobSlot[name[c]].status = "NOT_EXISTS"
      BY <2>1, <2>3 DEF JobSlot, StatusOf
    <3> QED BY <2>1, <3>3, <3>4 DEF Slots!Next, Slots!Start
  <2> QED BY <2>2, <2>3
<1>4. ASSUME NEW n \in Names, JobExpires(n) PROVE Slots!Next
  BY <1>4, RemoveStep DEF JobExpires, Slots!Next
<1>5. ASSUME NEW n \in Names,
             JobStarts(n) \/ JobSucceeds(n) \/ JobFails(n) \/ DeadlinePasses(n)
      PROVE  Slots!Next \/ UNCHANGED JobSlot
  <2>1. PICK phase \in Phases \ {"none"} : SetPhase(n, phase) /\ jobs[n].phase \in Unfinished
    BY <1>5 DEF JobStarts, JobSucceeds, JobFails, DeadlinePasses, Phases, Unfinished
  <2> QED BY <2>1, PhaseStep DEF Slots!Next
<1>6. ASSUME NEW n \in Names, CollectSecret(n) PROVE UNCHANGED JobSlot
  BY <1>1, <1>6 DEF CollectSecret
<1>7. ASSUME NEW c \in Clients, NEW n \in todo[c], Enqueue(c, n) PROVE UNCHANGED JobSlot
  BY <1>1, <1>7 DEF Enqueue, cluster
<1>8. ASSUME NEW c \in Clients, LookupUid(c) \/ ApplySecret(c) \/ StartWait(c) \/ Sleep(c)
      PROVE  UNCHANGED JobSlot
  BY <1>1, <1>8 DEF LookupUid, ApplySecret, StartWait, Sleep, cluster
<1>9. ASSUME NEW c \in Clients, Leaves(c) PROVE UNCHANGED JobSlot
  BY <1>1, <1>9, LeavesKeeps
<1>10. ASSUME NEW c \in Clients, NEW request \in Calls, Begin(c, request)
       PROVE  UNCHANGED JobSlot
  BY <1>1, <1>10 DEF Begin, cluster
<1>11. ASSUME NEW c \in Clients, NEW delay \in 0..MaxDelay, Poll(c, delay)
       PROVE  UNCHANGED JobSlot
  BY <1>1, <1>11 DEF Poll, cluster
<1> QED
  BY <1>2, <1>3, <1>4, <1>5, <1>6, <1>7, <1>8, <1>9, <1>10, <1>11, Steps
  DEF Prepares, ClusterStep

\* A single client that never asks to replace a job in progress treats every
\* job name as a slot: no running job is deleted or replaced, however old its
\* cache is, whatever expires under it and whenever its process dies.
THEOREM OneClientImplementsSlots ==
    ASSUME NoReplaceInProgress, OneClient
    PROVE  Spec => ImplementsJobSlots
<1>1. Init => Slots!Init
  BY DEF Init, Slots!Init, Slots!Empty, JobSlot, NoJob, StatusOf
<1>2. CInv /\ [Next]_vars => [Slots!Next]_JobSlot
  <2>1. ASSUME UNCHANGED vars PROVE UNCHANGED JobSlot
    BY <2>1 DEF vars, cluster, JobSlot
  <2> QED BY <2>1, SlotStep
<1> QED BY <1>1, <1>2, CacheInvariance, PTL DEF Spec, ImplementsJobSlots, Slots!Spec
=============================================================================
