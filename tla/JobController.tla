--------------------------- MODULE JobController ---------------------------
(***************************************************************************)
(* reconcile/utils/jobcontroller: integrations run units of work as         *)
(* Kubernetes jobs.  A client is a process with a K8sJobController; it      *)
(* enqueues the jobs of a call one after the other and then waits for them, *)
(* as rosa/session.py does for one job and the external resources           *)
(* reconciler for a list.  The name of a job is its unit of work, so two    *)
(* clients that ask for the same work meet in the same job.                 *)
(*                                                                         *)
(* Every call to the cluster is a step.  Between two steps jobs start, end, *)
(* pass their deadline and expire, the garbage collector removes secrets    *)
(* whose job is gone, other clients act, and the client may die.            *)
(***************************************************************************)
EXTENDS Integers, FiniteSets, JobPolicy

CONSTANTS
    Clients,
    Names,       \* job names
    NoName,      \* not a name
    Uids,        \* uids the cluster gives to jobs; reused when free
    NoUid,       \* not a uid
    Calls,       \* what a client may ask for
    Interval,    \* check_interval_seconds
    Timeout,     \* timeout_seconds; -1 is no timeout
    MaxDelay,    \* bound on the time a poll takes
    HasDeadline, \* the jobs have active_deadline_seconds
    MaxFaults    \* bound on clients that die and on results that expire unseen

\* single: wait_for_job_completion, otherwise wait_for_job_list_completion.
CallType == [names : SUBSET Names, policy : SUBSET PolicyFlags, single : BOOLEAN]

ASSUME ControllerAssumption ==
    /\ IsFiniteSet(Clients) /\ IsFiniteSet(Names)
    /\ NoName \notin Names /\ NoUid \notin Uids
    /\ Calls \subseteq CallType
    /\ Interval \in Nat \ {0}
    /\ Timeout \in Nat \cup {-1}
    /\ MaxDelay \in Nat
    /\ HasDeadline \in BOOLEAN
    /\ MaxFaults \in Nat

Phases == {"none", "pending", "running", "succeeded", "failed"}
Unfinished == {"pending", "running"}
Outcomes == {"none", "returned", "timeout", "raised"}

NoJob == [phase |-> "none", uid |-> NoUid]
NoCall == [names |-> {}, policy |-> {}, single |-> FALSE]

VARIABLES
    jobs,    \* the jobs of the namespace
    secrets, \* uid of the job that owns the secret of that name, NoUid if none
    faults

VARIABLES
    pc,      \* next step of the client
    call,    \* the call it is working on
    todo,    \* names of the call not yet enqueued
    name,    \* the job create_job is working on
    owner,   \* uid found by _lookup_job_uid
    cached,  \* _cache is not None
    cache,   \* _cache, by status
    left,    \* jobs_left
    result,  \* job_statuses
    elapsed, \* elapsed_time
    outcome  \* how the last call ended

cluster == <<jobs, secrets, faults>>
waiting == <<left, result, elapsed>>
vars == <<cluster, pc, call, todo, name, owner, cached, cache, waiting, outcome>>
-----------------------------------------------------------------------------
\* Mutant: a job that has used up its retries counts as in progress.
StatusOfLenient(phase) ==
    CASE phase = "none" -> "NOT_EXISTS"
      [] phase = "succeeded" -> "SUCCESS"
      [] OTHER -> "IN_PROGRESS"

\* get_job_status of a job as the cluster has it.
StatusOf(phase) ==
    CASE phase = "none" -> "NOT_EXISTS"
      [] phase = "succeeded" -> "SUCCESS"
      [] phase = "failed" -> "ERROR"
      [] OTHER -> "IN_PROGRESS"

Observed == [n \in Names |-> StatusOf(jobs[n].phase)]

\* The cache property: loaded by its first use, then as the last update left it.
Seen(c) == IF cached[c] THEN cache[c] ELSE Observed

\* Mutant: a timeout is only noticed once it has been passed.
TimedOutLate(c) == Timeout >= 0 /\ elapsed[c] > Timeout
TimedOut(c) == Timeout >= 0 /\ elapsed[c] >= Timeout

Least(a, b) == IF a < b THEN a ELSE b

\* Mutant: the interval is slept to its end.
SleepTimeWhole(c) == Interval

\* _sleep_until_timeout; elapsed_time is not looked at without a timeout.
SleepTime(c) == IF Timeout < 0 THEN 0 ELSE Least(Interval, Timeout - elapsed[c])

\* Mutant: every poll reports all jobs anew.
PolledAll(c) == [n \in Names |-> IF n \in call[c].names THEN Observed[n] ELSE result[c][n]]

\* Mutant: a poll reports the phase of a job for its status.
PolledPhases(c) == [n \in Names |-> IF n \in left[c] THEN jobs[n].phase ELSE result[c][n]]

\* job_statuses after a poll: finished jobs are not looked at again.
Polled(c) == [n \in Names |-> IF n \in left[c] THEN Observed[n] ELSE result[c][n]]
-----------------------------------------------------------------------------
(* A client.                                                                *)

Init ==
    /\ jobs = [n \in Names |-> NoJob]
    /\ secrets = [n \in Names |-> NoUid]
    /\ faults = 0
    /\ pc = [c \in Clients |-> "idle"]
    /\ call = [c \in Clients |-> NoCall]
    /\ todo = [c \in Clients |-> {}]
    /\ name = [c \in Clients |-> NoName]
    /\ owner = [c \in Clients |-> NoUid]
    /\ cached = [c \in Clients |-> FALSE]
    /\ cache = [c \in Clients |-> [n \in Names |-> "NOT_EXISTS"]]
    /\ left = [c \in Clients |-> {}]
    /\ result = [c \in Clients |-> [n \in Names |-> "NOT_EXISTS"]]
    /\ elapsed = [c \in Clients |-> 0]
    /\ outcome = [c \in Clients |-> "none"]

Begin(c, request) ==
    /\ pc[c] = "idle"
    /\ pc' = [pc EXCEPT ![c] = "enqueue"]
    /\ call' = [call EXCEPT ![c] = request]
    /\ todo' = [todo EXCEPT ![c] = request.names]
    /\ result' = [result EXCEPT ![c] = [n \in Names |-> "NOT_EXISTS"]]
    /\ outcome' = [outcome EXCEPT ![c] = "none"]
    /\ UNCHANGED <<cluster, name, owner, cached, cache, left, elapsed>>

\* enqueue_job decides from the cache.
Enqueue(c, n) ==
    LET status == Seen(c)[n]
        policy == call[c].policy IN
    /\ pc[c] = "enqueue"
    /\ IF CreatesJob(status, policy)
       THEN /\ name' = [name EXCEPT ![c] = n]
            /\ pc' = [pc EXCEPT ![c] = IF CancelsExisting(status, policy)
                                       THEN "delete" ELSE "create"]
       ELSE UNCHANGED <<name, pc>>
    /\ todo' = [todo EXCEPT ![c] = @ \ {n}]
    /\ cached' = [cached EXCEPT ![c] = TRUE]
    /\ cache' = [cache EXCEPT ![c] = Seen(c)]
    /\ UNCHANGED <<cluster, call, owner, waiting, outcome>>

\* delete_job.  The secret of the job stays until it is collected.
DeleteJob(c) ==
    /\ pc[c] = "delete"
    /\ jobs[name[c]].phase # "none"
    /\ jobs' = [jobs EXCEPT ![name[c]] = NoJob]
    /\ pc' = [pc EXCEPT ![c] = "create"]
    /\ UNCHANGED <<secrets, faults, call, todo, name, owner, cached, cache, waiting, outcome>>

UidsInUse == {jobs[n].uid : n \in Names} \cup {secrets[n] : n \in Names}
                 \cup {owner[c] : c \in Clients}

\* create_job, the job.  Applying the manifest of a unit of work over the job
\* that already does it changes nothing.
ApplyJob(c) ==
    /\ pc[c] = "create"
    /\ IF jobs[name[c]].phase = "none"
       THEN /\ Uids \ UidsInUse # {}
            /\ jobs' = [jobs EXCEPT ![name[c]] =
                           [phase |-> "pending", uid |-> CHOOSE u \in Uids : u \notin UidsInUse]]
       ELSE UNCHANGED jobs
    /\ pc' = [pc EXCEPT ![c] = "lookup"]
    /\ UNCHANGED <<secrets, faults, call, todo, name, owner, cached, cache, waiting, outcome>>

\* build_secret looks the uid up ...
LookupUid(c) ==
    /\ pc[c] = "lookup"
    /\ jobs[name[c]].phase # "none"
    /\ owner' = [owner EXCEPT ![c] = jobs[name[c]].uid]
    /\ pc' = [pc EXCEPT ![c] = "secret"]
    /\ UNCHANGED <<cluster, call, todo, name, cached, cache, waiting, outcome>>

\* ... and create_job applies the secret with the job as its owner.
ApplySecret(c) ==
    /\ pc[c] = "secret"
    /\ secrets' = [secrets EXCEPT ![name[c]] = owner[c]]
    /\ owner' = [owner EXCEPT ![c] = NoUid]
    /\ name' = [name EXCEPT ![c] = NoName]
    /\ pc' = [pc EXCEPT ![c] = "enqueue"]
    /\ UNCHANGED <<jobs, faults, call, todo, cached, cache, waiting, outcome>>

\* enqueue_job's result is ignored by its callers: they wait for what they
\* have not scheduled as well.
StartWait(c) ==
    /\ pc[c] = "enqueue"
    /\ todo[c] = {}
    /\ left' = [left EXCEPT ![c] = call[c].names]
    /\ pc' = [pc EXCEPT ![c] = "poll"]
    /\ UNCHANGED <<cluster, call, todo, name, owner, cached, cache, result, elapsed, outcome>>

\* One iteration: update_cache, a look at every job left, and the time it took.
Poll(c, delay) ==
    /\ pc[c] = "poll"
    /\ cached' = [cached EXCEPT ![c] = TRUE]
    /\ cache' = [cache EXCEPT ![c] = Observed]
    /\ result' = [result EXCEPT ![c] = Polled(c)]
    /\ left' = [left EXCEPT ![c] = {n \in @ : Observed[n] \notin Finished}]
    /\ elapsed' = [elapsed EXCEPT ![c] = IF left'[c] = {} THEN 0
                                         ELSE IF Timeout < 0 THEN @ ELSE @ + delay]
    /\ pc' = [pc EXCEPT ![c] = IF left'[c] = {} THEN "idle" ELSE "check"]
    /\ outcome' = [outcome EXCEPT ![c] = IF left'[c] = {} THEN "returned" ELSE @]
    /\ UNCHANGED <<cluster, call, todo, name, owner>>

Sleep(c) ==
    /\ pc[c] = "check"
    /\ ~TimedOut(c)
    /\ elapsed' = [elapsed EXCEPT ![c] = @ + SleepTime(c)]
    /\ pc' = [pc EXCEPT ![c] = "poll"]
    /\ UNCHANGED <<cluster, call, todo, name, owner, cached, cache, left, result, outcome>>

\* The process is over, and its cache with it.
ProcessOver(c) ==
    /\ pc' = [pc EXCEPT ![c] = "idle"]
    /\ todo' = [todo EXCEPT ![c] = {}]
    /\ owner' = [owner EXCEPT ![c] = NoUid]
    /\ cached' = [cached EXCEPT ![c] = FALSE]
    /\ cache' = [cache EXCEPT ![c] = [n \in Names |-> "NOT_EXISTS"]]
    /\ name' = [name EXCEPT ![c] = NoName]
    /\ left' = [left EXCEPT ![c] = {}]
    /\ elapsed' = [elapsed EXCEPT ![c] = 0]

\* wait_for_job_list_completion logs and breaks.
ListTimesOut(c) ==
    /\ pc[c] = "check"
    /\ TimedOut(c)
    /\ ~call[c].single
    /\ pc' = [pc EXCEPT ![c] = "idle"]
    /\ left' = [left EXCEPT ![c] = {}]
    /\ elapsed' = [elapsed EXCEPT ![c] = 0]
    /\ outcome' = [outcome EXCEPT ![c] = "returned"]
    /\ UNCHANGED <<cluster, call, todo, name, owner, cached, cache, result>>

\* wait_for_job_completion raises, and nobody catches TimeoutError.
SingleTimesOut(c) ==
    /\ pc[c] = "check"
    /\ TimedOut(c)
    /\ call[c].single
    /\ outcome' = [outcome EXCEPT ![c] = "timeout"]
    /\ ProcessOver(c)
    /\ UNCHANGED <<cluster, call, result>>

\* `oc delete` of a job that is gone, or no uid to be found.
CallFails(c) ==
    /\ pc[c] \in {"delete", "lookup"}
    /\ jobs[name[c]].phase = "none"
    /\ outcome' = [outcome EXCEPT ![c] = "raised"]
    /\ ProcessOver(c)
    /\ UNCHANGED <<cluster, call, result>>

\* The integration ends its run; the next one has a controller of its own.
EndProcess(c) ==
    /\ pc[c] = "idle"
    /\ cached[c]
    /\ ProcessOver(c)
    /\ UNCHANGED <<cluster, call, result, outcome>>

Crash(c) ==
    /\ pc[c] # "idle"
    /\ faults < MaxFaults
    /\ faults' = faults + 1
    /\ outcome' = [outcome EXCEPT ![c] = "raised"]
    /\ ProcessOver(c)
    /\ UNCHANGED <<jobs, secrets, call, result>>

Step(c) ==
    \/ \E n \in todo[c] : Enqueue(c, n)
    \/ DeleteJob(c) \/ ApplyJob(c) \/ LookupUid(c) \/ ApplySecret(c) \/ StartWait(c)
    \/ \E delay \in 0..MaxDelay : Poll(c, delay)
    \/ Sleep(c) \/ ListTimesOut(c) \/ SingleTimesOut(c) \/ CallFails(c)
-----------------------------------------------------------------------------
(* The cluster.                                                             *)

clients == <<pc, call, todo, name, owner, cached, cache, waiting, outcome>>

SetPhase(n, phase) ==
    /\ jobs' = [jobs EXCEPT ![n].phase = phase]
    /\ UNCHANGED <<secrets, faults, clients>>

\* The pod mounts the secret of its name, whoever owns it, and stays in
\* creation as long as there is none.
JobStarts(n)   == jobs[n].phase = "pending" /\ secrets[n] # NoUid /\ SetPhase(n, "running")
JobSucceeds(n) == jobs[n].phase = "running" /\ SetPhase(n, "succeeded")
JobFails(n)    == jobs[n].phase = "running" /\ SetPhase(n, "failed")

\* active_deadline_seconds is minutes, from the job to its secret is seconds.
DeadlinePasses(n) ==
    /\ HasDeadline
    /\ jobs[n].phase \in Unfinished
    /\ \A c \in Clients : name[c] = n => pc[c] \notin {"lookup", "secret"}
    /\ SetPhase(n, "failed")

\* ttl_seconds_after_finished, which validate_job insists on, is an hour: a
\* result that somebody polls for expires unseen only when the poller hangs.
JobExpires(n) ==
    /\ jobs[n].phase \in {"succeeded", "failed"}
    /\ IF \E c \in Clients : pc[c] \in {"poll", "check"} /\ n \in left[c]
       THEN faults < MaxFaults /\ faults' = faults + 1
       ELSE faults' = faults
    /\ jobs' = [jobs EXCEPT ![n] = NoJob]
    /\ UNCHANGED <<secrets, clients>>

CollectSecret(n) ==
    /\ secrets[n] # NoUid
    /\ secrets[n] # jobs[n].uid
    /\ secrets' = [secrets EXCEPT ![n] = NoUid]
    /\ UNCHANGED <<jobs, faults, clients>>

Next ==
    \/ \E c \in Clients : \/ \E request \in Calls : Begin(c, request)
                          \/ Step(c) \/ EndProcess(c) \/ Crash(c)
    \/ \E n \in Names : \/ JobStarts(n) \/ JobSucceeds(n) \/ JobFails(n)
                        \/ DeadlinePasses(n) \/ JobExpires(n) \/ CollectSecret(n)

Spec == Init /\ [][Next]_vars

\* Clients keep going and keep asking, time passes for jobs, and a job that is
\* tried again and again succeeds.  Nothing is assumed of expiry.
Fairness ==
    /\ \A c \in Clients : /\ WF_vars(Step(c))
                          /\ \A request \in Calls : WF_vars(Begin(c, request))
    /\ \A n \in Names : /\ SF_vars(JobStarts(n))
                        /\ WF_vars(DeadlinePasses(n))
                        /\ SF_vars(JobSucceeds(n))

FairSpec == Spec /\ Fairness
-----------------------------------------------------------------------------
TypeOK ==
    /\ jobs \in [Names -> [phase : Phases, uid : Uids \cup {NoUid}]]
    /\ secrets \in [Names -> Uids \cup {NoUid}]
    /\ faults \in Nat
    /\ pc \in [Clients -> {"idle", "enqueue", "delete", "create", "lookup", "secret",
                           "poll", "check"}]
    /\ call \in [Clients -> Calls \cup {NoCall}]
    /\ todo \in [Clients -> SUBSET Names]
    /\ name \in [Clients -> Names \cup {NoName}]
    /\ owner \in [Clients -> Uids \cup {NoUid}]
    /\ cached \in [Clients -> BOOLEAN]
    /\ cache \in [Clients -> [Names -> JobStatuses]]
    /\ left \in [Clients -> SUBSET Names]
    /\ result \in [Clients -> [Names -> JobStatuses]]
    /\ elapsed \in [Clients -> Nat]
    /\ outcome \in [Clients -> Outcomes]

JobSlot == [n \in Names |-> [status |-> StatusOf(jobs[n].phase), unit |-> jobs[n].uid]]
Slots == INSTANCE JobSlots WITH
            Units <- Uids, NoUnit <- NoUid, slot <- JobSlot

\* With one client and policies without REPLACE_IN_PROGRESS, no running job is
\* ever deleted or replaced, although the cache outlives a call, jobs expire
\* under it and processes die between a deletion and the creation after it.
ImplementsJobSlots == Slots!Spec

\* What a wait has reported as finished stays as reported, also when the job
\* expires, or is replaced by another client, before the wait is over.
ResultsStick ==
    [][\A c \in Clients : pc[c] \in {"poll", "check"} =>
          \A n \in call[c].names : result[c][n] \in Finished => result'[c][n] = result[c][n]]_vars

\* A wait does not outlast its timeout by more than the time of one poll: the
\* last sleep ends at the timeout, whatever the interval.
NoOversleep ==
    \A c \in Clients : Timeout >= 0 => elapsed[c] <= Timeout + MaxDelay

\* Every call ends.
CallsEnd == \A c \in Clients : pc[c] # "idle" ~> pc[c] = "idle"

\* Work that is asked for again and again is done in the end: crashes between
\* the job and its secret, expired results and stale caches only delay it.
WorkSucceeds == \A n \in Names : []<>(\E c \in Clients : n \in call[c].names)
                                    => <>(jobs[n].phase = "succeeded")

\* enqueue_job's policy: a job in progress is replaced only under
\* REPLACE_IN_PROGRESS.
PolicyObeyed ==
    [][\A c \in Clients : DeleteJob(c) /\ jobs[name[c]].phase \in Unfinished
          => "REPLACE_IN_PROGRESS" \in call[c].policy]_vars

\* wait_for_job_list_completion: "If a timeout occures, a TimeoutError will be
\* raised", so what it returns has finished.
ReturnedMeansFinished ==
    \A c \in Clients : outcome[c] = "returned" =>
        \A n \in call[c].names : result[c][n] \in Finished

\* The controller manages the lifecycle of the secret of a job: a job starts
\* with the secret that was written for it.
StartsWithOwnSecret == [][\A n \in Names : JobStarts(n) => secrets[n] = jobs[n].uid]_vars
=============================================================================
