----------------------------- MODULE Deployments -----------------------------
(***************************************************************************)
(* Deployments of SaaS files.  The trigger integrations compare what        *)
(* app-interface and the branches say with what they have saved, and create *)
(* a pipeline run for every saas file and environment with a difference.    *)
(* A pipeline run (openshift-saas-deploy) reads what is to be deployed,     *)
(* validates its promotions, applies it, and publishes the result for those *)
(* that subscribe to it.                                                    *)
(*                                                                         *)
(* Commits are numbered along the branch.  No target has promotion_data and *)
(* no service-level objective is bproven, so neither holds anything up.    *)
(***************************************************************************)
EXTENDS Integers, FiniteSets, FiniteSetsExt

CONSTANTS
    Targets,
    Jobs,         \* saas files with an environment: what one pipeline run deploys
    JobOf,        \* of a target
    Moving,       \* the targets that follow the branch; the others name a commit
    New,          \* those that have never been deployed
    Channels,
    Publishes,    \* channels of a target
    Subscribes,   \* channels of a target
    SoakDays,     \* of a target
    Runs,         \* bound on the pipeline runs that exist at once
    MaxCommit,    \* bound on the commits of the branch
    MaxMerges,    \* bound on changes of configurations, or of anything if TakesBack
    MaxSoak,      \* days are counted up to it
    MaxFaults,    \* bound on failures and crashes
    TakesBack     \* whether a change may be taken back

Triggers == {"configs", "moving-commits"}
Commits == 0..MaxCommit
Days == 0..MaxSoak
None == -1

ASSUME DeploymentsAssumption ==
    /\ IsFiniteSet(Targets) /\ IsFiniteSet(Channels)
    /\ JobOf \in [Targets -> Jobs]
    /\ Moving \subseteq Targets /\ New \subseteq Targets
    /\ Publishes \in [Targets -> SUBSET Channels]
    /\ Subscribes \in [Targets -> SUBSET Channels]
    /\ SoakDays \in [Targets -> Nat]
    /\ {MaxCommit, MaxMerges, MaxSoak, MaxFaults} \subseteq Nat
    /\ TakesBack \in BOOLEAN

TargetsOf(j) == {t \in Targets : JobOf[t] = j}
PublishersOf(c) == {t \in Targets : c \in Publishes[t]}
Publications == {x \in Channels \X Targets : x[1] \in Publishes[x[2]]}

\* PromotionData; check_in is the days since.
Nothing == [success |-> FALSE, once |-> FALSE, days |-> None]
PromotionData == [success : BOOLEAN, once : BOOLEAN, days : Days] \cup {Nothing}

\* For a target that names a commit what app-interface says is that commit, for
\* one that follows the branch it is the number of its configuration.
Wanted == 0..MaxCommit + MaxMerges

VARIABLES
    head,      \* newest commit of the branch
    wanted,    \* of a target, in app-interface
    merges,
    recorded,  \* what a trigger integration has saved for a target
    data,      \* promotion data of a publication and a commit
    deployed   \* commit of a target, in its cluster

VARIABLES
    specs,      \* what a trigger integration still does for a target
    content,    \* what it will save then
    registered, \* already_triggered
    run         \* the pipeline runs

VARIABLES
    untriggered, \* changes since which no pipeline run was created
    proven,      \* days since a commit was first deployed to a target by a run
                 \* without error
    overlapped,  \* jobs of which two pipeline runs have been in progress at once
    faults

world == <<head, wanted, merges>>
triggers == <<specs, content, registered>>
history == <<untriggered, proven, overlapped>>
vars == <<world, recorded, data, deployed, triggers, run, history, faults>>

SpecPhases == {"none", "register", "create", "update"}
Free == [phase |-> "none", job |-> None, commit |-> [t \in Targets |-> None],
         left |-> {}, read |-> {}, success |-> TRUE]

Fault == faults < MaxFaults /\ faults' = faults + 1

\* What the trigger k compares with what it has saved.
Current(k, t) == IF k = "configs" THEN wanted[t] ELSE head
Triggering(k) == IF k = "configs" THEN Targets ELSE Moving
-----------------------------------------------------------------------------
Init ==
    /\ head = 0
    /\ wanted = [t \in Targets |-> 0]
    /\ merges = 0
    /\ recorded = [k \in Triggers |-> [t \in Targets |-> IF t \in New THEN None ELSE 0]]
    /\ data = [x \in Publications |-> [v \in Commits |->
         IF v = 0 /\ x[2] \notin New
         THEN [success |-> TRUE, once |-> TRUE, days |-> MaxSoak] ELSE Nothing]]
    /\ deployed = [t \in Targets |-> IF t \in New THEN None ELSE 0]
    /\ specs = [k \in Triggers |-> [t \in Targets |-> "none"]]
    /\ content = [k \in Triggers |-> [t \in Targets |-> 0]]
    /\ registered = [k \in Triggers |-> {}]
    /\ run = [r \in Runs |-> Free]
    /\ untriggered = {"configs"} \X New
    /\ proven = [t \in Targets |-> [v \in Commits |->
         IF v = 0 /\ t \notin New THEN MaxSoak ELSE None]]
    /\ overlapped = {}
    /\ faults = 0
-----------------------------------------------------------------------------
(* The trigger integrations. *)

\* get_diff: moving-commits only takes note of a target it does not know, which
\* is for configs to deploy.
GetDiff(k) ==
    /\ \A t \in Targets : specs[k][t] = "none"
    /\ LET unknown == IF k = "configs" THEN {} ELSE {t \in Moving : recorded[k][t] = None}
           changed == {t \in Triggering(k) \ unknown : recorded[k][t] # Current(k, t)}
       IN /\ specs' = [specs EXCEPT ![k] =
                [t \in Targets |-> IF t \in changed THEN "register" ELSE "none"]]
          /\ content' = [content EXCEPT ![k] =
                [t \in Targets |-> IF t \in changed THEN Current(k, t) ELSE 0]]
          /\ recorded' = [recorded EXCEPT ![k] =
                [t \in Targets |-> IF t \in unknown THEN Current(k, t) ELSE @[t]]]
          /\ changed \cup unknown # {}
    /\ registered' = [registered EXCEPT ![k] = {}]
    /\ UNCHANGED <<world, data, deployed, run, history, faults>>

\* One thread per spec: the first of a job is to create its pipeline run.
Register(k, t) ==
    /\ specs[k][t] = "register"
    /\ JobOf[t] \notin registered[k]
    /\ registered' = [registered EXCEPT ![k] = @ \cup {JobOf[t]}]
    /\ specs' = [specs EXCEPT ![k][t] = "create"]
    /\ UNCHANGED <<world, recorded, data, deployed, content, run, history, faults>>

\* The pipeline run will read all that has been merged and pushed until now.
Create(k, t) ==
    /\ specs[k][t] = "create"
    /\ \E r \in Runs :
        /\ run[r] = Free
        /\ run' = [run EXCEPT ![r].phase = "created", ![r].job = JobOf[t]]
    /\ untriggered' = {x \in untriggered : JobOf[x[2]] # JobOf[t]}
    /\ specs' = [specs EXCEPT ![k][t] = "update"]
    /\ UNCHANGED <<world, recorded, data, deployed, content, registered, proven,
                   overlapped, faults>>

\* Mutant: what was not triggered is saved as well.
AfterFailureUpdate == "update"
\* An error ends the thread before it saves anything.
AfterFailure == "none"

CreateFails(k, t) ==
    /\ specs[k][t] = "create"
    /\ Fault
    /\ specs' = [specs EXCEPT ![k][t] = AfterFailure]
    /\ UNCHANGED <<world, recorded, data, deployed, content, registered, run, history>>

\* The threads of a job do not wait for the one that creates its pipeline run.
UpdateState(k, t) ==
    /\ specs[k][t] = "update" \/ (specs[k][t] = "register" /\ JobOf[t] \in registered[k])
    /\ recorded' = [recorded EXCEPT ![k][t] = content[k][t]]
    /\ specs' = [specs EXCEPT ![k][t] = "none"]
    /\ content' = [content EXCEPT ![k][t] = 0]
    /\ UNCHANGED <<world, data, deployed, registered, run, history, faults>>

TriggerDies(k) ==
    /\ \E t \in Targets : specs[k][t] # "none"
    /\ Fault
    /\ specs' = [specs EXCEPT ![k] = [t \in Targets |-> "none"]]
    /\ content' = [content EXCEPT ![k] = [t \in Targets |-> 0]]
    /\ registered' = [registered EXCEPT ![k] = {}]
    /\ UNCHANGED <<world, recorded, data, deployed, run, history>>
-----------------------------------------------------------------------------
(* A pipeline run. *)

InProgress(j) == {r \in Runs : run[r].job = j /\ run[r].phase # "created"}
Set(r, new) == run' = [run EXCEPT ![r] = new]

\* The saas files are read, and the branches for the commits they stand for.  A
\* target whose template fails is left out of all that follows.
PopulateDesiredState(r) ==
    /\ run[r].phase = "created"
    /\ \E failing \in SUBSET TargetsOf(run[r].job) :
        LET j == run[r].job  populated == TargetsOf(j) \ failing IN
        /\ IF failing = {} THEN UNCHANGED faults ELSE Fault
        /\ Set(r, [run[r] EXCEPT
             !.phase = "validate", !.left = populated, !.success = failing = {},
             !.commit = [t \in Targets |-> IF t \notin populated THEN None
                                           ELSE IF t \in Moving THEN head ELSE wanted[t]]])
        /\ overlapped' = overlapped \cup (IF InProgress(j) = {} THEN {} ELSE {j})
    /\ UNCHANGED <<world, recorded, data, deployed, triggers, untriggered, proven>>

\* Mutant: one publisher of a channel is enough.
SucceededAny(c, v) ==
    \E t \in PublishersOf(c) : data[<<c, t>>][v].success \/ data[<<c, t>>][v].once
Succeeded(c, v) ==
    \A t \in PublishersOf(c) : data[<<c, t>>][v].success \/ data[<<c, t>>][v].once

\* Mutant: the day of a deployment counts as a whole one.
SoakedFromToday(t, v) ==
    MapThenSumSet(LAMBDA x : data[x][v].days + 1,
                  {x \in Publications : x[1] \in Subscribes[t]})
\* The days of all publishers together, by channel.
Soaked(t, v) ==
    MapThenSumSet(LAMBDA x : data[x][v].days,
                  {x \in Publications : x[1] \in Subscribes[t]})

ValidPromotion(t, v) ==
    Subscribes[t] # {} =>
        /\ \A c \in Subscribes[t] : Succeeded(c, v)
        /\ Soaked(t, v) >= SoakDays[t]

\* An invalid promotion of one target ends the run for all.
ValidatePromotions(r) ==
    /\ run[r].phase = "validate"
    /\ Set(r, IF \A t \in run[r].left : ValidPromotion(t, run[r].commit[t])
              THEN [run[r] EXCEPT !.phase = "apply"] ELSE Free)
    /\ UNCHANGED <<world, recorded, data, deployed, triggers, history, faults>>

\* realize_data and validate_realized_data: an error of one target is one of the
\* run, which goes on with the others.
Apply(r, t) ==
    /\ run[r].phase = "apply"
    /\ t \in run[r].left
    /\ \/ /\ deployed' = [deployed EXCEPT ![t] = run[r].commit[t]]
          /\ Set(r, [run[r] EXCEPT !.left = @ \ {t}])
          /\ UNCHANGED faults
       \/ /\ deployed' \in {deployed, [deployed EXCEPT ![t] = run[r].commit[t]]}
          /\ Set(r, [run[r] EXCEPT !.left = @ \ {t}, !.success = FALSE])
          /\ Fault
    /\ UNCHANGED <<world, recorded, data, triggers, history>>

StartPublishing(r) ==
    /\ run[r].phase = "apply"
    /\ run[r].left = {}
    /\ LET publications == {x \in Publications : run[r].commit[x[2]] # None} IN
       Set(r, IF publications = {} THEN Free
              ELSE [run[r] EXCEPT !.phase = "publish", !.left = publications])
    /\ proven' = [t \in Targets |-> [v \in Commits |->
         IF run[r].success /\ v = run[r].commit[t] /\ proven[t][v] = None
         THEN 0 ELSE proven[t][v]]]
    /\ UNCHANGED <<world, recorded, data, deployed, triggers, untriggered, overlapped, faults>>

\* get_promotion_data and publish_promotion_data are two requests.
ReadPromotionData(r, x) ==
    /\ run[r].phase = "publish"
    /\ run[r].read = {}
    /\ x \in run[r].left
    /\ Set(r, [run[r] EXCEPT !.left = @ \ {x},
                             !.read = {[of |-> x, old |-> data[x][run[r].commit[x[2]]]]}])
    /\ UNCHANGED <<world, recorded, data, deployed, triggers, history, faults>>

\* Mutant: a failure is all that is remembered.
OnceIfSuccess(old, success) == success
\* A commit that has succeeded once stays good for those that run it.
Once(old, success) == success \/ old.once

\* The days go on only from one success to the next.
CheckIn(old, success) == IF success /\ old.success THEN old.days ELSE 0

PublishPromotionData(r) ==
    /\ run[r].phase = "publish"
    /\ \E p \in run[r].read :
        /\ data' = [data EXCEPT ![p.of][run[r].commit[p.of[2]]] =
             [success |-> run[r].success,
              once |-> Once(p.old, run[r].success),
              days |-> CheckIn(p.old, run[r].success)]]
        /\ Set(r, IF run[r].left = {} THEN Free ELSE [run[r] EXCEPT !.read = {}])
    /\ UNCHANGED <<world, recorded, deployed, triggers, history, faults>>

RunDies(r) ==
    /\ run[r].phase \notin {"none", "created"}
    /\ Fault
    /\ Set(r, Free)
    /\ UNCHANGED <<world, recorded, data, deployed, triggers, history>>
-----------------------------------------------------------------------------
(* People and time. *)

Merge(t) ==
    /\ IF t \in Moving \/ TakesBack
       THEN merges < MaxMerges /\ merges' = merges + 1
       ELSE UNCHANGED merges
    /\ \E w \in IF t \in Moving THEN Wanted ELSE 0..head :
        /\ w # wanted[t]
        /\ TakesBack \/ w > wanted[t]
        /\ t \in Moving => w <= wanted[t] + 1
        /\ wanted' = [wanted EXCEPT ![t] = w]
    /\ untriggered' = untriggered \cup {<<"configs", t>>}
    /\ UNCHANGED <<head, recorded, data, deployed, triggers, run, proven, overlapped, faults>>

Push ==
    /\ head < MaxCommit
    /\ head' = head + 1
    /\ untriggered' = untriggered \cup ({"moving-commits"} \X Moving)
    /\ UNCHANGED <<wanted, merges, recorded, data, deployed, triggers, run, proven,
                   overlapped, faults>>

Older(days) == IF days \in {None, MaxSoak} THEN days ELSE days + 1

DayPasses ==
    /\ data' = [x \in Publications |-> [v \in Commits |->
         [data[x][v] EXCEPT !.days = Older(@)]]]
    /\ proven' = [t \in Targets |-> [v \in Commits |-> Older(proven[t][v])]]
    /\ UNCHANGED <<world, recorded, deployed, triggers, run, untriggered, overlapped, faults>>

Trigger(k) ==
    \/ GetDiff(k)
    \/ \E t \in Targets : Register(k, t) \/ Create(k, t) \/ UpdateState(k, t)

Deploy(r) ==
    \/ PopulateDesiredState(r) \/ ValidatePromotions(r)
    \/ \E t \in Targets : Apply(r, t)
    \/ StartPublishing(r)
    \/ \E x \in Publications : ReadPromotionData(r, x)
    \/ PublishPromotionData(r)

Next ==
    \/ \E k \in Triggers :
        Trigger(k) \/ TriggerDies(k) \/ (\E t \in Targets : CreateFails(k, t))
    \/ \E r \in Runs : Deploy(r) \/ RunDies(r)
    \/ \E t \in Targets : Merge(t)
    \/ Push
    \/ DayPasses

Spec == Init /\ [][Next]_vars
-----------------------------------------------------------------------------
TypeOK ==
    /\ head \in Commits
    /\ wanted \in [Targets -> Wanted]
    /\ recorded \in [Triggers -> [Targets -> Wanted \cup {None}]]
    /\ data \in [Publications -> [Commits -> PromotionData]]
    /\ deployed \in [Targets -> Commits \cup {None}]
    /\ specs \in [Triggers -> [Targets -> SpecPhases]]
    /\ content \in [Triggers -> [Targets -> Wanted]]
    /\ registered \in [Triggers -> SUBSET Jobs]
    /\ run \in [Runs -> [phase : {"none", "created", "validate", "apply", "publish"},
                        job : Jobs \cup {None},
                        commit : [Targets -> Commits \cup {None}],
                        left : SUBSET (Targets \cup Publications),
                        read : SUBSET [of : Publications, old : PromotionData],
                        success : BOOLEAN]]
    /\ untriggered \subseteq Triggers \X Targets
    /\ proven \in [Targets -> [Commits -> Days \cup {None}]]
    /\ overlapped \subseteq Jobs
    /\ merges \in Nat /\ faults \in Nat

\* The promotion gate: what a subscriber runs has been deployed without error to
\* every target that publishes to one of its channels, whatever is merged, which
\* of them failed since, and whose results were published when.
PromotedAfterSuccess ==
    \A t \in Targets : \A c \in Subscribes[t] : \A p \in PublishersOf(c) :
        deployed[t] # None => proven[p][deployed[t]] # None

\* The days since its first deployment without error, of all publications a target
\* subscribes to.
ProvenDays(t, v) ==
    MapThenSumSet(LAMBDA x : proven[x[2]][v], {x \in Publications : x[1] \in Subscribes[t]})

\* soakDays: a subscriber gets a commit when the days since its publishers first
\* had it without error add up; neither failures nor days before a success count.
SoakedBeforePromotion == [][
    \A t \in Targets : Subscribes[t] # {} /\ deployed'[t] # deployed[t] =>
        ProvenDays(t, deployed'[t]) >= SoakDays[t]]_vars

\* "Note, this shouldnt be overridden on subsequent promotions of same ref": what
\* has succeeded once stays so, as long as no two pipeline runs of the publisher
\* are in progress at once.
OnceIsKept == [][
    \A x \in Publications, v \in Commits :
        JobOf[x[2]] \notin overlapped /\ data[x][v].once => data'[x][v].once]_vars

\* No change of app-interface and no commit of a branch is forgotten: while one
\* waits for a pipeline run to be created after it, some target of its job differs
\* from what a trigger integration has saved of it, or is being triggered, though
\* threads save the state of their targets while another creates the pipeline run
\* of their job, or fails to.
ChangesAreTriggered ==
    \A x \in untriggered : \E k \in Triggers : \E t \in TargetsOf(JobOf[x[2]]) :
        \/ specs[k][t] # "none"
        \/ t \in Triggering(k) /\ recorded[k][t] # Current(k, t)

\* The same of a target that names a commit, does not run it, and is not being
\* deployed, also when changes are taken back: the change of one target is not
\* forgotten because another of its job has no difference any more.
NothingIsLost ==
    \A t \in Targets \ Moving :
        /\ <<"configs", t>> \in untriggered
        /\ deployed[t] # wanted[t]
        /\ \A r \in Runs : run[r].job # JobOf[t]
        => \E k \in Triggers : \E u \in TargetsOf(JobOf[t]) :
            specs[k][u] # "none" \/ (u \in Triggering(k) /\ recorded[k][u] # Current(k, u))

\* The same as OnceIsKept, without its condition.
OnceIsForever == [][
    \A x \in Publications, v \in Commits : data[x][v].once => data'[x][v].once]_vars

\* Once all is quiet, a target runs what app-interface wants: no older pipeline
\* run has come after a newer one.
NewestStays ==
    \A t \in Targets \ Moving :
        run = [r \in Runs |-> Free] /\ recorded["configs"][t] = wanted[t] /\ faults = 0
            => deployed[t] = wanted[t]
=============================================================================
