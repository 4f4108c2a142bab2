----------------------------- MODULE MergeQueue -----------------------------
(***************************************************************************)
(* The merge queue of gitlab-housekeeping for one repository that merges    *)
(* fast-forward and rebases: each run puts the error labels right, merges   *)
(* what is approved, rebased and green, and rebases what is not.  With      *)
(* active-cap-multi-merge the first merge leads a group: its members merge  *)
(* on the result of the pipeline they already have.                         *)
(*                                                                         *)
(* GitLab keeps all the state between runs: labels, branches and pipelines. *)
(* Look and merge are one step: the branch is not pushed to between them,   *)
(* and GitLab refuses a merge if the target branch has moved.               *)
(***************************************************************************)
EXTENDS Integers, FiniteSets, Sequences

CONSTANTS
    MRs,
    External,    \* a merge of somebody else
    Tenants,     \* the tenant-* labels of a merge request
    Rank,        \* by label priority, then by approval
    Strategies,  \* the RebaseStrategy in use: all that are checked
    OnDemand,    \* the repository has must_pass: on-demand tests to pass before a merge
    RebaseLimit,
    MergeLimit,
    MaxExternal, \* bound on merges of others
    MaxRelabels, \* bound on approvals and holds given and taken
    MaxPushes,   \* bound on pushes of authors
    MaxFaults    \* bound on failures, crashes and changes of strategy

AllStrategies == {"old-burst", "active-cap", "active-cap-multi-merge"}

ASSUME MergeQueueAssumption ==
    /\ External \notin MRs
    /\ IsFiniteSet(MRs)
    /\ DOMAIN Tenants = MRs
    /\ Rank \in [MRs -> Nat]
    /\ \A m, n \in MRs : Rank[m] = Rank[n] => m = n
    /\ Strategies \subseteq AllStrategies
    /\ OnDemand \in BOOLEAN
    /\ {RebaseLimit, MergeLimit} \subseteq Nat \ {0}
    /\ {MaxExternal, MaxRelabels, MaxPushes, MaxFaults} \subseteq Nat

\* One label stands for the approvals, one for the holds and one for the errors.
Labels == {"lgtm", "hold", "error", "omm-group-lead", "omm-pending"}

VARIABLES
    target,     \* the commits of the target branch
    labels,
    base,       \* how much of the target branch a merge request is rebased on
    ci,         \* its last pipeline that was not skipped, and that one's base
    passed,     \* those whose on-demand tests have passed on their last commit
    windowOpen, \* the last lead was merged less than omm-max-interval ago
    strategy

VARIABLES
    phase,  \* of the run
    queue,  \* what the run found good to merge and without error
    listed, \* what of that merge_merge_requests goes by
    todo,
    kept,   \* members of the group when the run looked
    marked, \* those of them with an error or a hold then
    merges,
    active, \* some member may still merge
    then    \* what follows the end of a group

VARIABLES
    relabels, pushes, faults,
    held, withheld \* held and not approved since the run began; only history

gitlab == <<target, labels, base, ci, passed, windowOpen>>
local == <<queue, listed, todo, kept, marked, merges, active, then>>
bounds == <<relabels, pushes, faults>>
history == <<held, withheld>>
vars == <<gitlab, strategy, phase, local, bounds, history>>
-----------------------------------------------------------------------------
(* What GitLab answers. *)

Tip == Len(target)
Merged == {target[i].mr : i \in 1..Tip}
Opened == MRs \ Merged
Multi == strategy = "active-cap-multi-merge"
IsRebased(m) == base[m] = Tip
HasLabel(l) == {m \in MRs : l \in labels[m]}
Leads == HasLabel("omm-group-lead")
Pending == HasLabel("omm-pending")
GoodToMerge(m) == "lgtm" \in labels[m] /\ "hold" \notin labels[m]
Waiting == {m \in Opened : GoodToMerge(m) /\ "error" \notin labels[m]}

\* verify_on_demand_tests: neither are tests missing nor is a pipeline running.
Verified(m) == OnDemand => m \in passed /\ ci[m].status # "running"

TenantsOf(S) == UNION {Tenants[m] : m \in S}

\* The first k of S, in the order of the queue.
FirstOf(S, k) == {m \in S : Cardinality({n \in S : Rank[n] < Rank[m]}) < k}

\* Mutant: members may share tenants.
ChosenAny(S, taken) == S
\* In the order of the queue, all whose tenants are not taken yet.
Chosen(S, taken) ==
    CHOOSE C \in SUBSET S : \A m \in S :
        m \in C <=> Tenants[m] \cap
            (taken \cup TenantsOf({n \in C : Rank[n] < Rank[m]})) = {}

\* _form_omm_group does not ask whether a candidate is rebased.
Candidates(S, taken) ==
    Chosen({m \in S : Tenants[m] # {} /\ ci[m].status # "failed"}, taken)

Add(S, l) == [m \in MRs |-> IF m \in S THEN labels[m] \cup {l} ELSE labels[m]]
Remove(S, l) == [m \in MRs |-> IF m \in S THEN labels[m] \ {l} ELSE labels[m]]

Merge(m, how) ==
    /\ target' = Append(target, [mr |-> m, tested |-> ci[m].base, how |-> how])
    /\ held' = held \ {m}
    /\ withheld' = withheld \ {m}

\* Rebasing with skip_ci leaves the merge request its old pipeline, but its last
\* commit is a new one.
Rebase(S) ==
    /\ base' = [m \in MRs |-> IF m \in S THEN Tip ELSE base[m]]
    /\ passed' = passed \ S
StartPipelines(S) ==
    ci' = [m \in MRs |-> IF m \in S THEN [status |-> "running", base |-> Tip] ELSE ci[m]]

Fault == faults < MaxFaults /\ faults' = faults + 1 /\ UNCHANGED <<relabels, pushes>>

\* A run leaves nothing but what is in GitLab.
EndRun ==
    /\ phase' = "idle"
    /\ queue' = {} /\ listed' = {} /\ todo' = {} /\ kept' = {} /\ marked' = {}
    /\ merges' = 0
    /\ active' = FALSE
    /\ then' = "serial"

\* Mutant: a group that ends keeps its labels.
ClearNothing(next) == phase' = next /\ UNCHANGED then

\* The end of a group: first the lead's label goes, then all others.
Clear(next) == phase' = "clear" /\ then' = next
-----------------------------------------------------------------------------
Init ==
    /\ target = <<>>
    /\ labels = [m \in MRs |-> {"lgtm"}]
    /\ base = [m \in MRs |-> 0]
    /\ ci = [m \in MRs |-> [status |-> "running", base |-> 0]]
    /\ passed = {}
    /\ windowOpen = FALSE
    /\ strategy \in Strategies
    /\ phase = "idle"
    /\ queue = {} /\ listed = {} /\ todo = {} /\ kept = {} /\ marked = {}
    /\ merges = 0
    /\ active = FALSE
    /\ then = "serial"
    /\ relabels = 0 /\ pushes = 0 /\ faults = 0
    /\ held = {} /\ withheld = {}

\* run_error_healthcheck, of what is approved: an error label goes when what it
\* stands for is gone, and comes when pipelines have failed too often.
HealthCheck ==
    LET checked == {m \in Opened : GoodToMerge(m)} IN
    \E changed \in SUBSET {m \in checked :
                            "error" \in labels[m] \/ ci[m].status = "failed"} :
        labels' = [m \in MRs |->
            IF m \notin changed THEN labels[m]
            ELSE IF "error" \in labels[m] THEN labels[m] \ {"error"}
            ELSE labels[m] \cup {"error"}]

\* get_rebase_strategy, and the list of the queue, without what GitLab is just
\* checking again for conflicts (cannot_be_merged_recheck).
StartRun ==
    /\ phase = "idle"
    /\ HealthCheck
    /\ \E unchecked \in SUBSET Opened :
        /\ queue' = {m \in Opened \ unchecked : GoodToMerge(m) /\ "error" \notin labels'[m]}
        /\ \/ UNCHANGED <<strategy, bounds>> /\ unchecked = {}
           \/ strategy' \in Strategies \ {strategy} /\ unchecked = {} /\ Fault
           \/ UNCHANGED strategy /\ unchecked # {} /\ Fault
    /\ held' = {m \in Opened : "hold" \in labels[m]}
    /\ withheld' = {m \in Opened : "lgtm" \notin labels[m]}
    /\ phase' = "start"
    /\ UNCHANGED <<target, base, passed, ci, windowOpen, listed, todo, kept, marked, merges, active, then>>

\* The list is only here held against the on-demand tests, again by every retry;
\* and which of its ways merge_merge_requests goes.
StartMerging ==
    /\ phase = "start"
    /\ listed' = {m \in queue : Verified(m)}
    /\ todo' = listed'
    /\ merges' = 0
    /\ then' = "serial"
    /\ phase' = CASE Leads # {} /\ Multi -> "group"
                  [] Leads # {} /\ ~Multi -> "clear"
                  [] Leads = {} /\ Multi /\ Pending \cap Opened # {} -> "clear pending"
                  [] OTHER -> "serial"
    /\ UNCHANGED <<gitlab, strategy, queue, kept, marked, active, bounds, history>>

ClearLead ==
    /\ phase = "clear"
    /\ labels' = Remove(Leads, "omm-group-lead")
    /\ phase' = "clear pending"
    /\ UNCHANGED <<target, base, passed, ci, windowOpen, strategy, local, bounds, history>>

\* The labels of members that are not open any more go as well.
ClearPending ==
    /\ phase = "clear pending"
    /\ labels' = Remove(Pending, "omm-pending")
    /\ phase' = then
    /\ UNCHANGED <<target, base, passed, ci, windowOpen, strategy, local, bounds, history>>
-----------------------------------------------------------------------------
(* Without a group: one merge, in the order of the queue. *)

\* Mutant: a merge request need not be rebased.
MayMergeStale(m) == m \in Opened /\ ci[m].status = "success"
MayMerge(m) == m \in Opened /\ IsRebased(m) /\ ci[m].status = "success"

\* A merge request that has gone since the list is not merged twice, one that
\* GitLab refuses to merge gets the merge-error label.
Serial(m) ==
    /\ phase = "serial"
    /\ FirstOf(todo, 1) = {m}
    /\ \/ /\ MayMerge(m)
          /\ Merge(m, "serial")
          /\ merges' = 1
          /\ windowOpen' = (Multi \/ windowOpen)
          /\ phase' = IF Multi /\ Tenants[m] # {} THEN "form" ELSE "rebase"
          /\ UNCHANGED <<labels, todo, bounds>>
       \/ /\ ~MayMerge(m)
          /\ todo' = todo \ {m}
          /\ UNCHANGED <<target, labels, windowOpen, phase, merges, bounds, history>>
       \/ /\ MayMerge(m)
          /\ Fault
          /\ labels' = Add({m}, "error")
          /\ todo' = todo \ {m}
          /\ UNCHANGED <<target, windowOpen, phase, merges, history>>
    /\ UNCHANGED <<base, passed, ci, strategy, queue, listed, kept, marked, active, then>>

NothingMerged ==
    /\ phase = "serial"
    /\ todo = {}
    /\ phase' = "rebase"
    /\ UNCHANGED <<gitlab, strategy, local, bounds, history>>

\* The merge request that was just merged becomes the lead of those that share
\* no tenant with it.
FormGroup(m) ==
    /\ phase = "form"
    /\ FirstOf(todo, 1) = {m}
    /\ LET members == Candidates(listed, Tenants[m]) IN
       /\ todo' = members
       /\ IF members = {}
          THEN phase' = "rebase" /\ UNCHANGED <<target, labels>>
          ELSE /\ phase' = "apply"
               /\ labels' = Add({m}, "omm-group-lead")
               /\ target' = [i \in DOMAIN target |->
                    IF target[i].mr = m THEN [target[i] EXCEPT !.how = "lead"] ELSE target[i]]
    /\ active' = TRUE
    /\ UNCHANGED <<base, passed, ci, windowOpen, strategy, queue, listed, kept, marked, merges, then, bounds, history>>

\* apply_omm_pending for one candidate; a rebase that fails takes it out again.
Apply(m) ==
    /\ phase = "apply"
    /\ m \in todo
    /\ todo' = todo \ {m}
    /\ \/ /\ m \in Opened
          /\ labels' = Add({m}, "omm-pending")
          /\ Rebase({m})
          /\ active' = TRUE
          /\ UNCHANGED bounds
       \/ /\ IF m \in Opened THEN Fault ELSE UNCHANGED bounds
          /\ labels' = [labels EXCEPT ![m] = (@ \ {"omm-pending"}) \cup {"error"}]
          /\ UNCHANGED <<base, passed, active>>
    /\ UNCHANGED <<target, ci, windowOpen, strategy, phase, queue, listed, kept, marked, merges, then, history>>

\* A group that nobody of can merge any more is closed.
Applied ==
    /\ phase = "apply"
    /\ todo = {}
    /\ IF active THEN phase' = "rebase" /\ UNCHANGED then ELSE Clear("rebase")
    /\ UNCHANGED <<gitlab, strategy, queue, listed, todo, kept, marked, merges, active, bounds, history>>
-----------------------------------------------------------------------------
(* With a group. *)

\* Mutant: what the branch ends with is not looked at.
TipIsAnybodys == TRUE
\* The last commit is the lead's, or one of a merged member.
TipIsOurs == target[Tip].mr \in Leads \cup Pending

WindowIsOpen == windowOpen

\* A group ends with its interval, a failing pipeline of the target branch, a
\* merge of somebody else, or its last member.  Members that overlap leave it.
CheckGroup ==
    /\ phase = "group"
    /\ \/ /\ WindowIsOpen /\ TipIsOurs /\ Pending \cap Opened # {}
          /\ kept' = Chosen(Pending \cap Opened, TenantsOf(Leads))
          /\ todo' = kept'
          /\ marked' = {m \in kept' : labels[m] \cap {"error", "hold"} # {}}
          /\ labels' = Remove((Pending \cap Opened) \ kept', "omm-pending")
          /\ active' = FALSE
          /\ phase' = "members"
          /\ UNCHANGED <<then, bounds>>
       \/ /\ IF WindowIsOpen /\ TipIsOurs /\ Pending \cap Opened # {}
             THEN Fault ELSE UNCHANGED bounds
          /\ Clear("rebase")
          /\ UNCHANGED <<labels, todo, kept, marked, active>>
    /\ UNCHANGED <<target, base, passed, ci, windowOpen, strategy, queue, listed, merges, history>>

\* Mutant: a member that is held stays.
LeavesUnlessHeld(m) == ci[m].status = "failed"
Leaves(m) == m \in marked \/ ci[m].status = "failed"

Eject(m) ==
    /\ IF Leaves(m) THEN UNCHANGED bounds ELSE Fault
    /\ labels' = Remove({m}, "omm-pending")
    /\ UNCHANGED <<target, base, passed, phase, merges, active, then, history>>

MemberWaits(m) ==
    /\ ~Leaves(m)
    /\ ci[m].status = "running"
    /\ active' = TRUE
    /\ UNCHANGED <<target, labels, base, passed, phase, merges, then, bounds, history>>

MemberMerges(m) ==
    /\ ~Leaves(m)
    /\ MayMerge(m)
    /\ \/ /\ Merge(m, "group")
          /\ merges' = merges + 1
          /\ IF merges' >= MergeLimit THEN Clear("rebase") ELSE UNCHANGED <<phase, then>>
          /\ UNCHANGED <<labels, bounds>>
       \/ /\ Fault
          /\ labels' = Add({m}, "error")
          /\ UNCHANGED <<target, phase, merges, then, history>>
    /\ UNCHANGED <<base, passed, active>>

\* A green member that is not rebased is, without a pipeline, for the next run.
MemberIsRebased(m) ==
    /\ ~Leaves(m)
    /\ ci[m].status = "success"
    /\ ~IsRebased(m)
    /\ Rebase({m})
    /\ active' = TRUE
    /\ UNCHANGED <<target, labels, phase, merges, then, bounds, history>>

Member(m) ==
    /\ phase = "members"
    /\ m \in todo
    /\ todo' = todo \ {m}
    /\ Eject(m) \/ MemberWaits(m) \/ MemberMerges(m) \/ MemberIsRebased(m)
    /\ UNCHANGED <<ci, windowOpen, strategy, queue, listed, kept, marked>>

\* New members share no tenant with the lead and the members there were.
Expand ==
    /\ phase = "members"
    /\ todo = {}
    /\ todo' = Candidates(listed \ kept, TenantsOf(Leads \cup kept))
    /\ phase' = "apply"
    /\ UNCHANGED <<gitlab, strategy, queue, listed, kept, marked, merges, active, then, bounds, history>>
-----------------------------------------------------------------------------
(* The second half of a run. *)

\* Members of a group are rebased by the group, but for old-burst.
NeedsRebase ==
    {m \in Waiting : ~IsRebased(m)} \ (IF strategy = "old-burst" THEN {} ELSE Pending)

\* Mutant: what failed, is held or has an error takes up a slot, too.
RebasedAtAll == {m \in Opened : IsRebased(m)}
\* A green one still takes up a slot, a failed one does not.
ActivePipelines == {m \in Waiting : IsRebased(m) /\ ci[m].status # "failed"}

Budget ==
    IF strategy = "old-burst" THEN RebaseLimit ELSE RebaseLimit - Cardinality(ActivePipelines)

RebaseQueue ==
    /\ phase = "rebase"
    /\ \E failing \in SUBSET NeedsRebase :
       LET rebased == FirstOf(NeedsRebase \ failing, Budget) IN
       /\ IF failing = {} THEN UNCHANGED bounds ELSE Fault
       /\ Rebase(rebased)
       /\ StartPipelines(rebased)
    /\ EndRun
    /\ UNCHANGED <<target, labels, windowOpen, strategy, history>>
-----------------------------------------------------------------------------
(* Failures, GitLab and its users. *)

\* An exception: merge_merge_requests runs again, with the list it had.
Retry ==
    /\ phase \notin {"idle", "start", "rebase"}
    /\ Fault
    /\ phase' = "start"
    /\ UNCHANGED <<gitlab, strategy, local, history>>

Crash ==
    /\ phase # "idle"
    /\ Fault
    /\ EndRun
    /\ UNCHANGED <<gitlab, strategy, history>>

PipelineEnds(m) ==
    /\ m \in Opened
    /\ ci[m].status = "running"
    /\ \/ ci' = [ci EXCEPT ![m].status = "success"] /\ UNCHANGED bounds
       \/ ci' = [ci EXCEPT ![m].status = "failed"] /\ Fault
    /\ UNCHANGED <<target, labels, base, passed, windowOpen, strategy, phase, local, history>>

\* Somebody asks for the on-demand tests, and they pass.
TestsPass(m) ==
    /\ OnDemand
    /\ m \in Opened \ passed
    /\ passed' = passed \cup {m}
    /\ UNCHANGED <<target, labels, base, ci, windowOpen, strategy, phase, local, bounds, history>>

Push(m) ==
    /\ m \in Opened
    /\ pushes < MaxPushes
    /\ pushes' = pushes + 1
    /\ ci' = [ci EXCEPT ![m] = [status |-> "running", base |-> base[m]]]
    /\ passed' = passed \ {m}
    /\ UNCHANGED <<target, labels, base, windowOpen, strategy, phase, local, relabels, faults, history>>

Relabel(m) ==
    /\ m \in Opened
    /\ relabels < MaxRelabels
    /\ relabels' = relabels + 1
    /\ \E l \in {"lgtm", "hold"} : labels' =
        IF l \in labels[m] THEN Remove({m}, l) ELSE Add({m}, l)
    /\ held' = held \cap HasLabel("hold")'
    /\ withheld' = withheld \ HasLabel("lgtm")'
    /\ UNCHANGED <<target, base, passed, ci, windowOpen, strategy, phase, local, pushes, faults>>

MergeOfOthers ==
    /\ Cardinality({i \in 1..Tip : target[i].mr = External}) < MaxExternal
    /\ target' = Append(target, [mr |-> External, tested |-> Tip, how |-> "external"])
    /\ UNCHANGED <<labels, base, passed, ci, windowOpen, strategy, phase, local, bounds, history>>

WindowCloses ==
    /\ windowOpen
    /\ windowOpen' = FALSE
    /\ UNCHANGED <<target, labels, base, passed, ci, strategy, phase, local, bounds, history>>

RunStep ==
    \/ StartRun \/ StartMerging
    \/ ClearLead \/ ClearPending
    \/ NothingMerged
    \/ \E m \in MRs : Serial(m) \/ FormGroup(m) \/ Apply(m) \/ Member(m)
    \/ Applied \/ CheckGroup \/ Expand
    \/ RebaseQueue

Next ==
    \/ RunStep
    \/ Retry \/ Crash
    \/ \E m \in MRs : PipelineEnds(m) \/ TestsPass(m) \/ Push(m) \/ Relabel(m)
    \/ MergeOfOthers
    \/ WindowCloses

Spec == Init /\ [][Next]_vars

\* The integration runs again and again, and time goes on.
FairSpec == Spec /\ WF_vars(RunStep) /\ WF_vars(WindowCloses)
-----------------------------------------------------------------------------
Merges == [mr : MRs \cup {External}, tested : Nat,
           how : {"serial", "lead", "group", "external"}]
Pipelines == [status : {"running", "success", "failed"}, base : Nat]

\* A merge request is rebased and tested on some beginning of the target branch,
\* and merged once.
TypeOK ==
    /\ target \in Seq(Merges)
    /\ \A i, j \in DOMAIN target :
        target[i].mr = target[j].mr => i = j \/ target[i].mr = External
    /\ labels \in [MRs -> SUBSET Labels]
    /\ base \in [MRs -> 0..Tip]
    /\ ci \in [MRs -> Pipelines]
    /\ \A m \in MRs : ci[m].base <= Tip
    /\ windowOpen \in BOOLEAN /\ active \in BOOLEAN
    /\ strategy \in Strategies
    /\ phase \in {"idle", "start", "clear", "clear pending", "serial", "form", "apply",
                  "group", "members", "rebase"}
    /\ then \in {"serial", "rebase"}
    /\ passed \subseteq MRs
    /\ queue \subseteq MRs /\ listed \subseteq MRs /\ todo \subseteq MRs /\ {held, withheld} \subseteq SUBSET MRs
    /\ marked \subseteq kept /\ kept \subseteq MRs
    /\ merges \in Nat
    /\ {relabels, pushes, faults} \subseteq Nat

Untested(i) == target[i].tested + 1..i - 1

\* Until there has been a group, and so whenever there is none, a merge request
\* is merged on the very commit that its pipeline ran on, whoever else merges,
\* pushes or fails in between.
SerialMergesAreTested ==
    \A i \in 1..Tip :
        (\A j \in 1..i - 1 : target[j].how # "lead") => Untested(i) = {}

\* All that a member brings in untested since the lead of its group was merged
\* are other members: a merge of somebody else ends the group, when ever it
\* comes (_check_target_branch_integrity).
GroupMergesOnGroup ==
    \A i \in 1..Tip : target[i].how = "group" =>
        \E l \in 1..i - 1 :
            /\ target[l].how = "lead"
            /\ \A j \in l + 1..i - 1 : target[j].how = "group"

\* One group at a time, whose open members share no tenant with each other.
OneGroup ==
    /\ Cardinality(Leads) <= 1
    /\ \A m, n \in Pending \cap Opened : m # n => Tenants[m] \cap Tenants[n] = {}

\* A run merges one merge request, or one again for every retry: whatever it
\* merges, nothing else is rebased any more.  merge_limit only matters if it is 1.
OneMergePerRun == merges <= 1

\* ADR-019: "existing pipeline result is still valid because the MR's changes do
\* not overlap with the merged changes (guaranteed by the label-based overlap
\* check ...)".
UntestedIsDisjoint ==
    \A i \in 1..Tip : \A j \in Untested(i) :
        target[i].mr # External /\ target[j].mr # External =>
            Tenants[target[i].mr] \cap Tenants[target[j].mr] = {}

\* What was held all through a run is not merged by it, whichever list the run
\* goes by: the first one, that of a retry, or the one of the members.
HeldIsNotMerged ==
    [][\A m \in held : m \in Opened']_vars

\* The same of what was not approved: is_good_to_merge asks for both.
WithheldIsNotMerged ==
    [][\A m \in withheld : m \in Opened']_vars

\* No label of a group is there for good: a lead leads for a while, a member
\* merges or leaves.
GroupsEnd ==
    \A m \in MRs :
        /\ "omm-group-lead" \in labels[m] ~> "omm-group-lead" \notin labels[m]
        /\ m \in Pending \cap Opened ~> m \notin Pending \cap Opened

\* A merge request that stays approved, green and without error is merged,
\* provided that every pipeline ends and that, where on-demand tests are asked for,
\* nobody leaves those of a merge request at that: a rebase resets them.
Ready(m) == m \in Merged \/ (m \in Waiting /\ ci[m].status # "failed")
PipelinesEnd == \A m \in MRs : []<>(m \in Merged \/ ci[m].status # "running")
TestsArePassed(m) == OnDemand => []<>(m \in Merged \cup passed)
QueueDrains ==
    PipelinesEnd /\ (\A m \in MRs : TestsArePassed(m)) =>
        \A m \in MRs : <>[]Ready(m) => <>(m \in Merged)

\* The same when nothing is assumed of the tests of others.
TestedAreMerged ==
    PipelinesEnd =>
        \A m \in MRs : TestsArePassed(m) /\ <>[]Ready(m) => <>(m \in Merged)
=============================================================================
