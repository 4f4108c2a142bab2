------------------------------ MODULE Upgrades ------------------------------
(***************************************************************************)
(* The advanced upgrade service (AUS): one integration that goes over the   *)
(* OCM organizations, counts for how long versions have soaked on which     *)
(* workloads, and creates upgrade policies in OCM, which OCM executes.      *)
(*                                                                         *)
(* A version is a number, a day a step of time.  A run takes no time.       *)
(* Soak days are counted up to MaxSoak, more than any condition asks for.   *)
(***************************************************************************)
EXTENDS Integers, SequencesExt

CONSTANTS
    Clusters,     \* a sequence: the order of the upgrade policies
    Hypershift,   \* clusters with a hosted control plane and a node pool
    Orgs,
    OrgOf,        \* of a cluster
    InheritsFrom, \* inheritVersionData of an organization
    Sectors,
    SectorOf,     \* of a cluster, or None
    None,         \* no sector, no organization
    Dependencies, \* of a sector
    MaxParallel,  \* max_parallel_upgrades of a sector: a unit and a number
    Mutexes,      \* of a cluster, without its own
    Workloads,    \* of a cluster
    SoakDays,     \* the soak days a cluster waits for
    Blocked,      \* versions a cluster must not be upgraded to

    MaxVersion,
    MaxSoak,
    Unwell,       \* the clusters whose health may change
    MaxFaults     \* bound on failed requests, killed runs and health changes

Cluster == ToSet(Clusters)
Versions == 0..MaxVersion
Workload == UNION {Workloads[c] : c \in Cluster}
Days == 0..MaxSoak
NoVersion == -1

ASSUME UpgradesAssumption ==
    /\ Clusters \in Seq(Cluster)
    /\ IsInjective(Clusters)
    /\ Hypershift \subseteq Cluster
    /\ IsFiniteSet(Orgs)
    /\ OrgOf \in [Cluster -> Orgs]
    /\ InheritsFrom \in [Orgs -> SUBSET Orgs]
    /\ \A o \in Orgs : o \notin InheritsFrom[o]
    /\ None \notin Sectors \cup Orgs
    /\ SectorOf \in [Cluster -> Sectors \cup {None}]
    /\ Dependencies \in [Sectors -> SUBSET Sectors]
    /\ MaxParallel \in [Sectors -> [unit : {"none", "count", "percent"}, n : Nat]]
    /\ SoakDays \in [Cluster -> Days]
    /\ Blocked \in [Cluster -> SUBSET Versions]
    /\ Unwell \subseteq Cluster
    /\ {MaxVersion, MaxSoak, MaxFaults} \subseteq Nat

\* Sector.validate_dependencies refuses loops; an organization has its own sectors.
ASSUME SectorsAssumption ==
    /\ IsFiniteSet(Sectors)
    /\ \E rank \in [Sectors -> 0..Cardinality(Sectors)] :
          \A s \in Sectors : \A d \in Dependencies[s] : rank[d] < rank[s]
    /\ \A c, d \in Cluster :
          SectorOf[c] = SectorOf[d] /\ SectorOf[c] # None => OrgOf[c] = OrgOf[d]

Policies == [cluster : Cluster, target : {"cluster", "pool"}, version : Versions]

VARIABLES
    version,  \* of a cluster, in OCM
    pool,     \* the version of its nodes
    healthy,  \* whether its health checks pass
    released, \* the newest version there is
    policies  \* the upgrade policies in OCM

VARIABLES
    soak,      \* soak days of an organization, by workload and version
    reporting, \* the clusters that contribute to them
    stats,     \* its minimum version, by workload
    age        \* days since its check_in

VARIABLES
    phase,
    todo,    \* organizations this run has still to process
    org,     \* the one it is at
    specs,   \* what it has read of the clusters
    seen,    \* the clusters with an upgrade policy, as it has read them
    due,     \* those whose schedule is near and whose version gates are agreed
    left,    \* the clusters that calculate_diff has still to consider
    creating \* upgrade policies it has to create

VARIABLES
    ran,   \* cluster days that a version really ran for, with a workload
    faults

ocm == <<version, pool, healthy, released>>
history == <<soak, reporting, stats, age>>
run == <<phase, todo, org, specs, seen, due, left, creating>>
vars == <<ocm, policies, history, run, ran, faults>>

ClustersOf(o) == {c \in Cluster : OrgOf[c] = o}
With(w, C) == {c \in C : w \in Workloads[c]}
AtMost(n) == IF n > MaxSoak THEN MaxSoak ELSE n
-----------------------------------------------------------------------------
(* update_history, for what the specs s say of organization o. *)

Reports(s, o, w, v) == {c \in With(w, ClustersOf(o)) : s.healthy[c] /\ s.version[c] = v}

\* Mutant: a cluster counts from before its first report.
SoakFromTheStart(s, o) == [w \in Workload |-> [v \in Versions |->
    AtMost(soak[o][w][v] + age[o] * Cardinality(Reports(s, o, w, v)))]]
\* Only a cluster that reported the version before adds the days since then.
Soak(s, o) == [w \in Workload |-> [v \in Versions |->
    AtMost(soak[o][w][v]
           + age[o] * Cardinality(Reports(s, o, w, v) \cap reporting[o][w][v]))]]

\* Mutant: a cluster that reports is not remembered.
ReportingForgotten(s, o) == reporting[o]
Reporting(s, o) == [w \in Workload |-> [v \in Versions |->
    reporting[o][w][v] \cup Reports(s, o, w, v)]]

Stats(s, o) == [w \in Workload |->
    LET present == {s.version[c] : c \in With(w, ClustersOf(o))}
    IN IF present = {} THEN NoVersion ELSE Min(present)]
-----------------------------------------------------------------------------
(* version_conditions_met, for what the specs s say. *)

\* The days of workload w with version v, of the organizations in O.
SumOf(days, O, w, v) == MapThenSumSet(LAMBDA q : days[q][w][v], O)

\* VersionData.aggregate: soak days of workloads the organization has itself.
TotalSoak(o, w, v) ==
    soak[o][w][v] + IF \A u \in Versions : reporting[o][w][u] = {} THEN 0
                   ELSE SumOf(soak, InheritsFrom[o], w, v)

\* Mutant: the statistics of other organizations are not merged.
InheritedNone(o) == {}
Inherited(o) == {q \in InheritsFrom[o] : \E w \in Workload : stats[q][w] # NoVersion}
InheritedMin(o, w) == Min({stats[q][w] : q \in Inherited(o)} \ {NoVersion})
IsInherited(o, w) == \E q \in Inherited(o) : stats[q][w] # NoVersion

\* If it misses one of the workloads, the oldest version of any counts.
ValidAgainstInherited(c, v) ==
    LET o == OrgOf[c] IN
    \/ Inherited(o) = {}
    \/ \A w \in Workloads[c] : IsInherited(o, w) /\ v <= InheritedMin(o, w)
    \/ /\ \E w \in Workloads[c] : ~IsInherited(o, w)
       /\ \A w \in Workload : IsInherited(o, w) => v <= InheritedMin(o, w)

InSector(s) == {c \in Cluster : SectorOf[c] = s}

\* Mutant: the sectors it depends on, though none of their clusters has w.
SectorDependenciesDirect(w, s) == Dependencies[s]
\* The nearest dependencies, down each path, that have clusters with workload w.
SectorDependencies(w, s) ==
    LET nearest[t \in Sectors] ==
            UNION {IF With(w, InSector(d)) # {} THEN {d} ELSE nearest[d] : d \in Dependencies[t]}
    IN nearest[s]

SectorsAllow(s, c, v) ==
    \A w \in Workloads[c] : \A d \in SectorDependencies(w, SectorOf[c]) :
        \A e \in With(w, InSector(d)) : s.version[e] >= v

ConditionsMet(s, c, v) ==
    /\ SectorOf[c] # None => ValidAgainstInherited(c, v) /\ SectorsAllow(s, c, v)
    /\ \A w \in Workloads[c] : TotalSoak(OrgOf[c], w, v) >= SoakDays[c]

\* upgradeable_version picks the newest of these.
Upgradeable(s, c) ==
    {v \in (s.version[c] + 1)..s.released : v \notin Blocked[c] /\ ConditionsMet(s, c, v)}
-----------------------------------------------------------------------------
(* calculate_diff, one cluster after the other. *)

EffectiveMutexes(c) == Mutexes[c] \cup {c}

\* round() of a number of percents takes a half to the even neighbour.
Round(hundredths) ==
    LET n == hundredths \div 100  rest == hundredths % 100 IN
    IF rest > 50 \/ (rest = 50 /\ n % 2 = 1) THEN n + 1 ELSE n

Unlimited(c) == SectorOf[c] = None \/ MaxParallel[SectorOf[c]].unit = "none"
Sharing(C, m) == {c \in C : m \in EffectiveMutexes(c)}
AllowedParallel(s, m) ==
    LET n == IF MaxParallel[s].unit = "count" THEN MaxParallel[s].n
             ELSE Round(Cardinality(Sharing(InSector(s), m)) * MaxParallel[s].n)
    IN IF n = 0 THEN 1 ELSE n

\* verify_max_upgrades_should_skip
LockedOut(up, c) ==
    \E m \in EffectiveMutexes(c) :
        IF Unlimited(c) THEN Sharing(up, m) # {}
        ELSE Cardinality(Sharing(up \cap InSector(SectorOf[c]), m))
                >= AllowedParallel(SectorOf[c], m)

\* Mutant: only upgrades that have started before this run lock others out.
UpBefore(diffs) == seen
\* Mutant: only those of this run do.
UpPlanned(diffs) == {d.cluster : d \in ToSet(diffs)}
\* set_upgrading
Up(diffs) == seen \cup {d.cluster : d \in ToSet(diffs)}

\* _calculate_node_pool_diffs
Nodes(s, c) == <<[cluster |-> c, target |-> "pool", version |-> s.version[c]]>>

\* The upgrade of cluster c, if any; those of the clusters before it are diffs.
DiffOf(s, diffs, c) ==
    LET up == Up(diffs)
        locked == LockedOut(up, c)
        upgradeable == Upgradeable(s, c)
    IN IF c \in Hypershift /\ s.pool[c] < s.version[c]
       THEN IF locked THEN <<>> ELSE Nodes(s, c)
       ELSE IF c \in seen \/ c \notin due \/ locked \/ upgradeable = {} THEN <<>>
            ELSE <<[cluster |-> c, target |-> "cluster", version |-> Max(upgradeable)]>>

\* Older versions come first, then shorter soak times, then the configured order.
Key(s, c) == <<s.version[c], SoakDays[c], CHOOSE i \in DOMAIN Clusters : Clusters[i] = c>>
Precedes(s, c, d) ==
    \E i \in 1..3 : /\ Key(s, c)[i] < Key(s, d)[i]
                   /\ \A j \in 1..(i - 1) : Key(s, c)[j] = Key(s, d)[j]
-----------------------------------------------------------------------------
Listing == [version |-> version, pool |-> pool, healthy |-> healthy, released |-> released]

NoSpecs == <<>>

Idle ==
    /\ phase' = "idle"
    /\ todo' = {} /\ org' = None /\ specs' = NoSpecs
    /\ seen' = {} /\ due' = {} /\ left' = {} /\ creating' = <<>>

Init ==
    /\ version = [c \in Cluster |-> 0]
    /\ pool = version
    /\ healthy = [c \in Cluster |-> TRUE]
    /\ released = 0
    /\ policies = {}
    /\ soak = [o \in Orgs |-> [w \in Workload |-> [v \in Versions |-> 0]]]
    /\ reporting = [o \in Orgs |-> [w \in Workload |-> [v \in Versions |-> {}]]]
    /\ stats = [o \in Orgs |-> [w \in Workload |-> NoVersion]]
    /\ age = [o \in Orgs |-> 0]
    /\ phase = "idle"
    /\ todo = {} /\ org = None /\ specs = NoSpecs
    /\ seen = {} /\ due = {} /\ left = {} /\ creating = <<>>
    /\ ran = soak
    /\ faults = 0

\* run: the clusters of all organizations are listed first.
GetUpgradeSpecs ==
    /\ phase = "idle"
    /\ phase' = "orgs"
    /\ todo' = Orgs
    /\ specs' = Listing
    /\ UNCHANGED <<ocm, policies, history, org, seen, due, left, creating, ran, faults>>

\* The time, and with it which schedules are near, is that of the run, too.
FetchCurrentState(o, near) ==
    /\ phase = "orgs"
    /\ o \in todo
    /\ phase' = "history"
    /\ org' = o
    /\ todo' = todo \ {o}
    /\ seen' = {p.cluster : p \in policies} \cap ClustersOf(o)
    /\ due' = near
    /\ UNCHANGED <<ocm, policies, history, specs, left, creating, ran, faults>>

\* get_version_data_map: the new history is saved before it is used.
UpdateHistory ==
    /\ phase = "history"
    /\ soak' = [soak EXCEPT ![org] = Soak(specs, org)]
    /\ reporting' = [reporting EXCEPT ![org] = Reporting(specs, org)]
    /\ stats' = [stats EXCEPT ![org] = Stats(specs, org)]
    /\ age' = [age EXCEPT ![org] = 0]
    /\ phase' = "upgrades"
    /\ left' = ClustersOf(org)
    /\ UNCHANGED <<ocm, policies, todo, org, specs, seen, due, creating, ran, faults>>

\* calculate_diff: a cluster, unless it is skipped, gets an upgrade.
Consider(c) ==
    /\ phase = "upgrades"
    /\ c \in left
    /\ \A d \in left \ {c} : Precedes(specs, c, d)
    /\ creating' = creating \o DiffOf(specs, creating, c)
    /\ left' = left \ {c}
    /\ due' = due \ {c}
    /\ UNCHANGED <<ocm, policies, history, phase, todo, org, specs, seen, ran, faults>>

Fault == faults < MaxFaults /\ faults' = faults + 1

\* OCM refuses what is no upgrade; an HTTPError is logged, the loop goes on.
Act ==
    /\ phase = "upgrades"
    /\ left = {}
    /\ creating # <<>>
    /\ LET p == Head(creating)
           old == IF p.target = "pool" THEN pool[p.cluster] ELSE version[p.cluster]
       IN \/ /\ policies' = IF p.version > old THEN policies \cup {p} ELSE policies
             /\ UNCHANGED faults
          \/ Fault /\ UNCHANGED policies
    /\ creating' = Tail(creating)
    /\ UNCHANGED <<ocm, history, phase, todo, org, specs, seen, due, left, ran>>

NextOrg ==
    IF todo = {} THEN Idle
    ELSE /\ phase' = "orgs" /\ org' = None
         /\ seen' = {} /\ due' = {} /\ left' = {} /\ creating' = <<>>
         /\ UNCHANGED <<todo, specs>>

EndOrg ==
    /\ phase = "upgrades"
    /\ left = {}
    /\ creating = <<>>
    /\ NextOrg
    /\ UNCHANGED <<ocm, policies, history, ran, faults>>

\* An exception ends an organization, the run goes on with the others.
OrgFails ==
    /\ phase \in {"history", "upgrades"}
    /\ Fault
    /\ NextOrg
    /\ UNCHANGED <<ocm, policies, history, ran>>

Crash ==
    /\ phase # "idle"
    /\ Fault
    /\ Idle
    /\ UNCHANGED <<ocm, policies, history, ran>>
-----------------------------------------------------------------------------
(* OCM and time. *)

\* An upgrade has a policy until it is done.
Upgrade(p) ==
    /\ policies' = policies \ {p}
    /\ version' = IF p.target = "pool" THEN version
                  ELSE [version EXCEPT ![p.cluster] = p.version]
    /\ pool' = IF p.target = "cluster" /\ p.cluster \in Hypershift THEN pool
               ELSE [pool EXCEPT ![p.cluster] = p.version]
    /\ UNCHANGED <<healthy, released, history, run, ran, faults>>

Release ==
    /\ released < MaxVersion
    /\ released' = released + 1
    /\ UNCHANGED <<version, pool, healthy, policies, history, run, ran, faults>>

HealthChanges(c) ==
    /\ \/ healthy[c] /\ Fault
       \/ ~healthy[c] /\ UNCHANGED faults
    /\ healthy' = [healthy EXCEPT ![c] = ~@]
    /\ UNCHANGED <<version, pool, released, policies, history, run, ran>>

DayPasses ==
    /\ phase = "idle"
    /\ age' = [o \in Orgs |-> AtMost(age[o] + 1)]
    /\ ran' = [o \in Orgs |-> [w \in Workload |-> [v \in Versions |->
         AtMost(ran[o][w][v]
                + Cardinality({c \in With(w, ClustersOf(o)) : version[c] = v}))]]]
    /\ UNCHANGED <<ocm, policies, soak, reporting, stats, run, faults>>

RunStep ==
    \/ GetUpgradeSpecs
    \/ \E o \in Orgs : \E near \in SUBSET ClustersOf(o) : FetchCurrentState(o, near)
    \/ UpdateHistory
    \/ \E c \in left : Consider(c)
    \/ Act
    \/ EndOrg

Next ==
    \/ RunStep
    \/ OrgFails
    \/ Crash
    \/ \E p \in policies : Upgrade(p)
    \/ Release
    \/ \E c \in Unwell : HealthChanges(c)
    \/ DayPasses

Spec == Init /\ [][Next]_vars

\* Runs and days go on, OCM executes policies, and every schedule comes again.
FairSpec ==
    /\ Spec
    /\ WF_vars(\/ GetUpgradeSpecs \/ UpdateHistory \/ Act \/ EndOrg
               \/ \E c \in left : Consider(c))
    /\ \A c \in Cluster : []<>(c \in due)
    /\ SF_vars(DayPasses)
    /\ WF_vars(\E p \in policies : Upgrade(p))
-----------------------------------------------------------------------------
TypeOK ==
    /\ version \in [Cluster -> Versions]
    /\ pool \in [Cluster -> Versions]
    /\ healthy \in [Cluster -> BOOLEAN]
    /\ released \in Versions
    /\ policies \subseteq Policies
    /\ soak \in [Orgs -> [Workload -> [Versions -> Days]]]
    /\ reporting \in [Orgs -> [Workload -> [Versions -> SUBSET Cluster]]]
    /\ stats \in [Orgs -> [Workload -> Versions \cup {NoVersion}]]
    /\ age \in [Orgs -> Days]
    /\ phase \in {"idle", "orgs", "history", "upgrades"}
    /\ todo \subseteq Orgs
    /\ org \in Orgs \cup {None}
    /\ specs \in [version : [Cluster -> Versions], pool : [Cluster -> Versions],
                  healthy : [Cluster -> BOOLEAN], released : Versions] \cup {NoSpecs}
    /\ seen \subseteq Cluster
    /\ due \subseteq Cluster
    /\ left \subseteq Cluster
    /\ creating \in Seq(Policies)
    /\ ran \in [Orgs -> [Workload -> [Versions -> Days]]]
    /\ faults \in Nat

Upgrading == {p.cluster : p \in policies}

\* "there can only be one upgrade policy per cluster", and verify_current_should_skip
\* fails if there are more: none is about to be created for a cluster that has one.
OneUpgradePerCluster ==
    /\ \A p, q \in policies : p.cluster = q.cluster => p = q
    /\ \A i \in DOMAIN creating : creating[i].cluster \notin Upgrading
    /\ \A i, j \in DOMAIN creating : creating[i].cluster = creating[j].cluster => i = j

\* Clusters that share a mutex are upgraded one after the other; with
\* max_parallel_upgrades, no more of a sector than it allows.
MutexesHold ==
    \A m \in UNION {EffectiveMutexes(c) : c \in Cluster} :
        /\ \A c, d \in Sharing(Upgrading, m) :
              Unlimited(c) /\ Unlimited(d) /\ OrgOf[c] = OrgOf[d] => c = d
        /\ \A s \in Sectors : MaxParallel[s].unit # "none" =>
              Cardinality(Sharing(Upgrading \cap InSector(s), m)) <= AllowedParallel(s, m)

\* The sectors upstream of s.
Upstream[s \in Sectors] ==
    Dependencies[s] \cup UNION {Upstream[d] : d \in Dependencies[s]}

\* "check if previous sectors run at least this version for that workload": a
\* cluster is never ahead of, nor on its way past, one of a sector upstream with
\* which it shares a workload, and be there empty sectors between them.
SectorsInOrder ==
    \A c \in Cluster : SectorOf[c] # None =>
        \A d \in Cluster : \A w \in Workloads[c] \cap Workloads[d] :
            SectorOf[d] \in Upstream[SectorOf[c]] =>
                /\ version[c] <= version[d]
                /\ \A p \in policies : p.cluster = c => p.version <= version[d]

NewPolicies == policies' \ policies

\* "we allow 1 upgrade per mutex, across the whole org", if the sector of one of
\* the two sets no maximum.
MutexIsExclusive ==
    \A c, d \in Upgrading :
        /\ c # d /\ OrgOf[c] = OrgOf[d]
        /\ EffectiveMutexes(c) \cap EffectiveMutexes(d) # {}
        => ~Unlimited(c) /\ ~Unlimited(d)

\* An upgrade is created only once its version has really run for the soak days
\* of the cluster with each of its workloads, in its organization and those it
\* inherits from: no run, crash or change of version adds days that were not.
SoakedBeforeUpgrade == [][
    \A p \in NewPolicies : p.target = "cluster" =>
        \A w \in Workloads[p.cluster] :
            ran[OrgOf[p.cluster]][w][p.version]
            + SumOf(ran, InheritsFrom[OrgOf[p.cluster]], w, p.version)
                >= SoakDays[p.cluster]]_vars

\* "check that inherited orgs run at least that version for our workloads", once
\* these have been processed at all, and though their minimum is from their last run.
PublishersFirst == [][
    \A p \in NewPolicies : p.target = "cluster" /\ SectorOf[p.cluster] # None =>
        \A d \in Cluster : \A w \in Workloads[p.cluster] \cap Workloads[d] :
            /\ OrgOf[d] \in InheritsFrom[OrgOf[p.cluster]]
            /\ stats[OrgOf[d]][w] # NoVersion
            => p.version <= version[d]]_vars

\* If the clusters stay healthy, each gets to the newest version, its nodes too.
ClustersAreUpgraded ==
    <>[](\A c \in Cluster : healthy[c]) =>
        \A c \in Cluster : []<>(version[c] = released /\ pool[c] = released)
=============================================================================
