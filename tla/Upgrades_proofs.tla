--------------------------- MODULE Upgrades_proofs ---------------------------
(***************************************************************************)
(* Theorems about Upgrades, for any clusters, organizations, sectors,       *)
(* mutexes, workloads, soak days and versions.                              *)
(*                                                                         *)
(* The idea: a run goes by an old list of the clusters, but versions only   *)
(* grow and only this run creates policies, so that what it has listed is a *)
(* lower bound of the versions, what has a policy is among what it has seen *)
(* and what it plans is as good as created.                                 *)
(***************************************************************************)
EXTENDS Upgrades, SequenceTheorems, FiniteSetTheorems, WellFoundedInduction, TLAPS

Planned == {creating[i].cluster : i \in DOMAIN creating}
Busy == Upgrading \cup Planned
Mutex == UNION {EffectiveMutexes(c) : c \in Cluster}
Considering == phase = "history" \/ (phase = "upgrades" /\ left # {})

Listings == [version : [Cluster -> Versions], pool : [Cluster -> Versions],
             healthy : [Cluster -> BOOLEAN], released : Versions]

PhaseInv ==
    /\ phase = "idle" => specs = NoSpecs
    /\ phase # "idle" => specs \in Listings
    /\ phase \in {"idle", "orgs", "history"} => left = {} /\ creating = <<>>
    /\ phase \in {"history", "upgrades"} => org \in Orgs

\* What was listed is not newer than what is there.
ListingInv ==
    phase # "idle" => \A c \in Cluster : specs.version[c] <= version[c]

\* A policy is newer than the version of its cluster, and the only one for it.
AheadInv ==
    /\ \A p \in policies : p.target = "cluster" => version[p.cluster] < p.version
    /\ \A p, q \in policies :
          p.target = "cluster" /\ q.target = "cluster" /\ p.cluster = q.cluster => p = q

\* What is planned is about clusters considered before, one upgrade each, and those
\* still to be considered have a policy only if the run has seen it.
PlanInv ==
    /\ left \in SUBSET ClustersOf(org)
    /\ Considering => Upgrading \cap ClustersOf(org) \in SUBSET seen
    /\ \A i \in DOMAIN creating : creating[i].cluster \in ClustersOf(org) \ left
    /\ \A i, j \in DOMAIN creating : creating[i].cluster = creating[j].cluster => i = j
    /\ \A i \in DOMAIN creating :
          creating[i].target = "cluster" => creating[i].cluster \notin Upgrading
-----------------------------------------------------------------------------
(* Clusters, versions and days. *)

LEMMA Numbers ==
    /\ MaxVersion \in Nat /\ MaxSoak \in Nat /\ MaxFaults \in Nat
    /\ Versions \in SUBSET Nat /\ Days \in SUBSET Nat
    /\ NoVersion \in Int /\ NoVersion \notin Versions
BY UpgradesAssumption DEF Versions, Days, NoVersion

LEMMA VersionsAreNumbers == \A v \in Versions : v \in Int
BY Numbers

LEMMA DaysAreNumbers == \A d \in Days : d \in Nat /\ d \in Int
BY Numbers

LEMMA VersionsAreFinite == IsFiniteSet(Versions)
<1>1. 0 \in Int /\ MaxVersion \in Int
  BY Numbers
<1> QED BY <1>1, FS_Interval DEF Versions

LEMMA ClustersAreFinite == IsFiniteSet(Cluster)
<1> DEFINE n == Len(Clusters)
           f == [i \in 1..n |-> Clusters[i]]
<1>1. n \in Nat /\ DOMAIN Clusters = 1..n
  BY UpgradesAssumption, LenProperties
<1>2. Cluster = {Clusters[i] : i \in 1..n}
  BY <1>1 DEF Cluster, ToSet
<1>3. f \in Surjection(1..n, Cluster)
  BY <1>2 DEF Surjection
<1>4. IsFiniteSet(1..n)
  BY <1>1, FS_Interval
<1> QED BY <1>3, <1>4, FS_Surjection

LEMMA ClusterSets ==
    ASSUME NEW C \in SUBSET Cluster
    PROVE  IsFiniteSet(C) /\ Cardinality(C) \in Nat
BY ClustersAreFinite, FS_Subset, FS_CardinalityType

LEMMA SmallerCluster ==
    ASSUME NEW C \in SUBSET Cluster, NEW D \in SUBSET C
    PROVE  Cardinality(D) <= Cardinality(C)
BY ClusterSets, FS_Subset

LEMMA OneMore ==
    ASSUME NEW S, NEW x, IsFiniteSet(S), NEW k \in Nat, Cardinality(S) < k
    PROVE  Cardinality(S \cup {x}) <= k
<1>1. Cardinality(S) \in Nat
  BY FS_CardinalityType
<1>2. Cardinality(S \cup {x}) = IF x \in S THEN Cardinality(S) ELSE Cardinality(S) + 1
  BY FS_AddElement
<1> QED BY <1>1, <1>2

LEMMA CapParts ==
    ASSUME NEW n \in Nat
    PROVE  /\ AtMost(n) \in Days /\ AtMost(n) <= n
           /\ \A m \in Nat : m <= n => AtMost(m) <= AtMost(n)
           /\ \A d \in Days : d <= n => d <= AtMost(n)
BY Numbers DEF AtMost, Days

LEMMA TypeParts ==
    ASSUME TypeOK
    PROVE  /\ \A c \in Cluster : version[c] \in Versions /\ version[c] \in Int
           /\ \A p \in policies : /\ p.cluster \in Cluster /\ p.target \in {"cluster", "pool"}
                                  /\ p.version \in Versions /\ p.version \in Int
           /\ \A i \in DOMAIN creating :
                 /\ creating[i] \in Policies /\ creating[i].cluster \in Cluster
                 /\ creating[i].target \in {"cluster", "pool"}
                 /\ creating[i].version \in Versions /\ creating[i].version \in Int
<1>0. \A v \in Versions : v \in Int
  BY Numbers
<1>1. \A p \in Policies : p.cluster \in Cluster /\ p.target \in {"cluster", "pool"} /\ p.version \in Versions
  BY DEF Policies
<1>2. \A i \in DOMAIN creating : creating[i] \in Policies
  BY LenProperties, ElementOfSeq DEF TypeOK
<1>3. \A c \in Cluster : version[c] \in Versions
  BY DEF TypeOK
<1>4. policies \in SUBSET Policies
  BY DEF TypeOK
<1> QED BY <1>0, <1>1, <1>2, <1>3, <1>4

LEMMA DayTypes ==
    ASSUME TypeOK
    PROVE  /\ \A o \in Orgs : age[o] \in Nat
           /\ \A o \in Orgs : \A w \in Workload : \A v \in Versions :
                /\ soak[o][w][v] \in Days /\ soak[o][w][v] \in Nat
                /\ ran[o][w][v] \in Days /\ ran[o][w][v] \in Nat
                /\ reporting[o][w][v] \in SUBSET Cluster
<1>1. \A d \in Days : d \in Nat
  BY Numbers
<1>2. \A o \in Orgs : age[o] \in Days
  BY DEF TypeOK
<1>3. \A o \in Orgs : \A w \in Workload : \A v \in Versions :
        soak[o][w][v] \in Days /\ ran[o][w][v] \in Days /\ reporting[o][w][v] \in SUBSET Cluster
  BY DEF TypeOK
<1> QED BY <1>1, <1>2, <1>3

\* A family of subsets of a finite set has a smallest one.
LEMMA FiniteMinimum ==
    ASSUME NEW S, IsFiniteSet(S), NEW F \in SUBSET SUBSET S, F # {}
    PROVE  \E T \in F : \A x \in T : T \ {x} \notin F
<1>1. F \subseteq FiniteSubsetsOf(S)
  BY FS_Subset DEF FiniteSubsetsOf
<1>2. PICK T \in F : \A U \in F : <<U, T>> \notin StrictSubsetOrdering(S)
  BY <1>1, FS_StrictSubsetOrderingWellFounded, WFMin
<1>3. ASSUME NEW x \in T, T \ {x} \in F PROVE FALSE
  BY <1>2, <1>3 DEF StrictSubsetOrdering
<1> QED BY <1>3

\* Some sector of a set depends on no other of it.
LEMMA LowestSector ==
    ASSUME NEW B \in SUBSET Sectors, B # {}
    PROVE  \E s \in B : \A d \in Dependencies[s] : d \notin B
<1>1. PICK rank \in [Sectors -> 0..Cardinality(Sectors)] :
        \A s \in Sectors : \A d \in Dependencies[s] : rank[d] < rank[s]
  BY SectorsAssumption
<1> DEFINE Below(s) == {t \in Sectors : rank[t] < rank[s]}
           F == {Below(s) : s \in B}
<1>2. F \in SUBSET SUBSET Sectors /\ F # {}
  OBVIOUS
<1>3. F \subseteq FiniteSubsetsOf(Sectors)
  BY <1>2, SectorsAssumption, FS_Subset DEF FiniteSubsetsOf
<1>4. PICK T \in F : \A U \in F : <<U, T>> \notin StrictSubsetOrdering(Sectors)
  BY <1>2, <1>3, SectorsAssumption, FS_StrictSubsetOrderingWellFounded, WFMin
<1>5. PICK s \in B : T = Below(s)
  OBVIOUS
<1>6. \A t \in Sectors : rank[t] \in Int
  BY FS_CardinalityType, SectorsAssumption
<1>7. ASSUME NEW d \in Dependencies[s], d \in B PROVE FALSE
  <2>1. d \in Sectors /\ s \in Sectors /\ rank[d] < rank[s]
    BY <1>1, <1>7
  <2>2. Below(d) \subseteq Below(s) /\ d \in Below(s) /\ d \notin Below(d)
    BY <1>6, <2>1
  <2>3. Below(d) \in F
    BY <1>7
  <2> HIDE DEF Below, F
  <2> QED BY <1>2, <1>4, <1>5, <2>2, <2>3 DEF StrictSubsetOrdering
<1> QED BY <1>5, <1>7

LEMMA MaxParts ==
    ASSUME NEW S \in SUBSET Versions, S # {}
    PROVE  Max(S) \in S
<1> DEFINE Bad == {T \in SUBSET S : T # {} /\ ~\E m \in T : \A n \in T : m >= n}
<1>1. CASE Bad = {}
  <2>1. \E m \in S : \A n \in S : m >= n
    BY <1>1
  <2> QED BY <2>1 DEF Max
<1>2. CASE Bad # {}
  <2>1. IsFiniteSet(S)
    BY VersionsAreFinite, FS_Subset
  <2>2. PICK T \in Bad : \A x \in T : T \ {x} \notin Bad
    BY <1>2, <2>1, FiniteMinimum
  <2>3. PICK x \in T : TRUE
    OBVIOUS
  <2>4. \A n \in T : n \in Int
    BY Numbers
  <2>5. CASE T \ {x} = {}
    BY <2>3, <2>4, <2>5
  <2>6. CASE T \ {x} # {}
    <3>1. PICK m \in T \ {x} : \A n \in T \ {x} : m >= n
      BY <2>2, <2>3, <2>6
    <3>2. CASE m >= x
      BY <3>1, <3>2
    <3>3. CASE x >= m
      BY <2>4, <3>1, <3>3
    <3> QED BY <2>3, <2>4, <3>1, <3>2, <3>3
  <2> QED BY <2>5, <2>6
<1> QED BY <1>1, <1>2

LEMMA MinParts ==
    ASSUME NEW S \in SUBSET Versions, S # {}
    PROVE  Min(S) \in S /\ \A n \in S : Min(S) <= n
<1> DEFINE Bad == {T \in SUBSET S : T # {} /\ ~\E m \in T : \A n \in T : m <= n}
<1>1. CASE Bad = {}
  <2>1. \E m \in S : \A n \in S : m <= n
    BY <1>1
  <2> QED BY <2>1 DEF Min
<1>2. CASE Bad # {}
  <2>1. IsFiniteSet(S)
    BY VersionsAreFinite, FS_Subset
  <2>2. PICK T \in Bad : \A x \in T : T \ {x} \notin Bad
    BY <1>2, <2>1, FiniteMinimum
  <2>3. PICK x \in T : TRUE
    OBVIOUS
  <2>4. \A n \in T : n \in Int
    BY Numbers
  <2>5. CASE T \ {x} = {}
    BY <2>3, <2>4, <2>5
  <2>6. CASE T \ {x} # {}
    <3>1. PICK m \in T \ {x} : \A n \in T \ {x} : m <= n
      BY <2>2, <2>3, <2>6
    <3>2. CASE m <= x
      BY <3>1, <3>2
    <3>3. CASE x <= m
      BY <2>4, <3>1, <3>3
    <3> QED BY <2>3, <2>4, <3>1, <3>2, <3>3
  <2> QED BY <2>5, <2>6
<1> QED BY <1>1, <1>2
-----------------------------------------------------------------------------
(* What a step does to each part of the state. *)

LEMMA ListingType == ASSUME TypeOK PROVE Listing \in Listings
BY DEF TypeOK, Listing, Listings

LEMMA ListingParts ==
    ASSUME NEW s \in Listings
    PROVE  /\ \A c \in Cluster : s.version[c] \in Versions /\ s.version[c] \in Int
           /\ s.version \in [Cluster -> Versions] /\ s.pool \in [Cluster -> Versions]
           /\ s.released \in Versions
<1>1. s.version \in [Cluster -> Versions] /\ s.pool \in [Cluster -> Versions] /\ s.released \in Versions
  BY DEF Listings
<1>2. \A c \in Cluster : s.version[c] \in Versions
  BY <1>1
<1>3. \A v \in Versions : v \in Int
  BY Numbers
<1> QED BY <1>1, <1>2, <1>3

\* An upgrade that is planned is new to the run, whose locks allow it.
Planable(p, c) ==
    /\ p \in Policies /\ p.cluster = c
    /\ ~LockedOut(Up(creating), c)
    /\ \/ p.target = "pool" /\ c \in Hypershift /\ p.version = specs.version[c]
       \/ p.target = "cluster" /\ c \notin seen /\ p.version \in Upgradeable(specs, c)

LEMMA ConsiderMoves ==
    ASSUME specs \in Listings, NEW c \in Cluster, Consider(c), creating \in Seq(Policies)
    PROVE  \/ creating' = creating
           \/ \E p \in Policies : creating' = Append(creating, p) /\ Planable(p, c)
<1> DEFINE locked == LockedOut(Up(creating), c)
<1>1. creating' = creating \o DiffOf(specs, creating, c)
  BY DEF Consider
<1>2. CASE c \in Hypershift /\ specs.pool[c] < specs.version[c]
  <2>1. CASE locked
    <3>1. DiffOf(specs, creating, c) = <<>>
      BY <1>2, <2>1 DEF DiffOf
    <3> QED BY <1>1, <3>1, ConcatEmptySeq
  <2>2. CASE ~locked
    <3> DEFINE p == [cluster |-> c, target |-> "pool", version |-> specs.version[c]]
    <3>1. DiffOf(specs, creating, c) = <<p>>
      BY <1>2, <2>2 DEF DiffOf, Nodes
    <3>2. p \in Policies
      BY ListingParts DEF Policies
    <3>3. p.cluster = c /\ p.target = "pool" /\ p.version = specs.version[c]
      OBVIOUS
    <3> HIDE DEF p
    <3>4. Planable(p, c)
      BY <1>2, <2>2, <3>2, <3>3 DEF Planable
    <3>5. creating' = Append(creating, p)
      BY <1>1, <3>1, <3>2, AppendIsConcat
    <3> QED BY <3>2, <3>4, <3>5
  <2> QED BY <2>1, <2>2
<1>3. CASE ~(c \in Hypershift /\ specs.pool[c] < specs.version[c])
  <2>1. CASE c \in seen \/ c \notin due \/ locked \/ Upgradeable(specs, c) = {}
    <3>1. DiffOf(specs, creating, c) = <<>>
      BY <1>3, <2>1 DEF DiffOf
    <3> QED BY <1>1, <3>1, ConcatEmptySeq
  <2>2. CASE ~(c \in seen \/ c \notin due \/ locked \/ Upgradeable(specs, c) = {})
    <3> DEFINE p == [cluster |-> c, target |-> "cluster", version |-> Max(Upgradeable(specs, c))]
    <3>1. DiffOf(specs, creating, c) = <<p>>
      BY <1>3, <2>2 DEF DiffOf
    <3>2. Upgradeable(specs, c) \in SUBSET Versions
      BY ListingParts, Numbers DEF Upgradeable, Versions
    <3>3. Max(Upgradeable(specs, c)) \in Upgradeable(specs, c)
      BY <2>2, <3>2, MaxParts
    <3>4. p \in Policies
      BY <3>2, <3>3 DEF Policies
    <3>5. p.cluster = c /\ p.target = "cluster" /\ p.version \in Upgradeable(specs, c)
      BY <3>3
    <3> HIDE DEF p
    <3>6. Planable(p, c)
      BY <2>2, <3>4, <3>5 DEF Planable
    <3>7. creating' = Append(creating, p)
      BY <1>1, <3>1, <3>4, AppendIsConcat
    <3> QED BY <3>4, <3>6, <3>7
  <2> QED BY <2>1, <2>2
<1> QED BY <1>2, <1>3

LEMMA PlanGrows ==
    ASSUME creating \in Seq(Policies), NEW p \in Policies, creating' = Append(creating, p)
    PROVE  /\ creating' \in Seq(Policies)
           /\ \A i \in DOMAIN creating' :
                \/ i \in DOMAIN creating /\ creating'[i] = creating[i]
                \/ i \notin DOMAIN creating /\ i = Len(creating) + 1 /\ creating'[i] = p
           /\ Planned' = Planned \cup {p.cluster}
<1>1. /\ Len(creating) \in Nat /\ DOMAIN creating = 1..Len(creating)
      /\ creating' \in Seq(Policies) /\ Len(creating') = Len(creating) + 1
      /\ DOMAIN creating' = 1..Len(creating')
      /\ \A i \in 1..Len(creating) : creating'[i] = creating[i]
      /\ creating'[Len(creating) + 1] = p
  BY LenProperties, AppendProperties
<1>2. \A i \in DOMAIN creating' :
        \/ i \in DOMAIN creating /\ creating'[i] = creating[i]
        \/ i \notin DOMAIN creating /\ i = Len(creating) + 1 /\ creating'[i] = p
  BY <1>1
<1>3. /\ \A i \in DOMAIN creating : i \in DOMAIN creating' /\ creating'[i] = creating[i]
      /\ \E i \in DOMAIN creating' : creating'[i] = p
  BY <1>1
<1>4. Planned' = Planned \cup {p.cluster}
  BY <1>2, <1>3 DEF Planned
<1> QED BY <1>1, <1>2, <1>4

LEMMA PlanShrinks ==
    ASSUME creating \in Seq(Policies), creating # <<>>, creating' = Tail(creating)
    PROVE  /\ 1 \in DOMAIN creating /\ Head(creating) = creating[1]
           /\ creating' \in Seq(Policies)
           /\ \A i \in DOMAIN creating' :
                i + 1 \in DOMAIN creating /\ creating'[i] = creating[i + 1] /\ i + 1 # 1 /\ i \in Int
           /\ Planned' \in SUBSET Planned
<1>1. /\ Len(creating) \in Nat /\ Len(creating) # 0 /\ DOMAIN creating = 1..Len(creating)
  BY LenProperties, EmptySeq
<1>2. /\ creating' \in Seq(Policies) /\ Len(creating') = Len(creating) - 1
      /\ DOMAIN creating' = 1..Len(creating')
      /\ \A i \in 1..Len(creating') : creating'[i] = creating[i + 1]
  BY HeadTailProperties, LenProperties
<1>3. Head(creating) = creating[1]
  OBVIOUS
<1>4. \A i \in DOMAIN creating' :
        i + 1 \in DOMAIN creating /\ creating'[i] = creating[i + 1] /\ i + 1 # 1 /\ i \in Int
  BY <1>1, <1>2
<1>5. Planned' \in SUBSET Planned
  BY <1>4 DEF Planned
<1> QED BY <1>1, <1>2, <1>3, <1>4, <1>5

LEMMA StopsAtNextOrg ==
    ASSUME NextOrg
    PROVE  left' = {} /\ creating' = <<>> /\ seen' = {} /\ due' = {} /\ org' = None
           /\ \/ phase' = "idle" /\ specs' = NoSpecs /\ todo' = {}
              \/ phase' = "orgs" /\ specs' = specs /\ todo' = todo
BY DEF NextOrg, Idle

\* Only OCM changes versions, by a policy.
LEMMA VersionMoves ==
    ASSUME Next
    PROVE  version' = version \/ \E p \in policies : Upgrade(p)
BY DEF Next, RunStep, GetUpgradeSpecs, FetchCurrentState, UpdateHistory, Consider, Act, EndOrg,
       OrgFails, Crash, Release, HealthChanges, DayPasses, ocm

\* Only a run creates policies, and OCM is done with them.
LEMMA PoliciesMove ==
    ASSUME Next
    PROVE  policies' = policies \/ Act \/ \E p \in policies : Upgrade(p)
BY DEF Next, RunStep, GetUpgradeSpecs, FetchCurrentState, UpdateHistory, Consider, EndOrg,
       OrgFails, Crash, Release, HealthChanges, DayPasses

LEMMA ActMoves ==
    ASSUME Act, creating \in Seq(Policies)
    PROVE  /\ phase = "upgrades" /\ left = {} /\ creating # <<>> /\ creating' = Tail(creating)
           /\ UNCHANGED <<version, history, phase, org, specs, seen, due, left, ran>>
           /\ \/ policies' = policies
              \/ /\ policies' = policies \cup {Head(creating)}
                 /\ Head(creating).target = "cluster" =>
                      Head(creating).version > version[Head(creating).cluster]
BY DEF Act, ocm

\* A run plans, carries out, or gives up.
LEMMA PlanMoves ==
    ASSUME Next
    PROVE  \/ UNCHANGED creating
           \/ creating' = <<>>
           \/ Act
           \/ \E c \in left : Consider(c)
<1>1. NextOrg => creating' = <<>>
  BY StopsAtNextOrg
<1> QED BY <1>1 DEF Next, RunStep, GetUpgradeSpecs, FetchCurrentState, UpdateHistory, EndOrg, OrgFails,
            Crash, Idle, Upgrade, Release, HealthChanges, DayPasses, run

LEMMA HistoryMoves ==
    ASSUME Next
    PROVE  \/ UNCHANGED <<soak, reporting, stats>> /\ (UNCHANGED age \/ DayPasses)
           \/ UpdateHistory
BY DEF Next, RunStep, GetUpgradeSpecs, FetchCurrentState, Consider, Act, EndOrg, OrgFails, Crash,
       Upgrade, Release, HealthChanges, DayPasses, history

LEMMA RanMoves ==
    ASSUME Next
    PROVE  UNCHANGED ran \/ DayPasses
BY DEF Next, RunStep, GetUpgradeSpecs, FetchCurrentState, UpdateHistory, Consider, Act, EndOrg,
       OrgFails, Crash, Upgrade, Release, HealthChanges

\* A version only changes to that of a policy, which is newer.
LEMMA VersionGrows ==
    ASSUME TypeOK, AheadInv, Next, NEW c \in Cluster
    PROVE  /\ version'[c] \in Versions /\ version'[c] \in Int /\ version[c] <= version'[c]
           /\ \/ version'[c] = version[c]
              \/ \E p \in policies : /\ Upgrade(p) /\ p.target = "cluster" /\ p.cluster = c
                                   /\ version'[c] = p.version /\ version[c] < p.version
<1>1. version[c] \in Versions /\ version[c] \in Int
  BY TypeParts
<1>2. CASE version' = version
  BY <1>1, <1>2
<1>3. ASSUME NEW p \in policies, Upgrade(p)
      PROVE  /\ version'[c] \in Versions /\ version'[c] \in Int /\ version[c] <= version'[c]
             /\ \/ version'[c] = version[c]
                \/ /\ p.target = "cluster" /\ p.cluster = c
                   /\ version'[c] = p.version /\ version[c] < p.version
  <2>1. CASE p.target = "pool"
    BY <1>1, <1>3, <2>1 DEF Upgrade
  <2>2. CASE p.target = "cluster"
    <3>1. version' = [version EXCEPT ![p.cluster] = p.version] /\ version \in [Cluster -> Versions]
      BY <1>3, <2>2 DEF Upgrade, TypeOK
    <3>2. p.cluster \in Cluster /\ p.version \in Versions /\ p.version \in Int
      BY TypeParts
    <3>3. version[p.cluster] < p.version
      BY <2>2 DEF AheadInv
    <3>4. CASE p.cluster = c
      BY <1>1, <2>2, <3>1, <3>2, <3>3, <3>4
    <3>5. CASE p.cluster # c
      BY <1>1, <3>1, <3>2, <3>5
    <3> QED BY <3>4, <3>5
  <2> QED BY <2>1, <2>2, TypeParts
<1> QED BY <1>2, <1>3, VersionMoves
-----------------------------------------------------------------------------
(* Types, phases and listings. *)

LEMMA TypeInit == ASSUME Init PROVE TypeOK
<1>1. 0 \in Versions /\ 0 \in Days /\ 0 \in Nat
  BY Numbers DEF Versions, Days
<1>2. creating \in Seq(Policies)
  BY EmptySeq DEF Init
<1> QED BY <1>1, <1>2 DEF Init, TypeOK, NoSpecs

LEMMA SoakType ==
    ASSUME TypeOK, NEW s \in Listings, NEW o \in Orgs
    PROVE  /\ Soak(s, o) \in [Workload -> [Versions -> Days]]
           /\ Reporting(s, o) \in [Workload -> [Versions -> SUBSET Cluster]]
           /\ Stats(s, o) \in [Workload -> Versions \cup {NoVersion}]
<1>1. \A w \in Workload : \A v \in Versions : Reports(s, o, w, v) \in SUBSET Cluster
  BY DEF Reports, With, ClustersOf
<1>2. ASSUME NEW w \in Workload, NEW v \in Versions
      PROVE  AtMost(soak[o][w][v] + age[o] * Cardinality(Reports(s, o, w, v) \cap reporting[o][w][v])) \in Days
  <2>1. soak[o][w][v] \in Nat /\ age[o] \in Nat
    BY DayTypes
  <2>2. Cardinality(Reports(s, o, w, v) \cap reporting[o][w][v]) \in Nat
    BY <1>1, ClusterSets
  <2> DEFINE a == age[o]  k == Cardinality(Reports(s, o, w, v) \cap reporting[o][w][v])
  <2>3. a * k \in Nat
    BY <2>1, <2>2
  <2> HIDE DEF a, k
  <2>4. soak[o][w][v] + a * k \in Nat
    BY <2>1, <2>3
  <2> QED BY <2>4, CapParts DEF a, k
<1>3. Soak(s, o) \in [Workload -> [Versions -> Days]]
  BY <1>2 DEF Soak
<1>4. Reporting(s, o) \in [Workload -> [Versions -> SUBSET Cluster]]
  BY <1>1 DEF Reporting, TypeOK
<1>5. ASSUME NEW w \in Workload
      PROVE  LET present == {s.version[c] : c \in With(w, ClustersOf(o))}
             IN (IF present = {} THEN NoVersion ELSE Min(present)) \in Versions \cup {NoVersion}
  <2> DEFINE present == {s.version[c] : c \in With(w, ClustersOf(o))}
  <2>1. present \in SUBSET Versions
    BY ListingParts DEF With, ClustersOf
  <2> HIDE DEF present
  <2>2. present # {} => Min(present) \in Versions
    BY <2>1, MinParts
  <2>3. (IF present = {} THEN NoVersion ELSE Min(present)) \in Versions \cup {NoVersion}
    BY <2>2
  <2> QED BY <2>3 DEF present
<1>6. Stats(s, o) \in [Workload -> Versions \cup {NoVersion}]
  BY <1>5 DEF Stats
<1> QED BY <1>3, <1>4, <1>6

LEMMA TypeStep ==
    ASSUME TypeOK, PhaseInv, AheadInv, Next
    PROVE  TypeOK'
<1>1. version' \in [Cluster -> Versions]
  <2>1. \A c \in Cluster : version'[c] \in Versions
    BY VersionGrows
  <2>2. version' = [c \in Cluster |-> version'[c]]
    BY VersionMoves DEF Upgrade, TypeOK
  <2> QED BY <2>1, <2>2
<1>2. pool' \in [Cluster -> Versions]
  <2>1. ASSUME NEW p \in policies, Upgrade(p) PROVE pool' \in [Cluster -> Versions]
    BY <2>1, TypeParts DEF Upgrade, TypeOK
  <2> QED
    BY <2>1 DEF Next, RunStep, GetUpgradeSpecs, FetchCurrentState, UpdateHistory, Consider, Act, EndOrg,
                OrgFails, Crash, Release, HealthChanges, DayPasses, ocm, TypeOK
<1>3. healthy' \in [Cluster -> BOOLEAN]
  <2>1. ASSUME NEW c \in Unwell, HealthChanges(c) PROVE healthy' \in [Cluster -> BOOLEAN]
    BY <2>1 DEF HealthChanges, TypeOK
  <2> QED
    BY <2>1 DEF Next, RunStep, GetUpgradeSpecs, FetchCurrentState, UpdateHistory, Consider, Act, EndOrg,
                OrgFails, Crash, Upgrade, Release, DayPasses, ocm, TypeOK
<1>4. released' \in Versions
  <2>1. ASSUME Release PROVE released' \in Versions
    BY <2>1, Numbers DEF Release, TypeOK, Versions
  <2> QED
    BY <2>1 DEF Next, RunStep, GetUpgradeSpecs, FetchCurrentState, UpdateHistory, Consider, Act, EndOrg,
                OrgFails, Crash, Upgrade, HealthChanges, DayPasses, ocm, TypeOK
<1>5. creating \in Seq(Policies) /\ policies \in SUBSET Policies
  BY DEF TypeOK
<1>6. policies' \in SUBSET Policies
  <2>1. ASSUME Act PROVE policies' \in SUBSET Policies
    BY <1>5, <2>1, ActMoves, HeadTailProperties
  <2> QED BY <1>5, <2>1, PoliciesMove DEF Upgrade
<1>7. creating' \in Seq(Policies)
  <2>1. CASE creating' = <<>>
    BY <2>1, EmptySeq
  <2>2. ASSUME Act PROVE creating' \in Seq(Policies)
    BY <1>5, <2>2, ActMoves, PlanShrinks
  <2>3. ASSUME NEW c \in left, Consider(c) PROVE creating' \in Seq(Policies)
    <3>1. c \in Cluster /\ specs \in Listings
      BY <2>3 DEF TypeOK, PhaseInv, Consider
    <3>2. \/ creating' = creating
          \/ \E p \in Policies : creating' = Append(creating, p)
      BY <1>5, <2>3, <3>1, ConsiderMoves
    <3> QED BY <1>5, <3>2, AppendProperties
  <2> QED BY <1>5, <2>1, <2>2, <2>3, PlanMoves
<1>8. /\ soak' \in [Orgs -> [Workload -> [Versions -> Days]]]
      /\ reporting' \in [Orgs -> [Workload -> [Versions -> SUBSET Cluster]]]
      /\ stats' \in [Orgs -> [Workload -> Versions \cup {NoVersion}]]
      /\ age' \in [Orgs -> Days]
  <2>1. CASE UpdateHistory
    <3>1. org \in Orgs /\ specs \in Listings
      BY <2>1 DEF UpdateHistory, PhaseInv
    <3>2. 0 \in Days
      BY Numbers DEF Days
    <3> QED BY <2>1, <3>1, <3>2, SoakType DEF UpdateHistory, TypeOK
  <2>2. CASE DayPasses
    <3>1. \A o \in Orgs : age[o] + 1 \in Nat
      BY DayTypes
    <3>2. age' \in [Orgs -> Days]
      BY <2>2, <3>1, CapParts DEF DayPasses
    <3> QED BY <2>2, <3>2 DEF DayPasses, TypeOK
  <2>3. CASE UNCHANGED <<soak, reporting, stats, age>>
    BY <2>3 DEF TypeOK
  <2> QED BY <2>1, <2>2, <2>3, HistoryMoves
<1>9. ran' \in [Orgs -> [Workload -> [Versions -> Days]]]
  <2>1. CASE DayPasses
    <3>1. ASSUME NEW o \in Orgs, NEW w \in Workload, NEW v \in Versions
          PROVE  AtMost(ran[o][w][v] + Cardinality({c \in With(w, ClustersOf(o)) : version[c] = v})) \in Days
      <4>1. ran[o][w][v] \in Nat
        BY DayTypes
      <4>2. Cardinality({c \in With(w, ClustersOf(o)) : version[c] = v}) \in Nat
        BY ClusterSets DEF With, ClustersOf
      <4> QED BY <4>1, <4>2, CapParts
    <3> QED BY <2>1, <3>1 DEF DayPasses
  <2> QED BY <2>1, RanMoves DEF TypeOK
<1>10. /\ phase' \in {"idle", "orgs", "history", "upgrades"}
       /\ todo' \in SUBSET Orgs
       /\ org' \in Orgs \cup {None}
       /\ specs' \in Listings \cup {NoSpecs}
       /\ left' \in SUBSET Cluster
  <2>1. specs \in Listings \cup {NoSpecs} /\ Listing \in Listings
    BY ListingType DEF TypeOK, Listings
  <2>2. ASSUME NextOrg
        PROVE  /\ phase' \in {"idle", "orgs", "history", "upgrades"}
               /\ todo' \in SUBSET Orgs
               /\ org' \in Orgs \cup {None}
               /\ specs' \in Listings \cup {NoSpecs}
               /\ left' \in SUBSET Cluster
    BY <2>1, <2>2, StopsAtNextOrg DEF TypeOK
  <2> QED
    BY <2>1, <2>2 DEF Next, RunStep, GetUpgradeSpecs, FetchCurrentState, UpdateHistory, Consider, Act, EndOrg,
                OrgFails, Crash, Idle, Upgrade, Release, HealthChanges, DayPasses, run, TypeOK, ClustersOf
<1>11. seen' \in SUBSET Cluster /\ due' \in SUBSET Cluster
  <2>1. ASSUME NextOrg PROVE seen' \in SUBSET Cluster /\ due' \in SUBSET Cluster
    BY <2>1, StopsAtNextOrg
  <2> QED
    BY <2>1 DEF Next, RunStep, GetUpgradeSpecs, FetchCurrentState, UpdateHistory, Consider, Act, EndOrg,
                OrgFails, Crash, Idle, Upgrade, Release, HealthChanges, DayPasses, run, TypeOK, ClustersOf
<1>12. faults' \in Nat
  <2>1. faults' = faults \/ faults' = faults + 1
    BY DEF Next, RunStep, GetUpgradeSpecs, FetchCurrentState, UpdateHistory, Consider, Act, EndOrg, Fault,
           OrgFails, Crash, Upgrade, Release, HealthChanges, DayPasses
  <2> QED BY <2>1 DEF TypeOK
<1> QED BY <1>1, <1>2, <1>3, <1>4, <1>6, <1>7, <1>8, <1>9, <1>10, <1>11, <1>12 DEF TypeOK, Listings

LEMMA PhaseStep ==
    ASSUME TypeOK, PhaseInv, Next
    PROVE  PhaseInv'
<1>1. Listing \in Listings
  BY ListingType
<1>2. ASSUME NextOrg, phase # "idle" PROVE PhaseInv'
  BY <1>2, StopsAtNextOrg DEF PhaseInv
<1>3. ASSUME Idle PROVE PhaseInv'
  BY <1>3 DEF Idle, PhaseInv
<1>4. CASE UNCHANGED run
  BY <1>4 DEF run, PhaseInv
<1>5. ASSUME NEW o \in Orgs, NEW near, FetchCurrentState(o, near) PROVE PhaseInv'
  BY <1>5 DEF FetchCurrentState, PhaseInv
<1>6. CASE GetUpgradeSpecs \/ UpdateHistory \/ Act
  BY <1>1, <1>6 DEF GetUpgradeSpecs, UpdateHistory, Act, PhaseInv
<1>7. ASSUME NEW c \in left, Consider(c) PROVE PhaseInv'
  BY <1>7 DEF Consider, PhaseInv
<1> QED
  BY <1>2, <1>3, <1>4, <1>5, <1>6, <1>7
  DEF Next, RunStep, EndOrg, OrgFails, Crash, Upgrade, Release, HealthChanges, DayPasses

LEMMA SpecsMove ==
    ASSUME Next
    PROVE  \/ phase' = "idle"
           \/ (phase # "idle" /\ specs' = specs)
           \/ (GetUpgradeSpecs /\ specs' = Listing /\ version' = version)
<1>1. NextOrg => phase' = "idle" \/ specs' = specs
  BY StopsAtNextOrg
<1>2. CASE UNCHANGED run
  BY <1>2 DEF run
<1> QED
  BY <1>1, <1>2 DEF Next, RunStep, GetUpgradeSpecs, FetchCurrentState, UpdateHistory, Consider, Act, EndOrg,
              OrgFails, Crash, Idle, Upgrade, Release, HealthChanges, DayPasses, ocm

LEMMA ListingStep ==
    ASSUME TypeOK, PhaseInv, ListingInv, AheadInv, Next
    PROVE  ListingInv'
<1>1. \A c \in Cluster : version[c] \in Int /\ version'[c] \in Int /\ version[c] <= version'[c]
  BY VersionGrows, TypeParts
<1>2. CASE phase' = "idle"
  BY <1>2 DEF ListingInv
<1>3. CASE phase # "idle" /\ specs' = specs
  <2>1. \A c \in Cluster : specs.version[c] \in Int
    BY <1>3, ListingParts DEF PhaseInv
  <2> QED BY <1>1, <1>3, <2>1 DEF ListingInv
<1>4. CASE specs' = Listing /\ version' = version
  <2>1. specs'.version = version
    BY <1>4 DEF Listing
  <2> QED BY <1>1, <1>4, <2>1 DEF ListingInv
<1>5. \/ phase' = "idle"
      \/ (phase # "idle" /\ specs' = specs)
      \/ (specs' = Listing /\ version' = version)
  BY SpecsMove
<1> QED BY <1>2, <1>3, <1>4, <1>5

LEMMA UpgradeMoves ==
    ASSUME TypeOK, AheadInv, NEW p \in policies, Upgrade(p)
    PROVE  /\ policies' = policies \ {p} /\ Upgrading' \in SUBSET Upgrading
           /\ UNCHANGED <<run, history, ran>>
           /\ \A c \in Cluster :
                version'[c] = version[c]
                \/ (p.target = "cluster" /\ p.cluster = c /\ version'[c] = p.version)
<1>1. policies' = policies \ {p}
  BY DEF Upgrade
<1>2. Upgrading' \in SUBSET Upgrading
  BY <1>1 DEF Upgrading
<1>3. UNCHANGED <<run, history, ran>>
  BY DEF Upgrade
<1>4. ASSUME NEW c \in Cluster
      PROVE  version'[c] = version[c]
             \/ (p.target = "cluster" /\ p.cluster = c /\ version'[c] = p.version)
  <2>1. CASE p.target = "pool"
    BY <2>1 DEF Upgrade
  <2>2. CASE p.target = "cluster"
    <3>1. version' = [version EXCEPT ![p.cluster] = p.version] /\ version \in [Cluster -> Versions]
      BY <2>2 DEF Upgrade, TypeOK
    <3> QED BY <2>2, <3>1
  <2> QED BY <2>1, <2>2, TypeParts
<1> QED BY <1>1, <1>2, <1>3, <1>4

\* A policy that is created is the first that is planned.
LEMMA ActParts ==
    ASSUME TypeOK, PlanInv, Act
    PROVE  \/ policies' = policies /\ Upgrading' = Upgrading
           \/ /\ policies' = policies \cup {creating[1]}
              /\ Upgrading' = Upgrading \cup {creating[1].cluster}
              /\ creating[1].target = "cluster" =>
                    /\ creating[1].version > version[creating[1].cluster]
                    /\ creating[1].cluster \notin Upgrading
<1>1. creating \in Seq(Policies)
  BY DEF TypeOK
<1>2. creating # <<>> /\ creating' = Tail(creating)
  BY <1>1, ActMoves
<1>3. 1 \in DOMAIN creating /\ Head(creating) = creating[1]
  BY <1>1, <1>2, PlanShrinks
<1>4. CASE policies' = policies
  BY <1>4 DEF Upgrading
<1>5. CASE /\ policies' = policies \cup {Head(creating)}
           /\ Head(creating).target = "cluster" =>
                Head(creating).version > version[Head(creating).cluster]
  <2>1. Upgrading' = Upgrading \cup {creating[1].cluster}
    BY <1>3, <1>5 DEF Upgrading
  <2> QED BY <1>3, <1>5, <2>1 DEF PlanInv
<1> QED BY <1>1, <1>4, <1>5, ActMoves

LEMMA AheadStep ==
    ASSUME TypeOK, AheadInv, PlanInv, Next
    PROVE  AheadInv'
<1>1. ASSUME NEW p \in policies, Upgrade(p) PROVE AheadInv'
  <2>1. /\ policies' = policies \ {p}
        /\ \A c \in Cluster :
              version'[c] = version[c]
              \/ (p.target = "cluster" /\ p.cluster = c /\ version'[c] = p.version)
    BY <1>1, UpgradeMoves
  <2>2. \A q \in policies' : q.target = "cluster" => version'[q.cluster] = version[q.cluster]
    BY <2>1, TypeParts DEF AheadInv
  <2> QED BY <2>1, <2>2 DEF AheadInv
<1>2. CASE Act
  <2>1. version' = version
    BY <1>2, ActMoves DEF TypeOK
  <2>2. CASE policies' = policies
    BY <2>1, <2>2 DEF AheadInv
  <2>3. CASE /\ policies' = policies \cup {creating[1]}
             /\ creating[1].target = "cluster" =>
                   /\ creating[1].version > version[creating[1].cluster]
                   /\ creating[1].cluster \notin Upgrading
    <3>1. \A p \in policies : p.cluster \in Upgrading
      BY DEF Upgrading
    <3>2. 1 \in DOMAIN creating
      BY <1>2, ActMoves, PlanShrinks DEF TypeOK
    <3>3. creating[1].version \in Int /\ version[creating[1].cluster] \in Int
      BY <3>2, TypeParts
    <3>4. creating[1].target = "cluster" => version[creating[1].cluster] < creating[1].version
      BY <2>3, <3>3
    <3> QED BY <2>1, <2>3, <3>1, <3>4 DEF AheadInv
  <2> QED BY <1>2, <2>2, <2>3, ActParts
<1>3. CASE policies' = policies /\ version' = version
  BY <1>3 DEF AheadInv
<1>4. \/ Act \/ \E p \in policies : Upgrade(p)
      \/ (policies' = policies /\ version' = version)
  BY PoliciesMove, VersionMoves
<1> QED BY <1>1, <1>2, <1>3, <1>4

LEMMA PlanStep ==
    ASSUME TypeOK, PhaseInv, AheadInv, PlanInv, Next
    PROVE  PlanInv'
<1>0. creating \in Seq(Policies) /\ left \in SUBSET Cluster
  BY DEF TypeOK
<1>1. CASE left' = {} /\ creating' = <<>> /\ ~Considering'
  BY <1>1 DEF PlanInv
<1>2. CASE NextOrg \/ Idle \/ GetUpgradeSpecs
  <2>1. GetUpgradeSpecs => left' = {} /\ creating' = <<>> /\ phase' = "orgs"
    BY DEF GetUpgradeSpecs, PhaseInv
  <2>2. Idle => left' = {} /\ creating' = <<>> /\ phase' = "idle"
    BY DEF Idle
  <2>3. left' = {} /\ creating' = <<>> /\ phase' \in {"idle", "orgs"}
    BY <1>2, <2>1, <2>2, StopsAtNextOrg
  <2> QED BY <1>1, <2>3 DEF Considering
<1>3. ASSUME NEW o \in Orgs, NEW near, FetchCurrentState(o, near) PROVE PlanInv'
  <2>1. left' = {} /\ creating' = <<>> /\ policies' = policies /\ org' = o
        /\ seen' = Upgrading \cap ClustersOf(o)
    BY <1>3 DEF FetchCurrentState, PhaseInv, Upgrading
  <2>2. Upgrading' = Upgrading
    BY <2>1 DEF Upgrading
  <2> QED BY <2>1, <2>2 DEF PlanInv
<1>4. CASE UpdateHistory
  <2>1. /\ phase = "history" /\ creating' = creating /\ creating = <<>> /\ org' = org
        /\ left' = ClustersOf(org) /\ policies' = policies /\ seen' = seen
    BY <1>4 DEF UpdateHistory, PhaseInv
  <2>2. Upgrading' = Upgrading /\ Considering
    BY <2>1 DEF Upgrading, Considering
  <2> QED BY <2>1, <2>2 DEF PlanInv
<1>5. ASSUME NEW c \in left, Consider(c) PROVE PlanInv'
  <2>1. /\ c \in Cluster /\ specs \in Listings /\ Considering /\ c \in ClustersOf(org)
        /\ left' = left \ {c} /\ org' = org /\ policies' = policies /\ seen' = seen
    BY <1>0, <1>5 DEF Consider, PhaseInv, Considering, PlanInv
  <2>2. Upgrading' = Upgrading
    BY <2>1 DEF Upgrading
  <2>3. CASE creating' = creating
    BY <2>1, <2>2, <2>3 DEF PlanInv
  <2>4. ASSUME NEW p \in Policies, creating' = Append(creating, p), Planable(p, c)
        PROVE  PlanInv'
    <3>1. \A i \in DOMAIN creating' :
            \/ i \in DOMAIN creating /\ creating'[i] = creating[i]
            \/ i \notin DOMAIN creating /\ i = Len(creating) + 1 /\ creating'[i] = p
      BY <1>0, <2>4, PlanGrows
    <3>2. p.cluster = c /\ (p.target = "cluster" => c \notin Upgrading)
      BY <2>1, <2>4 DEF Planable, PlanInv
    <3>3. \A i \in DOMAIN creating' : creating'[i].cluster \in ClustersOf(org) \ left'
      BY <2>1, <3>1, <3>2 DEF PlanInv
    <3>4. \A i, j \in DOMAIN creating' : creating'[i].cluster = creating'[j].cluster => i = j
      BY <3>1, <3>2 DEF PlanInv
    <3>5. \A i \in DOMAIN creating' : creating'[i].target = "cluster" => creating'[i].cluster \notin Upgrading
      BY <3>1, <3>2 DEF PlanInv
    <3> QED BY <2>1, <2>2, <3>3, <3>4, <3>5 DEF PlanInv
  <2> QED BY <1>0, <1>5, <2>1, <2>3, <2>4, ConsiderMoves
<1>6. CASE Act
  <2>1. /\ left' = {} /\ left = {} /\ ~Considering' /\ org' = org
        /\ creating # <<>> /\ creating' = Tail(creating)
    BY <1>0, <1>6, ActMoves DEF Considering
  <2>2. /\ 1 \in DOMAIN creating
        /\ \A i \in DOMAIN creating' :
              i + 1 \in DOMAIN creating /\ creating'[i] = creating[i + 1] /\ i + 1 # 1 /\ i \in Int
    BY <1>0, <2>1, PlanShrinks
  <2>3. \A i \in DOMAIN creating' : creating'[i].cluster # creating[1].cluster
    BY <2>2 DEF PlanInv
  <2>4. Upgrading' \in SUBSET (Upgrading \cup {creating[1].cluster})
    BY <1>6, ActParts
  <2>5. \A i, j \in DOMAIN creating' : creating'[i].cluster = creating'[j].cluster => i = j
    <3>1. \A i, j \in DOMAIN creating' : creating'[i].cluster = creating'[j].cluster => i + 1 = j + 1
      BY <2>2 DEF PlanInv
    <3> QED BY <2>2, <3>1
  <2> QED BY <2>1, <2>2, <2>3, <2>4, <2>5 DEF PlanInv
<1>7. CASE UNCHANGED run /\ Upgrading' \in SUBSET Upgrading
  BY <1>7 DEF run, PlanInv, Considering
<1>8. ASSUME NEW p \in policies, Upgrade(p) PROVE UNCHANGED run /\ Upgrading' \in SUBSET Upgrading
  BY <1>8, UpgradeMoves
<1>9. policies' = policies => Upgrading' \in SUBSET Upgrading
  BY DEF Upgrading
<1>10. Release \/ DayPasses \/ (\E c \in Unwell : HealthChanges(c)) => UNCHANGED run /\ policies' = policies
  BY DEF Release, DayPasses, HealthChanges
<1>11. EndOrg \/ OrgFails \/ Crash => NextOrg \/ Idle
  BY DEF EndOrg, OrgFails, Crash
<1> QED BY <1>2, <1>3, <1>4, <1>5, <1>6, <1>7, <1>8, <1>9, <1>10, <1>11 DEF Next, RunStep
-----------------------------------------------------------------------------
(* Mutexes. *)

\* Among the clusters with an upgrade, or with one that is planned, each mutex is held
\* by as many as are allowed.
MutexInv ==
    \A m \in Mutex :
        /\ \A c, d \in Sharing(Busy, m) :
              Unlimited(c) /\ Unlimited(d) /\ OrgOf[c] = OrgOf[d] => c = d
        /\ \A s \in Sectors : MaxParallel[s].unit # "none" =>
              Cardinality(Sharing(Busy \cap InSector(s), m)) <= AllowedParallel(s, m)

LEMMA PlannedParts ==
    ASSUME TypeOK
    PROVE  /\ Planned \in SUBSET Cluster /\ Upgrading \in SUBSET Cluster
           /\ Busy \in SUBSET Cluster
           /\ Up(creating) = seen \cup Planned
<1>1. Planned \in SUBSET Cluster /\ Upgrading \in SUBSET Cluster
  BY TypeParts DEF Planned, Upgrading
<1>2. {d.cluster : d \in ToSet(creating)} = Planned
  BY DEF ToSet, Planned
<1> QED BY <1>1, <1>2 DEF Up, Busy

\* Only considering a cluster makes one more busy.
LEMMA BusyMoves ==
    ASSUME TypeOK, PhaseInv, PlanInv, Next
    PROVE  \/ Busy' \in SUBSET Busy
           \/ \E c \in left : \E p \in Policies :
                 Consider(c) /\ Planable(p, c) /\ Busy' = Busy \cup {c}
                 /\ creating' = Append(creating, p) /\ policies' = policies
<1>1. creating \in Seq(Policies) /\ left \in SUBSET Cluster
  BY DEF TypeOK
<1>2. CASE Act
  <2>1. creating # <<>> /\ creating' = Tail(creating)
    BY <1>1, <1>2, ActMoves
  <2>2. 1 \in DOMAIN creating /\ Planned' \in SUBSET Planned
    BY <1>1, <2>1, PlanShrinks
  <2>3. Upgrading' \in SUBSET (Upgrading \cup {creating[1].cluster})
    BY <1>2, ActParts
  <2>4. creating[1].cluster \in Planned
    BY <2>2 DEF Planned
  <2> QED BY <2>2, <2>3, <2>4 DEF Busy
<1>3. ASSUME NEW p \in policies, Upgrade(p) PROVE Busy' \in SUBSET Busy
  <2>1. policies' = policies \ {p} /\ creating' = creating
    BY <1>3 DEF Upgrade, run
  <2> QED BY <2>1 DEF Busy, Planned, Upgrading
<1>4. ASSUME policies' = policies, NEW c \in left, Consider(c)
      PROVE  \/ Busy' \in SUBSET Busy
             \/ \E p \in Policies :
                   Consider(c) /\ Planable(p, c) /\ Busy' = Busy \cup {c}
                   /\ creating' = Append(creating, p) /\ policies' = policies
  <2>1. specs \in Listings
    BY <1>4 DEF PhaseInv, Consider
  <2>2. Upgrading' = Upgrading
    BY <1>4 DEF Upgrading
  <2>3. CASE creating' = creating
    BY <2>2, <2>3 DEF Busy, Planned
  <2>4. ASSUME NEW p \in Policies, creating' = Append(creating, p), Planable(p, c)
        PROVE  Busy' = Busy \cup {c}
    <3>1. Planned' = Planned \cup {p.cluster} /\ p.cluster = c
      BY <1>1, <2>4, PlanGrows DEF Planable
    <3> QED BY <2>2, <3>1 DEF Busy
  <2> QED BY <1>1, <1>4, <2>1, <2>3, <2>4, ConsiderMoves
<1>5. ASSUME policies' = policies, creating' = creating \/ creating' = <<>>
      PROVE  Busy' \in SUBSET Busy
  BY <1>5 DEF Busy, Planned, Upgrading
<1>6. policies' = policies \/ Act \/ \E p \in policies : Upgrade(p)
  BY PoliciesMove
<1>7. \/ creating' = creating \/ creating' = <<>>
      \/ Act
      \/ \E c \in left : Consider(c)
  BY PlanMoves
<1> QED BY <1>2, <1>3, <1>4, <1>5, <1>6, <1>7

\* While a cluster is considered, the run knows of all upgrades of its organization.
LEMMA BusyIsSeen ==
    ASSUME TypeOK, PlanInv, Considering, NEW d \in Busy, OrgOf[d] = org
    PROVE  d \in Up(creating)
<1>1. d \in ClustersOf(org)
  BY PlannedParts DEF ClustersOf
<1>2. Upgrading \cap ClustersOf(org) \in SUBSET seen
  BY DEF PlanInv
<1> QED BY <1>1, <1>2, PlannedParts DEF Busy

LEMMA AllowedType ==
    ASSUME NEW s \in Sectors, NEW m
    PROVE  AllowedParallel(s, m) \in Nat \ {0}
<1>1. MaxParallel[s].n \in Nat
  BY UpgradesAssumption
<1>2. Cardinality(Sharing(InSector(s), m)) \in Nat
  BY ClusterSets DEF Sharing, InSector
<1> DEFINE k == Cardinality(Sharing(InSector(s), m))  n == MaxParallel[s].n
<1> HIDE DEF k, n
<1>3. \A h \in Nat : Round(h) \in Nat
  BY DEF Round
<1>4. k * n \in Nat
  BY <1>1, <1>2 DEF k, n
<1>5. Round(k * n) \in Nat
  BY <1>3, <1>4
<1> QED BY <1>1, <1>5 DEF AllowedParallel, k, n

LEMMA MutexStep ==
    ASSUME TypeOK, PhaseInv, PlanInv, MutexInv, Next
    PROVE  MutexInv'
<1>1. Busy \in SUBSET Cluster
  BY PlannedParts
<1>2. CASE Busy' \in SUBSET Busy
  <2>1. \A m : Sharing(Busy', m) \in SUBSET Sharing(Busy, m)
    BY <1>2 DEF Sharing
  <2>2. ASSUME NEW m, NEW s \in Sectors
        PROVE  /\ Cardinality(Sharing(Busy' \cap InSector(s), m)) \in Nat
               /\ Cardinality(Sharing(Busy \cap InSector(s), m)) \in Nat
               /\ Cardinality(Sharing(Busy' \cap InSector(s), m))
                    <= Cardinality(Sharing(Busy \cap InSector(s), m))
    <3>1. /\ Sharing(Busy \cap InSector(s), m) \in SUBSET Cluster
          /\ Sharing(Busy' \cap InSector(s), m) \in SUBSET Sharing(Busy \cap InSector(s), m)
      BY <1>1, <1>2 DEF Sharing
    <3> QED BY <3>1, SmallerCluster, ClusterSets
  <2>3. \A m : \A s \in Sectors : AllowedParallel(s, m) \in Nat
    BY AllowedType
  <2>4. ASSUME NEW m \in Mutex, NEW s \in Sectors, MaxParallel[s].unit # "none"
        PROVE  Cardinality(Sharing(Busy' \cap InSector(s), m)) <= AllowedParallel(s, m)
    <3>1. Cardinality(Sharing(Busy \cap InSector(s), m)) <= AllowedParallel(s, m)
      BY <2>4 DEF MutexInv
    <3> QED BY <2>2, <2>3, <3>1
  <2> QED BY <2>1, <2>4 DEF MutexInv
<1>3. ASSUME NEW c \in left, NEW p \in Policies, Consider(c), Planable(p, c), Busy' = Busy \cup {c}
      PROVE  MutexInv'
  <2> DEFINE up == Up(creating)
  <2>1. c \in Cluster /\ c \in ClustersOf(org) /\ Considering /\ ~LockedOut(up, c)
    BY <1>3 DEF Consider, Considering, PlanInv, Planable, TypeOK
  <2>2. OrgOf[c] = org
    BY <2>1 DEF ClustersOf
  <2>3. \A d \in Busy : OrgOf[d] = org => d \in up
    BY <2>1, BusyIsSeen
  <2> HIDE DEF up
  <2>4. ASSUME NEW m \in Mutex, NEW a \in Sharing(Busy', m), NEW b \in Sharing(Busy', m),
               Unlimited(a), Unlimited(b), OrgOf[a] = OrgOf[b]
        PROVE  a = b
    <3>1. CASE a \in Busy /\ b \in Busy
      BY <2>4, <3>1 DEF MutexInv, Sharing
    <3>2. ASSUME NEW d \in Busy, m \in EffectiveMutexes(c), m \in EffectiveMutexes(d),
                 OrgOf[d] = OrgOf[c], Unlimited(c)
          PROVE  FALSE
      <4>1. d \in Sharing(up, m)
        BY <2>2, <2>3, <3>2 DEF Sharing
      <4> QED BY <2>1, <3>2, <4>1 DEF LockedOut
    <3>3. m \in EffectiveMutexes(a) /\ m \in EffectiveMutexes(b) /\ a \in Busy' /\ b \in Busy'
      BY <2>4 DEF Sharing
    <3> QED BY <1>3, <2>4, <3>1, <3>2, <3>3
  <2>5. ASSUME NEW m \in Mutex, NEW s \in Sectors, MaxParallel[s].unit # "none"
        PROVE  Cardinality(Sharing(Busy' \cap InSector(s), m)) <= AllowedParallel(s, m)
    <3> DEFINE B == Sharing(Busy \cap InSector(s), m)
    <3>1. Cardinality(B) <= AllowedParallel(s, m)
      BY <2>5 DEF MutexInv
    <3>2. CASE c \notin InSector(s) \/ m \notin EffectiveMutexes(c)
      <4>1. Sharing(Busy' \cap InSector(s), m) = B
        BY <1>3, <3>2 DEF Sharing
      <4> QED BY <3>1, <4>1
    <3>3. CASE c \in InSector(s) /\ m \in EffectiveMutexes(c)
      <4>1. SectorOf[c] = s /\ s # None /\ ~Unlimited(c)
        BY <2>5, <3>3, UpgradesAssumption DEF InSector, Unlimited
      <4>2. B \in SUBSET Sharing(up \cap InSector(s), m)
        <5>1. \A d \in B : d \in Busy /\ d \in Cluster /\ SectorOf[d] = s
          BY <1>1 DEF Sharing, InSector
        <5>2. \A d \in B : OrgOf[d] = org
          BY <2>1, <2>2, <4>1, <5>1, SectorsAssumption
        <5> QED BY <2>3, <5>1, <5>2 DEF Sharing
      <4>3. ~(Cardinality(Sharing(up \cap InSector(s), m)) >= AllowedParallel(s, m))
        BY <2>1, <3>3, <4>1 DEF LockedOut
      <4>4. Sharing(up \cap InSector(s), m) \in SUBSET Cluster
        BY DEF Sharing, InSector
      <4>5. Sharing(Busy' \cap InSector(s), m) = B \cup {c}
        BY <1>3, <3>3 DEF Sharing
      <4>6. IsFiniteSet(B) /\ Cardinality(B) \in Nat
            /\ Cardinality(B) <= Cardinality(Sharing(up \cap InSector(s), m))
            /\ Cardinality(Sharing(up \cap InSector(s), m)) \in Nat
        BY <4>2, <4>4, ClusterSets, SmallerCluster
      <4>7. AllowedParallel(s, m) \in Nat
        BY AllowedType
      <4>8. Cardinality(B) < AllowedParallel(s, m)
        BY <4>3, <4>6, <4>7
      <4> HIDE DEF B
      <4>9. Cardinality(B \cup {c}) <= AllowedParallel(s, m)
        BY <4>6, <4>7, <4>8, OneMore
      <4> QED BY <4>5, <4>9
    <3> QED BY <3>2, <3>3
  <2> QED BY <2>4, <2>5 DEF MutexInv
<1> QED BY <1>2, <1>3, BusyMoves
-----------------------------------------------------------------------------
(* One upgrade per cluster. *)

\* Where a hosted cluster is, no second upgrade may hold the cluster's own mutex.
HostedAlone ==
    \A c \in Hypershift : Unlimited(c) \/ AllowedParallel(SectorOf[c], c) = 1

ExclusiveInv ==
    /\ \A i \in DOMAIN creating : creating[i].cluster \notin Upgrading
    /\ \A p, q \in policies : p.cluster = q.cluster => p = q

\* Its own mutex keeps a cluster from being planned twice.
LEMMA PlannedIsNew ==
    ASSUME HostedAlone, TypeOK, PhaseInv, PlanInv,
           NEW c \in left, NEW p \in Policies, Consider(c), Planable(p, c)
    PROVE  c \notin Upgrading
<1>1. c \in Cluster /\ c \in ClustersOf(org) /\ Considering /\ ~LockedOut(Up(creating), c)
  BY DEF Consider, Considering, PlanInv, Planable, TypeOK
<1>2. c \in Upgrading => c \in Up(creating)
  BY <1>1, BusyIsSeen DEF Busy, ClustersOf
<1>3. c \in EffectiveMutexes(c)
  BY DEF EffectiveMutexes
<1>4. CASE p.target = "cluster"
  BY <1>1, <1>4 DEF Planable, PlanInv
<1>5. ASSUME c \in Hypershift, Unlimited(c), c \in Up(creating) PROVE FALSE
  <2>1. c \in Sharing(Up(creating), c)
    BY <1>3, <1>5 DEF Sharing
  <2> QED BY <1>1, <1>3, <1>5, <2>1 DEF LockedOut
<1>6. ASSUME c \in Hypershift, ~Unlimited(c), c \in Up(creating) PROVE FALSE
  <2> DEFINE S == Sharing(Up(creating) \cap InSector(SectorOf[c]), c)
  <2>1. AllowedParallel(SectorOf[c], c) = 1
    BY <1>6 DEF HostedAlone
  <2>2. ~(Cardinality(S) >= 1)
    BY <1>1, <1>3, <1>6, <2>1 DEF LockedOut
  <2>3. c \in S
    BY <1>1, <1>3, <1>6 DEF Sharing, InSector
  <2>4. S \in SUBSET Cluster
    BY DEF Sharing, InSector
  <2> HIDE DEF S
  <2>5. IsFiniteSet(S) /\ Cardinality(S) \in Nat
    BY <2>4, ClusterSets
  <2>6. Cardinality(S) # 0
    BY <2>3, <2>5, FS_EmptySet
  <2> QED BY <2>2, <2>5, <2>6
<1>7. p.target = "pool" => c \in Hypershift
  BY DEF Planable
<1>8. p.target \in {"cluster", "pool"}
  BY DEF Policies
<1> QED BY <1>2, <1>4, <1>5, <1>6, <1>7, <1>8

LEMMA ExclusiveStep ==
    ASSUME HostedAlone, TypeOK, PhaseInv, PlanInv, ExclusiveInv, Next
    PROVE  ExclusiveInv'
<1>1. creating \in Seq(Policies)
  BY DEF TypeOK
<1>2. CASE Act
  <2>1. creating # <<>> /\ creating' = Tail(creating)
    BY <1>1, <1>2, ActMoves
  <2>2. /\ 1 \in DOMAIN creating
        /\ \A i \in DOMAIN creating' :
              i + 1 \in DOMAIN creating /\ creating'[i] = creating[i + 1] /\ i + 1 # 1
    BY <1>1, <2>1, PlanShrinks
  <2>3. \A i \in DOMAIN creating' :
          creating'[i].cluster # creating[1].cluster /\ creating'[i].cluster \notin Upgrading
    BY <2>2 DEF PlanInv, ExclusiveInv
  <2>4. creating[1].cluster \notin Upgrading
    BY <2>2 DEF ExclusiveInv
  <2>5. \A p \in policies : p.cluster \in Upgrading
    BY DEF Upgrading
  <2>6. \/ (policies' = policies /\ Upgrading' = Upgrading)
        \/ (/\ policies' = policies \cup {creating[1]}
            /\ Upgrading' = Upgrading \cup {creating[1].cluster})
    BY <1>2, ActParts
  <2> QED BY <2>3, <2>4, <2>5, <2>6 DEF ExclusiveInv
<1>3. ASSUME creating' = creating \/ creating' = <<>>, policies' \in SUBSET policies
      PROVE  ExclusiveInv'
  BY <1>3 DEF ExclusiveInv, Upgrading
<1>4. ASSUME NEW c \in left, Consider(c), policies' = policies PROVE ExclusiveInv'
  <2>1. c \in Cluster /\ specs \in Listings
    BY <1>4 DEF PhaseInv, Consider, TypeOK
  <2>2. ASSUME NEW p \in Policies, creating' = Append(creating, p), Planable(p, c)
        PROVE  ExclusiveInv'
    <3>1. \A i \in DOMAIN creating' :
            \/ (i \in DOMAIN creating /\ creating'[i] = creating[i])
            \/ creating'[i] = p
      BY <1>1, <2>2, PlanGrows
    <3>2. p.cluster \notin Upgrading
      BY <1>4, <2>2, PlannedIsNew DEF Planable
    <3> QED BY <1>4, <3>1, <3>2 DEF ExclusiveInv, Upgrading
  <2> QED BY <1>1, <1>3, <1>4, <2>1, <2>2, ConsiderMoves
<1>5. ASSUME NEW p \in policies, Upgrade(p) PROVE ExclusiveInv'
  BY <1>3, <1>5 DEF Upgrade, run
<1> QED BY <1>2, <1>3, <1>4, <1>5, PoliciesMove, PlanMoves
-----------------------------------------------------------------------------
(* Publishers. *)

\* Whatever is planned was planned before, or is planned now.
LEMMA EntriesMove ==
    ASSUME TypeOK, PhaseInv, Next, NEW i \in DOMAIN creating'
    PROVE  \/ \E j \in DOMAIN creating : creating'[i] = creating[j]
           \/ \E c \in left : \E p \in Policies :
                 Consider(c) /\ Planable(p, c) /\ creating'[i] = p
<1>1. creating \in Seq(Policies)
  BY DEF TypeOK
<1>2. CASE Act
  <2>1. creating # <<>> /\ creating' = Tail(creating)
    BY <1>1, <1>2, ActMoves
  <2> QED BY <1>1, <2>1, PlanShrinks
<1>3. CASE creating' = <<>>
  BY <1>3
<1>4. ASSUME NEW c \in left, Consider(c)
      PROVE  \/ \E j \in DOMAIN creating : creating'[i] = creating[j]
             \/ \E p \in Policies : Planable(p, c) /\ creating'[i] = p
  <2>1. c \in Cluster /\ specs \in Listings
    BY <1>4 DEF PhaseInv, Consider, TypeOK
  <2>2. ASSUME NEW p \in Policies, creating' = Append(creating, p)
        PROVE  (\E j \in DOMAIN creating : creating'[i] = creating[j]) \/ creating'[i] = p
    BY <1>1, <2>2, PlanGrows
  <2> QED BY <1>1, <1>4, <2>1, <2>2, ConsiderMoves
<1> QED BY <1>2, <1>3, <1>4, PlanMoves

\* A new policy is one that is planned.
LEMMA NewPolicy ==
    ASSUME TypeOK, PlanInv, Next, NEW p \in NewPolicies
    PROVE  /\ \E i \in DOMAIN creating : p = creating[i]
           /\ version' = version /\ stats' = stats /\ ran' = ran
           /\ p.target = "cluster" => p.cluster \notin Upgrading
<1>1. CASE Act
  <2>1. creating # <<>> /\ creating' = Tail(creating) /\ UNCHANGED <<version, history, ran>>
    BY <1>1, ActMoves DEF TypeOK
  <2>2. 1 \in DOMAIN creating
    BY <2>1, PlanShrinks DEF TypeOK
  <2>3. p = creating[1]
    BY <1>1, ActParts DEF NewPolicies
  <2> QED BY <2>1, <2>2, <2>3 DEF history, PlanInv
<1>2. Act
  BY PoliciesMove DEF NewPolicies, Upgrade
<1> QED BY <1>1, <1>2

\* What is known of an organization is not newer than what its clusters have.
StatsInv ==
    \A o \in Orgs : \A w \in Workload : stats[o][w] # NoVersion =>
        \A d \in With(w, ClustersOf(o)) : stats[o][w] <= version[d]

\* What is planned honours what is known of the publishers.
PublishInv ==
    \A i \in DOMAIN creating :
        creating[i].target = "cluster" /\ SectorOf[creating[i].cluster] # None =>
            \A d \in Cluster : \A w \in Workloads[creating[i].cluster] \cap Workloads[d] :
                /\ OrgOf[d] \in InheritsFrom[OrgOf[creating[i].cluster]]
                /\ stats[OrgOf[d]][w] # NoVersion
                => creating[i].version <= version[d]

LEMMA StatsParts ==
    ASSUME TypeOK
    PROVE  \A o \in Orgs : \A w \in Workload :
              stats[o][w] # NoVersion => stats[o][w] \in Versions /\ stats[o][w] \in Int
<1>1. \A o \in Orgs : \A w \in Workload : stats[o][w] \in Versions \cup {NoVersion}
  BY DEF TypeOK
<1>2. \A v \in Versions : v \in Int
  BY Numbers
<1> QED BY <1>1, <1>2

LEMMA StatsStep ==
    ASSUME TypeOK, PhaseInv, AheadInv, ListingInv, StatsInv, Next
    PROVE  StatsInv'
<1>1. \A c \in Cluster : /\ version[c] \in Int /\ version'[c] \in Int /\ version[c] <= version'[c]
  BY VersionGrows, TypeParts
<1>2. SUFFICES ASSUME NEW o \in Orgs, NEW w \in Workload, stats'[o][w] # NoVersion,
                      NEW d \in With(w, ClustersOf(o))
               PROVE  stats'[o][w] <= version'[d]
  BY DEF StatsInv
<1>3. d \in Cluster
  BY DEF With, ClustersOf
<1>4. CASE stats'[o][w] = stats[o][w]
  <2>1. stats[o][w] <= version[d] /\ stats[o][w] \in Int
    BY <1>2, <1>4, StatsParts DEF StatsInv
  <2> QED BY <1>1, <1>3, <1>4, <2>1
<1>5. CASE UpdateHistory /\ o = org
  <2> DEFINE present == {specs.version[c] : c \in With(w, ClustersOf(o))}
  <2>1. specs \in Listings /\ specs.version[d] <= version[d]
    BY <1>3, <1>5 DEF UpdateHistory, PhaseInv, ListingInv
  <2>2. stats'[o] = Stats(specs, o)
    BY <1>5 DEF UpdateHistory, TypeOK
  <2>3. present \in SUBSET Versions /\ specs.version[d] \in present
    BY <2>1, ListingParts DEF With, ClustersOf
  <2>4. stats'[o][w] = Min(present)
    BY <2>2, <2>3 DEF Stats
  <2> HIDE DEF present
  <2>5. Min(present) \in Versions /\ Min(present) <= specs.version[d]
    BY <2>3, MinParts
  <2>6. Min(present) \in Int /\ specs.version[d] \in Int
    BY <1>3, <2>1, <2>5, VersionsAreNumbers, ListingParts
  <2> QED BY <1>1, <1>3, <2>1, <2>4, <2>5, <2>6
<1>6. stats' = stats \/ UpdateHistory
  BY HistoryMoves
<1>7. UpdateHistory /\ o # org => stats'[o] = stats[o]
  BY DEF UpdateHistory, TypeOK
<1> QED BY <1>4, <1>5, <1>6, <1>7

LEMMA InheritedHonoured ==
    ASSUME TypeOK, StatsInv, NEW c \in Cluster, NEW v \in Int, ValidAgainstInherited(c, v),
           NEW d \in Cluster, NEW w \in Workloads[c] \cap Workloads[d],
           OrgOf[d] \in InheritsFrom[OrgOf[c]], stats[OrgOf[d]][w] # NoVersion
    PROVE  v <= version[d]
<1> DEFINE o == OrgOf[c]
           S == {stats[q][w] : q \in Inherited(o)} \ {NoVersion}
<1>1. OrgOf[d] \in Orgs /\ w \in Workload
  BY UpgradesAssumption DEF Workload
<1>2. OrgOf[d] \in Inherited(o) /\ IsInherited(o, w) /\ stats[OrgOf[d]][w] \in S
  BY <1>1 DEF Inherited, IsInherited
<1>3. v <= InheritedMin(o, w)
  BY <1>1, <1>2 DEF ValidAgainstInherited
<1>4. S \in SUBSET Versions
  <2>1. Inherited(o) \in SUBSET Orgs
    BY UpgradesAssumption DEF Inherited
  <2> QED BY <1>1, <2>1, StatsParts
<1>5. Min(S) \in Versions /\ Min(S) <= stats[OrgOf[d]][w]
  BY <1>2, <1>4, MinParts
<1>6. Min(S) \in Int /\ stats[OrgOf[d]][w] \in Int /\ version[d] \in Int
  BY <1>1, <1>5, VersionsAreNumbers, StatsParts, TypeParts
<1>7. stats[OrgOf[d]][w] <= version[d]
  BY <1>1 DEF StatsInv, With, ClustersOf
<1>8. InheritedMin(o, w) = Min(S)
  BY DEF InheritedMin
<1> HIDE DEF S, o
<1> QED BY <1>3, <1>5, <1>6, <1>7, <1>8

LEMMA PublishStep ==
    ASSUME TypeOK, PhaseInv, AheadInv, StatsInv, PublishInv, Next
    PROVE  PublishInv'
<1>1. \A c \in Cluster : /\ version[c] \in Int /\ version'[c] \in Int /\ version[c] <= version'[c]
  BY VersionGrows, TypeParts
<1>2. CASE UpdateHistory
  <2>1. creating' = <<>>
    BY <1>2 DEF UpdateHistory, PhaseInv
  <2> QED BY <2>1 DEF PublishInv
<1>3. CASE stats' = stats
  <2>1. SUFFICES ASSUME NEW i \in DOMAIN creating', creating'[i].target = "cluster",
                        SectorOf[creating'[i].cluster] # None,
                        NEW d \in Cluster,
                        NEW w \in Workloads[creating'[i].cluster] \cap Workloads[d],
                        OrgOf[d] \in InheritsFrom[OrgOf[creating'[i].cluster]],
                        stats[OrgOf[d]][w] # NoVersion
                 PROVE  creating'[i].version <= version'[d]
    BY <1>3 DEF PublishInv
  <2>2. ASSUME NEW j \in DOMAIN creating, creating'[i] = creating[j]
        PROVE  creating'[i].version <= version'[d]
    <3>1. creating[j].version <= version[d]
      BY <2>1, <2>2 DEF PublishInv
    <3>2. creating[j].version \in Int
      BY TypeParts
    <3> QED BY <1>1, <2>2, <3>1, <3>2
  <2>3. ASSUME NEW c \in left, NEW p \in Policies, Consider(c), Planable(p, c), creating'[i] = p
        PROVE  creating'[i].version <= version'[d]
    <3>1. c \in Cluster /\ p.cluster = c /\ p.version \in Upgradeable(specs, c)
      BY <2>1, <2>3 DEF Planable, TypeOK
    <3>2. ValidAgainstInherited(c, p.version) /\ p.version \in Int
      BY <2>1, <2>3, <3>1 DEF Upgradeable, ConditionsMet
    <3>3. p.version <= version[d]
      BY <2>1, <2>3, <3>1, <3>2, InheritedHonoured
    <3> QED BY <1>1, <2>3, <3>2, <3>3
  <2> QED BY <2>2, <2>3, EntriesMove
<1> QED BY <1>2, <1>3, HistoryMoves
-----------------------------------------------------------------------------
(* Sectors. *)

\* The sectors in A, down each path that goes through sectors in B only.
OnPaths(A, B, f) == [s \in Sectors |->
    UNION {(IF d \in A THEN {d} ELSE {}) \cup (IF d \in B THEN f[d] ELSE {}) :
           d \in Dependencies[s]}]

\* The least function of sectors that is closed under this definition satisfies it.
LEMMA FirstOnPaths ==
    ASSUME NEW A, NEW B
    PROVE  \E f : f = OnPaths(A, B, f)
<1> DEFINE Above(f) == OnPaths(A, B, f)
           Families == [Sectors -> SUBSET Sectors]
           Closed == {f \in Families : \A s \in Sectors : Above(f)[s] \in SUBSET f[s]}
           least == [s \in Sectors |-> {d \in Sectors : \A f \in Closed : d \in f[s]}]
<1>1. \A s \in Sectors : Dependencies[s] \in SUBSET Sectors
  BY UpgradesAssumption
<1>2. ASSUME NEW f \in Families PROVE Above(f) \in Families
  BY <1>1 DEF OnPaths
<1>3. ASSUME NEW f \in Families, NEW g \in Families, \A s \in Sectors : f[s] \in SUBSET g[s],
             NEW s \in Sectors
      PROVE  Above(f)[s] \in SUBSET Above(g)[s]
  BY <1>1, <1>3 DEF OnPaths
<1>4. least \in Families
  OBVIOUS
<1>5. \A f \in Closed : f \in Families /\ \A s \in Sectors : Above(f)[s] \in SUBSET f[s]
  OBVIOUS
<1>6. \A f \in Closed : \A s \in Sectors : least[s] \in SUBSET f[s]
  OBVIOUS
<1> HIDE DEF Above
<1>7. \A f \in Closed : \A s \in Sectors : Above(least)[s] \in SUBSET f[s]
  <2> HIDE DEF least, Closed, Families
  <2>1. ASSUME NEW f \in Closed, NEW s \in Sectors PROVE Above(least)[s] \in SUBSET f[s]
    <3>1. Above(least)[s] \in SUBSET Above(f)[s]
      BY <1>3, <1>4, <1>5, <1>6
    <3> QED BY <1>5, <3>1
  <2> QED BY <2>1
<1>8. \A s \in Sectors : Above(least)[s] \in SUBSET least[s]
  <2>1. \A s \in Sectors : Above(least)[s] \in SUBSET Sectors
    BY <1>2, <1>4
  <2> QED BY <1>7, <2>1
<1>9. Above(least) \in Closed
  <2>1. \A s \in Sectors : Above(Above(least))[s] \in SUBSET Above(least)[s]
    <3> HIDE DEF least, Families
    <3> QED BY <1>2, <1>3, <1>4, <1>8
  <2>2. Above(least) \in Families
    BY <1>2, <1>4
  <2> HIDE DEF least
  <2> QED BY <2>1, <2>2
<1>10. \A s \in Sectors : least[s] \in SUBSET Above(least)[s]
  <2> HIDE DEF least
  <2> QED BY <1>6, <1>9
<1>11. \A s \in Sectors : least[s] = Above(least)[s]
  <2> HIDE DEF least
  <2> QED BY <1>8, <1>10
<1>12. least = Above(least)
  <2>1. least \in Families /\ Above(least) \in Families
    BY <1>2, <1>4
  <2> HIDE DEF least
  <2> QED BY <1>11, <2>1
<1> HIDE DEF least
<1> QED BY <1>12 DEF Above

LEMMA UpstreamParts ==
    \A s \in Sectors :
        Upstream[s] = Dependencies[s] \cup UNION {Upstream[d] : d \in Dependencies[s]}
<1> DEFINE Above(f) == [s \in Sectors |-> Dependencies[s] \cup UNION {f[d] : d \in Dependencies[s]}]
<1>1. PICK f : f = OnPaths(Sectors, Sectors, f)
  BY FirstOnPaths
<1>2. \A s \in Sectors : Dependencies[s] \in SUBSET Sectors
  BY UpgradesAssumption
<1>3. ASSUME NEW s \in Sectors
      PROVE  UNION {(IF d \in Sectors THEN {d} ELSE {}) \cup (IF d \in Sectors THEN f[d] ELSE {}) :
                    d \in Dependencies[s]}
             = Dependencies[s] \cup UNION {f[d] : d \in Dependencies[s]}
  BY <1>2
<1>4. f = Above(f)
  BY <1>1, <1>3 DEF OnPaths
<1>5. \E g : g = Above(g)
  BY <1>4
<1>6. Upstream = Above(Upstream)
  BY <1>5 DEF Upstream
<1> QED BY <1>6

LEMMA DependenciesParts ==
    ASSUME NEW w
    PROVE  \A s \in Sectors :
              SectorDependencies(w, s) =
                  UNION {IF With(w, InSector(d)) # {} THEN {d} ELSE SectorDependencies(w, d) :
                         d \in Dependencies[s]}
<1> DEFINE Above(f) == [s \in Sectors |->
              UNION {IF With(w, InSector(d)) # {} THEN {d} ELSE f[d] : d \in Dependencies[s]}]
           nearest == CHOOSE f : f = Above(f)
           A == {d \in Sectors : With(w, InSector(d)) # {}}
           B == Sectors \ A
<1>1. PICK f : f = OnPaths(A, B, f)
  <2> HIDE DEF A, B
  <2> QED BY FirstOnPaths
<1>2. \A s \in Sectors : Dependencies[s] \in SUBSET Sectors
  BY UpgradesAssumption
<1>3. ASSUME NEW s \in Sectors
      PROVE  UNION {(IF d \in A THEN {d} ELSE {}) \cup (IF d \in B THEN f[d] ELSE {}) :
                    d \in Dependencies[s]}
             = UNION {IF With(w, InSector(d)) # {} THEN {d} ELSE f[d] : d \in Dependencies[s]}
  BY <1>2
<1>4. f = Above(f)
  BY <1>1, <1>3 DEF OnPaths
<1>5. nearest = Above(nearest)
  BY <1>4
<1>6. \A s : SectorDependencies(w, s) = nearest[s]
  BY DEF SectorDependencies
<1> HIDE DEF nearest
<1>7. \A s \in Sectors :
        nearest[s] = UNION {IF With(w, InSector(d)) # {} THEN {d} ELSE nearest[d] : d \in Dependencies[s]}
  BY <1>5
<1> QED BY <1>6, <1>7

\* On the way to any sector upstream that has the workload is a first dependency.
LEMMA FirstOnTheWay ==
    ASSUME NEW w, NEW s \in Sectors, NEW d \in Upstream[s], With(w, InSector(d)) # {}
    PROVE  \E f \in SectorDependencies(w, s) :
              /\ With(w, InSector(f)) # {} /\ f \in Sectors
              /\ f = d \/ d \in Upstream[f]
<1> DEFINE Good(t) == \E f \in SectorDependencies(w, t) :
               /\ With(w, InSector(f)) # {} /\ f \in Sectors
               /\ f = d \/ d \in Upstream[f]
           Bad == {t \in Sectors : d \in Upstream[t] /\ ~Good(t)}
<1>1. ASSUME Bad # {} PROVE FALSE
  <2>1. PICK t \in Bad : \A e \in Dependencies[t] : e \notin Bad
    BY <1>1, LowestSector
  <2>2. t \in Sectors /\ d \in Upstream[t] /\ ~Good(t)
    BY <2>1
  <2>3. PICK e \in Dependencies[t] : e = d \/ d \in Upstream[e]
    <3>1. Upstream[t] = Dependencies[t] \cup UNION {Upstream[e] : e \in Dependencies[t]}
      BY <2>2, UpstreamParts
    <3> HIDE DEF Good
    <3> QED BY <2>2, <3>1
  <2>4. e \in Sectors
    BY <2>2, UpgradesAssumption
  <2>5. SectorDependencies(w, t) =
          UNION {IF With(w, InSector(x)) # {} THEN {x} ELSE SectorDependencies(w, x) :
                 x \in Dependencies[t]}
    BY <2>2, DependenciesParts
  <2>6. CASE With(w, InSector(e)) # {}
    <3>1. e \in SectorDependencies(w, t)
      BY <2>5, <2>6
    <3> QED BY <2>2, <2>3, <2>4, <2>6, <3>1
  <2>7. CASE With(w, InSector(e)) = {}
    <3>1. \A x \in SectorDependencies(w, e) : x \in SectorDependencies(w, t)
      BY <2>5, <2>7
    <3>2. d \in Upstream[e]
      BY <2>3, <2>7
    <3>3. Good(e)
      BY <2>1, <2>4, <3>2
    <3> QED BY <2>2, <3>1, <3>3
  <2> QED BY <2>6, <2>7
<1>2. Good(s)
  BY <1>1
<1> QED BY <1>2

\* A cluster is not ahead of those upstream, nor is its upgrade, nor what is planned.
SectorInv ==
    \A c \in Cluster : SectorOf[c] # None =>
        \A d \in Cluster : \A w \in Workloads[c] \cap Workloads[d] :
            SectorOf[d] \in Upstream[SectorOf[c]] =>
                /\ version[c] <= version[d]
                /\ \A p \in policies : p.cluster = c => p.version <= version[d]
                /\ \A i \in DOMAIN creating :
                      creating[i].cluster = c => creating[i].version <= version[d]

\* What a cluster may be upgraded to, all those upstream have.
LEMMA SectorsHonoured ==
    ASSUME TypeOK, PhaseInv, ListingInv, SectorInv, phase # "idle",
           NEW c \in Cluster, SectorOf[c] # None, NEW v \in Int, SectorsAllow(specs, c, v),
           NEW d \in Cluster, NEW w \in Workloads[c] \cap Workloads[d],
           SectorOf[d] \in Upstream[SectorOf[c]]
    PROVE  v <= version[d]
<1>1. SectorOf[c] \in Sectors
  BY UpgradesAssumption
<1>2. d \in With(w, InSector(SectorOf[d]))
  BY DEF With, InSector
<1>3. PICK f \in SectorDependencies(w, SectorOf[c]) :
        /\ With(w, InSector(f)) # {} /\ f \in Sectors
        /\ f = SectorOf[d] \/ SectorOf[d] \in Upstream[f]
  BY <1>1, <1>2, FirstOnTheWay
<1>4. PICK e \in With(w, InSector(f)) : f = SectorOf[d] => e = d
  BY <1>2, <1>3
<1>5. e \in Cluster /\ w \in Workloads[e] /\ SectorOf[e] = f /\ f # None
  BY <1>3, <1>4, UpgradesAssumption DEF With, InSector
<1>6. specs.version[e] >= v
  BY <1>3, <1>4 DEF SectorsAllow
<1>7. specs.version[e] <= version[e]
  BY <1>5 DEF ListingInv
<1>8. specs.version[e] \in Int /\ version[e] \in Int /\ version[d] \in Int
  BY <1>5, ListingParts, TypeParts DEF PhaseInv
<1>9. e = d \/ version[e] <= version[d]
  BY <1>3, <1>4, <1>5 DEF SectorInv
<1> QED BY <1>6, <1>7, <1>8, <1>9

LEMMA SectorStep ==
    ASSUME TypeOK, PhaseInv, AheadInv, ListingInv, SectorInv, Next
    PROVE  SectorInv'
<1>1. \A c \in Cluster : /\ version[c] \in Int /\ version'[c] \in Int /\ version[c] <= version'[c]
  BY VersionGrows, TypeParts
<1>2. SUFFICES ASSUME NEW c \in Cluster, SectorOf[c] # None, NEW d \in Cluster,
                      NEW w \in Workloads[c] \cap Workloads[d],
                      SectorOf[d] \in Upstream[SectorOf[c]]
               PROVE  /\ version'[c] <= version'[d]
                      /\ \A p \in policies' : p.cluster = c => p.version <= version'[d]
                      /\ \A i \in DOMAIN creating' :
                            creating'[i].cluster = c => creating'[i].version <= version'[d]
  BY DEF SectorInv
<1>3. /\ version[c] <= version[d]
      /\ \A p \in policies : p.cluster = c => p.version <= version[d]
      /\ \A i \in DOMAIN creating : creating[i].cluster = c => creating[i].version <= version[d]
  BY <1>2 DEF SectorInv
<1>4. version'[c] <= version'[d]
  <2>1. ASSUME NEW p \in policies, p.cluster = c, version'[c] = p.version
        PROVE  version'[c] <= version[d]
    BY <1>3, <2>1
  <2>2. version'[c] <= version[d]
    BY <1>2, <1>3, <2>1, VersionGrows
  <2> QED BY <1>1, <2>2
<1>5. ASSUME NEW p \in policies', p.cluster = c PROVE p.version <= version'[d]
  <2>1. p.version <= version[d] /\ p.version \in Int
    <3>1. CASE p \in policies
      BY <1>3, <1>5, <3>1, TypeParts
    <3>2. CASE p \notin policies
      <4>1. Act
        BY <1>5, <3>2, PoliciesMove DEF Upgrade
      <4>2. creating \in Seq(Policies)
        BY DEF TypeOK
      <4>3. creating # <<>> /\ creating' = Tail(creating)
        BY <4>1, <4>2, ActMoves
      <4>4. 1 \in DOMAIN creating /\ Head(creating) = creating[1]
        BY <4>2, <4>3, PlanShrinks
      <4>5. p = creating[1]
        BY <1>5, <3>2, <4>1, <4>2, <4>4, ActMoves
      <4> QED BY <1>3, <1>5, <4>4, <4>5, TypeParts
    <3> QED BY <3>1, <3>2
  <2> QED BY <1>1, <2>1
<1>6. ASSUME NEW i \in DOMAIN creating', creating'[i].cluster = c
      PROVE  creating'[i].version <= version'[d]
  <2>1. ASSUME NEW j \in DOMAIN creating, creating'[i] = creating[j]
        PROVE  creating'[i].version <= version'[d]
    <3>1. creating[j].version <= version[d] /\ creating[j].version \in Int
      BY <1>3, <1>6, <2>1, TypeParts
    <3> QED BY <1>1, <2>1, <3>1
  <2>2. ASSUME NEW b \in left, NEW p \in Policies, Consider(b), Planable(p, b), creating'[i] = p
        PROVE  creating'[i].version <= version'[d]
    <3>1. b = c /\ phase # "idle" /\ specs \in Listings
      BY <1>6, <2>2 DEF Planable, Consider, PhaseInv
    <3>2. p.version \in Int /\ specs.version[c] \in Int
      BY <3>1, ListingParts, VersionsAreNumbers DEF Policies
    <3>3. CASE p.version = specs.version[c]
      <4>1. specs.version[c] <= version[c]
        BY <3>1 DEF ListingInv
      <4> QED BY <1>1, <1>3, <2>2, <3>2, <3>3, <4>1
    <3>4. CASE p.version \in Upgradeable(specs, c)
      <4>1. SectorsAllow(specs, c, p.version)
        BY <1>2, <3>4 DEF Upgradeable, ConditionsMet
      <4>2. p.version <= version[d]
        BY <1>2, <3>1, <3>2, <4>1, SectorsHonoured
      <4> QED BY <1>1, <2>2, <3>2, <4>2
    <3> QED BY <2>2, <3>1, <3>3, <3>4 DEF Planable
  <2> QED BY <2>1, <2>2, EntriesMove
<1> QED BY <1>4, <1>5, <1>6
-----------------------------------------------------------------------------
(* Soak days. *)

\* What summing up does, one element after the other.
Adding(h, S, g) == [s \in SUBSET S |->
    IF s = {} THEN 0 ELSE h[CHOOSE x \in s : TRUE] + g[s \ {CHOOSE x \in s : TRUE}]]

\* The sum of a finite set of numbers exists: a largest set of subsets for which it does
\* is closed, so that a smallest subset for which it does not could be added to it.
LEMMA SumExists ==
    ASSUME NEW S, IsFiniteSet(S), NEW h
    PROVE  \E g : g = Adding(h, S, g)
<1> DEFINE first(s) == CHOOSE x \in s : TRUE
           add(s, g) == IF s = {} THEN 0 ELSE h[first(s)] + g[s \ {first(s)}]
           Sums(D) == \E g : \A s \in D : g[s] = add(s, g)
           Closed(D) == \A s \in D : \A x \in s : s \ {x} \in D
           Left == {U \in SUBSET SUBSET S : Closed((SUBSET S) \ U) /\ Sums((SUBSET S) \ U)}
<1>1. SUBSET S \in Left
  <2>1. (SUBSET S) \ (SUBSET S) = {}
    OBVIOUS
  <2> QED BY <2>1
<1>2. IsFiniteSet(SUBSET S)
  BY FS_SUBSET
<1>3. PICK U \in Left : \A t \in U : U \ {t} \notin Left
  <2>1. Left \in SUBSET SUBSET SUBSET S /\ Left # {}
    BY <1>1
  <2> HIDE DEF Left
  <2> QED BY <1>2, <2>1, FiniteMinimum
<1>4. U \in SUBSET SUBSET S /\ Closed((SUBSET S) \ U) /\ Sums((SUBSET S) \ U)
  BY <1>3
<1>5. ASSUME U # {} PROVE FALSE
  <2>1. PICK t \in U : \A x \in t : t \ {x} \notin U
    <3>1. U \in SUBSET SUBSET S
      BY <1>4
    <3> QED BY <1>5, <3>1, FiniteMinimum
  <2>2. \A x \in t : t \ {x} \in (SUBSET S) \ U
    BY <1>4, <2>1
  <2>3. (SUBSET S) \ (U \ {t}) = ((SUBSET S) \ U) \cup {t}
    BY <1>4, <2>1
  <2>4. Closed((SUBSET S) \ (U \ {t}))
    BY <1>4, <2>2, <2>3
  <2>5. Sums((SUBSET S) \ (U \ {t}))
    <3>1. PICK g : \A s \in (SUBSET S) \ U : g[s] = add(s, g)
      BY <1>4
    <3> DEFINE k == [s \in SUBSET S |-> IF s = t THEN add(t, g) ELSE g[s]]
    <3>2. t \in SUBSET S /\ t \notin (SUBSET S) \ U
      BY <1>4, <2>1
    <3>3. \A s : s # {} => first(s) \in s
      OBVIOUS
    <3>4. \A s \in (SUBSET S) \ U : k[s] = g[s]
      BY <3>2
    <3>5. k[t] = add(t, g)
      BY <3>2
    <3> HIDE DEF k, first
    <3>6. ASSUME NEW s \in ((SUBSET S) \ U) \cup {t}, s # {}
          PROVE  k[s \ {first(s)}] = g[s \ {first(s)}]
      BY <1>4, <2>2, <3>3, <3>4, <3>6
    <3>7. \A s \in ((SUBSET S) \ U) \cup {t} : add(s, k) = add(s, g)
      BY <3>6
    <3>8. \A s \in ((SUBSET S) \ U) \cup {t} : k[s] = add(s, k)
      BY <3>1, <3>4, <3>5, <3>7
    <3> QED BY <2>3, <3>8
  <2> QED BY <1>3, <1>4, <2>1, <2>4, <2>5
<1>6. PICK g : \A s \in SUBSET S : g[s] = add(s, g)
  BY <1>4, <1>5
<1>7. [s \in SUBSET S |-> g[s]] = Adding(h, S, [s \in SUBSET S |-> g[s]])
  <2> DEFINE k == [s \in SUBSET S |-> g[s]]
  <2>1. \A s \in SUBSET S : k[s] = g[s] /\ k[s \ {first(s)}] = g[s \ {first(s)}]
    OBVIOUS
  <2>2. \A s \in SUBSET S : k[s] = add(s, k)
    BY <1>6, <2>1
  <2> HIDE DEF k
  <2>3. k = [s \in SUBSET S |-> add(s, k)]
    BY <2>2 DEF k
  <2> QED BY <2>3 DEF k, Adding
<1> QED BY <1>7

AddsUp(g, days, O, w, v) ==
    /\ g[{}] = 0
    /\ \A s \in SUBSET O : s # {} =>
          g[s] = days[CHOOSE x \in s : TRUE][w][v] + g[s \ {CHOOSE x \in s : TRUE}]

LEMMA SumOfParts ==
    ASSUME NEW days, NEW O, IsFiniteSet(O), NEW w, NEW v
    PROVE  \E g : SumOf(days, O, w, v) = g[O] /\ AddsUp(g, days, O, w, v)
<1> DEFINE add(s, g) ==
               IF s = {} THEN 0
               ELSE days[CHOOSE x \in s : TRUE][w][v] + g[s \ {CHOOSE x \in s : TRUE}]
           sum == CHOOSE g : g = [s \in SUBSET O |-> add(s, g)]
           h == [q \in O |-> days[q][w][v]]
<1>1. SumOf(days, O, w, v) = sum[O]
  BY DEF SumOf, MapThenSumSet, MapThenFoldSet
<1>2. PICK g : g = Adding(h, O, g)
  <2> HIDE DEF h
  <2> QED BY SumExists
<1>3. \A s \in SUBSET O : s # {} => h[CHOOSE x \in s : TRUE] = days[CHOOSE x \in s : TRUE][w][v]
  OBVIOUS
<1>4. g = [s \in SUBSET O |-> add(s, g)]
  <2> HIDE DEF h
  <2> QED BY <1>2, <1>3 DEF Adding
<1>5. sum = [s \in SUBSET O |-> add(s, sum)]
  BY <1>4
<1> HIDE DEF sum
<1>6. sum[{}] = 0
  BY <1>5
<1>7. \A s \in SUBSET O : s # {} => sum[s] = add(s, sum)
  BY <1>5
<1> QED BY <1>1, <1>6, <1>7 DEF AddsUp

\* A sum of more is more.
LEMMA SumGrows ==
    ASSUME NEW few, NEW many, NEW O, IsFiniteSet(O), NEW w, NEW v,
           \A q \in O : few[q][w][v] \in Nat /\ many[q][w][v] \in Nat /\ few[q][w][v] <= many[q][w][v]
    PROVE  /\ SumOf(few, O, w, v) \in Nat /\ SumOf(many, O, w, v) \in Nat
           /\ SumOf(few, O, w, v) <= SumOf(many, O, w, v)
<1>1. PICK f : SumOf(few, O, w, v) = f[O] /\ AddsUp(f, few, O, w, v)
  BY SumOfParts
<1>2. PICK m : SumOf(many, O, w, v) = m[O] /\ AddsUp(m, many, O, w, v)
  BY SumOfParts
<1> DEFINE Good(s) == f[s] \in Nat /\ m[s] \in Nat /\ f[s] <= m[s]
           Bad == {s \in SUBSET O : ~Good(s)}
<1>3. ASSUME Bad # {} PROVE FALSE
  <2>1. PICK s \in Bad : \A x \in s : s \ {x} \notin Bad
    <3>1. Bad \in SUBSET SUBSET O
      OBVIOUS
    <3> HIDE DEF Bad
    <3> QED BY <1>3, <3>1, FiniteMinimum
  <2>2. s \in SUBSET O /\ ~Good(s)
    BY <2>1
  <2>3. s # {}
    <3>1. f[{}] = 0 /\ m[{}] = 0
      BY <1>1, <1>2 DEF AddsUp
    <3>2. Good({})
      BY <3>1
    <3> HIDE DEF Good
    <3> QED BY <2>2, <3>2
  <2> DEFINE x == CHOOSE y \in s : TRUE
  <2>4. x \in s /\ x \in O
    BY <2>2, <2>3
  <2>5. Good(s \ {x})
    BY <2>1, <2>2, <2>4
  <2>6. f[s] = few[x][w][v] + f[s \ {x}] /\ m[s] = many[x][w][v] + m[s \ {x}]
    BY <1>1, <1>2, <2>2, <2>3 DEF AddsUp
  <2> HIDE DEF x
  <2> QED BY <2>2, <2>4, <2>5, <2>6
<1>4. Good(O)
  BY <1>3
<1> QED BY <1>1, <1>2, <1>4

Running(s, o, w, v) == {c \in With(w, ClustersOf(o)) : s[c] = v}

\* No more soak days are counted, nor will be with what was listed or what is there,
\* than cluster days have been; a cluster only reports what it has, or has had.
SoakInv ==
    \A o \in Orgs : \A w \in Workload : \A v \in Versions :
        /\ \A c \in reporting[o][w][v] : v <= version[c]
        /\ soak[o][w][v] <= ran[o][w][v]
        /\ AtMost(soak[o][w][v] + age[o] * Cardinality(Running(version, o, w, v) \cap reporting[o][w][v]))
              <= ran[o][w][v]
        /\ phase # "idle" =>
              AtMost(soak[o][w][v]
                     + age[o] * Cardinality(Running(specs.version, o, w, v) \cap reporting[o][w][v]))
                <= ran[o][w][v]

\* What is planned has run for as long as the cluster asks for.
SoakedInv ==
    \A i \in DOMAIN creating : creating[i].target = "cluster" =>
        \A w \in Workloads[creating[i].cluster] :
            ran[OrgOf[creating[i].cluster]][w][creating[i].version]
            + SumOf(ran, InheritsFrom[OrgOf[creating[i].cluster]], w, creating[i].version)
                >= SoakDays[creating[i].cluster]

LEMMA SoakedStep ==
    ASSUME TypeOK, PhaseInv, SoakInv, SoakedInv, Next
    PROVE  SoakedInv'
<1>1. CASE DayPasses
  <2>1. creating' = <<>>
    BY <1>1 DEF DayPasses, PhaseInv, run
  <2> QED BY <2>1 DEF SoakedInv
<1>2. CASE ran' = ran
  <2>1. SUFFICES ASSUME NEW i \in DOMAIN creating', creating'[i].target = "cluster",
                        NEW w \in Workloads[creating'[i].cluster]
                 PROVE  ran[OrgOf[creating'[i].cluster]][w][creating'[i].version]
                        + SumOf(ran, InheritsFrom[OrgOf[creating'[i].cluster]], w, creating'[i].version)
                            >= SoakDays[creating'[i].cluster]
    BY <1>2 DEF SoakedInv
  <2>2. ASSUME NEW j \in DOMAIN creating, creating'[i] = creating[j]
        PROVE  ran[OrgOf[creating'[i].cluster]][w][creating'[i].version]
               + SumOf(ran, InheritsFrom[OrgOf[creating'[i].cluster]], w, creating'[i].version)
                   >= SoakDays[creating'[i].cluster]
    BY <2>1, <2>2 DEF SoakedInv
  <2>3. ASSUME NEW c \in left, NEW p \in Policies, Planable(p, c), creating'[i] = p
        PROVE  ran[OrgOf[creating'[i].cluster]][w][creating'[i].version]
               + SumOf(ran, InheritsFrom[OrgOf[creating'[i].cluster]], w, creating'[i].version)
                   >= SoakDays[creating'[i].cluster]
    <3> DEFINE o == OrgOf[c]  v == p.version  O == InheritsFrom[o]
    <3>1. c \in Cluster /\ p.cluster = c /\ v \in Upgradeable(specs, c) /\ v \in Versions
      BY <2>1, <2>3 DEF Planable, TypeOK, Policies
    <3>2. o \in Orgs /\ O \in SUBSET Orgs /\ w \in Workload /\ IsFiniteSet(O)
      BY <2>1, <2>3, <3>1, UpgradesAssumption, FS_Subset DEF Workload
    <3>3. TotalSoak(o, w, v) >= SoakDays[c]
      BY <2>1, <2>3, <3>1 DEF Upgradeable, ConditionsMet
    <3>4. \A q \in Orgs : soak[q][w][v] \in Nat /\ ran[q][w][v] \in Nat /\ soak[q][w][v] <= ran[q][w][v]
      BY <3>1, <3>2, DayTypes DEF SoakInv
    <3>5. /\ SumOf(soak, O, w, v) \in Nat /\ SumOf(ran, O, w, v) \in Nat
          /\ SumOf(soak, O, w, v) <= SumOf(ran, O, w, v)
      <4> HIDE DEF v, O
      <4> QED BY <3>2, <3>4, SumGrows
    <3>6. TotalSoak(o, w, v) = soak[o][w][v] \/ TotalSoak(o, w, v) = soak[o][w][v] + SumOf(soak, O, w, v)
      <4>1. soak[o][w][v] + 0 = soak[o][w][v]
        BY <3>2, <3>4
      <4> QED BY <4>1 DEF TotalSoak
    <3>7. SoakDays[c] \in Nat
      BY <3>1, UpgradesAssumption, Numbers
    <3>8. ran[o][w][v] + SumOf(ran, O, w, v) >= SoakDays[c]
      <4> HIDE DEF o, v, O
      <4> QED BY <3>2, <3>3, <3>4, <3>5, <3>6, <3>7
    <3> QED BY <2>3, <3>1, <3>8
  <2> QED BY <2>2, <2>3, EntriesMove
<1> QED BY <1>1, <1>2, RanMoves

LEMMA DaysOfFewer ==
    ASSUME NEW C \in SUBSET Cluster, NEW D \in SUBSET C, NEW b \in Nat, NEW a \in Nat
    PROVE  /\ Cardinality(C) \in Nat /\ Cardinality(D) \in Nat /\ Cardinality(D) <= Cardinality(C)
           /\ b + a * Cardinality(C) \in Nat /\ b + a * Cardinality(D) \in Nat
           /\ AtMost(b + a * Cardinality(C)) \in Int /\ AtMost(b + a * Cardinality(D)) \in Int
           /\ AtMost(b + a * Cardinality(D)) <= AtMost(b + a * Cardinality(C))
<1> DEFINE k == Cardinality(D)  n == Cardinality(C)
<1>1. k \in Nat /\ n \in Nat /\ k <= n
  BY SmallerCluster, ClusterSets
<1> HIDE DEF k, n
<1>2. a * k \in Nat /\ a * n \in Nat /\ a * k <= a * n
  BY <1>1
<1>3. b + a * k \in Nat /\ b + a * n \in Nat /\ b + a * k <= b + a * n
  BY <1>2
<1>4. AtMost(b + a * k) \in Days /\ AtMost(b + a * n) \in Days /\ AtMost(b + a * k) <= AtMost(b + a * n)
  BY <1>3, CapParts
<1>5. \A d \in Days : d \in Int
  BY Numbers
<1> QED BY <1>1, <1>3, <1>4, <1>5 DEF k, n

LEMMA RunningType ==
    ASSUME NEW s, NEW o, NEW w, NEW v
    PROVE  Running(s, o, w, v) \in SUBSET Cluster
BY DEF Running, With, ClustersOf

\* Nothing that is unchanged but the listing, and versions that no policy of the past
\* can bring back.
LEMMA SoakKept ==
    ASSUME TypeOK, PhaseInv, AheadInv, SoakInv, Next, UNCHANGED <<soak, reporting, age, ran>>
    PROVE  SoakInv'
<1>1. SUFFICES ASSUME NEW o \in Orgs, NEW w \in Workload, NEW v \in Versions
               PROVE  /\ \A c \in reporting[o][w][v] : v <= version'[c]
                      /\ soak[o][w][v] <= ran[o][w][v]
                      /\ AtMost(soak[o][w][v]
                                + age[o] * Cardinality(Running(version', o, w, v) \cap reporting[o][w][v]))
                            <= ran[o][w][v]
                      /\ phase' # "idle" =>
                            AtMost(soak[o][w][v]
                                   + age[o] * Cardinality(Running(specs'.version, o, w, v)
                                                          \cap reporting[o][w][v]))
                              <= ran[o][w][v]
  BY DEF SoakInv
<1> DEFINE R == reporting[o][w][v]  b == soak[o][w][v]  a == age[o]  r == ran[o][w][v]
<1>2. /\ \A c \in R : v <= version[c]
      /\ b <= r
      /\ AtMost(b + a * Cardinality(Running(version, o, w, v) \cap R)) <= r
      /\ phase # "idle" => AtMost(b + a * Cardinality(Running(specs.version, o, w, v) \cap R)) <= r
  BY DEF SoakInv
<1>3. R \in SUBSET Cluster /\ b \in Nat /\ a \in Nat /\ r \in Int
  BY DayTypes
<1>4. v \in Int /\ \A c \in Cluster : /\ version[c] \in Int /\ version'[c] \in Int /\ version[c] <= version'[c]
  BY VersionGrows, TypeParts, VersionsAreNumbers
<1> HIDE DEF R, b, a, r
<1>5. \A c \in R : v <= version'[c]
  BY <1>2, <1>3, <1>4
<1>6. Running(version', o, w, v) \cap R \in SUBSET (Running(version, o, w, v) \cap R)
  <2>1. \A c \in R : version'[c] = v => version[c] = v
    BY <1>2, <1>3, <1>4
  <2> QED BY <2>1 DEF Running
<1>7. Running(version, o, w, v) \cap R \in SUBSET Cluster
  BY <1>3
<1>8. AtMost(b + a * Cardinality(Running(version', o, w, v) \cap R)) <= r
  <2> DEFINE C == Running(version, o, w, v) \cap R  D == Running(version', o, w, v) \cap R
  <2> HIDE DEF C, D
  <2>1. C \in SUBSET Cluster /\ D \in SUBSET C
    BY <1>6, <1>7 DEF C, D
  <2>2. AtMost(b + a * Cardinality(C)) <= r
    BY <1>2 DEF C
  <2>3. /\ AtMost(b + a * Cardinality(C)) \in Int /\ AtMost(b + a * Cardinality(D)) \in Int
        /\ AtMost(b + a * Cardinality(D)) <= AtMost(b + a * Cardinality(C))
    BY <1>3, <2>1, DaysOfFewer
  <2>4. AtMost(b + a * Cardinality(D)) <= r
    BY <1>3, <2>2, <2>3
  <2> QED BY <2>4 DEF D
<1>9. phase' # "idle" => AtMost(b + a * Cardinality(Running(specs'.version, o, w, v) \cap R)) <= r
  <2>1. CASE phase' = "idle"
    BY <2>1
  <2>2. CASE phase # "idle" /\ specs' = specs
    BY <1>2, <2>2
  <2>3. CASE specs' = Listing
    <3>1. specs'.version = version
      BY <2>3 DEF Listing
    <3> QED BY <1>2, <3>1
  <2>4. phase' = "idle" \/ (phase # "idle" /\ specs' = specs) \/ specs' = Listing
    BY SpecsMove
  <2> QED BY <2>1, <2>2, <2>3, <2>4
<1> QED BY <1>2, <1>5, <1>8, <1>9 DEF R, b, a, r

\* What is counted, had been listed: it is no more than has passed.
LEMMA SoakCounted ==
    ASSUME TypeOK, PhaseInv, ListingInv, SoakInv, UpdateHistory
    PROVE  SoakInv'
<1>1. /\ phase = "history" /\ phase' = "upgrades" /\ org \in Orgs /\ specs \in Listings
      /\ specs' = specs /\ version' = version /\ ran' = ran
  BY DEF UpdateHistory, PhaseInv, ocm
<1>2. SUFFICES ASSUME NEW o \in Orgs, NEW w \in Workload, NEW v \in Versions
               PROVE  /\ \A c \in reporting'[o][w][v] : v <= version[c]
                      /\ soak'[o][w][v] <= ran[o][w][v]
                      /\ AtMost(soak'[o][w][v]
                                + age'[o] * Cardinality(Running(version, o, w, v) \cap reporting'[o][w][v]))
                            <= ran[o][w][v]
                      /\ AtMost(soak'[o][w][v]
                                + age'[o] * Cardinality(Running(specs.version, o, w, v)
                                                        \cap reporting'[o][w][v]))
                            <= ran[o][w][v]
  BY <1>1 DEF SoakInv
<1> DEFINE R == reporting[o][w][v]  b == soak[o][w][v]  a == age[o]  r == ran[o][w][v]
           new == Reports(specs, o, w, v)
<1>3. /\ \A c \in R : v <= version[c]
      /\ b <= r
      /\ AtMost(b + a * Cardinality(Running(version, o, w, v) \cap R)) <= r
      /\ AtMost(b + a * Cardinality(Running(specs.version, o, w, v) \cap R)) <= r
  BY <1>1 DEF SoakInv
<1>4. R \in SUBSET Cluster /\ b \in Nat /\ a \in Nat /\ r \in Int
  BY DayTypes
<1>5. CASE o # org
  <2>1. reporting'[o] = reporting[o] /\ soak'[o] = soak[o] /\ age'[o] = age[o]
    BY <1>5 DEF UpdateHistory, TypeOK
  <2> QED BY <1>3, <2>1
<1>6. CASE o = org
  <2>1. reporting'[o] = Reporting(specs, o) /\ soak'[o] = Soak(specs, o) /\ age'[o] = 0
    BY <1>6 DEF UpdateHistory, TypeOK
  <2>2. reporting'[o][w][v] = R \cup new
    BY <2>1 DEF Reporting
  <2>3. soak'[o][w][v] = AtMost(b + a * Cardinality(new \cap R))
    BY <2>1 DEF Soak
  <2>4. \A c \in new : c \in Cluster /\ specs.version[c] = v /\ v <= version[c]
    <3>1. \A c \in new : c \in Cluster /\ specs.version[c] = v
      BY DEF Reports, With, ClustersOf
    <3> QED BY <1>1, <3>1 DEF ListingInv
  <2>5. new \cap R \in SUBSET (Running(specs.version, o, w, v) \cap R)
    BY DEF Reports, Running
  <2> HIDE DEF R, b, a, r, new
  <2>6. Running(specs.version, o, w, v) \cap R \in SUBSET Cluster
    BY <1>4
  <2> DEFINE t == AtMost(b + a * Cardinality(new \cap R))
  <2>7. t <= r /\ t \in Days /\ t \in Nat
    <3> DEFINE C == Running(specs.version, o, w, v) \cap R  D == new \cap R
    <3>1. AtMost(b + a * Cardinality(C)) <= r
      BY <1>3
    <3>2. C \in SUBSET Cluster /\ D \in SUBSET C
      BY <2>5, <2>6
    <3> HIDE DEF C, D
    <3>3. /\ AtMost(b + a * Cardinality(C)) \in Int /\ AtMost(b + a * Cardinality(D)) \in Int
          /\ AtMost(b + a * Cardinality(D)) <= AtMost(b + a * Cardinality(C))
          /\ b + a * Cardinality(D) \in Nat
      BY <1>4, <3>2, DaysOfFewer
    <3>4. AtMost(b + a * Cardinality(D)) \in Days
      BY <3>3, CapParts
    <3>5. \A d \in Days : d \in Nat
      BY Numbers
    <3>6. AtMost(b + a * Cardinality(D)) <= r
      BY <1>4, <3>1, <3>3
    <3> QED BY <3>4, <3>5, <3>6 DEF D
  <2> HIDE DEF t
  <2>8. ASSUME NEW k \in Nat PROVE AtMost(t + 0 * k) <= r
    <3>1. t + 0 * k = t
      BY <2>7, <2>8
    <3>2. AtMost(t) <= t /\ AtMost(t) \in Days
      BY <2>7, CapParts
    <3>3. AtMost(t) \in Int
      BY <3>2, DaysAreNumbers
    <3>4. AtMost(t) <= r
      BY <1>4, <2>7, <3>2, <3>3
    <3> QED BY <3>1, <3>4
  <2>9. \A c \in R \cup new : v <= version[c]
    BY <1>3, <2>4
  <2>10. \A s : Running(s, o, w, v) \cap (R \cup new) \in SUBSET Cluster
    BY RunningType
  <2>11. \A s : Cardinality(Running(s, o, w, v) \cap (R \cup new)) \in Nat
    BY <2>10, ClusterSets
  <2>12. soak'[o][w][v] = t
    BY <2>3 DEF t
  <2> QED BY <2>1, <2>2, <2>7, <2>8, <2>9, <2>11, <2>12 DEF r
<1> QED BY <1>5, <1>6

LEMMA SoakPassed ==
    ASSUME TypeOK, PhaseInv, SoakInv, DayPasses
    PROVE  SoakInv'
<1>1. /\ phase' = "idle" /\ soak' = soak /\ reporting' = reporting /\ version' = version
  BY DEF DayPasses, run, ocm
<1>2. SUFFICES ASSUME NEW o \in Orgs, NEW w \in Workload, NEW v \in Versions
               PROVE  /\ \A c \in reporting[o][w][v] : v <= version[c]
                      /\ soak[o][w][v] <= ran'[o][w][v]
                      /\ AtMost(soak[o][w][v]
                                + age'[o] * Cardinality(Running(version, o, w, v) \cap reporting[o][w][v]))
                            <= ran'[o][w][v]
  BY <1>1 DEF SoakInv
<1> DEFINE R == reporting[o][w][v]  b == soak[o][w][v]  a == age[o]  r == ran[o][w][v]
           C == Running(version, o, w, v)
           n == Cardinality(C)  k == Cardinality(C \cap R)
<1>3. /\ \A c \in R : v <= version[c]
      /\ b <= r
      /\ AtMost(b + a * k) <= r
  BY DEF SoakInv
<1>4. b \in Nat /\ a \in Nat /\ r \in Nat /\ r \in Days
  BY DayTypes
<1>5. k \in Nat /\ n \in Nat /\ k <= n
  <2>1. C \in SUBSET Cluster
    BY RunningType
  <2> QED BY <2>1, SmallerCluster, ClusterSets
<1>6. age'[o] = AtMost(a + 1) /\ ran'[o][w][v] = AtMost(r + n)
  BY DEF DayPasses, Running
<1> HIDE DEF R, b, a, r, C, n, k
<1>7. AtMost(a + 1) \in Nat /\ AtMost(a + 1) <= a + 1
  <2>1. a + 1 \in Nat
    BY <1>4
  <2>2. AtMost(a + 1) \in Days /\ AtMost(a + 1) <= a + 1
    BY <2>1, CapParts
  <2> QED BY <2>2, Numbers
<1> DEFINE old == a * k  now == AtMost(a + 1) * k
<1>8. old \in Nat /\ now \in Nat /\ now <= old + k
  <2> DEFINE e == AtMost(a + 1)
  <2> HIDE DEF e
  <2>1. e \in Nat /\ e <= a + 1
    BY <1>7 DEF e
  <2>2. e * k <= (a + 1) * k
    BY <1>4, <1>5, <2>1
  <2>3. (a + 1) * k = a * k + k
    BY <1>4, <1>5
  <2>4. a * k \in Nat /\ e * k \in Nat
    BY <1>4, <1>5, <2>1
  <2> QED BY <2>2, <2>3, <2>4 DEF e
<1>9. AtMost(b + old) <= r
  BY <1>3
<1> HIDE DEF old, now
<1>10. AtMost(b + now) <= AtMost(r + n)
  <2>1. MaxSoak \in Nat
    BY Numbers
  <2>2. r <= MaxSoak
    BY <1>4, <2>1 DEF Days
  <2>3. CASE b + old <= MaxSoak
    <3>1. b + old <= r
      BY <1>4, <1>8, <1>9, <2>1, <2>3 DEF AtMost
    <3>2. b + now <= r + n
      BY <1>4, <1>5, <1>8, <3>1
    <3> QED BY <1>4, <1>5, <1>8, <2>1, <3>2 DEF AtMost
  <2>4. CASE ~(b + old <= MaxSoak)
    <3>1. MaxSoak <= r
      BY <1>4, <1>8, <1>9, <2>1, <2>4 DEF AtMost
    <3> QED BY <1>4, <1>5, <1>8, <2>1, <3>1 DEF AtMost
  <2> QED BY <2>3, <2>4
<1>11. b <= AtMost(r + n)
  <2>1. MaxSoak \in Nat /\ r <= MaxSoak
    BY <1>4, Numbers DEF Days
  <2> QED BY <1>3, <1>4, <1>5, <2>1 DEF AtMost
<1> QED BY <1>3, <1>6, <1>10, <1>11 DEF R, b, now, k, C

LEMMA SoakStep ==
    ASSUME TypeOK, PhaseInv, AheadInv, ListingInv, SoakInv, Next
    PROVE  SoakInv'
<1>1. CASE UpdateHistory
  BY <1>1, SoakCounted
<1>2. CASE DayPasses
  BY <1>2, SoakPassed
<1>3. CASE ~UpdateHistory /\ ~DayPasses
  <2>1. UNCHANGED <<soak, reporting, age, ran>>
    BY <1>3, HistoryMoves, RanMoves
  <2> QED BY <2>1, SoakKept
<1> QED BY <1>1, <1>2, <1>3
-----------------------------------------------------------------------------
(* Theorems. *)

\* Only soak days, sectors and publishers relate the parts; the rest says what a run
\* may rely on.
IInv ==
    /\ TypeOK /\ PhaseInv /\ ListingInv /\ AheadInv /\ PlanInv
    /\ MutexInv /\ SectorInv
    /\ StatsInv /\ PublishInv
    /\ SoakInv /\ SoakedInv

LEMMA SoakInit == ASSUME Init PROVE SoakInv
<1>1. 0 \in Days /\ 0 \in Nat
  BY Numbers DEF Days
<1>2. ASSUME NEW o \in Orgs, NEW w \in Workload, NEW v \in Versions
      PROVE  /\ \A c \in reporting[o][w][v] : v <= version[c]
             /\ soak[o][w][v] <= ran[o][w][v]
             /\ AtMost(soak[o][w][v]
                       + age[o] * Cardinality(Running(version, o, w, v) \cap reporting[o][w][v]))
                   <= ran[o][w][v]
  <2>1. soak[o][w][v] = 0 /\ ran[o][w][v] = 0 /\ age[o] = 0 /\ reporting[o][w][v] = {}
    BY DEF Init
  <2>2. Cardinality(Running(version, o, w, v) \cap {}) = 0
    BY FS_EmptySet
  <2>3. AtMost(0 + 0 * 0) <= 0
    BY <1>1, CapParts
  <2> QED BY <2>1, <2>2, <2>3
<1> QED BY <1>2 DEF Init, SoakInv

LEMMA MutexInit == ASSUME Init PROVE MutexInv
<1>1. Busy = {}
  BY DEF Init, Busy, Planned, Upgrading
<1>2. \A m : Sharing(Busy, m) = {} /\ \A s : Sharing(Busy \cap InSector(s), m) = {}
  BY <1>1 DEF Sharing
<1>3. \A m : \A s \in Sectors : Cardinality(Sharing(Busy \cap InSector(s), m)) <= AllowedParallel(s, m)
  BY <1>2, AllowedType, FS_EmptySet
<1> QED BY <1>2, <1>3 DEF MutexInv

LEMMA IInvInit == ASSUME Init PROVE IInv
<1>1. TypeOK
  BY TypeInit
<1>2. PhaseInv /\ ListingInv
  BY DEF Init, PhaseInv, ListingInv
<1>3. AheadInv
  BY DEF Init, AheadInv
<1>4. PlanInv
  BY DEF Init, PlanInv, Considering
<1>5. SectorInv
  <2>1. policies = {} /\ creating = <<>> /\ \A c \in Cluster : version[c] = 0
    BY DEF Init
  <2> QED BY <2>1 DEF SectorInv
<1>6. StatsInv /\ PublishInv /\ SoakedInv
  BY DEF Init, StatsInv, PublishInv, SoakedInv
<1> QED BY <1>1, <1>2, <1>3, <1>4, <1>5, <1>6, MutexInit, SoakInit DEF IInv

LEMMA IInvStays == ASSUME IInv, [Next]_vars PROVE IInv'
<1>1. CASE Next
  BY <1>1, TypeStep, PhaseStep, ListingStep, AheadStep, PlanStep, MutexStep, SectorStep,
     StatsStep, PublishStep, SoakStep, SoakedStep DEF IInv
<1>2. CASE UNCHANGED vars
  <2>1. /\ UNCHANGED <<version, pool, healthy, released, policies, soak, reporting, stats, age>>
        /\ UNCHANGED <<phase, todo, org, specs, seen, due, left, creating, ran, faults>>
    BY <1>2 DEF vars, ocm, history, run
  <2>2. TypeOK' /\ PhaseInv' /\ ListingInv' /\ AheadInv'
    BY <2>1 DEF IInv, TypeOK, PhaseInv, ListingInv, AheadInv
  <2>3. PlanInv' /\ MutexInv'
    BY <2>1 DEF IInv, PlanInv, MutexInv, Busy, Planned, Upgrading, Considering
  <2>4. SectorInv' /\ StatsInv' /\ PublishInv'
    BY <2>1 DEF IInv, SectorInv, StatsInv, PublishInv
  <2>5. SoakInv' /\ SoakedInv'
    BY <2>1 DEF IInv, SoakInv, SoakedInv
  <2> QED BY <2>2, <2>3, <2>4, <2>5 DEF IInv
<1> QED BY <1>1, <1>2

LEMMA IInvAlways == Spec => []IInv
<1>1. Init => IInv
  BY IInvInit
<1>2. IInv /\ [Next]_vars => IInv'
  BY IInvStays
<1> QED BY <1>1, <1>2, PTL DEF Spec

\* Every variable keeps its type: versions and days stay in their bounds, and a run is
\* in a phase, with a listing and an organization of the kind that phase has.
THEOREM TypeCorrect == Spec => []TypeOK
<1>1. IInv => TypeOK
  BY DEF IInv
<1> QED BY <1>1, IInvAlways, PTL

\* verify_max_upgrades_should_skip: among the clusters with an upgrade policy, a mutex
\* is held once in an organization by those without a maximum, and in a sector no more
\* often than it allows, though policies take effect long after the run.
THEOREM MutexesAreHeld == Spec => []MutexesHold
<1>1. ASSUME IInv PROVE MutexesHold
  <2>1. TypeOK /\ MutexInv
    BY <1>1 DEF IInv
  <2>2. ASSUME NEW m \in Mutex, NEW s \in Sectors, MaxParallel[s].unit # "none"
        PROVE  Cardinality(Sharing(Upgrading \cap InSector(s), m)) <= AllowedParallel(s, m)
    <3> DEFINE C == Sharing(Busy \cap InSector(s), m)  D == Sharing(Upgrading \cap InSector(s), m)
    <3>1. C \in SUBSET Cluster /\ D \in SUBSET C
      BY <2>1, PlannedParts DEF Sharing, Busy
    <3>2. Cardinality(C) <= AllowedParallel(s, m)
      BY <2>1, <2>2 DEF MutexInv
    <3> HIDE DEF C, D
    <3>3. Cardinality(D) <= Cardinality(C) /\ Cardinality(C) \in Nat /\ Cardinality(D) \in Nat
      BY <3>1, SmallerCluster, ClusterSets
    <3>4. AllowedParallel(s, m) \in Nat
      BY AllowedType
    <3>5. Cardinality(D) <= AllowedParallel(s, m)
      BY <3>2, <3>3, <3>4
    <3> QED BY <3>5 DEF D
  <2>3. \A m \in Mutex : \A c, d \in Sharing(Upgrading, m) :
          Unlimited(c) /\ Unlimited(d) /\ OrgOf[c] = OrgOf[d] => c = d
    BY <2>1 DEF MutexInv, Sharing, Busy
  <2> QED BY <2>2, <2>3 DEF MutexesHold, Mutex
<1> QED BY <1>1, IInvAlways, PTL

\* version_conditions_met: a cluster is at no time ahead of one in any sector upstream
\* with which it shares a workload, nor has it an upgrade policy that gets it there,
\* however many sectors without that workload are between them.
THEOREM SectorsAreInOrder == Spec => []SectorsInOrder
<1>1. IInv => SectorsInOrder
  BY DEF IInv, SectorInv, SectorsInOrder
<1> QED BY <1>1, IInvAlways, PTL

\* An upgrade is created only after its version has run, with each workload of the
\* cluster and as the clusters really ran, for the days that the cluster asks for.
THEOREM UpgradesAreSoaked == Spec => SoakedBeforeUpgrade
<1>1. ASSUME IInv, Next
      PROVE  \A p \in NewPolicies : p.target = "cluster" =>
                \A w \in Workloads[p.cluster] :
                    ran[OrgOf[p.cluster]][w][p.version]
                    + SumOf(ran, InheritsFrom[OrgOf[p.cluster]], w, p.version)
                        >= SoakDays[p.cluster]
  <2>1. TypeOK /\ PlanInv /\ SoakedInv
    BY <1>1 DEF IInv
  <2> QED BY <1>1, <2>1, NewPolicy DEF SoakedInv
<1>2. UNCHANGED vars => NewPolicies = {}
  BY DEF vars, NewPolicies
<1>3. IInv /\ [Next]_vars =>
        [\A p \in NewPolicies : p.target = "cluster" =>
            \A w \in Workloads[p.cluster] :
                ran[OrgOf[p.cluster]][w][p.version]
                + SumOf(ran, InheritsFrom[OrgOf[p.cluster]], w, p.version)
                    >= SoakDays[p.cluster]]_vars
  BY <1>1, <1>2
<1> QED BY <1>3, IInvAlways, PTL DEF Spec, SoakedBeforeUpgrade

\* An upgrade is created only if the clusters of the organizations whose history is
\* inherited, as far as that is known, have its version for the workloads they share.
THEOREM PublishersGoFirst == Spec => PublishersFirst
<1>1. ASSUME IInv, Next
      PROVE  \A p \in NewPolicies : p.target = "cluster" /\ SectorOf[p.cluster] # None =>
                \A d \in Cluster : \A w \in Workloads[p.cluster] \cap Workloads[d] :
                    /\ OrgOf[d] \in InheritsFrom[OrgOf[p.cluster]]
                    /\ stats[OrgOf[d]][w] # NoVersion
                    => p.version <= version[d]
  <2>1. TypeOK /\ PlanInv /\ PublishInv
    BY <1>1 DEF IInv
  <2> QED BY <1>1, <2>1, NewPolicy DEF PublishInv
<1>2. UNCHANGED vars => NewPolicies = {}
  BY DEF vars, NewPolicies
<1>3. IInv /\ [Next]_vars =>
        [\A p \in NewPolicies : p.target = "cluster" /\ SectorOf[p.cluster] # None =>
            \A d \in Cluster : \A w \in Workloads[p.cluster] \cap Workloads[d] :
                /\ OrgOf[d] \in InheritsFrom[OrgOf[p.cluster]]
                /\ stats[OrgOf[d]][w] # NoVersion
                => p.version <= version[d]]_vars
  BY <1>1, <1>2
<1> QED BY <1>3, IInvAlways, PTL DEF Spec, PublishersFirst

\* Where no sector with a hosted cluster lets the cluster's own mutex be held twice,
\* a cluster has one upgrade policy, and none is planned for one that has.
THEOREM UpgradesAreSingle == HostedAlone /\ Spec => []OneUpgradePerCluster
<1> SUFFICES ASSUME HostedAlone PROVE Spec => []OneUpgradePerCluster
  OBVIOUS
<1>1. Init => ExclusiveInv
  BY DEF Init, ExclusiveInv
<1>2. IInv /\ ExclusiveInv /\ [Next]_vars => ExclusiveInv'
  <2>1. ASSUME IInv, ExclusiveInv, UNCHANGED vars PROVE ExclusiveInv'
    BY <2>1 DEF vars, run, ExclusiveInv, Upgrading
  <2> QED BY <2>1, ExclusiveStep DEF IInv
<1>3. IInv /\ ExclusiveInv => OneUpgradePerCluster
  BY DEF IInv, PlanInv, ExclusiveInv, OneUpgradePerCluster
<1> QED BY <1>1, <1>2, <1>3, IInvAlways, PTL DEF Spec
=============================================================================
