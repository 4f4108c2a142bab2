------------------------- MODULE MergeQueue_proofs -------------------------
(***************************************************************************)
(* What the merge queue keeps to, for any merge requests with any tenants,   *)
(* any strategies and limits, and any number of merges of others, pushes,   *)
(* labels and faults.                                                       *)
(***************************************************************************)
EXTENDS MergeQueue, SequenceTheorems, FiniteSetTheorems, WellFoundedInduction, TLAPS

\* Only merges of others have the name of others.
HowInv == \A i \in 1..Tip : target[i].how = "external" <=> target[i].mr = External

\* A lead is merged, and since then nothing but its members and merges of others;
\* a run that merges without a group, or forms one, has none.
LeadInv ==
    /\ phase \in {"clear pending", "serial", "form"} => Leads = {}
    /\ phase \in {"group", "members", "apply"} => Leads # {}
    /\ Leads # {} => \E l \in 1..Tip :
        /\ Leads = {target[l].mr}
        /\ target[l].how = "lead"
        /\ \A j \in l + 1..Tip : target[j].how \in {"group", "external"}
    /\ phase = "form" => \A m \in MRs : FirstOf(todo, 1) = {m} =>
        \E l \in 1..Tip :
            /\ target[l].mr = m /\ target[l].how = "serial"
            /\ \A j \in l + 1..Tip : target[j].how = "external"

\* Without any lead so far, the pipeline of a merge request ran on what it is
\* rebased on.
TestedInv ==
    (\A i \in 1..Tip : target[i].how # "lead") => \A m \in MRs : ci[m].base = base[m]

\* The branch ends with a lead and its members.
TailIsGroup ==
    \E l \in 1..Tip : /\ target[l].how = "lead"
                      /\ \A j \in l + 1..Tip : target[j].how = "group"

\* A member that is still to be looked at is rebased only if that is so, and no
\* more once another one is merged.
MembersInv ==
    phase = "members" => \A m \in todo : base[m] = Tip => TailIsGroup /\ merges = 0

\* Which list a run still goes by, what of it is held, and what has been merged.
ListInv ==
    /\ phase = "group" => merges = 0
    /\ phase = "serial" \/ (phase \in {"clear", "clear pending"} /\ then = "serial") =>
        todo \subseteq queue /\ merges = 0
    /\ phase = "members" => todo \subseteq kept /\ kept \cap held \subseteq marked
    /\ held \subseteq Opened \cap HasLabel("hold")
    /\ held \cap queue = {}

\* No two of S are about the same tenant.
Apart(S) == \A m, n \in S : m # n => Tenants[m] \cap Tenants[n] = {}

ApartInv ==
    /\ phase \in {"serial", "form"} /\ Multi => Pending \cap Opened = {}
    /\ phase = "form" => Multi
    /\ phase = "members" => Pending \cap Opened \subseteq kept /\ Apart(kept)
    /\ phase = "apply" => Apart((Pending \cap Opened) \cup todo)
    /\ Apart(Pending \cap Opened)

IInv ==
    /\ TypeOK
    /\ HowInv /\ LeadInv /\ TestedInv /\ MembersInv /\ ListInv /\ ApartInv
    /\ SerialMergesAreTested /\ GroupMergesOnGroup /\ OneMergePerRun
-----------------------------------------------------------------------------
(* Lists of tenants. *)

LEMMA ConstantTypes ==
    /\ External \notin MRs /\ IsFiniteSet(MRs)
    /\ Rank \in [MRs -> Nat] /\ \A m, n \in MRs : Rank[m] = Rank[n] => m = n
BY MergeQueueAssumption

\* Of any sets of members of a finite set, some has no smaller one among them.
LEMMA FiniteMinimum ==
    ASSUME NEW S, IsFiniteSet(S), NEW F \in SUBSET SUBSET S, F # {}
    PROVE  \E T \in F : \A x \in T : T \ {x} \notin F
<1>1. F \subseteq FiniteSubsetsOf(S)
  BY FS_Subset DEF FiniteSubsetsOf
<1>2. PICK T \in F : \A U \in F : <<U, T>> \notin StrictSubsetOrdering(S)
  BY <1>1, FS_StrictSubsetOrderingWellFounded, WFMin
<1>3. ASSUME NEW x \in T, T \ {x} \in F PROVE FALSE
  BY <1>2, <1>3 DEF StrictSubsetOrdering
<1> QED BY <1>3

\* Some merge request comes last.
LEMMA LastOf ==
    ASSUME NEW S \in SUBSET MRs, S # {}
    PROVE  \E m \in S : \A n \in S : Rank[n] <= Rank[m]
<1> DEFINE Bad == {T \in SUBSET S : T # {} /\ ~\E m \in T : \A n \in T : Rank[n] <= Rank[m]}
<1> SUFFICES ASSUME Bad # {} PROVE FALSE
  BY DEF Bad
<1>1. IsFiniteSet(S)
  BY ConstantTypes, FS_Subset
<1>2. PICK T \in Bad : \A x \in T : T \ {x} \notin Bad
  BY <1>1, FiniteMinimum
<1>3. PICK x \in T : TRUE
  OBVIOUS
<1>4. \A n \in T : Rank[n] \in Nat
  BY ConstantTypes
<1>5. CASE T \ {x} = {}
  BY <1>3, <1>4, <1>5
<1>6. CASE T \ {x} # {}
  <2>1. PICK m \in T \ {x} : \A n \in T \ {x} : Rank[n] <= Rank[m]
    BY <1>2, <1>3, <1>6
  <2>2. CASE Rank[x] <= Rank[m]
    BY <2>1, <2>2
  <2>3. CASE Rank[m] <= Rank[x]
    BY <1>4, <2>1, <2>3
  <2> QED BY <1>3, <1>4, <2>1, <2>2, <2>3
<1> QED BY <1>5, <1>6

\* What of C comes before m.
Before(C, m) == {n \in C : Rank[n] < Rank[m]}

\* Going by the queue, C is what of S shares no tenant with what was taken before.
ByQueue(C, S, taken) ==
    \A m \in S : m \in C <=>
        Tenants[m] \cap (taken \cup TenantsOf(Before(C, m))) = {}

LEMMA ChosenExists ==
    ASSUME NEW S \in SUBSET MRs, NEW taken
    PROVE  \E C \in SUBSET S : ByQueue(C, S, taken)
<1> DEFINE Bad == {T \in SUBSET S : ~\E C \in SUBSET T : ByQueue(C, T, taken)}
<1> SUFFICES ASSUME Bad # {} PROVE FALSE
  BY DEF Bad
<1>1. IsFiniteSet(S)
  BY ConstantTypes, FS_Subset
<1>2. PICK T \in Bad : \A x \in T : T \ {x} \notin Bad
  BY <1>1, FiniteMinimum
<1>3. T # {}
  BY DEF ByQueue
<1>4. PICK m \in T : \A n \in T : Rank[n] <= Rank[m]
  BY <1>3, LastOf
<1>5. PICK C \in SUBSET (T \ {m}) : ByQueue(C, T \ {m}, taken)
  BY <1>2
<1> DEFINE free == Tenants[m] \cap (taken \cup TenantsOf(C)) = {}
           D == IF free THEN C \cup {m} ELSE C
<1>6. \A n \in T \ {m} : Rank[n] < Rank[m]
  BY <1>4, ConstantTypes
<1>7. ASSUME NEW n \in T
      PROVE  n \in D <=> Tenants[n] \cap (taken \cup TenantsOf(Before(D, n))) = {}
  <2>1. Rank[m] \in Nat /\ Rank[n] \in Nat /\ Rank[n] <= Rank[m]
    BY <1>4, ConstantTypes
  <2>2. CASE n = m
    <3>1. Before(D, n) = C
      BY <1>6, <2>1, <2>2 DEF Before
    <3> QED BY <2>2, <3>1
  <2>3. CASE n # m
    <3>1. Before(D, n) = Before(C, n)
      BY <2>1 DEF Before
    <3>2. n \in D <=> n \in C
      BY <2>3
    <3>3. n \in C <=> Tenants[n] \cap (taken \cup TenantsOf(Before(C, n))) = {}
      BY <1>5, <2>3 DEF ByQueue
    <3> HIDE DEF D
    <3> QED BY <3>1, <3>2, <3>3
  <2> QED BY <2>2, <2>3
<1>8. D \in SUBSET T /\ ByQueue(D, T, taken)
  BY <1>7 DEF ByQueue
<1> QED BY <1>8

\* What is chosen shares no tenant with what is taken, nor with each other.
LEMMA ChosenIsApart ==
    ASSUME NEW S \in SUBSET MRs, NEW taken
    PROVE  /\ Chosen(S, taken) \subseteq S
           /\ Apart(Chosen(S, taken))
           /\ \A m \in Chosen(S, taken) : Tenants[m] \cap taken = {}
<1> DEFINE C == Chosen(S, taken)
<1>1. C = CHOOSE X \in SUBSET S : ByQueue(X, S, taken)
  BY DEF Chosen, ByQueue, Before
<1>2. C \in SUBSET S /\ ByQueue(C, S, taken)
  BY <1>1, ChosenExists
<1> HIDE DEF C
<1>3. ASSUME NEW m \in C, NEW n \in C, Rank[n] < Rank[m] PROVE Tenants[m] \cap Tenants[n] = {}
  <2>1. Tenants[n] \subseteq TenantsOf(Before(C, m))
    BY <1>3 DEF TenantsOf, Before
  <2> QED BY <1>2, <2>1 DEF ByQueue
<1>4. Apart(C)
  <2> SUFFICES ASSUME NEW m \in C, NEW n \in C, m # n PROVE Tenants[m] \cap Tenants[n] = {}
    BY DEF Apart
  <2>1. Rank[m] < Rank[n] \/ Rank[n] < Rank[m]
    <3>1. Rank[m] \in Nat /\ Rank[n] \in Nat /\ Rank[m] # Rank[n]
      BY <1>2, ConstantTypes
    <3> QED BY <3>1
  <2>2. CASE Rank[n] < Rank[m]
    BY <1>3, <2>2
  <2>3. CASE Rank[m] < Rank[n]
    <3>1. Tenants[n] \cap Tenants[m] = {}
      BY <1>3, <2>3
    <3> QED BY <3>1
  <2> QED BY <2>1, <2>2, <2>3
<1>5. \A m \in C : Tenants[m] \cap taken = {}
  BY <1>2 DEF ByQueue
<1> QED BY <1>2, <1>4, <1>5 DEF C
-----------------------------------------------------------------------------
(* Types. *)

LEMMA TargetType ==
    ASSUME TypeOK
    PROVE  /\ target \in Seq(Merges) /\ Tip \in Nat /\ Tip = Len(target)
           /\ target \in [1..Tip -> Merges] /\ DOMAIN target = 1..Tip
BY LenProperties DEF TypeOK, Tip

\* The target branch after one more merge.
Grown(x) ==
    /\ target' \in Seq(Merges)
    /\ Tip' = Tip + 1
    /\ \A i \in 1..Tip : target'[i] = target[i]
    /\ target'[Tip + 1] = x

LEMMA Appended ==
    ASSUME TypeOK, NEW x \in Merges, target' = Append(target, x)
    PROVE  Grown(x)
BY TargetType, AppendProperties DEF Grown, Tip

\* The target branch with another way of what has been merged.
Relabelled(m) ==
    /\ target' \in Seq(Merges)
    /\ Tip' = Tip
    /\ \A i \in 1..Tip :
         /\ target'[i].mr = target[i].mr /\ target'[i].tested = target[i].tested
         /\ target'[i].how = IF target[i].mr = m THEN "lead" ELSE target[i].how

LEMMA LeadIsMarked ==
    ASSUME TypeOK, NEW m \in MRs,
           target' = [i \in DOMAIN target |->
              IF target[i].mr = m THEN [target[i] EXCEPT !.how = "lead"] ELSE target[i]]
    PROVE  Relabelled(m)
<1> DEFINE led(r) == [r EXCEPT !.how = "lead"]
<1>1. ASSUME NEW r \in Merges
      PROVE  /\ led(r) \in Merges /\ led(r).mr = r.mr /\ led(r).tested = r.tested
             /\ led(r).how = "lead"
  BY DEF Merges
<1>2. target' = [i \in 1..Tip |-> IF target[i].mr = m THEN led(target[i]) ELSE target[i]]
  BY TargetType
<1> HIDE DEF led
<1>3. \A i \in 1..Tip : target[i] \in Merges
  BY TargetType
<1>4. target' \in [1..Tip -> Merges]
  BY <1>1, <1>2, <1>3
<1>5. target' \in Seq(Merges) /\ Len(target') = Tip
  BY <1>4, TargetType, SeqDef
<1> QED BY <1>1, <1>2, <1>3, <1>5 DEF Tip, Relabelled

\* What is merged, and what is not.
LEMMA OpenedMeans ==
    ASSUME TypeOK, NEW m \in MRs
    PROVE  m \in Opened <=> \A i \in 1..Tip : target[i].mr # m
BY DEF Opened, Merged

\* The part of TypeOK about the target branch, and the rest of it.
TargetOK ==
    /\ target \in Seq(Merges)
    /\ \A i, j \in DOMAIN target :
        target[i].mr = target[j].mr => i = j \/ target[i].mr = External
    /\ base \in [MRs -> 0..Tip]
    /\ ci \in [MRs -> Pipelines]
    /\ \A m \in MRs : ci[m].base <= Tip

RunOK ==
    /\ windowOpen \in BOOLEAN /\ active \in BOOLEAN
    /\ strategy \in Strategies
    /\ phase \in {"idle", "start", "clear", "clear pending", "serial", "form", "apply",
                  "group", "members", "rebase"}
    /\ then \in {"serial", "rebase"}
    /\ queue \subseteq MRs /\ listed \subseteq MRs /\ todo \subseteq MRs
    /\ marked \subseteq kept /\ kept \subseteq MRs
    /\ merges \in Nat

LEMMA TypeParts ==
    TypeOK <=> /\ TargetOK /\ RunOK /\ labels \in [MRs -> SUBSET Labels]
               /\ passed \subseteq MRs
               /\ {held, withheld} \subseteq SUBSET MRs
               /\ {relabels, pushes, faults} \subseteq Nat
BY DEF TypeOK, TargetOK, RunOK

LEMMA NextTypeParts ==
    ASSUME TargetOK', RunOK', labels' \in [MRs -> SUBSET Labels],
           passed' \subseteq MRs, {held', withheld'} \subseteq SUBSET MRs,
           {relabels', pushes', faults'} \subseteq Nat
    PROVE  TypeOK'
BY DEF TypeOK, TargetOK, RunOK

LEMMA TargetStays ==
    ASSUME TypeOK, UNCHANGED target,
           base' \in [MRs -> 0..Tip], ci' \in [MRs -> Pipelines],
           \A m \in MRs : ci'[m].base <= Tip
    PROVE  TargetOK' /\ Tip' = Tip
BY DEF TypeOK, TargetOK, Tip

LEMMA TargetSame == ASSUME TypeOK, UNCHANGED <<target, base, ci>> PROVE TargetOK' /\ Tip' = Tip
BY TargetStays DEF TypeOK

LEMMA TargetGrows ==
    ASSUME TypeOK, NEW x \in Merges, target' = Append(target, x),
           x.mr = External \/ x.mr \in Opened, UNCHANGED <<base, ci>>
    PROVE  TargetOK'
<1>1. Grown(x) /\ Tip \in Nat /\ DOMAIN target = 1..Tip
  BY Appended, TargetType
<1>2. DOMAIN target' = 1..Tip + 1
  BY <1>1, LenProperties DEF Grown, Tip
<1>3. \A i \in 1..Tip : x.mr = External \/ target[i].mr # x.mr
  BY ConstantTypes, OpenedMeans DEF Opened
<1>4. ASSUME NEW i \in DOMAIN target', NEW j \in DOMAIN target', target'[i].mr = target'[j].mr
      PROVE  i = j \/ target'[i].mr = External
  <2>1. (i \in 1..Tip \/ i = Tip + 1) /\ (j \in 1..Tip \/ j = Tip + 1)
    BY <1>1, <1>2
  <2> QED BY <1>1, <1>3, <1>4, <2>1 DEF Grown, TypeOK
<1>5. base \in [MRs -> 0..Tip + 1] /\ \A m \in MRs : ci[m].base <= Tip + 1
  <2>1. \A m \in MRs : base[m] \in 0..Tip /\ ci[m].base <= Tip /\ ci[m].base \in Nat
    BY DEF TypeOK, Pipelines
  <2>2. base \in [MRs -> 0..Tip]
    BY DEF TypeOK
  <2> QED BY <1>1, <2>1, <2>2
<1> QED BY <1>1, <1>4, <1>5 DEF TargetOK, Grown, TypeOK

LEMMA TypeInit == ASSUME Init PROVE TypeOK
<1>1. target = <<>> /\ Tip = 0 /\ target \in Seq(Merges) /\ DOMAIN target = {}
  BY EmptySeq DEF Init, Tip
<1>2. TargetOK
  BY <1>1 DEF Init, TargetOK, Pipelines
<1>3. RunOK
  BY DEF Init, RunOK
<1> QED BY <1>2, <1>3, TypeParts DEF Init, Labels

\* Labels stay labels.
LEMMA LabelTypes ==
    ASSUME TypeOK, NEW S, NEW l \in Labels
    PROVE  Add(S, l) \in [MRs -> SUBSET Labels] /\ Remove(S, l) \in [MRs -> SUBSET Labels]
BY DEF TypeOK, Add, Remove

LEMMA LabelNames ==
    "lgtm" \in Labels /\ "hold" \in Labels /\ "error" \in Labels
    /\ "omm-group-lead" \in Labels /\ "omm-pending" \in Labels
BY DEF Labels

LEMMA FaultType == ASSUME TypeOK, Fault \/ UNCHANGED bounds PROVE {relabels', pushes', faults'} \subseteq Nat
<1>1. relabels \in Nat /\ pushes \in Nat /\ faults \in Nat
  BY DEF TypeOK
<1> QED BY <1>1 DEF Fault, bounds

\* The first of a list is in it.
LEMMA FirstOfIsIn == ASSUME NEW S, NEW k, NEW m, FirstOf(S, k) = {m} PROVE m \in S
BY DEF FirstOf

\* A candidate for a group is one of S.
LEMMA CandidatesAreApart ==
    ASSUME NEW S \in SUBSET MRs, NEW taken
    PROVE  /\ Candidates(S, taken) \subseteq S
           /\ Apart(Candidates(S, taken))
           /\ \A m \in Candidates(S, taken) : Tenants[m] \cap taken = {}
<1>1. {m \in S : Tenants[m] # {} /\ ci[m].status # "failed"} \in SUBSET MRs
  OBVIOUS
<1> QED BY <1>1, ChosenIsApart DEF Candidates

\* A merge of m by the integration.
LEMMA MergeTypes ==
    ASSUME TypeOK, NEW m \in Opened, NEW how \in {"serial", "group"}, Merge(m, how),
           UNCHANGED <<base, ci>>
    PROVE  TargetOK' /\ {held', withheld'} \subseteq SUBSET MRs
<1>1. m \in MRs
  BY DEF Opened
<1>2. [mr |-> m, tested |-> ci[m].base, how |-> how] \in Merges
  BY <1>1 DEF TypeOK, Pipelines, Merges
<1>3. TargetOK'
  BY <1>1, <1>2, TargetGrows DEF Merge
<1> QED BY <1>3 DEF Merge, TypeOK

\* Only merge requests have tests, and only open ones pass them.
LEMMA PassedStep == ASSUME TypeOK, Next PROVE passed' \subseteq MRs
<1>1. passed \subseteq MRs /\ Opened \subseteq MRs
  BY DEF TypeOK, Opened
<1>2. \A S : Rebase(S) => passed' \subseteq passed
  BY DEF Rebase
<1>3. RebaseQueue => passed' \subseteq passed
  BY <1>2 DEF RebaseQueue
<1>4. \A m \in MRs : Apply(m) \/ Member(m) \/ Push(m) => passed' \subseteq passed
  BY <1>2 DEF Apply, Member, Eject, MemberWaits, MemberMerges, MemberIsRebased, Push
<1>5. \A m \in MRs : TestsPass(m) => passed' \subseteq MRs
  BY <1>1 DEF TestsPass
<1> QED
  BY <1>1, <1>3, <1>4, <1>5
  DEF Next, RunStep, StartRun, StartMerging, ClearLead, ClearPending, NothingMerged, Serial,
      FormGroup, Applied, CheckGroup, Expand, Retry, Crash, PipelineEnds, Relabel, MergeOfOthers,
      WindowCloses, gitlab

LEMMA TypeStep == ASSUME TypeOK, Next PROVE TypeOK'
<1>0. /\ TargetOK /\ RunOK /\ labels \in [MRs -> SUBSET Labels]
      /\ {held, withheld} \subseteq SUBSET MRs
      /\ {relabels, pushes, faults} \subseteq Nat
      /\ Tip \in Nat /\ Pending \subseteq MRs /\ Opened \subseteq MRs
  BY TypeParts, TargetType DEF Pending, HasLabel, Opened
<1>00. passed' \subseteq MRs
  BY PassedStep
<1> USE <1>00, NextTypeParts, LabelNames
<1>1. CASE StartRun
  <2>1. labels' \in [MRs -> SUBSET Labels]
    BY <1>0, <1>1 DEF StartRun, HealthCheck
  <2>2. TargetOK'
    BY <1>1, TargetSame DEF StartRun
  <2>3. RunOK'
    BY <1>0, <1>1 DEF StartRun, RunOK
  <2>4. {relabels', pushes', faults'} \subseteq Nat
    BY <1>1, FaultType DEF StartRun
  <2>5. {held', withheld'} \subseteq SUBSET MRs
    BY <1>0, <1>1 DEF StartRun
  <2> QED BY <2>1, <2>2, <2>3, <2>4, <2>5
<1>2. CASE StartMerging
  <2>1. TargetOK' /\ labels' = labels
    BY <1>2, TargetSame DEF StartMerging, gitlab
  <2>2. RunOK'
    BY <1>0, <1>2 DEF StartMerging, RunOK, gitlab
  <2> QED BY <1>0, <1>2, <2>1, <2>2 DEF StartMerging, bounds, history
<1>3. CASE ClearLead \/ ClearPending
  <2>1. TargetOK' /\ labels' \in [MRs -> SUBSET Labels]
    <3>1. CASE ClearLead
      BY <3>1, TargetSame, LabelTypes DEF ClearLead
    <3>2. CASE ClearPending
      BY <3>2, TargetSame, LabelTypes DEF ClearPending
    <3> QED BY <1>3, <3>1, <3>2
  <2>2. RunOK'
    BY <1>0, <1>3 DEF ClearLead, ClearPending, RunOK, local
  <2> QED BY <1>0, <1>3, <2>1, <2>2 DEF ClearLead, ClearPending, bounds, history
<1>4. CASE NothingMerged \/ Applied \/ Expand
  <2>1. TargetOK' /\ labels' = labels
    BY <1>4, TargetSame DEF NothingMerged, Applied, Expand, gitlab
  <2>2. Candidates(listed \ kept, TenantsOf(Leads \cup kept)) \subseteq MRs
    <3>1. listed \ kept \in SUBSET MRs
      BY <1>0 DEF RunOK
    <3> QED BY <3>1, CandidatesAreApart
  <2>3. RunOK'
    BY <1>0, <1>4, <2>2 DEF NothingMerged, Applied, Expand, Clear, RunOK, local, gitlab
  <2> QED BY <1>0, <1>4, <2>1, <2>3 DEF NothingMerged, Applied, Expand, bounds, history
<1>5. ASSUME NEW m \in MRs, Serial(m) PROVE TypeOK'
  <2>1. /\ TargetOK' /\ {held', withheld'} \subseteq SUBSET MRs
        /\ labels' \in [MRs -> SUBSET Labels]
    <3>1. CASE MayMerge(m) /\ Merge(m, "serial") /\ labels' = labels
      BY <1>0, <1>5, <3>1, MergeTypes DEF Serial, MayMerge
    <3>2. CASE UNCHANGED <<target, history>> /\ labels' \in {labels, Add({m}, "error")}
      BY <1>0, <1>5, <3>2, TargetSame, LabelTypes DEF Serial, history
    <3> QED BY <1>5, <3>1, <3>2 DEF Serial
  <2>2. RunOK'
    <3>1. windowOpen' \in BOOLEAN
      <4>1. windowOpen' = windowOpen \/ windowOpen' = (Multi \/ windowOpen)
        BY <1>5, Zenon DEF Serial
      <4>2. windowOpen \in BOOLEAN
        BY <1>0 DEF RunOK
      <4>3. (Multi \/ windowOpen) \in BOOLEAN
        OBVIOUS
      <4> QED BY <4>1, <4>2, <4>3
    <3>2. /\ phase' \in {"serial", "form", "rebase"} /\ todo' \subseteq MRs
          /\ UNCHANGED <<strategy, queue, listed, kept, marked, active, then>>
          /\ merges' = 1 \/ merges' = merges
      <4>1. todo' = todo \/ todo' = todo \ {m}
        BY <1>5 DEF Serial
      <4>2. phase' \in {"serial", "form", "rebase"} /\ (merges' = 1 \/ merges' = merges)
        BY <1>5 DEF Serial
      <4>3. UNCHANGED <<strategy, queue, listed, kept, marked, active, then>>
        BY <1>5 DEF Serial
      <4> QED BY <1>0, <4>1, <4>2, <4>3 DEF RunOK
    <3>3. merges' \in Nat
      <4>1. merges \in Nat
        BY <1>0 DEF RunOK
      <4>2. merges' = 1 \/ merges' = merges
        BY <3>2
      <4> QED BY <4>1, <4>2
    <3> QED BY <1>0, <3>1, <3>2, <3>3 DEF RunOK
  <2>3. {relabels', pushes', faults'} \subseteq Nat
    BY <1>5, FaultType DEF Serial
  <2> QED BY <2>1, <2>2, <2>3
<1>6. ASSUME NEW m \in MRs, FormGroup(m) PROVE TypeOK'
  <2>1. Candidates(listed, Tenants[m]) \subseteq MRs
    <3>1. listed \in SUBSET MRs
      BY <1>0 DEF RunOK
    <3> QED BY <3>1, CandidatesAreApart
  <2>2. CASE UNCHANGED <<target, labels>>
    <3>1. TargetOK'
      BY <1>6, <2>2, TargetSame DEF FormGroup
    <3>2. RunOK'
      BY <1>0, <1>6, <2>1 DEF FormGroup, RunOK
    <3> QED BY <1>0, <1>6, <2>2, <3>1, <3>2 DEF FormGroup, bounds, history
  <2>3. CASE /\ labels' = Add({m}, "omm-group-lead")
             /\ target' = [i \in DOMAIN target |->
                  IF target[i].mr = m THEN [target[i] EXCEPT !.how = "lead"] ELSE target[i]]
    <3>1. Relabelled(m) /\ DOMAIN target = 1..Tip
      BY <2>3, LeadIsMarked, TargetType
    <3>2. DOMAIN target' = 1..Tip
      BY <3>1, LenProperties DEF Relabelled, Tip
    <3>3. TargetOK'
      BY <1>0, <1>6, <3>1, <3>2 DEF FormGroup, TargetOK, Relabelled
    <3>4. RunOK'
      BY <1>0, <1>6, <2>1 DEF FormGroup, RunOK
    <3> QED BY <1>0, <1>6, <2>3, <3>3, <3>4, LabelTypes DEF FormGroup, bounds, history
  <2> QED BY <1>6, <2>2, <2>3 DEF FormGroup
<1>7. ASSUME NEW m \in MRs, Apply(m) PROVE TypeOK'
  <2>1. base' \in [MRs -> 0..Tip]
    BY <1>0, <1>7 DEF Apply, Rebase, TargetOK
  <2>2. TargetOK'
    BY <1>0, <1>7, <2>1, TargetStays DEF Apply, TargetOK
  <2>3. labels' \in [MRs -> SUBSET Labels]
    BY <1>0, <1>7, LabelTypes DEF Apply
  <2>4. RunOK' /\ {held', withheld'} \subseteq SUBSET MRs
    BY <1>0, <1>7 DEF Apply, RunOK, history
  <2>5. {relabels', pushes', faults'} \subseteq Nat
    BY <1>7, FaultType DEF Apply
  <2> QED BY <2>2, <2>3, <2>4, <2>5
<1>8. CASE CheckGroup
  <2>1. TargetOK' /\ labels' \in [MRs -> SUBSET Labels]
    BY <1>0, <1>8, TargetSame, LabelTypes DEF CheckGroup
  <2>2. Chosen(Pending \cap Opened, TenantsOf(Leads)) \subseteq MRs
    <3>1. Pending \cap Opened \in SUBSET MRs
      BY <1>0
    <3> QED BY <3>1, ChosenIsApart
  <2>3. RunOK'
    <3>1. CASE phase' = "members"
      BY <1>0, <1>8, <2>2, <3>1 DEF CheckGroup, RunOK, Clear
    <3>2. CASE phase' # "members"
      BY <1>0, <1>8, <3>2 DEF CheckGroup, RunOK, Clear
    <3> QED BY <3>1, <3>2
  <2>4. {relabels', pushes', faults'} \subseteq Nat
    BY <1>8, FaultType DEF CheckGroup
  <2> QED BY <1>0, <1>8, <2>1, <2>3, <2>4 DEF CheckGroup, history
<1>9. ASSUME NEW m \in MRs, Member(m) PROVE TypeOK'
  <2>1. CASE Eject(m)
    <3>1. TargetOK' /\ labels' \in [MRs -> SUBSET Labels]
      BY <1>9, <2>1, TargetSame, LabelTypes DEF Member, Eject
    <3>2. RunOK'
      BY <1>0, <1>9, <2>1 DEF Member, Eject, RunOK
    <3>3. {relabels', pushes', faults'} \subseteq Nat
      BY <2>1, FaultType DEF Eject
    <3> QED BY <1>0, <2>1, <3>1, <3>2, <3>3 DEF Eject, history
  <2>2. CASE MemberWaits(m)
    <3>1. TargetOK' /\ RunOK'
      BY <1>0, <1>9, <2>2, TargetSame DEF Member, MemberWaits, RunOK
    <3> QED BY <1>0, <2>2, <3>1 DEF MemberWaits, history, bounds
  <2>3. CASE MemberMerges(m)
    <3>1. /\ TargetOK' /\ {held', withheld'} \subseteq SUBSET MRs
          /\ labels' \in [MRs -> SUBSET Labels]
      <4>1. CASE Merge(m, "group") /\ labels' = labels
        BY <1>0, <1>9, <2>3, <4>1, MergeTypes DEF Member, MemberMerges, MayMerge
      <4>2. CASE UNCHANGED <<target, history>> /\ labels' = Add({m}, "error")
        BY <1>0, <1>9, <2>3, <4>2, TargetSame, LabelTypes DEF Member, MemberMerges, history
      <4> QED BY <2>3, <4>1, <4>2 DEF MemberMerges
    <3>2. RunOK'
      <4>1. merges' \in Nat /\ todo' \subseteq MRs
        <5>1. merges \in Nat /\ (merges' = merges \/ merges' = merges + 1)
          BY <1>0, <2>3 DEF MemberMerges, RunOK
        <5>2. merges' \in Nat
          BY <5>1
        <5>3. todo' = todo \ {m}
          BY <1>9 DEF Member
        <5> QED BY <1>0, <5>2, <5>3 DEF RunOK
      <4>2. phase' \in {phase, "clear"} /\ then' \in {then, "rebase"}
        BY <2>3 DEF MemberMerges, Clear
      <4>3. UNCHANGED <<windowOpen, strategy, queue, listed, kept, marked, active>>
        BY <1>9, <2>3 DEF Member, MemberMerges
      <4> QED BY <1>0, <4>1, <4>2, <4>3 DEF RunOK
    <3>3. {relabels', pushes', faults'} \subseteq Nat
      BY <2>3, FaultType DEF MemberMerges
    <3> QED BY <3>1, <3>2, <3>3
  <2>4. CASE MemberIsRebased(m)
    <3>1. base' \in [MRs -> 0..Tip]
      BY <1>0, <2>4 DEF MemberIsRebased, Rebase, TargetOK
    <3>2. TargetOK'
      BY <1>0, <1>9, <2>4, <3>1, TargetStays DEF Member, MemberIsRebased, TargetOK
    <3>3. RunOK'
      BY <1>0, <1>9, <2>4 DEF Member, MemberIsRebased, RunOK
    <3> QED BY <1>0, <2>4, <3>2, <3>3 DEF MemberIsRebased, history, bounds
  <2> QED BY <1>9, <2>1, <2>2, <2>3, <2>4 DEF Member
<1>10. CASE RebaseQueue
  <2>1. PICK S : Rebase(S) /\ StartPipelines(S)
    BY <1>10 DEF RebaseQueue
  <2>2. TargetOK'
    <3>1. base' \in [MRs -> 0..Tip]
      BY <1>0, <2>1 DEF Rebase, TargetOK
    <3>2. ci' \in [MRs -> Pipelines] /\ \A m \in MRs : ci'[m].base <= Tip
      BY <1>0, <2>1 DEF StartPipelines, TargetOK, Pipelines
    <3> QED BY <1>10, <3>1, <3>2, TargetStays DEF RebaseQueue
  <2>3. RunOK'
    BY <1>0, <1>10 DEF RebaseQueue, EndRun, RunOK
  <2>4. {relabels', pushes', faults'} \subseteq Nat
    BY <1>10, FaultType DEF RebaseQueue
  <2> QED BY <1>0, <1>10, <2>2, <2>3, <2>4 DEF RebaseQueue, history
<1>11. CASE Retry \/ Crash
  <2>1. TargetOK' /\ labels' = labels
    BY <1>11, TargetSame DEF Retry, Crash, gitlab
  <2>2. RunOK'
    <3>1. CASE Retry
      BY <1>0, <3>1 DEF Retry, RunOK, local, gitlab
    <3>2. CASE Crash
      BY <1>0, <3>2 DEF Crash, EndRun, RunOK, gitlab
    <3> QED BY <1>11, <3>1, <3>2
  <2>3. {relabels', pushes', faults'} \subseteq Nat
    BY <1>11, FaultType DEF Retry, Crash
  <2> QED BY <1>0, <1>11, <2>1, <2>2, <2>3 DEF Retry, Crash, history
<1>12. ASSUME NEW m \in MRs, PipelineEnds(m) \/ TestsPass(m) \/ Push(m) PROVE TypeOK'
  <2>1. ci' \in [MRs -> Pipelines] /\ \A n \in MRs : ci'[n].base <= Tip
    <3>1. ASSUME NEW status \in {"running", "success", "failed"},
                 ci' = [ci EXCEPT ![m].status = status]
          PROVE  ci' \in [MRs -> Pipelines] /\ \A n \in MRs : ci'[n].base <= Tip
      BY <1>0, <3>1 DEF TargetOK, Pipelines
    <3>2. CASE ci' = [ci EXCEPT ![m] = [status |-> "running", base |-> base[m]]]
      BY <1>0, <3>2 DEF TargetOK, Pipelines
    <3>3. CASE UNCHANGED ci
      BY <1>0, <3>3 DEF TargetOK
    <3> QED BY <1>12, <3>1, <3>2, <3>3 DEF PipelineEnds, TestsPass, Push
  <2>2. TargetOK'
    BY <1>0, <1>12, <2>1, TargetStays DEF PipelineEnds, TestsPass, Push, TargetOK
  <2>3. {relabels', pushes', faults'} \subseteq Nat
    BY <1>0, <1>12, FaultType DEF PipelineEnds, TestsPass, Push
  <2>4. RunOK'
    BY <1>0, <1>12 DEF PipelineEnds, TestsPass, Push, RunOK, local
  <2> QED BY <1>0, <1>12, <2>2, <2>3, <2>4 DEF PipelineEnds, TestsPass, Push, history
<1>13. ASSUME NEW m \in MRs, Relabel(m) PROVE TypeOK'
  <2>1. TargetOK' /\ labels' \in [MRs -> SUBSET Labels]
    BY <1>13, TargetSame, LabelTypes DEF Relabel
  <2>2. RunOK' /\ {relabels', pushes', faults'} \subseteq Nat
    <3>1. RunOK'
      BY <1>0, <1>13 DEF Relabel, RunOK, local
    <3>2. relabels \in Nat /\ pushes \in Nat /\ faults \in Nat
      BY <1>0
    <3>3. relabels' \in Nat /\ pushes' \in Nat /\ faults' \in Nat
      BY <1>13, <3>2 DEF Relabel
    <3> QED BY <3>1, <3>3
  <2>3. {held', withheld'} \subseteq SUBSET MRs
    BY <1>0, <1>13 DEF Relabel
  <2> QED BY <2>1, <2>2, <2>3
<1>14. CASE MergeOfOthers
  <2>1. [mr |-> External, tested |-> Tip, how |-> "external"] \in Merges
    BY <1>0 DEF Merges
  <2>2. TargetOK'
    BY <1>14, <2>1, TargetGrows DEF MergeOfOthers
  <2>3. RunOK'
    BY <1>0, <1>14 DEF MergeOfOthers, RunOK, local
  <2> QED BY <1>0, <1>14, <2>2, <2>3 DEF MergeOfOthers, bounds, history
<1>15. CASE WindowCloses
  <2>1. TargetOK' /\ RunOK'
    BY <1>0, <1>15, TargetSame DEF WindowCloses, RunOK, local
  <2> QED BY <1>0, <1>15, <2>1 DEF WindowCloses, bounds, history
<1> QED
  BY <1>1, <1>2, <1>3, <1>4, <1>5, <1>6, <1>7, <1>8, <1>9, <1>10, <1>11, <1>12, <1>13, <1>14, <1>15
  DEF Next, RunStep
-----------------------------------------------------------------------------
(* What a step does to the target branch and to the labels of groups. *)

Serially(m) == [mr |-> m, tested |-> ci[m].base, how |-> "serial"]
AsMember(m) == [mr |-> m, tested |-> ci[m].base, how |-> "group"]
ByOthers == [mr |-> External, tested |-> Tip, how |-> "external"]

\* The label k after a label l was given to S, or taken from it.
LEMMA AddedLabel ==
    ASSUME TypeOK, NEW S \in SUBSET MRs, NEW l, NEW k, labels' = Add(S, l)
    PROVE  HasLabel(k)' = IF k = l THEN HasLabel(k) \cup S ELSE HasLabel(k)
BY DEF Add, HasLabel, TypeOK

LEMMA RemovedLabel ==
    ASSUME TypeOK, NEW S, NEW l, NEW k, labels' = Remove(S, l)
    PROVE  HasLabel(k)' = IF k = l THEN HasLabel(k) \ S ELSE HasLabel(k)
BY DEF Remove, HasLabel, TypeOK

LEMMA OthersGrow == ASSUME TypeOK, MergeOfOthers PROVE Grown(ByOthers)
<1>1. ByOthers \in Merges
  BY TargetType DEF Merges, ByOthers
<1> QED BY <1>1, Appended DEF MergeOfOthers, ByOthers

\* Only merges and the forming of a group change the target branch.
LEMMA TargetMoves ==
    ASSUME TypeOK, Next
    PROVE  \/ UNCHANGED target
           \/ \E m \in MRs : Serial(m) /\ MayMerge(m) /\ Grown(Serially(m)) /\ phase' # "serial"
           \/ \E m \in MRs : /\ Member(m) /\ MemberMerges(m) /\ Grown(AsMember(m))
                             /\ merges' = merges + 1
           \/ MergeOfOthers /\ Grown(ByOthers)
           \/ \E m \in MRs : FormGroup(m) /\ Relabelled(m) /\ phase' = "apply"
<1>1. ASSUME NEW m \in MRs, NEW how \in {"serial", "group"}, Merge(m, how)
      PROVE  Grown([mr |-> m, tested |-> ci[m].base, how |-> how])
  <2>1. [mr |-> m, tested |-> ci[m].base, how |-> how] \in Merges
    BY DEF TypeOK, Pipelines, Merges
  <2> QED BY <1>1, <2>1, Appended DEF Merge
<1>2. ASSUME NEW m \in MRs, Serial(m)
      PROVE  \/ UNCHANGED target
             \/ MayMerge(m) /\ Grown(Serially(m)) /\ phase' # "serial"
  <2>1. UNCHANGED target \/ (MayMerge(m) /\ Merge(m, "serial") /\ phase' # "serial")
    BY <1>2 DEF Serial
  <2> QED BY <1>1, <2>1 DEF Serially
<1>3. ASSUME NEW m \in MRs, Member(m)
      PROVE  \/ UNCHANGED target
             \/ MemberMerges(m) /\ Grown(AsMember(m)) /\ merges' = merges + 1
  <2>1. \/ UNCHANGED target
        \/ MemberMerges(m) /\ Merge(m, "group") /\ merges' = merges + 1
    BY <1>3 DEF Member, Eject, MemberWaits, MemberMerges, MemberIsRebased
  <2> QED BY <1>1, <2>1 DEF AsMember
<1>4. ASSUME MergeOfOthers PROVE Grown(ByOthers)
  BY <1>4, OthersGrow
<1>5. ASSUME NEW m \in MRs, FormGroup(m)
      PROVE  UNCHANGED target \/ (Relabelled(m) /\ phase' = "apply")
  BY <1>5, LeadIsMarked DEF FormGroup
<1> QED
  BY <1>2, <1>3, <1>4, <1>5
  DEF Next, RunStep, StartRun, StartMerging, ClearLead, ClearPending, NothingMerged, Apply, Applied,
      CheckGroup, Expand, RebaseQueue, Retry, Crash, PipelineEnds, TestsPass, Push, Relabel, WindowCloses, gitlab

\* Only the forming of a group and its end change which merge requests lead.
LEMMA LeadsMove ==
    ASSUME TypeOK, Next
    PROVE  \/ UNCHANGED Leads
           \/ ClearLead /\ Leads' = {}
           \/ \E m \in MRs : FormGroup(m) /\ Relabelled(m) /\ phase' = "apply" /\ Leads' = Leads \cup {m}
<1>0. UNCHANGED labels => UNCHANGED Leads
  BY DEF Leads, HasLabel
<1>1. ASSUME NEW S \in SUBSET MRs, NEW l \in Labels \ {"omm-group-lead"},
             labels' = Add(S, l) \/ labels' = Remove(S, l)
      PROVE  UNCHANGED Leads
  BY <1>1, AddedLabel, RemovedLabel DEF Leads
<1>2. CASE StartRun
  BY <1>2 DEF StartRun, HealthCheck, Leads, HasLabel, TypeOK
<1>3. CASE ClearLead
  BY <1>3, RemovedLabel DEF ClearLead, Leads
<1>4. CASE ClearPending
  <2>1. labels' = Remove(Pending, "omm-pending") /\ Pending \in SUBSET MRs
    BY <1>4 DEF ClearPending, Pending, HasLabel
  <2> QED BY <1>1, <2>1, LabelNames
<1>5. ASSUME NEW m \in MRs, Serial(m) PROVE UNCHANGED Leads
  BY <1>0, <1>1, <1>5, LabelNames DEF Serial
<1>6. ASSUME NEW m \in MRs, FormGroup(m)
      PROVE  \/ UNCHANGED Leads
             \/ Relabelled(m) /\ phase' = "apply" /\ Leads' = Leads \cup {m}
  BY <1>0, <1>6, LeadIsMarked, AddedLabel DEF FormGroup, Leads
<1>7. ASSUME NEW m \in MRs, Apply(m) PROVE UNCHANGED Leads
  <2>1. CASE labels' = [labels EXCEPT ![m] = (@ \ {"omm-pending"}) \cup {"error"}]
    BY <2>1 DEF Leads, HasLabel, TypeOK
  <2> QED BY <1>1, <1>7, <2>1, LabelNames DEF Apply
<1>8. CASE CheckGroup
  <2>1. CASE labels' = Remove((Pending \cap Opened) \ kept', "omm-pending")
    BY <2>1, RemovedLabel DEF Leads
  <2> QED BY <1>0, <1>8, <2>1 DEF CheckGroup
<1>9. ASSUME NEW m \in MRs, Member(m) PROVE UNCHANGED Leads
  BY <1>0, <1>1, <1>9, LabelNames DEF Member, Eject, MemberWaits, MemberMerges, MemberIsRebased
<1>10. ASSUME NEW m \in MRs, Relabel(m) PROVE UNCHANGED Leads
  BY <1>1, <1>10, LabelNames DEF Relabel
<1> QED
  BY <1>0, <1>2, <1>3, <1>4, <1>5, <1>6, <1>7, <1>8, <1>9, <1>10
  DEF Next, RunStep, StartMerging, NothingMerged, Applied, Expand, RebaseQueue, Retry, Crash,
      PipelineEnds, TestsPass, Push, MergeOfOthers, WindowCloses, gitlab
-----------------------------------------------------------------------------
(* Merges and groups. *)

LEMMA HowStep == ASSUME TypeOK, HowInv, Next PROVE HowInv'
<1>0. Tip \in Nat /\ \A i \in 1..Tip : target[i] \in Merges
  BY TargetType
<1>1. CASE UNCHANGED target
  BY <1>1 DEF HowInv, Tip
<1>2. ASSUME NEW x, Grown(x), x.how = "external" <=> x.mr = External PROVE HowInv'
  <2>1. \A i \in 1..Tip + 1 : i \in 1..Tip \/ i = Tip + 1
    BY <1>0
  <2> QED BY <1>0, <1>2, <2>1 DEF HowInv, Grown
<1>3. ASSUME NEW m \in MRs, Relabelled(m) PROVE HowInv'
  BY <1>3, ConstantTypes DEF HowInv, Relabelled
<1>4. \A m \in MRs : (Serially(m).how = "external" <=> Serially(m).mr = External)
                     /\ (AsMember(m).how = "external" <=> AsMember(m).mr = External)
  BY ConstantTypes DEF Serially, AsMember
<1>5. ByOthers.how = "external" <=> ByOthers.mr = External
  BY DEF ByOthers
<1> QED BY <1>1, <1>2, <1>3, <1>4, <1>5, TargetMoves

LEMMA LeadStep == ASSUME TypeOK, HowInv, LeadInv, Next PROVE LeadInv'
<1>0. Tip \in Nat /\ \A i \in 1..Tip : target[i] \in Merges
  BY TargetType
<1>1. phase' \in {"clear pending", "serial", "form"} => Leads' = {}
  <2>1. CASE ClearLead
    <3>1. HasLabel("omm-group-lead")' = HasLabel("omm-group-lead") \ Leads
      BY <2>1, RemovedLabel DEF ClearLead
    <3> QED BY <3>1 DEF Leads
  <2>2. CASE Leads = {} /\ UNCHANGED Leads
    BY <2>2
  <2>3. CASE phase \in {"clear pending", "serial", "form"}
    BY <2>1, <2>2, <2>3, LeadsMove DEF LeadInv
  <2>4. CASE phase \notin {"clear pending", "serial", "form", "clear"}
    <3>1. CASE StartMerging /\ phase' \in {"clear pending", "serial"}
      <4>1. Leads = {}
        BY <3>1 DEF StartMerging
      <4>2. UNCHANGED Leads
        BY <3>1 DEF StartMerging, Leads, HasLabel, gitlab
      <4> QED BY <4>1, <4>2
    <3>2. CASE ~StartMerging
      BY <2>4, <3>2
      DEF Next, RunStep, StartRun, ClearLead, ClearPending, NothingMerged, Serial, FormGroup, Apply,
          Applied, Clear, CheckGroup, Member, Eject, MemberWaits, MemberMerges, MemberIsRebased,
          Expand, RebaseQueue, EndRun, Retry, Crash, PipelineEnds, TestsPass, Push, Relabel, MergeOfOthers,
          WindowCloses
    <3>3. StartMerging => phase' # "form"
      BY DEF StartMerging
    <3> QED BY <3>1, <3>2, <3>3
  <2>5. CASE phase = "clear" /\ ~ClearLead
    BY <2>5
    DEF Next, RunStep, StartRun, StartMerging, ClearPending, NothingMerged, Serial, FormGroup, Apply,
        Applied, CheckGroup, Member, Expand, RebaseQueue, EndRun, Retry, Crash, PipelineEnds, TestsPass, Push,
        Relabel, MergeOfOthers, WindowCloses
  <2> QED BY <2>1, <2>3, <2>4, <2>5
<1>2. phase' \in {"group", "members", "apply"} => Leads' # {}
  <2>1. ASSUME NEW m \in MRs, FormGroup(m), phase' = "apply" PROVE Leads' # {}
    <3>1. labels' = Add({m}, "omm-group-lead")
      BY <2>1 DEF FormGroup
    <3> QED BY <3>1, AddedLabel DEF Leads
  <2>2. CASE StartMerging /\ phase' = "group"
    <3>1. Leads # {} /\ UNCHANGED Leads
      BY <2>2 DEF StartMerging, Leads, HasLabel, gitlab
    <3> QED BY <3>1
  <2>3. CASE phase \in {"group", "members", "apply"}
    <3>1. Leads # {} /\ ~ClearLead
      BY <2>3 DEF LeadInv, ClearLead
    <3> QED BY <3>1, LeadsMove
  <2>4. CASE phase \notin {"group", "members", "apply"} /\ phase' \in {"group", "members", "apply"}
    <3>1. \/ StartMerging /\ phase' = "group"
          \/ \E m \in MRs : FormGroup(m) /\ phase' = "apply"
      <4>1. StartMerging => phase' \notin {"members", "apply"}
        BY DEF StartMerging
      <4>2. \A m \in MRs : FormGroup(m) => phase' \in {"rebase", "apply"}
        BY DEF FormGroup
      <4>3. ClearPending => phase' \in {"serial", "rebase"}
        BY DEF ClearPending, TypeOK
      <4>4. StartMerging \/ \E m \in MRs : FormGroup(m)
        BY <2>4, <4>3
        DEF Next, RunStep, StartRun, ClearLead, NothingMerged, Serial, Apply, Applied, CheckGroup,
            Member, Expand, RebaseQueue, EndRun, Retry, Crash, PipelineEnds, TestsPass, Push, Relabel,
            MergeOfOthers, WindowCloses
      <4> QED BY <2>4, <4>1, <4>2, <4>4
    <3> QED BY <2>1, <2>2, <3>1
  <2> QED BY <2>3, <2>4
<1>3. ASSUME Leads' # {}
      PROVE  \E l \in 1..Tip' :
               /\ Leads' = {target'[l].mr}
               /\ target'[l].how = "lead"
               /\ \A j \in l + 1..Tip' : target'[j].how \in {"group", "external"}
  <2>1. CASE UNCHANGED Leads
    <3>1. PICK l \in 1..Tip :
            /\ Leads = {target[l].mr}
            /\ target[l].how = "lead"
            /\ \A j \in l + 1..Tip : target[j].how \in {"group", "external"}
      BY <1>3, <2>1 DEF LeadInv
    <3>2. phase \notin {"serial", "form"}
      BY <3>1 DEF LeadInv
    <3>3. ASSUME NEW x, Grown(x), x.how \in {"group", "external"}
          PROVE  /\ l \in 1..Tip' /\ target'[l] = target[l]
                 /\ \A j \in l + 1..Tip' : target'[j].how \in {"group", "external"}
      <4>1. Tip' = Tip + 1 /\ \A j \in l + 1..Tip' : j \in l + 1..Tip \/ j = Tip + 1
        BY <1>0, <3>3 DEF Grown
      <4>2. \A j \in l + 1..Tip : j \in 1..Tip
        BY <1>0
      <4> QED BY <1>0, <3>1, <3>3, <4>1, <4>2 DEF Grown
    <3>4. CASE UNCHANGED target
      BY <2>1, <3>1, <3>4 DEF Tip
    <3>5. \A m \in MRs : AsMember(m).how \in {"group", "external"}
      BY DEF AsMember
    <3>6. ByOthers.how \in {"group", "external"}
      BY DEF ByOthers
    <3>7. ASSUME NEW x, Grown(x), x.how \in {"group", "external"}
          PROVE  \E k \in 1..Tip' :
                   /\ Leads' = {target'[k].mr}
                   /\ target'[k].how = "lead"
                   /\ \A j \in k + 1..Tip' : target'[j].how \in {"group", "external"}
      BY <2>1, <3>1, <3>3, <3>7
    <3> QED BY <3>2, <3>4, <3>5, <3>6, <3>7, TargetMoves DEF Serial, FormGroup
  <2>2. ASSUME NEW m \in MRs, FormGroup(m), Relabelled(m), Leads' = Leads \cup {m}
        PROVE  \E l \in 1..Tip' :
                 /\ Leads' = {target'[l].mr}
                 /\ target'[l].how = "lead"
                 /\ \A j \in l + 1..Tip' : target'[j].how \in {"group", "external"}
    <3>1. Leads = {} /\ FirstOf(todo, 1) = {m} /\ phase = "form"
      BY <2>2 DEF FormGroup, LeadInv
    <3>2. PICK l \in 1..Tip : /\ target[l].mr = m /\ target[l].how = "serial"
                              /\ \A j \in l + 1..Tip : target[j].how = "external"
      BY <3>1 DEF LeadInv
    <3>3. \A j \in l + 1..Tip : j \in 1..Tip /\ target'[j].how = "external"
      BY <1>0, <2>2, <3>2, ConstantTypes DEF Relabelled, HowInv
    <3> QED BY <2>2, <3>1, <3>2, <3>3 DEF Relabelled
  <2> QED BY <1>3, <2>1, <2>2, LeadsMove
<1>4. ASSUME phase' = "form", NEW m \in MRs, FirstOf(todo', 1) = {m}
      PROVE  \E l \in 1..Tip' :
               /\ target'[l].mr = m /\ target'[l].how = "serial"
               /\ \A j \in l + 1..Tip' : target'[j].how = "external"
  <2>1. ASSUME NEW n \in MRs, Serial(n)
        PROVE  \E l \in 1..Tip' :
                 /\ target'[l].mr = m /\ target'[l].how = "serial"
                 /\ \A j \in l + 1..Tip' : target'[j].how = "external"
    <3>1. Merge(n, "serial") /\ todo' = todo /\ FirstOf(todo, 1) = {n} /\ phase = "serial"
      BY <1>4, <2>1 DEF Serial
    <3>2. n = m
      BY <1>4, <3>1
    <3>3. Grown(Serially(m))
      <4>1. Serially(m) \in Merges
        BY DEF TypeOK, Pipelines, Merges, Serially
      <4> QED BY <3>1, <3>2, <4>1, Appended DEF Merge, Serially
    <3>4. Tip + 1 \in 1..Tip' /\ Tip + 1 + 1..Tip' = {}
      BY <1>0, <3>3 DEF Grown
    <3> QED BY <3>3, <3>4 DEF Grown, Serially
  <2>2. CASE phase = "form"
    <3>0. todo' = todo /\ (UNCHANGED target \/ (MergeOfOthers /\ Grown(ByOthers)))
      <4>1. \/ MergeOfOthers \/ WindowCloses
            \/ \E n \in MRs : PipelineEnds(n) \/ TestsPass(n) \/ Push(n) \/ Relabel(n)
        BY <1>4, <2>2
        DEF Next, RunStep, StartRun, StartMerging, ClearLead, ClearPending, NothingMerged, Serial,
            FormGroup, Apply, Applied, CheckGroup, Member, Expand, RebaseQueue, EndRun, Retry, Crash
      <4> QED
        BY <4>1, OthersGrow DEF MergeOfOthers, WindowCloses, PipelineEnds, TestsPass, Push, Relabel, local
    <3>1. PICK l \in 1..Tip : /\ target[l].mr = m /\ target[l].how = "serial"
                              /\ \A j \in l + 1..Tip : target[j].how = "external"
      BY <1>4, <2>2, <3>0 DEF LeadInv
    <3>2. CASE UNCHANGED target
      BY <3>1, <3>2 DEF Tip
    <3>3. CASE Grown(ByOthers)
      <4>1. Tip' = Tip + 1 /\ \A j \in l + 1..Tip' : j \in l + 1..Tip \/ j = Tip + 1
        BY <1>0, <3>3 DEF Grown
      <4>2. \A j \in l + 1..Tip : j \in 1..Tip
        BY <1>0
      <4>3. l \in 1..Tip' /\ target'[l] = target[l]
        BY <1>0, <3>3, <4>1 DEF Grown
      <4> QED BY <3>1, <3>3, <4>1, <4>2, <4>3 DEF Grown, ByOthers
    <3> QED BY <3>0, <3>2, <3>3
  <2>3. CASE phase # "form" /\ ~\E n \in MRs : Serial(n)
    <3>1. ClearPending => phase' \in {"serial", "rebase"}
      BY DEF ClearPending, TypeOK
    <3>2. StartMerging => phase' # "form"
      BY DEF StartMerging
    <3> QED
      BY <1>4, <2>3, <3>1, <3>2
      DEF Next, RunStep, StartRun, ClearLead, NothingMerged, FormGroup, Apply, Applied, Clear,
          CheckGroup, Member, Eject, MemberWaits, MemberMerges, MemberIsRebased, Expand,
          RebaseQueue, EndRun, Retry, Crash, PipelineEnds, TestsPass, Push, Relabel, MergeOfOthers, WindowCloses
  <2> QED BY <2>1, <2>2, <2>3
<1>5. FirstOf(todo, 1)' = FirstOf(todo', 1)
  BY DEF FirstOf
<1> QED BY <1>1, <1>2, <1>3, <1>4, <1>5 DEF LeadInv

NoLead == \A i \in 1..Tip : target[i].how # "lead"

\* What has led a group is remembered.
LEMMA LeadIsRemembered ==
    ASSUME TypeOK, Next, NoLead'
    PROVE  NoLead
<1>0. Tip \in Nat
  BY TargetType
<1>1. CASE UNCHANGED target
  BY <1>1 DEF NoLead, Tip
<1>2. ASSUME NEW x, Grown(x) PROVE NoLead
  BY <1>0, <1>2 DEF NoLead, Grown
<1>3. ASSUME NEW m \in MRs, Relabelled(m) PROVE NoLead
  BY <1>3 DEF NoLead, Relabelled
<1> QED BY <1>1, <1>2, <1>3, TargetMoves

\* Where nothing has led, there is no group.
LEMMA NoLeadNoGroup ==
    ASSUME LeadInv, NoLead
    PROVE  phase \notin {"group", "members", "apply"}
BY DEF LeadInv, NoLead

\* Only a group rebases without a pipeline.
LEMMA TestedStep == ASSUME TypeOK, LeadInv, TestedInv, Next PROVE TestedInv'
<1> SUFFICES ASSUME NoLead' PROVE \A m \in MRs : ci'[m].base = base'[m]
  BY DEF TestedInv, NoLead
<1>1. phase \notin {"group", "members", "apply"} /\ \A m \in MRs : ci[m].base = base[m]
  BY LeadIsRemembered, NoLeadNoGroup DEF TestedInv, NoLead
<1>2. CASE UNCHANGED <<base, ci>>
  BY <1>1, <1>2
<1>3. CASE RebaseQueue
  BY <1>1, <1>3 DEF RebaseQueue, Rebase, StartPipelines
<1>0. ci \in [MRs -> Pipelines] /\ base \in [MRs -> 0..Tip]
  BY DEF TypeOK
<1>4. ASSUME NEW m \in MRs, PipelineEnds(m) PROVE \A n \in MRs : ci'[n].base = base'[n]
  <2>1. base' = base /\ \E s \in {"success", "failed"} : ci' = [ci EXCEPT ![m].status = s]
    BY <1>4 DEF PipelineEnds
  <2>2. PICK s \in {"success", "failed"} : ci' = [ci EXCEPT ![m].status = s]
    BY <2>1
  <2>3. \A n \in MRs : ci'[n].base = ci[n].base
    BY <1>0, <2>2 DEF Pipelines
  <2> QED BY <1>1, <2>1, <2>3
<1>5. ASSUME NEW m \in MRs, Push(m) PROVE \A n \in MRs : ci'[n].base = base'[n]
  BY <1>0, <1>1, <1>5 DEF Push, Pipelines
<1> QED
  BY <1>1, <1>2, <1>3, <1>4, <1>5
  DEF Next, RunStep, StartRun, StartMerging, ClearLead, ClearPending, NothingMerged, Serial,
      FormGroup, Apply, Applied, CheckGroup, Member, Expand, Retry, Crash, TestsPass, Relabel,
      MergeOfOthers, WindowCloses, gitlab

LEMMA SerialStep ==
    ASSUME TypeOK, LeadInv, TestedInv, SerialMergesAreTested, Next
    PROVE  SerialMergesAreTested'
<1> SUFFICES ASSUME NEW i \in 1..Tip', \A j \in 1..i - 1 : target'[j].how # "lead"
             PROVE  target'[i].tested + 1..i - 1 = {}
  BY DEF SerialMergesAreTested, Untested
<1>0. Tip \in Nat /\ \A k \in 1..Tip : target[k] \in Merges
  BY TargetType
<1>1. \A k \in 1..Tip :
        (\A j \in 1..k - 1 : target[j].how # "lead") => target[k].tested + 1..k - 1 = {}
  BY DEF SerialMergesAreTested, Untested
<1>2. CASE UNCHANGED target
  BY <1>1, <1>2 DEF Tip
<1>3. ASSUME NEW x, Grown(x), NoLead /\ i = Tip + 1 => x.tested = Tip
      PROVE  target'[i].tested + 1..i - 1 = {}
  <2>1. CASE i \in 1..Tip
    <3>1. \A j \in 1..i - 1 : j \in 1..Tip /\ target'[j] = target[j]
      BY <1>0, <1>3, <2>1 DEF Grown
    <3>2. \A j \in 1..i - 1 : target[j].how # "lead"
      BY <3>1
    <3>3. target'[i] = target[i]
      BY <1>3, <2>1 DEF Grown
    <3> QED BY <1>1, <2>1, <3>2, <3>3
  <2>2. CASE i = Tip + 1
    <3>1. NoLead
      BY <1>0, <1>3, <2>2 DEF NoLead, Grown
    <3> QED BY <1>0, <1>3, <2>2, <3>1 DEF Grown
  <2> QED BY <1>0, <1>3, <2>1, <2>2 DEF Grown
<1>4. ASSUME NEW m \in MRs, Relabelled(m) PROVE target'[i].tested + 1..i - 1 = {}
  <2>1. i \in 1..Tip /\ target'[i].tested = target[i].tested
    BY <1>4 DEF Relabelled
  <2>2. \A j \in 1..i - 1 : target[j].how # "lead"
    BY <1>0, <1>4, <2>1 DEF Relabelled
  <2> QED BY <1>1, <2>1, <2>2
<1>5. ASSUME NEW m \in MRs, MayMerge(m), NoLead PROVE Serially(m).tested = Tip
  BY <1>5 DEF MayMerge, IsRebased, Serially, TestedInv, NoLead
<1>6. ASSUME NEW m \in MRs, Member(m), NoLead PROVE FALSE
  BY <1>6, NoLeadNoGroup DEF Member
<1>7. ByOthers.tested = Tip
  BY DEF ByOthers
<1> QED BY <1>2, <1>3, <1>4, <1>5, <1>6, <1>7, TargetMoves

\* If the last commit is of the group, all since its lead are.
LEMMA OursIsGroup ==
    ASSUME TypeOK, HowInv, LeadInv, GroupMergesOnGroup, Leads # {}, TipIsOurs
    PROVE  TailIsGroup
<1>0. Tip \in Nat /\ Leads \subseteq MRs /\ Pending \subseteq MRs
  BY TargetType DEF Leads, Pending, HasLabel
<1>1. PICK l \in 1..Tip :
        /\ target[l].how = "lead"
        /\ \A j \in l + 1..Tip : target[j].how \in {"group", "external"}
  BY DEF LeadInv
<1>2. CASE l = Tip
  <2>1. l + 1..Tip = {}
    BY <1>0, <1>2
  <2> QED BY <1>1, <2>1 DEF TailIsGroup
<1>3. CASE l # Tip
  <2>1. Tip \in l + 1..Tip /\ Tip \in 1..Tip
    BY <1>0, <1>3
  <2>2. target[Tip].how = "group"
    BY <1>0, <1>1, <2>1, ConstantTypes DEF TipIsOurs, HowInv
  <2>3. PICK k \in 1..Tip - 1 : /\ target[k].how = "lead"
                                /\ \A j \in k + 1..Tip - 1 : target[j].how = "group"
    BY <2>1, <2>2 DEF GroupMergesOnGroup
  <2>4. k \in 1..Tip /\ \A j \in k + 1..Tip : j = Tip \/ j \in k + 1..Tip - 1
    BY <1>0
  <2> QED BY <2>2, <2>3, <2>4 DEF TailIsGroup
<1> QED BY <1>2, <1>3

LEMMA MembersStep ==
    ASSUME TypeOK, HowInv, LeadInv, MembersInv, ListInv, GroupMergesOnGroup, Next
    PROVE  MembersInv'
<1> SUFFICES ASSUME phase' = "members", NEW m \in todo', base'[m] = Tip'
             PROVE  TailIsGroup' /\ merges' = 0
  BY DEF MembersInv
<1>0. /\ Tip \in Nat /\ m \in MRs /\ base[m] \in 0..Tip
      /\ UNCHANGED target => (TailIsGroup' <=> TailIsGroup) /\ Tip' = Tip
  <2>1. m \in MRs
    BY TypeStep DEF TypeOK
  <2>2. UNCHANGED target => (TailIsGroup' <=> TailIsGroup) /\ Tip' = Tip
    BY DEF TailIsGroup, Tip
  <2> QED BY <2>1, <2>2, TargetType DEF TypeOK
<1>1. CASE CheckGroup
  <2>1. TipIsOurs /\ UNCHANGED <<target, merges>> /\ phase = "group"
    BY <1>1 DEF CheckGroup, Clear
  <2> QED BY <1>0, <2>1, OursIsGroup DEF LeadInv, ListInv
<1>2. ASSUME phase = "members", m \in todo, UNCHANGED <<target, merges>>, base'[m] = base[m]
      PROVE  TailIsGroup' /\ merges' = 0
  BY <1>0, <1>2 DEF MembersInv
<1>3. ASSUME NEW n \in MRs, Member(n) PROVE TailIsGroup' /\ merges' = 0
  <2>1. phase = "members" /\ m \in todo /\ m # n
    BY <1>3 DEF Member
  <2>2. CASE MemberMerges(n)
    <3>1. UNCHANGED <<target, merges, base>> \/ (Grown(AsMember(n)) /\ UNCHANGED base)
      <4>1. AsMember(n) \in Merges
        BY DEF TypeOK, Pipelines, Merges, AsMember
      <4>2. CASE Merge(n, "group")
        BY <2>2, <4>1, <4>2, Appended DEF MemberMerges, Merge, AsMember
      <4> QED BY <2>2, <4>2 DEF MemberMerges
    <3>2. ~Grown(AsMember(n)) \/ base' # base
      BY <1>0 DEF Grown
    <3> QED BY <1>2, <2>1, <3>1, <3>2
  <2>3. CASE MemberIsRebased(n)
    <3>1. base'[m] = base[m] /\ UNCHANGED <<target, merges>>
      BY <1>0, <2>1, <2>3 DEF MemberIsRebased, Rebase
    <3> QED BY <1>2, <2>1, <3>1
  <2>4. CASE Eject(n) \/ MemberWaits(n)
    BY <1>2, <2>1, <2>4 DEF Eject, MemberWaits
  <2> QED BY <1>3, <2>2, <2>3, <2>4 DEF Member
<1>4. CASE MergeOfOthers
  <2>1. Tip' = Tip + 1 /\ base'[m] = base[m]
    BY <1>4, OthersGrow DEF Grown, MergeOfOthers
  <2> QED BY <1>0, <2>1
<1>5. CASE WindowCloses \/ \E n \in MRs : PipelineEnds(n) \/ TestsPass(n) \/ Push(n) \/ Relabel(n)
  BY <1>2, <1>5 DEF WindowCloses, PipelineEnds, TestsPass, Push, Relabel, local
<1> QED
  <2>1. StartMerging => phase' # "members"
    BY DEF StartMerging
  <2>2. ClearPending => phase' # "members"
    BY DEF ClearPending, TypeOK
  <2> QED
    BY <1>1, <1>3, <1>4, <1>5, <2>1, <2>2
    DEF Next, RunStep, StartRun, ClearLead, NothingMerged, Serial, FormGroup, Apply, Applied, Clear,
        Expand, RebaseQueue, EndRun, Retry, Crash

LEMMA GroupStep ==
    ASSUME TypeOK, HowInv, LeadInv, MembersInv, GroupMergesOnGroup, Next
    PROVE  GroupMergesOnGroup'
<1> SUFFICES ASSUME NEW i \in 1..Tip', target'[i].how = "group"
             PROVE  \E l \in 1..i - 1 :
                      /\ target'[l].how = "lead"
                      /\ \A j \in l + 1..i - 1 : target'[j].how = "group"
  BY DEF GroupMergesOnGroup
<1>0. Tip \in Nat
  BY TargetType
<1>1. \A k \in 1..Tip : target[k].how = "group" =>
        \E l \in 1..k - 1 :
          /\ target[l].how = "lead"
          /\ \A j \in l + 1..k - 1 : target[j].how = "group"
  BY DEF GroupMergesOnGroup
<1>2. CASE UNCHANGED target
  BY <1>1, <1>2 DEF Tip
<1>3. ASSUME NEW x, Grown(x), i = Tip + 1 => TailIsGroup
      PROVE  \E l \in 1..i - 1 :
               /\ target'[l].how = "lead"
               /\ \A j \in l + 1..i - 1 : target'[j].how = "group"
  <2>1. CASE i \in 1..Tip
    <3>1. PICK l \in 1..i - 1 : /\ target[l].how = "lead"
                                /\ \A j \in l + 1..i - 1 : target[j].how = "group"
      BY <1>1, <1>3, <2>1 DEF Grown
    <3>2. \A j \in 1..i - 1 : target'[j] = target[j]
      BY <1>0, <1>3, <2>1 DEF Grown
    <3>3. \A j \in l + 1..i - 1 : j \in 1..i - 1
      BY <2>1
    <3> QED BY <3>1, <3>2, <3>3
  <2>2. CASE i = Tip + 1
    <3>1. PICK l \in 1..Tip : /\ target[l].how = "lead"
                              /\ \A j \in l + 1..Tip : target[j].how = "group"
      BY <1>3, <2>2 DEF TailIsGroup
    <3>2. i - 1 = Tip /\ \A j \in l + 1..Tip : j \in 1..Tip
      BY <1>0, <2>2
    <3> QED BY <1>3, <3>1, <3>2 DEF Grown
  <2> QED BY <1>0, <1>3, <2>1, <2>2 DEF Grown
<1>4. ASSUME NEW m \in MRs, FormGroup(m), Relabelled(m)
      PROVE  \E l \in 1..i - 1 :
               /\ target'[l].how = "lead"
               /\ \A j \in l + 1..i - 1 : target'[j].how = "group"
  <2>1. PICK k \in 1..Tip : target[k].mr = m /\ target[k].how = "serial"
    BY <1>4 DEF FormGroup, LeadInv
  <2>2. \A j \in 1..Tip : target[j].mr = m => j = k
    BY <2>1, TargetType, ConstantTypes DEF TypeOK
  <2>3. i \in 1..Tip /\ target[i].how = "group"
    BY <1>4, <2>1 DEF Relabelled
  <2>4. PICK l \in 1..i - 1 : /\ target[l].how = "lead"
                              /\ \A j \in l + 1..i - 1 : target[j].how = "group"
    BY <1>1, <2>3
  <2>5. l \in 1..Tip /\ \A j \in l + 1..i - 1 : j \in 1..Tip
    BY <1>0, <2>3
  <2> QED BY <1>4, <2>1, <2>2, <2>4, <2>5 DEF Relabelled
<1>5. ASSUME i = Tip + 1, NEW x, Grown(x), x.how # "group" PROVE FALSE
  BY <1>5 DEF Grown
<1>6. ASSUME NEW m \in MRs, Member(m), MemberMerges(m) PROVE TailIsGroup
  BY <1>6 DEF Member, MemberMerges, MayMerge, IsRebased, MembersInv
<1>7. ByOthers.how # "group" /\ \A m \in MRs : Serially(m).how # "group"
  BY DEF ByOthers, Serially
<1> QED BY <1>2, <1>3, <1>4, <1>5, <1>6, <1>7, TargetMoves
-----------------------------------------------------------------------------
(* Lists, and what is held. *)

\* Only a merge takes something off what is open; what it takes is held no more.
LEMMA OpenedMoves ==
    ASSUME TypeOK, Next
    PROVE  /\ Opened' \subseteq Opened
           /\ \A m \in Opened \ Opened' :
                /\ m \notin held'
                /\ (Serial(m) /\ MayMerge(m)) \/ (Member(m) /\ MemberMerges(m))
<1>0. Tip \in Nat /\ Opened \subseteq MRs /\ Opened' \subseteq MRs
  BY TargetType DEF Opened
<1>1. TypeOK'
  BY TypeStep
<1>2. \A m \in MRs : m \in Opened' <=> \A i \in 1..Tip' : target'[i].mr # m
  BY DEF Opened, Merged
<1>3. ASSUME UNCHANGED target PROVE Opened' = Opened
  BY <1>3 DEF Opened, Merged, Tip
<1>4. ASSUME NEW x, Grown(x) PROVE Opened' = Opened \ {x.mr}
  <2>1. \A i \in 1..Tip' : i \in 1..Tip \/ i = Tip + 1
    BY <1>0, <1>4 DEF Grown
  <2>2. Tip + 1 \in 1..Tip' /\ \A i \in 1..Tip : i \in 1..Tip'
    BY <1>0, <1>4 DEF Grown
  <2>3. \A m \in MRs : m \in Opened' <=> m \in Opened /\ m # x.mr
    BY <1>2, <1>4, <2>1, <2>2, OpenedMeans DEF Grown
  <2> QED BY <1>0, <2>3
<1>5. ASSUME NEW m \in MRs, Relabelled(m) PROVE Opened' = Opened
  <2>1. \A n \in MRs : n \in Opened' <=> n \in Opened
    BY <1>2, <1>5, OpenedMeans DEF Relabelled
  <2> QED BY <1>0, <2>1
<1>6. ASSUME NEW m \in MRs, Serial(m), Grown(Serially(m)) PROVE m \notin held'
  <2>1. Serially(m).mr = m /\ target' # target
    BY <1>0, <1>6 DEF Grown, Serially, Tip
  <2> QED BY <1>6, <2>1 DEF Serial, Merge
<1>7. ASSUME NEW m \in MRs, MemberMerges(m), Grown(AsMember(m)) PROVE m \notin held'
  <2>1. target' # target
    BY <1>0, <1>7 DEF Grown, Tip
  <2> QED BY <1>7, <2>1 DEF MemberMerges, Merge
<1>8. ByOthers.mr \notin Opened /\ \A m \in MRs : Serially(m).mr = m /\ AsMember(m).mr = m
  BY <1>0, ConstantTypes DEF ByOthers, Serially, AsMember
<1> QED BY <1>3, <1>4, <1>5, <1>6, <1>7, <1>8, TargetMoves

\* Only people hold.
LEMMA HoldsMove ==
    ASSUME TypeOK, Next
    PROVE  UNCHANGED HasLabel("hold") \/ \E m \in MRs : Relabel(m)
<1>0. UNCHANGED labels => UNCHANGED HasLabel("hold")
  BY DEF HasLabel
<1>1. ASSUME NEW S \in SUBSET MRs, NEW l, l # "hold", labels' = Add(S, l) \/ labels' = Remove(S, l)
      PROVE  UNCHANGED HasLabel("hold")
  BY <1>1, AddedLabel, RemovedLabel
<1>2. CASE StartRun
  BY <1>2 DEF StartRun, HealthCheck, HasLabel, TypeOK
<1>3. CASE ClearLead
  <2>1. Leads \in SUBSET MRs
    BY DEF Leads, HasLabel
  <2> QED BY <1>1, <1>3, <2>1 DEF ClearLead
<1>4. CASE ClearPending
  <2>1. Pending \in SUBSET MRs
    BY DEF Pending, HasLabel
  <2> QED BY <1>1, <1>4, <2>1 DEF ClearPending
<1>5. ASSUME NEW m \in MRs, Serial(m) \/ FormGroup(m) PROVE UNCHANGED HasLabel("hold")
  BY <1>0, <1>1, <1>5 DEF Serial, FormGroup
<1>6. ASSUME NEW m \in MRs, Apply(m) PROVE UNCHANGED HasLabel("hold")
  <2>1. CASE labels' = [labels EXCEPT ![m] = (@ \ {"omm-pending"}) \cup {"error"}]
    BY <2>1 DEF HasLabel, TypeOK
  <2> QED BY <1>1, <1>6, <2>1 DEF Apply
<1>7. CASE CheckGroup
  <2>1. CASE labels' = Remove((Pending \cap Opened) \ kept', "omm-pending")
    <3>1. (Pending \cap Opened) \ kept' \in SUBSET MRs
      BY DEF Pending, HasLabel
    <3> QED BY <1>1, <2>1, <3>1
  <2> QED BY <1>0, <1>7, <2>1 DEF CheckGroup
<1>8. ASSUME NEW m \in MRs, Member(m) PROVE UNCHANGED HasLabel("hold")
  BY <1>0, <1>1, <1>8 DEF Member, Eject, MemberWaits, MemberMerges, MemberIsRebased
<1> QED
  BY <1>0, <1>2, <1>3, <1>4, <1>5, <1>6, <1>7, <1>8
  DEF Next, RunStep, StartMerging, NothingMerged, Applied, Expand, RebaseQueue, Retry, Crash,
      PipelineEnds, TestsPass, Push, MergeOfOthers, WindowCloses, gitlab

\* What is held changes with the run, and otherwise only gets less.
LEMMA HeldMoves ==
    ASSUME TypeOK, Next
    PROVE  held' \subseteq held \/ StartRun
<1>1. \A m \in MRs, how \in {"serial", "group"} : Merge(m, how) => held' \subseteq held
  BY DEF Merge
<1>2. \A m \in MRs : Serial(m) \/ MemberMerges(m) => held' \subseteq held
  BY <1>1 DEF Serial, MemberMerges, history
<1>3. \A m \in MRs : Relabel(m) => held' \subseteq held
  BY DEF Relabel
<1> QED
  BY <1>2, <1>3
  DEF Next, RunStep, StartMerging, ClearLead, ClearPending, NothingMerged, FormGroup, Apply, Applied,
      CheckGroup, Member, Eject, MemberWaits, MemberIsRebased, Expand, RebaseQueue, Retry, Crash,
      PipelineEnds, TestsPass, Push, MergeOfOthers, WindowCloses, history

\* A run that goes by its list.
GoesByList == phase = "serial" \/ (phase \in {"clear", "clear pending"} /\ then = "serial")

LEMMA ListStep == ASSUME TypeOK, ListInv, Next PROVE ListInv'
<1>1. phase' = "group" => merges' = 0
  <2>1. ClearPending => phase' # "group"
    BY DEF ClearPending, TypeOK
  <2>2. StartMerging => merges' = 0
    BY DEF StartMerging
  <2> QED
    BY <2>1, <2>2
    DEF Next, RunStep, StartRun, ClearLead, NothingMerged, Serial, FormGroup, Apply, Applied, Clear,
        CheckGroup, Member, Eject, MemberWaits, MemberMerges, MemberIsRebased, Expand, RebaseQueue,
        EndRun, Retry, Crash, PipelineEnds, TestsPass, Push, Relabel, MergeOfOthers, WindowCloses, local, ListInv
<1>2. GoesByList' => todo' \subseteq queue' /\ merges' = 0
  <2> SUFFICES ASSUME GoesByList' PROVE todo' \subseteq queue' /\ merges' = 0
    OBVIOUS
  <2>0. GoesByList => todo \subseteq queue /\ merges = 0
    BY DEF ListInv, GoesByList
  <2>1. CASE StartMerging
    BY <2>1 DEF StartMerging
  <2>2. CASE ClearLead \/ ClearPending
    BY <2>0, <2>2 DEF ClearLead, ClearPending, GoesByList, local
  <2>3. ASSUME NEW m \in MRs, Serial(m) PROVE todo' \subseteq queue' /\ merges' = 0
    BY <2>0, <2>3 DEF Serial, GoesByList
  <2>4. ASSUME NEW m \in MRs, Member(m) PROVE FALSE
    BY <2>4 DEF Member, Eject, MemberWaits, MemberMerges, Clear, MemberIsRebased, GoesByList
  <2> QED
    BY <2>0, <2>1, <2>2, <2>3, <2>4
    DEF Next, RunStep, StartRun, NothingMerged, FormGroup, Apply, Applied, Clear, CheckGroup, Expand,
        RebaseQueue, EndRun, Retry, Crash, PipelineEnds, TestsPass, Push, Relabel, MergeOfOthers, WindowCloses,
        local, GoesByList
<1>3. phase' = "members" => todo' \subseteq kept' /\ kept' \cap held' \subseteq marked'
  <2> SUFFICES ASSUME phase' = "members" PROVE todo' \subseteq kept' /\ kept' \cap held' \subseteq marked'
    OBVIOUS
  <2>1. CASE CheckGroup
    <3>1. todo' = kept' /\ held' = held /\ marked' = {m \in kept' : labels[m] \cap {"error", "hold"} # {}}
      BY <2>1 DEF CheckGroup, Clear, history
    <3>2. \A m \in held : "hold" \in labels[m]
      BY DEF ListInv, HasLabel
    <3> QED BY <3>1, <3>2
  <2>2. CASE phase = "members" /\ todo' \subseteq todo /\ UNCHANGED <<kept, marked>> /\ ~StartRun
    BY <2>2, HeldMoves DEF ListInv
  <2>3. ASSUME NEW m \in MRs, Member(m) PROVE phase = "members" /\ todo' \subseteq todo /\ UNCHANGED <<kept, marked>>
    BY <2>3 DEF Member
  <2>4. \/ CheckGroup \/ \E m \in MRs : Member(m)
        \/ phase = "members" /\ todo' \subseteq todo /\ UNCHANGED <<kept, marked>>
    <3>1. StartMerging => phase' # "members"
      BY DEF StartMerging
    <3>2. ClearPending => phase' # "members"
      BY DEF ClearPending, TypeOK
    <3> QED
      BY <3>1, <3>2
      DEF Next, RunStep, StartRun, ClearLead, NothingMerged, Serial, FormGroup, Apply, Applied, Clear,
          Expand, RebaseQueue, EndRun, Retry, Crash, PipelineEnds, TestsPass, Push, Relabel, MergeOfOthers,
          WindowCloses, local
  <2>5. ~StartRun
    BY DEF StartRun
  <2> QED BY <2>1, <2>2, <2>3, <2>4, <2>5
<1>4. held' \subseteq Opened' \cap HasLabel("hold")'
  <2>1. CASE StartRun
    <3>1. UNCHANGED target /\ held' = {m \in Opened : "hold" \in labels[m]}
      BY <2>1 DEF StartRun
    <3>2. Opened' = Opened
      BY <3>1 DEF Opened, Merged, Tip
    <3>3. UNCHANGED HasLabel("hold")
      BY <2>1, HoldsMove DEF StartRun, Relabel
    <3> QED BY <3>1, <3>2, <3>3 DEF HasLabel, Opened
  <2>2. ASSUME NEW m \in MRs, Relabel(m) PROVE held' \subseteq Opened' \cap HasLabel("hold")'
    <3>1. Opened' = Opened
      BY <2>2 DEF Relabel, Opened, Merged, Tip
    <3> QED BY <2>2, <3>1 DEF Relabel, ListInv
  <2>3. CASE held' \subseteq held /\ UNCHANGED HasLabel("hold")
    BY <2>3, OpenedMoves DEF ListInv
  <2> QED BY <2>1, <2>2, <2>3, HoldsMove, HeldMoves
<1>5. held' \cap queue' = {}
  <2>1. CASE StartRun
    BY <2>1 DEF StartRun, GoodToMerge
  <2>2. CASE ~StartRun
    <3>1. queue' \subseteq queue
      BY <2>2
      DEF Next, RunStep, StartMerging, ClearLead, ClearPending, NothingMerged, Serial, FormGroup,
          Apply, Applied, CheckGroup, Member, Expand, RebaseQueue, EndRun, Retry, Crash,
          PipelineEnds, TestsPass, Push, Relabel, MergeOfOthers, WindowCloses, local
    <3> QED BY <2>2, <3>1, HeldMoves DEF ListInv
  <2> QED BY <2>1, <2>2
<1> QED BY <1>1, <1>2, <1>3, <1>4, <1>5 DEF ListInv, GoesByList
-----------------------------------------------------------------------------
(* Tenants. *)

LEMMA ApartSubset == ASSUME NEW S, NEW T \in SUBSET S, Apart(S) PROVE Apart(T)
BY DEF Apart

\* Members only come by applying for it, one at a time, and leave together only
\* when a group ends or is put in order.
LEMMA PendingMoves ==
    ASSUME TypeOK, Next
    PROVE  Pending' \subseteq Pending \/ \E m \in MRs : Apply(m) /\ Pending' \subseteq Pending \cup {m}
<1>0. UNCHANGED labels => UNCHANGED Pending
  BY DEF Pending, HasLabel
<1>1. ASSUME NEW S \in SUBSET MRs, NEW l, labels' = Add(S, l), l # "omm-pending"
      PROVE  UNCHANGED Pending
  BY <1>1, AddedLabel DEF Pending
<1>2. ASSUME NEW S, NEW l, labels' = Remove(S, l) PROVE Pending' \subseteq Pending
  BY <1>2, RemovedLabel DEF Pending
<1>3. CASE StartRun
  BY <1>3 DEF StartRun, HealthCheck, Pending, HasLabel, TypeOK
<1>4. CASE ClearLead \/ ClearPending
  BY <1>2, <1>4 DEF ClearLead, ClearPending
<1>5. ASSUME NEW m \in MRs, Serial(m) \/ FormGroup(m) PROVE Pending' \subseteq Pending
  BY <1>0, <1>1, <1>5 DEF Serial, FormGroup
<1>6. ASSUME NEW m \in MRs, Apply(m) PROVE Pending' \subseteq Pending \cup {m}
  <2>1. CASE labels' = [labels EXCEPT ![m] = (@ \ {"omm-pending"}) \cup {"error"}]
    BY <2>1 DEF Pending, HasLabel, TypeOK
  <2>2. CASE labels' = Add({m}, "omm-pending")
    BY <2>2, AddedLabel DEF Pending
  <2> QED BY <1>6, <2>1, <2>2 DEF Apply
<1>7. CASE CheckGroup
  BY <1>0, <1>2, <1>7 DEF CheckGroup
<1>8. ASSUME NEW m \in MRs, Member(m) PROVE Pending' \subseteq Pending
  BY <1>0, <1>1, <1>2, <1>8 DEF Member, Eject, MemberWaits, MemberMerges, MemberIsRebased
<1>9. ASSUME NEW m \in MRs, Relabel(m) PROVE Pending' \subseteq Pending
  BY <1>1, <1>2, <1>9 DEF Relabel
<1> QED
  BY <1>0, <1>3, <1>4, <1>5, <1>6, <1>7, <1>8, <1>9
  DEF Next, RunStep, StartMerging, NothingMerged, Applied, Expand, RebaseQueue, Retry, Crash,
      PipelineEnds, TestsPass, Push, MergeOfOthers, WindowCloses, gitlab

LEMMA ApartStep == ASSUME TypeOK, ApartInv, Next PROVE ApartInv'
<1> DEFINE P == Pending \cap Opened
<1>0. P' \subseteq P \/ \E m \in MRs : Apply(m) /\ P' \subseteq P \cup {m}
  BY PendingMoves, OpenedMoves
<1>1. phase' \in {"serial", "form"} /\ Multi' => P' = {}
  <2> SUFFICES ASSUME phase' \in {"serial", "form"}, Multi' PROVE P' = {}
    OBVIOUS
  <2>1. CASE StartMerging
    <3>1. Leads = {} /\ ~(Multi /\ P # {}) /\ Multi
      BY <2>1 DEF StartMerging, Multi
    <3> QED BY <1>0, <2>1, <3>1 DEF StartMerging, Apply
  <2>2. CASE ClearPending
    <3>1. HasLabel("omm-pending")' = HasLabel("omm-pending") \ Pending
      BY <2>2, RemovedLabel DEF ClearPending
    <3> QED BY <3>1 DEF Pending
  <2>3. CASE phase \in {"serial", "form"} /\ strategy' = strategy /\ \A m \in MRs : ~Apply(m)
    BY <1>0, <2>3 DEF ApartInv, Multi
  <2>4. CASE ~StartMerging /\ ~ClearPending
    <3>1. phase \in {"serial", "form"} /\ strategy' = strategy /\ \A m \in MRs : ~Apply(m)
      BY <2>4
      DEF Next, RunStep, StartRun, ClearLead, NothingMerged, Serial, FormGroup, Apply, Applied, Clear,
          CheckGroup, Member, Eject, MemberWaits, MemberMerges, MemberIsRebased, Expand, RebaseQueue,
          EndRun, Retry, Crash, PipelineEnds, TestsPass, Push, Relabel, MergeOfOthers, WindowCloses
    <3> QED BY <2>3, <3>1
  <2> QED BY <2>1, <2>2, <2>4
<1>2. phase' = "form" => Multi'
  <2>1. ClearPending => phase' # "form"
    BY DEF ClearPending, TypeOK
  <2>2. StartMerging => phase' # "form"
    BY DEF StartMerging
  <2>3. \A m \in MRs : Serial(m) => (phase' = "form" => Multi) /\ strategy' = strategy
    BY DEF Serial
  <2> QED
    BY <2>1, <2>2, <2>3
    DEF Next, RunStep, StartRun, ClearLead, NothingMerged, FormGroup, Apply, Applied, Clear,
        CheckGroup, Member, Eject, MemberWaits, MemberMerges, MemberIsRebased, Expand, RebaseQueue,
        EndRun, Retry, Crash, PipelineEnds, TestsPass, Push, Relabel, MergeOfOthers, WindowCloses, ApartInv, Multi
<1>3. phase' = "members" => P' \subseteq kept' /\ Apart(kept)'
  <2> SUFFICES ASSUME phase' = "members" PROVE P' \subseteq kept' /\ Apart(kept')
    BY DEF Apart
  <2>1. CASE CheckGroup
    <3>1. /\ kept' = Chosen(P, TenantsOf(Leads)) /\ UNCHANGED target
          /\ labels' = Remove(P \ kept', "omm-pending")
      BY <2>1 DEF CheckGroup, Clear
    <3>2. P \in SUBSET MRs
      BY DEF Opened
    <3>3. Apart(kept')
      BY <3>1, <3>2, ChosenIsApart
    <3>4. HasLabel("omm-pending")' = HasLabel("omm-pending") \ (P \ kept')
      BY <3>1, RemovedLabel
    <3>5. Opened' = Opened
      BY <3>1 DEF Opened, Merged, Tip
    <3> QED BY <3>3, <3>4, <3>5 DEF Pending
  <2>2. CASE ~CheckGroup
    <3>1. phase = "members" /\ kept' = kept /\ \A m \in MRs : ~Apply(m)
      <4>1. StartMerging => phase' # "members"
        BY DEF StartMerging
      <4>2. ClearPending => phase' # "members"
        BY DEF ClearPending, TypeOK
      <4> QED
        BY <2>2, <4>1, <4>2
        DEF Next, RunStep, StartRun, ClearLead, NothingMerged, Serial, FormGroup, Apply, Applied, Clear,
            Member, Expand, RebaseQueue, EndRun, Retry, Crash, PipelineEnds, TestsPass, Push, Relabel,
            MergeOfOthers, WindowCloses, local
    <3> QED BY <1>0, <3>1 DEF ApartInv
  <2> QED BY <2>1, <2>2
<1>4. phase' = "apply" => Apart(P' \cup todo')
  <2> SUFFICES ASSUME phase' = "apply" PROVE Apart(P' \cup todo')
    OBVIOUS
  <2>1. ASSUME NEW m \in MRs, FormGroup(m) PROVE Apart(P' \cup todo')
    <3>1. todo' = Candidates(listed, Tenants[m]) /\ listed \in SUBSET MRs
      BY <2>1 DEF FormGroup, TypeOK
    <3>2. P = {}
      BY <2>1 DEF FormGroup, ApartInv
    <3>3. P' = {}
      BY <1>0, <2>1, <3>2 DEF FormGroup, Apply
    <3>4. Apart(todo')
      BY <3>1, CandidatesAreApart
    <3> HIDE DEF P
    <3> QED BY <3>3, <3>4, ApartSubset
  <2>2. CASE Expand
    <3>1. todo' = Candidates(listed \ kept, TenantsOf(Leads \cup kept)) /\ phase = "members"
      BY <2>2 DEF Expand
    <3>2. listed \ kept \in SUBSET MRs
      BY DEF TypeOK
    <3>3. Apart(todo') /\ \A m \in todo' : Tenants[m] \cap TenantsOf(Leads \cup kept) = {}
      BY <3>1, <3>2, CandidatesAreApart
    <3>4. P' \subseteq kept /\ Apart(kept)
      BY <1>0, <2>2, <3>1 DEF ApartInv, Expand, Apply
    <3>5. ASSUME NEW m \in todo', NEW n \in kept
          PROVE  Tenants[m] \cap Tenants[n] = {} /\ Tenants[n] \cap Tenants[m] = {}
      BY <3>3 DEF TenantsOf
    <3> HIDE DEF P
    <3> QED BY <3>3, <3>4, <3>5 DEF Apart
  <2>3. ASSUME NEW m \in MRs, Apply(m) PROVE Apart(P' \cup todo')
    <3>1. phase = "apply" /\ m \in todo /\ todo' \subseteq todo
      BY <2>3 DEF Apply
    <3>2. P' \subseteq P \cup {m}
      <4>1. Pending' \subseteq Pending \cup {m}
        <5>1. CASE labels' = [labels EXCEPT ![m] = (@ \ {"omm-pending"}) \cup {"error"}]
          BY <5>1 DEF Pending, HasLabel, TypeOK
        <5>2. CASE labels' = Add({m}, "omm-pending")
          BY <5>2, AddedLabel DEF Pending
        <5> QED BY <2>3, <5>1, <5>2 DEF Apply
      <4> QED BY <4>1, OpenedMoves
    <3>3. Apart(P \cup todo)
      BY <3>1 DEF ApartInv
    <3>4. P' \cup todo' \in SUBSET (P \cup todo)
      BY <3>1, <3>2
    <3> QED BY <3>3, <3>4, ApartSubset
  <2>4. CASE phase = "apply" /\ todo' = todo /\ \A m \in MRs : ~Apply(m)
    <3>1. P' \cup todo' \in SUBSET (P \cup todo)
      BY <1>0, <2>4
    <3> QED BY <2>4, <3>1, ApartSubset DEF ApartInv
  <2>5. \/ Expand \/ \E m \in MRs : FormGroup(m) \/ Apply(m)
        \/ phase = "apply" /\ todo' = todo
    <3>1. StartMerging => phase' # "apply"
      BY DEF StartMerging
    <3>2. ClearPending => phase' # "apply"
      BY DEF ClearPending, TypeOK
    <3> QED
      BY <3>1, <3>2
      DEF Next, RunStep, StartRun, ClearLead, NothingMerged, Serial, Applied, Clear, CheckGroup,
          Member, Eject, MemberWaits, MemberMerges, MemberIsRebased, RebaseQueue, EndRun, Retry,
          Crash, PipelineEnds, TestsPass, Push, Relabel, MergeOfOthers, WindowCloses, local
  <2> QED BY <2>1, <2>2, <2>3, <2>4, <2>5
<1>5. Apart(P')
  <2>1. CASE P' \subseteq P
    BY <2>1, ApartSubset DEF ApartInv
  <2>2. ASSUME NEW m \in MRs, Apply(m), P' \subseteq P \cup {m} PROVE Apart(P')
    <3>1. Apart(P \cup todo) /\ P' \in SUBSET (P \cup todo)
      BY <2>2 DEF Apply, ApartInv
    <3> QED BY <3>1, ApartSubset
  <2> QED BY <1>0, <2>1, <2>2
<1> QED BY <1>1, <1>2, <1>3, <1>4, <1>5 DEF ApartInv, Apart

LEMMA OneMergeStep ==
    ASSUME TypeOK, MembersInv, OneMergePerRun, Next
    PROVE  OneMergePerRun'
<1>1. merges \in Nat /\ merges <= 1
  BY DEF TypeOK, OneMergePerRun
<1>2. ASSUME NEW m \in MRs, Member(m) PROVE merges' <= 1
  <2>1. CASE MemberMerges(m)
    <3>1. merges = 0
      BY <1>2, <2>1 DEF Member, MemberMerges, MayMerge, IsRebased, MembersInv
    <3>2. merges' = merges \/ merges' = merges + 1
      BY <2>1 DEF MemberMerges
    <3> QED BY <3>1, <3>2
  <2>2. CASE merges' = merges
    BY <1>1, <2>2
  <2> QED BY <1>2, <2>1, <2>2 DEF Member, Eject, MemberWaits, MemberIsRebased
<1>3. ASSUME NEW m \in MRs, Serial(m) PROVE merges' <= 1
  <2>1. merges' = 1 \/ merges' = merges
    BY <1>3 DEF Serial
  <2> QED BY <1>1, <2>1
<1>4. ASSUME merges' = merges \/ merges' = 0 PROVE merges' <= 1
  BY <1>1, <1>4
<1>5. \/ merges' = merges \/ merges' = 0
      \/ \E m \in MRs : Serial(m) \/ Member(m)
  BY DEF Next, RunStep, StartRun, StartMerging, ClearLead, ClearPending, NothingMerged, FormGroup,
         Apply, Applied, CheckGroup, Expand, RebaseQueue, EndRun, Retry, Crash, PipelineEnds, TestsPass, Push,
         Relabel, MergeOfOthers, WindowCloses, local
<1> QED BY <1>2, <1>3, <1>4, <1>5 DEF OneMergePerRun
-----------------------------------------------------------------------------
(* The theorems. *)

LEMMA IInvInit == ASSUME Init PROVE IInv
<1>1. target = <<>> /\ Tip = 0 /\ Leads = {} /\ Pending = {} /\ 1..Tip = {}
  BY EmptySeq DEF Init, Tip, Leads, Pending, HasLabel
<1>2. HowInv /\ LeadInv /\ SerialMergesAreTested /\ GroupMergesOnGroup
  BY <1>1 DEF Init, HowInv, LeadInv, SerialMergesAreTested, GroupMergesOnGroup
<1>3. TestedInv /\ MembersInv /\ ListInv /\ OneMergePerRun
  BY DEF Init, TestedInv, MembersInv, ListInv, OneMergePerRun
<1>4. ApartInv
  BY <1>1 DEF Init, ApartInv, Apart
<1> QED BY <1>2, <1>3, <1>4, TypeInit DEF IInv

LEMMA IInvStays == ASSUME IInv, UNCHANGED vars PROVE IInv'
<1> USE DEF vars, gitlab, local, bounds, history, IInv, Tip
<1>1. TypeOK'
  BY DEF TypeOK
<1>2. Leads' = Leads /\ Pending' = Pending /\ Opened' = Opened /\ HasLabel("hold")' = HasLabel("hold")
  BY DEF Leads, Pending, HasLabel, Opened, Merged
<1>3. HowInv' /\ TestedInv' /\ SerialMergesAreTested' /\ GroupMergesOnGroup' /\ OneMergePerRun'
  BY DEF HowInv, TestedInv, SerialMergesAreTested, Untested, GroupMergesOnGroup, OneMergePerRun
<1>4. LeadInv'
  <2>1. FirstOf(todo, 1)' = FirstOf(todo, 1)
    BY DEF FirstOf
  <2>2. target' = target /\ phase' = phase /\ LeadInv
    OBVIOUS
  <2> HIDE DEF IInv, vars, gitlab, local, bounds, history
  <2>3. (phase = "form" => \A m \in MRs : FirstOf(todo, 1) = {m} =>
          \E l \in 1..Tip : /\ target[l].mr = m /\ target[l].how = "serial"
                           /\ \A j \in l + 1..Tip : target[j].how = "external")'
    <3>1. SUFFICES ASSUME phase = "form", NEW m \in MRs, FirstOf(todo, 1) = {m}
                   PROVE \E l \in 1..Tip :
                           /\ target[l].mr = m /\ target[l].how = "serial"
                           /\ \A j \in l + 1..Tip : target[j].how = "external"
      BY <2>1, <2>2
    <3> QED BY <2>2, <3>1 DEF LeadInv
  <2> QED BY <1>2, <2>2, <2>3 DEF LeadInv
<1>5. MembersInv'
  BY DEF MembersInv, TailIsGroup
<1>6. ListInv' /\ ApartInv'
  BY <1>2 DEF ListInv, ApartInv, Apart, Multi
<1> QED BY <1>1, <1>3, <1>4, <1>5, <1>6

LEMMA IInvAlways == Spec => []IInv
<1>1. IInv /\ Next => IInv'
  BY TypeStep, HowStep, LeadStep, TestedStep, MembersStep, ListStep, ApartStep, SerialStep,
     GroupStep, OneMergeStep
  DEF IInv
<1>2. IInv /\ [Next]_vars => IInv'
  BY <1>1, IInvStays
<1> QED BY IInvInit, <1>2, PTL DEF Spec

\* GitLab's labels, branches and pipelines, and the run's lists, are of their types;
\* a merge request is merged once.
THEOREM TypeCorrect == Spec => []TypeOK
<1>1. IInv => TypeOK
  BY DEF IInv
<1> QED BY IInvAlways, <1>1, PTL

\* Without a group a merge request is merged on the very commit its pipeline ran on.
THEOREM SerialIsTested == Spec => []SerialMergesAreTested
<1>1. IInv => SerialMergesAreTested
  BY DEF IInv
<1> QED BY IInvAlways, <1>1, PTL

\* Since the lead of a group, nothing but its members is below one of them.
THEOREM GroupIsIntact == Spec => []GroupMergesOnGroup
<1>1. IInv => GroupMergesOnGroup
  BY DEF IInv
<1> QED BY IInvAlways, <1>1, PTL

\* One group at a time, of merge requests that share no tenant.
THEOREM GroupIsOne == Spec => []OneGroup
<1>1. IInv => OneGroup
  <2> SUFFICES ASSUME IInv PROVE OneGroup
    OBVIOUS
  <2>1. Cardinality(Leads) <= 1
    <3>1. CASE Leads = {}
      BY <3>1, FS_EmptySet
    <3>2. CASE Leads # {}
      <4>1. PICK m : Leads = {m}
        BY <3>2 DEF IInv, LeadInv
      <4>2. Cardinality({m}) = 1
        BY FS_Singleton
      <4> QED BY <4>1, <4>2
    <3> QED BY <3>1, <3>2
  <2> QED BY <2>1 DEF OneGroup, IInv, ApartInv, Apart
<1> QED BY IInvAlways, <1>1, PTL

\* A run merges at most one merge request for every time it starts to merge.
THEOREM RunMergesOne == Spec => []OneMergePerRun
<1>1. IInv => OneMergePerRun
  BY DEF IInv
<1> QED BY IInvAlways, <1>1, PTL

\* No run merges what has been held since it began.
THEOREM HeldStaysOpen == Spec => HeldIsNotMerged
<1>1. IInv /\ [Next]_vars => [\A m \in held : m \in Opened']_vars
  <2> SUFFICES ASSUME IInv, Next, NEW m \in held, m \notin Opened' PROVE FALSE
    OBVIOUS
  <2>1. m \in Opened /\ TypeOK /\ ListInv
    BY DEF IInv, ListInv
  <2>2. CASE Serial(m)
    <3>1. phase = "serial" /\ m \in todo
      BY <2>2, FirstOfIsIn DEF Serial
    <3> QED BY <2>1, <3>1 DEF ListInv
  <2>3. CASE Member(m) /\ MemberMerges(m)
    <3>1. phase = "members" /\ m \in todo /\ m \notin marked
      BY <2>3 DEF Member, MemberMerges, Leaves
    <3> QED BY <2>1, <3>1 DEF ListInv
  <2> QED BY <2>1, <2>2, <2>3, OpenedMoves
<1> QED BY IInvAlways, <1>1, PTL DEF Spec, HeldIsNotMerged
=============================================================================
