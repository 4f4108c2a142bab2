------------------------- MODULE Deployments_proofs -------------------------
(***************************************************************************)
(* What the triggers, the pipeline runs and the promotion gate of SaaS       *)
(* files keep to, for any targets, jobs, channels and pipeline runs, and any *)
(* number of commits, changes and faults.                                   *)
(***************************************************************************)
EXTENDS Deployments, FiniteSetTheorems, TLAPS

\* A target that names a commit names one of the branch.
WantedInv == \A t \in Targets \ Moving : wanted[t] <= head

\* A pipeline run has commits for targets of its job only, and for each it still
\* works at; it has read promotion data only while it publishes.
RunInv ==
    \A r \in Runs :
        /\ run[r].phase # "none" => run[r].job \in Jobs
        /\ \A t \in Targets : run[r].commit[t] # None => JobOf[t] = run[r].job
        /\ run[r].phase \in {"validate", "apply"} =>
            /\ run[r].left \subseteq Targets
            /\ \A t \in run[r].left : run[r].commit[t] # None
        /\ run[r].phase = "publish" =>
            /\ run[r].left \subseteq Publications
            /\ \A x \in run[r].left : run[r].commit[x[2]] # None
            /\ \A p \in run[r].read : run[r].commit[p.of[2]] # None
        /\ run[r].phase # "publish" => run[r].read = {}

TypeInv == TypeOK /\ WantedInv /\ RunInv

\* What makes commit v good for target t: all publishers have had it without error.
ProvenFor(t, v) ==
    \A c \in Subscribes[t] : \A p \in PublishersOf(c) : proven[p][v] # None

\* What a pipeline run still applies has passed the gate.
GateOf(rec) ==
    rec.phase = "apply" => \A t \in rec.left : ProvenFor(t, rec.commit[t])

\* What a pipeline run has read of a success, or is about to write of its own, is
\* of one there was.
ResultsOf(rec) ==
    rec.phase = "publish" =>
        /\ \A p \in rec.read :
            p.old.success \/ p.old.once \/ rec.success =>
                proven[p.of[2]][rec.commit[p.of[2]]] # None
        /\ \A x \in rec.left : rec.success => proven[x[2]][rec.commit[x[2]]] # None

\* Promotion data speak of success only where there was one.
DataInv ==
    \A x \in Publications, v \in Commits :
        data[x][v].success \/ data[x][v].once => proven[x[2]][v] # None

GateInv ==
    /\ DataInv
    /\ \A r \in Runs : GateOf(run[r]) /\ ResultsOf(run[r])
    /\ \A t \in Targets : deployed[t] # None => ProvenFor(t, deployed[t])

\* Pipeline runs of a job that are in progress at once have made it overlapped.
OverlapInv ==
    \A r, s \in Runs :
        /\ run[r].phase \notin {"none", "created"}
        /\ run[s].phase \notin {"none", "created"}
        /\ run[r].job = run[s].job
        /\ r # s
        => run[r].job \in overlapped

\* No run has read a failure where there is a success by now, unless another run
\* of its job has been in progress as well.
ReadOf(rec) ==
    rec.phase = "publish" /\ rec.job \notin overlapped =>
        \A p \in rec.read : data[p.of][rec.commit[p.of[2]]].once => p.old.once

ReadInv == \A r \in Runs : ReadOf(run[r])

\* What a trigger saves was current before and is more than what it has saved.
ContentInv ==
    /\ \A t \in Moving : recorded["moving-commits"][t] # None
    /\ \A k \in Triggers, t \in Targets :
        /\ t \in Triggering(k) => recorded[k][t] <= Current(k, t)
        /\ specs[k][t] # "none" =>
            /\ t \in Triggering(k)
            /\ recorded[k][t] < content[k][t]
            /\ content[k][t] <= Current(k, t)

\* The difference of a target that is still going to lead to a pipeline run.
Waits(k, t) ==
    /\ t \in Triggering(k)
    /\ recorded[k][t] < Current(k, t)
    /\ \/ specs[k][t] \in {"none", "create"}
       \/ specs[k][t] = "register" /\ JobOf[t] \notin registered[k]
       \/ content[k][t] < Current(k, t)

WaitInv ==
    \A x \in untriggered : \E k \in Triggers : \E t \in TargetsOf(JobOf[x[2]]) : Waits(k, t)
-----------------------------------------------------------------------------
RunType == [phase : {"none", "created", "validate", "apply", "publish"},
            job : Jobs \cup {None},
            commit : [Targets -> Commits \cup {None}],
            left : SUBSET (Targets \cup Publications),
            read : SUBSET [of : Publications, old : PromotionData],
            success : BOOLEAN]

\* The constants are numbers, commits and days are, and what is wanted may be any
\* of the commits.
LEMMA ConstantTypes ==
    /\ MaxCommit \in Nat /\ MaxMerges \in Nat /\ MaxSoak \in Nat /\ MaxFaults \in Nat
    /\ Commits \subseteq Int /\ Wanted \subseteq Int /\ Days \subseteq Nat
    /\ Commits \subseteq Wanted /\ 0 \in Commits /\ 0 \in Days /\ MaxSoak \in Days
    /\ None \notin Commits /\ None \notin Days
    /\ \A t \in Targets : JobOf[t] \in Jobs
    /\ Moving \subseteq Targets /\ New \subseteq Targets
BY DeploymentsAssumption DEF Commits, Wanted, Days, None

LEMMA FreeType == Free \in RunType
BY DEF Free, RunType

\* What a trigger compares is a commit or the number of a configuration.
LEMMA CurrentType ==
    ASSUME TypeOK, NEW k \in Triggers, NEW t \in Targets
    PROVE  Current(k, t) \in Wanted
BY ConstantTypes DEF TypeOK, Current

\* A publication is one of a target.
LEMMA PublicationTarget ==
    ASSUME NEW x \in Publications
    PROVE  x[2] \in Targets /\ x[1] \in Channels /\ x = <<x[1], x[2]>> /\ x[1] \in Publishes[x[2]]
BY DEF Publications

\* Days go on from days, and from none to none.
LEMMA OlderType ==
    ASSUME NEW d \in Days \cup {None}
    PROVE  /\ Older(d) \in Days \cup {None}
           /\ Older(d) = None <=> d = None
BY ConstantTypes DEF Older, Days, None

LEMMA TypeInit == ASSUME Init PROVE TypeInv
<1> USE ConstantTypes
<1>1. TypeOK
  <2>1. /\ recorded \in [Triggers -> [Targets -> Wanted \cup {None}]]
        /\ deployed \in [Targets -> Commits \cup {None}]
        /\ proven \in [Targets -> [Commits -> Days \cup {None}]]
        /\ wanted \in [Targets -> Wanted] /\ content \in [Triggers -> [Targets -> Wanted]]
        /\ head \in Commits /\ merges \in Nat /\ faults \in Nat
    BY DEF Init
  <2>2. data \in [Publications -> [Commits -> PromotionData]]
    BY DEF Init, PromotionData, Nothing
  <2>3. run \in [Runs -> RunType]
    BY FreeType DEF Init
  <2>4. /\ specs \in [Triggers -> [Targets -> SpecPhases]]
        /\ registered \in [Triggers -> SUBSET Jobs]
        /\ untriggered \subseteq Triggers \X Targets
        /\ overlapped \subseteq Jobs
    BY DEF Init, SpecPhases, Triggers
  <2> QED BY <2>1, <2>2, <2>3, <2>4 DEF TypeOK, RunType
<1>2. WantedInv
  BY DEF Init, WantedInv
<1>3. RunInv
  BY DEF Init, RunInv, Free
<1> QED BY <1>1, <1>2, <1>3 DEF TypeInv

\* One pipeline run of another state leaves the others as they are.
LEMMA RunSet ==
    ASSUME TypeOK, RunInv, NEW r \in Runs, NEW new \in RunType, Set(r, new),
           new.phase # "none" => new.job \in Jobs,
           \A t \in Targets : new.commit[t] # None => JobOf[t] = new.job,
           new.phase \in {"validate", "apply"} =>
             new.left \subseteq Targets /\ \A t \in new.left : new.commit[t] # None,
           new.phase = "publish" =>
             /\ new.left \subseteq Publications
             /\ \A x \in new.left : new.commit[x[2]] # None
             /\ \A p \in new.read : new.commit[p.of[2]] # None,
           new.phase # "publish" => new.read = {}
    PROVE  run' \in [Runs -> RunType] /\ RunInv'
<1>1. run \in [Runs -> RunType]
  BY DEF TypeOK, RunType
<1>2. run'[r] = new /\ \A s \in Runs : s # r => run'[s] = run[s]
  BY <1>1 DEF Set
<1>3. run' \in [Runs -> RunType]
  BY <1>1 DEF Set
<1> QED BY <1>2, <1>3 DEF RunInv

LEMMA RunSetFree ==
    ASSUME TypeOK, RunInv, NEW r \in Runs, Set(r, Free)
    PROVE  run' \in [Runs -> RunType] /\ RunInv'
BY RunSet, FreeType DEF Free
\* Every step keeps types, and what pipeline runs work at.
LEMMA TypeStep == ASSUME TypeInv, Next PROVE TypeInv'
<1> USE ConstantTypes DEF TypeInv
<1>0. run \in [Runs -> RunType]
  BY DEF TypeOK, RunType
<1>1. ASSUME NEW k \in Triggers, GetDiff(k) PROVE TypeInv'
  <2>1. \A t \in Targets : Current(k, t) \in Wanted
    BY CurrentType
  <2>2. /\ specs' \in [Triggers -> [Targets -> SpecPhases]]
        /\ content' \in [Triggers -> [Targets -> Wanted]]
        /\ recorded' \in [Triggers -> [Targets -> Wanted \cup {None}]]
        /\ registered' \in [Triggers -> SUBSET Jobs]
    BY <1>1, <2>1 DEF GetDiff, TypeOK, SpecPhases
  <2> QED BY <1>1, <2>2 DEF GetDiff, TypeOK, WantedInv, RunInv, world, history
<1>2. ASSUME NEW k \in Triggers, NEW t \in Targets, Register(k, t) PROVE TypeInv'
  <2>1. /\ specs' \in [Triggers -> [Targets -> SpecPhases]]
        /\ registered' \in [Triggers -> SUBSET Jobs]
    BY <1>2 DEF Register, TypeOK, SpecPhases
  <2> QED BY <1>2, <2>1 DEF Register, TypeOK, WantedInv, RunInv, world, history
<1>3. ASSUME NEW k \in Triggers, NEW t \in Targets, Create(k, t) PROVE TypeInv'
  <2>1. PICK r \in Runs : run[r] = Free /\ run' = [run EXCEPT ![r].phase = "created", ![r].job = JobOf[t]]
    BY <1>3 DEF Create
  <2> DEFINE new == [Free EXCEPT !.phase = "created", !.job = JobOf[t]]
  <2>2. new \in RunType /\ new.phase = "created" /\ new.read = {} /\ new.job \in Jobs
        /\ \A u \in Targets : new.commit[u] = None
    BY FreeType DEF Free, RunType
  <2>3. Set(r, new)
    BY <1>0, <2>1 DEF Set
  <2> HIDE DEF new
  <2>4. run' \in [Runs -> RunType] /\ RunInv'
    BY <2>2, <2>3, RunSet
  <2>5. specs' \in [Triggers -> [Targets -> SpecPhases]] /\ untriggered' \subseteq Triggers \X Targets
    BY <1>3 DEF Create, TypeOK, SpecPhases
  <2> QED BY <1>3, <2>4, <2>5 DEF Create, TypeOK, RunType, WantedInv, world
<1>4. ASSUME NEW k \in Triggers, NEW t \in Targets, CreateFails(k, t) PROVE TypeInv'
  <2>1. specs' \in [Triggers -> [Targets -> SpecPhases]] /\ faults' \in Nat
    BY <1>4 DEF CreateFails, AfterFailure, Fault, TypeOK, SpecPhases
  <2> QED BY <1>4, <2>1 DEF CreateFails, TypeOK, WantedInv, RunInv, world, history
<1>5. ASSUME NEW k \in Triggers, NEW t \in Targets, UpdateState(k, t) PROVE TypeInv'
  <2>1. /\ specs' \in [Triggers -> [Targets -> SpecPhases]]
        /\ content' \in [Triggers -> [Targets -> Wanted]]
        /\ recorded' \in [Triggers -> [Targets -> Wanted \cup {None}]]
    BY <1>5 DEF UpdateState, TypeOK, SpecPhases
  <2> QED BY <1>5, <2>1 DEF UpdateState, TypeOK, WantedInv, RunInv, world, history
<1>6. ASSUME NEW k \in Triggers, TriggerDies(k) PROVE TypeInv'
  <2>1. /\ specs' \in [Triggers -> [Targets -> SpecPhases]]
        /\ content' \in [Triggers -> [Targets -> Wanted]]
        /\ registered' \in [Triggers -> SUBSET Jobs]
        /\ faults' \in Nat
    BY <1>6 DEF TriggerDies, Fault, TypeOK, SpecPhases
  <2> QED BY <1>6, <2>1 DEF TriggerDies, TypeOK, WantedInv, RunInv, world, history
<1>7. ASSUME NEW r \in Runs, PopulateDesiredState(r) PROVE TypeInv'
  <2>1. PICK failing \in SUBSET TargetsOf(run[r].job) :
          LET j == run[r].job  populated == TargetsOf(j) \ failing IN
          /\ IF failing = {} THEN UNCHANGED faults ELSE Fault
          /\ Set(r, [run[r] EXCEPT
               !.phase = "validate", !.left = populated, !.success = failing = {},
               !.commit = [t \in Targets |-> IF t \notin populated THEN None
                                             ELSE IF t \in Moving THEN head ELSE wanted[t]]])
          /\ overlapped' = overlapped \cup (IF InProgress(j) = {} THEN {} ELSE {j})
    BY <1>7 DEF PopulateDesiredState
  <2> DEFINE populated == TargetsOf(run[r].job) \ failing
             commit == [t \in Targets |-> IF t \notin populated THEN None
                                          ELSE IF t \in Moving THEN head ELSE wanted[t]]
             new == [run[r] EXCEPT !.phase = "validate", !.left = populated,
                                   !.success = failing = {}, !.commit = commit]
  <2>2. populated \subseteq Targets /\ \A t \in populated : JobOf[t] = run[r].job
    BY DEF TargetsOf
  <2>3. ASSUME NEW t \in Targets
        PROVE  commit[t] \in Commits \cup {None} /\ (t \in populated => commit[t] # None)
    BY DEF TypeOK, WantedInv, Commits, Wanted, None
  <2>4. commit \in [Targets -> Commits \cup {None}]
    BY <2>3
  <2>5. /\ new.phase = "validate" /\ new.left = populated /\ new.commit = commit
        /\ new.job = run[r].job /\ new.read = {} /\ new.success \in BOOLEAN
        /\ new \in RunType
    <3>1. run[r] \in RunType /\ run[r].read = {}
      BY <1>0, <1>7 DEF PopulateDesiredState, RunInv
    <3>2. (failing = {}) \in BOOLEAN
      OBVIOUS
    <3> HIDE DEF commit, populated
    <3> QED BY <2>2, <2>4, <3>1, <3>2 DEF RunType
  <2>6. \A t \in Targets : commit[t] # None => JobOf[t] = run[r].job
    BY <2>2
  <2>7. Set(r, new)
    BY <2>1
  <2>8. faults' \in Nat /\ overlapped' \subseteq Jobs
    <3>1. run[r].job \in Jobs
      BY <1>7 DEF PopulateDesiredState, RunInv
    <3> QED BY <2>1, <3>1 DEF TypeOK, Fault
  <2> HIDE DEF new, commit, populated
  <2>9. run' \in [Runs -> RunType] /\ RunInv'
    <3>1. run[r].job \in Jobs
      BY <1>7 DEF PopulateDesiredState, RunInv
    <3> QED BY <2>2, <2>3, <2>5, <2>6, <2>7, <3>1, RunSet
  <2> QED BY <1>7, <2>8, <2>9 DEF PopulateDesiredState, TypeOK, RunType, WantedInv, world, triggers
<1>8. ASSUME NEW r \in Runs, ValidatePromotions(r) PROVE TypeInv'
  <2> DEFINE new == [run[r] EXCEPT !.phase = "apply"]
  <2>1. /\ run[r].phase = "validate" /\ run[r] \in RunType
        /\ Set(r, new) \/ Set(r, Free)
    BY <1>0, <1>8 DEF ValidatePromotions
  <2>2. /\ new.phase = "apply" /\ new \in RunType
        /\ new.left = run[r].left /\ new.commit = run[r].commit /\ new.job = run[r].job
        /\ new.read = run[r].read
    BY <2>1 DEF RunType
  <2> HIDE DEF new
  <2>3. run' \in [Runs -> RunType] /\ RunInv'
    <3>1. CASE Set(r, new)
      BY <2>1, <2>2, <3>1, RunSet DEF RunInv
    <3>2. CASE Set(r, Free)
      BY <3>2, RunSetFree
    <3> QED BY <2>1, <3>1, <3>2
  <2> QED BY <1>8, <2>3 DEF ValidatePromotions, TypeOK, RunType, WantedInv, world, triggers, history
<1>9. ASSUME NEW r \in Runs, NEW t \in Targets, Apply(r, t) PROVE TypeInv'
  <2>1. PICK new \in {[run[r] EXCEPT !.left = @ \ {t}],
                      [run[r] EXCEPT !.left = @ \ {t}, !.success = FALSE]} : Set(r, new)
    BY <1>9 DEF Apply
  <2>2. /\ run[r].phase = "apply" /\ t \in run[r].left /\ run[r] \in RunType
    BY <1>0, <1>9 DEF Apply
  <2>3. /\ new.phase = "apply" /\ new \in RunType
        /\ new.left = run[r].left \ {t} /\ new.commit = run[r].commit /\ new.job = run[r].job
        /\ new.read = run[r].read
    BY <2>1, <2>2 DEF RunType
  <2>4. run' \in [Runs -> RunType] /\ RunInv'
    BY <2>1, <2>2, <2>3, RunSet DEF RunInv
  <2>5. deployed' \in [Targets -> Commits \cup {None}] /\ faults' \in Nat
    <3>1. run[r].commit[t] \in Commits \cup {None}
      BY <2>2 DEF RunType
    <3>2. deployed' \in {deployed, [deployed EXCEPT ![t] = run[r].commit[t]]}
      BY <1>9 DEF Apply
    <3>3. faults' \in {faults, faults + 1}
      BY <1>9 DEF Apply, Fault
    <3>4. deployed \in [Targets -> Commits \cup {None}] /\ faults \in Nat
      BY DEF TypeOK
    <3>5. deployed' \in [Targets -> Commits \cup {None}]
      BY <3>1, <3>2, <3>4
    <3> QED BY <3>3, <3>4, <3>5
  <2> QED BY <1>9, <2>4, <2>5 DEF Apply, TypeOK, RunType, WantedInv, world, triggers, history
<1>10. ASSUME NEW r \in Runs, StartPublishing(r) PROVE TypeInv'
  <2> DEFINE publications == {x \in Publications : run[r].commit[x[2]] # None}
             new == [run[r] EXCEPT !.phase = "publish", !.left = publications]
  <2>1. /\ run[r].phase = "apply" /\ run[r] \in RunType
        /\ Set(r, new) \/ Set(r, Free)
    BY <1>0, <1>10 DEF StartPublishing
  <2>2. run[r].read = {} /\ run[r].job \in Jobs
    BY <2>1 DEF RunInv
  <2>3. /\ new.phase = "publish" /\ new \in RunType
        /\ new.left = publications /\ new.commit = run[r].commit /\ new.job = run[r].job
        /\ new.read = {}
    BY <2>1, <2>2 DEF RunType
  <2>4. run' \in [Runs -> RunType] /\ RunInv'
    <3>1. CASE Set(r, new)
      <4>1. \A t \in Targets : new.commit[t] # None => JobOf[t] = new.job
        BY <2>3 DEF RunInv
      <4>2. new.left \subseteq Publications /\ \A x \in new.left : new.commit[x[2]] # None
        BY <2>3
      <4> HIDE DEF new
      <4> QED BY <2>2, <2>3, <3>1, <4>1, <4>2, RunSet
    <3>2. CASE Set(r, Free)
      BY <3>2, RunSetFree
    <3> QED BY <2>1, <3>1, <3>2
  <2>5. proven' \in [Targets -> [Commits -> Days \cup {None}]]
    BY <1>10 DEF StartPublishing, TypeOK
  <2> QED BY <1>10, <2>4, <2>5 DEF StartPublishing, TypeOK, RunType, WantedInv, world, triggers
<1>11. ASSUME NEW r \in Runs, NEW x \in Publications, ReadPromotionData(r, x) PROVE TypeInv'
  <2> DEFINE p == [of |-> x, old |-> data[x][run[r].commit[x[2]]]]
             new == [run[r] EXCEPT !.left = @ \ {x}, !.read = {p}]
  <2>1. /\ run[r].phase = "publish" /\ x \in run[r].left /\ run[r] \in RunType
        /\ Set(r, new)
    BY <1>0, <1>11 DEF ReadPromotionData
  <2>2. run[r].commit[x[2]] \in Commits
    BY <2>1, PublicationTarget DEF RunType, RunInv
  <2>3. p \in [of : Publications, old : PromotionData] /\ p.of = x
    BY <2>2 DEF TypeOK
  <2> HIDE DEF p
  <2>4. /\ new.phase = "publish" /\ new \in RunType
        /\ new.left = run[r].left \ {x} /\ new.commit = run[r].commit /\ new.job = run[r].job
        /\ new.read = {p}
    BY <2>1, <2>3 DEF RunType
  <2> HIDE DEF new
  <2>5. run' \in [Runs -> RunType] /\ RunInv'
    BY <2>1, <2>2, <2>3, <2>4, RunSet DEF RunInv
  <2> QED BY <1>11, <2>5 DEF ReadPromotionData, TypeOK, RunType, WantedInv, world, triggers, history
<1>12. ASSUME NEW r \in Runs, PublishPromotionData(r) PROVE TypeInv'
  <2>1. PICK p \in run[r].read :
        /\ data' = [data EXCEPT ![p.of][run[r].commit[p.of[2]]] =
             [success |-> run[r].success,
              once |-> Once(p.old, run[r].success),
              days |-> CheckIn(p.old, run[r].success)]]
        /\ Set(r, IF run[r].left = {} THEN Free ELSE [run[r] EXCEPT !.read = {}])
    BY <1>12 DEF PublishPromotionData
  <2>2. run[r].phase = "publish" /\ run[r] \in RunType
    BY <1>0, <1>12 DEF PublishPromotionData
  <2>3. p \in [of : Publications, old : PromotionData] /\ run[r].commit[p.of[2]] \in Commits
    <3>1. p \in [of : Publications, old : PromotionData] /\ run[r].commit[p.of[2]] # None
      BY <2>1, <2>2 DEF RunType, RunInv
    <3> QED BY <2>2, <3>1, PublicationTarget DEF RunType
  <2>4. data' \in [Publications -> [Commits -> PromotionData]]
    <3>1. [success |-> run[r].success, once |-> Once(p.old, run[r].success),
           days |-> CheckIn(p.old, run[r].success)] \in PromotionData
      BY <2>2, <2>3 DEF Once, CheckIn, PromotionData, Nothing, RunType
    <3> QED BY <2>1, <2>3, <3>1 DEF TypeOK
  <2>5. run' \in [Runs -> RunType] /\ RunInv'
    <3>1. CASE run[r].left = {}
      BY <2>1, <3>1, RunSetFree
    <3>2. CASE run[r].left # {}
      <4> DEFINE new == [run[r] EXCEPT !.read = {}]
      <4>1. /\ new.phase = "publish" /\ new \in RunType
            /\ new.left = run[r].left /\ new.commit = run[r].commit /\ new.job = run[r].job
            /\ new.read = {} /\ Set(r, new)
        BY <2>1, <2>2, <3>2 DEF RunType
      <4> HIDE DEF new
      <4> QED BY <2>2, <4>1, RunSet DEF RunInv
    <3> QED BY <3>1, <3>2
  <2> QED BY <1>12, <2>4, <2>5 DEF PublishPromotionData, TypeOK, RunType, WantedInv, world, triggers, history
<1>13. ASSUME NEW r \in Runs, RunDies(r) PROVE TypeInv'
  <2>1. run' \in [Runs -> RunType] /\ RunInv' /\ faults' \in Nat
    BY <1>13, RunSetFree DEF RunDies, Fault, TypeOK
  <2> QED BY <1>13, <2>1 DEF RunDies, TypeOK, RunType, WantedInv, world, triggers, history
<1>14. ASSUME NEW t \in Targets, Merge(t) PROVE TypeInv'
  <2>1. PICK w \in IF t \in Moving THEN Wanted ELSE 0..head : wanted' = [wanted EXCEPT ![t] = w]
    BY <1>14 DEF Merge
  <2>2. w \in Wanted /\ (t \notin Moving => w <= head)
    BY <2>1 DEF TypeOK, Commits, Wanted
  <2>3. wanted' \in [Targets -> Wanted] /\ WantedInv'
    BY <1>14, <2>1, <2>2 DEF Merge, TypeOK, WantedInv
  <2>4. merges' \in Nat /\ untriggered' \subseteq Triggers \X Targets
    BY <1>14 DEF Merge, TypeOK, Triggers
  <2> QED BY <1>14, <2>3, <2>4 DEF Merge, TypeOK, RunInv, triggers
<1>15. CASE Push
  <2>1. head' \in Commits /\ head' > head
    BY <1>15 DEF Push, TypeOK, Commits
  <2>2. untriggered' \subseteq Triggers \X Targets
    BY <1>15 DEF Push, TypeOK, Triggers
  <2>3. WantedInv'
    <3>1. wanted' = wanted /\ head \in Int /\ head' \in Int
      BY <1>15, <2>1 DEF Push, TypeOK
    <3>2. \A t \in Targets : wanted[t] \in Int
      BY DEF TypeOK
    <3> QED BY <2>1, <3>1, <3>2 DEF WantedInv
  <2> QED BY <1>15, <2>1, <2>2, <2>3 DEF Push, TypeOK, RunInv, triggers
<1>16. CASE DayPasses
  <2>1. ASSUME NEW d \in PromotionData PROVE [d EXCEPT !.days = Older(@)] \in PromotionData
    <3>1. CASE d = Nothing
      BY <3>1 DEF PromotionData, Nothing, Older
    <3>2. CASE d \in [success : BOOLEAN, once : BOOLEAN, days : Days]
      <4>1. Older(d.days) \in Days
        BY <3>2, OlderType
      <4> QED BY <3>2, <4>1 DEF PromotionData
    <3> QED BY <3>1, <3>2 DEF PromotionData
  <2>2. data' \in [Publications -> [Commits -> PromotionData]]
    BY <1>16, <2>1 DEF DayPasses, TypeOK
  <2>3. proven' \in [Targets -> [Commits -> Days \cup {None}]]
    BY <1>16, OlderType DEF DayPasses, TypeOK
  <2> QED BY <1>16, <2>2, <2>3 DEF DayPasses, TypeOK, WantedInv, RunInv, world, triggers
<1> QED
  BY <1>1, <1>2, <1>3, <1>4, <1>5, <1>6, <1>7, <1>8, <1>9, <1>10, <1>11, <1>12, <1>13, <1>14,
     <1>15, <1>16
  DEF Next, Trigger, Deploy
LEMMA TypeAlways == Spec => []TypeInv
<1>1. TypeInv /\ UNCHANGED vars => TypeInv'
  BY DEF TypeInv, TypeOK, WantedInv, RunInv, vars, world, triggers, history
<1>2. TypeInv /\ [Next]_vars => TypeInv'
  BY TypeStep, <1>1
<1> QED BY TypeInit, <1>2, PTL DEF Spec

\* Every value that is wanted, saved, deployed or published is of its type.
THEOREM TypeCorrect == Spec => []TypeOK
<1>1. TypeInv => TypeOK
  BY DEF TypeInv
<1> QED BY TypeAlways, <1>1, PTL
-----------------------------------------------------------------------------
(* The promotion gate. *)

\* Targets that are deployed already get from channels only what has been
\* deployed to all that publish to them.
NewPublishToNew ==
    \A t \in Targets \ New : \A c \in Subscribes[t] : PublishersOf(c) \cap New = {}

\* What has been deployed once without error stays proven.
LEMMA ProvenStays ==
    ASSUME TypeInv, Next, NEW t \in Targets, NEW v \in Commits, proven[t][v] # None
    PROVE  proven'[t][v] # None
<1>1. CASE DayPasses
  BY <1>1, OlderType DEF DayPasses, TypeInv, TypeOK
<1>2. ASSUME NEW r \in Runs, StartPublishing(r) PROVE proven'[t][v] # None
  BY <1>2 DEF StartPublishing
<1>3. CASE UNCHANGED proven
  BY <1>3
<1> QED
  BY <1>1, <1>2, <1>3
  DEF Next, Trigger, Deploy, GetDiff, Register, Create, CreateFails, UpdateState, TriggerDies,
      PopulateDesiredState, ValidatePromotions, Apply, ReadPromotionData, PublishPromotionData,
      RunDies, Merge, Push, history

LEMMA ProvenForStays ==
    ASSUME TypeInv, Next, NEW t \in Targets, NEW v \in Commits, ProvenFor(t, v)
    PROVE  ProvenFor(t, v)'
BY ProvenStays DEF ProvenFor, PublishersOf

\* A pipeline run that does not move keeps what it has.
LEMMA GoodStays ==
    ASSUME TypeInv, Next, NEW r \in Runs, GateOf(run[r]), ResultsOf(run[r]), run'[r] = run[r]
    PROVE  GateOf(run[r])' /\ ResultsOf(run[r])'
<1>1. /\ run[r].commit \in [Targets -> Commits \cup {None}]
      /\ run[r].read \subseteq [of : Publications, old : PromotionData]
  BY DEF TypeInv, TypeOK
<1>2. GateOf(run[r])'
  <2>1. \A t \in run[r].left : run[r].phase = "apply" => t \in Targets /\ run[r].commit[t] \in Commits
    BY <1>1 DEF TypeInv, RunInv
  <2>2. ASSUME NEW t \in run[r].left, run[r].phase = "apply" PROVE ProvenFor(t, run[r].commit[t])'
    <3>1. t \in Targets /\ run[r].commit[t] \in Commits /\ ProvenFor(t, run[r].commit[t])
      BY <2>1, <2>2 DEF GateOf
    <3> DEFINE v == run[r].commit[t]
    <3>2. v' = v
      OBVIOUS
    <3> QED BY <3>1, <3>2, ProvenForStays
  <2> QED BY <2>2 DEF GateOf
<1>3. ResultsOf(run[r])'
  <2>1. CASE run[r].phase = "publish"
    <3>1. \A p \in run[r].read : p.of[2] \in Targets /\ run[r].commit[p.of[2]] \in Commits
      BY <1>1, <2>1, PublicationTarget DEF TypeInv, RunInv
    <3>2. \A x \in run[r].left : x[2] \in Targets /\ run[r].commit[x[2]] \in Commits
      BY <1>1, <2>1, PublicationTarget DEF TypeInv, RunInv
    <3> QED BY <2>1, <3>1, <3>2, ProvenStays DEF ResultsOf
  <2> QED BY <2>1 DEF ResultsOf
<1> QED BY <1>2, <1>3
\* What is deployed stays good, unless it is deployed anew.
LEMMA DeployedStays ==
    ASSUME TypeInv, Next, GateInv, UNCHANGED deployed
    PROVE  \A t \in Targets : deployed'[t] # None => ProvenFor(t, deployed[t])'
<1> SUFFICES ASSUME NEW t \in Targets, deployed[t] # None
             PROVE  ProvenFor(t, deployed[t])'
  OBVIOUS
<1> DEFINE v == deployed[t]
<1>1. v \in Commits /\ ProvenFor(t, v) /\ v' = v
  BY DEF TypeInv, TypeOK, GateInv
<1> QED BY <1>1, ProvenForStays

\* Promotion data that do not speak of more success stay true.
LEMMA DataStays ==
    ASSUME TypeInv, Next, DataInv,
           \A x \in Publications, v \in Commits :
             data'[x][v].success \/ data'[x][v].once => data[x][v].success \/ data[x][v].once
    PROVE  DataInv'
BY ProvenStays, PublicationTarget DEF DataInv

\* A step of pipeline run r preserves the invariant if what r is then does.
LEMMA GateByRun ==
    ASSUME TypeInv, Next, GateInv, NEW r \in Runs, NEW new \in RunType, Set(r, new),
           UNCHANGED deployed, DataInv', GateOf(new)', ResultsOf(new)'
    PROVE  GateInv'
<1>1. run'[r] = new /\ \A s \in Runs : s # r => run'[s] = run[s]
  BY DEF Set, TypeInv, TypeOK
<1>2. ASSUME NEW s \in Runs PROVE (GateOf(run[s]) /\ ResultsOf(run[s]))'
  <2>1. CASE s = r
    BY <1>1, <2>1 DEF GateOf, ResultsOf
  <2>2. CASE s # r
    BY <1>1, <2>2, GoodStays DEF GateInv
  <2> QED BY <2>1, <2>2
<1> QED BY <1>2, DeployedStays DEF GateInv

\* The gate passes only what all publishers have had without error.
LEMMA ValidIsProven ==
    ASSUME TypeInv, GateInv, NEW t \in Targets, NEW v \in Commits, ValidPromotion(t, v)
    PROVE  ProvenFor(t, v)
<1> SUFFICES ASSUME NEW c \in Subscribes[t], NEW p \in PublishersOf(c)
             PROVE  proven[p][v] # None
  BY DEF ProvenFor
<1>1. data[<<c, p>>][v].success \/ data[<<c, p>>][v].once
  BY DEF ValidPromotion, Succeeded
<1>2. <<c, p>> \in Publications
  BY DeploymentsAssumption DEF Publications, PublishersOf
<1> QED BY <1>1, <1>2 DEF GateInv, DataInv

LEMMA GateInit == ASSUME NewPublishToNew, Init PROVE GateInv
<1> USE ConstantTypes
<1>1. DataInv
  BY PublicationTarget DEF Init, DataInv, Nothing, None
<1>2. \A r \in Runs : GateOf(run[r]) /\ ResultsOf(run[r])
  BY DEF Init, Free, GateOf, ResultsOf
<1>3. ASSUME NEW t \in Targets, deployed[t] # None PROVE ProvenFor(t, deployed[t])
  <2>1. t \notin New /\ deployed[t] = 0
    BY <1>3 DEF Init
  <2>2. \A c \in Subscribes[t] : \A p \in PublishersOf(c) : p \in Targets /\ p \notin New
    BY <2>1 DEF NewPublishToNew, PublishersOf
  <2>3. \A p \in Targets : p \notin New => proven[p][0] = MaxSoak
    BY DEF Init
  <2> QED BY <2>1, <2>2, <2>3 DEF ProvenFor
<1> QED BY <1>1, <1>2, <1>3 DEF GateInv

LEMMA GateStep == ASSUME TypeInv, GateInv, Next PROVE GateInv'
<1> USE ConstantTypes
<1>0. TypeInv' /\ run \in [Runs -> RunType]
  BY TypeStep DEF TypeInv, TypeOK, RunType
<1>1. ASSUME UNCHANGED <<data, deployed, run>> PROVE GateInv'
  <2>1. DataInv'
    BY <1>1, DataStays DEF GateInv
  <2>2. \A r \in Runs : (GateOf(run[r]) /\ ResultsOf(run[r]))'
    BY <1>1, GoodStays DEF GateInv
  <2> QED BY <1>1, <2>1, <2>2, DeployedStays DEF GateInv
<1>2. ASSUME NEW r \in Runs, NEW new \in RunType, Set(r, new), UNCHANGED <<data, deployed>>,
             new.phase \in {"none", "created", "validate"}
      PROVE  GateInv'
  <2>1. DataInv'
    BY <1>2, DataStays DEF GateInv
  <2> QED BY <1>2, <2>1, GateByRun DEF GateOf, ResultsOf
<1>3. ASSUME NEW k \in Triggers, NEW t \in Targets, Create(k, t) PROVE GateInv'
  <2>1. PICK r \in Runs : run[r] = Free /\ run' = [run EXCEPT ![r].phase = "created", ![r].job = JobOf[t]]
    BY <1>3 DEF Create
  <2> DEFINE new == [Free EXCEPT !.phase = "created", !.job = JobOf[t]]
  <2>2. new \in RunType /\ new.phase = "created" /\ Set(r, new)
    BY <1>0, <2>1, FreeType DEF Free, RunType, Set
  <2> HIDE DEF new
  <2> QED BY <1>2, <1>3, <2>2 DEF Create
<1>4. ASSUME NEW r \in Runs, PopulateDesiredState(r) PROVE GateInv'
  <2>1. PICK new \in RunType : new = run'[r]
    BY <1>0 DEF TypeInv, TypeOK, RunType
  <2>2. new.phase = "validate" /\ Set(r, new)
    <3>1. PICK n : Set(r, n) /\ n.phase = "validate"
      <4>1. run[r] \in RunType
        BY <1>0
      <4>2. PICK left, success, commit :
              Set(r, [run[r] EXCEPT !.phase = "validate", !.left = left, !.success = success,
                                    !.commit = commit])
        BY <1>4 DEF PopulateDesiredState
      <4>3. [run[r] EXCEPT !.phase = "validate", !.left = left, !.success = success,
                           !.commit = commit].phase = "validate"
        BY <4>1 DEF RunType
      <4> QED BY <4>2, <4>3
    <3>2. run'[r] = n
      BY <1>0, <3>1 DEF Set
    <3> QED BY <2>1, <3>1, <3>2
  <2> QED BY <1>2, <1>4, <2>2 DEF PopulateDesiredState
<1>5. ASSUME NEW r \in Runs, ValidatePromotions(r) PROVE GateInv'
  <2>1. run[r].phase = "validate" /\ run[r] \in RunType /\ UNCHANGED <<data, deployed, proven>>
    BY <1>0, <1>5 DEF ValidatePromotions, history
  <2>2. CASE Set(r, Free)
    BY <1>2, <2>1, <2>2, FreeType DEF Free
  <2>3. CASE /\ Set(r, [run[r] EXCEPT !.phase = "apply"])
             /\ \A t \in run[r].left : ValidPromotion(t, run[r].commit[t])
    <3>1. PICK new \in RunType :
            /\ Set(r, new) /\ new.phase = "apply"
            /\ new.left = run[r].left /\ new.commit = run[r].commit
      BY <2>1, <2>3 DEF RunType
    <3>2. ASSUME NEW t \in new.left PROVE ProvenFor(t, new.commit[t])'
      <4>1. t \in Targets /\ new.commit[t] \in Commits
        BY <2>1, <3>1 DEF TypeInv, RunInv, RunType
      <4>2. ProvenFor(t, new.commit[t])
        BY <2>3, <3>1, <4>1, ValidIsProven
      <4> QED BY <4>1, <4>2, ProvenForStays
    <3>3. GateOf(new)' /\ ResultsOf(new)'
      BY <3>1, <3>2 DEF GateOf, ResultsOf
    <3> QED BY <2>1, <3>1, <3>3, DataStays, GateByRun DEF GateInv
  <2> QED BY <1>5, <2>2, <2>3 DEF ValidatePromotions
<1>6. ASSUME NEW r \in Runs, NEW t \in Targets, Apply(r, t) PROVE GateInv'
  <2>1. run[r].phase = "apply" /\ t \in run[r].left /\ run[r] \in RunType /\ UNCHANGED <<data, proven>>
    BY <1>0, <1>6 DEF Apply, history
  <2>2. PICK new \in RunType :
          /\ Set(r, new) /\ new.phase = "apply"
          /\ new.left = run[r].left \ {t} /\ new.commit = run[r].commit
    <3>1. CASE Set(r, [run[r] EXCEPT !.left = @ \ {t}])
      BY <2>1, <3>1 DEF RunType
    <3>2. CASE Set(r, [run[r] EXCEPT !.left = @ \ {t}, !.success = FALSE])
      <4> DEFINE n == [run[r] EXCEPT !.left = @ \ {t}, !.success = FALSE]
      <4>1. /\ n \in RunType /\ n.phase = "apply"
            /\ n.left = run[r].left \ {t} /\ n.commit = run[r].commit
        BY <2>1 DEF RunType
      <4> HIDE DEF n
      <4> QED BY <3>2, <4>1 DEF n
    <3> QED BY <1>6, <3>1, <3>2 DEF Apply
  <2>3. DataInv'
    BY <2>1, DataStays DEF GateInv
  <2>4. \A u \in Targets, v \in Commits : ProvenFor(u, v)' <=> ProvenFor(u, v)
    BY <2>1 DEF ProvenFor, PublishersOf
  <2>5. \A u \in run[r].left : u \in Targets /\ run[r].commit[u] \in Commits /\ ProvenFor(u, run[r].commit[u])
    BY <2>1 DEF TypeInv, RunInv, RunType, GateInv, GateOf
  <2>6. ASSUME NEW s \in Runs PROVE (GateOf(run[s]) /\ ResultsOf(run[s]))'
    <3>1. CASE s = r
      <4>1. run'[s] = new
        BY <1>0, <2>2, <3>1 DEF Set
      <4>2. \A u \in new.left : ProvenFor(u, new.commit[u])'
        BY <2>2, <2>4, <2>5
      <4> QED BY <2>2, <4>1, <4>2 DEF GateOf, ResultsOf
    <3>2. CASE s # r
      BY <1>0, <2>2, <3>2, GoodStays DEF GateInv, Set
    <3> QED BY <3>1, <3>2
  <2>7. ASSUME NEW u \in Targets, deployed'[u] # None PROVE ProvenFor(u, deployed[u])'
    <3>1. CASE deployed'[u] = deployed[u]
      <4>1. PICK v \in Commits : v = deployed[u]
        BY <2>7, <3>1 DEF TypeInv, TypeOK
      <4>2. ProvenFor(u, v)'
        BY <2>4, <2>7, <3>1, <4>1 DEF GateInv
      <4> QED BY <3>1, <4>1, <4>2 DEF ProvenFor
    <3>2. CASE deployed'[u] # deployed[u]
      <4>1. u = t /\ deployed'[u] = run[r].commit[t]
        BY <1>6, <3>2 DEF Apply, TypeInv, TypeOK
      <4>2. PICK v \in Commits : v = run[r].commit[t]
        BY <2>1, <2>5
      <4>3. ProvenFor(u, v)'
        BY <2>1, <2>4, <2>5, <4>1, <4>2
      <4> QED BY <4>1, <4>2, <4>3 DEF ProvenFor
    <3> QED BY <3>1, <3>2
  <2> QED BY <2>3, <2>6, <2>7 DEF GateInv
<1>7. ASSUME NEW r \in Runs, StartPublishing(r) PROVE GateInv'
  <2>1. run[r].phase = "apply" /\ run[r].read = {} /\ run[r] \in RunType /\ UNCHANGED <<data, deployed>>
    BY <1>0, <1>7 DEF StartPublishing, TypeInv, RunInv
  <2>2. CASE Set(r, Free)
    BY <1>2, <2>1, <2>2, FreeType DEF Free
  <2>3. CASE Set(r, [run[r] EXCEPT !.phase = "publish",
                       !.left = {x \in Publications : run[r].commit[x[2]] # None}])
    <3>1. PICK new \in RunType :
            /\ Set(r, new) /\ new.phase = "publish" /\ new.read = {}
            /\ new.left = {x \in Publications : run[r].commit[x[2]] # None}
            /\ new.commit = run[r].commit /\ new.success = run[r].success
      <4> DEFINE left == {x \in Publications : run[r].commit[x[2]] # None}
                 n == [run[r] EXCEPT !.phase = "publish", !.left = left]
      <4>1. left \in SUBSET (Targets \cup Publications)
        OBVIOUS
      <4> HIDE DEF left
      <4>2. /\ n \in RunType /\ n.phase = "publish" /\ n.read = {} /\ n.left = left
            /\ n.commit = run[r].commit /\ n.success = run[r].success
        BY <2>1, <4>1 DEF RunType
      <4> HIDE DEF n
      <4>3. Set(r, n)
        BY <2>3 DEF n, left
      <4> QED BY <4>2, <4>3 DEF left
    <3>2. ASSUME NEW x \in new.left, new.success PROVE proven'[x[2]][new.commit[x[2]]] # None
      <4>1. x \in Publications /\ run[r].commit[x[2]] \in Commits /\ run[r].success
        BY <2>1, <3>1, <3>2, PublicationTarget DEF RunType
      <4> QED BY <1>7, <3>1, <4>1, PublicationTarget DEF StartPublishing, None
    <3>3. GateOf(new)' /\ ResultsOf(new)'
      BY <3>1, <3>2 DEF GateOf, ResultsOf
    <3> QED BY <2>1, <3>1, <3>3, DataStays, GateByRun DEF GateInv
  <2> QED BY <1>7, <2>2, <2>3 DEF StartPublishing
<1>8. ASSUME NEW r \in Runs, NEW x \in Publications, ReadPromotionData(r, x) PROVE GateInv'
  <2>1. run[r].phase = "publish" /\ x \in run[r].left /\ run[r] \in RunType /\ UNCHANGED <<data, deployed, proven>>
    BY <1>0, <1>8 DEF ReadPromotionData, history
  <2>2. run[r].commit[x[2]] \in Commits
    BY <2>1, PublicationTarget DEF TypeInv, RunInv, RunType
  <2>3. PICK old \in PromotionData : old = data[x][run[r].commit[x[2]]]
    BY <2>2 DEF TypeInv, TypeOK
  <2>4. PICK new \in RunType :
          /\ Set(r, new) /\ new.phase = "publish" /\ new.read = {[of |-> x, old |-> old]}
          /\ new.left = run[r].left \ {x}
          /\ new.commit = run[r].commit /\ new.success = run[r].success
    <3>1. Set(r, [run[r] EXCEPT !.left = @ \ {x}, !.read = {[of |-> x, old |-> old]}])
      BY <1>8, <2>3 DEF ReadPromotionData
    <3> DEFINE n == [run[r] EXCEPT !.left = @ \ {x}, !.read = {[of |-> x, old |-> old]}]
    <3>2. {[of |-> x, old |-> old]} \in SUBSET [of : Publications, old : PromotionData]
      OBVIOUS
    <3>3. /\ n \in RunType /\ n.phase = "publish" /\ n.read = {[of |-> x, old |-> old]}
          /\ n.left = run[r].left \ {x}
          /\ n.commit = run[r].commit /\ n.success = run[r].success
      BY <2>1, <3>2 DEF RunType
    <3>4. Set(r, n)
      BY <3>1
    <3> HIDE DEF n
    <3> QED BY <3>3, <3>4
  <2>5. old.success \/ old.once => proven'[x[2]][new.commit[x[2]]] # None
    BY <2>1, <2>2, <2>3, <2>4 DEF GateInv, DataInv
  <2>6. \A y \in run[r].left : run[r].success => proven'[y[2]][new.commit[y[2]]] # None
    BY <2>1, <2>4 DEF GateInv, ResultsOf
  <2>7. GateOf(new)' /\ ResultsOf(new)'
    BY <2>1, <2>4, <2>5, <2>6 DEF GateOf, ResultsOf
  <2> QED BY <2>1, <2>4, <2>7, DataStays, GateByRun DEF GateInv
<1>9. ASSUME NEW r \in Runs, PublishPromotionData(r) PROVE GateInv'
  <2>1. run[r].phase = "publish" /\ run[r] \in RunType /\ UNCHANGED <<deployed, proven>>
    BY <1>0, <1>9 DEF PublishPromotionData, history
  <2>2. PICK p \in run[r].read :
        /\ data' = [data EXCEPT ![p.of][run[r].commit[p.of[2]]] =
             [success |-> run[r].success,
              once |-> Once(p.old, run[r].success),
              days |-> CheckIn(p.old, run[r].success)]]
        /\ Set(r, IF run[r].left = {} THEN Free ELSE [run[r] EXCEPT !.read = {}])
    BY <1>9 DEF PublishPromotionData
  <2>3. p.old.success \/ p.old.once \/ run[r].success => proven[p.of[2]][run[r].commit[p.of[2]]] # None
    BY <2>1, <2>2 DEF GateInv, ResultsOf
  <2>4. DataInv'
    <3> SUFFICES ASSUME NEW x \in Publications, NEW v \in Commits,
                        data'[x][v].success \/ data'[x][v].once
                 PROVE  proven[x[2]][v] # None
      BY <2>1 DEF DataInv
    <3>1. CASE x = p.of /\ v = run[r].commit[p.of[2]]
      BY <2>2, <2>3, <3>1 DEF Once, TypeInv, TypeOK
    <3>2. CASE ~(x = p.of /\ v = run[r].commit[p.of[2]])
      BY <2>2, <3>2 DEF TypeInv, TypeOK, GateInv, DataInv
    <3> QED BY <3>1, <3>2
  <2>5. CASE run[r].left = {}
    BY <2>1, <2>2, <2>4, <2>5, FreeType, GateByRun DEF Free, GateOf, ResultsOf
  <2>6. CASE run[r].left # {}
    <3>1. PICK new \in RunType :
            /\ Set(r, new) /\ new.phase = "publish" /\ new.read = {}
            /\ new.left = run[r].left /\ new.commit = run[r].commit /\ new.success = run[r].success
      BY <2>1, <2>2, <2>6 DEF RunType
    <3>2. GateOf(new)' /\ ResultsOf(new)'
      BY <2>1, <3>1 DEF GateOf, ResultsOf, GateInv
    <3> QED BY <2>1, <2>4, <3>1, <3>2, GateByRun
  <2> QED BY <2>5, <2>6
<1>10. ASSUME NEW r \in Runs, RunDies(r) PROVE GateInv'
  BY <1>2, <1>10, FreeType DEF RunDies, Free
<1>11. CASE DayPasses
  <2>1. \A x \in Publications, v \in Commits :
          data'[x][v].success = data[x][v].success /\ data'[x][v].once = data[x][v].once
    BY <1>11 DEF DayPasses, TypeInv, TypeOK, PromotionData, Nothing
  <2>2. DataInv'
    BY <2>1, DataStays DEF GateInv
  <2>3. \A r \in Runs : (GateOf(run[r]) /\ ResultsOf(run[r]))'
    BY <1>11, GoodStays DEF DayPasses, GateInv
  <2> QED BY <1>11, <2>2, <2>3, DeployedStays DEF DayPasses, GateInv
<1> QED
  BY <1>1, <1>3, <1>4, <1>5, <1>6, <1>7, <1>8, <1>9, <1>10, <1>11
  DEF Next, Trigger, Deploy, GetDiff, Register, CreateFails, UpdateState, TriggerDies, Merge, Push

\* What a subscriber runs has been deployed without error to every target that
\* publishes to one of its channels, with any number of pipeline runs of a job at
\* once and any failures.
THEOREM GateHolds == ASSUME NewPublishToNew PROVE Spec => []PromotedAfterSuccess
<1>1. TypeInv /\ GateInv /\ [Next]_vars => GateInv'
  <2>1. TypeInv /\ GateInv /\ UNCHANGED vars => GateInv'
    BY DEF vars, history, GateInv, DataInv, GateOf, ResultsOf, ProvenFor, PublishersOf
  <2> QED BY <2>1, GateStep
<1>2. GateInv => PromotedAfterSuccess
  BY DEF GateInv, ProvenFor, PromotedAfterSuccess
<1> QED BY TypeAlways, GateInit, <1>1, <1>2, PTL DEF Spec
-----------------------------------------------------------------------------
(* Promotion data of a commit that has succeeded once. *)

Going(rec) == rec.phase \notin {"none", "created"}

\* How a step changes one pipeline run: it stays or goes on with its job, comes to
\* an end, is created, or begins.
LEMMA RunMoves ==
    ASSUME TypeInv, Next, NEW s \in Runs, Going(run'[s])
    PROVE  /\ run'[s].job = run[s].job
           /\ Going(run[s]) \/ PopulateDesiredState(s)
           /\ Going(run[s]) /\ run'[s].phase = "publish" /\ run'[s].read # {} =>
                \/ run'[s] = run[s]
                \/ \E x \in Publications : ReadPromotionData(s, x)
<1> USE DEF Going
<1>0. run \in [Runs -> RunType]
  BY DEF TypeInv, TypeOK, RunType
<1>1. CASE run'[s] = run[s]
  BY <1>1
<1>2. ASSUME NEW r \in Runs, NEW new, Set(r, new) PROVE run'[s] = IF s = r THEN new ELSE run[s]
  BY <1>0, <1>2 DEF Set
<1>3. CASE PopulateDesiredState(s)
  <2>1. PICK left, success, commit :
          Set(s, [run[s] EXCEPT !.phase = "validate", !.left = left, !.success = success,
                                !.commit = commit])
    BY <1>3 DEF PopulateDesiredState
  <2> DEFINE n == [run[s] EXCEPT !.phase = "validate", !.left = left, !.success = success,
                                 !.commit = commit]
  <2>2. n.job = run[s].job /\ n.phase = "validate"
    BY <1>0 DEF RunType
  <2>3. run'[s] = n
    BY <1>0, <2>1 DEF Set
  <2>4. run[s].phase = "created"
    BY <1>3 DEF PopulateDesiredState
  <2> QED BY <1>3, <2>2, <2>3, <2>4
<1>4. CASE ValidatePromotions(s)
  BY <1>0, <1>4 DEF ValidatePromotions, Set, Free, RunType
<1>5. ASSUME NEW t \in Targets, Apply(s, t)
      PROVE  run'[s].job = run[s].job /\ Going(run[s]) /\ run'[s].phase = "apply"
  <2>1. CASE Set(s, [run[s] EXCEPT !.left = @ \ {t}])
    BY <1>0, <1>5, <2>1 DEF Apply, Set, RunType
  <2>2. CASE Set(s, [run[s] EXCEPT !.left = @ \ {t}, !.success = FALSE])
    BY <1>0, <1>5, <2>2 DEF Apply, Set, RunType
  <2> QED BY <1>5, <2>1, <2>2 DEF Apply
<1>6. CASE StartPublishing(s)
  <2>1. run[s].phase = "apply" /\ run[s].read = {}
    BY <1>6 DEF StartPublishing, TypeInv, RunInv
  <2>2. PICK left : run'[s] \in {Free, [run[s] EXCEPT !.phase = "publish", !.left = left]}
    BY <1>0, <1>6 DEF StartPublishing, Set
  <2> DEFINE n == [run[s] EXCEPT !.phase = "publish", !.left = left]
  <2>3. n.job = run[s].job /\ n.read = {}
    BY <1>0, <2>1 DEF RunType
  <2>4. CASE run'[s] = n
    <3> HIDE DEF n
    <3> QED BY <2>1, <2>3, <2>4
  <2>5. CASE run'[s] = Free
    BY <2>5 DEF Free
  <2> QED BY <2>2, <2>4, <2>5
<1>7. ASSUME NEW x \in Publications, ReadPromotionData(s, x)
      PROVE  run'[s].job = run[s].job /\ Going(run[s])
  <2>1. PICK left, read : run'[s] = [run[s] EXCEPT !.left = left, !.read = read]
    BY <1>0, <1>7 DEF ReadPromotionData, Set
  <2> QED BY <1>0, <1>7, <2>1 DEF ReadPromotionData, RunType
<1>8. CASE PublishPromotionData(s)
  BY <1>0, <1>8 DEF PublishPromotionData, Set, Free, RunType
<1>9. CASE RunDies(s)
  BY <1>0, <1>9 DEF RunDies, Set, Free
<1>10. ASSUME NEW k \in Triggers, NEW t \in Targets, Create(k, t), run'[s] # run[s] PROVE FALSE
  <2>1. PICK r \in Runs : /\ run[r] = Free
                          /\ run' = [run EXCEPT ![r].phase = "created", ![r].job = JobOf[t]]
    BY <1>10 DEF Create
  <2>2. s = r /\ run'[s] = [Free EXCEPT !.phase = "created", !.job = JobOf[t]]
    BY <1>0, <1>10, <2>1
  <2>3. run'[s].phase = "created"
    BY <2>2 DEF Free
  <2> QED BY <2>3
<1>11. ASSUME NEW r \in Runs, Deploy(r) \/ RunDies(r), s # r PROVE run'[s] = run[s]
  <2>1. \E new : Set(r, new)
    BY <1>11 DEF Deploy, RunDies, PopulateDesiredState, ValidatePromotions, Apply,
                 StartPublishing, ReadPromotionData, PublishPromotionData
  <2> QED BY <1>11, <2>1, <1>2
<1>12. CASE Deploy(s) \/ RunDies(s)
  BY <1>3, <1>4, <1>5, <1>6, <1>7, <1>8, <1>9, <1>12 DEF Deploy
<1> QED
  BY <1>1, <1>10, <1>11, <1>12
  DEF Next, Trigger, GetDiff, Register, CreateFails, UpdateState, TriggerDies, Merge, Push, DayPasses

LEMMA OverlappedStays == ASSUME Next PROVE overlapped \subseteq overlapped'
<1>1. ASSUME NEW r \in Runs, PopulateDesiredState(r) PROVE overlapped \subseteq overlapped'
  BY <1>1 DEF PopulateDesiredState
<1> QED
  BY <1>1
  DEF Next, Trigger, Deploy, GetDiff, Register, Create, CreateFails, UpdateState, TriggerDies,
      ValidatePromotions, Apply, StartPublishing, ReadPromotionData, PublishPromotionData,
      RunDies, Merge, Push, DayPasses, history

\* A pipeline run that begins finds those of its job that are in progress.
LEMMA OverlapStep == ASSUME TypeInv, OverlapInv, Next PROVE OverlapInv'
<1> SUFFICES ASSUME NEW r \in Runs, NEW s \in Runs, r # s, Going(run'[r]), Going(run'[s]),
                    run'[r].job = run'[s].job
             PROVE  run'[r].job \in overlapped'
  BY DEF OverlapInv, Going
<1>0. run \in [Runs -> RunType]
  BY DEF TypeInv, TypeOK, RunType
<1>1. run'[r].job = run[r].job /\ run'[s].job = run[s].job
  BY RunMoves
<1>2. CASE Going(run[r]) /\ Going(run[s])
  BY <1>1, <1>2, OverlappedStays DEF OverlapInv, Going
<1>3. ASSUME NEW u \in Runs, NEW v \in Runs, PopulateDesiredState(u), u # v, Going(run'[v]),
             run[u].job = run[v].job
      PROVE  run[u].job \in overlapped'
  <2>1. run'[v] = run[v]
    BY <1>0, <1>3 DEF PopulateDesiredState, Set
  <2>2. v \in InProgress(run[u].job)
    BY <1>3, <2>1 DEF InProgress, Going
  <2> QED BY <1>3, <2>2 DEF PopulateDesiredState
<1> QED BY <1>1, <1>2, <1>3, RunMoves

\* What a step does to the memory of a success: it forgets one only by writing over
\* it what a run has read before.
LEMMA OnceStays ==
    ASSUME TypeInv, Next, NEW x \in Publications, NEW v \in Commits,
           data[x][v].once, ~data'[x][v].once
    PROVE  \E r \in Runs : \E p \in run[r].read :
             /\ run[r].phase = "publish" /\ ~p.old.once
             /\ p.of = x /\ run[r].commit[x[2]] = v
<1>1. CASE DayPasses
  <2>1. data'[x][v] = [data[x][v] EXCEPT !.days = Older(@)] /\ data[x][v] \in PromotionData
    BY <1>1 DEF DayPasses, TypeInv, TypeOK
  <2> QED BY <2>1 DEF PromotionData, Nothing
<1>2. ASSUME NEW r \in Runs, PublishPromotionData(r)
      PROVE  \E p \in run[r].read : /\ run[r].phase = "publish" /\ ~p.old.once
                                    /\ p.of = x /\ run[r].commit[x[2]] = v
  <2>1. PICK p \in run[r].read :
          data' = [data EXCEPT ![p.of][run[r].commit[p.of[2]]] =
             [success |-> run[r].success,
              once |-> Once(p.old, run[r].success),
              days |-> CheckIn(p.old, run[r].success)]]
    BY <1>2 DEF PublishPromotionData
  <2>2. data \in [Publications -> [Commits -> PromotionData]]
    BY DEF TypeInv, TypeOK
  <2>3. p.of = x /\ run[r].commit[p.of[2]] = v
    BY <2>1, <2>2
  <2>4. data'[x][v].once = Once(p.old, run[r].success)
    BY <2>1, <2>2, <2>3
  <2> QED BY <1>2, <2>3, <2>4 DEF PublishPromotionData, Once
<1> QED
  BY <1>1, <1>2
  DEF Next, Trigger, Deploy, GetDiff, Register, Create, CreateFails, UpdateState, TriggerDies,
      PopulateDesiredState, ValidatePromotions, Apply, StartPublishing, ReadPromotionData,
      RunDies, Merge, Push

\* A success is remembered only where a run publishes.
LEMMA OnceComes ==
    ASSUME TypeInv, Next, NEW x \in Publications, NEW v \in Commits,
           ~data[x][v].once, data'[x][v].once
    PROVE  \E r \in Runs : PublishPromotionData(r)
<1>1. CASE DayPasses
  <2>1. data'[x][v] = [data[x][v] EXCEPT !.days = Older(@)] /\ data[x][v] \in PromotionData
    BY <1>1 DEF DayPasses, TypeInv, TypeOK
  <2> QED BY <2>1 DEF PromotionData, Nothing
<1> QED
  BY <1>1
  DEF Next, Trigger, Deploy, GetDiff, Register, Create, CreateFails, UpdateState, TriggerDies,
      PopulateDesiredState, ValidatePromotions, Apply, StartPublishing, ReadPromotionData,
      RunDies, Merge, Push

\* What another run of the same publication and commit writes is of the same job.
LEMMA ReadStep == ASSUME TypeInv, OverlapInv, ReadInv, Next PROVE ReadInv'
<1> SUFFICES ASSUME NEW s \in Runs, run'[s].phase = "publish", run'[s].job \notin overlapped',
                    NEW p \in run'[s].read, data'[p.of][run'[s].commit[p.of[2]]].once
             PROVE  p.old.once
  BY DEF ReadInv, ReadOf
<1>0. run \in [Runs -> RunType]
  BY DEF TypeInv, TypeOK, RunType
<1>1. run'[s].job = run[s].job /\ run[s].job \notin overlapped /\ Going(run[s])
  <2>1. Going(run'[s])
    BY DEF Going
  <2>2. ~PopulateDesiredState(s)
    <3> SUFFICES ASSUME PopulateDesiredState(s) PROVE FALSE
      OBVIOUS
    <3>1. PICK left, success, commit :
            Set(s, [run[s] EXCEPT !.phase = "validate", !.left = left, !.success = success,
                                  !.commit = commit])
      BY DEF PopulateDesiredState
    <3>2. run[s] \in RunType
      BY <1>0
    <3> QED BY <1>0, <3>1, <3>2 DEF RunType, Set
  <2> QED BY <2>1, <2>2, RunMoves, OverlappedStays
<1>2. CASE run'[s] = run[s]
  <2>1. run[s].phase = "publish" /\ p \in run[s].read
    BY <1>2
  <2>2. /\ p.of \in Publications /\ p.of[2] \in Targets /\ run[s].commit[p.of[2]] \in Commits
        /\ JobOf[p.of[2]] = run[s].job
    <3>1. run[s] \in RunType /\ p.of \in Publications /\ run[s].commit[p.of[2]] # None
      BY <1>0, <2>1 DEF TypeInv, RunInv, RunType
    <3> QED BY <3>1, PublicationTarget DEF TypeInv, RunInv, RunType
  <2> DEFINE x == p.of
             v == run[s].commit[x[2]]
  <2>3. CASE data[x][v].once
    BY <1>1, <2>1, <2>3 DEF ReadInv, ReadOf
  <2>4. CASE ~data[x][v].once
    \* Only this run could have written it: another of its job would overlap.
    <3>1. data'[x][v].once
      BY <1>2
    <3>2. PICK r \in Runs : PublishPromotionData(r)
      BY <2>2, <2>4, <3>1, OnceComes
    <3>3. PICK q \in run[r].read :
            data' = [data EXCEPT ![q.of][run[r].commit[q.of[2]]] =
               [success |-> run[r].success,
                once |-> Once(q.old, run[r].success),
                days |-> CheckIn(q.old, run[r].success)]]
      BY <3>2 DEF PublishPromotionData
    <3>4. q.of = x /\ run[r].commit[x[2]] = v
      <4>1. data \in [Publications -> [Commits -> PromotionData]]
        BY DEF TypeInv, TypeOK
      <4> QED BY <2>2, <2>4, <3>1, <3>3, <4>1
    <3>5. run[r].job = run[s].job /\ run[r].phase = "publish"
      <4>1. run[r].commit[x[2]] # None
        BY <2>2, <3>4 DEF Commits, None
      <4> QED BY <2>2, <3>2, <4>1 DEF PublishPromotionData, TypeInv, RunInv
    <3>6. r = s
      BY <1>1, <2>1, <3>5 DEF OverlapInv
    <3>7. run'[s].read = {}
      <4>1. run'[s] \in {Free, [run[s] EXCEPT !.read = {}]}
        BY <1>0, <3>2, <3>6 DEF PublishPromotionData, Set
      <4> QED BY <1>0, <4>1 DEF Free, RunType
    <3> QED BY <3>7
  <2> QED BY <1>2, <2>3, <2>4
<1>3. ASSUME NEW x \in Publications, ReadPromotionData(s, x) PROVE p.old.once
  <2>1. run[s].phase = "publish" /\ x \in run[s].left /\ run[s] \in RunType /\ data' = data
    BY <1>0, <1>3 DEF ReadPromotionData
  <2>2. run'[s] = [run[s] EXCEPT !.left = @ \ {x},
                     !.read = {[of |-> x, old |-> data[x][run[s].commit[x[2]]]]}]
    BY <1>0, <1>3 DEF ReadPromotionData, Set
  <2>3. run'[s].commit = run[s].commit /\ p = [of |-> x, old |-> data[x][run[s].commit[x[2]]]]
    BY <2>1, <2>2 DEF RunType
  <2> QED BY <2>1, <2>3
<1> QED
  <2>1. Going(run'[s]) /\ run'[s].read # {}
    BY DEF Going
  <2> QED BY <1>1, <1>2, <1>3, <2>1, RunMoves

\* What has succeeded once stays so, as long as no two pipeline runs of the
\* publisher are in progress at once.
THEOREM SuccessIsKept == Spec => OnceIsKept
<1>1. Init => OverlapInv /\ ReadInv
  BY DEF Init, Free, OverlapInv, ReadInv, ReadOf
<1>2. TypeInv /\ OverlapInv /\ ReadInv /\ [Next]_vars => OverlapInv' /\ ReadInv'
  <2>1. OverlapInv /\ ReadInv /\ UNCHANGED vars => OverlapInv' /\ ReadInv'
    BY DEF vars, history, OverlapInv, ReadInv, ReadOf
  <2> QED BY <2>1, OverlapStep, ReadStep
<1>3. TypeInv /\ ReadInv /\ [Next]_vars =>
        [\A x \in Publications, v \in Commits :
           JobOf[x[2]] \notin overlapped /\ data[x][v].once => data'[x][v].once]_vars
  <2> SUFFICES ASSUME TypeInv, ReadInv, Next, NEW x \in Publications, NEW v \in Commits,
                      JobOf[x[2]] \notin overlapped, data[x][v].once, ~data'[x][v].once
               PROVE  FALSE
    OBVIOUS
  <2>1. PICK r \in Runs : \E p \in run[r].read :
          /\ run[r].phase = "publish" /\ ~p.old.once
          /\ p.of = x /\ run[r].commit[x[2]] = v
    BY OnceStays
  <2>2. run[r].job = JobOf[x[2]]
    BY <2>1, ConstantTypes, PublicationTarget DEF TypeInv, RunInv
  <2> QED BY <2>1, <2>2 DEF ReadInv, ReadOf
<1> QED BY TypeAlways, <1>1, <1>2, <1>3, PTL DEF Spec, OnceIsKept
-----------------------------------------------------------------------------
(* Changes that wait for a pipeline run. *)

\* Changes are not taken back, and a target that follows its branch has been
\* deployed before.
OnlyForward == ~TakesBack /\ New \cap Moving = {}

\* What is compared and saved are integers.
LEMMA TriggerTypes ==
    ASSUME TypeInv, NEW k \in Triggers, NEW t \in Targets
    PROVE  /\ recorded[k][t] \in Int /\ content[k][t] \in Int /\ Current(k, t) \in Int
           /\ specs[k][t] \in SpecPhases
<1>1. Current(k, t) \in Int
  BY ConstantTypes, CurrentType DEF TypeInv
<1>2. recorded[k][t] \in Wanted \cup {None} /\ content[k][t] \in Wanted
  BY DEF TypeInv, TypeOK
<1>3. specs[k][t] \in SpecPhases
  BY DEF TypeInv, TypeOK
<1>4. recorded[k][t] \in Int /\ content[k][t] \in Int
  <2>1. Wanted \subseteq Int /\ None \in Int
    BY ConstantTypes DEF None
  <2> QED BY <1>2, <2>1
<1> QED BY <1>1, <1>3, <1>4

LEMMA NextCurrentType ==
    ASSUME TypeInv, Next, NEW k \in Triggers, NEW t \in Targets
    PROVE  Current(k, t)' \in Int
<1>1. TypeInv'
  BY TypeStep
<1>2. head' \in Int /\ wanted'[t] \in Int
  BY <1>1, ConstantTypes DEF TypeInv, TypeOK
<1> QED BY <1>2 DEF Current

\* Nothing that is compared goes back.
LEMMA CurrentGrows ==
    ASSUME OnlyForward, TypeInv, Next, NEW k \in Triggers, NEW t \in Targets
    PROVE  Current(k, t) <= Current(k, t)'
<1>1. head \in Int /\ wanted[t] \in Int
  BY ConstantTypes DEF TypeInv, TypeOK
<1>2. ASSUME NEW u \in Targets, Merge(u) PROVE Current(k, t) <= Current(k, t)'
  <2>1. PICK w : wanted' = [wanted EXCEPT ![u] = w] /\ w > wanted[u]
    BY <1>2 DEF Merge, OnlyForward
  <2>2. wanted \in [Targets -> Wanted] /\ head' = head
    BY <1>2 DEF Merge, TypeInv, TypeOK
  <2>3. CASE t = u
    <3>1. wanted'[t] = w
      BY <2>1, <2>2, <2>3
    <3>2. w \in Int
      <4>1. wanted' \in [Targets -> Wanted]
        BY <1>2, TypeStep DEF TypeInv, TypeOK
      <4> QED BY <3>1, <4>1, ConstantTypes
    <3> QED BY <1>1, <2>1, <2>2, <2>3, <3>1, <3>2 DEF Current
  <2>4. CASE t # u
    BY <1>1, <2>1, <2>2, <2>4 DEF Current
  <2> QED BY <2>3, <2>4
<1>3. CASE Push
  BY <1>1, <1>3 DEF Push, Current
<1>4. CASE UNCHANGED <<head, wanted>>
  BY <1>1, <1>4 DEF Current
<1> QED
  BY <1>2, <1>3, <1>4
  DEF Next, Trigger, Deploy, GetDiff, Register, Create, CreateFails, UpdateState, TriggerDies,
      PopulateDesiredState, ValidatePromotions, Apply, StartPublishing, ReadPromotionData,
      PublishPromotionData, RunDies, DayPasses, world

\* The part of ContentInv about one target.
ContentOf(k, t) ==
    /\ t \in Triggering(k) => recorded[k][t] <= Current(k, t)
    /\ specs[k][t] # "none" =>
        /\ t \in Triggering(k)
        /\ recorded[k][t] < content[k][t]
        /\ content[k][t] <= Current(k, t)

\* A trigger compares with what it has saved all targets it knows.
LEMMA DiffOf ==
    ASSUME TypeInv, ContentInv, NEW k \in Triggers, GetDiff(k), NEW t \in Targets
    PROVE  /\ recorded' = recorded /\ specs[k][t] = "none" /\ registered'[k] = {}
           /\ IF t \in Triggering(k) /\ recorded[k][t] # Current(k, t)
              THEN specs'[k][t] = "register" /\ content'[k][t] = Current(k, t)
              ELSE specs'[k][t] = "none"
<1> DEFINE unknown == IF k = "configs" THEN {} ELSE {u \in Moving : recorded[k][u] = None}
<1>1. unknown = {}
  BY DEF ContentInv, Triggers
<1>2. /\ recorded' = [recorded EXCEPT ![k] =
                [u \in Targets |-> IF u \in unknown THEN Current(k, u) ELSE @[u]]]
      /\ registered' = [registered EXCEPT ![k] = {}]
      /\ \A u \in Targets : specs[k][u] = "none"
  BY DEF GetDiff
<1>3. recorded' = recorded
  BY <1>1, <1>2 DEF TypeInv, TypeOK
<1>4. LET changed == {u \in Triggering(k) : recorded[k][u] # Current(k, u)} IN
      /\ specs' = [specs EXCEPT ![k] =
            [u \in Targets |-> IF u \in changed THEN "register" ELSE "none"]]
      /\ content' = [content EXCEPT ![k] =
            [u \in Targets |-> IF u \in changed THEN Current(k, u) ELSE 0]]
  <2>1. Triggering(k) \ unknown = Triggering(k)
    BY <1>1
  <2> QED BY <2>1 DEF GetDiff
<1> QED BY <1>2, <1>3, <1>4 DEF TypeInv, TypeOK

\* A trigger does not touch what another one compares.
OfTrigger(k) == <<recorded[k], specs[k], content[k], registered[k]>>

LEMMA OtherTriggers ==
    ASSUME TypeInv, NEW k \in Triggers, NEW l \in Triggers, k # l,
           \/ GetDiff(l) \/ TriggerDies(l)
           \/ \E t \in Targets : Register(l, t) \/ Create(l, t) \/ UpdateState(l, t)
                                 \/ CreateFails(l, t)
    PROVE  UNCHANGED OfTrigger(k)
<1>1. ASSUME NEW t \in Targets, Register(l, t) \/ Create(l, t) \/ CreateFails(l, t)
      PROVE  UNCHANGED OfTrigger(k)
  BY <1>1 DEF Register, Create, CreateFails, OfTrigger, TypeInv, TypeOK
<1>2. ASSUME NEW t \in Targets, UpdateState(l, t) PROVE UNCHANGED OfTrigger(k)
  BY <1>2 DEF UpdateState, OfTrigger, TypeInv, TypeOK
<1>3. CASE GetDiff(l)
  BY <1>3 DEF GetDiff, OfTrigger, TypeInv, TypeOK
<1>4. CASE TriggerDies(l)
  BY <1>4 DEF TriggerDies, OfTrigger, TypeInv, TypeOK
<1> QED BY <1>1, <1>2, <1>3, <1>4

\* The same of a target that the thread of another one does not touch.
LEMMA OtherTargets ==
    ASSUME TypeInv, NEW k \in Triggers, NEW t \in Targets, NEW u \in Targets, t # u,
           Register(k, u) \/ Create(k, u) \/ UpdateState(k, u) \/ CreateFails(k, u)
    PROVE  UNCHANGED <<recorded[k][t], specs[k][t], content[k][t]>>
<1>1. ASSUME Register(k, u) \/ Create(k, u) \/ CreateFails(k, u)
      PROVE  UNCHANGED <<recorded[k][t], specs[k][t], content[k][t]>>
  BY <1>1 DEF Register, Create, CreateFails, TypeInv, TypeOK
<1>2. CASE UpdateState(k, u)
  BY <1>2 DEF UpdateState, TypeInv, TypeOK
<1> QED BY <1>1, <1>2

\* All other steps leave the triggers alone.
TriggerStep(k) ==
    \/ GetDiff(k) \/ TriggerDies(k)
    \/ \E t \in Targets : Register(k, t) \/ Create(k, t) \/ UpdateState(k, t) \/ CreateFails(k, t)

LEMMA NoTrigger ==
    ASSUME Next
    PROVE  (\E k \in Triggers : TriggerStep(k)) \/ UNCHANGED <<recorded, triggers>>
BY DEF Next, Trigger, TriggerStep, Deploy, PopulateDesiredState, ValidatePromotions, Apply,
       StartPublishing, ReadPromotionData, PublishPromotionData, RunDies, Merge, Push, DayPasses

LEMMA ContentStep ==
    ASSUME OnlyForward, TypeInv, ContentInv, Next
    PROVE  ContentInv'
<1>0. ASSUME NEW k \in Triggers, NEW t \in Targets
      PROVE  /\ ContentOf(k, t) /\ Current(k, t) <= Current(k, t)'
             /\ recorded[k][t] \in Int /\ content[k][t] \in Int
             /\ Current(k, t) \in Int /\ Current(k, t)' \in Int
  <2>1. ContentOf(k, t)
    BY DEF ContentInv, ContentOf
  <2>2. Current(k, t)' \in Int
    BY NextCurrentType
  <2> QED BY <2>1, <2>2, CurrentGrows, TriggerTypes
<1>1. ASSUME NEW k \in Triggers, NEW t \in Targets,
             UNCHANGED <<recorded[k][t], specs[k][t], content[k][t]>>
      PROVE  ContentOf(k, t)'
  BY <1>0, <1>1 DEF ContentOf, Triggering
<1>2. ASSUME NEW k \in Triggers, GetDiff(k), NEW t \in Targets PROVE ContentOf(k, t)'
  <2>1. /\ recorded' = recorded
        /\ IF t \in Triggering(k) /\ recorded[k][t] # Current(k, t)
           THEN specs'[k][t] = "register" /\ content'[k][t] = Current(k, t)
           ELSE specs'[k][t] = "none"
    BY <1>2, DiffOf
  <2>2. Triggering(k)' = Triggering(k)
    BY DEF Triggering
  <2> QED BY <1>0, <2>1, <2>2 DEF ContentOf
<1>3. ASSUME NEW k \in Triggers, NEW t \in Targets, Register(k, t) \/ Create(k, t)
      PROVE  ContentOf(k, t)'
  <2>1. specs[k][t] # "none" /\ UNCHANGED <<recorded, content>>
    BY <1>3 DEF Register, Create
  <2> QED BY <1>0, <2>1 DEF ContentOf, Triggering
<1>4. ASSUME NEW k \in Triggers, NEW t \in Targets, CreateFails(k, t) PROVE ContentOf(k, t)'
  <2>1. specs'[k][t] = "none" /\ UNCHANGED recorded
    BY <1>4 DEF CreateFails, AfterFailure, TypeInv, TypeOK
  <2> QED BY <1>0, <2>1 DEF ContentOf, Triggering
<1>5. ASSUME NEW k \in Triggers, NEW t \in Targets, UpdateState(k, t)
      PROVE  ContentOf(k, t)' /\ recorded'[k][t] = content[k][t] /\ content[k][t] # None
  <2>1. specs[k][t] # "none" /\ specs'[k][t] = "none" /\ recorded'[k][t] = content[k][t]
    BY <1>5 DEF UpdateState, TypeInv, TypeOK
  <2>2. content[k][t] # None
    BY DEF TypeInv, TypeOK, Wanted, None
  <2> QED BY <1>0, <2>1, <2>2 DEF ContentOf, Triggering
<1>6. ASSUME NEW k \in Triggers, TriggerDies(k), NEW t \in Targets PROVE ContentOf(k, t)'
  <2>1. specs'[k][t] = "none" /\ UNCHANGED recorded
    BY <1>6 DEF TriggerDies, TypeInv, TypeOK
  <2> QED BY <1>0, <2>1 DEF ContentOf, Triggering
<1>7. ASSUME NEW k \in Triggers, NEW t \in Targets PROVE ContentOf(k, t)'
  <2>1. CASE UNCHANGED <<recorded, triggers>>
    BY <1>1, <2>1 DEF triggers
  <2>2. ASSUME NEW l \in Triggers, TriggerStep(l), l # k PROVE ContentOf(k, t)'
    BY <1>1, <2>2, OtherTriggers DEF OfTrigger, TriggerStep
  <2>3. ASSUME NEW u \in Targets, Register(k, u) \/ Create(k, u) \/ UpdateState(k, u) \/ CreateFails(k, u)
        PROVE  ContentOf(k, t)'
    <3>1. CASE u = t
      BY <1>3, <1>4, <1>5, <2>3, <3>1
    <3>2. CASE u # t
      BY <1>1, <2>3, <3>2, OtherTargets
    <3> QED BY <3>1, <3>2
  <2> QED BY <1>2, <1>6, <2>1, <2>2, <2>3, NoTrigger DEF TriggerStep
<1>8. ASSUME NEW t \in Moving PROVE recorded'["moving-commits"][t] # None
  <2>1. t \in Targets /\ recorded["moving-commits"][t] # None /\ "moving-commits" \in Triggers
    BY ConstantTypes DEF ContentInv, Triggers
  <2>2. ASSUME NEW k \in Triggers, GetDiff(k) PROVE recorded'["moving-commits"][t] # None
    BY <2>1, <2>2, DiffOf
  <2>3. ASSUME NEW k \in Triggers, NEW u \in Targets, UpdateState(k, u)
        PROVE  recorded'["moving-commits"][t] # None
    <3>1. CASE k = "moving-commits" /\ u = t
      BY <1>5, <2>3, <3>1
    <3>2. CASE ~(k = "moving-commits" /\ u = t)
      BY <2>1, <2>3, <3>2 DEF UpdateState, TypeInv, TypeOK
    <3> QED BY <3>1, <3>2
  <2>4. CASE recorded' = recorded
    BY <2>1, <2>4
  <2> QED BY <2>2, <2>3, <2>4, NoTrigger DEF TriggerStep, Register, Create, CreateFails, TriggerDies
<1> QED BY <1>7, <1>8 DEF ContentInv, ContentOf

LEMMA WaitStep ==
    ASSUME OnlyForward, TypeInv, ContentInv, WaitInv, Next
    PROVE  WaitInv'
<1>0. ASSUME NEW k \in Triggers, NEW t \in Targets
      PROVE  /\ ContentOf(k, t) /\ Current(k, t) <= Current(k, t)'
             /\ recorded[k][t] \in Int /\ content[k][t] \in Int
             /\ Current(k, t) \in Int /\ Current(k, t)' \in Int
             /\ specs[k][t] \in SpecPhases /\ Triggering(k)' = Triggering(k)
  <2>1. ContentOf(k, t)
    BY DEF ContentInv, ContentOf
  <2>2. Current(k, t)' \in Int
    BY NextCurrentType
  <2> QED BY <2>1, <2>2, CurrentGrows, TriggerTypes DEF Triggering
\* What still leads to a pipeline run does so after the step, or another target of
\* the job does, or the pipeline run is created.
<1>1. ASSUME NEW k \in Triggers, NEW t \in Targets, Waits(k, t)
      PROVE  \/ \E u \in TargetsOf(JobOf[t]) : Waits(k, u)'
             \/ \E l \in Triggers, u \in TargetsOf(JobOf[t]) : Create(l, u)
  <2>0. t \in TargetsOf(JobOf[t])
    BY DEF TargetsOf
  <2>1. ASSUME UNCHANGED <<recorded[k][t], specs[k][t], content[k][t]>>,
               JobOf[t] \notin registered[k] => JobOf[t] \notin registered'[k]
        PROVE  Waits(k, t)'
    BY <1>0, <1>1, <2>1 DEF Waits
  <2>2. CASE UNCHANGED <<recorded, triggers>>
    BY <2>0, <2>1, <2>2 DEF triggers
  <2>3. ASSUME NEW l \in Triggers, TriggerStep(l), l # k PROVE Waits(k, t)'
    BY <2>1, <2>3, OtherTriggers DEF OfTrigger, TriggerStep
  <2>4. CASE GetDiff(k)
    <3>1. /\ recorded' = recorded /\ registered'[k] = {} /\ recorded[k][t] # Current(k, t)
          /\ specs'[k][t] = "register"
      BY <1>0, <1>1, <2>4, DiffOf DEF Waits
    <3> QED BY <1>0, <1>1, <2>0, <3>1 DEF Waits
  <2>5. CASE TriggerDies(k)
    <3>1. specs'[k][t] = "none" /\ recorded' = recorded
      BY <2>5 DEF TriggerDies, TypeInv, TypeOK
    <3> QED BY <1>0, <1>1, <2>0, <3>1 DEF Waits
  <2>6. ASSUME NEW u \in Targets, Register(k, u) PROVE \E w \in TargetsOf(JobOf[t]) : Waits(k, w)'
    <3>1. CASE JobOf[u] = JobOf[t]
      <4>1. /\ specs[k][u] = "register" /\ specs'[k][u] = "create"
            /\ recorded' = recorded /\ u \in TargetsOf(JobOf[t])
        BY <2>6, <3>1 DEF Register, TypeInv, TypeOK, TargetsOf
      <4>2. u \in Triggering(k) /\ recorded[k][u] < Current(k, u)
        BY <1>0, <4>1 DEF ContentOf
      <4>3. Waits(k, u)'
        BY <1>0, <4>1, <4>2 DEF Waits
      <4> QED BY <4>1, <4>3
    <3>2. CASE JobOf[u] # JobOf[t]
      <4>1. registered'[k] = registered[k] \cup {JobOf[u]}
        BY <2>6 DEF Register, TypeInv, TypeOK
      <4> QED BY <2>0, <2>1, <2>6, <3>2, <4>1, OtherTargets
    <3> QED BY <3>1, <3>2
  <2>7. ASSUME NEW u \in Targets, CreateFails(k, u) PROVE Waits(k, t)'
    <3>1. CASE u = t
      <4>1. specs'[k][t] = "none" /\ recorded' = recorded
        BY <2>7, <3>1 DEF CreateFails, AfterFailure, TypeInv, TypeOK
      <4> QED BY <1>0, <1>1, <4>1 DEF Waits
    <3>2. CASE u # t
      BY <2>1, <2>7, <3>2, OtherTargets DEF CreateFails
    <3> QED BY <3>1, <3>2
  <2>8. ASSUME NEW u \in Targets, UpdateState(k, u) PROVE Waits(k, t)'
    <3>1. CASE u = t
      <4>1. content[k][t] < Current(k, t)
        BY <1>1, <2>8, <3>1 DEF UpdateState, Waits
      <4>2. specs'[k][t] = "none" /\ recorded'[k][t] = content[k][t]
        BY <2>8, <3>1 DEF UpdateState, TypeInv, TypeOK
      <4> QED BY <1>0, <1>1, <4>1, <4>2 DEF Waits
    <3>2. CASE u # t
      BY <2>1, <2>8, <3>2, OtherTargets DEF UpdateState
    <3> QED BY <3>1, <3>2
  <2>9. ASSUME NEW u \in Targets, Create(k, u), JobOf[u] # JobOf[t] PROVE Waits(k, t)'
    BY <2>1, <2>9, OtherTargets DEF Create
  <2> QED
    BY <2>0, <2>2, <2>3, <2>4, <2>5, <2>6, <2>7, <2>8, <2>9, NoTrigger DEF TriggerStep, TargetsOf
<1>2. ASSUME NEW k \in Triggers, NEW t \in Triggering(k), Current(k, t) < Current(k, t)',
             UNCHANGED <<recorded, triggers>>
      PROVE  Waits(k, t)'
  <2>1. t \in Targets
    BY ConstantTypes DEF Triggering
  <2> QED BY <1>0, <1>2, <2>1 DEF Waits, ContentOf, triggers
<1>3. ASSUME NEW x \in untriggered' \ untriggered
      PROVE  \E k \in Triggers : Waits(k, x[2])' /\ x[2] \in Targets
  <2>1. ASSUME NEW t \in Targets, Merge(t) PROVE Waits("configs", t)'
    <3>1. PICK w : wanted' = [wanted EXCEPT ![t] = w] /\ w > wanted[t]
      BY <2>1 DEF Merge, OnlyForward
    <3>2. wanted'[t] = w
      BY <3>1 DEF TypeInv, TypeOK
    <3>3. Current("configs", t) < Current("configs", t)' /\ "configs" \in Triggers
      <4>1. wanted[t] < wanted'[t]
        <5>1. wanted[t] \in Int /\ wanted'[t] \in Int
          BY TypeStep, ConstantTypes DEF TypeInv, TypeOK
        <5> QED BY <3>1, <3>2, <5>1
      <4> QED BY <4>1 DEF Current, Triggers
    <3> QED BY <1>2, <2>1, <3>3 DEF Merge, Triggering
  <2>2. ASSUME NEW t \in Moving, Push PROVE Waits("moving-commits", t)'
    <3>1. head < head' /\ "moving-commits" \in Triggers
      BY <2>2, ConstantTypes DEF Push, TypeInv, TypeOK, Triggers
    <3>2. Current("moving-commits", t) < Current("moving-commits", t)'
      BY <3>1 DEF Current
    <3> QED BY <1>2, <2>2, <3>1, <3>2 DEF Push, Triggering
  <2>3. \/ \E t \in Targets : Merge(t) /\ x = <<"configs", t>>
        \/ Push /\ x \in {"moving-commits"} \X Moving
    BY DEF Next, Trigger, Deploy, GetDiff, Register, Create, CreateFails, UpdateState, TriggerDies,
           PopulateDesiredState, ValidatePromotions, Apply, StartPublishing, ReadPromotionData,
           PublishPromotionData, RunDies, DayPasses, Merge, Push, history
  <2> QED BY <2>1, <2>2, <2>3, ConstantTypes DEF Triggers
<1> SUFFICES ASSUME NEW x \in untriggered'
             PROVE  \E k \in Triggers : \E t \in TargetsOf(JobOf[x[2]]) : Waits(k, t)'
  BY DEF WaitInv, TargetsOf
<1>4. CASE x \notin untriggered
  BY <1>3, <1>4 DEF TargetsOf
<1>5. CASE x \in untriggered
  <2>1. PICK k \in Triggers : \E t \in TargetsOf(JobOf[x[2]]) : Waits(k, t)
    BY <1>5 DEF WaitInv
  <2>2. PICK t \in TargetsOf(JobOf[x[2]]) : Waits(k, t)
    BY <2>1
  <2>3. t \in Targets /\ JobOf[t] = JobOf[x[2]]
    BY DEF TargetsOf
  <2>4. ASSUME NEW l \in Triggers, NEW u \in TargetsOf(JobOf[t]), Create(l, u) PROVE FALSE
    BY <2>3, <2>4 DEF Create, TargetsOf
  <2> QED BY <1>1, <2>2, <2>3, <2>4
<1> QED BY <1>4, <1>5

LEMMA WaitInit == ASSUME OnlyForward, Init PROVE ContentInv /\ WaitInv
<1> USE ConstantTypes DEF None
<1>1. ContentInv
  BY DEF Init, ContentInv, OnlyForward, Triggers, Triggering, Current
<1>2. ASSUME NEW t \in New PROVE Waits("configs", t) /\ t \in TargetsOf(JobOf[t])
  BY DEF Init, Waits, Triggers, Triggering, Current, TargetsOf
<1>3. WaitInv
  BY <1>2 DEF Init, WaitInv, Triggers
<1> QED BY <1>1, <1>3

\* While a change waits for a pipeline run to be created after it, some target of
\* its job differs from what a trigger integration has saved of it, or is being
\* triggered.
THEOREM NothingIsForgotten == ASSUME OnlyForward PROVE Spec => []ChangesAreTriggered
<1>1. TypeInv /\ ContentInv /\ WaitInv /\ [Next]_vars => ContentInv' /\ WaitInv'
  <2>1. ContentInv /\ WaitInv /\ UNCHANGED vars => ContentInv' /\ WaitInv'
    BY DEF vars, world, triggers, history, ContentInv, WaitInv, Waits, Current
  <2> QED BY <2>1, ContentStep, WaitStep
<1>2. TypeInv /\ WaitInv => ChangesAreTriggered
  <2> SUFFICES ASSUME TypeInv, NEW x \in untriggered,
                      NEW k \in Triggers, NEW t \in TargetsOf(JobOf[x[2]]), Waits(k, t)
               PROVE  t \in Triggering(k) /\ recorded[k][t] # Current(k, t)
    BY DEF WaitInv, ChangesAreTriggered
  <2>1. t \in Targets
    BY DEF TargetsOf
  <2> QED BY <2>1, TriggerTypes DEF Waits
<1> QED BY TypeAlways, WaitInit, <1>1, <1>2, PTL DEF Spec
-----------------------------------------------------------------------------
(* Soak days. *)

\* Among the sets of a family there is one that is not in it any more when an element
\* is taken away.
LEMMA FiniteMinimum ==
    ASSUME NEW S, IsFiniteSet(S), NEW F \in SUBSET SUBSET S, F # {}
    PROVE  \E T \in F : \A x \in T : T \ {x} \notin F
<1>1. F \subseteq FiniteSubsetsOf(S)
  BY FS_Subset DEF FiniteSubsetsOf
<1>2. PICK T \in F : \A U \in F : <<U, T>> \notin StrictSubsetOrdering(S)
  BY <1>1, FS_StrictSubsetOrderingWellFounded, WFMin
<1>3. ASSUME NEW x \in T, T \ {x} \in F PROVE FALSE
  BY <1>2, <1>3 DEF StrictSubsetOrdering
<1> QED BY <1>3

\* What summing up does, one element after the other.
Adding(h, S, g) == [s \in SUBSET S |->
    IF s = {} THEN 0 ELSE h[CHOOSE x \in s : TRUE] + g[s \ {CHOOSE x \in s : TRUE}]]

\* The sum of a finite set of numbers exists: a largest set of subsets for which it does
\* is closed, so that a smallest subset for which it does not could be added to it.
LEMMA SumExists ==
    ASSUME NEW S, IsFiniteSet(S), NEW h
    PROVE  \E g : g = Adding(h, S, g)
<1> DEFINE first(s) == CHOOSE x \in s : TRUE
           add(s, g) == IF s = {} THEN 0 ELSE h[first(s)] + g[s \ {first(s)}]
           Sums(D) == \E g : \A s \in D : g[s] = add(s, g)
           Closed(D) == \A s \in D : \A x \in s : s \ {x} \in D
           Left == {U \in SUBSET SUBSET S : Closed((SUBSET S) \ U) /\ Sums((SUBSET S) \ U)}
<1>1. SUBSET S \in Left
  <2>1. (SUBSET S) \ (SUBSET S) = {}
    OBVIOUS
  <2> QED BY <2>1
<1>2. IsFiniteSet(SUBSET S)
  BY FS_SUBSET
<1>3. PICK U \in Left : \A t \in U : U \ {t} \notin Left
  <2>1. Left \in SUBSET SUBSET SUBSET S /\ Left # {}
    BY <1>1
  <2> HIDE DEF Left
  <2> QED BY <1>2, <2>1, FiniteMinimum
<1>4. U \in SUBSET SUBSET S /\ Closed((SUBSET S) \ U) /\ Sums((SUBSET S) \ U)
  BY <1>3
<1>5. ASSUME U # {} PROVE FALSE
  <2>1. PICK t \in U : \A x \in t : t \ {x} \notin U
    <3>1. U \in SUBSET SUBSET S
      BY <1>4
    <3> QED BY <1>5, <3>1, FiniteMinimum
  <2>2. \A x \in t : t \ {x} \in (SUBSET S) \ U
    BY <1>4, <2>1
  <2>3. (SUBSET S) \ (U \ {t}) = ((SUBSET S) \ U) \cup {t}
    BY <1>4, <2>1
  <2>4. Closed((SUBSET S) \ (U \ {t}))
    BY <1>4, <2>2, <2>3
  <2>5. Sums((SUBSET S) \ (U \ {t}))
    <3>1. PICK g : \A s \in (SUBSET S) \ U : g[s] = add(s, g)
      BY <1>4
    <3> DEFINE k == [s \in SUBSET S |-> IF s = t THEN add(t, g) ELSE g[s]]
    <3>2. t \in SUBSET S /\ t \notin (SUBSET S) \ U
      BY <1>4, <2>1
    <3>3. \A s : s # {} => first(s) \in s
      OBVIOUS
    <3>4. \A s \in (SUBSET S) \ U : k[s] = g[s]
      BY <3>2
    <3>5. k[t] = add(t, g)
      BY <3>2
    <3> HIDE DEF k, first
    <3>6. ASSUME NEW s \in ((SUBSET S) \ U) \cup {t}, s # {}
          PROVE  k[s \ {first(s)}] = g[s \ {first(s)}]
      BY <1>4, <2>2, <3>3, <3>4, <3>6
    <3>7. \A s \in ((SUBSET S) \ U) \cup {t} : add(s, k) = add(s, g)
      BY <3>6
    <3>8. \A s \in ((SUBSET S) \ U) \cup {t} : k[s] = add(s, k)
      BY <3>1, <3>4, <3>5, <3>7
    <3> QED BY <2>3, <3>8
  <2> QED BY <1>3, <1>4, <2>1, <2>4, <2>5
<1>6. PICK g : \A s \in SUBSET S : g[s] = add(s, g)
  BY <1>4, <1>5
<1>7. [s \in SUBSET S |-> g[s]] = Adding(h, S, [s \in SUBSET S |-> g[s]])
  <2> DEFINE k == [s \in SUBSET S |-> g[s]]
  <2>1. \A s \in SUBSET S : k[s] = g[s] /\ k[s \ {first(s)}] = g[s \ {first(s)}]
    OBVIOUS
  <2>2. \A s \in SUBSET S : k[s] = add(s, k)
    BY <1>6, <2>1
  <2> HIDE DEF k
  <2>3. k = [s \in SUBSET S |-> add(s, k)]
    BY <2>2 DEF k
  <2> QED BY <2>3 DEF k, Adding
<1> QED BY <1>7

AddsUp(g, h, S) ==
    /\ g[{}] = 0
    /\ \A s \in SUBSET S : s # {} =>
          g[s] = h[CHOOSE x \in s : TRUE] + g[s \ {CHOOSE x \in s : TRUE}]

\* A sum of more is more.
LEMMA SumGrows ==
    ASSUME NEW S, IsFiniteSet(S), NEW few, NEW many, NEW f, NEW m,
           AddsUp(f, few, S), AddsUp(m, many, S),
           \A x \in S : few[x] \in Int /\ many[x] \in Int /\ few[x] <= many[x]
    PROVE  f[S] \in Int /\ m[S] \in Int /\ f[S] <= m[S]
<1> DEFINE Good(s) == f[s] \in Int /\ m[s] \in Int /\ f[s] <= m[s]
           Bad == {s \in SUBSET S : ~Good(s)}
<1>1. ASSUME Bad # {} PROVE FALSE
  <2>1. PICK s \in Bad : \A x \in s : s \ {x} \notin Bad
    <3>1. Bad \in SUBSET SUBSET S
      OBVIOUS
    <3> HIDE DEF Bad
    <3> QED BY <1>1, <3>1, FiniteMinimum
  <2>2. s \in SUBSET S /\ ~Good(s)
    BY <2>1
  <2>3. s # {}
    <3>1. f[{}] = 0 /\ m[{}] = 0
      BY DEF AddsUp
    <3>2. Good({})
      BY <3>1
    <3> HIDE DEF Good
    <3> QED BY <2>2, <3>2
  <2> DEFINE x == CHOOSE y \in s : TRUE
  <2>4. x \in s /\ x \in S
    BY <2>2, <2>3
  <2>5. Good(s \ {x})
    BY <2>1, <2>2, <2>4
  <2>6. f[s] = few[x] + f[s \ {x}] /\ m[s] = many[x] + m[s \ {x}]
    BY <2>2, <2>3 DEF AddsUp
  <2> HIDE DEF x
  <2> QED BY <2>2, <2>4, <2>5, <2>6
<1>2. Good(S)
  BY <1>1
<1> QED BY <1>2

\* The publications whose days count for a target.
Sources(t) == {x \in Publications : x[1] \in Subscribes[t]}

LEMMA SourcesAreFinite == ASSUME NEW t PROVE IsFiniteSet(Sources(t))
<1>1. IsFiniteSet(Channels \X Targets)
  BY DeploymentsAssumption, FS_Product
<1>2. Sources(t) \subseteq Channels \X Targets
  BY DEF Sources, Publications
<1> QED BY <1>1, <1>2, FS_Subset

LEMMA SoakedParts ==
    ASSUME NEW t, NEW v
    PROVE  \E g : /\ Soaked(t, v) = g[Sources(t)]
                  /\ AddsUp(g, [x \in Sources(t) |-> data[x][v].days], Sources(t))
<1> DEFINE S == Sources(t)
           h == [x \in S |-> data[x][v].days]
           add(s, g) == IF s = {} THEN 0
                        ELSE data[CHOOSE x \in s : TRUE][v].days + g[s \ {CHOOSE x \in s : TRUE}]
           sum == CHOOSE g : g = [s \in SUBSET S |-> add(s, g)]
<1>1. Soaked(t, v) = sum[S]
  BY DEF Soaked, MapThenSumSet, MapThenFoldSet, Sources
<1>2. \A s \in SUBSET S : s # {} => h[CHOOSE x \in s : TRUE] = data[CHOOSE x \in s : TRUE][v].days
  OBVIOUS
<1>3. PICK g : g = Adding(h, S, g)
  <2> HIDE DEF h, S
  <2> QED BY SourcesAreFinite, SumExists DEF S
<1>4. g = [s \in SUBSET S |-> add(s, g)]
  <2> HIDE DEF h, S
  <2> QED BY <1>2, <1>3 DEF Adding
<1>5. sum = [s \in SUBSET S |-> add(s, sum)]
  BY <1>4
<1> HIDE DEF sum, h, S
<1>6. sum[{}] = 0
  BY <1>5
<1>7. \A s \in SUBSET S : s # {} =>
         sum[s] = h[CHOOSE x \in s : TRUE] + sum[s \ {CHOOSE x \in s : TRUE}]
  BY <1>2, <1>5
<1>8. AddsUp(sum, h, S)
  BY <1>6, <1>7 DEF AddsUp
<1> QED BY <1>1, <1>8 DEF h, S

LEMMA ProvenDaysParts ==
    ASSUME NEW t, NEW v
    PROVE  \E g : /\ ProvenDays(t, v) = g[Sources(t)]
                  /\ AddsUp(g, [x \in Sources(t) |-> proven[x[2]][v]], Sources(t))
<1> DEFINE S == Sources(t)
           h == [x \in S |-> proven[x[2]][v]]
           add(s, g) == IF s = {} THEN 0
                        ELSE proven[(CHOOSE x \in s : TRUE)[2]][v] + g[s \ {CHOOSE x \in s : TRUE}]
           sum == CHOOSE g : g = [s \in SUBSET S |-> add(s, g)]
<1>1. ProvenDays(t, v) = sum[S]
  BY DEF ProvenDays, MapThenSumSet, MapThenFoldSet, Sources
<1>2. \A s \in SUBSET S : s # {} => h[CHOOSE x \in s : TRUE] = proven[(CHOOSE x \in s : TRUE)[2]][v]
  OBVIOUS
<1>3. PICK g : g = Adding(h, S, g)
  <2> HIDE DEF h, S
  <2> QED BY SourcesAreFinite, SumExists DEF S
<1>4. g = [s \in SUBSET S |-> add(s, g)]
  <2> HIDE DEF h, S
  <2> QED BY <1>2, <1>3 DEF Adding
<1>5. sum = [s \in SUBSET S |-> add(s, sum)]
  BY <1>4
<1> HIDE DEF sum, h, S
<1>6. sum[{}] = 0
  BY <1>5
<1>7. \A s \in SUBSET S : s # {} =>
         sum[s] = h[CHOOSE x \in s : TRUE] + sum[s \ {CHOOSE x \in s : TRUE}]
  BY <1>2, <1>5
<1>8. AddsUp(sum, h, S)
  BY <1>6, <1>7 DEF AddsUp
<1> QED BY <1>1, <1>8 DEF h, S

\* Once a commit has succeeded, its promotion data count no more days than have passed
\* since; before that they may count days of a failure.
DaysInv ==
    \A x \in Publications, v \in Commits :
        data[x][v].success \/ data[x][v].once => data[x][v].days <= proven[x[2]][v]

\* The same of a success that a pipeline run has read and goes on from.
ReadDays(rec) ==
    rec.phase = "publish" =>
        \A p \in rec.read : p.old.success => p.old.days <= proven[p.of[2]][rec.commit[p.of[2]]]

\* What a pipeline run still applies has soaked.
SoakedFor(t, v) == Subscribes[t] # {} => ProvenDays(t, v) >= SoakDays[t]
SoakGate(rec) == rec.phase = "apply" => \A t \in rec.left : SoakedFor(t, rec.commit[t])

SoakInv == DaysInv /\ \A r \in Runs : ReadDays(run[r]) /\ SoakGate(run[r])

LEMMA DaysAreNumbers == \A d \in Days \cup {None} : d \in Int
<1>1. None \in Int
  BY DEF None
<1> QED BY <1>1, ConstantTypes

LEMMA DayNumbers ==
    ASSUME TypeInv, NEW t \in Targets, NEW v \in Commits
    PROVE  proven[t][v] \in Int /\ proven[t][v] \in Days \cup {None}
<1>1. proven[t][v] \in Days \cup {None}
  BY DEF TypeInv, TypeOK
<1> QED BY <1>1, DaysAreNumbers

LEMMA ProvenGrows ==
    ASSUME TypeInv, Next, NEW t \in Targets, NEW v \in Commits
    PROVE  proven[t][v] <= proven'[t][v] /\ proven[t][v] \in Int /\ proven'[t][v] \in Int
<1> USE ConstantTypes, DayNumbers
<1>0. proven'[t][v] \in Int /\ proven[t][v] \in Int
  <2>1. proven' \in [Targets -> [Commits -> Days \cup {None}]]
    BY TypeStep DEF TypeInv, TypeOK
  <2>2. proven'[t][v] \in Days \cup {None}
    BY <2>1
  <2> QED BY <2>2, DaysAreNumbers
<1>1. CASE DayPasses
  <2>1. proven'[t][v] = Older(proven[t][v])
    BY <1>1 DEF DayPasses
  <2> QED BY <1>0, <2>1 DEF Older
<1>2. ASSUME NEW r \in Runs, StartPublishing(r) PROVE proven[t][v] <= proven'[t][v]
  <2>1. proven'[t][v] = proven[t][v] \/ (proven'[t][v] = 0 /\ proven[t][v] = None)
    BY <1>2 DEF StartPublishing
  <2> QED BY <1>0, <2>1 DEF None
<1>3. CASE UNCHANGED proven
  BY <1>0, <1>3
<1> QED
  BY <1>0, <1>1, <1>2, <1>3
  DEF Next, Trigger, Deploy, GetDiff, Register, Create, CreateFails, UpdateState, TriggerDies,
      PopulateDesiredState, ValidatePromotions, Apply, ReadPromotionData, PublishPromotionData,
      RunDies, Merge, Push, history

LEMMA SoakedForStays ==
    ASSUME NEW t \in Targets, NEW v \in Commits, SoakedFor(t, v),
           \A u \in Targets : /\ proven[u][v] \in Int /\ proven'[u][v] \in Int
                              /\ proven[u][v] <= proven'[u][v]
    PROVE  SoakedFor(t, v)'
<1> SUFFICES ASSUME Subscribes[t] # {} PROVE ProvenDays(t, v)' >= SoakDays[t]
  BY DEF SoakedFor
<1> DEFINE few == [x \in Sources(t) |-> proven[x[2]][v]]
           many == [x \in Sources(t) |-> proven'[x[2]][v]]
<1>1. PICK f : ProvenDays(t, v) = f[Sources(t)] /\ AddsUp(f, few, Sources(t))
  BY ProvenDaysParts
<1>2. (\E g : /\ ProvenDays(t, v) = g[Sources(t)]
              /\ AddsUp(g, [x \in Sources(t) |-> proven[x[2]][v]], Sources(t)))'
  BY ProvenDaysParts, PTL
<1>3. PICK m : ProvenDays(t, v)' = m[Sources(t)] /\ AddsUp(m, many, Sources(t))
  BY <1>2 DEF AddsUp, Sources, Publications
<1>4. \A x \in Sources(t) : few[x] \in Int /\ many[x] \in Int /\ few[x] <= many[x]
  <2>1. \A x \in Sources(t) : x[2] \in Targets
    BY PublicationTarget DEF Sources
  <2> QED BY <2>1
<1> HIDE DEF few, many
<1>5. f[Sources(t)] \in Int /\ m[Sources(t)] \in Int /\ f[Sources(t)] <= m[Sources(t)]
  BY <1>1, <1>3, <1>4, SourcesAreFinite, SumGrows
<1>6. ProvenDays(t, v) >= SoakDays[t] /\ SoakDays[t] \in Nat
  BY DeploymentsAssumption DEF SoakedFor
<1> QED BY <1>1, <1>3, <1>5, <1>6

\* The gate counts no more days than have passed.
LEMMA ValidIsSoaked ==
    ASSUME TypeInv, GateInv, DaysInv, NEW t \in Targets, NEW v \in Commits, ValidPromotion(t, v)
    PROVE  SoakedFor(t, v)
<1> SUFFICES ASSUME Subscribes[t] # {} PROVE ProvenDays(t, v) >= SoakDays[t]
  BY DEF SoakedFor
<1> DEFINE few == [x \in Sources(t) |-> data[x][v].days]
           many == [x \in Sources(t) |-> proven[x[2]][v]]
<1>1. PICK f : Soaked(t, v) = f[Sources(t)] /\ AddsUp(f, few, Sources(t))
  BY SoakedParts
<1>2. PICK m : ProvenDays(t, v) = m[Sources(t)] /\ AddsUp(m, many, Sources(t))
  BY ProvenDaysParts
<1>3. ASSUME NEW x \in Sources(t)
      PROVE  few[x] \in Int /\ many[x] \in Int /\ few[x] <= many[x]
  <2>1. x \in Publications /\ x[1] \in Subscribes[t] /\ x[2] \in Targets /\ x = <<x[1], x[2]>>
    BY PublicationTarget DEF Sources
  <2>2. x[2] \in PublishersOf(x[1])
    BY <2>1, PublicationTarget DEF PublishersOf
  <2>3. data[x][v].success \/ data[x][v].once
    BY <2>1, <2>2 DEF ValidPromotion, Succeeded
  <2>4. data[x][v].days \in Int
    <3>1. data[x][v] \in PromotionData
      BY <2>1 DEF TypeInv, TypeOK
    <3>2. data[x][v].days \in Days \cup {None}
      BY <3>1 DEF PromotionData, Nothing
    <3> QED BY <3>2, DaysAreNumbers
  <2>5. data[x][v].days <= proven[x[2]][v]
    BY <2>1, <2>3 DEF DaysInv
  <2> QED BY <2>1, <2>4, <2>5, DayNumbers
<1> HIDE DEF few, many
<1>4. f[Sources(t)] \in Int /\ m[Sources(t)] \in Int /\ f[Sources(t)] <= m[Sources(t)]
  BY <1>1, <1>2, <1>3, SourcesAreFinite, SumGrows
<1>5. Soaked(t, v) >= SoakDays[t] /\ SoakDays[t] \in Nat
  BY DeploymentsAssumption DEF ValidPromotion
<1> QED BY <1>1, <1>2, <1>4, <1>5

\* What a pipeline run applies it applied before, or has just validated; what it has read
\* it had read before, or reads now.
Validated(s, t) ==
    /\ t \in run[s].left /\ t \in Targets /\ run[s].commit[t] \in Commits
    /\ \/ run[s].phase = "apply"
       \/ ValidPromotion(t, run[s].commit[t])
WasRead(s, p) ==
    /\ run[s].phase = "publish" /\ p.of \in Publications /\ run[s].commit[p.of[2]] \in Commits
    /\ p \in run[s].read \/ p.old = data[p.of][run[s].commit[p.of[2]]]

LEMMA RunSteps ==
    ASSUME TypeInv, Next, NEW s \in Runs, Going(run'[s])
    PROVE  \/ PopulateDesiredState(s) \/ run'[s] = run[s]
           \/ ValidatePromotions(s) \/ (\E t \in Targets : Apply(s, t)) \/ StartPublishing(s)
           \/ (\E x \in Publications : ReadPromotionData(s, x)) \/ PublishPromotionData(s)
<1> USE DEF Going
<1>0. run \in [Runs -> RunType]
  BY DEF TypeInv, TypeOK, RunType
<1>1. ASSUME NEW k \in Triggers, NEW t \in Targets, Create(k, t) PROVE run'[s] = run[s]
  <2>1. PICK r \in Runs : /\ run[r] = Free
                          /\ run' = [run EXCEPT ![r].phase = "created", ![r].job = JobOf[t]]
    BY <1>1 DEF Create
  <2>2. s = r => run'[s] = [Free EXCEPT !.phase = "created", !.job = JobOf[t]]
    BY <1>0, <2>1
  <2>3. s # r
    BY <2>2 DEF Free
  <2> QED BY <1>0, <2>1, <2>3
<1>2. ASSUME NEW r \in Runs, Deploy(r) \/ RunDies(r), s # r PROVE run'[s] = run[s]
  <2>1. \E new : Set(r, new)
    BY <1>2 DEF Deploy, RunDies, PopulateDesiredState, ValidatePromotions, Apply,
                 StartPublishing, ReadPromotionData, PublishPromotionData
  <2> QED BY <1>0, <1>2, <2>1 DEF Set
<1>3. ~RunDies(s)
  BY <1>0 DEF RunDies, Set, Free
<1> QED
  BY <1>1, <1>2, <1>3
  DEF Next, Deploy, Trigger, GetDiff, Register, CreateFails, UpdateState, TriggerDies, Merge, Push,
      DayPasses

LEMMA RunParts ==
    ASSUME TypeInv, Next, NEW s \in Runs
    PROVE  /\ run'[s].phase = "apply" =>
                /\ run'[s].commit = run[s].commit
                /\ \A t \in run'[s].left : Validated(s, t)
           /\ run'[s].phase = "publish" =>
                \A p \in run'[s].read : run'[s].commit = run[s].commit /\ WasRead(s, p)
<1>0. run \in [Runs -> RunType] /\ run[s] \in RunType
  BY DEF TypeInv, TypeOK, RunType
<1> DEFINE Goal == /\ run'[s].phase = "apply" =>
                        /\ run'[s].commit = run[s].commit
                        /\ \A t \in run'[s].left : Validated(s, t)
                   /\ run'[s].phase = "publish" =>
                        \A p \in run'[s].read : run'[s].commit = run[s].commit /\ WasRead(s, p)
<1>1. ASSUME NEW t \in run[s].left, run[s].phase \in {"validate", "apply"}
      PROVE  t \in Targets /\ run[s].commit[t] \in Commits
  BY <1>0, <1>1 DEF TypeInv, RunInv, RunType
<1>2. ASSUME NEW p \in run[s].read, run[s].phase = "publish"
      PROVE  p.of \in Publications /\ run[s].commit[p.of[2]] \in Commits
  BY <1>0, <1>2, PublicationTarget DEF TypeInv, RunInv, RunType
<1>3. CASE ~Going(run'[s])
  BY <1>3 DEF Going
<1>4. CASE PopulateDesiredState(s)
  <2>1. PICK left, success, commit :
          Set(s, [run[s] EXCEPT !.phase = "validate", !.left = left, !.success = success,
                                !.commit = commit])
    BY <1>4 DEF PopulateDesiredState
  <2>2. run'[s].phase = "validate"
    BY <1>0, <2>1 DEF Set, RunType
  <2> QED BY <2>2
<1>5. CASE run'[s] = run[s]
  BY <1>1, <1>2, <1>5 DEF Validated, WasRead
<1>6. CASE ValidatePromotions(s)
  <2>1. CASE Set(s, Free)
    BY <1>0, <2>1 DEF Set, Free
  <2>2. CASE /\ Set(s, [run[s] EXCEPT !.phase = "apply"])
             /\ \A t \in run[s].left : ValidPromotion(t, run[s].commit[t])
    <3>1. run'[s] = [run[s] EXCEPT !.phase = "apply"]
      BY <1>0, <2>2 DEF Set
    <3>2. run'[s].phase = "apply" /\ run'[s].left = run[s].left /\ run'[s].commit = run[s].commit
      BY <1>0, <3>1 DEF RunType
    <3>3. run[s].phase = "validate"
      BY <1>6 DEF ValidatePromotions
    <3> QED BY <1>1, <2>2, <3>2, <3>3 DEF Validated
  <2> QED BY <1>6, <2>1, <2>2 DEF ValidatePromotions
<1>7. ASSUME NEW t \in Targets, Apply(s, t) PROVE Goal
  <2>1. run[s].phase = "apply"
    BY <1>7 DEF Apply
  <2>2. run'[s].phase = "apply" /\ run'[s].left = run[s].left \ {t} /\ run'[s].commit = run[s].commit
    <3> DEFINE n == [run[s] EXCEPT !.left = @ \ {t}]
               m == [run[s] EXCEPT !.left = @ \ {t}, !.success = FALSE]
    <3>1. run'[s] = n \/ run'[s] = m
      BY <1>0, <1>7 DEF Set, Apply
    <3>2. n.phase = "apply" /\ n.left = run[s].left \ {t} /\ n.commit = run[s].commit
      BY <1>0, <2>1 DEF RunType
    <3>3. m.phase = "apply" /\ m.left = run[s].left \ {t} /\ m.commit = run[s].commit
      BY <1>0, <2>1 DEF RunType
    <3> HIDE DEF n, m
    <3> QED BY <3>1, <3>2, <3>3
  <2>3. \A u \in run'[s].left : Validated(s, u)
    BY <1>1, <2>1, <2>2 DEF Validated
  <2> QED BY <2>2, <2>3
<1>8. CASE StartPublishing(s)
  <2>1. run[s].phase = "apply" /\ run[s].read = {}
    BY <1>8 DEF StartPublishing, TypeInv, RunInv
  <2>2. PICK left : run'[s] \in {Free, [run[s] EXCEPT !.phase = "publish", !.left = left]}
    BY <1>0, <1>8 DEF StartPublishing, Set
  <2>3. run'[s].phase # "apply" /\ run'[s].read = {}
    <3>1. CASE run'[s] = Free
      BY <3>1 DEF Free
    <3>2. CASE run'[s] = [run[s] EXCEPT !.phase = "publish", !.left = left]
      BY <1>0, <2>1, <3>2 DEF RunType
    <3> QED BY <2>2, <3>1, <3>2
  <2> QED BY <2>3
<1>9. ASSUME NEW x \in Publications, ReadPromotionData(s, x) PROVE Goal
  <2> DEFINE old == data[x][run[s].commit[x[2]]]
  <2>1. run[s].phase = "publish" /\ x \in run[s].left
        /\ run'[s] = [run[s] EXCEPT !.left = @ \ {x}, !.read = {[of |-> x, old |-> old]}]
    BY <1>0, <1>9 DEF ReadPromotionData, Set
  <2>2. run[s].commit[x[2]] \in Commits
    BY <1>0, <2>1, PublicationTarget DEF TypeInv, RunInv, RunType
  <2> HIDE DEF old
  <2>3. run'[s].phase = "publish" /\ run'[s].commit = run[s].commit
        /\ \A p \in run'[s].read : p.of = x /\ p.old = old
    BY <1>0, <2>1 DEF RunType
  <2> QED BY <2>1, <2>2, <2>3 DEF WasRead, old
<1>10. CASE PublishPromotionData(s)
  <2>1. run'[s] = Free \/ (run[s].phase = "publish" /\ run'[s] = [run[s] EXCEPT !.read = {}])
    BY <1>0, <1>10 DEF PublishPromotionData, Set
  <2>2. run'[s].phase # "apply" /\ run'[s].read = {}
    BY <1>0, <2>1 DEF Free, RunType
  <2> QED BY <2>2
<1> QED BY <1>3, <1>4, <1>5, <1>6, <1>7, <1>8, <1>9, <1>10, RunSteps

\* How the promotion data of a publication and a commit change.
Ages(x, v) ==
    /\ data'[x][v] = [data[x][v] EXCEPT !.days = Older(@)]
    /\ proven'[x[2]][v] = Older(proven[x[2]][v])
Written(r, p, x, v) ==
    /\ run[r].phase = "publish" /\ p.of = x /\ run[r].commit[x[2]] = v
    /\ data'[x][v] = [success |-> run[r].success,
                      once |-> Once(p.old, run[r].success),
                      days |-> CheckIn(p.old, run[r].success)]

LEMMA DataSteps ==
    ASSUME TypeInv, Next, NEW x \in Publications, NEW v \in Commits, data'[x][v] # data[x][v]
    PROVE  Ages(x, v) \/ \E r \in Runs : \E p \in run[r].read : Written(r, p, x, v)
<1>0. data \in [Publications -> [Commits -> PromotionData]] /\ x[2] \in Targets
  BY PublicationTarget DEF TypeInv, TypeOK
<1>1. CASE DayPasses
  BY <1>0, <1>1 DEF DayPasses, Ages
<1>2. ASSUME NEW r \in Runs, PublishPromotionData(r)
      PROVE  \E p \in run[r].read : Written(r, p, x, v)
  <2>1. PICK p \in run[r].read :
          data' = [data EXCEPT ![p.of][run[r].commit[p.of[2]]] =
             [success |-> run[r].success,
              once |-> Once(p.old, run[r].success),
              days |-> CheckIn(p.old, run[r].success)]]
    BY <1>2 DEF PublishPromotionData
  <2>2. p.of = x /\ run[r].commit[p.of[2]] = v
    BY <1>0, <2>1
  <2> QED BY <1>0, <1>2, <2>1, <2>2 DEF PublishPromotionData, Written
<1> QED
  BY <1>1, <1>2
  DEF Next, Trigger, Deploy, GetDiff, Register, Create, CreateFails, UpdateState, TriggerDies,
      PopulateDesiredState, ValidatePromotions, Apply, StartPublishing, ReadPromotionData,
      RunDies, Merge, Push

LEMMA DaysStep == ASSUME TypeInv, GateInv, SoakInv, Next PROVE DaysInv'
<1> SUFFICES ASSUME NEW x \in Publications, NEW v \in Commits,
                    data'[x][v].success \/ data'[x][v].once
             PROVE  data'[x][v].days <= proven'[x[2]][v]
  BY DEF DaysInv
<1>0. x[2] \in Targets /\ data[x][v] \in PromotionData
  BY PublicationTarget DEF TypeInv, TypeOK
<1>1. /\ proven[x[2]][v] <= proven'[x[2]][v]
      /\ proven[x[2]][v] \in Int /\ proven'[x[2]][v] \in Int
  BY <1>0, ProvenGrows
<1>2. data[x][v].days \in Int /\ data[x][v].days \in Days \cup {None}
  <2>1. data[x][v].days \in Days \cup {None}
    BY <1>0 DEF PromotionData, Nothing
  <2> QED BY <2>1, DaysAreNumbers
<1>3. CASE data'[x][v] = data[x][v]
  <2>1. data[x][v].days <= proven[x[2]][v]
    BY <1>3 DEF SoakInv, DaysInv
  <2> QED BY <1>1, <1>2, <1>3, <2>1
<1>4. CASE Ages(x, v)
  <2>1. /\ data'[x][v].days = Older(data[x][v].days)
        /\ data[x][v].success \/ data[x][v].once
        /\ proven'[x[2]][v] = Older(proven[x[2]][v])
    BY <1>0, <1>4 DEF PromotionData, Nothing, Ages
  <2>2. data[x][v].days <= proven[x[2]][v] /\ proven[x[2]][v] # None
    BY <2>1 DEF SoakInv, DaysInv, GateInv, DataInv
  <2>3. data[x][v].days # None
    <3>1. data[x][v] # Nothing
      BY <2>1 DEF Nothing
    <3>2. data[x][v].days \in Days
      BY <1>0, <3>1 DEF PromotionData
    <3> QED BY <3>2, ConstantTypes
  <2>4. proven[x[2]][v] \in Days /\ data[x][v].days \in Days
    BY <1>0, <1>2, <2>2, <2>3, DayNumbers
  <2>5. Older(data[x][v].days) <= Older(proven[x[2]][v])
    BY <2>2, <2>3, <2>4, ConstantTypes DEF Older, Days
  <2> QED BY <2>1, <2>5
<1>5. ASSUME NEW r \in Runs, NEW p \in run[r].read, Written(r, p, x, v)
      PROVE  data'[x][v].days <= proven'[x[2]][v]
  <2>0. /\ run[r].phase = "publish" /\ p.of = x /\ run[r].commit[x[2]] = v
        /\ data'[x][v].success = run[r].success
        /\ data'[x][v].once = Once(p.old, run[r].success)
        /\ data'[x][v].days = CheckIn(p.old, run[r].success)
    BY <1>5 DEF Written
  <2>1. run[r].success \/ Once(p.old, run[r].success)
    BY <2>0
  <2>2. proven[x[2]][v] # None
    BY <2>0, <2>1 DEF GateInv, ResultsOf, Once
  <2>3. proven[x[2]][v] \in Nat
    BY <1>0, <2>2, DayNumbers, ConstantTypes
  <2>4. p.old.success => p.old.days <= proven[x[2]][v]
    BY <2>0 DEF SoakInv, ReadDays
  <2>5. p.old.days \in Int
    <3>1. p.old \in PromotionData
      BY <1>5 DEF TypeInv, TypeOK
    <3>2. p.old.days \in Days \cup {None}
      BY <3>1 DEF PromotionData, Nothing
    <3> QED BY <3>2, DaysAreNumbers
  <2>6. data'[x][v].days = 0 \/ (p.old.success /\ data'[x][v].days = p.old.days)
    BY <2>0 DEF CheckIn
  <2> QED BY <1>1, <2>3, <2>4, <2>5, <2>6
<1> QED BY <1>3, <1>4, <1>5, DataSteps

LEMMA SoakStep == ASSUME TypeInv, GateInv, SoakInv, Next PROVE SoakInv'
<1>1. ASSUME NEW s \in Runs PROVE ReadDays(run[s])'
  <2> SUFFICES ASSUME run'[s].phase = "publish", NEW p \in run'[s].read, p.old.success
               PROVE  p.old.days <= proven'[p.of[2]][run'[s].commit[p.of[2]]]
    BY DEF ReadDays
  <2>1. run'[s].commit = run[s].commit /\ WasRead(s, p)
    BY RunParts
  <2> DEFINE t == p.of[2]
             v == run[s].commit[t]
  <2>2. t \in Targets /\ v \in Commits /\ p.of \in Publications
    BY <2>1, PublicationTarget DEF WasRead
  <2>3. p.old.days <= proven[t][v]
    <3>1. CASE p \in run[s].read
      BY <2>1, <3>1 DEF WasRead, SoakInv, ReadDays
    <3>2. CASE p.old = data[p.of][v]
      BY <2>2, <3>2 DEF SoakInv, DaysInv
    <3> QED BY <2>1, <3>1, <3>2 DEF WasRead
  <2>4. p.old.days \in Int
    <3>1. run'[s].read \subseteq [of : Publications, old : PromotionData]
      BY TypeStep DEF TypeInv, TypeOK
    <3>2. p.old \in PromotionData
      BY <3>1
    <3>3. p.old.days \in Days \cup {None}
      BY <3>2 DEF PromotionData, Nothing
    <3> QED BY <3>3, DaysAreNumbers
  <2>5. proven[t][v] <= proven'[t][v] /\ proven[t][v] \in Int /\ proven'[t][v] \in Int
    BY <2>2, ProvenGrows
  <2>6. p.old.days <= proven'[t][v]
    BY <2>3, <2>4, <2>5
  <2> QED BY <2>1, <2>6
<1>2. ASSUME NEW s \in Runs PROVE SoakGate(run[s])'
  <2>1. PICK new : new = run'[s]
    OBVIOUS
  <2>2. ASSUME new.phase = "apply", NEW t \in new.left
        PROVE  SoakedFor(t, new.commit[t])'
    <3>1. new.commit = run[s].commit /\ Validated(s, t)
      BY <2>1, <2>2, RunParts
    <3>2. PICK v \in Commits : v = run[s].commit[t]
      BY <3>1 DEF Validated
    <3>3. t \in Targets /\ SoakedFor(t, v)
      <4>1. CASE run[s].phase = "apply"
        BY <3>1, <3>2, <4>1 DEF Validated, SoakInv, SoakGate
      <4>2. CASE ValidPromotion(t, v)
        BY <3>1, <4>2, ValidIsSoaked DEF Validated, SoakInv
      <4> QED BY <3>1, <3>2, <4>1, <4>2 DEF Validated
    <3>4. SoakedFor(t, v)'
      BY <3>3, SoakedForStays, ProvenGrows
    <3>5. v = new.commit[t]
      BY <3>1, <3>2
    <3> QED BY <3>4, <3>5
  <2>3. SoakGate(new)'
    BY <2>2 DEF SoakGate
  <2> QED BY <2>1, <2>3 DEF SoakGate
<1> QED BY <1>1, <1>2, DaysStep DEF SoakInv

LEMMA SoakInit == ASSUME Init PROVE SoakInv
<1>1. DaysInv
  <2> SUFFICES ASSUME NEW x \in Publications, NEW v \in Commits,
                      data[x][v].success \/ data[x][v].once
               PROVE  data[x][v].days <= proven[x[2]][v]
    BY DEF DaysInv
  <2>1. v = 0 /\ x[2] \notin New /\ data[x][v].days = MaxSoak
    BY DEF Init, Nothing
  <2>2. proven[x[2]][v] = MaxSoak
    BY <2>1, PublicationTarget DEF Init
  <2> QED BY <2>1, <2>2, ConstantTypes
<1>2. \A r \in Runs : ReadDays(run[r]) /\ SoakGate(run[r])
  BY DEF Init, Free, ReadDays, SoakGate
<1> QED BY <1>1, <1>2 DEF SoakInv

\* A subscriber gets a commit only when the days since its publishers first had it without
\* error add up to its soak days, whatever failed in between, and however many pipeline
\* runs read and publish promotion data at once.
THEOREM PromotionsAreSoaked == ASSUME NewPublishToNew PROVE Spec => SoakedBeforePromotion
<1>1. TypeInv /\ GateInv /\ [Next]_vars => GateInv'
  <2>1. TypeInv /\ GateInv /\ UNCHANGED vars => GateInv'
    BY DEF vars, history, GateInv, DataInv, GateOf, ResultsOf, ProvenFor, PublishersOf
  <2> QED BY <2>1, GateStep
<1>2. TypeInv /\ GateInv /\ SoakInv /\ [Next]_vars => SoakInv'
  <2>1. ASSUME TypeInv, SoakInv, UNCHANGED vars PROVE SoakInv'
    <3>1. DaysInv' /\ \A r \in Runs : ReadDays(run[r])'
      BY <2>1 DEF vars, history, SoakInv, DaysInv, ReadDays
    <3>2. ASSUME NEW r \in Runs PROVE SoakGate(run[r])'
      <4>1. PICK rec \in RunType : rec = run[r]
        BY <2>1 DEF TypeInv, TypeOK, RunType
      <4>2. ASSUME rec.phase = "apply", NEW t \in rec.left PROVE SoakedFor(t, rec.commit[t])'
        <5>1. PICK v \in Commits : v = rec.commit[t]
          BY <2>1, <4>1, <4>2 DEF TypeInv, RunInv, RunType
        <5>2. t \in Targets /\ SoakedFor(t, v)
          BY <2>1, <4>1, <4>2, <5>1 DEF TypeInv, RunInv, SoakInv, SoakGate
        <5>3. \A u \in Targets : /\ proven[u][v] \in Int /\ proven'[u][v] \in Int
                                 /\ proven[u][v] <= proven'[u][v]
          BY <2>1, DayNumbers DEF vars, history
        <5>4. SoakedFor(t, v)'
          BY <5>2, <5>3, SoakedForStays
        <5> QED BY <5>1, <5>4
      <4>3. SoakGate(rec)'
        BY <4>2 DEF SoakGate
      <4>4. run'[r] = rec
        BY <2>1, <4>1 DEF vars
      <4> QED BY <4>3, <4>4 DEF SoakGate
    <3> QED BY <3>1, <3>2 DEF SoakInv
  <2> QED BY <2>1, SoakStep
<1>3. TypeInv /\ SoakInv /\ [Next]_vars =>
        [\A t \in Targets : Subscribes[t] # {} /\ deployed'[t] # deployed[t] =>
           ProvenDays(t, deployed'[t]) >= SoakDays[t]]_vars
  <2> SUFFICES ASSUME TypeInv, SoakInv, Next, NEW t \in Targets, Subscribes[t] # {},
                      deployed'[t] # deployed[t]
               PROVE  ProvenDays(t, deployed'[t]) >= SoakDays[t]
    OBVIOUS
  <2>1. PICK r \in Runs, u \in Targets : Apply(r, u)
    BY DEF Next, Trigger, Deploy, GetDiff, Register, Create, CreateFails, UpdateState, TriggerDies,
           PopulateDesiredState, ValidatePromotions, StartPublishing, ReadPromotionData,
           PublishPromotionData, RunDies, Merge, Push, DayPasses
  <2>2. run[r].phase = "apply" /\ t \in run[r].left /\ deployed'[t] = run[r].commit[t]
    BY <2>1 DEF Apply, TypeInv, TypeOK
  <2> QED BY <2>2 DEF SoakInv, SoakGate, SoakedFor
<1> QED BY TypeAlways, GateInit, SoakInit, <1>1, <1>2, <1>3, PTL DEF Spec, SoakedBeforePromotion
=============================================================================
