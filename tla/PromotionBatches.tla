-------------------------- MODULE PromotionBatches --------------------------
(***************************************************************************)
(* The merge requests of the saas-auto-promotions-manager (SAPM).  Each run *)
(* reads which promotions are wanted and which of its merge requests are    *)
(* open, closes those that failed or are outdated and opens new ones, many  *)
(* promotions in one while it can, one promotion alone after a failure.     *)
(*                                                                         *)
(* A promotion is a channel (a combination of channels, in the code) and    *)
(* the version it promotes to; its hash stands for both.  Merge requests    *)
(* are checked by a pipeline and merged by gitlab-housekeeping.             *)
(***************************************************************************)
EXTENDS Integers, FiniteSets

CONSTANTS
    Channels,
    FileOf,      \* the saas file of the subscribers of a channel
    MaxVersion,
    Bad,         \* promotions whose check fails
    BatchLimit,  \* BATCH_SIZE_LIMIT
    MaxChanges,  \* bound on new versions and on publishers that fail or recover
    MaxFaults    \* bound on crashes, conflicts and checks that fail for nothing

Versions == 0..MaxVersion
Promotions == Channels \X Versions

ASSUME PromotionBatchesAssumption ==
    /\ IsFiniteSet(Channels)
    /\ MaxVersion \in Nat
    /\ Bad \subseteq Promotions
    /\ BatchLimit \in Nat \ {0}
    /\ {MaxChanges, MaxFaults} \subseteq Nat

SomePromotions == (SUBSET Promotions) \ {{}}
Additions == [promotions : SomePromotions, batchable : BOOLEAN]
Requests == [promotions : SomePromotions, batchable : BOOLEAN,
             check : {"running", "passed", "failed"}, conflicts : BOOLEAN,
             content : SUBSET Promotions]
Rendered == [promotions : SomePromotions, batchable : BOOLEAN, content : SUBSET Promotions]

VARIABLES
    published, \* the version the publishers of a channel have deployed
    ready,     \* they all have, with success
    master,    \* the version the subscribers have in app-interface
    bundle,    \* and what of it qontract-server has loaded
    requests   \* SAPM's open merge requests

VARIABLES
    phase,   \* of SAPM
    wanted,  \* the desired promotions it has computed
    closing, \* merge requests it still has to close
    opening, \* what it still has to render
    rendered \* and then to open

VARIABLES changes, faults

world == <<published, ready, master, bundle>>
run == <<phase, wanted, closing, opening, rendered>>
vars == <<world, requests, run, changes, faults>>

PromotedBy(R) == UNION {r.promotions : r \in R}
ChannelsOf(r) == {p[1] : p \in r.promotions}

Stop ==
    /\ phase' = "idle"
    /\ wanted' = {} /\ closing' = {} /\ opening' = {} /\ rendered' = {}

\* What the files say once those of P are written.
Written(P, files) == [c \in Channels |->
    IF \E p \in P : p[1] = c THEN CHOOSE v \in Versions : <<c, v>> \in P ELSE files[c]]
-----------------------------------------------------------------------------
(* Batcher.reconcile, for the merge requests R that are open. *)

Unbatchable(R) == {r \in R : ~r.batchable}
Failed(R) == {r \in R : r.batchable /\ r.check = "failed"}

\* Mutant: a batch that failed is left to itself.
AloneNever(R) == {}
\* Promotions of a batch that failed go into merge requests of their own.
Alone(R) == (wanted \cap PromotedBy(Failed(R))) \ PromotedBy(Unbatchable(R))

StillWanted(R) == wanted \ Alone(R)

\* Mutant: outdated if none of it is wanted.
OutdatedAll(R) ==
    {r \in R \ Failed(R) : r.promotions \cap StillWanted(R) = {}}
Outdated(R) ==
    {r \in R \ Failed(R) : ~(r.promotions \subseteq StillWanted(R))}

Kept(R) == R \ (Failed(R) \cup Outdated(R))
Missing(R) == StillWanted(R) \ PromotedBy(Kept(R))

\* Mutant: a batch with room is not opened again.
WithRoomNone(R) == {}
WithRoom(R) == {r \in Kept(R) : r.batchable /\ Cardinality(r.promotions) < BatchLimit}

\* The ways to make full batches of S, in whichever order it comes.
FullBatches(S) ==
    {P \in SUBSET SUBSET S :
        /\ UNION P = S
        /\ \A B \in P : Cardinality(B) = BatchLimit
        /\ \A B, C \in P : B # C => B \cap C = {}}

\* What is missing fills batches up to the limit; the rest joins the batch that
\* had room, which may make it larger than the limit.
Batches(S, old) ==
    UNION {
        {full \cup ({rest \cup old} \ {{}}) : full \in FullBatches(S \ rest)} :
        rest \in {T \in SUBSET S : Cardinality(T) = Cardinality(S) % BatchLimit}}

\* One of the merge requests with room is taken, if there is something to add.
Reopened(R) ==
    IF Missing(R) = {} \/ WithRoom(R) = {} THEN {{}} ELSE {{r} : r \in WithRoom(R)}
-----------------------------------------------------------------------------
Init ==
    /\ published = [c \in Channels |-> 0]
    /\ ready = [c \in Channels |-> TRUE]
    /\ master = [c \in Channels |-> 0]
    /\ bundle = master
    /\ requests = {}
    /\ phase = "idle"
    /\ wanted = {} /\ closing = {} /\ opening = {} /\ rendered = {}
    /\ changes = 0 /\ faults = 0

\* Subscriber.compute_desired_state and has_diff, from the bundle.
ComputeDesired ==
    /\ phase = "idle"
    /\ wanted' = {<<c, published[c]>> : c \in
                    {d \in Channels : ready[d] /\ published[d] # bundle[d]}}
    /\ phase' = "fetch"
    /\ UNCHANGED <<world, requests, closing, opening, rendered, changes, faults>>

\* MRParser.fetch_mrs closes what conflicts, then the batcher takes the others.
FetchRequests ==
    /\ phase = "fetch"
    /\ LET conflicting == {r \in requests : r.conflicts}
           R == requests \ conflicting
       IN \E reopened \in Reopened(R) :
          \E batches \in Batches(Missing(R), PromotedBy(reopened)) :
            /\ closing' = conflicting \cup Failed(R) \cup Outdated(R) \cup reopened
            /\ opening' = [promotions : {{p} : p \in Alone(R)}, batchable : {FALSE}]
                          \cup [promotions : batches, batchable : {TRUE}]
    /\ phase' = "close"
    /\ UNCHANGED <<world, requests, wanted, rendered, changes, faults>>

\* One that was merged meanwhile is past closing; GitLab may refuse, and the run
\* ends, or the branch was still there to delete.
Close(r) ==
    /\ phase = "close"
    /\ r \in closing
    /\ requests' = {q \in requests : q.promotions # r.promotions}
    /\ \/ closing' = closing \ {r} /\ UNCHANGED <<phase, wanted, opening, rendered>>
       \/ requests' = requests /\ Stop
    /\ UNCHANGED <<world, changes, faults>>

\* Mutant: what is left to close is left for the next run.
ClosedEarly ==
    /\ phase = "close"
    /\ phase' = "open"
    /\ UNCHANGED <<world, requests, wanted, closing, opening, rendered, changes, faults>>
Closed ==
    /\ phase = "close"
    /\ closing = {}
    /\ phase' = "open"
    /\ UNCHANGED <<world, requests, wanted, closing, opening, rendered, changes, faults>>

\* The channels whose subscribers are in the files that promotions P change.
InFilesOf(P) == {c \in Channels : \E p \in P : FileOf[c] = FileOf[p[1]]}

\* All additions are rendered before the first is opened.  The content is that of
\* whole files: as they are in master now, but for what is promoted.
Render(a) ==
    /\ phase = "open"
    /\ a \in opening
    /\ opening' = opening \ {a}
    /\ rendered' = rendered \cup
        {[promotions |-> a.promotions, batchable |-> a.batchable,
          content |-> {<<c, Written(a.promotions, master)[c]>> : c \in InFilesOf(a.promotions)}]}
    /\ UNCHANGED <<world, requests, phase, wanted, closing, changes, faults>>

\* The files are overwritten on a new branch of what master has become; what then
\* differs is what the merge request changes, and without any nothing is opened.
Open(m) ==
    /\ phase = "open"
    /\ opening = {}
    /\ m \in rendered
    /\ rendered' = rendered \ {m}
    /\ LET diffs == {p \in m.content : master[p[1]] # p[2]}
       IN requests' = IF diffs = {} THEN requests
            ELSE requests \cup {[promotions |-> m.promotions, batchable |-> m.batchable,
                                 check |-> "running", conflicts |-> FALSE, content |-> diffs]}
    /\ UNCHANGED <<world, phase, wanted, closing, opening, changes, faults>>

EndRun ==
    /\ phase = "open"
    /\ opening = {} /\ rendered = {}
    /\ Stop
    /\ UNCHANGED <<world, requests, changes, faults>>
-----------------------------------------------------------------------------
(* Publishers, GitLab and failures. *)

Publish(c) ==
    /\ changes < MaxChanges
    /\ changes' = changes + 1
    /\ \/ published[c] < MaxVersion /\ published' = [published EXCEPT ![c] = @ + 1]
          /\ UNCHANGED ready
       \/ ready' = [ready EXCEPT ![c] = ~@] /\ UNCHANGED published
    /\ UNCHANGED <<master, bundle, requests, run, faults>>

LoadBundle ==
    /\ bundle # master
    /\ bundle' = master
    /\ UNCHANGED <<published, ready, master, requests, run, changes, faults>>

Fault == faults < MaxFaults /\ faults' = faults + 1

\* A batch may fail by accident; a merge request of one promotion would then be
\* for its owners to check again.
CheckEnds(r) ==
    /\ r.check = "running"
    /\ \E result \in {"passed", "failed"} :
        /\ requests' = (requests \ {r}) \cup {[r EXCEPT !.check = result]}
        /\ IF (result = "failed") = (r.promotions \cap Bad # {})
           THEN UNCHANGED faults
           ELSE result = "failed" /\ r.batchable /\ Fault
    /\ UNCHANGED <<world, run, changes>>

\* Those that say something else of the same subscribers.
Clashing(r) ==
    {q \in requests \ {r} : \E p \in q.content, s \in r.content : p[1] = s[1] /\ p[2] # s[2]}

\* gitlab-housekeeping merges.  Another merge request conflicts if it changes the
\* same lines otherwise, and may if it changes others of the same files.
MergeRequest(r) ==
    /\ r.check = "passed"
    /\ ~r.conflicts
    /\ \E more \in {{}} \cup {{q} : q \in requests \ {r}} :
        LET hit == Clashing(r) \cup more
        IN /\ requests' = ((requests \ {r}) \ hit) \cup
                          {[q EXCEPT !.conflicts = TRUE] : q \in hit}
           /\ IF more = {} THEN UNCHANGED faults ELSE Fault
    /\ master' = Written(r.content, master)
    /\ UNCHANGED <<published, ready, bundle, run, changes>>

Crash ==
    /\ phase # "idle"
    /\ Fault
    /\ Stop
    /\ UNCHANGED <<world, requests, changes>>

RunStep ==
    \/ ComputeDesired \/ FetchRequests \/ Closed \/ EndRun
    \/ \E r \in closing : Close(r)
    \/ \E a \in opening : Render(a)
    \/ \E m \in rendered : Open(m)

Next ==
    \/ RunStep
    \/ Crash
    \/ \E c \in Channels : Publish(c)
    \/ LoadBundle
    \/ \E r \in requests : CheckEnds(r) \/ MergeRequest(r)

Spec == Init /\ [][Next]_vars

\* SAPM and qontract-server go on, checks end, and what has passed is merged.
FairSpec ==
    /\ Spec
    /\ WF_vars(RunStep)
    /\ WF_vars(LoadBundle)
    /\ WF_vars(\E r \in requests : CheckEnds(r))
    /\ WF_vars(\E r \in requests : MergeRequest(r))
-----------------------------------------------------------------------------
TypeOK ==
    /\ published \in [Channels -> Versions]
    /\ ready \in [Channels -> BOOLEAN]
    /\ master \in [Channels -> Versions]
    /\ bundle \in [Channels -> Versions]
    /\ requests \subseteq Requests
    /\ phase \in {"idle", "fetch", "close", "open"}
    /\ wanted \subseteq Promotions
    /\ closing \subseteq Requests
    /\ opening \subseteq Additions
    /\ rendered \subseteq Rendered
    /\ {changes, faults} \subseteq Nat

\* No two open merge requests are about the same channel, nor does one say two
\* things of it: whichever is merged first, nothing is promoted twice.
OneRequestPerChannel ==
    /\ \A r, q \in requests : r # q => ChannelsOf(r) \cap ChannelsOf(q) = {}
    /\ \A r \in requests : Cardinality(ChannelsOf(r)) = Cardinality(r.promotions)

\* _batch_remaining_mrs: "there should always only be maximum one batch with
\* capacity available".
OneBatchWithRoom ==
    Cardinality({r \in requests : /\ r.batchable
                                  /\ Cardinality(r.promotions) < BatchLimit}) <= 1

\* What is open never is older than what the subscribers have: whatever is merged
\* before it, a request takes none of the channels it promotes back.
NoneIsBehind == \A r \in requests : \A p \in r.promotions : master[p[1]] <= p[2]

\* The subscribers of a channel never get an older version back.
NoRollback == [][\A c \in Channels : master'[c] >= master[c]]_vars

\* _unbatch: "we ensure that unrelated MRs are not blocking each other".  A
\* version that stays published and passes its check gets to the subscribers,
\* whatever else was in its batches, and in the end it stays there, though a
\* request rendered before may have taken it back.
GoodPromotionsAreMerged ==
    \A p \in Promotions \ Bad :
        <>[](published[p[1]] = p[2] /\ ready[p[1]]) => <>[](master[p[1]] = p[2])
=============================================================================
