----------------------- MODULE PromotionBatches_proofs -----------------------
(***************************************************************************)
(* Theorems about PromotionBatches, for any channels, files, versions,      *)
(* failing promotions and batch limit: open merge requests do not share     *)
(* channels and promote none of them backwards, nothing is rolled back when *)
(* files are not shared, and one batch at most has room.                    *)
(*                                                                         *)
(* The idea: SAPM is the only one to open merge requests, and what it opens *)
(* was wanted when the run began.  Whatever was open then and is not about  *)
(* to be closed is apart from that, and at an older version if it is about  *)
(* the same channel; others can only merge or check in the meantime.  The   *)
(* old versions that a request carries for other channels of its files were *)
(* in master once, so they are no newer than what is asked for.             *)
(***************************************************************************)
EXTENDS PromotionBatches, FiniteSetTheorems, TLAPS

OneVersionEach(P) == \A p, q \in P : p[1] = q[1] => p = q
Apart(P, Q) == \A p \in P : \A q \in Q : p[1] # q[1]
HasRoom(r) == r.batchable /\ Cardinality(r.promotions) < BatchLimit
BeingClosed == {q.promotions : q \in closing}

\* What SAPM still has to open, rendered or not.
AsAddition(m) == [promotions |-> m.promotions, batchable |-> m.batchable]
Left == opening \cup {AsAddition(m) : m \in rendered}

\* The promotions that are asked for, and the versions that requests carry.
Asked == wanted \cup PromotedBy(requests)
Carried == UNION {x.content : x \in requests \cup rendered}

PhaseInv ==
    /\ phase = "idle" => wanted = {}
    /\ phase \in {"idle", "fetch"} => closing = {} /\ opening = {}
    /\ phase # "open" => rendered = {}
    /\ phase = "open" => closing = {}

ApartInv ==
    /\ \A r \in requests : OneVersionEach(r.promotions)
    /\ \A r, q \in requests : r # q => Apart(r.promotions, q.promotions)

\* What is asked for is between master and what is published, what is wanted is
\* not older than what is open, and what is carried is not newer than either.
VersionInv ==
    /\ \A c \in Channels : master[c] <= published[c]
    /\ \A p \in Asked : master[p[1]] <= p[2] /\ p[2] <= published[p[1]]
    /\ \A p \in wanted : \A q \in PromotedBy(requests) : q[1] = p[1] => q[2] <= p[2]
    /\ \A s \in Carried : s[2] <= published[s[1]]
    /\ \A s \in Carried : \A p \in Asked : p[1] = s[1] => s[2] <= p[2]

OpeningInv ==
    /\ OneVersionEach(wanted)
    /\ \A a \in Left : a.promotions \subseteq wanted
    /\ \A a, b \in Left : a # b => Apart(a.promotions, b.promotions)
    /\ \A r \in requests : \A a \in Left :
          r.promotions \in BeingClosed \/ Apart(r.promotions, a.promotions)

\* What is rendered is left once: to be opened, and no more to be rendered.
RenderedInv ==
    /\ \A m, n \in rendered : AsAddition(m) = AsAddition(n) => m = n
    /\ \A m \in rendered : AsAddition(m) \notin opening

RoomInv ==
    /\ \A r, q \in requests : HasRoom(r) /\ HasRoom(q) => r = q
    /\ \A a, b \in Left : HasRoom(a) /\ HasRoom(b) => a = b
    /\ \A r \in requests : \A a \in Left :
          HasRoom(r) /\ HasRoom(a) => r.promotions \in BeingClosed

IInv ==
    TypeOK /\ PhaseInv /\ ApartInv /\ VersionInv /\ OpeningInv /\ RenderedInv /\ RoomInv
-----------------------------------------------------------------------------
(* Sets of promotions. *)

LEMMA PromotionParts ==
    ASSUME NEW p \in Promotions
    PROVE  /\ p[1] \in Channels /\ p[2] \in Versions /\ p[2] \in Int
           /\ p = <<p[1], p[2]>>
BY PromotionBatchesAssumption DEF Promotions, Versions

LEMMA ApartSubset ==
    ASSUME NEW P, NEW Q, NEW R \in SUBSET P, NEW S \in SUBSET Q, Apart(P, Q)
    PROVE  Apart(R, S)
BY DEF Apart

LEMMA ApartSymmetric ==
    ASSUME NEW P, NEW Q, Apart(P, Q)
    PROVE  Apart(Q, P)
BY DEF Apart

\* Of promotions to one version each, disjoint ones are about other channels.
LEMMA DisjointAreApart ==
    ASSUME NEW W, OneVersionEach(W), NEW P \in SUBSET W, NEW Q \in SUBSET W, P \cap Q = {}
    PROVE  Apart(P, Q)
BY DEF Apart, OneVersionEach

LEMMA RequestParts ==
    ASSUME NEW r \in Requests
    PROVE  /\ r.promotions \in SUBSET Promotions
           /\ r.promotions # {}
           /\ r.batchable \in BOOLEAN
           /\ r.check \in {"running", "passed", "failed"}
           /\ r.content \in SUBSET Promotions
BY DEF Requests, SomePromotions

LEMMA SamePromotionsSameRequest ==
    ASSUME TypeOK, ApartInv, NEW r \in requests, NEW q \in requests,
           r.promotions = q.promotions
    PROVE  r = q
<1>1. PICK p \in r.promotions : TRUE
  BY RequestParts DEF TypeOK
<1> QED BY <1>1 DEF ApartInv, Apart

LEMMA PromotionsAreFinite == IsFiniteSet(Promotions)
<1>1. IsFiniteSet(Channels)
  BY PromotionBatchesAssumption
<1>2. IsFiniteSet(Versions)
  BY PromotionBatchesAssumption, FS_Interval DEF Versions
<1> QED BY <1>1, <1>2, FS_Product DEF Promotions

\* Promotions to one version each are as many as their channels.
LEMMA OneVersionEachCounts ==
    ASSUME NEW r \in Requests, OneVersionEach(r.promotions)
    PROVE  Cardinality(ChannelsOf(r)) = Cardinality(r.promotions)
<1> DEFINE P == r.promotions
           f == [p \in P |-> p[1]]
<1>1. IsFiniteSet(P)
  BY RequestParts, PromotionsAreFinite, FS_Subset
<1>2. f \in Bijection(P, ChannelsOf(r))
  BY DEF OneVersionEach, ChannelsOf, Bijection, Injection, Surjection, IsInjective
<1>3. ExistsBijection(P, ChannelsOf(r))
  BY <1>2 DEF ExistsBijection
<1> QED BY <1>1, <1>3, FS_Bijection
-----------------------------------------------------------------------------
(* Types. *)

LEMMA TypeInit == ASSUME Init PROVE TypeOK
BY PromotionBatchesAssumption DEF Init, TypeOK, Versions

LEMMA FullParts ==
    ASSUME NEW S, NEW full \in FullBatches(S)
    PROVE  /\ \A B \in full : B \in SUBSET S /\ Cardinality(B) = BatchLimit /\ B # {}
           /\ \A B, C \in full : B # C => B \cap C = {}
<1>1. /\ UNION full = S
      /\ \A B \in full : Cardinality(B) = BatchLimit
      /\ \A B, C \in full : B # C => B \cap C = {}
  BY DEF FullBatches
<1>2. Cardinality({}) = 0 /\ BatchLimit # 0
  BY FS_EmptySet, PromotionBatchesAssumption
<1> QED BY <1>1, <1>2

\* The requests of the batcher are among the open ones, and so are its parts.
LEMMA KeptParts ==
    ASSUME NEW R \in SUBSET requests
    PROVE  /\ Kept(R) \in SUBSET R /\ Failed(R) \in SUBSET R /\ Outdated(R) \in SUBSET R
           /\ \A r \in R : r \in Failed(R) \/ r \in Outdated(R) \/ r \in Kept(R)
           /\ \A r \in Kept(R) : r.promotions \in SUBSET StillWanted(R)
           /\ Alone(R) \in SUBSET wanted /\ StillWanted(R) = wanted \ Alone(R)
           /\ Missing(R) \in SUBSET StillWanted(R)
           /\ \A r \in Kept(R) : r.promotions \cap Missing(R) = {}
<1>1. /\ Kept(R) \in SUBSET R /\ Failed(R) \in SUBSET R /\ Outdated(R) \in SUBSET R
      /\ \A r \in R : r \in Failed(R) \/ r \in Outdated(R) \/ r \in Kept(R)
  BY DEF Kept, Failed, Outdated
<1>2. \A r \in Kept(R) : r.promotions \in SUBSET StillWanted(R)
  BY DEF Kept, Outdated
<1>3. Alone(R) \in SUBSET wanted /\ StillWanted(R) = wanted \ Alone(R)
  BY DEF Alone, StillWanted
<1>4. /\ Missing(R) \in SUBSET StillWanted(R)
      /\ \A r \in Kept(R) : r.promotions \cap Missing(R) = {}
  BY DEF Missing, PromotedBy
<1> QED BY <1>1, <1>2, <1>3, <1>4

\* At most one batch is opened again: if any, one with room, and none is left
\* with room when something is missing.
LEMMA ReopenedParts ==
    ASSUME RoomInv, NEW R \in SUBSET requests, NEW reopened \in Reopened(R)
    PROVE  /\ reopened \in SUBSET Kept(R)
           /\ Missing(R) = {} => reopened = {}
           /\ Missing(R) # {} => \A r \in Kept(R) : HasRoom(r) => r \in reopened
<1>1. \A r \in Kept(R) : HasRoom(r) <=> r \in WithRoom(R)
  BY DEF HasRoom, WithRoom
<1>2. WithRoom(R) \in SUBSET Kept(R) /\ Kept(R) \in SUBSET requests
  BY KeptParts DEF WithRoom
<1>3. CASE Missing(R) = {} \/ WithRoom(R) = {}
  BY <1>1, <1>3 DEF Reopened
<1>4. CASE Missing(R) # {} /\ WithRoom(R) # {}
  <2>1. PICK r \in WithRoom(R) : reopened = {r}
    BY <1>4 DEF Reopened
  <2> QED BY <1>1, <1>2, <1>4, <2>1 DEF RoomInv
<1> QED BY <1>3, <1>4

\* What a run opens is wanted, apart from what stays open and from each other, and
\* one batch of it at most has room, which is none if one with room stays open.
LEMMA FetchOpens ==
    ASSUME IInv, FetchRequests
    PROVE  /\ \A a \in opening' : /\ a.promotions \in SUBSET wanted /\ a.promotions # {}
                                  /\ a.batchable \in BOOLEAN
                                  /\ a = [promotions |-> a.promotions, batchable |-> a.batchable]
           /\ \A a, b \in opening' : a # b => Apart(a.promotions, b.promotions)
           /\ \A a, b \in opening' : HasRoom(a) /\ HasRoom(b) => a = b
           /\ closing' \in SUBSET requests
           /\ \A r \in requests : r \notin closing' => \A a \in opening' :
                 /\ Apart(r.promotions, a.promotions)
                 /\ ~(HasRoom(r) /\ HasRoom(a))
<1> DEFINE conflicting == {r \in requests : r.conflicts}
           R == requests \ conflicting
<1>1. PICK reopened \in Reopened(R) : \E batches \in Batches(Missing(R), PromotedBy(reopened)) :
         /\ closing' = conflicting \cup Failed(R) \cup Outdated(R) \cup reopened
         /\ opening' = [promotions : {{p} : p \in Alone(R)}, batchable : {FALSE}]
                       \cup [promotions : batches, batchable : {TRUE}]
  BY DEF FetchRequests
<1> DEFINE old == PromotedBy(reopened)
<1>2. PICK batches \in Batches(Missing(R), old) :
         /\ closing' = conflicting \cup Failed(R) \cup Outdated(R) \cup reopened
         /\ opening' = [promotions : {{p} : p \in Alone(R)}, batchable : {FALSE}]
                       \cup [promotions : batches, batchable : {TRUE}]
  BY <1>1
<1> HIDE DEF R, conflicting, old
<1>3. PICK rest \in SUBSET Missing(R) : \E full \in FullBatches(Missing(R) \ rest) :
         batches = full \cup ({rest \cup old} \ {{}})
  <2>1. batches \in Batches(Missing(R), old)
    BY <1>2
  <2> QED BY <2>1 DEF Batches
<1>4. PICK full \in FullBatches(Missing(R) \ rest) : batches = full \cup ({rest \cup old} \ {{}})
  BY <1>3
<1>aa. old = PromotedBy(reopened)
  BY DEF old
<1>5. R \in SUBSET requests /\ RoomInv /\ OneVersionEach(wanted) /\ ApartInv /\ conflicting \in SUBSET requests
  BY DEF IInv, OpeningInv, R, conflicting
<1>6. /\ Kept(R) \in SUBSET R /\ Failed(R) \in SUBSET R /\ Outdated(R) \in SUBSET R
      /\ \A r \in R : r \in Failed(R) \/ r \in Outdated(R) \/ r \in Kept(R)
      /\ \A r \in Kept(R) : r.promotions \in SUBSET StillWanted(R)
      /\ Alone(R) \in SUBSET wanted /\ StillWanted(R) = wanted \ Alone(R)
      /\ Missing(R) \in SUBSET StillWanted(R)
      /\ \A r \in Kept(R) : r.promotions \cap Missing(R) = {}
  BY <1>5, KeptParts
<1>7. /\ reopened \in SUBSET Kept(R)
      /\ Missing(R) = {} => reopened = {}
      /\ Missing(R) # {} => \A r \in Kept(R) : HasRoom(r) => r \in reopened
  BY <1>5, ReopenedParts
<1>8. old \in SUBSET StillWanted(R) /\ old \cap Missing(R) = {}
  BY <1>aa, <1>6, <1>7 DEF PromotedBy
<1>9. /\ \A B \in full : B \in SUBSET (Missing(R) \ rest) /\ Cardinality(B) = BatchLimit /\ B # {}
      /\ \A B, C \in full : B # C => B \cap C = {}
  BY FullParts
<1>10. \A B \in batches : B \in SUBSET StillWanted(R) /\ B # {}
  BY <1>4, <1>6, <1>8, <1>9
<1>11. \A B, C \in batches : B # C => B \cap C = {}
  <2>1. \A B \in full : B \cap (rest \cup old) = {}
    BY <1>8, <1>9
  <2>2. \A B \in batches : B \in full \/ B = rest \cup old
    BY <1>4
  <2> QED BY <1>9, <2>1, <2>2
<1>12. \A B \in batches : Cardinality(B) < BatchLimit => B = rest \cup old
  BY <1>4, <1>9, PromotionBatchesAssumption
<1>13. \A a \in opening' :
         /\ a = [promotions |-> a.promotions, batchable |-> a.batchable]
         /\ \/ ~a.batchable /\ \E p \in Alone(R) : a.promotions = {p}
            \/ a.batchable = TRUE /\ a.promotions \in batches
         /\ a.batchable \in BOOLEAN
  <2> SUFFICES ASSUME NEW a \in opening'
               PROVE  /\ a = [promotions |-> a.promotions, batchable |-> a.batchable]
                      /\ \/ ~a.batchable /\ \E p \in Alone(R) : a.promotions = {p}
                         \/ a.batchable = TRUE /\ a.promotions \in batches
                      /\ a.batchable \in BOOLEAN
    OBVIOUS
  <2>1. CASE a \in [promotions : {{p} : p \in Alone(R)}, batchable : {FALSE}]
    <3>1. a.batchable = FALSE /\ a.promotions \in {{p} : p \in Alone(R)}
      BY <2>1
    <3>2. a = [promotions |-> a.promotions, batchable |-> a.batchable]
      BY <2>1
    <3> QED BY <3>1, <3>2
  <2>2. CASE a \in [promotions : batches, batchable : {TRUE}]
    BY <2>2
  <2> QED BY <1>2, <2>1, <2>2
<1>14. \A a \in opening' : a.promotions \in SUBSET wanted /\ a.promotions # {}
  BY <1>6, <1>10, <1>13
<1>15. ASSUME NEW a \in opening', NEW b \in opening', a # b
       PROVE  Apart(a.promotions, b.promotions)
  <2>1. a.promotions # b.promotions \/ a.batchable # b.batchable
    BY <1>13, <1>15
  <2>2. a.promotions \cap b.promotions = {}
    <3>1. CASE ~a.batchable /\ ~b.batchable
      BY <1>13, <2>1, <3>1
    <3>2. CASE a.batchable = TRUE /\ b.batchable = TRUE
      BY <1>11, <1>13, <2>1, <3>2
    <3>3. CASE a.batchable # b.batchable
      BY <1>6, <1>10, <1>13, <3>3
    <3> QED BY <1>13, <3>1, <3>2, <3>3
  <2> QED BY <1>5, <1>14, <2>2, DisjointAreApart
<1>16. ASSUME NEW a \in opening', NEW b \in opening', HasRoom(a), HasRoom(b)
       PROVE  a = b
  <2>1. /\ a.promotions = rest \cup old /\ b.promotions = rest \cup old
        /\ a.batchable = TRUE /\ b.batchable = TRUE
    BY <1>12, <1>13, <1>16 DEF HasRoom
  <2> QED BY <1>13, <2>1
<1>17. ASSUME NEW r \in requests, r \notin closing', NEW a \in opening'
       PROVE  Apart(r.promotions, a.promotions) /\ ~(HasRoom(r) /\ HasRoom(a))
  <2>1. r \in Kept(R) /\ r \notin reopened
    BY <1>2, <1>6, <1>17 DEF R
  <2>2. r.promotions \cap old = {}
    <3>1. \A q \in reopened : Apart(r.promotions, q.promotions)
      BY <1>5, <1>6, <1>7, <2>1 DEF ApartInv
    <3> QED BY <1>aa, <3>1 DEF PromotedBy, Apart
  <2>3. \A B \in batches : r.promotions \cap B = {}
    BY <1>4, <1>6, <1>9, <2>1, <2>2
  <2>4. r.promotions \cap a.promotions = {}
    BY <1>6, <1>13, <2>1, <2>3
  <2>5. r.promotions \in SUBSET wanted
    BY <1>6, <2>1
  <2>6. Apart(r.promotions, a.promotions)
    BY <1>5, <1>14, <2>4, <2>5, DisjointAreApart
  <2>7. ASSUME HasRoom(r), HasRoom(a) PROVE FALSE
    <3>1. a.promotions \in batches
      BY <1>13, <2>7 DEF HasRoom
    <3>2. Missing(R) = {}
      BY <1>7, <2>1, <2>7
    <3>3. old = {} /\ rest = {}
      BY <1>aa, <1>7, <3>2 DEF PromotedBy
    <3>4. batches = full
      BY <1>4, <3>3
    <3> QED BY <1>9, <3>1, <3>2, <3>4
  <2> QED BY <2>6, <2>7
<1>18. closing' \in SUBSET requests
  BY <1>2, <1>5, <1>6, <1>7
<1> QED BY <1>13, <1>14, <1>15, <1>16, <1>17, <1>18
-----------------------------------------------------------------------------
(* What a step does to the open merge requests and to master. *)

SameRequest(r, q) ==
    r.promotions = q.promotions /\ r.batchable = q.batchable /\ r.content = q.content

\* Nothing is opened: what is open was, but for its check and conflicts.
NoneOpened ==
    /\ requests' \in SUBSET Requests
    /\ \A r \in requests' : \E q \in requests :
          SameRequest(r, q)
    /\ \A r, q \in requests' : r.promotions = q.promotions => r = q

LEMMA SubsetIsNoneOpened ==
    ASSUME TypeOK, ApartInv, requests' \in SUBSET requests
    PROVE  NoneOpened
<1>1. \A r, q \in requests' : r.promotions = q.promotions => r = q
  BY SamePromotionsSameRequest
<1>2. requests' \in SUBSET Requests
  BY DEF TypeOK
<1> QED BY <1>1, <1>2 DEF NoneOpened, SameRequest

LEMMA CheckMoves ==
    ASSUME TypeOK, ApartInv, NEW r \in requests, CheckEnds(r)
    PROVE  NoneOpened
<1>1. PICK result \in {"passed", "failed"} :
         requests' = (requests \ {r}) \cup {[r EXCEPT !.check = result]}
  BY DEF CheckEnds
<1> DEFINE r1 == [r EXCEPT !.check = result]
<1>2. r \in Requests /\ requests \in SUBSET Requests
  BY DEF TypeOK
<1>3. r1 \in Requests /\ SameRequest(r1, r)
  BY <1>2 DEF Requests, SameRequest
<1> HIDE DEF r1
<1>4. requests' = (requests \ {r}) \cup {r1}
  BY <1>1 DEF r1
<1>5. \A s, q \in requests : s.promotions = q.promotions => s = q
  BY SamePromotionsSameRequest
<1>6. \A s \in requests' : \E q \in requests : SameRequest(s, q)
  BY <1>3, <1>4 DEF SameRequest
<1>7. \A s, q \in requests' : s.promotions = q.promotions => s = q
  BY <1>3, <1>4, <1>5 DEF SameRequest
<1> QED BY <1>2, <1>3, <1>4, <1>6, <1>7 DEF NoneOpened

LEMMA WrittenParts ==
    ASSUME NEW P \in SUBSET Promotions, NEW files \in [Channels -> Versions]
    PROVE  /\ Written(P, files) \in [Channels -> Versions]
           /\ \A c \in Channels :
                \/ Written(P, files)[c] = files[c] /\ ~\E p \in P : p[1] = c
                \/ <<c, Written(P, files)[c]>> \in P
<1>1. ASSUME NEW c \in Channels
      PROVE  /\ Written(P, files)[c] \in Versions
             /\ \/ Written(P, files)[c] = files[c] /\ ~\E p \in P : p[1] = c
                \/ <<c, Written(P, files)[c]>> \in P
  <2>1. Written(P, files)[c] = IF \E p \in P : p[1] = c
                               THEN CHOOSE v \in Versions : <<c, v>> \in P ELSE files[c]
    BY DEF Written
  <2>2. ASSUME NEW p \in P, p[1] = c
        PROVE  Written(P, files)[c] \in Versions /\ <<c, Written(P, files)[c]>> \in P
    <3>1. p[2] \in Versions /\ <<c, p[2]>> \in P
      BY <2>2, PromotionParts
    <3> QED BY <2>1, <2>2, <3>1
  <2>3. CASE ~\E p \in P : p[1] = c
    BY <2>1, <2>3
  <2> QED BY <2>2, <2>3
<1>2. Written(P, files) = [c \in Channels |-> Written(P, files)[c]]
  BY DEF Written
<1> QED BY <1>1, <1>2

\* Others than the one that is merged stay, and master gets what it says.
LEMMA MergeMoves ==
    ASSUME TypeOK, ApartInv, NEW r \in requests, MergeRequest(r)
    PROVE  /\ NoneOpened
           /\ master' \in [Channels -> Versions]
           /\ \A c \in Channels : master'[c] = master[c] \/ <<c, master'[c]>> \in r.content
<1>1. PICK more \in {{}} \cup {{q} : q \in requests \ {r}} :
         requests' = ((requests \ {r}) \ (Clashing(r) \cup more)) \cup
                     {[q EXCEPT !.conflicts = TRUE] : q \in Clashing(r) \cup more}
  BY DEF MergeRequest
<1> DEFINE hit == Clashing(r) \cup more
           flagged == {[q EXCEPT !.conflicts = TRUE] : q \in hit}
<1>2. requests \in SUBSET Requests /\ r \in Requests /\ master \in [Channels -> Versions]
  BY DEF TypeOK
<1>3. \A s, q \in requests : s.promotions = q.promotions => s = q
  BY SamePromotionsSameRequest
<1>4. hit \in SUBSET requests
  BY <1>1 DEF Clashing
<1>5. ASSUME NEW q \in requests
      PROVE  [q EXCEPT !.conflicts = TRUE] \in Requests /\ SameRequest([q EXCEPT !.conflicts = TRUE], q)
  BY <1>2 DEF Requests, SameRequest
<1>6. \A s \in flagged : \E q \in hit :
         s \in Requests /\ SameRequest(s, q) /\ s = [q EXCEPT !.conflicts = TRUE]
  BY <1>4, <1>5
<1>7. requests' = ((requests \ {r}) \ hit) \cup flagged
  BY <1>1
<1> HIDE DEF hit, flagged
<1>8. requests' \in SUBSET Requests
  BY <1>2, <1>6, <1>7
<1>9. \A s \in requests' : \E q \in requests : SameRequest(s, q)
  BY <1>4, <1>6, <1>7 DEF SameRequest
<1>10. \A s, q \in requests' : s.promotions = q.promotions => s = q
  <2>1. \A s \in requests' :
          \/ s \in requests /\ s \notin hit
          \/ \E h \in hit : s.promotions = h.promotions /\ s = [h EXCEPT !.conflicts = TRUE]
    BY <1>6, <1>7 DEF SameRequest
  <2> QED BY <1>3, <1>4, <2>1
<1>11. NoneOpened
  BY <1>8, <1>9, <1>10 DEF NoneOpened
<1>12. master' = Written(r.content, master) /\ r.content \in SUBSET Promotions
  BY <1>2, RequestParts DEF MergeRequest
<1> QED BY <1>2, <1>11, <1>12, WrittenParts

LEMMA RequestsMove ==
    ASSUME TypeOK, ApartInv, Next
    PROVE  NoneOpened \/ \E m \in rendered : Open(m)
<1>1. ASSUME NEW r \in closing, Close(r) PROVE requests' \in SUBSET requests
  BY <1>1 DEF Close
<1>2. CASE requests' \in SUBSET requests
  BY <1>2, SubsetIsNoneOpened
<1> QED
  BY <1>1, <1>2, CheckMoves, MergeMoves
  DEF Next, RunStep, ComputeDesired, FetchRequests, Closed, Render, EndRun, Crash, Publish,
      LoadBundle

\* What is left stays so when some of it is rendered, and what is opened leaves it.
LEMMA LeftMoves ==
    ASSUME IInv
    PROVE  /\ \A a \in opening : Render(a) => Left' = Left
           /\ \A m \in rendered : Open(m) => Left' = Left \ {AsAddition(m)}
           /\ UNCHANGED <<opening, rendered>> => Left' = Left
<1>1. ASSUME NEW a \in opening, Render(a) PROVE Left' = Left
  <2>1. a = [promotions |-> a.promotions, batchable |-> a.batchable]
    BY DEF IInv, TypeOK, Additions
  <2>2. PICK content : rendered' = rendered \cup
          {[promotions |-> a.promotions, batchable |-> a.batchable, content |-> content]}
    BY <1>1 DEF Render
  <2>3. AsAddition([promotions |-> a.promotions, batchable |-> a.batchable, content |-> content]) = a
    BY <2>1 DEF AsAddition
  <2>4. {AsAddition(m) : m \in rendered'} = {AsAddition(m) : m \in rendered} \cup {a}
    BY <2>2, <2>3
  <2> QED BY <1>1, <2>4 DEF Left, Render
<1>2. ASSUME NEW m \in rendered, Open(m) PROVE Left' = Left \ {AsAddition(m)}
  <2>1. opening' = opening /\ rendered' = rendered \ {m}
    BY <1>2 DEF Open
  <2> QED BY <2>1 DEF Left, IInv, RenderedInv
<1>3. ASSUME UNCHANGED <<opening, rendered>> PROVE Left' = Left
  BY <1>3 DEF Left
<1> QED BY <1>1, <1>2, <1>3

\* What is opened, if it is, is about wanted versions and shares no channel with
\* what is open.
LEMMA OpenMoves ==
    ASSUME IInv, NEW m \in rendered, Open(m), requests' # requests
    PROVE  \E n \in Requests : /\ requests' = requests \cup {n}
                               /\ n.promotions = m.promotions /\ n.batchable = m.batchable
                               /\ n.promotions \in SUBSET wanted
                               /\ n.content \in SUBSET m.content
                               /\ \A r \in requests : /\ Apart(r.promotions, n.promotions)
                                                      /\ ~(HasRoom(r) /\ HasRoom(m))
<1> DEFINE diffs == {p \in m.content : master[p[1]] # p[2]}
           n == [promotions |-> m.promotions, batchable |-> m.batchable,
                 check |-> "running", conflicts |-> FALSE, content |-> diffs]
           a == AsAddition(m)
<1>1. requests' = requests \cup {n} /\ phase = "open"
  BY DEF Open
<1>2. m \in Rendered /\ diffs \in SUBSET m.content
  BY DEF IInv, TypeOK
<1>3. n.promotions = m.promotions /\ n.batchable = m.batchable /\ n.content = diffs
  OBVIOUS
<1>4. n \in Requests
  BY <1>2 DEF Rendered, Requests
<1>5. a \in Left /\ a.promotions = m.promotions /\ (HasRoom(a) <=> HasRoom(m))
  BY DEF Left, AsAddition, HasRoom
<1>6. BeingClosed = {}
  BY <1>1 DEF IInv, PhaseInv, BeingClosed
<1> HIDE DEF a, n
<1>7. \A r \in requests : Apart(r.promotions, m.promotions) /\ ~(HasRoom(r) /\ HasRoom(m))
  BY <1>5, <1>6 DEF IInv, OpeningInv, RoomInv
<1>8. m.promotions \in SUBSET wanted
  BY <1>5 DEF IInv, OpeningInv
<1> QED BY <1>1, <1>2, <1>3, <1>4, <1>7, <1>8
-----------------------------------------------------------------------------
(* Each part of the invariant is kept. *)

LEMMA TypeStep == ASSUME IInv, Next PROVE TypeOK'
<1> USE DEF IInv
<1>1. requests' \in SUBSET Requests
  <2>1. CASE NoneOpened
    BY <2>1 DEF NoneOpened
  <2>2. ASSUME NEW m \in rendered, Open(m) PROVE requests' \in SUBSET Requests
    BY <2>2, OpenMoves DEF TypeOK
  <2> QED BY <2>1, <2>2, RequestsMove
<1>2. published' \in [Channels -> Versions] /\ ready' \in [Channels -> BOOLEAN]
  <2>1. ASSUME NEW c \in Channels, Publish(c)
        PROVE  published' \in [Channels -> Versions] /\ ready' \in [Channels -> BOOLEAN]
    <3>1. ready' \in [Channels -> BOOLEAN]
      BY <2>1 DEF Publish, TypeOK
    <3>2. published[c] \in 0..MaxVersion /\ published \in [Channels -> 0..MaxVersion] /\ MaxVersion \in Nat
      BY PromotionBatchesAssumption DEF TypeOK, Versions
    <3>3. CASE published[c] < MaxVersion /\ published' = [published EXCEPT ![c] = @ + 1]
      <4>1. published[c] + 1 \in 0..MaxVersion
        BY <3>2, <3>3
      <4> QED BY <3>1, <3>2, <3>3, <4>1 DEF Versions
    <3> QED BY <2>1, <3>1, <3>3 DEF Publish, TypeOK
  <2> QED
    BY <2>1 DEF Next, RunStep, ComputeDesired, FetchRequests, Close, Closed, Render, Open, EndRun, Crash,
                LoadBundle, CheckEnds, MergeRequest, world, TypeOK
<1>3. master' \in [Channels -> Versions] /\ bundle' \in [Channels -> Versions]
  <2>1. ASSUME NEW r \in requests, MergeRequest(r) PROVE master' \in [Channels -> Versions]
    BY <2>1, MergeMoves
  <2>2. master' = master \/ \E r \in requests : MergeRequest(r)
    BY DEF Next, RunStep, ComputeDesired, FetchRequests, Close, Closed, Render, Open, EndRun, Crash,
           Publish, LoadBundle, CheckEnds, world
  <2>3. bundle' = bundle \/ bundle' = master
    BY DEF Next, RunStep, ComputeDesired, FetchRequests, Close, Closed, Render, Open, EndRun, Crash,
           Publish, LoadBundle, CheckEnds, MergeRequest, world
  <2> QED BY <2>1, <2>2, <2>3 DEF TypeOK
<1>4. phase' \in {"idle", "fetch", "close", "open"}
  BY DEF Next, RunStep, ComputeDesired, FetchRequests, Close, Closed, Render, Open, EndRun, Crash, Stop,
         Publish, LoadBundle, CheckEnds, MergeRequest, run, TypeOK
<1>5. wanted' \in SUBSET Promotions
  <2>1. ASSUME ComputeDesired PROVE wanted' \in SUBSET Promotions
    BY <2>1 DEF ComputeDesired, Promotions, TypeOK
  <2> QED
    BY <2>1 DEF Next, RunStep, FetchRequests, Close, Closed, Render, Open, EndRun, Crash, Stop,
                Publish, LoadBundle, CheckEnds, MergeRequest, run, TypeOK
<1>6. closing' \in SUBSET Requests /\ opening' \in SUBSET Additions
  <2>1. ASSUME FetchRequests
        PROVE  closing' \in SUBSET Requests /\ opening' \in SUBSET Additions
    <3>1. \A a \in opening' : a \in Additions
      BY <2>1, FetchOpens DEF Additions, SomePromotions, TypeOK
    <3> QED BY <2>1, <3>1, FetchOpens DEF TypeOK
  <2> QED
    BY <2>1 DEF Next, RunStep, ComputeDesired, Close, Closed, Render, Open, EndRun, Crash, Stop,
                Publish, LoadBundle, CheckEnds, MergeRequest, run, TypeOK
<1>7. rendered' \in SUBSET Rendered
  <2>1. ASSUME NEW a \in opening, Render(a) PROVE rendered' \in SUBSET Rendered
    <3> DEFINE W == Written(a.promotions, master)
               content == {<<c, W[c]>> : c \in InFilesOf(a.promotions)}
    <3>1. a.promotions \in SomePromotions /\ a.batchable \in BOOLEAN
      BY DEF TypeOK, Additions
    <3>2. W \in [Channels -> Versions]
      BY <3>1, WrittenParts DEF TypeOK, SomePromotions
    <3>3. content \in SUBSET Promotions
      BY <3>2 DEF InFilesOf, Promotions
    <3>4. rendered' = rendered \cup
            {[promotions |-> a.promotions, batchable |-> a.batchable, content |-> content]}
      BY <2>1 DEF Render
    <3> HIDE DEF content
    <3> QED BY <3>1, <3>3, <3>4 DEF TypeOK, Rendered
  <2> QED
    BY <2>1 DEF Next, RunStep, ComputeDesired, FetchRequests, Close, Closed, Open, EndRun, Crash,
                Stop, Publish, LoadBundle, CheckEnds, MergeRequest, run, TypeOK
<1>8. {changes', faults'} \subseteq Nat
  <2>1. changes \in Nat /\ faults \in Nat
    BY DEF TypeOK
  <2>2. changes' = changes \/ changes' = changes + 1
    BY DEF Next, RunStep, ComputeDesired, FetchRequests, Close, Closed, Render, Open, EndRun, Crash,
           Publish, LoadBundle, CheckEnds, MergeRequest
  <2>3. faults' = faults \/ faults' = faults + 1
    BY DEF Next, RunStep, ComputeDesired, FetchRequests, Close, Closed, Render, Open, EndRun, Crash,
           Publish, LoadBundle, CheckEnds, MergeRequest, Fault
  <2> QED BY <2>1, <2>2, <2>3
<1> QED BY <1>1, <1>2, <1>3, <1>4, <1>5, <1>6, <1>7, <1>8 DEF TypeOK

LEMMA PhaseStep == ASSUME PhaseInv, Next PROVE PhaseInv'
BY DEF PhaseInv, Next, RunStep, ComputeDesired, FetchRequests, Close, Closed, Render, Open, EndRun, Crash,
       Stop, Publish, LoadBundle, CheckEnds, MergeRequest, run

LEMMA ApartStep == ASSUME IInv, Next PROVE ApartInv'
<1>1. CASE NoneOpened
  BY <1>1 DEF NoneOpened, SameRequest, IInv, ApartInv
<1>2. ASSUME NEW m \in rendered, Open(m) PROVE ApartInv'
  <2>1. CASE requests' = requests
    BY <2>1 DEF IInv, ApartInv
  <2>2. CASE requests' # requests
    <3>1. PICK n \in Requests :
             /\ requests' = requests \cup {n} /\ n.promotions \in SUBSET wanted
             /\ \A r \in requests : Apart(r.promotions, n.promotions)
      BY <1>2, <2>2, OpenMoves
    <3>2. OneVersionEach(n.promotions)
      BY <3>1 DEF IInv, OpeningInv, OneVersionEach
    <3>3. \A r \in requests : Apart(n.promotions, r.promotions)
      BY <3>1, ApartSymmetric
    <3> QED BY <3>1, <3>2, <3>3 DEF IInv, ApartInv
  <2> QED BY <2>1, <2>2
<1> QED BY <1>1, <1>2, RequestsMove DEF IInv

LEMMA PublishedGrows ==
    ASSUME TypeOK, Next
    PROVE  \A c \in Channels : published[c] \in Int /\ published'[c] \in Int
                              /\ published[c] <= published'[c]
<1>1. \A c \in Channels : published[c] \in Int
  BY PromotionBatchesAssumption DEF TypeOK, Versions
<1>2. ASSUME NEW d \in Channels, Publish(d), NEW c \in Channels
      PROVE  published'[c] \in Int /\ published[c] <= published'[c]
  <2>1. published'[c] = published[c] \/ published'[c] = published[c] + 1
    BY <1>2 DEF Publish, TypeOK
  <2> QED BY <1>1, <2>1
<1>3. CASE published' = published
  BY <1>1, <1>3
<1>4. published' = published \/ \E d \in Channels : Publish(d)
  BY DEF Next, RunStep, ComputeDesired, FetchRequests, Close, Closed, Render, Open, EndRun, Crash,
         LoadBundle, CheckEnds, MergeRequest, world
<1> QED BY <1>1, <1>2, <1>3, <1>4

LEMMA VersionTypes ==
    ASSUME TypeOK
    PROVE  /\ \A c \in Channels : master[c] \in Int /\ published[c] \in Int
           /\ \A p \in Asked \cup Carried : p[1] \in Channels /\ p[2] \in Int
<1>1. \A c \in Channels : master[c] \in Int /\ published[c] \in Int
  BY PromotionBatchesAssumption DEF TypeOK, Versions
<1>2. Asked \cup Carried \in SUBSET Promotions
  BY RequestParts DEF TypeOK, Asked, Carried, PromotedBy, Rendered
<1> QED BY <1>1, <1>2, PromotionParts

\* As long as nothing is opened, no more is asked for by requests, and carried.
LEMMA AskedShrinks ==
    ASSUME NoneOpened, rendered' \in SUBSET rendered
    PROVE  PromotedBy(requests)' \in SUBSET PromotedBy(requests) /\ Carried' \in SUBSET Carried
BY DEF NoneOpened, SameRequest, PromotedBy, Carried

\* What is rendered for a channel was wanted, or is in master.
LEMMA RenderedContent ==
    ASSUME IInv, NEW a \in opening, Render(a), NEW s \in Carried'
    PROVE  \/ s \in Carried
           \/ s \in a.promotions
           \/ s[1] \in Channels /\ s[2] = master[s[1]]
<1> DEFINE W == Written(a.promotions, master)
           content == {<<c, W[c]>> : c \in InFilesOf(a.promotions)}
           m == [promotions |-> a.promotions, batchable |-> a.batchable, content |-> content]
<1>1. rendered' = rendered \cup {m} /\ requests' = requests
  BY DEF Render
<1>2. m.content = content
  OBVIOUS
<1> HIDE DEF m
<1>3. s \in Carried \/ s \in content
  BY <1>1, <1>2 DEF Carried
<1>4. a.promotions \in SUBSET Promotions /\ master \in [Channels -> Versions]
  BY DEF IInv, TypeOK, Additions, SomePromotions
<1>5. ASSUME NEW c \in InFilesOf(a.promotions), s = <<c, W[c]>>
      PROVE  s \in a.promotions \/ (s[1] \in Channels /\ s[2] = master[s[1]])
  <2>1. c \in Channels
    BY DEF InFilesOf
  <2>2. W[c] = master[c] \/ <<c, W[c]>> \in a.promotions
    BY <1>4, <2>1, WrittenParts
  <2> HIDE DEF W
  <2> QED BY <1>5, <2>1, <2>2
<1> QED BY <1>3, <1>5

LEMMA VersionStep == ASSUME IInv, Next PROVE VersionInv'
<1>1. /\ \A c \in Channels : master[c] \in Int /\ published[c] \in Int
      /\ \A p \in Asked \cup Carried : p[1] \in Channels /\ p[2] \in Int
  BY VersionTypes DEF IInv
<1>2. TypeOK /\ ApartInv /\ VersionInv /\ OneVersionEach(wanted)
  BY DEF IInv, OpeningInv
<1>3. ASSUME NEW r \in requests, MergeRequest(r) PROVE VersionInv'
  <2>1. /\ NoneOpened
        /\ \A c \in Channels : master'[c] = master[c] \/ <<c, master'[c]>> \in Carried
    BY <1>2, <1>3, MergeMoves DEF Carried
  <2>2. wanted' = wanted /\ published' = published /\ rendered' = rendered
    BY <1>3 DEF MergeRequest, run
  <2>3. /\ PromotedBy(requests)' \in SUBSET PromotedBy(requests)
        /\ Carried' \in SUBSET Carried /\ Asked' \in SUBSET Asked
    BY <2>1, <2>2, AskedShrinks DEF Asked
  <2>4. \A c \in Channels : master'[c] <= published[c]
    BY <1>2, <2>1 DEF VersionInv
  <2>5. ASSUME NEW p \in Asked PROVE master'[p[1]] <= p[2]
    <3>1. p[1] \in Channels /\ master[p[1]] <= p[2]
      BY <1>1, <1>2 DEF VersionInv
    <3>2. ASSUME <<p[1], master'[p[1]]>> \in Carried PROVE master'[p[1]] <= p[2]
      BY <1>2, <3>2 DEF VersionInv
    <3> QED BY <2>1, <3>1, <3>2
  <2> QED BY <1>2, <2>2, <2>3, <2>4, <2>5 DEF VersionInv
<1>4. CASE ComputeDesired
  <2>1. /\ requests' = requests /\ master' = master /\ published' = published
        /\ rendered' = rendered
    BY <1>4 DEF ComputeDesired, world
  <2>2. \A p \in wanted' : p[1] \in Channels /\ p[2] = published[p[1]]
    BY <1>4 DEF ComputeDesired
  <2>3. /\ Carried' = Carried /\ PromotedBy(requests)' = PromotedBy(requests)
        /\ Asked' = wanted' \cup PromotedBy(requests) /\ PromotedBy(requests) \in SUBSET Asked
    BY <2>1 DEF Carried, Asked, PromotedBy
  <2>4. \A p \in Asked' : master[p[1]] <= p[2] /\ p[2] <= published[p[1]]
    BY <1>1, <1>2, <2>2, <2>3 DEF VersionInv
  <2>5. \A p \in wanted' : \A q \in PromotedBy(requests) : q[1] = p[1] => q[2] <= p[2]
    BY <1>2, <2>2, <2>3 DEF VersionInv
  <2>6. \A s \in Carried : \A p \in Asked' : p[1] = s[1] => s[2] <= p[2]
    BY <1>1, <1>2, <2>2, <2>3 DEF VersionInv
  <2> QED BY <1>2, <2>1, <2>3, <2>4, <2>5, <2>6 DEF VersionInv
<1>5. ASSUME NEW m \in rendered, Open(m), requests' # requests PROVE VersionInv'
  <2>1. PICK n \in Requests :
           /\ requests' = requests \cup {n} /\ n.promotions \in SUBSET wanted
           /\ n.content \in SUBSET m.content
    BY <1>5, OpenMoves
  <2>2. /\ wanted' = wanted /\ master' = master /\ published' = published
        /\ rendered' \in SUBSET rendered
    BY <1>5 DEF Open, world
  <2>3. Carried' \in SUBSET Carried
    BY <2>1, <2>2 DEF Carried
  <2>4. /\ PromotedBy(requests)' = PromotedBy(requests) \cup n.promotions
        /\ Asked' = Asked /\ wanted \in SUBSET Asked
    BY <2>1, <2>2 DEF PromotedBy, Asked
  <2>5. \A p \in wanted : \A q \in n.promotions : q[1] = p[1] => q[2] <= p[2]
    BY <1>1, <1>2, <2>1, <2>4 DEF OneVersionEach
  <2> QED BY <1>2, <2>1, <2>2, <2>3, <2>4, <2>5 DEF VersionInv
<1>6. ASSUME NEW a \in opening, Render(a) PROVE VersionInv'
  <2>1. /\ requests' = requests /\ wanted' = wanted /\ master' = master /\ published' = published
        /\ phase = "open"
    BY <1>6 DEF Render, world
  <2>2. /\ Asked' = Asked /\ PromotedBy(requests)' = PromotedBy(requests)
        /\ wanted \in SUBSET Asked
    BY <2>1 DEF Asked, PromotedBy
  <2>3. /\ a.promotions \in SUBSET wanted
        /\ \A r \in requests : Apart(r.promotions, a.promotions)
    BY <2>1 DEF IInv, PhaseInv, OpeningInv, BeingClosed, Left
  <2>4. \A s \in a.promotions : \A p \in Asked : p[1] = s[1] => s[2] <= p[2]
    <3>1. \A s \in a.promotions : \A p \in wanted : p[1] = s[1] => s[2] <= p[2]
      BY <1>1, <1>2, <2>2, <2>3 DEF OneVersionEach
    <3>2. \A s \in a.promotions : \A p \in PromotedBy(requests) : p[1] # s[1]
      BY <2>3 DEF Apart, PromotedBy
    <3> QED BY <3>1, <3>2 DEF Asked
  <2>5. \A s \in Carried' : s \in Carried \/ s \in a.promotions
                            \/ (s[1] \in Channels /\ s[2] = master[s[1]])
    BY <1>6, RenderedContent
  <2>6. \A s \in Carried' : s[2] <= published[s[1]]
    BY <1>2, <2>2, <2>3, <2>5 DEF VersionInv
  <2>7. \A s \in Carried' : \A p \in Asked : p[1] = s[1] => s[2] <= p[2]
    BY <1>2, <2>4, <2>5 DEF VersionInv
  <2> QED BY <1>2, <2>1, <2>2, <2>6, <2>7 DEF VersionInv
<1>7. CASE /\ NoneOpened /\ master' = master
           /\ wanted' \in SUBSET wanted /\ rendered' \in SUBSET rendered
  <2>1. \A c \in Channels : published'[c] \in Int /\ published[c] <= published'[c]
    BY <1>2, PublishedGrows
  <2>2. /\ PromotedBy(requests)' \in SUBSET PromotedBy(requests)
        /\ Carried' \in SUBSET Carried /\ Asked' \in SUBSET Asked
    BY <1>7, AskedShrinks DEF Asked
  <2>3. \A c \in Channels : master'[c] <= published'[c]
    BY <1>1, <1>2, <1>7, <2>1 DEF VersionInv
  <2>4. \A p \in Asked' : master'[p[1]] <= p[2] /\ p[2] <= published'[p[1]]
    BY <1>1, <1>2, <1>7, <2>1, <2>2 DEF VersionInv
  <2>5. \A s \in Carried' : s[2] <= published'[s[1]]
    BY <1>1, <1>2, <2>1, <2>2 DEF VersionInv
  <2> QED BY <1>2, <1>7, <2>2, <2>3, <2>4, <2>5 DEF VersionInv
<1>8. \/ ComputeDesired \/ \E r \in requests : MergeRequest(r)
      \/ \E m \in rendered : Open(m) /\ requests' # requests
      \/ \E a \in opening : Render(a)
      \/ /\ NoneOpened /\ master' = master
         /\ wanted' \in SUBSET wanted /\ rendered' \in SUBSET rendered
  <2>1. \/ ComputeDesired
        \/ \E r \in requests : MergeRequest(r)
        \/ \E a \in opening : Render(a)
        \/ /\ master' = master
           /\ wanted' \in SUBSET wanted /\ rendered' \in SUBSET rendered
    <3>1. ASSUME RunStep, ~ComputeDesired, ~\E a \in opening : Render(a)
          PROVE  /\ master' = master
                 /\ wanted' \in SUBSET wanted /\ rendered' \in SUBSET rendered
      BY <3>1 DEF RunStep, FetchRequests, Close, Closed, Open, EndRun, Stop, world
    <3> QED BY <3>1 DEF Next, RunStep, Crash, Stop, Publish, LoadBundle, CheckEnds, world, run
  <2>2. requests' = requests => NoneOpened
    BY <1>2, SubsetIsNoneOpened
  <2> QED BY <1>2, <2>1, <2>2, RequestsMove
<1> QED BY <1>3, <1>4, <1>5, <1>6, <1>7, <1>8

\* What stays open while nothing is opened has or has not room as before.
LEMMA RoomOfNoneOpened ==
    ASSUME NoneOpened
    PROVE  \A r \in requests' : \E q \in requests :
             r.promotions = q.promotions /\ (HasRoom(r) <=> HasRoom(q))
BY DEF NoneOpened, SameRequest, HasRoom

\* Once SAPM has nothing more to open, or as long as what it opens, wants and
\* closes stays, others do not get in its way.
LEMMA OthersStep ==
    ASSUME IInv, NoneOpened,
           \/ Left' = {} /\ OneVersionEach(wanted')
           \/ UNCHANGED <<wanted, closing>> /\ Left' = Left
    PROVE  OpeningInv' /\ RoomInv'
<1>1. OpeningInv /\ RoomInv
  BY DEF IInv
<1>2. \A r \in requests' : \E q \in requests :
         r.promotions = q.promotions /\ (HasRoom(r) <=> HasRoom(q))
  BY RoomOfNoneOpened
<1>3. \A r, q \in requests' : HasRoom(r) /\ HasRoom(q) => r = q
  BY <1>1, <1>2 DEF RoomInv, NoneOpened
<1>4. CASE Left' = {} /\ OneVersionEach(wanted')
  BY <1>3, <1>4 DEF OpeningInv, RoomInv, HasRoom, OneVersionEach
<1>5. CASE UNCHANGED <<wanted, closing>> /\ Left' = Left
  <2>1. BeingClosed' = BeingClosed
    BY <1>5 DEF BeingClosed
  <2>2. \A r \in requests' : \A a \in Left' :
           r.promotions \in BeingClosed \/ Apart(r.promotions, a.promotions)
    BY <1>1, <1>2, <1>5 DEF OpeningInv
  <2>3. \A r \in requests' : \A a \in Left' :
           HasRoom(r) /\ HasRoom(a) => r.promotions \in BeingClosed
    BY <1>1, <1>2, <1>5 DEF RoomInv
  <2>4. OpeningInv'
    BY <1>1, <1>5, <2>1, <2>2 DEF OpeningInv, Apart, OneVersionEach
  <2>5. RoomInv'
    BY <1>1, <1>3, <1>5, <2>1, <2>3 DEF RoomInv, HasRoom
  <2> QED BY <2>4, <2>5
<1> QED BY <1>4, <1>5

\* Nothing is rendered before the phase in which it is opened.
LEMMA FetchStep == ASSUME IInv, FetchRequests PROVE OpeningInv' /\ RoomInv'
<1>1. requests' = requests /\ wanted' = wanted
  BY DEF FetchRequests
<1>2. /\ \A a \in opening' : a.promotions \in SUBSET wanted
      /\ \A a, b \in opening' : a # b => Apart(a.promotions, b.promotions)
      /\ \A a, b \in opening' : HasRoom(a) /\ HasRoom(b) => a = b
      /\ \A r \in requests : r \notin closing' => \A a \in opening' :
            Apart(r.promotions, a.promotions) /\ ~(HasRoom(r) /\ HasRoom(a))
  BY FetchOpens
<1>3. \A r \in closing' : r.promotions \in BeingClosed'
  BY DEF BeingClosed
<1>4. Left' = opening'
  BY DEF FetchRequests, IInv, PhaseInv, Left
<1>5. OpeningInv'
  BY <1>1, <1>2, <1>3, <1>4 DEF IInv, OpeningInv, Apart, OneVersionEach
<1>6. RoomInv'
  BY <1>1, <1>2, <1>3, <1>4 DEF IInv, RoomInv, HasRoom
<1> QED BY <1>5, <1>6

LEMMA StopLeavesNothing == ASSUME Stop PROVE Left' = {} /\ OneVersionEach(wanted')
BY DEF Stop, Left, OneVersionEach

LEMMA CloseStep ==
    ASSUME IInv, NEW r \in closing, Close(r)
    PROVE  OpeningInv' /\ RoomInv'
<1>1. CASE Stop
  <2>1. requests' \in SUBSET requests
    BY DEF Close
  <2>2. NoneOpened
    BY <2>1, SubsetIsNoneOpened DEF IInv
  <2> QED BY <1>1, <2>2, OthersStep, StopLeavesNothing
<1>2. CASE ~Stop
  <2>1. /\ requests' = {q \in requests : q.promotions # r.promotions}
        /\ closing' = closing \ {r} /\ wanted' = wanted /\ UNCHANGED <<opening, rendered>>
    BY <1>2 DEF Close
  <2>2. \A q \in requests' : q \in requests
                           /\ (q.promotions \in BeingClosed => q.promotions \in BeingClosed')
    BY <2>1 DEF BeingClosed
  <2>3. Left' = Left
    BY <2>1, LeftMoves
  <2>4. OpeningInv'
    BY <2>1, <2>2, <2>3 DEF IInv, OpeningInv, Apart, OneVersionEach
  <2>5. RoomInv'
    BY <2>1, <2>2, <2>3 DEF IInv, RoomInv, HasRoom
  <2> QED BY <2>4, <2>5
<1> QED BY <1>1, <1>2

LEMMA OpenStep ==
    ASSUME IInv, NEW m \in rendered, Open(m)
    PROVE  OpeningInv' /\ RoomInv'
<1> DEFINE a == AsAddition(m)
<1>1. /\ phase = "open" /\ wanted' = wanted /\ closing' = closing /\ closing = {}
      /\ Left' = Left \ {a}
  BY LeftMoves DEF Open, IInv, PhaseInv
<1>2. BeingClosed = {} /\ BeingClosed' = {}
  BY <1>1 DEF BeingClosed
<1>3. OpeningInv /\ RoomInv
  BY DEF IInv
<1>4. a \in Left /\ a.promotions = m.promotions /\ (HasRoom(a) <=> HasRoom(m))
  BY DEF Left, AsAddition, HasRoom
<1> HIDE DEF a
<1>5. CASE requests' = requests
  <2>1. OpeningInv'
    BY <1>1, <1>2, <1>3, <1>5 DEF OpeningInv, Apart, OneVersionEach
  <2>2. RoomInv'
    BY <1>1, <1>2, <1>3, <1>5 DEF RoomInv, HasRoom
  <2> QED BY <2>1, <2>2
<1>6. CASE requests' # requests
  <2>1. PICK n \in Requests :
           /\ requests' = requests \cup {n}
           /\ n.promotions = m.promotions /\ n.batchable = m.batchable
           /\ \A r \in requests : ~(HasRoom(r) /\ HasRoom(m))
    BY <1>6, OpenMoves
  <2>2. HasRoom(n) <=> HasRoom(a)
    BY <1>4, <2>1 DEF HasRoom
  <2>3. OpeningInv'
    <3>1. \A s \in Left' : Apart(n.promotions, s.promotions)
      BY <1>1, <1>3, <1>4, <2>1 DEF OpeningInv
    <3> QED BY <1>1, <1>2, <1>3, <2>1, <3>1 DEF OpeningInv, Apart, OneVersionEach
  <2>4. RoomInv'
    <3>1. \A s, q \in requests' : HasRoom(s) /\ HasRoom(q) => s = q
      BY <1>3, <1>4, <2>1, <2>2 DEF RoomInv
    <3>2. \A s, q \in Left' : HasRoom(s) /\ HasRoom(q) => s = q
      BY <1>1, <1>3 DEF RoomInv
    <3>3. \A s \in requests' : \A q \in Left' : ~(HasRoom(s) /\ HasRoom(q))
      BY <1>1, <1>2, <1>3, <1>4, <2>1, <2>2 DEF RoomInv
    <3> QED BY <3>1, <3>2, <3>3 DEF RoomInv, HasRoom
  <2> QED BY <2>3, <2>4
<1> QED BY <1>5, <1>6

LEMMA OpeningAndRoomStep == ASSUME IInv, Next PROVE OpeningInv' /\ RoomInv'
<1>1. CASE ComputeDesired
  <2>1. /\ requests' = requests /\ phase = "idle"
        /\ opening' = opening /\ rendered' = rendered
    BY <1>1 DEF ComputeDesired
  <2>2. OneVersionEach(wanted')
    BY <1>1 DEF ComputeDesired, OneVersionEach
  <2>3. Left' = {}
    BY <2>1 DEF IInv, PhaseInv, Left
  <2>4. NoneOpened
    BY <2>1, SubsetIsNoneOpened DEF IInv
  <2> QED BY <2>2, <2>3, <2>4, OthersStep
<1>2. CASE Stop /\ requests' = requests
  <2>1. NoneOpened
    BY <1>2, SubsetIsNoneOpened DEF IInv
  <2> QED BY <1>2, <2>1, OthersStep, StopLeavesNothing
<1>3. CASE /\ UNCHANGED <<wanted, closing, opening, rendered>>
           /\ ~\E m \in rendered : Open(m)
  <2>1. NoneOpened
    BY <1>3, RequestsMove DEF IInv
  <2> QED BY <1>3, <2>1, OthersStep, LeftMoves
<1>4. ASSUME NEW a \in opening, Render(a) PROVE OpeningInv' /\ RoomInv'
  <2>1. requests' = requests /\ UNCHANGED <<wanted, closing>> /\ Left' = Left
    BY <1>4, LeftMoves DEF Render
  <2>2. NoneOpened
    BY <2>1, SubsetIsNoneOpened DEF IInv
  <2> QED BY <2>1, <2>2, OthersStep
<1>5. \/ ComputeDesired
      \/ FetchRequests
      \/ Stop /\ requests' = requests
      \/ \E r \in closing : Close(r)
      \/ \E a \in opening : Render(a)
      \/ \E m \in rendered : Open(m)
      \/ UNCHANGED <<wanted, closing, opening, rendered>>
  <2>1. Closed \/ LoadBundle => UNCHANGED <<wanted, closing, opening, rendered>>
    BY DEF Closed, LoadBundle, run
  <2>2. \A c \in Channels : Publish(c) => UNCHANGED <<wanted, closing, opening, rendered>>
    BY DEF Publish, run
  <2>3. \A r \in requests :
          CheckEnds(r) \/ MergeRequest(r) => UNCHANGED <<wanted, closing, opening, rendered>>
    BY DEF CheckEnds, MergeRequest, run
  <2>4. EndRun \/ Crash => Stop /\ requests' = requests
    BY DEF EndRun, Crash
  <2> QED BY <2>1, <2>2, <2>3, <2>4 DEF Next, RunStep
<1> QED BY <1>1, <1>2, <1>3, <1>4, <1>5, FetchStep, CloseStep, OpenStep

LEMMA RenderedStep == ASSUME IInv, Next PROVE RenderedInv'
<1>1. CASE rendered' \in SUBSET rendered /\ opening' \in SUBSET opening
  BY <1>1 DEF IInv, RenderedInv
<1>2. CASE rendered' = {}
  BY <1>2 DEF RenderedInv
<1>3. ASSUME NEW a \in opening, Render(a) PROVE RenderedInv'
  <2>1. a = [promotions |-> a.promotions, batchable |-> a.batchable]
    BY DEF IInv, TypeOK, Additions
  <2>2. PICK content : rendered' = rendered \cup
          {[promotions |-> a.promotions, batchable |-> a.batchable, content |-> content]}
    BY <1>3 DEF Render
  <2> DEFINE m == [promotions |-> a.promotions, batchable |-> a.batchable, content |-> content]
  <2>3. AsAddition(m) = a
    BY <2>1 DEF AsAddition
  <2> HIDE DEF m
  <2>4. rendered' = rendered \cup {m} /\ opening' = opening \ {a}
    BY <1>3, <2>2 DEF Render, m
  <2> QED BY <2>3, <2>4 DEF IInv, RenderedInv
<1>4. \/ rendered' \in SUBSET rendered /\ opening' \in SUBSET opening
      \/ rendered' = {}
      \/ \E a \in opening : Render(a)
  BY DEF Next, RunStep, ComputeDesired, FetchRequests, Close, Closed, Open, EndRun, Crash, Stop,
         Publish, LoadBundle, CheckEnds, MergeRequest, run, IInv, PhaseInv
<1> QED BY <1>1, <1>2, <1>3, <1>4
-----------------------------------------------------------------------------
(* The theorems. *)

LEMMA IInvInit == ASSUME Init PROVE IInv
<1>1. \A c \in Channels : master[c] = 0 /\ published[c] = 0
  BY DEF Init
<1>2. Left = {} /\ Asked = {} /\ Carried = {}
  BY DEF Init, Left, Asked, Carried, PromotedBy
<1> QED BY <1>1, <1>2, TypeInit
        DEF Init, IInv, PhaseInv, ApartInv, VersionInv, OpeningInv, RenderedInv, RoomInv,
            OneVersionEach

LEMMA IInvStays == ASSUME IInv, UNCHANGED vars PROVE IInv'
<1> USE DEF vars, world, run, IInv
<1>1. TypeOK' /\ PhaseInv' /\ RenderedInv'
  BY DEF TypeOK, PhaseInv, RenderedInv
<1>2. /\ BeingClosed' = BeingClosed /\ Left' = Left /\ Asked' = Asked /\ Carried' = Carried
      /\ PromotedBy(requests)' = PromotedBy(requests)
  BY DEF BeingClosed, Left, Asked, Carried, PromotedBy
<1>3. ApartInv' /\ VersionInv'
  BY <1>2 DEF ApartInv, VersionInv, Apart, OneVersionEach
<1>4. OpeningInv'
  BY <1>2 DEF OpeningInv, Apart, OneVersionEach
<1>5. RoomInv'
  BY <1>2 DEF RoomInv, HasRoom
<1> QED BY <1>1, <1>3, <1>4, <1>5

LEMMA IInvAlways == Spec => []IInv
<1>1. IInv /\ Next => IInv'
  BY TypeStep, PhaseStep, ApartStep, VersionStep, OpeningAndRoomStep, RenderedStep DEF IInv
<1>2. IInv /\ [Next]_vars => IInv'
  BY <1>1, IInvStays
<1> QED BY IInvInit, <1>2, PTL DEF Spec

\* The merge requests, and what a run wants, closes and opens, are of their types.
THEOREM TypeCorrect == Spec => []TypeOK
<1>1. IInv => TypeOK
  BY DEF IInv
<1> QED BY IInvAlways, <1>1, PTL

\* Batcher: no two open merge requests promote to the same channel, and none to
\* two versions of one.
THEOREM RequestsAreApart == Spec => []OneRequestPerChannel
<1>1. IInv => OneRequestPerChannel
  <2> SUFFICES ASSUME IInv PROVE OneRequestPerChannel
    OBVIOUS
  <2>1. \A r, q \in requests : r # q => ChannelsOf(r) \cap ChannelsOf(q) = {}
    BY DEF IInv, ApartInv, Apart, ChannelsOf
  <2>2. \A r \in requests : Cardinality(ChannelsOf(r)) = Cardinality(r.promotions)
    BY OneVersionEachCounts DEF IInv, ApartInv, TypeOK
  <2> QED BY <2>1, <2>2 DEF OneRequestPerChannel
<1> QED BY IInvAlways, <1>1, PTL

\* _batch_remaining_mrs: one open batch at most has capacity available.
THEOREM BatchesAreFull == Spec => []OneBatchWithRoom
<1>1. IInv => OneBatchWithRoom
  <2> SUFFICES ASSUME IInv PROVE OneBatchWithRoom
    OBVIOUS
  <2> DEFINE S == {r \in requests : r.batchable /\ Cardinality(r.promotions) < BatchLimit}
  <2>1. \A r, q \in S : r = q
    BY DEF IInv, RoomInv, HasRoom
  <2> HIDE DEF S
  <2>2. Cardinality(S) <= 1
    <3>1. CASE S = {}
      BY <3>1, FS_EmptySet
    <3>2. ASSUME NEW r \in S PROVE Cardinality(S) <= 1
      <4>1. S = {r}
        BY <2>1
      <4>2. Cardinality({r}) = 1
        BY FS_Singleton
      <4> QED BY <4>1, <4>2
    <3> QED BY <3>1, <3>2
  <2> QED BY <2>2 DEF OneBatchWithRoom, S
<1> QED BY IInvAlways, <1>1, PTL

\* No open merge request promotes a channel to an older version than its
\* subscribers have.
THEOREM NothingPromotesBackwards == Spec => []NoneIsBehind
<1>1. IInv => NoneIsBehind
  BY DEF IInv, VersionInv, NoneIsBehind, Asked, PromotedBy
<1> QED BY IInvAlways, <1>1, PTL

\* Merge requests then carry nothing but what they promote.
OwnInv == \A x \in requests \cup rendered : x.content \in SUBSET x.promotions

LEMMA OwnStep ==
    ASSUME \A c, d \in Channels : FileOf[c] = FileOf[d] => c = d,
           IInv, OwnInv, Next
    PROVE  OwnInv'
<1>1. CASE NoneOpened /\ rendered' \in SUBSET rendered
  BY <1>1 DEF OwnInv, NoneOpened, SameRequest
<1>2. ASSUME NEW m \in rendered, Open(m), requests' # requests PROVE OwnInv'
  <2>1. PICK n \in Requests :
           /\ requests' = requests \cup {n} /\ n.promotions = m.promotions
           /\ n.content \in SUBSET m.content
    BY <1>2, OpenMoves
  <2> QED BY <1>2, <2>1 DEF OwnInv, Open
<1>3. ASSUME NEW a \in opening, Render(a) PROVE OwnInv'
  <2> DEFINE P == a.promotions
             content == {<<c, Written(P, master)[c]>> : c \in InFilesOf(P)}
             m == [promotions |-> P, batchable |-> a.batchable, content |-> content]
  <2>1. rendered' = rendered \cup {m} /\ requests' = requests
    BY <1>3 DEF Render
  <2>2. m.promotions = P /\ m.content = content
    OBVIOUS
  <2>3. P \in SUBSET Promotions /\ master \in [Channels -> Versions]
    BY DEF IInv, TypeOK, Additions, SomePromotions
  <2>4. ASSUME NEW c \in InFilesOf(P) PROVE <<c, Written(P, master)[c]>> \in P
    <3>1. PICK p \in P : c \in Channels /\ FileOf[c] = FileOf[p[1]]
      BY <2>4 DEF InFilesOf
    <3>2. p[1] = c
      BY <2>3, <3>1, PromotionParts
    <3> QED BY <2>3, <3>1, <3>2, WrittenParts
  <2>5. content \in SUBSET P
    BY <2>4
  <2> HIDE DEF m, content
  <2> QED BY <2>1, <2>2, <2>5 DEF OwnInv
<1>4. \/ NoneOpened /\ rendered' \in SUBSET rendered
      \/ \E m \in rendered : Open(m) /\ requests' # requests
      \/ \E a \in opening : Render(a)
  <2>1. rendered' \in SUBSET rendered \/ \E a \in opening : Render(a)
    BY DEF Next, RunStep, ComputeDesired, FetchRequests, Close, Closed, Open, EndRun, Crash, Stop,
           Publish, LoadBundle, CheckEnds, MergeRequest, run
  <2>2. requests' = requests => NoneOpened
    BY SubsetIsNoneOpened DEF IInv
  <2> QED BY <2>1, <2>2, RequestsMove DEF IInv
<1> QED BY <1>1, <1>2, <1>3, <1>4

\* Overwriting whole files takes nothing back when each is about one channel.
THEOREM FilesOfOneAreNotRolledBack ==
    ASSUME \A c, d \in Channels : FileOf[c] = FileOf[d] => c = d
    PROVE  Spec => NoRollback
<1>1. Init => OwnInv
  BY DEF Init, OwnInv
<1>2. IInv /\ OwnInv /\ [Next]_vars => OwnInv'
  <2>1. ASSUME OwnInv, UNCHANGED vars PROVE OwnInv'
    BY <2>1 DEF OwnInv, vars, run
  <2> QED BY <2>1, OwnStep
<1>3. IInv /\ OwnInv /\ [Next]_vars => [\A c \in Channels : master'[c] >= master[c]]_vars
  <2> SUFFICES ASSUME IInv, OwnInv, Next, NEW c \in Channels PROVE master'[c] >= master[c]
    OBVIOUS
  <2>1. /\ master[c] \in Int
        /\ \A p \in Asked : p[2] \in Int
    BY VersionTypes DEF IInv
  <2>2. ASSUME NEW r \in requests, MergeRequest(r) PROVE master'[c] >= master[c]
    <3>1. master'[c] = master[c] \/ <<c, master'[c]>> \in r.promotions
      BY <2>2, MergeMoves DEF IInv, OwnInv
    <3>2. r.promotions \in SUBSET Asked
      BY DEF Asked, PromotedBy
    <3>3. <<c, master'[c]>> \in Asked => master[c] <= master'[c] /\ master'[c] \in Int
      BY <2>1 DEF IInv, VersionInv
    <3> QED BY <2>1, <3>1, <3>2, <3>3
  <2>3. master' = master \/ \E r \in requests : MergeRequest(r)
    BY DEF Next, RunStep, ComputeDesired, FetchRequests, Close, Closed, Render, Open, EndRun,
           Crash, Publish, LoadBundle, CheckEnds, world
  <2> QED BY <2>1, <2>2, <2>3
<1>4. Init /\ [][Next]_vars /\ []IInv => []OwnInv
  BY <1>1, <1>2, PTL
<1> QED BY IInvAlways, <1>3, <1>4, PTL DEF NoRollback, Spec
=============================================================================
