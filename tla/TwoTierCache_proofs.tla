------------------------ MODULE TwoTierCache_proofs ------------------------
(***************************************************************************)
(* What the two tiers of the cache promise, for any number of workers, any  *)
(* times to live and any number of faults, given that a worker is done with *)
(* the lock before the lock's own time to live is over: only one works under *)
(* the lock, nothing comes back to Redis that was invalidated, and every    *)
(* read is one of StaleRegister.                                            *)
(***************************************************************************)
EXTENDS TwoTierCache, TLAPS

\* A fetch or a write takes less time than the lock has.
LockOutlastsHolders == MaxHold < LockTtl

\* Who works under the lock has it, and it has as much time left as the lock's
\* time to live exceeds the time it is held.
LockInv ==
    \A p \in Procs : Holds(p) =>
        /\ lock.owner = p
        /\ lock.ttl >= LockTtl - held[p]

\* Only old versions are superseded and invalidated, and all are that came before
\* a version a process has invalidated for.
DroppedInv ==
    /\ \A v \in Versions : superseded[v] # Promise!Never => v < current
    /\ \A v \in Versions : dropped[v] # Promise!Never => v < current
    /\ \A p \in Procs : \A v \in Versions : v < own[p] => dropped[v] # Promise!Never
    /\ \A p \in Procs : own[p] <= current

\* What a process has fetched and not yet filled in, or written and not yet
\* dropped.
GotInv ==
    \A p \in Procs :
        /\ pc[p] = "fill" =>
            /\ got[p] <= current
            /\ dropped[got[p]] = Promise!Never
            /\ superseded[got[p]] <= held[p]
        /\ pc[p] \in {"dropper", "drop"} => got[p] > own[p] /\ got[p] <= current

\* How old the entry of Redis may be.
RedisInv ==
    redis # Nothing =>
        /\ redis.version <= current
        /\ dropped[redis.version] = Promise!Never
        /\ superseded[redis.version] <= MaxHold + RedisTtl - redis.ttl

\* How old the entry in the memory of a process may be, which was made from that
\* of Redis or by a fetch.
MemoryInv ==
    \A p \in Procs : memory[p] # Nothing =>
        /\ memory[p].version <= current
        /\ memory[p].version >= own[p]
        /\ dropped[memory[p].version] <= MemoryTtl - memory[p].ttl
        /\ superseded[memory[p].version] <= Staleness + 1 - memory[p].ttl

IInv == TypeOK /\ LockInv /\ DroppedInv /\ GotInv /\ RedisInv /\ MemoryInv
-----------------------------------------------------------------------------
\* The constants are numbers.
LEMMA ConstantTypes ==
    /\ MaxVersion \in Nat /\ MaxHold \in Nat /\ MaxFaults \in Nat
    /\ MemoryTtl \in Nat \ {0} /\ RedisTtl \in Nat \ {0} /\ LockTtl \in Nat \ {0}
    /\ Staleness \in Nat /\ MemoryTtl - 1 \in Nat
BY TwoTierCacheAssumption DEF Staleness

\* A tick leaves an entry an entry, and one with a shorter time to live.
LEMMA AgedEntry ==
    ASSUME NEW bound \in Nat, NEW e \in Entries(bound)
    PROVE  /\ Aged(e, Nothing) \in Entries(bound)
           /\ Aged(e, Nothing) # Nothing =>
                /\ e # Nothing
                /\ Aged(e, Nothing).version = e.version
                /\ Aged(e, Nothing).ttl = e.ttl - 1
BY DEF Aged, Entries, Nothing

\* The lock of a tick later.
LEMMA AgedLockType ==
    ASSUME NEW l \in Locks
    PROVE  /\ AgedLock(l) \in Locks
           /\ l.ttl > 1 => AgedLock(l).owner = l.owner /\ AgedLock(l).ttl = l.ttl - 1
BY ConstantTypes DEF AgedLock, Aged, Locks, Free

\* Whoever gives up the lock, it is one of the locks, and another's stays.
LEMMA GivenUpType ==
    ASSUME lock \in Locks, NEW p \in Procs
    PROVE  /\ Released(p) \in Locks
           /\ Abandoned(p) \in Locks
           /\ lock.owner # p => Released(p) = lock /\ Abandoned(p) = lock
BY ConstantTypes DEF Released, Abandoned, Locks, Free

\* What a process finds is a version, and so is what it warms its memory with.
LEMMA FoundType ==
    ASSUME TypeOK, NEW p \in Procs, Hit(p)
    PROVE  /\ Found(p) \in Versions
           /\ Warmed(p) \in [Procs -> Entries(MemoryTtl)]
<1>1. memory[p] \in Entries(MemoryTtl) /\ redis \in Entries(RedisTtl)
  BY DEF TypeOK
<1>2. redis # Nothing => [version |-> redis.version, ttl |-> MemoryTtl] \in Entries(MemoryTtl)
  BY <1>1, ConstantTypes DEF Entries, Nothing
<1>3. Found(p) \in Versions
  BY <1>1 DEF Found, Hit, Entries, Nothing
<1>4. Warmed(p) \in [Procs -> Entries(MemoryTtl)]
  BY <1>2 DEF Warmed, Hit, TypeOK
<1> QED BY <1>3, <1>4

\* Ages stay within their bounds.
LEMMA OlderType ==
    ASSUME NEW bound \in Nat, NEW age \in Promise!Never..bound + 1
    PROVE  /\ Promise!Older(age, bound) \in Promise!Never..bound + 1
           /\ Promise!Older(age, bound) = Promise!Never <=> age = Promise!Never
           /\ Promise!Older(age, bound) <= age + 1
BY DEF Promise!Older, Promise!Never

LEMMA TypeInit == ASSUME Init PROVE TypeOK
<1> USE ConstantTypes
<1>1. 0 \in Versions
  BY DEF Versions
<1>2. Promise!Never \in Promise!Never..Staleness + 1 /\ Promise!Never \in Promise!Never..MemoryTtl
  BY DEF Promise!Never
<1>3. Nothing \in Entries(MemoryTtl) /\ Nothing \in Entries(RedisTtl) /\ Free \in Locks
  BY DEF Entries, Locks, Free
<1> QED
  BY <1>1, <1>2, <1>3, TwoTierCacheAssumption DEF Init, TypeOK, Promise!Init, Versions, Promise!Versions

\* Every step keeps types.
LEMMA TypeStep == ASSUME TypeOK, Next PROVE TypeOK'
<1> USE ConstantTypes
<1>1. ASSUME Promise!Change
      PROVE  /\ current' \in Versions
             /\ own' \in [Procs -> Versions]
             /\ seen' \in [Procs -> Versions \cup {Promise!Never}]
             /\ superseded' \in [Versions -> Promise!Never..Staleness + 1]
             /\ dropped' \in [Versions -> Promise!Never..MemoryTtl]
             /\ current + 1 \in Versions
  BY <1>1 DEF TypeOK, Promise!Change, Versions, Promise!Never
<1>2. CASE Change
  BY <1>1, <1>2 DEF Change, TypeOK
<1>3. ASSUME NEW p \in Procs, TakeLock(p) PROVE TypeOK'
  <2>1. lock' \in Locks /\ held' \in [Procs -> 0..MaxHold]
    BY <1>3 DEF TakeLock, Acquire, TypeOK, Locks
  <2> QED BY <1>3, <2>1 DEF TakeLock, Acquire, TypeOK, Go, promise
<1>4. ASSUME NEW p \in Procs, ReadHit(p) PROVE TypeOK'
  <2>1. memory' \in [Procs -> Entries(MemoryTtl)] /\ Found(p) \in Versions
    BY <1>4, FoundType DEF ReadHit
  <2>2. lock' \in Locks
    BY <1>4, GivenUpType DEF ReadHit, TypeOK
  <2>3. /\ held' \in [Procs -> 0..MaxHold]
        /\ seen' \in [Procs -> Versions \cup {Promise!Never}]
        /\ UNCHANGED <<writeLocked, current, redis, faults, got, superseded, dropped, own>>
    BY <1>4, <2>1 DEF ReadHit, TypeOK, Promise!Showing
  <2>4. pc' \in [Procs -> {"idle", "read", "recheck", "fetch", "fill",
                         "writer", "write", "dropper", "drop"}]
    BY <1>4 DEF ReadHit, TypeOK, Go
  <2> QED BY <2>1, <2>2, <2>3, <2>4 DEF TypeOK
<1>5. ASSUME NEW p \in Procs, ReadMiss(p) PROVE TypeOK'
  BY <1>5 DEF ReadMiss, FindsNothing, Fault, TypeOK, Go, promise
<1>6. ASSUME NEW p \in Procs, RecheckMiss(p) PROVE TypeOK'
  BY <1>6 DEF RecheckMiss, FindsNothing, Fault, TypeOK, Go, promise
<1>7. ASSUME NEW p \in Procs, Fetch(p) PROVE TypeOK'
  BY <1>7 DEF Fetch, TypeOK, Go, promise
<1>8. ASSUME NEW p \in Procs, Fill(p) PROVE TypeOK'
  <2>1. /\ [version |-> got[p], ttl |-> MemoryTtl] \in Entries(MemoryTtl)
        /\ [version |-> got[p], ttl |-> RedisTtl] \in Entries(RedisTtl)
    BY DEF Entries, TypeOK
  <2>2. memory' \in [Procs -> Entries(MemoryTtl)] /\ redis' \in Entries(RedisTtl)
    BY <1>8, <2>1 DEF Fill, TypeOK
  <2>3. lock' \in Locks
    BY <1>8, GivenUpType DEF Fill, TypeOK
  <2> QED BY <1>8, <2>2, <2>3 DEF Fill, Fault, TypeOK, Go, Promise!Showing
<1>9. ASSUME NEW p \in Procs, StartWrite(p) PROVE TypeOK'
  BY <1>9 DEF StartWrite, TypeOK, Go, promise
<1>10. ASSUME NEW p \in Procs, Write(p) PROVE TypeOK'
  <2>1. got' \in [Procs -> Versions]
    BY <1>1, <1>10 DEF Write, TypeOK
  <2>2. pc' \in [Procs -> {"idle", "read", "recheck", "fetch", "fill",
                         "writer", "write", "dropper", "drop"}]
    BY <1>10 DEF Write, Go, TypeOK
  <2> QED BY <1>1, <1>10, <2>1, <2>2 DEF Write, TypeOK
<1>11. ASSUME NEW p \in Procs, Drop(p) PROVE TypeOK'
  <2>1. memory' \in [Procs -> Entries(MemoryTtl)] /\ redis' \in Entries(RedisTtl)
    BY <1>11 DEF Drop, Forgotten, TypeOK, Entries
  <2>2. lock' \in Locks
    BY <1>11, GivenUpType DEF Drop, TypeOK
  <2>3. dropped' \in [Versions -> Promise!Never..MemoryTtl]
    BY <1>11 DEF Drop, Promise!Dropping, TypeOK, Promise!Versions, Versions, Promise!Never
  <2>4. own' \in [Procs -> Versions] /\ seen' \in [Procs -> Versions \cup {Promise!Never}]
    BY <1>11 DEF Drop, TypeOK, Promise!Dropping
  <2>5. pc' \in [Procs -> {"idle", "read", "recheck", "fetch", "fill",
                         "writer", "write", "dropper", "drop"}]
    BY <1>11 DEF Drop, TypeOK, Go
  <2> QED BY <1>11, <2>1, <2>2, <2>3, <2>4, <2>5 DEF Drop, TypeOK, Promise!Dropping
<1>12. ASSUME NEW p \in Procs, Fails(p) PROVE TypeOK'
  <2>1. memory' \in [Procs -> Entries(MemoryTtl)]
    BY <1>12 DEF Fails, Forgotten, TypeOK, Entries
  <2>2. lock' \in Locks
    BY <1>12, GivenUpType DEF Fails, TypeOK
  <2>3. CASE Promise!Change
    BY <1>1, <1>12, <2>1, <2>2, <2>3 DEF Fails, Fault, TypeOK, Go
  <2>4. CASE UNCHANGED <<current, promise>>
    BY <1>12, <2>1, <2>2, <2>4 DEF Fails, Fault, TypeOK, Go, promise
  <2> QED BY <1>12, <2>3, <2>4 DEF Fails
<1>13. ASSUME NEW p \in Procs, Crash(p) PROVE TypeOK'
  <2>1. lock' \in Locks
    BY <1>13, GivenUpType DEF Crash, TypeOK
  <2> QED BY <1>13, <2>1 DEF Crash, Fault, TypeOK, Entries, Go, promise
<1>14. CASE Tick
  <2>1. memory' \in [Procs -> Entries(MemoryTtl)] /\ redis' \in Entries(RedisTtl)
    BY <1>14, AgedEntry DEF Tick, TypeOK
  <2>2. lock' \in Locks
    BY <1>14, AgedLockType DEF Tick, TypeOK
  <2>3. held' \in [Procs -> 0..MaxHold]
    BY <1>14 DEF Tick, TypeOK
  <2>4. /\ superseded' \in [Versions -> Promise!Never..Staleness + 1]
        /\ dropped' \in [Versions -> Promise!Never..MemoryTtl]
    <3>1. ASSUME NEW v \in Versions
          PROVE  /\ Promise!Older(superseded[v], Staleness) \in Promise!Never..Staleness + 1
                 /\ Promise!Older(dropped[v], MemoryTtl - 1) \in Promise!Never..MemoryTtl
      BY OlderType DEF TypeOK
    <3> QED BY <1>14, <3>1 DEF Tick, Promise!Tick, Promise!Versions, Versions
  <2> QED BY <1>14, <2>1, <2>2, <2>3, <2>4 DEF Tick, TypeOK, Promise!Tick
<1> QED
  BY <1>2, <1>3, <1>4, <1>5, <1>6, <1>7, <1>8, <1>9, <1>10, <1>11, <1>12, <1>13, <1>14
  DEF Next, Begin, Continue
-----------------------------------------------------------------------------
(* Only one process works under the lock. *)

\* Steps in which no process begins to work under the lock, and nobody takes it
\* from one that does.
LEMMA LockKept ==
    ASSUME LockInv, TypeOK,
           \A q \in Procs : Holds(q)' =>
             Holds(q) /\ held'[q] = held[q] /\ lock' = lock
    PROVE  LockInv'
BY DEF LockInv

\* A process that is done gives up the lock, which was its own if it had any.
LEMMA LockGivenUp ==
    ASSUME LockInv, TypeOK, NEW p \in Procs, lock' \in {lock, Released(p), Abandoned(p)},
           held' = [held EXCEPT ![p] = 0], Go(p, "idle"), UNCHANGED writeLocked
    PROVE  LockInv'
<1> SUFFICES ASSUME NEW q \in Procs, Holds(q)'
             PROVE  lock'.owner = q /\ lock'.ttl >= LockTtl - held'[q]
  BY DEF LockInv
<1>1. q # p /\ Holds(q) /\ held'[q] = held[q]
  BY DEF Go, Holds, TypeOK
<1>2. lock.owner = q /\ lock.ttl >= LockTtl - held[q]
  BY <1>1 DEF LockInv
<1>3. lock' = lock
  BY <1>1, <1>2, GivenUpType DEF TypeOK
<1> QED BY <1>1, <1>2, <1>3

LEMMA LockStep ==
    ASSUME LockOutlastsHolders, TypeOK, LockInv, Next
    PROVE  LockInv'
<1> USE ConstantTypes
<1>1. CASE Change
  BY <1>1, LockKept DEF Change, Holds
<1>2. ASSUME NEW p \in Procs, TakeLock(p) PROVE LockInv'
  <2>1. lock = Free /\ lock' = [owner |-> p, ttl |-> LockTtl] /\ held'[p] = 0
    BY <1>2 DEF TakeLock, Acquire, LockIsFree, TypeOK
  <2>2. ASSUME NEW q \in Procs, Holds(q)', q # p PROVE FALSE
    <3>1. Holds(q)
      BY <1>2, <2>2 DEF TakeLock, Acquire, Holds, Go, TypeOK
    <3> QED BY <2>1, <3>1, TwoTierCacheAssumption DEF LockInv, Free
  <2> QED BY <2>1, <2>2 DEF LockInv
<1>3. ASSUME NEW p \in Procs, ReadHit(p) PROVE LockInv'
  BY <1>3, LockGivenUp DEF ReadHit
<1>4. ASSUME NEW p \in Procs, ReadMiss(p) \/ RecheckMiss(p) \/ Fetch(p) \/ StartWrite(p)
      PROVE  LockInv'
  <2>1. UNCHANGED <<lock, held, writeLocked>>
    BY <1>4 DEF ReadMiss, RecheckMiss, Fetch, StartWrite
  <2>2. ASSUME NEW q \in Procs, Holds(q)' PROVE Holds(q)
    BY <1>4, <2>1, <2>2 DEF ReadMiss, RecheckMiss, Fetch, StartWrite, Go, Holds, TypeOK
  <2> QED BY <2>1, <2>2, LockKept
<1>5. ASSUME NEW p \in Procs, Fill(p) PROVE LockInv'
  <2>1. lock' \in {Released(p), Abandoned(p)}
    BY <1>5 DEF Fill
  <2> QED BY <1>5, <2>1, LockGivenUp DEF Fill
<1>6. ASSUME NEW p \in Procs, Write(p) PROVE LockInv'
  <2>1. UNCHANGED <<lock, held, writeLocked>>
    BY <1>6 DEF Write
  <2>2. ASSUME NEW q \in Procs, Holds(q)' PROVE Holds(q)
    BY <1>6, <2>1, <2>2 DEF Write, Go, Holds, TypeOK
  <2> QED BY <2>1, <2>2, LockKept
<1>7. ASSUME NEW p \in Procs, Drop(p) PROVE LockInv'
  BY <1>7, LockGivenUp DEF Drop
<1>8. ASSUME NEW p \in Procs, Fails(p) PROVE LockInv'
  BY <1>8, LockGivenUp DEF Fails
<1>9. ASSUME NEW p \in Procs, Crash(p) PROVE LockInv'
  BY <1>9, LockGivenUp DEF Crash
<1>10. CASE Tick
  <2> SUFFICES ASSUME NEW q \in Procs, Holds(q)'
               PROVE  lock'.owner = q /\ lock'.ttl >= LockTtl - held'[q]
    BY DEF LockInv
  <2>1. Holds(q) /\ held[q] < MaxHold /\ held'[q] = held[q] + 1
    BY <1>10 DEF Tick, Holds
  <2>2. lock.owner = q /\ lock.ttl >= LockTtl - held[q]
    BY <2>1 DEF LockInv
  <2>3. lock.ttl > 1 /\ lock.ttl \in Int /\ held[q] \in Int
    BY <2>1, <2>2 DEF LockOutlastsHolders, TypeOK, Locks
  <2>4. lock'.owner = lock.owner /\ lock'.ttl = lock.ttl - 1
    BY <1>10, <2>3, AgedLockType DEF Tick, TypeOK
  <2> QED BY <2>1, <2>2, <2>3, <2>4
<1> QED
  BY <1>1, <1>2, <1>3, <1>4, <1>5, <1>6, <1>7, <1>8, <1>9, <1>10 DEF Next, Begin, Continue

\* Two processes never work under the lock at once.
LEMMA OneHolds ==
    ASSUME LockInv, NEW p \in Procs, NEW q \in Procs, Holds(p), Holds(q)
    PROVE  p = q
BY DEF LockInv
-----------------------------------------------------------------------------
(* What has been invalidated, fetched and written. *)

\* The versions a process drops came before the one it wrote.
LEMMA DroppingOld ==
    ASSUME TypeOK, DroppedInv, GotInv, NEW p \in Procs, Drop(p)
    PROVE  /\ own'[p] = got[p] /\ got[p] > own[p] /\ got[p] <= current
           /\ \A q \in Procs : q # p => own'[q] = own[q]
           /\ \A v \in Versions :
                /\ v < got[p] => dropped'[v] # Promise!Never
                /\ v >= got[p] => dropped'[v] = dropped[v]
                /\ dropped[v] # Promise!Never => dropped'[v] = dropped[v]
                /\ dropped'[v] \in {dropped[v], 0}
           /\ UNCHANGED <<current, superseded>>
<1>1. got[p] > own[p] /\ got[p] <= current
  BY DEF Drop, GotInv
<1>2. own'[p] = got[p] /\ \A q \in Procs : q # p => own'[q] = own[q]
  BY DEF Drop, Promise!Dropping, TypeOK
<1>3. got[p] \in Int /\ \A v \in Versions : v \in Int
  BY DEF TypeOK, Versions
<1>4. dropped' = [x \in Versions |->
        IF x < got[p] /\ dropped[x] = Promise!Never THEN 0 ELSE dropped[x]]
  BY DEF Drop, Promise!Dropping, Promise!Versions, Versions
<1> QED
  BY <1>1, <1>2, <1>3, <1>4 DEF Drop, Promise!Dropping, Promise!Never

\* A change supersedes the current version, which was not invalidated before.
LEMMA Superseding ==
    ASSUME TypeOK, Promise!Change
    PROVE  /\ current' = current + 1 /\ current + 1 \in Versions
           /\ \A v \in Versions : superseded'[v] \in {superseded[v], 0}
           /\ \A v \in Versions : v # current => superseded'[v] = superseded[v]
           /\ UNCHANGED <<dropped, own>>
BY ConstantTypes DEF TypeOK, Promise!Change, Versions

\* A tick ages what was superseded and invalidated.
LEMMA Ageing ==
    ASSUME TypeOK, Tick
    PROVE  /\ \A v \in Versions :
                /\ dropped'[v] = Promise!Never <=> dropped[v] = Promise!Never
                /\ dropped'[v] <= dropped[v] + 1
                /\ superseded'[v] = Promise!Never <=> superseded[v] = Promise!Never
                /\ superseded'[v] <= superseded[v] + 1
           /\ UNCHANGED <<current, own>>
<1>1. ASSUME NEW v \in Versions
      PROVE  /\ dropped'[v] = Promise!Never <=> dropped[v] = Promise!Never
             /\ dropped'[v] <= dropped[v] + 1
             /\ superseded'[v] = Promise!Never <=> superseded[v] = Promise!Never
             /\ superseded'[v] <= superseded[v] + 1
  <2>1. /\ dropped'[v] = Promise!Older(dropped[v], MemoryTtl - 1)
        /\ superseded'[v] = Promise!Older(superseded[v], Staleness)
    BY DEF Tick, Promise!Tick, Promise!Versions, Versions
  <2>2. /\ dropped[v] \in Promise!Never..(MemoryTtl - 1) + 1
        /\ superseded[v] \in Promise!Never..Staleness + 1
    BY ConstantTypes DEF TypeOK
  <2> QED BY <2>1, <2>2, OlderType, ConstantTypes
<1> QED BY <1>1 DEF Tick, Promise!Tick

LEMMA DroppedStep ==
    ASSUME TypeOK, DroppedInv, GotInv, Next
    PROVE  DroppedInv'
<1> USE ConstantTypes
<1>0. /\ current \in Int
      /\ \A v \in Versions : v \in Int
      /\ \A p \in Procs : own[p] \in Int /\ got[p] \in Int
  BY DEF TypeOK, Versions
<1>1. CASE Promise!Change
  BY <1>0, <1>1, Superseding DEF DroppedInv
<1>2. ASSUME NEW p \in Procs, Drop(p) PROVE DroppedInv'
  <2>1. \A v \in Versions : dropped'[v] # Promise!Never => v < current'
    <3> SUFFICES ASSUME NEW v \in Versions, dropped'[v] # Promise!Never
                 PROVE  v < current
      BY <1>2, DroppingOld
    <3>1. v < got[p] \/ dropped[v] # Promise!Never
      BY <1>0, <1>2, DroppingOld
    <3> QED BY <1>0, <1>2, <3>1, DroppingOld DEF DroppedInv
  <2>2. ASSUME NEW q \in Procs
        PROVE  /\ \A v \in Versions : v < own'[q] => dropped'[v] # Promise!Never
               /\ own'[q] <= current'
    <3>1. CASE q = p
      BY <1>2, <3>1, DroppingOld
    <3>2. CASE q # p
      BY <1>2, <3>2, DroppingOld DEF DroppedInv
    <3> QED BY <3>1, <3>2
  <2> QED BY <1>2, <2>1, <2>2, DroppingOld DEF DroppedInv
<1>3. CASE Tick
  BY <1>3, Ageing DEF DroppedInv
<1>4. CASE UNCHANGED <<current, superseded, dropped, own>>
  BY <1>4 DEF DroppedInv
<1> QED
  BY <1>1, <1>2, <1>3, <1>4
  DEF Next, Change, Begin, Continue, TakeLock, Acquire, ReadHit, ReadMiss, RecheckMiss, Fetch,
      Fill, StartWrite, Write, Fails, Crash, Promise!Showing, promise
\* What a process that neither moves nor has its versions dropped has got.
LEMMA GotKept ==
    ASSUME TypeOK, DroppedInv, GotInv, NEW q \in Procs,
           UNCHANGED <<pc[q], got[q], held[q], own[q]>>, current' >= current, current' \in Int,
           pc[q] = "fill" => dropped'[got[q]] = dropped[got[q]],
           \A v \in Versions : superseded'[v] \in {superseded[v], 0}
    PROVE  /\ pc'[q] = "fill" =>
                /\ got'[q] <= current'
                /\ dropped'[got'[q]] = Promise!Never
                /\ superseded'[got'[q]] <= held'[q]
           /\ pc'[q] \in {"dropper", "drop"} => got'[q] > own'[q] /\ got'[q] <= current'
<1>1. got[q] \in Versions /\ got[q] \in Int /\ current \in Int /\ held[q] >= 0
  BY DEF TypeOK, Versions
<1> QED BY <1>1 DEF GotInv

\* A process that is idle has got nothing.
LEMMA GotStep ==
    ASSUME TypeOK, LockInv, DroppedInv, GotInv, Next
    PROVE  GotInv'
<1> USE ConstantTypes
<1>0. /\ current \in Int
      /\ \A v \in Versions : v \in Int
      /\ \A q \in Procs : own[q] \in Int /\ got[q] \in Versions /\ held[q] \in 0..MaxHold
  BY DEF TypeOK, Versions
<1>1. CASE Change
  BY <1>0, <1>1, Superseding, GotKept DEF Change, GotInv
<1>2. ASSUME NEW p \in Procs, TakeLock(p) PROVE GotInv'
  <2>1. /\ pc'[p] \in {"recheck", "write", "drop"}
        /\ pc'[p] = "drop" => pc[p] = "dropper"
        /\ \A q \in Procs : q # p => pc'[q] = pc[q] /\ held'[q] = held[q]
        /\ UNCHANGED <<got, current, superseded, dropped, own>>
    BY <1>2 DEF TakeLock, Acquire, Go, promise, TypeOK
  <2> QED BY <2>1 DEF GotInv
<1>3. ASSUME NEW p \in Procs, pc'[p] = "idle" \/ pc'[p] = "read" \/ pc'[p] = "writer" \/ pc'[p] = "write" \/ pc'[p] = "fetch",
             \A q \in Procs : q # p => UNCHANGED <<pc[q], got[q], held[q]>>,
             UNCHANGED <<current, superseded, dropped, own>> \/ (Promise!Change)
      PROVE  GotInv'
  <2> SUFFICES ASSUME NEW q \in Procs, q # p
               PROVE  /\ pc'[q] = "fill" =>
                           /\ got'[q] <= current'
                           /\ dropped'[got'[q]] = Promise!Never
                           /\ superseded'[got'[q]] <= held'[q]
                      /\ pc'[q] \in {"dropper", "drop"} => got'[q] > own'[q] /\ got'[q] <= current'
    BY <1>3 DEF GotInv
  <2>1. UNCHANGED <<pc[q], got[q], held[q], own[q], dropped>>
    BY <1>3, Superseding
  <2>2. current' >= current /\ current' \in Int
    BY <1>0, <1>3, Superseding
  <2>3. \A v \in Versions : superseded'[v] \in {superseded[v], 0}
    BY <1>3, Superseding
  <2> QED BY <2>1, <2>2, <2>3, GotKept
<1>4. ASSUME NEW p \in Procs, ReadHit(p) \/ ReadMiss(p) \/ RecheckMiss(p) \/ StartWrite(p)
      PROVE  GotInv'
  BY <1>3, <1>4 DEF ReadHit, ReadMiss, RecheckMiss, StartWrite, Go, TypeOK, Promise!Showing, promise
<1>5. ASSUME NEW p \in Procs, Fetch(p) PROVE GotInv'
  <2>1. got'[p] = current /\ current \in Versions
    BY <1>5 DEF Fetch, TypeOK
  <2>2. dropped[current] = Promise!Never /\ superseded[current] = Promise!Never
    BY <1>0, <2>1 DEF DroppedInv
  <2>3. Promise!Never <= held[p]
    BY <1>0 DEF Promise!Never
  <2>4. /\ UNCHANGED <<current, dropped, superseded, own, held>>
        /\ pc'[p] = "fill"
        /\ \A q \in Procs : q # p => UNCHANGED <<pc[q], got[q]>>
    BY <1>5 DEF Fetch, Go, promise, TypeOK
  <2> QED BY <1>0, <2>1, <2>2, <2>3, <2>4 DEF GotInv
<1>6. ASSUME NEW p \in Procs, Fill(p) PROVE GotInv'
  BY <1>3, <1>6 DEF Fill, Go, TypeOK, Promise!Showing
<1>7. ASSUME NEW p \in Procs, Write(p) PROVE GotInv'
  <2>1. /\ got'[p] = current' /\ current' = current + 1 /\ own'[p] = own[p]
        /\ pc'[p] \in {"drop", "dropper"}
        /\ UNCHANGED <<own, dropped, held>>
        /\ \A v \in Versions : superseded'[v] \in {superseded[v], 0}
        /\ \A q \in Procs : q # p => UNCHANGED <<pc[q], got[q], held[q]>>
    BY <1>7, Superseding DEF Write, Go, TypeOK
  <2>2. got'[p] > own'[p]
    BY <1>0, <2>1 DEF DroppedInv
  <2>3. ASSUME NEW q \in Procs, q # p
        PROVE  /\ pc'[q] = "fill" =>
                    /\ got'[q] <= current'
                    /\ dropped'[got'[q]] = Promise!Never
                    /\ superseded'[got'[q]] <= held'[q]
               /\ pc'[q] \in {"dropper", "drop"} => got'[q] > own'[q] /\ got'[q] <= current'
    BY <1>0, <2>1, <2>3, GotKept
  <2> QED BY <1>0, <2>1, <2>2, <2>3 DEF GotInv
<1>8. ASSUME NEW p \in Procs, Drop(p) PROVE GotInv'
  <2>1. /\ pc'[p] = "idle" /\ UNCHANGED <<got, superseded, current>>
        /\ \A q \in Procs : q # p => UNCHANGED <<pc[q], held[q], own[q]>>
    BY <1>8, DroppingOld DEF Drop, Go, TypeOK
  <2>2. ASSUME NEW q \in Procs, q # p PROVE pc[q] # "fill"
    BY <1>8, <2>2, OneHolds DEF Drop, Holds
  <2> QED BY <1>0, <2>1, <2>2 DEF GotInv
<1>9. ASSUME NEW p \in Procs, Fails(p) PROVE GotInv'
  BY <1>3, <1>9 DEF Fails, Go, TypeOK, promise
<1>10. ASSUME NEW p \in Procs, Crash(p) PROVE GotInv'
  BY <1>3, <1>10 DEF Crash, Go, TypeOK, promise
<1>11. CASE Tick
  <2>1. UNCHANGED <<pc, got, current, own>>
    BY <1>11, Ageing DEF Tick
  <2>2. ASSUME NEW q \in Procs, pc[q] = "fill" PROVE held'[q] = held[q] + 1
    BY <1>11, <2>2 DEF Tick, Holds
  <2>3. ASSUME NEW v \in Versions PROVE superseded[v] \in Int /\ superseded'[v] \in Int
    BY <1>11, TypeStep DEF TypeOK, Promise!Never
  <2> QED BY <1>0, <1>11, <2>1, <2>2, <2>3, Ageing DEF GotInv
<1> QED
  BY <1>1, <1>2, <1>4, <1>5, <1>6, <1>7, <1>8, <1>9, <1>10, <1>11 DEF Next, Begin, Continue-----------------------------------------------------------------------------
(* What the two tiers hold. *)

LEMMA RedisStep ==
    ASSUME TypeOK, DroppedInv, GotInv, RedisInv, Next
    PROVE  RedisInv'
<1> USE ConstantTypes
<1>0. /\ current \in Int
      /\ redis # Nothing => redis.version \in Versions /\ redis.ttl \in 1..RedisTtl
      /\ \A v \in Versions : v \in Int /\ superseded[v] \in Int
  BY DEF TypeOK, Versions, Entries, Promise!Never
<1>1. CASE Promise!Change /\ UNCHANGED redis
  <2> SUFFICES ASSUME redis # Nothing
               PROVE  /\ redis.version <= current'
                      /\ dropped'[redis.version] = Promise!Never
                      /\ superseded'[redis.version] <= MaxHold + RedisTtl - redis.ttl
    BY <1>1 DEF RedisInv
  <2> QED BY <1>0, <1>1, Superseding DEF RedisInv
<1>2. ASSUME NEW p \in Procs, Fill(p) PROVE RedisInv'
  <2>1. UNCHANGED <<current, superseded, dropped>>
    BY <1>2 DEF Fill, Promise!Showing
  <2>2. CASE redis' = [version |-> got[p], ttl |-> RedisTtl]
    <3>1. got[p] \in Versions /\ held[p] \in 0..MaxHold
      BY DEF TypeOK
    <3>2. superseded[got[p]] <= held[p] /\ dropped[got[p]] = Promise!Never /\ got[p] <= current
      BY <1>2 DEF Fill, GotInv
    <3> QED BY <1>0, <2>1, <2>2, <3>1, <3>2 DEF RedisInv
  <2>3. CASE UNCHANGED redis
    BY <2>1, <2>3 DEF RedisInv
  <2> QED BY <1>2, <2>2, <2>3 DEF Fill
<1>3. ASSUME NEW p \in Procs, Drop(p) PROVE RedisInv'
  BY <1>3 DEF Drop, RedisInv
<1>4. CASE Tick
  <2> SUFFICES ASSUME redis' # Nothing
               PROVE  /\ redis'.version <= current'
                      /\ dropped'[redis'.version] = Promise!Never
                      /\ superseded'[redis'.version] <= MaxHold + RedisTtl - redis'.ttl
    BY DEF RedisInv
  <2>1. redis # Nothing /\ redis'.version = redis.version /\ redis'.ttl = redis.ttl - 1
    BY <1>4, AgedEntry DEF Tick, TypeOK
  <2>2. superseded'[redis.version] <= superseded[redis.version] + 1
    BY <1>0, <1>4, <2>1, Ageing
  <2>3. superseded'[redis.version] \in Int
    <3>1. TypeOK' /\ redis.version \in Versions
      BY <1>0, <2>1, TypeStep
    <3> QED BY <3>1 DEF TypeOK, Promise!Never
  <2> QED BY <1>0, <1>4, <2>1, <2>2, <2>3, Ageing DEF RedisInv
<1>5. CASE UNCHANGED <<redis, current, superseded, dropped>>
  BY <1>5 DEF RedisInv
<1> QED
  BY <1>1, <1>2, <1>3, <1>4, <1>5
  DEF Next, Change, Begin, Continue, TakeLock, Acquire, ReadHit, ReadMiss, RecheckMiss, Fetch,
      StartWrite, Write, Fails, Crash, Promise!Showing, promise

\* A process that does not forget its entry keeps it while it is superseded or
\* invalidated.
LEMMA MemoryKept ==
    ASSUME TypeOK, MemoryInv, NEW q \in Procs, UNCHANGED <<memory[q], own[q]>>, memory[q] # Nothing,
           current' >= current, current' \in Int,
           \A v \in Versions : /\ superseded'[v] \in {superseded[v], 0}
                               /\ dropped'[v] \in {dropped[v], 0}
    PROVE  /\ memory'[q].version <= current'
           /\ memory'[q].version >= own'[q]
           /\ dropped'[memory'[q].version] <= MemoryTtl - memory'[q].ttl
           /\ superseded'[memory'[q].version] <= Staleness + 1 - memory'[q].ttl
<1> DEFINE v == memory[q].version
<1>1. /\ v \in Versions /\ v \in Int /\ memory[q].ttl \in 1..MemoryTtl
      /\ current \in Int
  BY DEF TypeOK, Entries, Versions
<1>2. MemoryTtl \in Int /\ Staleness + 1 >= MemoryTtl /\ Staleness \in Int
  BY ConstantTypes DEF Staleness
<1>3. /\ v <= current /\ v >= own[q]
      /\ dropped[v] <= MemoryTtl - memory[q].ttl
      /\ superseded[v] <= Staleness + 1 - memory[q].ttl
  BY DEF MemoryInv
<1>4. 0 <= MemoryTtl - memory[q].ttl /\ 0 <= Staleness + 1 - memory[q].ttl
  BY <1>1, <1>2
<1>5. dropped'[v] <= MemoryTtl - memory[q].ttl /\ superseded'[v] <= Staleness + 1 - memory[q].ttl
  BY <1>1, <1>3, <1>4
<1>6. v <= current'
  BY <1>1, <1>3
<1> QED BY <1>3, <1>5, <1>6

LEMMA MemoryStep ==
    ASSUME TypeOK, DroppedInv, GotInv, RedisInv, MemoryInv, Next
    PROVE  MemoryInv'
<1> USE ConstantTypes
<1>0. /\ current \in Int
      /\ \A v \in Versions : v \in Int /\ superseded[v] \in Int /\ dropped[v] \in Int
      /\ \A q \in Procs : own[q] \in Int
  BY DEF TypeOK, Versions, Promise!Never
<1>1. ASSUME NEW p \in Procs,
             \A q \in Procs : q # p => UNCHANGED <<memory[q], own[q]>>,
             memory'[p] = Nothing \/ UNCHANGED <<memory[p], own[p]>>,
             current' >= current, current' \in Int,
             \A v \in Versions : /\ superseded'[v] \in {superseded[v], 0}
                                 /\ dropped'[v] \in {dropped[v], 0}
      PROVE  MemoryInv'
  <2> SUFFICES ASSUME NEW q \in Procs, memory'[q] # Nothing
               PROVE  /\ memory'[q].version <= current'
                      /\ memory'[q].version >= own'[q]
                      /\ dropped'[memory'[q].version] <= MemoryTtl - memory'[q].ttl
                      /\ superseded'[memory'[q].version] <= Staleness + 1 - memory'[q].ttl
    BY DEF MemoryInv
  <2>1. UNCHANGED <<memory[q], own[q]>> /\ memory[q] # Nothing
    BY <1>1
  <2> QED BY <1>1, <2>1, MemoryKept
<1>2. ASSUME NEW p \in Procs, memory'[p] # Nothing,
             \A q \in Procs : q # p => memory'[q] = memory[q],
             UNCHANGED <<current, superseded, dropped, own>>,
             /\ memory'[p].version \in Versions
             /\ memory'[p].ttl = MemoryTtl
             /\ memory'[p].version <= current
             /\ dropped[memory'[p].version] = Promise!Never
             /\ superseded[memory'[p].version] <= Staleness + 1 - MemoryTtl
      PROVE  MemoryInv'
  <2>1. memory'[p].version >= own'[p]
    BY <1>0, <1>2 DEF DroppedInv
  <2>2. dropped'[memory'[p].version] <= MemoryTtl - memory'[p].ttl
    BY <1>2 DEF Promise!Never
  <2> QED BY <1>2, <2>1, <2>2 DEF MemoryInv
<1>3. CASE UNCHANGED <<memory, current, superseded, dropped, own>>
  BY <1>3 DEF MemoryInv
<1>4. CASE Change
  <2>1. UNCHANGED memory /\ Promise!Change
    BY <1>4 DEF Change
  <2>2. current' >= current /\ current' \in Int
    BY <1>0, <2>1, Superseding
  <2> QED BY <2>1, <2>2, Superseding, MemoryKept DEF MemoryInv
<1>5. ASSUME NEW p \in Procs, ReadHit(p) PROVE MemoryInv'
  <2>1. UNCHANGED <<current, superseded, dropped, own>>
    BY <1>5 DEF ReadHit, Promise!Showing
  <2>2. CASE memory[p] # Nothing
    BY <1>3, <1>5, <2>1, <2>2 DEF ReadHit, Warmed
  <2>3. CASE memory[p] = Nothing
    <3>1. redis # Nothing
      BY <1>5, <2>3 DEF ReadHit, Hit
    <3>2. redis.version \in Versions /\ redis.ttl \in 1..RedisTtl
      BY <3>1 DEF TypeOK, Entries
    <3>3. /\ memory'[p] = [version |-> redis.version, ttl |-> MemoryTtl]
          /\ \A q \in Procs : q # p => memory'[q] = memory[q]
      BY <1>5, <2>3 DEF ReadHit, Warmed, TypeOK
    <3>4. superseded[redis.version] <= Staleness + 1 - MemoryTtl
      BY <1>0, <3>1, <3>2 DEF RedisInv, Staleness
    <3>5. memory'[p] # Nothing
      BY <3>3 DEF Nothing
    <3> QED BY <1>2, <2>1, <3>1, <3>2, <3>3, <3>4, <3>5 DEF RedisInv
  <2> QED BY <2>2, <2>3
<1>6. ASSUME NEW p \in Procs, Fill(p) PROVE MemoryInv'
  <2>1. UNCHANGED <<current, superseded, dropped, own>>
    BY <1>6 DEF Fill, Promise!Showing
  <2>2. /\ memory'[p] = [version |-> got[p], ttl |-> MemoryTtl]
        /\ \A q \in Procs : q # p => memory'[q] = memory[q]
    BY <1>6 DEF Fill, TypeOK
  <2>3. got[p] \in Versions /\ held[p] \in 0..MaxHold
    BY DEF TypeOK
  <2>4. superseded[got[p]] <= held[p] /\ dropped[got[p]] = Promise!Never /\ got[p] <= current
    BY <1>6 DEF Fill, GotInv
  <2>5. superseded[got[p]] <= Staleness + 1 - MemoryTtl
    BY <1>0, <2>3, <2>4 DEF Staleness
  <2>6. memory'[p] # Nothing
    BY <2>2 DEF Nothing
  <2> QED BY <1>2, <2>1, <2>2, <2>3, <2>4, <2>5, <2>6
<1>7. ASSUME NEW p \in Procs, Write(p) PROVE MemoryInv'
  <2>1. UNCHANGED memory /\ Promise!Change
    BY <1>7 DEF Write
  <2>2. current' >= current /\ current' \in Int
    BY <1>0, <2>1, Superseding
  <2> QED BY <2>1, <2>2, Superseding, MemoryKept DEF MemoryInv
<1>8. ASSUME NEW p \in Procs, Drop(p) PROVE MemoryInv'
  <2>1. memory'[p] = Nothing /\ \A q \in Procs : q # p => memory'[q] = memory[q]
    BY <1>8 DEF Drop, Forgotten, TypeOK
  <2>2. /\ \A q \in Procs : q # p => own'[q] = own[q]
        /\ \A v \in Versions : dropped'[v] \in {dropped[v], 0}
        /\ UNCHANGED <<current, superseded>>
    BY <1>8, DroppingOld
  <2> QED BY <1>0, <1>1, <2>1, <2>2
<1>9. ASSUME NEW p \in Procs, Fails(p) \/ Crash(p) PROVE MemoryInv'
  <2>1. /\ \A q \in Procs : q # p => memory'[q] = memory[q]
        /\ memory'[p] \in {Nothing, memory[p]}
    BY <1>9 DEF Fails, Crash, Forgotten, TypeOK
  <2>2. Promise!Change \/ UNCHANGED <<current, superseded, dropped, own>>
    BY <1>9 DEF Fails, Crash, promise
  <2>3. current' >= current /\ current' \in Int /\ UNCHANGED <<dropped, own>>
    BY <1>0, <2>2, Superseding
  <2>4. \A v \in Versions : superseded'[v] \in {superseded[v], 0}
    BY <2>2, Superseding
  <2> QED BY <1>1, <2>1, <2>3, <2>4
<1>10. CASE Tick
  <2> SUFFICES ASSUME NEW q \in Procs, memory'[q] # Nothing
               PROVE  /\ memory'[q].version <= current'
                      /\ memory'[q].version >= own'[q]
                      /\ dropped'[memory'[q].version] <= MemoryTtl - memory'[q].ttl
                      /\ superseded'[memory'[q].version] <= Staleness + 1 - memory'[q].ttl
    BY DEF MemoryInv
  <2>1. memory[q] # Nothing /\ memory'[q].version = memory[q].version /\ memory'[q].ttl = memory[q].ttl - 1
    BY <1>10, AgedEntry DEF Tick, TypeOK
  <2>2. memory[q].version \in Versions /\ memory[q].ttl \in 1..MemoryTtl
    BY <2>1 DEF TypeOK, Entries
  <2>3. /\ superseded'[memory[q].version] <= superseded[memory[q].version] + 1
        /\ dropped'[memory[q].version] <= dropped[memory[q].version] + 1
        /\ UNCHANGED <<current, own>>
    BY <1>10, <2>2, Ageing
  <2>4. superseded'[memory[q].version] \in Int /\ dropped'[memory[q].version] \in Int
    BY <2>2, TypeStep DEF TypeOK, Promise!Never
  <2> QED BY <1>0, <2>1, <2>2, <2>3, <2>4 DEF MemoryInv
<1> QED
  BY <1>3, <1>4, <1>5, <1>6, <1>7, <1>8, <1>9, <1>10
  DEF Next, Begin, Continue, TakeLock, Acquire, ReadMiss, RecheckMiss, Fetch, StartWrite, promise
-----------------------------------------------------------------------------
LEMMA InvInit == ASSUME Init PROVE IInv
<1>1. TypeOK
  BY TypeInit
<1>2. LockInv /\ GotInv /\ RedisInv /\ MemoryInv
  BY DEF Init, LockInv, Holds, GotInv, RedisInv, MemoryInv
<1>3. DroppedInv
  <2>1. /\ current = 0 /\ own = [p \in Procs |-> 0]
        /\ \A v \in Versions : superseded[v] = Promise!Never /\ dropped[v] = Promise!Never
    BY DEF Init, Promise!Init, Promise!Versions, Versions
  <2>2. \A v \in Versions : ~(v < 0)
    BY DEF Versions
  <2> QED BY <2>1, <2>2 DEF DroppedInv
<1> QED BY <1>1, <1>2, <1>3 DEF IInv

LEMMA InvNext == ASSUME LockOutlastsHolders, IInv, [Next]_vars PROVE IInv'
<1>1. CASE Next
  BY <1>1, TypeStep, LockStep, DroppedStep, GotStep, RedisStep, MemoryStep DEF IInv
<1>2. CASE UNCHANGED vars
  BY <1>2 DEF IInv, TypeOK, LockInv, DroppedInv, GotInv, RedisInv, MemoryInv, Holds, vars, promise
<1> QED BY <1>1, <1>2

LEMMA InvAlways == ASSUME LockOutlastsHolders PROVE Spec => []IInv
<1>1. IInv /\ [Next]_vars => IInv'
  BY InvNext
<1> QED BY InvInit, <1>1, PTL DEF Spec

\* Two processes never work under the lock at once: what TLC finds violated when
\* a holder may outlast the lock.
THEOREM LockIsKeptAlways == ASSUME LockOutlastsHolders PROVE Spec => []LockIsKept
<1>1. IInv => LockIsKept
  BY DEF IInv, LockInv, LockIsKept
<1> QED BY InvAlways, <1>1, PTL

\* Every value the service, the tiers and the processes hold is of its type, also
\* when a holder outlasts the lock.
THEOREM TypeCorrect == Spec => []TypeOK
<1>1. TypeOK /\ UNCHANGED vars => TypeOK'
  BY DEF TypeOK, vars, promise
<1>2. TypeOK /\ [Next]_vars => TypeOK'
  BY TypeStep, <1>1
<1> QED BY TypeInit, <1>2, PTL DEF Spec

\* SecretManager.write and its siblings: what a write has invalidated does not
\* come back to Redis from a reader that fetched it before.
THEOREM NothingComesBack == ASSUME LockOutlastsHolders PROVE Spec => []NoRepopulation
<1>1. IInv => NoRepopulation
  BY DEF IInv, RedisInv, NoRepopulation
<1> QED BY InvAlways, <1>1, PTL
-----------------------------------------------------------------------------
(* The refinement. *)

\* What a process finds in the tiers may be shown to it.
LEMMA FoundIsShown ==
    ASSUME IInv, NEW p \in Procs, Hit(p), Promise!Showing(p, Found(p))
    PROVE  Promise!Show(p, Found(p))
<1> USE ConstantTypes
<1> DEFINE v == Found(p)
<1>0. /\ v \in Versions /\ v \in Int /\ current \in Int /\ own[p] \in Int
      /\ superseded[v] \in Int /\ dropped[v] \in Int
  <2>1. TypeOK /\ v \in Versions
    BY FoundType DEF IInv
  <2> QED BY <2>1 DEF TypeOK, Versions, Promise!Never
<1>1. CASE memory[p] # Nothing
  <2>1. v = memory[p].version /\ memory[p].ttl \in 1..MemoryTtl
    BY <1>1 DEF Found, IInv, TypeOK, Entries
  <2>2. /\ v <= current /\ v >= own[p]
        /\ dropped[v] <= MemoryTtl - memory[p].ttl
        /\ superseded[v] <= Staleness + 1 - memory[p].ttl
    BY <1>1, <2>1 DEF IInv, MemoryInv
  <2>3. v \in own[p]..current /\ superseded[v] <= Staleness /\ dropped[v] <= MemoryTtl - 1
    BY <1>0, <2>1, <2>2
  <2> QED BY <2>3 DEF Promise!Show
<1>2. CASE memory[p] = Nothing
  <2>1. redis # Nothing /\ v = redis.version /\ redis.ttl \in 1..RedisTtl
    BY <1>2 DEF Found, Hit, IInv, TypeOK, Entries
  <2>2. /\ v <= current
        /\ dropped[v] = Promise!Never
        /\ superseded[v] <= MaxHold + RedisTtl - redis.ttl
    BY <2>1 DEF IInv, RedisInv
  <2>3. v >= own[p]
    BY <1>0, <2>2 DEF IInv, DroppedInv
  <2>4. superseded[v] <= Staleness
    BY <1>0, <2>1, <2>2 DEF Staleness
  <2>5. dropped[v] <= MemoryTtl - 1
    BY <2>2 DEF Promise!Never
  <2>6. v \in own[p]..current
    BY <1>0, <2>2, <2>3
  <2> QED BY <2>4, <2>5, <2>6 DEF Promise!Show
<1> QED BY <1>1, <1>2

\* What a process has fetched may be shown to it.
LEMMA FetchedIsShown ==
    ASSUME IInv, NEW p \in Procs, pc[p] = "fill", Promise!Showing(p, got[p])
    PROVE  Promise!Show(p, got[p])
<1> USE ConstantTypes
<1>0. /\ got[p] \in Versions /\ got[p] \in Int /\ current \in Int /\ own[p] \in Int
      /\ superseded[got[p]] \in Int /\ held[p] \in 0..MaxHold
  BY DEF IInv, TypeOK, Versions, Promise!Never
<1>1. /\ got[p] <= current
      /\ dropped[got[p]] = Promise!Never
      /\ superseded[got[p]] <= held[p]
  BY DEF IInv, GotInv
<1>2. got[p] >= own[p]
  BY <1>0, <1>1 DEF IInv, DroppedInv
<1>3. got[p] \in own[p]..current
  BY <1>0, <1>1, <1>2
<1>4. superseded[got[p]] <= Staleness
  BY <1>0, <1>1 DEF Staleness
<1>5. dropped[got[p]] <= MemoryTtl - 1
  BY <1>1 DEF Promise!Never
<1> QED BY <1>3, <1>4, <1>5 DEF Promise!Show

\* A step of the cache is one of the register, or leaves it alone.
LEMMA RefinementStep ==
    ASSUME IInv, Next
    PROVE  [Promise!Next]_(Promise!vars)
<1>1. CASE Promise!Change
  BY <1>1 DEF Promise!Next
<1>2. CASE Tick
  BY <1>2 DEF Tick, Promise!Next
<1>3. ASSUME NEW p \in Procs, ReadHit(p) PROVE Promise!Next
  <2>1. Promise!Show(p, Found(p)) /\ Found(p) \in Versions
    BY <1>3, FoundIsShown, FoundType DEF ReadHit, IInv
  <2> QED BY <2>1 DEF Promise!Next, Promise!Versions, Versions
<1>4. ASSUME NEW p \in Procs, Fill(p) PROVE Promise!Next
  <2>1. Promise!Show(p, got[p]) /\ got[p] \in Versions
    BY <1>4, FetchedIsShown DEF Fill, IInv, TypeOK
  <2> QED BY <2>1 DEF Promise!Next, Promise!Versions, Versions
<1>5. ASSUME NEW p \in Procs, Drop(p) PROVE Promise!Next
  <2>1. got[p] > own[p] /\ got[p] <= current /\ got[p] \in Versions
    BY <1>5 DEF Drop, IInv, GotInv, TypeOK
  <2>2. got[p] \in own[p] + 1..current
    BY <2>1, ConstantTypes DEF IInv, TypeOK, Versions
  <2>3. Promise!Drop(p, got[p])
    BY <1>5, <2>2 DEF Drop, Promise!Drop
  <2> QED BY <2>1, <2>3 DEF Promise!Next, Promise!Versions, Versions
<1>6. CASE UNCHANGED <<current, promise>>
  BY <1>6 DEF Promise!vars, promise
<1> QED
  BY <1>1, <1>2, <1>3, <1>4, <1>5, <1>6
  DEF Next, Change, Begin, Continue, TakeLock, Acquire, ReadMiss, RecheckMiss, Fetch, StartWrite,
      Write, Fails, Crash

\* Every read is one that the abstract register allows.
THEOREM Refinement == ASSUME LockOutlastsHolders PROVE Spec => ImplementsStaleRegister
<1>1. Init => Promise!Init
  BY DEF Init
<1>2. IInv /\ [Next]_vars => [Promise!Next]_(Promise!vars)
  BY RefinementStep DEF vars, promise, Promise!vars
<1> QED BY InvAlways, <1>1, <1>2, PTL DEF Spec, Promise!Spec, ImplementsStaleRegister
=============================================================================
