---------------------------- MODULE TwoTierCache ----------------------------
(***************************************************************************)
(* Cached reads and invalidating writes of one key by the workers of        *)
(* qontract-api.  A worker process runs one task at a time (celery's solo   *)
(* pool) and has a memory tier of its own; all share a Redis with the       *)
(* second tier and the lock of the key.  Clients write to the service under *)
(* that lock (quay, secrets) or take it only to invalidate (ocm, glitchtip, *)
(* github).                                                                 *)
(*                                                                         *)
(* Time is counted in ticks; the steps between two requests of a worker are *)
(* local and take none.                                                     *)
(***************************************************************************)
EXTENDS Integers, FiniteSets

CONSTANTS
    Procs,       \* worker processes
    NoProc,      \* not a process
    MaxVersion,  \* bound on the changes of the service's data
    MemoryTtl,   \* cache_memory_ttl
    RedisTtl,    \* repos_cache_ttl and its siblings
    LockTtl,     \* timeout of the lock
    MaxHold,     \* bound on the time the lock is held
    Disciplines, \* whether a client writes under the lock: all that are checked
    MaxFaults    \* bound on crashes and failing requests

ASSUME TwoTierCacheAssumption ==
    /\ NoProc \notin Procs
    /\ {MaxVersion, MaxHold, MaxFaults} \subseteq Nat
    /\ {MemoryTtl, RedisTtl, LockTtl} \subseteq Nat \ {0}
    /\ Disciplines \subseteq BOOLEAN

Versions == 0..MaxVersion
Nothing == [version |-> 0, ttl |-> 0]
Entries(ttl) == {Nothing} \cup [version : Versions, ttl : 1..ttl]
Locks == [owner : Procs \cup {NoProc}, ttl : 0..LockTtl]
Free == [owner |-> NoProc, ttl |-> 0]

VARIABLES
    writeLocked, \* whether the service is written to under the lock
    current, \* version of the data in the service
    memory,  \* the memory tier of a process
    redis,
    lock,
    faults

VARIABLES
    pc,      \* of a process
    held,    \* ticks since it got the lock
    got      \* the version it has fetched or written

\* What readers were shown and when versions went: the variables of
\* StaleRegister.  The code does not have them, and no step waits for them.
VARIABLES superseded, dropped, own, seen

promise == <<superseded, dropped, own, seen>>
vars == <<writeLocked, current, memory, redis, lock, faults, pc, held, got, promise>>

\* A fetch, an entry of Redis and the entry of memory made from it at its end.
Staleness == MaxHold + RedisTtl + MemoryTtl - 2

Promise == INSTANCE StaleRegister WITH
    Readers <- Procs,
    Staleness <- Staleness,
    Invalidation <- MemoryTtl - 1

\* The process believes it has the lock.
Holds(p) ==
    \/ pc[p] \in {"recheck", "fetch", "fill", "drop"}
    \/ pc[p] = "write" /\ writeLocked
-----------------------------------------------------------------------------
(* The two tiers and the lock. *)

Hit(p) == memory[p] # Nothing \/ redis # Nothing
Found(p) == IF memory[p] # Nothing THEN memory[p].version ELSE redis.version

\* A value from Redis warms the memory tier, with its full time to live.
Warmed(p) ==
    IF memory[p] # Nothing THEN memory
    ELSE [memory EXCEPT ![p] = [version |-> redis.version, ttl |-> MemoryTtl]]

\* Mutant: a write leaves the memory tier to its time to live.
ForgottenRedisOnly(p) == memory
\* delete pops the key from the memory tier of the process that deletes.
Forgotten(p) == [memory EXCEPT ![p] = Nothing]

\* Mutant: acquire does not wait.
LockIsFreeAlways == TRUE
LockIsFree == lock = Free

\* The release of a lock that is no longer held is ignored.
Released(p) == IF lock.owner = p THEN Free ELSE lock

\* Nobody will release the lock any more: its holder is gone, or had no Redis.
Abandoned(p) == IF lock.owner = p THEN [lock EXCEPT !.owner = NoProc] ELSE lock

\* Mutant: what the process that holds the lock left behind stays.
AgedLockStays(l) == l
\* Entries and the lock are gone at the end of their time to live.
Aged(e, none) == IF e.ttl <= 1 THEN none ELSE [e EXCEPT !.ttl = @ - 1]
AgedLock(l) == Aged(l, Free)

\* The bound on versions leaves one for every write that has begun.
MayChange ==
    current + Cardinality({p \in Procs : pc[p] \in {"writer", "write"}}) < MaxVersion

Fault == faults < MaxFaults /\ faults' = faults + 1

Go(p, to) == pc' = [pc EXCEPT ![p] = to]
-----------------------------------------------------------------------------
Init ==
    /\ writeLocked \in Disciplines
    /\ memory = [p \in Procs |-> Nothing]
    /\ redis = Nothing
    /\ lock = Free
    /\ faults = 0
    /\ pc = [p \in Procs |-> "idle"]
    /\ held = [p \in Procs |-> 0]
    /\ got = [p \in Procs |-> 0]
    /\ Promise!Init

\* Somebody changes the data without qontract-api.
Change ==
    /\ MayChange
    /\ Promise!Change
    /\ UNCHANGED <<writeLocked, memory, redis, lock, faults, pc, held, got>>

Acquire(p, from, to) ==
    /\ pc[p] = from
    /\ LockIsFree
    /\ lock' = [owner |-> p, ttl |-> LockTtl]
    /\ held' = [held EXCEPT ![p] = 0]
    /\ Go(p, to)
    /\ UNCHANGED <<writeLocked, current, memory, redis, faults, got, promise>>

\* get_obj returns None when neither tier has the key, or Redis cannot be reached.
FindsNothing(p) ==
    /\ memory[p] = Nothing
    /\ IF redis = Nothing THEN UNCHANGED faults ELSE Fault

\* A read that is served from one of the tiers, without and with the lock.
ReadHit(p) ==
    /\ pc[p] \in {"idle", "recheck"}
    /\ Hit(p)
    /\ Promise!Showing(p, Found(p))
    /\ memory' = Warmed(p)
    /\ lock' = IF pc[p] = "recheck" THEN Released(p) ELSE lock
    /\ held' = [held EXCEPT ![p] = 0]
    /\ Go(p, "idle")
    /\ UNCHANGED <<writeLocked, redis, faults, got>>

\* A read that finds nothing, or no Redis, and has to take the lock.
ReadMiss(p) ==
    /\ pc[p] = "idle"
    /\ FindsNothing(p)
    /\ Go(p, "read")
    /\ UNCHANGED <<writeLocked, current, memory, redis, lock, held, got, promise>>

RecheckMiss(p) ==
    /\ pc[p] = "recheck"
    /\ FindsNothing(p)
    /\ Go(p, "fetch")
    /\ UNCHANGED <<writeLocked, current, memory, redis, lock, held, got, promise>>

Fetch(p) ==
    /\ pc[p] = "fetch"
    /\ got' = [got EXCEPT ![p] = current]
    /\ Go(p, "fill")
    /\ UNCHANGED <<writeLocked, current, memory, redis, lock, faults, held, promise>>

\* set_obj writes both tiers; without Redis it warns and writes one.
Fill(p) ==
    /\ pc[p] = "fill"
    /\ memory' = [memory EXCEPT ![p] = [version |-> got[p], ttl |-> MemoryTtl]]
    /\ \/ redis' = [version |-> got[p], ttl |-> RedisTtl] /\ UNCHANGED faults
       \/ UNCHANGED redis /\ Fault
    /\ lock' \in {Released(p), IF faults' = faults THEN Released(p) ELSE Abandoned(p)}
    /\ held' = [held EXCEPT ![p] = 0]
    /\ Promise!Showing(p, got[p])
    /\ Go(p, "idle")
    /\ UNCHANGED <<writeLocked, got>>

StartWrite(p) ==
    /\ pc[p] = "idle"
    /\ MayChange
    /\ Go(p, IF writeLocked THEN "writer" ELSE "write")
    /\ UNCHANGED <<writeLocked, current, memory, redis, lock, faults, held, got, promise>>

Write(p) ==
    /\ pc[p] = "write"
    /\ Promise!Change
    /\ got' = [got EXCEPT ![p] = current + 1]
    /\ Go(p, IF writeLocked THEN "drop" ELSE "dropper")
    /\ UNCHANGED <<writeLocked, memory, redis, lock, faults, held>>

Drop(p) ==
    /\ pc[p] = "drop"
    /\ memory' = Forgotten(p)
    /\ redis' = Nothing
    /\ lock' = Released(p)
    /\ held' = [held EXCEPT ![p] = 0]
    /\ Promise!Dropping(p, got[p])
    /\ Go(p, "idle")
    /\ UNCHANGED <<writeLocked, faults, got>>

\* A request to the service or to Redis fails, with the lock or waiting for it.
\* The failed write may have been done, the failed delete has popped the memory
\* tier; the exception releases the lock, if there is a Redis for that.
Fails(p) ==
    /\ pc[p] # "idle"
    /\ pc[p] # "recheck" /\ pc[p] # "fill"
    /\ Fault
    /\ \/ pc[p] = "write" /\ Promise!Change
       \/ UNCHANGED <<current, promise>>
    /\ memory' = IF pc[p] = "drop" THEN Forgotten(p) ELSE memory
    /\ lock' \in {Released(p), Abandoned(p)}
    /\ held' = [held EXCEPT ![p] = 0]
    /\ Go(p, "idle")
    /\ UNCHANGED <<writeLocked, redis, got>>

\* The process starts again with an empty memory tier; a lock it held stays.
Crash(p) ==
    /\ Fault
    /\ memory' = [memory EXCEPT ![p] = Nothing]
    /\ lock' = Abandoned(p)
    /\ held' = [held EXCEPT ![p] = 0]
    /\ Go(p, "idle")
    /\ UNCHANGED <<writeLocked, current, redis, got, promise>>

Tick ==
    /\ \A p \in Procs : Holds(p) => held[p] < MaxHold
    /\ held' = [p \in Procs |-> IF Holds(p) THEN held[p] + 1 ELSE held[p]]
    /\ memory' = [p \in Procs |-> Aged(memory[p], Nothing)]
    /\ redis' = Aged(redis, Nothing)
    /\ lock' = AgedLock(lock)
    /\ Promise!Tick
    /\ UNCHANGED <<writeLocked, faults, pc, got>>

\* A process goes on with what it has begun.
TakeLock(p) ==
    \/ Acquire(p, "read", "recheck")
    \/ Acquire(p, "writer", "write")
    \/ Acquire(p, "dropper", "drop")

Continue(p) ==
    \/ TakeLock(p)
    \/ pc[p] = "recheck" /\ ReadHit(p)
    \/ RecheckMiss(p) \/ Fetch(p) \/ Fill(p)
    \/ Write(p) \/ Drop(p)

\* A task begins a read or a write.
Begin(p) == pc[p] = "idle" /\ (ReadHit(p) \/ ReadMiss(p) \/ StartWrite(p))

Next ==
    \/ Change
    \/ \E p \in Procs : Begin(p) \/ Continue(p) \/ Fails(p) \/ Crash(p)
    \/ Tick

Spec == Init /\ [][Next]_vars

\* Workers and time go on; a worker that polls for the lock finds it free in
\* the end, if it is free again and again.
FairSpec ==
    /\ Spec
    /\ WF_vars(Tick)
    /\ \A p \in Procs : WF_vars(Continue(p)) /\ SF_vars(TakeLock(p))
-----------------------------------------------------------------------------
TypeOK ==
    /\ writeLocked \in BOOLEAN
    /\ memory \in [Procs -> Entries(MemoryTtl)]
    /\ redis \in Entries(RedisTtl)
    /\ lock \in Locks
    /\ faults \in Nat
    /\ pc \in [Procs -> {"idle", "read", "recheck", "fetch", "fill",
                         "writer", "write", "dropper", "drop"}]
    /\ held \in [Procs -> 0..MaxHold]
    /\ got \in [Procs -> Versions]
    /\ current \in Versions
    /\ own \in [Procs -> Versions]
    /\ seen \in [Procs -> Versions \cup {Promise!Never}]
    /\ superseded \in [Versions -> Promise!Never..Staleness + 1]
    /\ dropped \in [Versions -> Promise!Never..MemoryTtl]

\* SecretManager.write: "a concurrent read() cannot repopulate the cache with
\* pre-write data in the gap between the write and the invalidation", nor after
\* it: what a write has invalidated does not come back to Redis from a reader
\* that fetched it before, wherever clients write and whoever crashes.
NoRepopulation ==
    redis # Nothing => dropped[redis.version] = Promise!Never

\* Every read is one that the abstract register allows: a version is shown at
\* most the time of both tiers and of one fetch after it was superseded, at most
\* the time of the memory tier after any worker has invalidated it, and not by
\* the worker that did.
ImplementsStaleRegister == Promise!Spec

\* A worker that waits for the lock gets it and returns, even if the holder
\* crashed with the lock.
LockWaitsEnd ==
    \A p \in Procs : pc[p] \in {"read", "writer", "dropper"} ~> pc[p] = "idle"

\* The lock is held with "Automatic renewal (watch-dog pattern)": no process
\* works under a lock that another process can take.
LockIsKept == \A p \in Procs : Holds(p) => lock.owner = p
=============================================================================
