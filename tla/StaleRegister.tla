--------------------------- MODULE StaleRegister ---------------------------
(***************************************************************************)
(* What the cached reads of qontract-api promise about a service whose data *)
(* change: a reader may be shown an old version, but only for so long after *)
(* the version was superseded, for a shorter time after a writer has        *)
(* invalidated it, and never after the reader itself has.                   *)
(***************************************************************************)
EXTENDS Integers

CONSTANTS Readers,
          MaxVersion,    \* bound on the changes
          Staleness,     \* ticks a superseded version may still be shown
          Invalidation   \* ticks an invalidated version may still be shown

Versions == 0..MaxVersion
Never == -1

VARIABLES current,     \* version of the data
          superseded,  \* ticks since a version was superseded, or Never
          dropped,     \* ticks since a version was invalidated, or Never
          own,         \* the last version a reader wrote and invalidated for
          seen         \* the version a reader was shown last, in this tick and
                     \* since it last invalidated anything, or Never

vars == <<current, superseded, dropped, own, seen>>

Init ==
    /\ current = 0
    /\ superseded = [v \in Versions |-> Never]
    /\ dropped = [v \in Versions |-> Never]
    /\ own = [r \in Readers |-> 0]
    /\ seen = [r \in Readers |-> Never]

Change ==
    /\ current < MaxVersion
    /\ current' = current + 1
    /\ superseded' = [superseded EXCEPT ![current] = 0]
    /\ UNCHANGED <<dropped, own, seen>>

\* The versions before v are invalid, and reader r knows.
Dropping(r, v) ==
    /\ own' = [own EXCEPT ![r] = v]
    /\ dropped' = [x \in Versions |->
                     IF x < v /\ dropped[x] = Never THEN 0 ELSE dropped[x]]
    /\ seen' = [seen EXCEPT ![r] = Never]
    /\ UNCHANGED <<current, superseded>>

Drop(r, v) == v \in own[r] + 1..current /\ Dropping(r, v)

\* Reader r is shown v.
Showing(r, v) ==
    /\ seen' = [seen EXCEPT ![r] = v]
    /\ UNCHANGED <<current, superseded, dropped, own>>

Show(r, v) ==
    /\ v \in own[r]..current
    /\ superseded[v] <= Staleness
    /\ dropped[v] <= Invalidation
    /\ Showing(r, v)

\* An age counts up to the first that is too old.
Older(age, bound) == IF age \in {Never, bound + 1} THEN age ELSE age + 1

Tick ==
    /\ superseded' = [v \in Versions |-> Older(superseded[v], Staleness)]
    /\ dropped' = [v \in Versions |-> Older(dropped[v], Invalidation)]
    /\ seen' = [r \in Readers |-> Never]
    /\ UNCHANGED <<current, own>>

Next ==
    \/ Change
    \/ Tick
    \/ \E r \in Readers, v \in Versions : Drop(r, v) \/ Show(r, v)

Spec == Init /\ [][Next]_vars
=============================================================================
