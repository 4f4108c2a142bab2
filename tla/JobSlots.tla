------------------------------ MODULE JobSlots ------------------------------
(***************************************************************************)
(* What a user of the job controller promises to the jobs of a namespace:   *)
(* every name is a slot that holds one unit of work at a time.  Work starts *)
(* in an empty slot, runs until it ends by itself, and only finished work   *)
(* is removed, by its time to live or to make room for the next.            *)
(***************************************************************************)
EXTENDS JobPolicy

CONSTANTS Names,  \* job names
          Units,  \* the work a job may be created for
          NoUnit  \* the work of an empty slot

VARIABLE slot     \* [Names -> [status : JobStatuses, unit : Units \cup {NoUnit}]]

Empty == [status |-> "NOT_EXISTS", unit |-> NoUnit]

Init == slot = [n \in Names |-> Empty]

Start(n) ==
    /\ slot[n].status = "NOT_EXISTS"
    /\ \E u \in Units : slot' = [slot EXCEPT ![n] = [status |-> "IN_PROGRESS", unit |-> u]]

Finish(n) ==
    /\ slot[n].status = "IN_PROGRESS"
    /\ \E s \in Finished : slot' = [slot EXCEPT ![n].status = s]

Remove(n) ==
    /\ slot[n].status \in Finished
    /\ slot' = [slot EXCEPT ![n] = Empty]

Next == \E n \in Names : Start(n) \/ Finish(n) \/ Remove(n)

Spec == Init /\ [][Next]_slot
=============================================================================
