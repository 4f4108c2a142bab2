------------------------ MODULE MCExternalResources ------------------------
(* Instances of ExternalResources for TLC: a database with a read replica.  *)
EXTENDS ExternalResources

CONSTANTS db1, replica1, h1, h2, v1, v2

Spec1(mode, hash, image, overridden) ==
    [mode |-> mode, hash |-> hash, image |-> image, overridden |-> overridden]

Gone    == Spec1("gone", h1, v1, FALSE)
Apply1  == Spec1("apply", h1, v1, FALSE)
Apply2  == Spec1("apply", h2, v1, FALSE)
Pinned  == Spec1("apply", h1, v2, TRUE)
Delete  == Spec1("delete", h1, v1, FALSE)
Invalid == Spec1("invalid", h2, v1, FALSE)

\* The database is the replication source of the replica.
TwoKeys == {db1, replica1}
ReplicaOf == [k \in TwoKeys |-> IF k = db1 THEN {replica1} ELSE {}]
BothDeclared == [k \in TwoKeys |-> Apply1]
Changes == {Apply2, Delete}
Updates == {Apply2, Pinned, Invalid}
OnlyDelete == {Delete}

OneKey == {db1}
NoDependants == [k \in OneKey |-> {}]
OneDeclared == [k \in OneKey |-> Apply1]
NothingDeclared == [k \in OneKey |-> Gone]
Redeclared == {Apply1, Apply2, Pinned}
AllChanges == {Gone, Apply1, Apply2, Pinned, Delete, Invalid}
=============================================================================
