---------------------------- MODULE MCMergeQueue ----------------------------
(* Instances of MergeQueue for TLC: the second and the third merge request    *)
(* are about the same tenant, the others about tenants of their own.         *)
EXTENDS MergeQueue

CONSTANTS m1, m2, m3, m4, a, b, c

MCTenants == [m \in MRs |->
    CASE m = m1 -> {a}
      [] m \in {m2, m3} -> {b}
      [] m = m4 -> {c}]
MCApart == [m \in MRs |-> CASE m = m1 -> {a} [] m = m2 -> {b} [] m = m3 -> {c}]
MCRank == [m \in MRs |-> CASE m = m1 -> 1 [] m = m2 -> 2 [] m = m3 -> 3 [] m = m4 -> 4]
=============================================================================
