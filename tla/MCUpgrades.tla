----------------------------- MODULE MCUpgrades -----------------------------
(* Instances of Upgrades for TLC.  The organization prod inherits from stage; *)
(* its sector late depends on mid, which is empty, and mid on early.          *)
EXTENDS Upgrades

CONSTANTS canary, first, second, hosted, stage, prod, early, mid, late, web, mutex

ThreeClusters == <<second, first, canary>>
OrgsOf == [c \in Cluster |-> IF c = canary THEN stage ELSE prod]
OneOrg == [c \in Cluster |-> prod]
NoneInherits == prod :> {}
ProdFromStage == (stage :> {}) @@ (prod :> {stage})
SectorsOf == [c \in Cluster |->
    CASE c = canary -> None [] c = first -> early [] OTHER -> late]
SectorChain == (early :> {}) @@ (mid :> {early}) @@ (late :> {mid})
NoMaximum == [s \in Sectors |-> [unit |-> "none", n |-> 0]]
MutexOfProd == [c \in Cluster |-> IF c = canary THEN {} ELSE {mutex}]
AllWeb == [c \in Cluster |-> {web}]
SoakInLate == [c \in Cluster |-> IF SectorOf[c] = late THEN MaxSoak ELSE 0]
FourClusters == <<hosted, second, first, canary>>
ProdClusters == <<hosted, second, first>>
QuarterOfLate == [s \in Sectors |->
    IF s = late THEN [unit |-> "percent", n |-> 25] ELSE [unit |-> "none", n |-> 0]]
TwoOfLate == [s \in Sectors |->
    IF s = late THEN [unit |-> "count", n |-> 2] ELSE [unit |-> "none", n |-> 0]]
NoChain == [s \in Sectors |-> {}]
NoSoak == [c \in Cluster |-> 0]
NoneBlocked == [c \in Cluster |-> {}]
=============================================================================
