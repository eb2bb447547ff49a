----------------------------- MODULE TopoConnect -----------------------------
(***************************************************************************)
(* The topo_connect edges of NetworkTopoAlgorithm::run                     *)
(* (NetworkTopoProcedure.cpp:484-1370): series compensators, AC lines,     *)
(* two-port and three-port transformers whose ends are in two islands.     *)
(*                                                                         *)
(* Of the electrical parameters of an edge the resistance R is kept: the   *)
(* code inserts it with its sign changed where it is negative.             *)
(***************************************************************************)
EXTENDS Integers, FiniteSets

CONSTANTS
    OpenCN,         \* the subset cnOpenSub
    Compensator,    \* [off, iNd, jNd] of each series compensator
    CNid,           \* the property CN_id of each CN
    CompensatorAt,  \* pairs of a CN and a compensator (connected_Compensator_S_CN)
    Dot,            \* line ends with off = 0 at a CN of OpenCN
    DotEdges,       \* out edges of line ends, of any label: [src, dst, id, r]
    Tx2,            \* ends of two-port transformers with off = 0 at such a CN
    Tx2Edges,       \* txI_txJ_transformerline: [src, dst, off, r], off that of dst
    Tx3,            \* ends of three-port transformers with off = 0 at such a CN
    Tx3Neutral,     \* neutral_three: [src, mid, off, r], off the sum of the three offs
    EndAt,          \* the CN whose id each of these ends has (DeviceFollowsCN of TopoBuild)
    TopoIds,        \* the ids the earlier stages may have given, -1 for none
    IntHalf         \* 2^31: write<int> keeps the low bits of an id

ASSUME ConnectAssumption ==
    /\ TopoIds \subseteq Int
    /\ IntHalf \in Nat \ {0}
    /\ CompensatorAt \subseteq OpenCN \X DOMAIN Compensator
    /\ \A c, d \in OpenCN : CNid[c] = CNid[d] => c = d
    /\ \A e \in DotEdges \cup Tx2Edges : e.src \in DOMAIN EndAt /\ e.dst \in DOMAIN EndAt
    /\ \A e \in Tx3Neutral : e.src \in DOMAIN EndAt
    /\ \A v \in DOMAIN EndAt : EndAt[v] \in OpenCN

\* A branch has one resistance, up to its sign, from whichever end it is entered, and the lines, the
\* transformers and the compensators are different objects.
Magnitude(r) == IF r < 0 THEN -r ELSE r
ASSUME BranchAssumption ==
    /\ \A e \in DotEdges \cup Tx2Edges \cup Tx3Neutral : e.r \in Int
    /\ \A e, f \in DotEdges : e.id = f.id => Magnitude(e.r) = Magnitude(f.r)
    /\ \A e, f \in Tx2Edges : e.src = f.src => Magnitude(e.r) = Magnitude(f.r)
    /\ \A e, f \in Tx3Neutral : e.src = f.src => Magnitude(e.r) = Magnitude(f.r)
    /\ Tx2 \cap Tx3 = {} /\ (Tx2 \cup Tx3) \cap DOMAIN Compensator = {}
    /\ \A e \in DotEdges : e.id \notin Tx2 \cup Tx3 \cup DOMAIN Compensator

VARIABLES
    id,         \* state(v).maxTopoID
    sumID,      \* state(t).sumIID and sumJID, as a pair
    topoIJ,     \* state(t).itopoID and jtopoID, <<>> while they are nullopt
    stage,
    todo,       \* what the tasks of the stage have yet to handle
    connect     \* the edges inserted

connectVars == <<id, sumID, topoIJ, stage, todo, connect>>

\* The conversion of an id to int.
ToInt(v) == ((v + IntHalf) % (2 * IntHalf)) - IntHalf

Edge(by, from, to, reverse, R) == [by |-> by, from |-> from, to |-> to, reverse |-> reverse, R |-> R]

\* The two edges that every branch inserts.
Both(by, from, to, reverse, R) == {Edge(by, from, to, reverse, R), Edge(by, to, from, -reverse, R)}

\* Mutant: both ends call their own side the reversed one.
OrientationBySide(s, t) == 1

\* non_reverse
Orientation(s, t) == IF id[s] < id[t] THEN -1 ELSE 1

-----------------------------------------------------------------------------
InService == {x \in CompensatorAt : Compensator[x[2]].off = 0}

ConnectInit ==
    /\ \E ids \in [OpenCN -> TopoIds] :
           id = [v \in OpenCN \cup DOMAIN EndAt |-> ids[IF v \in OpenCN THEN v ELSE EndAt[v]]]
    /\ sumID = [s \in DOMAIN Compensator |-> <<0, 0>>]
    /\ topoIJ = [s \in DOMAIN Compensator |-> <<>>]
    /\ stage = "compensator"
    /\ todo = InService
    /\ connect = {}

\* A task of csOpenSub: the id of CN c goes to the side of compensator t that names it.
WriteSide(c, t) ==
    /\ stage = "compensator"
    /\ <<c, t>> \in todo
    /\ todo' = todo \ {<<c, t>>}
    /\ sumID' = IF Compensator[t].iNd = CNid[c] THEN [sumID EXCEPT ![t][1] = ToInt(id[c])]
                ELSE IF Compensator[t].jNd = CNid[c] THEN [sumID EXCEPT ![t][2] = ToInt(id[c])]
                ELSE sumID
    /\ UNCHANGED <<id, topoIJ, stage, connect>>

\* insertLineCS: each task handles its own compensator.
Joins(t) == sumID[t][1] # sumID[t][2] /\ sumID[t][1] # 0 /\ sumID[t][2] # 0

\* Mutant: the edges are made while the ids are still being written.
ConnectEarly ==
    LET joined == {t \in {x[2] : x \in InService} : Joins(t)}
    IN  /\ stage = "compensator"
        /\ connect' = connect \cup UNION {Both(t, sumID[t][1], sumID[t][2], 1, 0) : t \in joined}
        /\ topoIJ' = [t \in DOMAIN topoIJ |-> IF t \in joined THEN sumID[t] ELSE topoIJ[t]]
        /\ stage' = "acline"
        /\ todo' = {e \in DotEdges : e.src \in Dot}
        /\ UNCHANGED <<id, sumID>>

ConnectCompensators ==
    LET joined == {t \in {x[2] : x \in InService} : Joins(t)}
    IN  /\ stage = "compensator"
        /\ todo = {}
        /\ connect' = connect \cup UNION {Both(t, sumID[t][1], sumID[t][2], 1, 0) : t \in joined}
        /\ topoIJ' = [t \in DOMAIN topoIJ |-> IF t \in joined THEN sumID[t] ELSE topoIJ[t]]
        /\ stage' = "acline"
        /\ todo' = {e \in DotEdges : e.src \in Dot}
        /\ UNCHANGED <<id, sumID>>

\* The branches for a negative resistance and for any other.
LineOfNegativeR(e) == Both(e.id, id[e.src], id[e.dst], Orientation(e.src, e.dst), -e.r)
LineOfR(e) == Both(e.id, id[e.src], id[e.dst], Orientation(e.src, e.dst), e.r)
LineEdges(e) == IF e.r < 0 THEN LineOfNegativeR(e) ELSE LineOfR(e)

\* g3: all out edges of a line end, whatever their label.
ConnectLine(e) ==
    /\ stage = "acline"
    /\ e \in todo
    /\ todo' = todo \ {e}
    /\ connect' = connect \cup (IF id[e.src] # 0 /\ id[e.dst] # 0 THEN LineEdges(e) ELSE {})
    /\ UNCHANGED <<id, sumID, topoIJ, stage>>

StartTwoPort ==
    /\ stage = "acline"
    /\ todo = {}
    /\ stage' = "twoport"
    /\ todo' = {e \in Tx2Edges : e.src \in Tx2}
    /\ UNCHANGED <<id, sumID, topoIJ, connect>>

TwoPortOfNegativeR(e) == Both(e.src, id[e.src], id[e.dst], Orientation(e.src, e.dst), -e.r)
TwoPortOfR(e) == Both(e.src, id[e.src], id[e.dst], Orientation(e.src, e.dst), e.r)
TwoPortEdges(e) == IF e.r < 0 THEN TwoPortOfNegativeR(e) ELSE TwoPortOfR(e)

\* x2
ConnectTwoPort(e) ==
    /\ stage = "twoport"
    /\ e \in todo
    /\ todo' = todo \ {e}
    /\ connect' = connect \cup (IF id[e.src] # 0 /\ id[e.dst] # 0 /\ e.off = 0 THEN TwoPortEdges(e) ELSE {})
    /\ UNCHANGED <<id, sumID, topoIJ, stage>>

StartThreePort ==
    /\ stage = "twoport"
    /\ todo = {}
    /\ stage' = "threeport"
    /\ todo' = {e \in Tx3Neutral : e.src \in Tx3}
    /\ UNCHANGED <<id, sumID, topoIJ, connect>>

ThreePortOfNegativeR(e) == Both(e.src, id[e.src], e.mid, 1, -e.r)
ThreePortOfR(e) == Both(e.src, id[e.src], e.mid, 1, e.r)
ThreePortEdges(e) == IF e.r < 0 THEN ThreePortOfNegativeR(e) ELSE ThreePortOfR(e)

\* y2
ConnectThreePort(e) ==
    /\ stage = "threeport"
    /\ e \in todo
    /\ todo' = todo \ {e}
    /\ connect' = connect \cup (IF id[e.src] # 0 /\ e.off <= 1 THEN ThreePortEdges(e) ELSE {})
    /\ UNCHANGED <<id, sumID, topoIJ, stage>>

ConnectDone ==
    /\ stage = "threeport"
    /\ todo = {}
    /\ stage' = "connected"
    /\ UNCHANGED <<id, sumID, topoIJ, todo, connect>>

ConnectNext ==
    \/ \E x \in CompensatorAt : WriteSide(x[1], x[2])
    \/ \E e \in DotEdges : ConnectLine(e)
    \/ \E e \in Tx2Edges : ConnectTwoPort(e)
    \/ \E e \in Tx3Neutral : ConnectThreePort(e)
    \/ ConnectCompensators \/ StartTwoPort \/ StartThreePort \/ ConnectDone

-----------------------------------------------------------------------------
\* The CN on one side of a compensator.
SideOf(t, nd) == {c \in OpenCN : <<c, t>> \in CompensatorAt /\ CNid[c] = nd}
Fits(v) == v \in -IntHalf .. IntHalf - 1

\* Whatever the order of the tasks that write sumIID and sumJID, a compensator in service whose two
\* sides are open CNs with ids that fit an int is an edge exactly when the ids differ and neither
\* is 0, and its itopoID and jtopoID are the ids of its I side and its J side, in that order.  With
\* a side that is no open CN it is never an edge, whatever other CNs write.
CompensatorsJoinSides ==
    stage # "compensator" =>
        \A t \in {x[2] : x \in InService} :
            LET I == SideOf(t, Compensator[t].iNd)
                J == SideOf(t, Compensator[t].jNd)
                none == topoIJ[t] = <<>> /\ \A e \in connect : e.by # t
            IN  /\ (I = {} \/ J = {}) => none
                /\ \A i \in I, j \in J : (i # j /\ Fits(id[i]) /\ Fits(id[j])) =>
                       IF id[i] # id[j] /\ id[i] # 0 /\ id[j] # 0
                       THEN Edge(t, id[i], id[j], 1, 0) \in connect /\ topoIJ[t] = <<id[i], id[j]>>
                       ELSE none

\* Lines and transformers that are entered from both ends, by different tasks, agree on which way
\* an edge between two islands is reversed (NetworkTopoProcedure.cpp:623, 889); and all edges of a
\* line or transformer have one resistance, never negative, whichever end and branch they come from.
Passive == {e.id : e \in DotEdges} \cup Tx2
OneOrientation ==
    \A e, f \in connect :
        /\ (e.by \in Passive /\ f.by \in Passive /\ e.from = f.from /\ e.to = f.to /\ e.from # e.to)
               => e.reverse = f.reverse
        /\ e.by = f.by => e.R = f.R /\ e.R >= 0
=============================================================================
