------------------------------ MODULE FromToCp ------------------------------
(***************************************************************************)
(* The end of NetworkTopoAlgorithm::run (NetworkTopoProcedure.cpp:1372 to  *)
(* 1820), after the edges of TopoConnect: the reactive power measured at   *)
(* compensators spreads through switches to line ends and buses, lines are *)
(* counted at the TopoND nodes, the nodes collect lists, and the from/to   *)
(* values of edges are reset.                                              *)
(*                                                                         *)
(* Every stage is a map over the subset another stage returned; subsets    *)
(* depend on the memory graph only, which has none of the edges inserted   *)
(* in this run.  A task reads its own vertex, then writes another one.     *)
(*                                                                         *)
(* writeDouble converts the double to int64_t and stores the bits of that  *)
(* integer in the double.  sumQimeas and sumBusQMeas are modelled by these *)
(* bits: 0 is 0.0, MinBits is -0.0, a positive number a denormal below 1,  *)
(* any other negative number a NaN.  What the lists of edges and the sets  *)
(* setTopoID1 hold is left out: nothing reads it.                          *)
(***************************************************************************)
EXTENDS TopoConnect, Sequences

CONSTANTS
    Vertex,
    Labels,         \* the labels of each vertex
    Link,           \* edges of the memory graph: [no, label, src, dst]; parallel ones differ in no
    Qimeas,         \* the property Qimeas of compensators, without its fraction
    HighVolt,       \* the buses with volt > 400
    MinBits         \* INT64_MIN

ASSUME GraphAssumption ==
    /\ Labels \in [Vertex -> SUBSET STRING]
    /\ \A e \in Link : e.src \in Vertex /\ e.dst \in Vertex
    /\ MinBits \in Int /\ MinBits < 0 /\ \A v \in DOMAIN Qimeas : Qimeas[v] > MinBits

\* What the edges of a label join, as their names say: a CN and a switch, a CN and a line end.
ASSUME SchemaAssumption ==
    /\ IsFiniteSet(Link)
    /\ \A e \in Link :
          /\ e.label \in {"connected_Breaker_CN", "connected_Disconnector_CN"} =>
                ("CN" \in Labels[e.src] <=> "CN" \notin Labels[e.dst])
          /\ e.label = "aclinedot_cn" =>
                \/ "CN" \in Labels[e.src] /\ "ACline_dot" \in Labels[e.dst]
                \/ "CN" \in Labels[e.dst] /\ "ACline_dot" \in Labels[e.src]
    /\ \A v \in Vertex : "ACline_dot" \in Labels[v] => {"CN", "TopoND"} \cap Labels[v] = {}

VARIABLES
    at,         \* the stage that runs
    left,       \* what its tasks have yet to handle: [s, t, via]
    holding,    \* values read and not yet written: [s, t, via, bits]
    q,          \* state(v).sumQimeas
    busQ,       \* state(v).sumBusQMeas
    lineNo,     \* state(v).sumLineNo
    listed,     \* state(v).listTpndName and listTpndQMeas, one pair per entry
    reset       \* edges whose from_CP_list and to_CP_list, or from_CP and to_CP, were reset

cpVars == <<at, left, holding, q, busQ, lineNo, listed, reset>>

-----------------------------------------------------------------------------
(* Neighbours.                                                             *)

With(label) == {v \in Vertex : label \in Labels[v]}
neighborIDs(s, ls) == {e.dst : e \in {x \in Link : x.label \in ls /\ x.src = s}}
                        \cup {e.src : e \in {x \in Link : x.label \in ls /\ x.dst = s}}

\* An edge is visited from its source as an out edge and from its destination as an in edge; the
\* edges between two vertices, of one direction or of both, are visited one by one.
Visit == Link \X {"out", "in"}
Near(x) == IF x[2] = "out" THEN x[1].src ELSE x[1].dst
Far(x) == IF x[2] = "out" THEN x[1].dst ELSE x[1].src

-----------------------------------------------------------------------------
(* The stages: the subset they map, the edges they follow, the label that  *)
(* a target needs to be written and, if only, to be returned.              *)

Stage(from, ls, needs, only, what) ==
    [from |-> from, ls |-> ls, needs |-> needs, only |-> only, what |-> what]
Hop(from, ls) == Stage({from}, ls, "", FALSE, "q")

B == {"connected_Breaker_CN"}
D == {"connected_Disconnector_CN"}
Dots == "ACline_dot"

vCP1 ==
    {t \in UNION {neighborIDs(s, {"topo_compensatorP"}) : s \in With("TopoND")} : "C_P" \in Labels[t]}

\* vCN1, vBD, vCN2, vD4, vCN8, vACLineDot1, vACLineDot2
LineStages ==
    << Stage({}, {"connected_Compensator_P_CN"}, "CN", TRUE, "meas"),
       Hop(1, B \cup D), Hop(2, B \cup D), Hop(3, D), Hop(4, D),
       Stage({3, 5}, {"aclinedot_cn"}, Dots, FALSE, "q"),
       Stage({6}, {"aclinedot_aclinedot", "aclinedot_aclinedot_reverse"}, Dots, TRUE, "out") >>

\* vD1, vCN3, vB1, vCN4, vD2, vCN5, vB2, vCN6, vD3, vCN7
SwitchStages ==
    << Hop(1, D), Hop(8, D), Hop(9, B), Hop(10, B), Hop(11, D), Hop(12, D),
       Hop(1, B), Hop(14, B), Hop(15, D), Hop(16, D) >>

\* vBus1, vBus2, vTPND3, vTPND4
BusStages ==
    << Stage({13}, {"connected_Bus_CN"}, "BUS", FALSE, "q"),
       Stage({17}, {"connected_Bus_CN"}, "BUS", FALSE, "q"),
       Stage({18}, {"topo_bus"}, "TopoND", TRUE, "bus"),
       Stage({19}, {"topo_bus"}, "TopoND", TRUE, "bus") >>

\* Mutant: the second lists are made before their lines are counted.
LineNoStagesSwapped ==
    << Stage({6}, {"topo_aclinedot"}, "TopoND", TRUE, "list1"),
       Stage({7}, {"topo_aclinedot"}, "TopoND", TRUE, "list2"),
       Stage({6}, {"topo_aclinedot"}, "TopoND", TRUE, "count"),
       Stage({7}, {"topo_aclinedot"}, "TopoND", TRUE, "count") >>

\* vTPND1 twice, vTPND2 twice
LineNoStages ==
    << Stage({6}, {"topo_aclinedot"}, "TopoND", TRUE, "count"),
       Stage({6}, {"topo_aclinedot"}, "TopoND", TRUE, "list1"),
       Stage({7}, {"topo_aclinedot"}, "TopoND", TRUE, "count"),
       Stage({7}, {"topo_aclinedot"}, "TopoND", TRUE, "list2") >>

Stages == LineStages \o SwitchStages \o BusStages \o LineNoStages
vTPND1 == 23
vTPND2 == 25

\* The edges a task follows from its vertex, and the target each gives.  vACLineDot2 takes out
\* edges only.  The lists are kept at getDstID of out edges and of in edges alike, and the destination
\* of an in edge is the vertex itself.
Follows(st, s) ==
    {x \in Visit : x[1].label \in st.ls /\ Near(x) = s /\ (st.what = "out" => x[2] = "out")}
LeadsTo(st, x) == IF st.what \in {"list1", "list2"} THEN x[1].dst ELSE Far(x)
Targets(st, s) == {LeadsTo(st, x) : x \in Follows(st, s)}

Wanted(st, t) == st.needs = "" \/ st.needs \in Labels[t]

\* What a stage maps, given the vertices of the earlier stages it starts from.
Sources(st, earlier) ==
    LET all == IF st.from = {} THEN vCP1 ELSE earlier
    IN  IF st.what = "bus" THEN all \cap HighVolt ELSE all

\* What it returns.
Subset[i \in 1 .. Len(Stages)] ==
    LET st == Stages[i]
        found == UNION {Targets(st, s) : s \in Sources(st, UNION {Subset[j] : j \in st.from})}
    IN  {t \in found : st.only => Wanted(st, t)}

\* What its tasks write.
Writes(i) ==
    LET st == Stages[i]
    IN  IF i > Len(Stages) THEN {}
        ELSE UNION {{[s |-> s, t |-> LeadsTo(st, x), via |-> x] :
                        x \in {y \in Follows(st, s) : Wanted(st, LeadsTo(st, y))}} :
                       s \in Sources(st, UNION {Subset[j] : j \in st.from})}

-----------------------------------------------------------------------------
(* writeDouble.  The conversion of a NaN is undefined: MinBits on x86, 0   *)
(* on ARM.                                                                 *)

Truncated(bits) == IF bits >= 0 \/ bits = MinBits THEN {0} ELSE {MinBits, 0}

\* std::abs(x / 100): a denormal stays one or becomes 0.0, a NaN stays a NaN.
AbsHundredth(bits) == IF bits >= 0 THEN bits \div 100 ELSE IF bits = MinBits THEN 0 ELSE -1

CpInit ==
    /\ at = 1
    /\ left = Writes(1)
    /\ holding = {}
    /\ q = [v \in Vertex |-> 0]
    /\ busQ = [v \in Vertex |-> 0]
    /\ lineNo = [v \in Vertex |-> 0]
    /\ listed = [v \in Vertex |-> <<>>]
    /\ reset = {}

\* A task reads the value of its own vertex.
ReadOwn(w) ==
    /\ w \in left
    /\ left' = left \ {w}
    /\ \E bits \in CASE Stages[at].what = "meas" -> {Qimeas[w.s]}
                     [] Stages[at].what \in {"q", "out"} -> Truncated(q[w.s])
                     [] Stages[at].what = "bus" -> Truncated(AbsHundredth(q[w.s]))
                     [] OTHER -> {q[w.s]} :
           holding' = holding \cup {[s |-> w.s, t |-> w.t, via |-> w.via, bits |-> bits]}
    /\ UNCHANGED <<at, q, busQ, lineNo, listed, reset>>

\* It writes the target's.
WriteQimeas(h) ==
    /\ Stages[at].what \in {"meas", "q", "out"}
    /\ q' = [q EXCEPT ![h.t] = h.bits]
    /\ UNCHANGED <<busQ, lineNo, listed>>

WriteBusQMeas(h) ==
    /\ Stages[at].what = "bus"
    /\ busQ' = [busQ EXCEPT ![h.t] = h.bits]
    /\ UNCHANGED <<q, lineNo, listed>>

CountLine(h) ==
    /\ Stages[at].what = "count"
    /\ lineNo' = [lineNo EXCEPT ![h.t] = @ + 1]
    /\ UNCHANGED <<q, busQ, listed>>

\* Under spinLock: the name and the value go to their lists together.
ListLine(h) ==
    /\ Stages[at].what \in {"list1", "list2"}
    /\ listed' = [listed EXCEPT ![h.t] = Append(@,
                      IF Stages[at].what = "list1" THEN [name |-> h.s, num |-> AbsHundredth(h.bits), den |-> 1]
                      ELSE [name |-> h.s, num |-> busQ[h.t], den |-> lineNo[h.t]])]
    /\ UNCHANGED <<q, busQ, lineNo>>

WriteOther(h) ==
    /\ h \in holding
    /\ holding' = holding \ {h}
    /\ WriteQimeas(h) \/ WriteBusQMeas(h) \/ CountLine(h) \/ ListLine(h)
    /\ UNCHANGED <<at, left, reset>>

\* map returns when all its tasks are done.
NextStage ==
    /\ at <= Len(Stages)
    /\ left = {} /\ holding = {}
    /\ at' = at + 1
    /\ left' = Writes(at + 1)
    /\ UNCHANGED <<holding, q, busQ, lineNo, listed, reset>>

\* The loops over topo_connect edges of the memory graph: from vTPND1 and vTPND2 with the lists,
\* from all TopoND with the values.
TopoConnectOut(S) ==
    {e \in Link : e.label = "topo_connect" /\ e.src \in S /\ "TopoND" \in Labels[e.dst]}

ResetEdges ==
    /\ at = Len(Stages) + 1
    /\ at' = at + 1
    /\ reset' = (TopoConnectOut(Subset[vTPND1] \cup Subset[vTPND2]) \X {"lists"})
                    \cup (TopoConnectOut(With("TopoND")) \X {"values"})
    /\ UNCHANGED <<left, holding, q, busQ, lineNo, listed>>

CpNext ==
    \/ \E w \in left : ReadOwn(w)
    \/ \E h \in holding : WriteOther(h)
    \/ NextStage
    \/ ResetEdges

-----------------------------------------------------------------------------
vars == <<connectVars, cpVars>>

Init == ConnectInit /\ CpInit

Next ==
    \/ ConnectNext /\ UNCHANGED cpVars
    \/ stage = "connected" /\ CpNext /\ UNCHANGED connectVars

Spec == Init /\ [][Next]_vars

-----------------------------------------------------------------------------
\* The topo_aclinedot edges between a TopoND and the line ends that stage i returned.
AclineEdges(n, i) ==
    {e \in Link : /\ e.label = "topo_aclinedot"
                  /\ (e.src = n /\ e.dst \in Subset[i]) \/ (e.dst = n /\ e.src \in Subset[i])}

\* sumBusQMeas / sumLineNo (NetworkTopoProcedure.cpp:1703) never divides by 0: a TopoND that gets
\* a list entry for a line was counted by an earlier stage, which follows edges in both directions.
\* After the counting stages a TopoND has counted each edge to a line end of the two subsets, parallel
\* ones one by one, in whatever order the tasks of one stage add, and has no more list entries.
LinesCounted ==
    /\ \A v \in Vertex : \A i \in DOMAIN listed[v] : listed[v][i].den > 0
    /\ at > Len(Stages) => \A n \in With("TopoND") :
            /\ lineNo[n] = Cardinality(AclineEdges(n, 6)) + Cardinality(AclineEdges(n, 7))
            /\ Len(listed[n]) <= lineNo[n]

=============================================================================
