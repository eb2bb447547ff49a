------------------------------ MODULE TopoBuild ------------------------------
(***************************************************************************)
(* The stages of NetworkTopoAlgorithm::run around the merge loop           *)
(* (NetworkTopoProcedure.cpp): seeding the connectivity nodes and devices  *)
(* with node numbers (lines 240-265), and, after the merge, giving each    *)
(* device the topology id of its CN and inserting the TopoND nodes and the *)
(* edges to substations and components (lines 310-482).                    *)
(*                                                                         *)
(* TopoPropagation is the merge loop itself.  Here it is one step that may *)
(* raise the ids of CNs and lower none: its only write to them is writeMax.*)
(* insertNode and insertEdge write the graph on disk, which no stage of    *)
(* the run reads.                                                          *)
(***************************************************************************)
EXTENDS Integers, FiniteSets, SplitTasks, Words

CONSTANTS
    CN,             \* connectivity nodes
    Device,         \* buses, loads, units, transformers, line ends, compensators
    At,             \* the edges between a CN and a device
    Kind,           \* the typename of each device
    Misc,           \* devices of the subset miscellaneous (TopoSelect)
    Numbers,        \* values of the property nd, and of ids after the merge
    Neutral,        \* neutral points: [mid : middle_point, off : the offs' sum]
    SubsOf,         \* the substations of each CN (cn_subid)
    CNid            \* the property CN_id of each CN

DeviceKind == {"Bus", "Load", "Unit", "Compensator_P", "Compensator_S",
               "two_port_transformer", "three_port_transformer", "AClinedot"}

ASSUME StationAssumption ==
    /\ At \subseteq CN \X Device
    /\ Kind \in [Device -> DeviceKind]
    /\ Misc \subseteq Device
    /\ Numbers \subseteq Word /\ \A v \in Numbers : v >= 0
    /\ Neutral \subseteq [mid : Int, off : 0 .. 3]
    /\ CNid \in [CN -> Int]

VARIABLES
    nd,         \* the property nd of each device (input, never assigned)
    cnId,       \* state(cn).maxTopoID
    devId,      \* state(device).maxTopoID
    topoID,     \* state(device).topoID
    phase,      \* the stage that is running
    todo,       \* pairs of a CN and a device the running map has yet to handle
    writing,    \* pairs that were found unequal, before the write
    topoND,     \* the ids of the TopoND nodes inserted
    edges       \* the edges inserted: label, topology id, target

vars == <<nd, cnId, devId, topoID, phase, todo, writing, topoND, edges>>

(* The result of the seeding map: the CNs next to a selected device. *)
cnTotal == {c \in CN : \E t \in Misc : <<c, t>> \in At}

(* The pairs of the two building maps, by the labels they follow. *)
BuildKinds == DeviceKind \ {"Unit", "Compensator_S"}
PairsOf(kinds) == {e \in At : e[1] \in cnTotal /\ Kind[e[2]] \in kinds}
-----------------------------------------------------------------------------
Init ==
    /\ nd \in [Device -> Numbers]
    /\ cnId = [c \in CN |-> -1]
    /\ devId = [t \in Device |-> -1]
    /\ topoID = [t \in Device |-> -1]
    /\ phase = "seed"
    /\ todo = {e \in At : e[2] \in Misc}
    /\ writing = {}
    /\ topoND = {}
    /\ edges = {}

(* A task of the seeding map: writeMax of nd to the CN and to the device.  *)
(* The two writes are to fields no task reads here, so they are one step.  *)
Seed(c, t) ==
    /\ phase = "seed"
    /\ <<c, t>> \in todo
    /\ cnId' = [cnId EXCEPT ![c] = Larger(@, nd[t])]
    /\ devId' = [devId EXCEPT ![t] = Larger(@, nd[t])]
    /\ todo' = todo \ {<<c, t>>}
    /\ UNCHANGED <<nd, topoID, phase, writing, topoND, edges>>

(* The merge loop. *)
Merge ==
    /\ phase = "seed"
    /\ todo = {}
    /\ \E ids \in [CN -> Numbers \cup {-1}] :
          /\ \A c \in CN : ids[c] >= cnId[c]
          /\ cnId' = ids
    /\ todo' = PairsOf(BuildKinds)
    /\ phase' = "build"
    /\ UNCHANGED <<nd, devId, topoID, writing, topoND, edges>>

(* Tasks of the building maps, one CN at a time each. *)
MayHandle(c, t) ==
    /\ phase \in {"build", "unit"}
    /\ <<c, t>> \in todo
    /\ \A e \in writing : e[1] # c
    /\ Cardinality(writing) < NumTasks(Cardinality(cnTotal))

(* Equal ids: the CN's id becomes a TopoND. *)
SameId(c, t) ==
    /\ MayHandle(c, t)
    /\ devId[t] = cnId[c]
    /\ topoND' = topoND \cup {cnId[c]}
    /\ todo' = todo \ {<<c, t>>}
    /\ UNCHANGED <<nd, cnId, devId, topoID, phase, writing, edges>>

(* Unequal ids: the device will get that of the CN. *)
OtherId(c, t) ==
    /\ MayHandle(c, t)
    /\ devId[t] # cnId[c]
    /\ writing' = writing \cup {<<c, t>>}
    /\ todo' = todo \ {<<c, t>>}
    /\ UNCHANGED <<nd, cnId, devId, topoID, phase, topoND, edges>>

WriteId(c, t) ==
    /\ <<c, t>> \in writing
    /\ devId' = [devId EXCEPT ![t] = cnId[c]]
    /\ writing' = writing \ {<<c, t>>}
    /\ UNCHANGED <<nd, cnId, topoID, phase, todo, topoND, edges>>

(* buildTP.forEach: each device that was reached copies its own id, so     *)
(* that the order of the tasks does not matter.                            *)
Copied(kinds) ==
    [t \in Device |-> IF \E c \in CN : <<c, t>> \in PairsOf(kinds)
                      THEN devId[t] ELSE topoID[t]]

(* Mutant: the second map starts while the first one is still writing. *)
BuiltEarly ==
    /\ phase = "build"
    /\ todo = {}
    /\ topoID' = Copied(BuildKinds)
    /\ todo' = PairsOf({"Unit"})
    /\ phase' = "unit"
    /\ UNCHANGED <<nd, cnId, devId, writing, topoND, edges>>

(* Mutant: a second map that follows no label. *)
BuiltNoUnits ==
    /\ phase = "build"
    /\ todo = {} /\ writing = {}
    /\ topoID' = Copied(BuildKinds)
    /\ todo' = {}
    /\ phase' = "unit"
    /\ UNCHANGED <<nd, cnId, devId, writing, topoND, edges>>

Built ==
    /\ phase = "build"
    /\ todo = {} /\ writing = {}
    /\ topoID' = Copied(BuildKinds)
    /\ todo' = PairsOf({"Unit"})
    /\ phase' = "unit"
    /\ UNCHANGED <<nd, cnId, devId, writing, topoND, edges>>

UnitsBuilt ==
    /\ phase = "unit"
    /\ todo = {} /\ writing = {}
    /\ topoID' = Copied({"Unit"})
    /\ phase' = "neutral"
    /\ UNCHANGED <<nd, cnId, devId, todo, writing, topoND, edges>>

(* The three maps that remain only insert, each from data that no task     *)
(* writes any more.  A neutral point with two ports or more in service     *)
(* becomes a TopoND.                                                       *)
NeutralNodes ==
    /\ phase = "neutral"
    /\ LET used == {p.mid : p \in {q \in Neutral : q.off <= 1}} IN
        /\ topoND' = topoND \cup used
        /\ edges' = edges \cup {<<"topo_neutral", m, m>> : m \in used}
    /\ phase' = "sub"
    /\ UNCHANGED <<nd, cnId, devId, topoID, todo, writing>>

SubEdges ==
    /\ phase = "sub"
    /\ edges' = edges \cup
          UNION {{<<"topoid_subid", cnId[c], s>> : s \in SubsOf[c]} :
                    c \in {d \in cnTotal : cnId[d] # 0 /\ cnId[d] # CNid[d]}}
    /\ phase' = "component"
    /\ UNCHANGED <<nd, cnId, devId, topoID, todo, writing, topoND>>

ComponentEdges ==
    /\ phase = "component"
    /\ edges' = edges \cup
          {<<Kind[e[2]], cnId[e[1]], e[2]>> :
              e \in {x \in PairsOf(DeviceKind \ {"Compensator_S"}) : cnId[x[1]] # 0}}
    /\ phase' = "done"
    /\ UNCHANGED <<nd, cnId, devId, topoID, todo, writing, topoND>>

Next ==
    \/ Merge \/ Built \/ UnitsBuilt \/ NeutralNodes \/ SubEdges \/ ComponentEdges
    \/ \E c \in CN, t \in Device :
          Seed(c, t) \/ SameId(c, t) \/ OtherId(c, t) \/ WriteId(c, t)

Spec == Init /\ [][Next]_vars
-----------------------------------------------------------------------------
(* Seeding does not depend on the schedule: a CN gets the largest number   *)
(* of its selected devices and a device its own, in whatever order the     *)
(* tasks write.                                                            *)
SeedsAreLargest ==
    (phase = "seed" /\ todo = {}) =>
        /\ \A c \in cnTotal :
              /\ \E t \in Misc : <<c, t>> \in At /\ cnId[c] = nd[t]
              /\ \A t \in Misc : <<c, t>> \in At => cnId[c] >= nd[t]
        /\ \A c \in CN \ cnTotal : cnId[c] = -1
        /\ \A e \in At : devId[e[2]] = IF e[2] \in Misc THEN nd[e[2]] ELSE -1

(* However the tasks race for a device with two CNs: when the run is over  *)
(* every device that the building maps reach has the id of one of its CNs, *)
(* in topoID and in maxTopoID alike.                                       *)
DeviceFollowsCN ==
    phase = "done" =>
        \A e \in PairsOf(DeviceKind \ {"Compensator_S"}) :
            /\ topoID[e[2]] = devId[e[2]]
            /\ \E c \in cnTotal : <<c, e[2]>> \in At /\ topoID[e[2]] = cnId[c]

(* An island that is named after one of its own devices: a selected device *)
(* that is built, at this CN alone, has the number that is the CN's id.    *)
Anchored(id) ==
    \E e \in PairsOf(DeviceKind \ {"Compensator_S"}) :
        /\ e[2] \in Misc
        /\ \A x \in At : x[2] = e[2] => x = e
        /\ nd[e[2]] = id
        /\ cnId[e[1]] = id

(* No edge to a component hangs in the air: the topology id of an anchored *)
(* island has its TopoND by the time edges from it are inserted, however   *)
(* the tasks race for the devices that islands share.                      *)
EdgesHaveNodes ==
    \A x \in edges :
        (x[1] \in DeviceKind /\ Anchored(x[2])) => x[2] \in topoND
=============================================================================
