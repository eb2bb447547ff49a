------------------------------ MODULE TopoSelect ------------------------------
(***************************************************************************)
(* The selection that follows the switch positions in                      *)
(* NetworkTopoAlgorithm::run (NetworkTopoProcedure.cpp lines 180-239):     *)
(* selectSub, the first frontier cnOpenSub of the merge loop, and          *)
(* miscellaneous, the devices that seed it.  The maps only read the memory *)
(* graph, so each is one step.                                             *)
(***************************************************************************)
EXTENDS SwitchPoints, FiniteSets

CONSTANTS
    Vertex,        \* vertices that take part in the selection
    A11,           \* those labelled Substation
    MayJoin        \* edges the graph may have: label, source, destination

ConnectedSub == {"connected_Sub_Bus", "connected_Sub_Load", "connected_Sub_Unit",
                 "connected_Sub_Trans_two", "connected_Sub_Aclinedot", "connected_Sub_Trans_three",
                 "connected_Sub_Compensator_P"}
DeviceLabels == ConnectedSub \cup {"connected_Sub_Compensator_S"}

ASSUME SelectionAssumption ==
    /\ A11 \subseteq Vertex
    /\ MayJoin \subseteq (DeviceLabels \cup {"cn_subid"}) \X Vertex \X Vertex

VARIABLES
    joined,         \* the edges of the memory graph (input)
    off,            \* the property off of each vertex: <<n>>, or <<>> when no integer (input)
    selectSub, cnOpenSub, miscellaneous     \* the subsets

selection == <<selectSub, cnOpenSub, miscellaneous>>
selectVars == <<pointVars, joined, off, selection>>
-----------------------------------------------------------------------------
(* off.isInt64() && off.getInt64() == 0 *)
On(t) == off[t] = <<0>>

outNeighborIDs(s, labels) == {e[3] : e \in {x \in joined : x[1] \in labels /\ x[2] = s}}
neighborIDs(s, labels) ==
    outNeighborIDs(s, labels) \cup {e[2] : e \in {x \in joined : x[1] \in labels /\ x[3] = s}}

SelectInit ==
    /\ PointsInit
    /\ joined \in SUBSET MayJoin
    /\ off \in [Vertex -> {<<>>, <<0>>, <<1>>}]
    /\ selectSub = {} /\ cnOpenSub = {} /\ miscellaneous = {}

SelectSub ==
    /\ stage = 3
    /\ selectSub' = UNION {{t \in outNeighborIDs(s, ConnectedSub) : On(t)} : s \in A11}
    /\ stage' = 4
    /\ UNCHANGED <<disc, graphPoint, written, point, unread, joined, off, cnOpenSub, miscellaneous>>

OpenCNs ==
    /\ stage = 4
    /\ cnOpenSub' = UNION {neighborIDs(s, {"cn_subid"}) : s \in selectSub}
    /\ stage' = 5
    /\ UNCHANGED <<disc, graphPoint, written, point, unread, joined, off, selectSub, miscellaneous>>

SelectDevices ==
    /\ stage = 5
    /\ miscellaneous' = UNION {{t \in outNeighborIDs(s, DeviceLabels) : On(t)} : s \in selectSub}
    /\ stage' = 6
    /\ UNCHANGED <<disc, graphPoint, written, point, unread, joined, off, selectSub, cnOpenSub>>

SelectNext ==
    \/ PointsNext /\ UNCHANGED <<joined, off, selection>>
    \/ SelectSub
    \/ OpenCNs
    \/ SelectDevices

SelectSpec == SelectInit /\ [][SelectNext]_selectVars
=============================================================================
