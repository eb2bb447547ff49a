----------------------------- MODULE MCTopoBuild -----------------------------
(***************************************************************************)
(* The run up to the component edges, in its order: the switch positions,  *)
(* the selection (TopoSelect), and, when the selection found the devices   *)
(* of TopoBuild, seeding and building.                                     *)
(*                                                                         *)
(* Two measurements of one breaker, one of which also measures the other   *)
(* switches.  The position of the second breaker is fixed by its name, but *)
(* a discrete_dis edge reaches it too; so is that of the disconnector.     *)
(*                                                                         *)
(* Two CNs.  A transformer hangs on both, a bus on the first and a unit on *)
(* the second; beside them a load that was not selected is built all the   *)
(* same, and a series compensator only seeds.                              *)
(***************************************************************************)
EXTENDS TopoBuild, TopoSelect

CONSTANTS d1, d2, brk, named, dis, c1, c2, bus, unit, tx, load, comp, sub

Discretes == {d1, d2}
Switches == {brk, named, dis}
Measured == {<<"discrete_breaker", d1, brk>>, <<"discrete_breaker", d2, brk>>,
             <<"discrete_breaker", d2, named>>, <<"discrete_dis", d2, named>>,
             <<"discrete_dis", d2, dis>>, <<"discrete_dis", d1, brk>>}
On1 == [l \in Label |-> IF l = "discrete_breaker" THEN {named} ELSE {}]
Off0 == [l \in Label |-> IF l = "discrete_dis" THEN {dis} ELSE {}]

CNs == {c1, c2}
Devices == {bus, unit, tx, load, comp}
AtCN == {<<c1, bus>>, <<c2, unit>>, <<c1, tx>>, <<c2, tx>>, <<c2, load>>,
         <<c1, comp>>}

KindOf(t) == CASE t = bus -> "Bus" [] t = unit -> "Unit"
               [] t = tx -> "two_port_transformer" [] t = load -> "Load"
               [] t = comp -> "Compensator_S"
Kinds == [t \in Devices |-> KindOf(t)]
Selected == Devices \ {load}

Ids == {0, 1, 2}
Neutrals == {[mid |-> 3, off |-> 1], [mid |-> 4, off |-> 2]}
Subs == [c \in CNs |-> {sub}]
Own == [c \in CNs |-> IF c = c1 THEN 1 ELSE 5]

(* The devices are found around selectSub: here the load leads to them. *)
Vertices == Devices \cup CNs \cup {sub}
Stations == {sub}
Joins == {<<"connected_Sub_Load", sub, load>>, <<"connected_Sub_Bus", load, bus>>,
          <<"connected_Sub_Unit", load, unit>>, <<"connected_Sub_Trans_two", load, tx>>,
          <<"connected_Sub_Compensator_S", load, comp>>,
          <<"cn_subid", c1, sub>>, <<"cn_subid", load, c2>>}

(* The stages do not read each other's inputs, so each set of inputs is    *)
(* combined with one value of the others.                                  *)
OneGraph == joined = Joins /\ off = [v \in Vertex |-> <<0>>]
OneMeasurement ==
    /\ disc = [d \in Discrete |-> [updateFlag |-> 1, flagM |-> 0, statusM |-> 0, status |-> 0]]
    /\ graphPoint = [s \in Switch |-> 0]
OneNumbering == nd = [t \in Device |-> 1]

SomeOff == {[v \in Vertices |-> IF v = load THEN x ELSE IF v = bus THEN y ELSE <<0>>] :
               x, y \in {<<>>, <<0>>, <<1>>}}

MCInit ==
    /\ \/ OneGraph /\ OneNumbering
       \/ off \in SomeOff /\ OneMeasurement /\ OneNumbering
       \/ OneGraph /\ OneMeasurement
    /\ Init /\ SelectInit

MCNext ==
    \/ SelectNext /\ UNCHANGED vars
    \/ stage = 6 /\ miscellaneous = Misc /\ Next /\ UNCHANGED selectVars

MCSpec == MCInit /\ [][MCNext]_<<vars, selectVars>>
=============================================================================
