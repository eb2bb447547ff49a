----------------------------- MODULE SwitchPoints -----------------------------
(***************************************************************************)
(* The first stages of NetworkTopoAlgorithm::run (NetworkTopoProcedure.cpp *)
(* lines 95-178): the positions of breakers, then of disconnectors, are    *)
(* taken over from the discrete measurements that are flagged as updated.  *)
(* Several measurements of one switch are written by different tasks; the  *)
(* last one stays.  A few switches have a position fixed by their name;    *)
(* each of the two stages has names of its own, and a switch that both     *)
(* reach keeps what the second one gives it.                               *)
(***************************************************************************)
EXTENDS Integers

CONSTANTS
    Discrete,       \* vertices labelled discrete
    Switch,         \* breakers and disconnectors
    Edge,           \* discrete_breaker and discrete_dis: label, discrete, switch
    ForcedOn,       \* by stage, the switches whose name is in its names: point 1
    ForcedOff       \* by stage, those with its other special name: point 0

Stages == <<"discrete_breaker", "discrete_dis">>
Label == {"discrete_breaker", "discrete_dis"}

ASSUME MeasurementAssumption ==
    /\ Edge \subseteq Label \X Discrete \X Switch
    /\ ForcedOn \in [Label -> SUBSET Switch]
    /\ ForcedOff \in [Label -> SUBSET Switch]

VARIABLES
    disc,           \* the properties of each discrete (input)
    graphPoint,     \* the property point of each switch in the memory graph
    written,        \* state(t).breakerPoint in stage 1, disPoint in stage 2
    point,          \* state(t).point
    stage,          \* 1 and 2, then 3 when the merge may begin
    unread            \* edges the running map has yet to handle

pointVars == <<disc, graphPoint, written, point, stage, unread>>

Flagged(label) == {e \in Edge : e[1] = label /\ disc[e[2]].updateFlag = 1}

(* delta: the manual status when flagM is set. *)
Delta(d) == IF disc[d].flagM = 1 THEN disc[d].statusM ELSE disc[d].status

PointsInit ==
    /\ disc \in [Discrete -> [updateFlag : {0, 1}, flagM : {0, 1},
                              statusM : {0, 1}, status : {0, 1}]]
    /\ graphPoint \in [Switch -> {0, 1}]
    /\ written = [s \in Switch |-> 0]
    /\ point = [s \in Switch |-> -1]
    /\ stage = 1
    /\ unread = Flagged("discrete_breaker")

(* write(&state(t).breakerPoint, delta), or disPoint. *)
WriteDelta(e) ==
    /\ stage \in {1, 2}
    /\ e \in unread
    /\ written' = [written EXCEPT ![e[3]] = Delta(e[2])]
    /\ unread' = unread \ {e}
    /\ UNCHANGED <<disc, graphPoint, point, stage>>

(* breakerSet.forEach, disSet.forEach: each switch that was reached takes  *)
(* its own position.  The next stage writes a field of its own, still 0.   *)
Reached == {s \in Switch : \E e \in Flagged(Stages[stage]) : e[3] = s}
(* Mutant: the names of the first stage count in the second one, too. *)
PositionByFirstNames(s) ==
    IF s \in ForcedOn["discrete_breaker"] THEN 1
    ELSE IF s \in ForcedOff["discrete_breaker"] THEN 0
    ELSE written[s]

Position(s) ==
    IF s \in ForcedOn[Stages[stage]] THEN 1
    ELSE IF s \in ForcedOff[Stages[stage]] THEN 0
    ELSE written[s]

(* Mutant: positions taken over while tasks are still writing. *)
TakePositionsEarly ==
    /\ stage \in {1, 2}
    /\ point' = [s \in Switch |-> IF s \in Reached THEN Position(s) ELSE point[s]]
    /\ written' = [s \in Switch |-> 0]
    /\ stage' = stage + 1
    /\ unread' = IF stage = 1 THEN Flagged("discrete_dis") ELSE {}
    /\ UNCHANGED <<disc, graphPoint>>

TakePositions ==
    /\ stage \in {1, 2}
    /\ unread = {}
    /\ point' = [s \in Switch |-> IF s \in Reached THEN Position(s) ELSE point[s]]
    /\ written' = [s \in Switch |-> 0]
    /\ stage' = stage + 1
    /\ unread' = IF stage = 1 THEN Flagged("discrete_dis") ELSE {}
    /\ UNCHANGED <<disc, graphPoint>>

PointsNext == TakePositions \/ \E e \in Edge : WriteDelta(e)

PointsSpec == PointsInit /\ [][PointsNext]_pointVars
-----------------------------------------------------------------------------
(* The last stage that reaches a switch, and its edges, decide. *)
Last(s) ==
    IF \E e \in Flagged("discrete_dis") : e[3] = s THEN "discrete_dis"
    ELSE "discrete_breaker"
Deciding(s) == {e \in Flagged(Last(s)) : e[3] = s}

(* When the stages are over: a switch with no flagged measurement has no   *)
(* position.  One that the deciding stage knows by name has its fixed one, *)
(* and no name of the other stage keeps it from that; any other has the    *)
(* position of one of the measurements that decide it, so that those that  *)
(* agree settle it whatever order the tasks write in.                      *)
PositionsMeasured ==
    stage > 2 =>
        \A s \in Switch :
            IF Deciding(s) = {} THEN point[s] = -1
            ELSE IF s \in ForcedOn[Last(s)] THEN point[s] = 1
            ELSE IF s \in ForcedOff[Last(s)] THEN point[s] = 0
            ELSE \E e \in Deciding(s) : point[s] = Delta(e[2])

(* What the TODOs at the two assignments of point ask for: "in-place       *)
(* update in the memory graph".  The merge loop decides by the property    *)
(* point whether a switch is closed, so when it begins the property should *)
(* be the position that was just taken over.                               *)
PositionsInEffect ==
    stage > 2 =>
        \A s \in Switch : point[s] # -1 => graphPoint[s] = point[s]
=============================================================================
