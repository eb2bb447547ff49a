-------------------------- MODULE TopoSelectProofs ---------------------------
(***************************************************************************)
(* Proofs about the first stages of the run, the positions of switches     *)
(* (SwitchPoints) and the selection that follows (TopoSelect), for every   *)
(* set of measurements, switches and edges.                                *)
(***************************************************************************)
EXTENDS TopoSelect, TLAPS

Measurements ==
    [Discrete -> [updateFlag : {0, 1}, flagM : {0, 1}, statusM : {0, 1}, status : {0, 1}]]

TypeOK ==
    /\ disc \in Measurements
    /\ written \in [Switch -> Int]
    /\ point \in [Switch -> Int]
    /\ stage \in 1 .. 6

(* What a running stage has written comes from a flagged edge of it. *)
WrittenInv(label) ==
    /\ unread \subseteq Flagged(label)
    /\ \A e \in Flagged(label) \ unread :
          \E x \in Flagged(label) : x[3] = e[3] /\ written[e[3]] = Delta(x[2])

Reaching(label, s) == {e \in Flagged(label) : e[3] = s}

(* The position of a switch that a stage decides. *)
Measured(s, label) ==
    IF Reaching(label, s) = {} THEN point[s] = -1
    ELSE IF s \in ForcedOn[label] THEN point[s] = 1
    ELSE IF s \in ForcedOff[label] THEN point[s] = 0
    ELSE \E e \in Reaching(label, s) : point[s] = Delta(e[2])

PositionInv ==
    /\ stage = 1 => WrittenInv("discrete_breaker") /\ \A s \in Switch : point[s] = -1
    /\ stage = 2 =>
          /\ WrittenInv("discrete_dis")
          /\ \A s \in Switch : Measured(s, "discrete_breaker")
    /\ stage > 2 => \A s \in Switch : Measured(s, Last(s))

-----------------------------------------------------------------------------
LEMMA TypeInit == PointsInit => TypeOK
  BY DEF PointsInit, TypeOK, Measurements

LEMMA DeltaType ==
    ASSUME disc \in Measurements, NEW d \in Discrete
    PROVE  Delta(d) \in Int
  BY DEF Delta, Measurements

LEMMA PositionInit == PointsInit => PositionInv
  BY MeasurementAssumption DEF PointsInit, PositionInv, WrittenInv

(* A task writes: the switch has the value of this edge. *)
LEMMA WriteKeeps ==
    ASSUME NEW label, WrittenInv(label), NEW e \in Edge, WriteDelta(e),
           written = [s \in Switch |-> written[s]]
    PROVE  WrittenInv(label)'
<1>1. disc' = disc /\ Flagged(label)' = Flagged(label) /\ \A d : Delta(d)' = Delta(d)
  BY DEF WriteDelta, Flagged, Delta
<1>2. e \in Flagged(label) /\ e[3] \in Switch
  BY MeasurementAssumption DEF WriteDelta, WrittenInv
<1>3. /\ unread' = unread \ {e} /\ written'[e[3]] = Delta(e[2])
      /\ \A s \in Switch \ {e[3]} : written'[s] = written[s]
  BY <1>2 DEF WriteDelta
<1>4. ASSUME NEW f \in Flagged(label) \ unread'
      PROVE  \E x \in Flagged(label) : x[3] = f[3] /\ written'[f[3]] = Delta(x[2])
  <2>1. CASE f[3] = e[3]
    BY <1>2, <1>3, <2>1
  <2>2. CASE f[3] # e[3]
    <3>1. f \in Flagged(label) \ unread /\ f[3] \in Switch
      BY <1>3, <1>4, <2>2, MeasurementAssumption DEF Flagged
    <3>2. PICK x \in Flagged(label) : x[3] = f[3] /\ written[f[3]] = Delta(x[2])
      BY <3>1 DEF WrittenInv
    <3> QED BY <1>3, <2>2, <3>1, <3>2
  <2> QED BY <2>1, <2>2
<1> QED BY <1>1, <1>3, <1>4 DEF WrittenInv

(* The end of a stage: what the switches it reached take over. *)
LEMMA TakenOver ==
    ASSUME NEW label, WrittenInv(label), unread = {}, stage \in {1, 2}, label = Stages[stage],
           TakePositions, NEW s \in Switch
    PROVE  /\ Reaching(label, s) # {} => Measured(s, label)'
           /\ Reaching(label, s) = {} => point'[s] = point[s]
<1>1. /\ disc' = disc /\ Flagged(label)' = Flagged(label) /\ \A d : Delta(d)' = Delta(d)
      /\ Reaching(label, s)' = Reaching(label, s)
  BY DEF TakePositions, Flagged, Delta, Reaching
<1>2. point'[s] = IF Reaching(label, s) # {} THEN Position(s) ELSE point[s]
  BY DEF TakePositions, Reached, Reaching
<1>3. Reaching(label, s) # {} => \E e \in Reaching(label, s) : written[s] = Delta(e[2])
  BY DEF WrittenInv, Reaching
<1> QED BY <1>1, <1>2, <1>3 DEF Measured, Position

LEMMA PositionNext ==
    TypeOK /\ PositionInv /\ PointsNext => TypeOK' /\ PositionInv'
<1> SUFFICES ASSUME TypeOK, PositionInv, PointsNext
             PROVE  TypeOK' /\ PositionInv'
  OBVIOUS
<1>1. CASE TakePositions
  <2>1. /\ stage \in {1, 2} /\ stage' = stage + 1 /\ unread = {} /\ disc' = disc
        /\ unread' = (IF stage = 1 THEN Flagged("discrete_dis") ELSE {})
        /\ written' = [s \in Switch |-> 0]
        /\ \A label : Flagged(label)' = Flagged(label)
    BY <1>1 DEF TakePositions, Flagged
  <2>2. TypeOK'
    <3>1. \A s \in Switch : Position(s) \in Int
      BY DEF Position, TypeOK
    <3> QED BY <1>1, <2>1, <3>1 DEF TakePositions, TypeOK
  <2>3. CASE stage = 1
    <3>1. \A s \in Switch : Measured(s, "discrete_breaker")'
      <4> SUFFICES ASSUME NEW s \in Switch
                   PROVE  Measured(s, "discrete_breaker")'
        OBVIOUS
      <4>1. /\ Reaching("discrete_breaker", s) # {} => Measured(s, "discrete_breaker")'
            /\ Reaching("discrete_breaker", s) = {} => point'[s] = point[s]
        BY <1>1, <2>1, <2>3, TakenOver DEF PositionInv, Stages
      <4>2. Reaching("discrete_breaker", s)' = Reaching("discrete_breaker", s) /\ point[s] = -1
        BY <2>1, <2>3 DEF Reaching, PositionInv
      <4> QED BY <4>1, <4>2 DEF Measured
    <3>2. WrittenInv("discrete_dis")'
      BY <2>1, <2>3 DEF WrittenInv
    <3> QED BY <2>1, <2>2, <2>3, <3>1, <3>2 DEF PositionInv
  <2>4. CASE stage = 2
    <3>1. \A s \in Switch : Measured(s, Last(s))'
      <4> SUFFICES ASSUME NEW s \in Switch PROVE Measured(s, Last(s))'
        OBVIOUS
      <4>1. /\ Reaching("discrete_dis", s) # {} => Measured(s, "discrete_dis")'
            /\ Reaching("discrete_dis", s) = {} => point'[s] = point[s]
        BY <1>1, <2>1, <2>4, TakenOver DEF PositionInv, Stages
      <4>2. \A label : Reaching(label, s)' = Reaching(label, s)
        BY <2>1 DEF Reaching
      <4>3. Last(s)' = IF Reaching("discrete_dis", s) # {} THEN "discrete_dis" ELSE "discrete_breaker"
        BY <4>2 DEF Last, Reaching
      <4>4. Measured(s, "discrete_breaker") /\ \A d : Delta(d)' = Delta(d)
        BY <2>1, <2>4 DEF PositionInv, Delta
      <4> QED BY <4>1, <4>2, <4>3, <4>4 DEF Measured
    <3> QED BY <2>1, <2>2, <2>4, <3>1 DEF PositionInv
  <2> QED BY <2>1, <2>3, <2>4
<1>2. ASSUME NEW e \in Edge, WriteDelta(e) PROVE TypeOK' /\ PositionInv'
  <2>1. /\ stage \in {1, 2} /\ UNCHANGED <<disc, point, stage>>
        /\ \A label : Flagged(label)' = Flagged(label) /\ \A d : Delta(d)' = Delta(d)
    BY <1>2 DEF WriteDelta, Flagged, Delta
  <2>2. TypeOK'
    <3>1. Delta(e[2]) \in Int
      BY DeltaType, MeasurementAssumption DEF TypeOK
    <3> QED BY <1>2, <2>1, <3>1 DEF WriteDelta, TypeOK
  <2>3. \A label : WrittenInv(label) => WrittenInv(label)'
    BY <1>2, WriteKeeps DEF TypeOK
  <2>4. \A label, s : Reaching(label, s)' = Reaching(label, s)
    BY <2>1 DEF Reaching
  <2> QED BY <2>1, <2>2, <2>3, <2>4 DEF PositionInv, Measured
<1> QED BY <1>1, <1>2 DEF PointsNext

(* A step that leaves the measurements and the positions alone. *)
LEMMA PositionKept ==
    ASSUME TypeOK, PositionInv, UNCHANGED <<disc, written, point, unread>>,
           stage' = stage \/ (stage \in 3 .. 5 /\ stage' = stage + 1)
    PROVE  TypeOK' /\ PositionInv'
<1>1. /\ \A label : Flagged(label)' = Flagged(label)
      /\ \A d : Delta(d)' = Delta(d)
      /\ \A label, s : Reaching(label, s)' = Reaching(label, s)
      /\ \A s : Last(s)' = Last(s)
  BY DEF Flagged, Delta, Reaching, Last
<1>2. /\ \A label : WrittenInv(label) => WrittenInv(label)'
      /\ \A s, label : Measured(s, label) => Measured(s, label)'
      /\ \A s : Measured(s, Last(s)) => Measured(s, Last(s))'
  BY <1>1 DEF WrittenInv, Measured
<1>3. TypeOK'
  BY DEF TypeOK
<1> QED BY <1>1, <1>2, <1>3 DEF PositionInv, TypeOK

LEMMA PositionsSettled == PositionInv => PositionsMeasured
  BY DEF PositionInv, PositionsMeasured, Measured, Deciding, Reaching

(* The positions of SwitchPoints, whatever order the tasks write in: a     *)
(* switch takes the position one of its flagged measurements reports, the  *)
(* named ones their fixed one, and a switch nobody reports stays at -1.    *)
THEOREM Positions == PointsSpec => []PositionsMeasured
<1>1. PointsInit => TypeOK /\ PositionInv
  BY TypeInit, PositionInit
<1>2. TypeOK /\ PositionInv /\ [PointsNext]_pointVars => (TypeOK /\ PositionInv)'
  <2>1. TypeOK /\ PositionInv /\ UNCHANGED pointVars => TypeOK' /\ PositionInv'
    BY PositionKept DEF pointVars
  <2> QED BY <2>1, PositionNext
<1> QED BY <1>1, <1>2, PositionsSettled, PTL DEF PointsSpec
-----------------------------------------------------------------------------
LEMMA SelectNextKeeps ==
    TypeOK /\ PositionInv /\ [SelectNext]_selectVars => (TypeOK /\ PositionInv)'
<1> SUFFICES ASSUME TypeOK, PositionInv, [SelectNext]_selectVars
             PROVE  (TypeOK /\ PositionInv)'
  OBVIOUS
<1>1. CASE PointsNext /\ UNCHANGED <<joined, off, selection>>
  BY <1>1, PositionNext
<1>2. CASE SelectSub
  BY <1>2, PositionKept DEF SelectSub
<1>3. CASE OpenCNs
  BY <1>3, PositionKept DEF OpenCNs
<1>4. CASE SelectDevices
  BY <1>4, PositionKept DEF SelectDevices
<1>5. CASE UNCHANGED selectVars
  BY <1>5, PositionKept DEF selectVars, pointVars
<1> QED BY <1>1, <1>2, <1>3, <1>4, <1>5 DEF SelectNext

(* The same for the run that goes on with the selection. *)
THEOREM PositionsSelected == SelectSpec => []PositionsMeasured
<1>1. SelectInit => TypeOK /\ PositionInv
  BY TypeInit, PositionInit DEF SelectInit
<1> QED BY <1>1, SelectNextKeeps, PositionsSettled, PTL DEF SelectSpec
=============================================================================
