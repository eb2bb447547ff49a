--------------------------- MODULE TopoBuildProofs ---------------------------
(***************************************************************************)
(* Proofs about the seeding and building stages of TopoBuild, for every    *)
(* station, every numbering, every outcome of the merge loop and every     *)
(* number of tasks.                                                        *)
(***************************************************************************)
EXTENDS TopoBuild, TLAPS

Later == {"neutral", "sub", "component", "done"}
BuiltKinds == DeviceKind \ {"Compensator_S"}

TypeOK ==
    /\ nd \in [Device -> Numbers]
    /\ cnId \in [CN -> Word]
    /\ devId \in [Device -> Word]
    /\ topoID \in [Device -> Word]
    /\ phase \in {"seed", "build", "unit"} \cup Later
    /\ todo \subseteq At
    /\ writing \subseteq At

(* While seeding: an id that was set is the number of a device that was    *)
(* handled, and no smaller than that of any other.                         *)
SeedInv ==
    phase = "seed" =>
        /\ writing = {}
        /\ todo \subseteq {e \in At : e[2] \in Misc}
        /\ \A c \in CN :
              \/ cnId[c] = -1
              \/ \E t \in Misc : <<c, t>> \in At \ todo /\ cnId[c] = nd[t]
        /\ \A c \in CN : \A t \in Misc : <<c, t>> \in At \ todo => cnId[c] >= nd[t]
        /\ \A t \in Device : devId[t] = -1 \/ (t \in Misc /\ devId[t] = nd[t])
        /\ \A e \in At \ todo : e[2] \in Misc => devId[e[2]] = nd[e[2]]

(* A device has the id of one of its CNs. *)
Follows(t) == \E c \in cnTotal : <<c, t>> \in At /\ devId[t] = cnId[c]

(* A map in progress: a pair that is not waiting leaves a device that has  *)
(* the id of one of its CNs or is about to get one.                        *)
MapInv(kinds) ==
    /\ todo \subseteq PairsOf(kinds)
    /\ writing \subseteq PairsOf(kinds)
    /\ \A e \in PairsOf(kinds) :
          e \in todo \/ (\E x \in writing : x[2] = e[2]) \/ Follows(e[2])

MapDone(kinds) ==
    \A e \in PairsOf(kinds) : Follows(e[2]) /\ topoID[e[2]] = devId[e[2]]

BuildInv ==
    /\ phase = "build" => MapInv(BuildKinds)
    /\ phase = "unit" => MapInv({"Unit"}) /\ MapDone(BuildKinds)
    /\ phase \in Later => writing = {} /\ MapDone(BuiltKinds)

(* A device that names the island of its only CN. *)
Anchor(e) ==
    /\ e \in PairsOf(BuiltKinds)
    /\ e[2] \in Misc
    /\ \A x \in At : x[2] = e[2] => x = e
    /\ nd[e[2]] = cnId[e[1]]

Pending(e) ==
    \/ phase = "build" /\ (Kind[e[2]] = "Unit" \/ e \in todo)
    \/ phase = "unit" /\ e \in todo

(* Nothing but its own CN writes to such a device, so that the test of     *)
(* equal ids succeeds when its pair is handled.                            *)
AnchorInv ==
    /\ phase # "seed" =>
          \A e \in At : Anchor(e) =>
              /\ devId[e[2]] = cnId[e[1]]
              /\ e \notin writing
              /\ Pending(e) \/ cnId[e[1]] \in topoND
    /\ \A x \in edges : x[1] \in DeviceKind => phase = "done"
-----------------------------------------------------------------------------
LEMMA TypeInit == Init => TypeOK
  BY HalfAssumption DEF Init, TypeOK, Word

LEMMA TypeNext == TypeOK /\ [Next]_vars => TypeOK'
<1> SUFFICES ASSUME TypeOK, [Next]_vars PROVE TypeOK'
  OBVIOUS
<1> USE DEF TypeOK, Later
<1>1. CASE Merge
  <2>1. Numbers \cup {-1} \subseteq Word
    BY StationAssumption, HalfAssumption DEF Word
  <2> QED BY <1>1, <2>1 DEF Merge, PairsOf
<1>2. CASE Built
  BY <1>2 DEF Built, Copied, PairsOf
<1>3. CASE UnitsBuilt
  BY <1>3 DEF UnitsBuilt, Copied
<1>4. CASE NeutralNodes
  BY <1>4 DEF NeutralNodes
<1>5. CASE SubEdges
  BY <1>5 DEF SubEdges
<1>6. CASE ComponentEdges
  BY <1>6 DEF ComponentEdges
<1>7. ASSUME NEW c \in CN, NEW t \in Device, Seed(c, t) PROVE TypeOK'
  <2>1. Larger(cnId[c], nd[t]) \in Word /\ Larger(devId[t], nd[t]) \in Word
    BY StationAssumption DEF Larger
  <2> QED BY <1>7, <2>1 DEF Seed
<1>8. ASSUME NEW c \in CN, NEW t \in Device, SameId(c, t) PROVE TypeOK'
  BY <1>8 DEF SameId
<1>9. ASSUME NEW c \in CN, NEW t \in Device, OtherId(c, t) PROVE TypeOK'
  BY <1>9 DEF OtherId, MayHandle
<1>10. ASSUME NEW c \in CN, NEW t \in Device, WriteId(c, t) PROVE TypeOK'
  BY <1>10 DEF WriteId
<1>11. CASE UNCHANGED vars
  BY <1>11 DEF vars
<1> QED
  BY <1>1, <1>2, <1>3, <1>4, <1>5, <1>6, <1>7, <1>8, <1>9, <1>10, <1>11 DEF Next

LEMMA TypeCorrect == Spec => []TypeOK
  BY TypeInit, TypeNext, PTL DEF Spec
-----------------------------------------------------------------------------
LEMMA SeedInvInit == Init => SeedInv
  BY DEF Init, SeedInv

(* A write of the seeding map. *)
LEMMA SeedInvSeed ==
    ASSUME TypeOK, SeedInv, NEW c \in CN, NEW t \in Device, Seed(c, t)
    PROVE  SeedInv'
<1> USE DEF TypeOK, SeedInv, Seed
<1>1. /\ phase = "seed" /\ <<c, t>> \in todo /\ t \in Misc
      /\ todo' = todo \ {<<c, t>>} /\ nd' = nd /\ writing' = {}
  OBVIOUS
<1>2. nd[t] \in Word /\ nd[t] >= 0
  BY StationAssumption
<1>3. /\ cnId'[c] = Larger(cnId[c], nd[t])
      /\ \A d \in CN \ {c} : cnId'[d] = cnId[d]
      /\ devId'[t] = Larger(devId[t], nd[t])
      /\ \A s \in Device \ {t} : devId'[s] = devId[s]
  OBVIOUS
<1>4. cnId'[c] >= nd[t] /\ cnId'[c] >= cnId[c] /\ cnId'[c] \in {cnId[c], nd[t]}
  BY <1>2, <1>3 DEF Larger, Word
<1>5. devId'[t] = nd[t]
  BY <1>2, <1>3 DEF Larger, Word
<1>6. ASSUME NEW d \in CN
      PROVE  \/ cnId'[d] = -1
             \/ \E s \in Misc : <<d, s>> \in At \ todo' /\ cnId'[d] = nd[s]
  <2>1. CASE d = c /\ cnId'[c] = nd[t]
    BY <1>1, <2>1
  <2>2. CASE cnId'[d] = cnId[d]
    <3>1. \/ cnId[d] = -1
          \/ \E s \in Misc : <<d, s>> \in At \ todo /\ cnId[d] = nd[s]
      BY <1>1, Zenon
    <3> QED BY ONLY <1>1, <2>2, <3>1, Zenon
  <2> QED BY <1>3, <1>4, <2>1, <2>2
<1>7. ASSUME NEW d \in CN, NEW s \in Misc, <<d, s>> \in At \ todo'
      PROVE  cnId'[d] >= nd[s]
  <2> USE StationAssumption
  <2>1. CASE d = c /\ s = t
    BY <1>4, <2>1
  <2>2. CASE ~(d = c /\ s = t)
    <3>1. <<d, s>> \in At \ todo
      BY <1>1, <1>7, <2>2
    <3>2. cnId[d] >= nd[s] /\ nd[s] \in Word /\ cnId[d] \in Word /\ cnId'[d] \in Word
      BY <1>1, <3>1, TypeNext DEF Next
    <3> QED BY <1>3, <1>4, <3>2 DEF Word
  <2> QED BY <2>1, <2>2
<1>8. \A s \in Device : devId'[s] = -1 \/ (s \in Misc /\ devId'[s] = nd[s])
  BY <1>1, <1>3, <1>5
<1>9. ASSUME NEW e \in At \ todo', e[2] \in Misc PROVE devId'[e[2]] = nd[e[2]]
  <2>1. e = <<e[1], e[2]>> /\ e[2] \in Device
    BY StationAssumption
  <2>2. CASE e[2] = t
    BY <1>5, <2>2
  <2>3. CASE e[2] # t
    BY <1>1, <1>3, <1>9, <2>1, <2>3
  <2> QED BY <2>2, <2>3
<1>10. todo' \subseteq {e \in At : e[2] \in Misc}
  BY <1>1
<1> HIDE DEF Seed, TypeOK
<1> QED BY <1>1, <1>6, <1>7, <1>8, <1>9, <1>10

LEMMA SeedInvNext == TypeOK /\ SeedInv /\ [Next]_vars => SeedInv'
<1> SUFFICES ASSUME TypeOK, SeedInv, [Next]_vars PROVE SeedInv'
  OBVIOUS
<1>1. ASSUME NEW c \in CN, NEW t \in Device, Seed(c, t) PROVE SeedInv'
  BY <1>1, SeedInvSeed
<1>2. CASE Merge \/ Built \/ UnitsBuilt \/ NeutralNodes \/ SubEdges \/ ComponentEdges
  BY <1>2 DEF Merge, Built, UnitsBuilt, NeutralNodes, SubEdges, ComponentEdges, SeedInv
<1>3. ASSUME NEW c \in CN, NEW t \in Device,
             SameId(c, t) \/ OtherId(c, t) \/ WriteId(c, t)
      PROVE  SeedInv'
  BY <1>3 DEF SameId, OtherId, WriteId, MayHandle, SeedInv
<1>4. CASE UNCHANGED vars
  BY <1>4 DEF vars, SeedInv
<1> QED BY <1>1, <1>2, <1>3, <1>4 DEF Next

(* Once no pair is left, the ids are the maxima. *)
LEMMA SeedsFromInv == TypeOK /\ SeedInv => SeedsAreLargest
<1> SUFFICES ASSUME TypeOK, SeedInv, phase = "seed", todo = {}
             PROVE  /\ \A c \in cnTotal :
                          /\ \E t \in Misc : <<c, t>> \in At /\ cnId[c] = nd[t]
                          /\ \A t \in Misc : <<c, t>> \in At => cnId[c] >= nd[t]
                    /\ \A c \in CN \ cnTotal : cnId[c] = -1
                    /\ \A e \in At : devId[e[2]] = IF e[2] \in Misc THEN nd[e[2]] ELSE -1
  BY DEF SeedsAreLargest
<1> USE StationAssumption DEF SeedInv, TypeOK, cnTotal
<1>1. \A c \in CN : \A t \in Misc : <<c, t>> \in At => cnId[c] >= nd[t]
  OBVIOUS
<1>2. \A t \in Misc : nd[t] \in Int /\ nd[t] >= 0
  <2>1. \A v \in Numbers : v \in Int /\ v >= 0
    BY DEF Word
  <2> QED BY <2>1
<1>3. ASSUME NEW c \in cnTotal
      PROVE  \E t \in Misc : <<c, t>> \in At /\ cnId[c] = nd[t]
  <2>1. PICK t \in Misc : <<c, t>> \in At
    OBVIOUS
  <2>2. cnId[c] >= nd[t] /\ nd[t] >= 0 /\ nd[t] \in Int /\ cnId[c] \in Int
    BY <1>1, <1>2, <2>1 DEF Word
  <2>3. cnId[c] # -1
    BY <2>2
  <2> QED BY <2>3
<1>4. \A c \in CN \ cnTotal : cnId[c] = -1
  OBVIOUS
<1>5. \A e \in At : devId[e[2]] = IF e[2] \in Misc THEN nd[e[2]] ELSE -1
  OBVIOUS
<1> QED BY <1>1, <1>3, <1>4, <1>5

(* Whatever order the tasks write in, a CN is seeded with the largest      *)
(* number of its selected devices, and a device with its own (lines        *)
(* 240-265).                                                               *)
THEOREM Seeding == Spec => []SeedsAreLargest
<1>1. Spec => []SeedInv
  BY SeedInvInit, SeedInvNext, TypeCorrect, PTL DEF Spec
<1> QED BY <1>1, TypeCorrect, SeedsFromInv, PTL
-----------------------------------------------------------------------------
(* The maps by kind: what the first and the second one cover together. *)
LEMMA PairKinds ==
    /\ PairsOf(BuildKinds) \cup PairsOf({"Unit"}) = PairsOf(BuiltKinds)
    /\ \A e \in PairsOf(BuildKinds), x \in PairsOf({"Unit"}) : e[2] # x[2]
    /\ \A kinds : PairsOf(kinds) \subseteq At
    /\ \A kinds : \A e \in PairsOf(kinds) :
          e[1] \in cnTotal /\ e[2] \in Device /\ e = <<e[1], e[2]>>
  BY StationAssumption DEF PairsOf, BuildKinds, BuiltKinds, DeviceKind

(* A step of a running map keeps what is known of it. *)
LEMMA MapStep ==
    ASSUME TypeOK, NEW kinds, MapInv(kinds), NEW c \in CN, NEW t \in Device,
           SameId(c, t) \/ OtherId(c, t) \/ WriteId(c, t)
    PROVE  MapInv(kinds)'
<1> USE DEF MapInv, TypeOK
<1>1. cnId' = cnId /\ PairsOf(kinds)' = PairsOf(kinds) /\ cnTotal' = cnTotal
  BY DEF SameId, OtherId, WriteId, PairsOf, cnTotal
<1>2. CASE SameId(c, t)
  <2>1. <<c, t>> \in PairsOf(kinds) /\ devId[t] = cnId[c] /\ devId' = devId
    BY <1>2 DEF SameId, MayHandle
  <2>2. c \in cnTotal /\ <<c, t>> \in At
    BY <2>1, PairKinds
  <2>3. Follows(t)
    BY <2>1, <2>2 DEF Follows
  <2>4. \A s : Follows(s)' = Follows(s)
    BY <1>1, <2>1 DEF Follows
  <2>5. todo' = todo \ {<<c, t>>} /\ writing' = writing
    BY <1>2 DEF SameId
  <2> HIDE DEF TypeOK
  <2> QED BY <1>1, <2>3, <2>4, <2>5
<1>3. CASE OtherId(c, t)
  <2>1. /\ <<c, t>> \in PairsOf(kinds) /\ devId' = devId
        /\ todo' = todo \ {<<c, t>>} /\ writing' = writing \cup {<<c, t>>}
    BY <1>3 DEF OtherId, MayHandle
  <2>2. \A s : Follows(s)' = Follows(s)
    BY <1>1, <2>1 DEF Follows
  <2> HIDE DEF TypeOK
  <2> QED BY <1>1, <2>1, <2>2
<1>4. CASE WriteId(c, t)
  <2>1. /\ <<c, t>> \in PairsOf(kinds) /\ devId'[t] = cnId[c]
        /\ \A s \in Device \ {t} : devId'[s] = devId[s]
        /\ todo' = todo /\ writing' = writing \ {<<c, t>>}
    BY <1>4 DEF WriteId
  <2>2. c \in cnTotal /\ <<c, t>> \in At
    BY <2>1, PairKinds
  <2>3. Follows(t)'
    BY <1>1, <2>1, <2>2 DEF Follows
  <2>4. \A s \in Device \ {t} : Follows(s) => Follows(s)'
    BY <1>1, <2>1 DEF Follows
  <2>5. ASSUME NEW e \in PairsOf(kinds)
        PROVE  e \in todo' \/ (\E x \in writing' : x[2] = e[2]) \/ Follows(e[2])'
    <3>1. CASE e[2] = t
      BY <2>3, <3>1
    <3>2. CASE e[2] # t
      <4>1. e[2] \in Device
        BY PairKinds
      <4>2. \A x \in writing : x[2] = e[2] => x \in writing'
        BY <2>1, <3>2
      <4> QED BY <2>1, <2>4, <3>2, <4>1, <4>2
    <3> QED BY <3>1, <3>2
  <2> HIDE DEF TypeOK
  <2> QED BY <1>1, <2>1, <2>5
<1> QED BY <1>2, <1>3, <1>4

(* A step of the second map does not touch the devices of the first. *)
LEMMA MapDoneStep ==
    ASSUME TypeOK, MapInv({"Unit"}), MapDone(BuildKinds), NEW c \in CN, NEW t \in Device,
           SameId(c, t) \/ OtherId(c, t) \/ WriteId(c, t)
    PROVE  MapDone(BuildKinds)'
<1>1. /\ cnId' = cnId /\ topoID' = topoID
      /\ PairsOf(BuildKinds)' = PairsOf(BuildKinds) /\ cnTotal' = cnTotal
  BY DEF SameId, OtherId, WriteId, PairsOf, cnTotal
<1>2. \A e \in PairsOf(BuildKinds) : devId'[e[2]] = devId[e[2]]
  <2>1. CASE devId' = devId
    BY <2>1
  <2>2. CASE WriteId(c, t)
    <3>1. <<c, t>> \in PairsOf({"Unit"})
      BY <2>2 DEF WriteId, MapInv
    <3>2. \A e \in PairsOf(BuildKinds) : e[2] # t /\ e[2] \in Device
      BY <3>1, PairKinds
    <3> QED BY <2>2, <3>2 DEF WriteId, TypeOK
  <2> QED BY <2>1, <2>2 DEF SameId, OtherId
<1> QED BY <1>1, <1>2 DEF MapDone, Follows

(* The end of a map: every device it reached has copied its id. *)
LEMMA MapEnds ==
    ASSUME TypeOK, NEW kinds, MapInv(kinds), todo = {}, writing = {},
           topoID' = Copied(kinds), UNCHANGED <<cnId, devId>>
    PROVE  /\ MapDone(kinds)'
           /\ \A t \in Device : (\A e \in PairsOf(kinds) : e[2] # t) => topoID'[t] = topoID[t]
<1>1. PairsOf(kinds)' = PairsOf(kinds) /\ cnTotal' = cnTotal
  BY DEF PairsOf, cnTotal
<1>2. \A s : Follows(s)' = Follows(s)
  BY <1>1 DEF Follows
<1>3. ASSUME NEW e \in PairsOf(kinds) PROVE topoID'[e[2]] = devId[e[2]]
  <2>1. <<e[1], e[2]>> \in PairsOf(kinds) /\ e[2] \in Device /\ e[1] \in CN
    BY PairKinds DEF cnTotal
  <2> QED BY <2>1 DEF Copied
<1>4. MapDone(kinds)'
  BY <1>1, <1>2, <1>3 DEF MapDone, MapInv
<1>5. ASSUME NEW t \in Device, \A e \in PairsOf(kinds) : e[2] # t
      PROVE  topoID'[t] = topoID[t]
  <2>1. \A c \in CN : <<c, t>> \notin PairsOf(kinds)
    BY <1>5
  <2> QED BY <2>1 DEF Copied
<1> QED BY <1>4, <1>5

LEMMA BuildInvNext == TypeOK /\ SeedInv /\ BuildInv /\ [Next]_vars => BuildInv'
<1> SUFFICES ASSUME TypeOK, SeedInv, BuildInv, [Next]_vars PROVE BuildInv'
  OBVIOUS
<1>1. CASE Merge
  <2>1. /\ phase' = "build" /\ todo' = PairsOf(BuildKinds) /\ writing' = {}
        /\ PairsOf(BuildKinds)' = PairsOf(BuildKinds)
    BY <1>1 DEF Merge, SeedInv, PairsOf, cnTotal
  <2> QED BY <2>1 DEF BuildInv, MapInv, Later
<1>2. CASE Built
  <2>1. /\ phase' = "unit" /\ todo' = PairsOf({"Unit"}) /\ writing' = {}
        /\ PairsOf({"Unit"})' = PairsOf({"Unit"})
    BY <1>2 DEF Built, PairsOf, cnTotal
  <2>2. MapDone(BuildKinds)'
    BY <1>2, MapEnds DEF Built, BuildInv
  <2> QED BY <2>1, <2>2 DEF BuildInv, MapInv, Later
<1>3. CASE UnitsBuilt
  <2>1. /\ phase' = "neutral" /\ writing' = {} /\ cnId' = cnId /\ devId' = devId
        /\ PairsOf(BuiltKinds)' = PairsOf(BuiltKinds) /\ cnTotal' = cnTotal
    BY <1>3 DEF UnitsBuilt, PairsOf, cnTotal
  <2>2. MapDone({"Unit"})'
    BY <1>3, MapEnds DEF UnitsBuilt, BuildInv
  <2>3. \A e \in PairsOf(BuildKinds) : topoID'[e[2]] = topoID[e[2]]
    BY <1>3, MapEnds, PairKinds DEF UnitsBuilt, BuildInv
  <2>4. MapDone(BuildKinds)'
    BY <1>3, <2>1, <2>3 DEF UnitsBuilt, BuildInv, MapDone, Follows, PairsOf
  <2>5. MapDone(BuiltKinds)'
    <3>1. PairsOf(BuiltKinds)' = PairsOf(BuildKinds)' \cup PairsOf({"Unit"})'
      BY PairKinds DEF PairsOf, cnTotal
    <3> QED BY <2>2, <2>4, <3>1 DEF MapDone
  <2> QED BY <2>1, <2>5 DEF BuildInv, Later
<1>4. CASE NeutralNodes \/ SubEdges \/ ComponentEdges
  <2>1. /\ phase \in Later /\ phase' \in Later /\ UNCHANGED <<cnId, devId, topoID, writing>>
        /\ PairsOf(BuiltKinds)' = PairsOf(BuiltKinds) /\ cnTotal' = cnTotal
    BY <1>4 DEF NeutralNodes, SubEdges, ComponentEdges, Later, PairsOf, cnTotal
  <2> QED BY <2>1 DEF BuildInv, MapDone, Follows, Later
<1>5. ASSUME NEW c \in CN, NEW t \in Device, Seed(c, t) PROVE BuildInv'
  BY <1>5 DEF Seed, BuildInv, Later
<1>6. ASSUME NEW c \in CN, NEW t \in Device,
             SameId(c, t) \/ OtherId(c, t) \/ WriteId(c, t)
      PROVE  BuildInv'
  <2>1. phase' = phase /\ phase \in {"build", "unit"}
    BY <1>6 DEF SameId, OtherId, WriteId, MayHandle, SeedInv, BuildInv, TypeOK
  <2>2. CASE phase = "build"
    <3>1. MapInv(BuildKinds)'
      BY <1>6, <2>2, MapStep DEF BuildInv
    <3> QED BY <2>1, <2>2, <3>1 DEF BuildInv, Later
  <2>3. CASE phase = "unit"
    <3>1. MapInv({"Unit"})' /\ MapDone(BuildKinds)'
      BY <1>6, <2>3, MapStep, MapDoneStep DEF BuildInv
    <3> QED BY <2>1, <2>3, <3>1 DEF BuildInv, Later
  <2> QED BY <2>1, <2>2, <2>3
<1>7. CASE UNCHANGED vars
  BY <1>7 DEF vars, BuildInv, MapInv, MapDone, Follows, PairsOf, cnTotal, Later
<1> QED BY <1>1, <1>2, <1>3, <1>4, <1>5, <1>6, <1>7 DEF Next

LEMMA Invariant == Spec => [](TypeOK /\ SeedInv /\ BuildInv)
<1>1. Init => BuildInv
  BY DEF Init, BuildInv, Later
<1> QED BY <1>1, BuildInvNext, SeedInvInit, SeedInvNext, TypeInit, TypeNext, PTL DEF Spec

(* However the tasks of the building maps race for a device with several   *)
(* CNs, at the end it has the id of one of them, and the same in topoID    *)
(* and in maxTopoID (lines 310-420).                                       *)
THEOREM DevicesFollow == Spec => []DeviceFollowsCN
<1>1. BuildInv => DeviceFollowsCN
  BY DEF BuildInv, DeviceFollowsCN, MapDone, Follows, Later, BuiltKinds
<1> QED BY <1>1, Invariant, PTL
-----------------------------------------------------------------------------
LEMMA AnchorInvInit == Init => AnchorInv
  BY DEF Init, AnchorInv

(* The building maps: the pair of an anchor is handled with equal ids. *)
LEMMA AnchorInvMaps ==
    ASSUME TypeOK, AnchorInv, phase # "seed", NEW c \in CN, NEW t \in Device,
           SameId(c, t) \/ OtherId(c, t) \/ WriteId(c, t)
    PROVE  AnchorInv'
<1>1. UNCHANGED <<nd, cnId, phase, edges>> /\ topoND \subseteq topoND' /\ todo' \subseteq todo
  BY DEF SameId, OtherId, WriteId
<1>2. ASSUME NEW e \in At, Anchor(e)'
      PROVE  /\ devId'[e[2]] = cnId'[e[1]]
             /\ e \notin writing'
             /\ Pending(e)' \/ cnId'[e[1]] \in topoND'
  <2>1. Anchor(e)
    BY <1>1, <1>2 DEF Anchor, PairsOf, cnTotal
  <2>2. devId[e[2]] = cnId[e[1]] /\ e \notin writing /\ (Pending(e) \/ cnId[e[1]] \in topoND)
    BY <2>1 DEF AnchorInv
  <2>3. e[1] \in CN /\ e[2] \in Device /\ e = <<e[1], e[2]>>
    BY StationAssumption
  <2>4. CASE SameId(c, t)
    <3>1. devId' = devId /\ writing' = writing /\ topoND' = topoND \cup {cnId[c]}
          /\ todo' = todo \ {<<c, t>>}
      BY <2>4 DEF SameId
    <3>2. CASE e = <<c, t>>
      BY <1>1, <2>2, <2>3, <3>1, <3>2
    <3>3. CASE e # <<c, t>>
      BY <1>1, <2>2, <2>3, <3>1, <3>3 DEF Pending
    <3> QED BY <3>2, <3>3
  <2>5. CASE OtherId(c, t)
    <3>1. /\ devId' = devId /\ writing' = writing \cup {<<c, t>>} /\ todo' = todo \ {<<c, t>>}
          /\ devId[t] # cnId[c]
      BY <2>5 DEF OtherId
    <3>2. e # <<c, t>>
      BY <2>2, <2>3, <3>1
    <3> QED BY <1>1, <2>2, <2>3, <3>1, <3>2 DEF Pending
  <2>6. CASE WriteId(c, t)
    <3>1. /\ <<c, t>> \in writing /\ writing' = writing \ {<<c, t>>} /\ todo' = todo
          /\ \A s \in Device \ {t} : devId'[s] = devId[s]
      BY <2>6 DEF WriteId, TypeOK
    <3>2. e[2] # t
      BY <2>1, <2>2, <3>1 DEF Anchor, TypeOK
    <3> QED BY <1>1, <2>2, <2>3, <3>1, <3>2 DEF Pending
  <2> QED BY <2>4, <2>5, <2>6
<1>3. \A x \in edges' : x[1] \in DeviceKind => phase' = "done"
  BY <1>1 DEF AnchorInv
<1> QED BY <1>1, <1>2, <1>3 DEF AnchorInv

LEMMA AnchorInvNext ==
    TypeOK /\ SeedInv /\ BuildInv /\ AnchorInv /\ [Next]_vars => AnchorInv'
<1> SUFFICES ASSUME TypeOK, SeedInv, BuildInv, AnchorInv, [Next]_vars PROVE AnchorInv'
  OBVIOUS
<1>1. CASE Merge
  <2>1. /\ phase = "seed" /\ todo = {} /\ phase' = "build" /\ todo' = PairsOf(BuildKinds)
        /\ writing' = {} /\ UNCHANGED <<nd, devId, edges>>
    BY <1>1 DEF Merge, SeedInv
  <2>2. ASSUME NEW e \in At, Anchor(e)'
        PROVE  devId'[e[2]] = cnId'[e[1]] /\ Pending(e)'
    <3>1. devId[e[2]] = nd[e[2]]
      BY <2>1, <2>2 DEF Anchor, SeedInv
    <3>2. nd[e[2]] = cnId'[e[1]]
      BY <2>1, <2>2 DEF Anchor
    <3>3. e \in PairsOf(BuiltKinds)
      BY <2>2 DEF Anchor, PairsOf, cnTotal
    <3>4. Kind[e[2]] = "Unit" \/ e \in PairsOf(BuildKinds)
      BY <3>3 DEF PairsOf, BuildKinds, BuiltKinds
    <3> QED BY <2>1, <3>1, <3>2, <3>4 DEF Pending
  <2> QED BY <2>1, <2>2 DEF AnchorInv
<1>2. CASE Built
  <2>1. /\ phase = "build" /\ phase' = "unit" /\ todo = {} /\ todo' = PairsOf({"Unit"})
        /\ UNCHANGED <<nd, cnId, devId, writing, topoND, edges>>
    BY <1>2 DEF Built
  <2>2. ASSUME NEW e \in At, Anchor(e)' PROVE Anchor(e) /\ (Pending(e) => Pending(e)')
    <3>1. Anchor(e)
      BY <2>1, <2>2 DEF Anchor, PairsOf, cnTotal
    <3>2. Kind[e[2]] = "Unit" => e \in PairsOf({"Unit"})
      BY <3>1 DEF Anchor, PairsOf
    <3> QED BY <2>1, <3>1, <3>2 DEF Pending
  <2> QED BY <2>1, <2>2 DEF AnchorInv
<1>3. CASE UnitsBuilt \/ NeutralNodes \/ SubEdges
  <2>1. /\ phase \in {"unit", "neutral", "sub"} /\ phase' \in Later \ {"done"}
        /\ phase = "unit" => todo = {}
        /\ UNCHANGED <<nd, cnId, devId, writing>> /\ topoND \subseteq topoND'
    BY <1>3 DEF UnitsBuilt, NeutralNodes, SubEdges, Later
  <2>2. \A e : Anchor(e)' => Anchor(e) /\ ~Pending(e)
    BY <2>1 DEF Anchor, PairsOf, cnTotal, Pending
  <2>3. \A x \in edges' : x \in edges \/ x[1] \in {"topo_neutral", "topoid_subid"}
    BY <1>3 DEF UnitsBuilt, NeutralNodes, SubEdges
  <2>4. \A x \in edges' : x[1] \notin DeviceKind
    BY <2>1, <2>3 DEF AnchorInv, DeviceKind
  <2> QED BY <2>1, <2>2, <2>4 DEF AnchorInv
<1>4. CASE ComponentEdges
  <2>1. /\ phase = "component" /\ phase' = "done"
        /\ UNCHANGED <<nd, cnId, devId, writing, topoND>>
    BY <1>4 DEF ComponentEdges
  <2>2. \A e : Anchor(e)' => Anchor(e) /\ ~Pending(e)
    BY <2>1 DEF Anchor, PairsOf, cnTotal, Pending
  <2> QED BY <2>1, <2>2 DEF AnchorInv
<1>5. ASSUME NEW c \in CN, NEW t \in Device, Seed(c, t) PROVE AnchorInv'
  BY <1>5 DEF Seed, AnchorInv
<1>6. ASSUME NEW c \in CN, NEW t \in Device,
             SameId(c, t) \/ OtherId(c, t) \/ WriteId(c, t)
      PROVE  AnchorInv'
  <2>1. phase # "seed"
    BY <1>6 DEF SameId, OtherId, WriteId, MayHandle, SeedInv
  <2> QED BY <1>6, <2>1, AnchorInvMaps
<1>7. CASE UNCHANGED vars
  BY <1>7 DEF vars, AnchorInv, Anchor, Pending, PairsOf, cnTotal
<1> QED BY <1>1, <1>2, <1>3, <1>4, <1>5, <1>6, <1>7 DEF Next

(* When an edge to a component is inserted, its topology id has a TopoND   *)
(* if the island is named after a device at one CN alone: the race for     *)
(* shared devices cannot take the node away (lines 347 and 466-478).       *)
THEOREM EdgesSupported == Spec => []EdgesHaveNodes
<1>1. TypeOK /\ AnchorInv => EdgesHaveNodes
  <2> SUFFICES ASSUME TypeOK, AnchorInv, NEW x \in edges, x[1] \in DeviceKind, Anchored(x[2])
               PROVE  x[2] \in topoND
    BY DEF EdgesHaveNodes
  <2>1. phase = "done"
    BY DEF AnchorInv
  <2>2. PICK e \in PairsOf(BuiltKinds) :
            /\ e[2] \in Misc
            /\ \A y \in At : y[2] = e[2] => y = e
            /\ nd[e[2]] = x[2]
            /\ cnId[e[1]] = x[2]
    BY DEF Anchored, BuiltKinds
  <2>3. e \in At /\ Anchor(e)
    BY <2>2, PairKinds DEF Anchor
  <2> QED BY <2>1, <2>2, <2>3 DEF AnchorInv, Pending
<1>2. Spec => []AnchorInv
  BY AnchorInvInit, AnchorInvNext, Invariant, PTL DEF Spec
<1> QED BY <1>1, <1>2, Invariant, PTL
=============================================================================
