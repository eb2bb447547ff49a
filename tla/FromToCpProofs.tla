---------------------------- MODULE FromToCpProofs ----------------------------
(***************************************************************************)
(* Proofs about the topology edges (TopoConnect) and the from/to           *)
(* calculation points (FromToCp), for every station and every order of the *)
(* tasks.                                                                  *)
(***************************************************************************)
EXTENDS FromToCp, FiniteSetTheorems, WellFoundedInduction, TLAPS

(* The pairs that a task has handled. *)
Handled == IF stage = "compensator" THEN InService \ todo ELSE InService

ConnectTypeOK ==
    /\ id \in [OpenCN \cup DOMAIN EndAt -> Int]
    /\ sumID \in [DOMAIN Compensator -> Int \X Int]
    /\ DOMAIN topoIJ = DOMAIN Compensator
    /\ stage \in {"compensator", "acline", "twoport", "threeport", "connected"}
    /\ stage = "compensator" => todo \subseteq InService

(* The id of a CN is on the side that names it as soon as its task has     *)
(* run, and a side that no CN has stays 0.                                 *)
SideInv ==
    \A t \in DOMAIN Compensator :
        /\ \A c : <<c, t>> \in Handled /\ Compensator[t].iNd = CNid[c]
                    => sumID[t][1] = ToInt(id[c])
        /\ \A c : <<c, t>> \in Handled /\ Compensator[t].iNd # CNid[c] /\ Compensator[t].jNd = CNid[c]
                    => sumID[t][2] = ToInt(id[c])
        /\ SideOf(t, Compensator[t].iNd) = {} => sumID[t][1] = 0
        /\ SideOf(t, Compensator[t].jNd) = {} => sumID[t][2] = 0

(* The edges of compensators. *)
NoneOf(t) == topoIJ[t] = <<>> /\ \A e \in connect : e.by # t
MadeInv ==
    /\ stage = "compensator" => connect = {} /\ \A t \in DOMAIN Compensator : topoIJ[t] = <<>>
    /\ stage # "compensator" =>
          \A t \in {x[2] : x \in InService} :
              IF Joins(t) THEN topoIJ[t] = sumID[t] /\ Edge(t, sumID[t][1], sumID[t][2], 1, 0) \in connect
              ELSE NoneOf(t)

(* Where an edge comes from. *)
Oriented(e) ==
    /\ e.from \in Int /\ e.to \in Int
    /\ e.from # e.to => e.reverse = IF e.from < e.to THEN -1 ELSE 1
OfCompensator(e) == e.by \in DOMAIN Compensator /\ e.R = 0
OfLine(e) == \E x \in DotEdges : e.by = x.id /\ e.R = Magnitude(x.r) /\ Oriented(e)
OfTwoPort(e) ==
    \E x \in Tx2Edges : x.src \in Tx2 /\ e.by = x.src /\ e.R = Magnitude(x.r) /\ Oriented(e)
OfThreePort(e) == \E x \in Tx3Neutral : x.src \in Tx3 /\ e.by = x.src /\ e.R = Magnitude(x.r)

BranchInv ==
    /\ \A e \in connect : OfCompensator(e) \/ OfLine(e) \/ OfTwoPort(e) \/ OfThreePort(e)
    /\ stage = "twoport" => todo \subseteq {e \in Tx2Edges : e.src \in Tx2}
    /\ stage = "threeport" => todo \subseteq {e \in Tx3Neutral : e.src \in Tx3}

ConnectInv == ConnectTypeOK /\ SideInv /\ MadeInv /\ BranchInv
-----------------------------------------------------------------------------
(* The conversion of an id to int: what fits it is kept. *)
LEMMA Remainder ==
    ASSUME NEW a \in Nat, NEW n \in Nat \ {0}, a < n
    PROVE  a % n = a
  BY SMTT(30)

LEMMA ToIntKeeps ==
    ASSUME NEW v \in Int, Fits(v)
    PROVE  ToInt(v) = v
<1>1. v + IntHalf \in Nat /\ 2 * IntHalf \in Nat \ {0} /\ v + IntHalf < 2 * IntHalf
  BY ConnectAssumption DEF Fits
<1>2. (v + IntHalf) % (2 * IntHalf) = v + IntHalf
  BY <1>1, Remainder
<1> QED BY <1>2, ConnectAssumption DEF ToInt

LEMMA ToIntType ==
    ASSUME NEW v \in Int
    PROVE  ToInt(v) \in Int
<1>1. v + IntHalf \in Int /\ 2 * IntHalf \in Nat \ {0}
  BY ConnectAssumption
<1>2. \A a \in Int, n \in Nat \ {0} : a % n \in Int
  OBVIOUS
<1> QED BY <1>1, <1>2, ConnectAssumption DEF ToInt

LEMMA PairExcept ==
    ASSUME NEW p \in Int \X Int, NEW v \in Int
    PROVE  /\ [p EXCEPT ![1] = v] \in Int \X Int
           /\ [p EXCEPT ![1] = v][1] = v /\ [p EXCEPT ![1] = v][2] = p[2]
           /\ [p EXCEPT ![2] = v] \in Int \X Int
           /\ [p EXCEPT ![2] = v][2] = v /\ [p EXCEPT ![2] = v][1] = p[1]
  OBVIOUS

LEMMA ConnectInitInv == ConnectInit => ConnectInv
<1> SUFFICES ASSUME ConnectInit PROVE ConnectInv
  OBVIOUS
<1>1. PICK ids \in [OpenCN -> TopoIds] :
         id = [v \in OpenCN \cup DOMAIN EndAt |-> ids[IF v \in OpenCN THEN v ELSE EndAt[v]]]
  BY DEF ConnectInit
<1>2. id \in [OpenCN \cup DOMAIN EndAt -> Int]
  BY <1>1, ConnectAssumption
<1>3. ConnectTypeOK
  BY <1>2 DEF ConnectInit, ConnectTypeOK
<1>4. SideInv
  BY DEF ConnectInit, SideInv, Handled
<1>5. MadeInv /\ BranchInv
  BY DEF ConnectInit, MadeInv, BranchInv
<1> QED BY <1>3, <1>4, <1>5 DEF ConnectInv

(* A task puts the id of its CN on one side of its compensator. *)
LEMMA WriteSideInv ==
    ASSUME ConnectInv, NEW c, NEW t, <<c, t>> \in CompensatorAt, WriteSide(c, t)
    PROVE  ConnectInv'
<1> DEFINE C1 == Compensator[t].iNd = CNid[c]
           C2 == Compensator[t].iNd # CNid[c] /\ Compensator[t].jNd = CNid[c]
<1>1. /\ stage = "compensator" /\ <<c, t>> \in todo /\ todo' = todo \ {<<c, t>>}
      /\ UNCHANGED <<id, topoIJ, stage, connect>>
      /\ ConnectTypeOK /\ SideInv /\ MadeInv /\ BranchInv
  BY DEF WriteSide, ConnectInv
<1>2. c \in OpenCN /\ t \in DOMAIN Compensator /\ ToInt(id[c]) \in Int
  BY <1>1, ConnectAssumption, ToIntType DEF ConnectTypeOK
<1>3. /\ sumID' \in [DOMAIN Compensator -> Int \X Int]
      /\ \A s \in DOMAIN Compensator \ {t} : sumID'[s] = sumID[s]
      /\ sumID'[t][1] = IF C1 THEN ToInt(id[c]) ELSE sumID[t][1]
      /\ sumID'[t][2] = IF C2 THEN ToInt(id[c]) ELSE sumID[t][2]
  <2>1. sumID[t] \in Int \X Int /\ sumID \in [DOMAIN Compensator -> Int \X Int]
    BY <1>1, <1>2 DEF ConnectTypeOK
  <2>2. CASE C1
    <3>1. sumID' = [sumID EXCEPT ![t] = [sumID[t] EXCEPT ![1] = ToInt(id[c])]]
      BY <2>2 DEF WriteSide
    <3> QED BY <1>2, <2>1, <2>2, <3>1, PairExcept
  <2>3. CASE C2
    <3>1. sumID' = [sumID EXCEPT ![t] = [sumID[t] EXCEPT ![2] = ToInt(id[c])]]
      BY <2>3 DEF WriteSide
    <3> QED BY <1>2, <2>1, <2>3, <3>1, PairExcept
  <2>4. CASE ~C1 /\ ~C2
    BY <2>1, <2>4 DEF WriteSide
  <2> QED BY <2>2, <2>3, <2>4
<1>4. Handled' = Handled \cup {<<c, t>>} /\ \A s, n : SideOf(s, n)' = SideOf(s, n)
  BY <1>1 DEF Handled, ConnectTypeOK, SideOf
<1>5. \A d : ToInt(id[d])' = ToInt(id[d])
  BY <1>1 DEF ToInt
<1>6. C1 => c \in SideOf(t, Compensator[t].iNd)
  BY <1>2 DEF SideOf
<1>7. C2 => c \in SideOf(t, Compensator[t].jNd)
  BY <1>2 DEF SideOf
<1>8. \A d : <<d, t>> \in Handled' /\ CNid[d] = CNid[c] => d = c
  BY <1>1, <1>2, <1>4, ConnectAssumption DEF Handled, InService
<1>9. SideInv'
  <2> SUFFICES ASSUME NEW s \in DOMAIN Compensator
               PROVE
        /\ \A d : <<d, s>> \in Handled' /\ Compensator[s].iNd = CNid[d]
                    => sumID'[s][1] = ToInt(id[d])
        /\ \A d : <<d, s>> \in Handled' /\ Compensator[s].iNd # CNid[d] /\ Compensator[s].jNd = CNid[d]
                    => sumID'[s][2] = ToInt(id[d])
        /\ SideOf(s, Compensator[s].iNd) = {} => sumID'[s][1] = 0
        /\ SideOf(s, Compensator[s].jNd) = {} => sumID'[s][2] = 0
    BY <1>4, <1>5 DEF SideInv
  <2>1. CASE s # t
    BY <1>1, <1>3, <1>4, <2>1 DEF SideInv
  <2>2. CASE s = t
    <3>1. \A d : <<d, t>> \in Handled' => d = c \/ <<d, t>> \in Handled
      BY <1>4
    <3>2. ASSUME NEW d, <<d, t>> \in Handled', Compensator[t].iNd = CNid[d]
          PROVE  sumID'[t][1] = ToInt(id[d])
      BY <1>1, <1>2, <1>3, <1>8, <3>1, <3>2 DEF SideInv
    <3>3. ASSUME NEW d, <<d, t>> \in Handled', Compensator[t].iNd # CNid[d],
                 Compensator[t].jNd = CNid[d]
          PROVE  sumID'[t][2] = ToInt(id[d])
      BY <1>1, <1>2, <1>3, <1>8, <3>1, <3>3 DEF SideInv
    <3>4. /\ SideOf(t, Compensator[t].iNd) = {} => sumID'[t][1] = 0
          /\ SideOf(t, Compensator[t].jNd) = {} => sumID'[t][2] = 0
      BY <1>1, <1>2, <1>3, <1>6, <1>7 DEF SideInv
    <3> QED BY <2>2, <3>2, <3>3, <3>4
  <2> QED BY <2>1, <2>2
<1>10. ConnectTypeOK' /\ MadeInv' /\ BranchInv'
  <2>1. ConnectTypeOK'
    BY <1>1, <1>3 DEF ConnectTypeOK, InService
  <2>2. MadeInv' /\ BranchInv'
    BY <1>1 DEF MadeInv, BranchInv
  <2> QED BY <2>1, <2>2
<1> QED BY <1>9, <1>10 DEF ConnectInv

(* The edges of compensators are made when all ids are written. *)
LEMMA CompensatorsInv == ConnectInv /\ ConnectCompensators => ConnectInv'
<1> SUFFICES ASSUME ConnectInv, ConnectCompensators PROVE ConnectInv'
  OBVIOUS
<1> DEFINE joined == {t \in {x[2] : x \in InService} : Joins(t)}
<1>1. /\ stage = "compensator" /\ todo = {} /\ stage' = "acline" /\ UNCHANGED <<id, sumID>>
      /\ connect' = connect \cup UNION {Both(t, sumID[t][1], sumID[t][2], 1, 0) : t \in joined}
      /\ topoIJ' = [t \in DOMAIN topoIJ |-> IF t \in joined THEN sumID[t] ELSE topoIJ[t]]
      /\ ConnectTypeOK /\ SideInv /\ MadeInv /\ connect = {} /\ joined \subseteq DOMAIN Compensator
  BY ConnectAssumption DEF ConnectCompensators, ConnectInv, MadeInv, InService
<1>2. ConnectTypeOK'
  BY <1>1 DEF ConnectTypeOK
<1>3. SideInv'
  <2>1. Handled' = Handled /\ \A s, n : SideOf(s, n)' = SideOf(s, n)
    BY <1>1 DEF Handled, SideOf
  <2>2. \A d : ToInt(id[d])' = ToInt(id[d])
    BY <1>1 DEF ToInt
  <2> QED BY <1>1, <2>1, <2>2 DEF SideInv
<1>4. \A e \in connect' : \E t \in joined : e.by = t /\ e.R = 0
  BY <1>1 DEF Both, Edge
<1>5. BranchInv'
  <2>1. \A e \in connect' : OfCompensator(e)
    BY <1>1, <1>4 DEF OfCompensator
  <2> QED BY <1>1, <2>1 DEF BranchInv
<1>6. \A t \in joined : Edge(t, sumID[t][1], sumID[t][2], 1, 0) \in connect'
  BY <1>1 DEF Both
<1>7. MadeInv'
  <2> SUFFICES ASSUME NEW t \in {x[2] : x \in InService}
               PROVE  IF Joins(t) THEN /\ topoIJ'[t] = sumID[t]
                                       /\ Edge(t, sumID[t][1], sumID[t][2], 1, 0) \in connect'
                      ELSE topoIJ'[t] = <<>> /\ \A e \in connect' : e.by # t
    BY <1>1 DEF MadeInv, Joins, NoneOf, InService
  <2>1. t \in DOMAIN Compensator /\ t \in DOMAIN topoIJ /\ topoIJ[t] = <<>>
    BY <1>1, ConnectAssumption DEF InService, ConnectTypeOK, MadeInv
  <2>2. CASE Joins(t)
    BY <1>1, <1>6, <2>1, <2>2
  <2>3. CASE ~Joins(t)
    BY <1>1, <1>4, <2>1, <2>3
  <2> QED BY <2>2, <2>3
<1> QED BY <1>2, <1>3, <1>5, <1>7 DEF ConnectInv

(* A step of a later stage adds edges of lines and transformers only. *)
LEMMA BranchStep ==
    ASSUME ConnectInv, stage # "compensator", UNCHANGED <<id, sumID, topoIJ>>,
           stage' \in {"acline", "twoport", "threeport", "connected"},
           connect \subseteq connect',
           \A e \in connect' \ connect : OfLine(e) \/ OfTwoPort(e) \/ OfThreePort(e),
           stage' = "twoport" => todo' \subseteq {e \in Tx2Edges : e.src \in Tx2},
           stage' = "threeport" => todo' \subseteq {e \in Tx3Neutral : e.src \in Tx3}
    PROVE  ConnectInv'
<1>1. ConnectTypeOK /\ SideInv /\ MadeInv /\ BranchInv
  BY DEF ConnectInv
<1>2. ConnectTypeOK'
  BY <1>1 DEF ConnectTypeOK
<1>3. SideInv'
  <2>1. Handled' = Handled /\ \A s, n : SideOf(s, n)' = SideOf(s, n)
    BY <1>1 DEF Handled, SideOf
  <2>2. \A d : ToInt(id[d])' = ToInt(id[d])
    BY <1>1 DEF ToInt
  <2> QED BY <1>1, <2>1, <2>2 DEF SideInv
<1>4. BranchInv'
  BY <1>1 DEF BranchInv
<1>5. \A e \in connect' \ connect : e.by \notin DOMAIN Compensator
  BY BranchAssumption DEF OfLine, OfTwoPort, OfThreePort
<1>6. MadeInv'
  <2> SUFFICES ASSUME NEW t \in {x[2] : x \in InService}
               PROVE  IF Joins(t) THEN /\ topoIJ[t] = sumID[t]
                                       /\ Edge(t, sumID[t][1], sumID[t][2], 1, 0) \in connect'
                      ELSE topoIJ[t] = <<>> /\ \A e \in connect' : e.by # t
    BY <1>1 DEF MadeInv, Joins, NoneOf, InService
  <2>1. t \in DOMAIN Compensator
    BY ConnectAssumption DEF InService
  <2> QED BY <1>1, <1>5, <2>1 DEF MadeInv, NoneOf
<1> QED BY <1>2, <1>3, <1>4, <1>6 DEF ConnectInv

(* Both edges of a branch are reversed the same way from either end. *)
LEMMA BothOriented ==
    ASSUME ConnectTypeOK, NEW s \in DOMAIN EndAt, NEW t \in DOMAIN EndAt, NEW by, NEW R,
           NEW e \in Both(by, id[s], id[t], Orientation(s, t), R)
    PROVE  Oriented(e) /\ e.by = by /\ e.R = R
<1>1. id[s] \in Int /\ id[t] \in Int
  BY DEF ConnectTypeOK
<1> QED BY <1>1 DEF Both, Edge, Orientation, Oriented

LEMMA ConnectNextInv == ConnectInv /\ [ConnectNext]_connectVars => ConnectInv'
<1> SUFFICES ASSUME ConnectInv, [ConnectNext]_connectVars PROVE ConnectInv'
  OBVIOUS
<1>0. ConnectTypeOK /\ BranchInv
  BY DEF ConnectInv
<1>1. ASSUME NEW x \in CompensatorAt, WriteSide(x[1], x[2]) PROVE ConnectInv'
  <2>1. x = <<x[1], x[2]>>
    BY ConnectAssumption
  <2> QED BY <1>1, <2>1, WriteSideInv
<1>2. ASSUME NEW x \in DotEdges, ConnectLine(x) PROVE ConnectInv'
  <2>1. \A e \in LineEdges(x) : OfLine(e)
    <3>1. \A e \in LineEdges(x) : Oriented(e) /\ e.by = x.id /\ e.R = Magnitude(x.r)
      BY <1>0, BothOriented, ConnectAssumption
         DEF LineEdges, LineOfNegativeR, LineOfR, Magnitude
    <3> QED BY <3>1 DEF OfLine
  <2>2. stage = "acline" /\ UNCHANGED <<id, sumID, topoIJ, stage>> /\ connect \subseteq connect'
        /\ connect' \ connect \subseteq LineEdges(x)
    BY <1>2 DEF ConnectLine
  <2> QED BY <2>1, <2>2, BranchStep
<1>3. ASSUME NEW x \in Tx2Edges, ConnectTwoPort(x) PROVE ConnectInv'
  <2>1. x.src \in Tx2 /\ todo' \subseteq {e \in Tx2Edges : e.src \in Tx2}
    BY <1>0, <1>3 DEF ConnectTwoPort, BranchInv
  <2>2. \A e \in TwoPortEdges(x) : OfTwoPort(e)
    <3>1. \A e \in TwoPortEdges(x) : Oriented(e) /\ e.by = x.src /\ e.R = Magnitude(x.r)
      BY <1>0, BothOriented, ConnectAssumption
         DEF TwoPortEdges, TwoPortOfNegativeR, TwoPortOfR, Magnitude
    <3> QED BY <2>1, <3>1 DEF OfTwoPort
  <2>3. stage = "twoport" /\ UNCHANGED <<id, sumID, topoIJ, stage>> /\ connect \subseteq connect'
        /\ connect' \ connect \subseteq TwoPortEdges(x)
    BY <1>3 DEF ConnectTwoPort
  <2> QED BY <2>1, <2>2, <2>3, BranchStep
<1>4. ASSUME NEW x \in Tx3Neutral, ConnectThreePort(x) PROVE ConnectInv'
  <2>1. x.src \in Tx3 /\ todo' \subseteq {e \in Tx3Neutral : e.src \in Tx3}
    BY <1>0, <1>4 DEF ConnectThreePort, BranchInv
  <2>2. \A e \in ThreePortEdges(x) : OfThreePort(e)
    <3>1. \A e \in ThreePortEdges(x) : e.by = x.src /\ e.R = Magnitude(x.r)
      BY DEF ThreePortEdges, ThreePortOfNegativeR, ThreePortOfR, Magnitude, Both, Edge
    <3> QED BY <2>1, <3>1 DEF OfThreePort
  <2>3. stage = "threeport" /\ UNCHANGED <<id, sumID, topoIJ, stage>> /\ connect \subseteq connect'
        /\ connect' \ connect \subseteq ThreePortEdges(x)
    BY <1>4 DEF ConnectThreePort
  <2> QED BY <2>1, <2>2, <2>3, BranchStep
<1>5. CASE ConnectCompensators
  BY <1>5, CompensatorsInv
<1>6. CASE StartTwoPort \/ StartThreePort \/ ConnectDone
  <2>1. /\ stage # "compensator" /\ UNCHANGED <<id, sumID, topoIJ, connect>>
        /\ stage' \in {"twoport", "threeport", "connected"}
        /\ stage' = "twoport" => todo' \subseteq {e \in Tx2Edges : e.src \in Tx2}
        /\ stage' = "threeport" => todo' \subseteq {e \in Tx3Neutral : e.src \in Tx3}
    BY <1>6 DEF StartTwoPort, StartThreePort, ConnectDone
  <2> QED BY <2>1, BranchStep
<1>7. CASE UNCHANGED connectVars
  <2>1. UNCHANGED <<id, sumID, topoIJ, stage, todo, connect>>
    BY <1>7 DEF connectVars
  <2>2. Handled' = Handled /\ (\A s, n : SideOf(s, n)' = SideOf(s, n))
        /\ \A d : ToInt(id[d])' = ToInt(id[d])
    BY <2>1 DEF Handled, SideOf, ToInt, InService
  <2>3. ConnectTypeOK' /\ BranchInv'
    BY <1>0, <2>1 DEF ConnectTypeOK, BranchInv, InService
  <2>4. SideInv'
    BY <2>1, <2>2 DEF SideInv, ConnectInv
  <2>5. MadeInv'
    BY <2>1 DEF MadeInv, ConnectInv, Joins, NoneOf, InService
  <2> QED BY <2>3, <2>4, <2>5 DEF ConnectInv
<1> QED BY <1>1, <1>2, <1>3, <1>4, <1>5, <1>6, <1>7 DEF ConnectNext

LEMMA ConnectCorrect == Spec => []ConnectInv
<1>1. Init => ConnectInv
  BY ConnectInitInv DEF Init
<1>2. [Next]_vars => [ConnectNext]_connectVars
  BY DEF Next, vars, connectVars, cpVars
<1> QED BY <1>1, <1>2, ConnectNextInv, PTL DEF Spec

LEMMA SidesFromInv == ConnectInv => CompensatorsJoinSides
<1> SUFFICES ASSUME ConnectInv, stage # "compensator", NEW t \in {x[2] : x \in InService}
             PROVE
      LET I == SideOf(t, Compensator[t].iNd)
          J == SideOf(t, Compensator[t].jNd)
          none == topoIJ[t] = <<>> /\ \A e \in connect : e.by # t
      IN  /\ (I = {} \/ J = {}) => none
          /\ \A i \in I, j \in J : (i # j /\ Fits(id[i]) /\ Fits(id[j])) =>
                 IF id[i] # id[j] /\ id[i] # 0 /\ id[j] # 0
                 THEN Edge(t, id[i], id[j], 1, 0) \in connect /\ topoIJ[t] = <<id[i], id[j]>>
                 ELSE none
  BY DEF CompensatorsJoinSides
<1> DEFINE I == SideOf(t, Compensator[t].iNd)
           J == SideOf(t, Compensator[t].jNd)
<1>1. /\ ConnectTypeOK /\ SideInv /\ MadeInv /\ t \in DOMAIN Compensator /\ Compensator[t].off = 0
      /\ Handled = InService
  BY ConnectAssumption DEF ConnectInv, InService, Handled
<1>2. IF Joins(t) THEN topoIJ[t] = sumID[t] /\ Edge(t, sumID[t][1], sumID[t][2], 1, 0) \in connect
      ELSE NoneOf(t)
  BY <1>1 DEF MadeInv
<1>3. (I = {} \/ J = {}) => NoneOf(t)
  BY <1>1, <1>2 DEF SideInv, Joins
<1>4. ASSUME NEW i \in I, NEW j \in J, i # j, Fits(id[i]), Fits(id[j])
      PROVE  IF id[i] # id[j] /\ id[i] # 0 /\ id[j] # 0
             THEN Edge(t, id[i], id[j], 1, 0) \in connect /\ topoIJ[t] = <<id[i], id[j]>>
             ELSE NoneOf(t)
  <2>1. /\ i \in OpenCN /\ j \in OpenCN /\ <<i, t>> \in InService /\ <<j, t>> \in InService
        /\ CNid[i] = Compensator[t].iNd /\ CNid[j] = Compensator[t].jNd /\ CNid[i] # CNid[j]
    BY <1>1, <1>4, ConnectAssumption DEF SideOf, InService
  <2>2. id[i] \in Int /\ id[j] \in Int
    BY <1>1, <2>1 DEF ConnectTypeOK
  <2>3. sumID[t][1] = id[i] /\ sumID[t][2] = id[j]
    BY <1>1, <1>4, <2>1, <2>2, ToIntKeeps DEF SideInv
  <2>4. sumID[t] = <<id[i], id[j]>>
    BY <1>1, <2>3 DEF ConnectTypeOK
  <2> QED BY <1>2, <2>3, <2>4 DEF Joins
<1> QED BY <1>3, <1>4 DEF NoneOf

(* Whatever order the ids of CNs are written in, a compensator in service  *)
(* becomes an edge between the islands of its I and J sides (lines         *)
(* 484-560).                                                               *)
THEOREM Compensators == Spec => []CompensatorsJoinSides
  BY ConnectCorrect, SidesFromInv, PTL

(* Lines and transformers entered from both ends get edges that agree in   *)
(* orientation and resistance (lines 623 and 889).                         *)
THEOREM Branches == Spec => []OneOrientation
<1>1. ConnectInv => OneOrientation
  <2> SUFFICES ASSUME ConnectInv, NEW e \in connect, NEW f \in connect
               PROVE  /\ (e.by \in Passive /\ f.by \in Passive /\ e.from = f.from /\ e.to = f.to
                             /\ e.from # e.to) => e.reverse = f.reverse
                      /\ e.by = f.by => e.R = f.R /\ e.R >= 0
    BY DEF OneOrientation
  <2>1. /\ OfCompensator(e) \/ OfLine(e) \/ OfTwoPort(e) \/ OfThreePort(e)
        /\ OfCompensator(f) \/ OfLine(f) \/ OfTwoPort(f) \/ OfThreePort(f)
    BY DEF ConnectInv, BranchInv
  <2>2. \A x \in connect : x.by \in Passive => OfLine(x) \/ OfTwoPort(x)
    BY BranchAssumption
       DEF ConnectInv, BranchInv, Passive, OfCompensator, OfThreePort
  <2>3. \A x : OfLine(x) \/ OfTwoPort(x) => Oriented(x)
    BY DEF OfLine, OfTwoPort
  <2>4. \A r \in Int : Magnitude(r) \in Nat
    BY DEF Magnitude
  <2>5. ASSUME e.by = f.by PROVE e.R = f.R /\ e.R >= 0
    <3>1. CASE OfCompensator(e)
      BY <2>1, <2>5, <3>1, BranchAssumption DEF OfCompensator, OfLine, OfTwoPort, OfThreePort
    <3>2. CASE OfLine(e)
      <4>1. OfLine(f)
        BY <2>1, <2>5, <3>2, BranchAssumption DEF OfCompensator, OfLine, OfTwoPort, OfThreePort
      <4>2. PICK x \in DotEdges : e.by = x.id /\ e.R = Magnitude(x.r)
        BY <3>2 DEF OfLine
      <4>3. PICK y \in DotEdges : f.by = y.id /\ f.R = Magnitude(y.r)
        BY <4>1 DEF OfLine
      <4>4. Magnitude(x.r) = Magnitude(y.r) /\ x.r \in Int
        <5>1. /\ \A v \in DotEdges : v.r \in Int
              /\ \A v, w \in DotEdges : v.id = w.id => Magnitude(v.r) = Magnitude(w.r)
          BY BranchAssumption
        <5>2. x.id = y.id
          BY <2>5, <4>2, <4>3, Zenon
        <5> QED BY ONLY x \in DotEdges, y \in DotEdges, <5>1, <5>2, Zenon
      <4> QED BY <2>4, <4>2, <4>3, <4>4
    <3>3. CASE OfTwoPort(e)
      <4>1. OfTwoPort(f)
        BY <2>1, <2>5, <3>3, BranchAssumption DEF OfCompensator, OfLine, OfTwoPort, OfThreePort
      <4>2. PICK x \in Tx2Edges : e.by = x.src /\ e.R = Magnitude(x.r)
        BY <3>3 DEF OfTwoPort
      <4>3. PICK y \in Tx2Edges : f.by = y.src /\ f.R = Magnitude(y.r)
        BY <4>1 DEF OfTwoPort
      <4>4. Magnitude(x.r) = Magnitude(y.r) /\ x.r \in Int
        <5>1. /\ \A v \in Tx2Edges : v.r \in Int
              /\ \A v, w \in Tx2Edges : v.src = w.src => Magnitude(v.r) = Magnitude(w.r)
          BY BranchAssumption
        <5>2. x.src = y.src
          BY <2>5, <4>2, <4>3, Zenon
        <5> QED BY ONLY x \in Tx2Edges, y \in Tx2Edges, <5>1, <5>2, Zenon
      <4> QED BY <2>4, <4>2, <4>3, <4>4
    <3>4. CASE OfThreePort(e)
      <4>1. OfThreePort(f)
        BY <2>1, <2>5, <3>4, BranchAssumption DEF OfCompensator, OfLine, OfTwoPort, OfThreePort
      <4>2. PICK x \in Tx3Neutral : e.by = x.src /\ e.R = Magnitude(x.r)
        BY <3>4 DEF OfThreePort
      <4>3. PICK y \in Tx3Neutral : f.by = y.src /\ f.R = Magnitude(y.r)
        BY <4>1 DEF OfThreePort
      <4>4. Magnitude(x.r) = Magnitude(y.r) /\ x.r \in Int
        <5>1. /\ \A v \in Tx3Neutral : v.r \in Int
              /\ \A v, w \in Tx3Neutral : v.src = w.src => Magnitude(v.r) = Magnitude(w.r)
          BY BranchAssumption
        <5>2. x.src = y.src
          BY <2>5, <4>2, <4>3, Zenon
        <5> QED BY ONLY x \in Tx3Neutral, y \in Tx3Neutral, <5>1, <5>2, Zenon
      <4> QED BY <2>4, <4>2, <4>3, <4>4
    <3> QED BY <2>1, <3>1, <3>2, <3>3, <3>4
  <2>6. e.by \in Passive /\ f.by \in Passive /\ e.from = f.from /\ e.to = f.to /\ e.from # e.to
            => e.reverse = f.reverse
    BY <2>2, <2>3 DEF Oriented
  <2> QED BY <2>5, <2>6
<1> QED BY <1>1, ConnectCorrect, PTL
-----------------------------------------------------------------------------
(* The table of stages.                                                    *)

LEMMA Tuple4 ==
    ASSUME NEW a, NEW b, NEW c, NEW d, NEW R, {a, b, c, d} \subseteq R
    PROVE  <<a, b, c, d>> \in Seq(R) /\ Len(<<a, b, c, d>>) = 4
  OBVIOUS

LEMMA Tuple7 ==
    ASSUME NEW a, NEW b, NEW c, NEW d, NEW e, NEW f, NEW g, NEW R, {a, b, c, d, e, f, g} \subseteq R
    PROVE  <<a, b, c, d, e, f, g>> \in Seq(R) /\ Len(<<a, b, c, d, e, f, g>>) = 7
  OBVIOUS

LEMMA Concatenation ==
    ASSUME NEW R, NEW a \in Seq(R), NEW b \in Seq(R)
    PROVE  /\ a \o b \in Seq(R) /\ Len(a \o b) = Len(a) + Len(b)
           /\ \A i \in 1 .. Len(a) : (a \o b)[i] = a[i]
           /\ \A i \in 1 .. Len(b) : (a \o b)[Len(a) + i] = b[i]
  OBVIOUS

StageRecords ==
    {LineStages[i] : i \in 1 .. 7} \cup {SwitchStages[i] : i \in 1 .. 10}
        \cup {BusStages[i] : i \in 1 .. 4} \cup {LineNoStages[i] : i \in 1 .. 4}

LEMMA StageSequences ==
    /\ LineStages \in Seq(StageRecords) /\ Len(LineStages) = 7
    /\ SwitchStages \in Seq(StageRecords) /\ Len(SwitchStages) = 10
    /\ BusStages \in Seq(StageRecords) /\ Len(BusStages) = 4
    /\ LineNoStages \in Seq(StageRecords) /\ Len(LineNoStages) = 4
<1>0. ASSUME NEW R, \A i \in 1 .. 7 : LineStages[i] \in R,
             \A i \in 1 .. 4 : BusStages[i] \in R, \A i \in 1 .. 4 : LineNoStages[i] \in R,
             \A i \in 1 .. 10 : SwitchStages[i] \in R
      PROVE  /\ LineStages \in Seq(R) /\ Len(LineStages) = 7
             /\ SwitchStages \in Seq(R) /\ Len(SwitchStages) = 10
             /\ BusStages \in Seq(R) /\ Len(BusStages) = 4
             /\ LineNoStages \in Seq(R) /\ Len(LineNoStages) = 4
  <2>1. LineStages \in Seq(R) /\ Len(LineStages) = 7
    <3> DEFINE l1 == Stage({}, {"connected_Compensator_P_CN"}, "CN", TRUE, "meas")
               l2 == Hop(1, B \cup D)
               l3 == Hop(2, B \cup D)
               l4 == Hop(3, D)
               l5 == Hop(4, D)
               l6 == Stage({3, 5}, {"aclinedot_cn"}, Dots, FALSE, "q")
               l7 == Stage({6}, {"aclinedot_aclinedot", "aclinedot_aclinedot_reverse"}, Dots, TRUE, "out")
    <3>1. LineStages = <<l1, l2, l3, l4, l5, l6, l7>>
      BY Zenon DEF LineStages
    <3> HIDE DEF l1, l2, l3, l4, l5, l6, l7
    <3>2. {l1, l2, l3, l4, l5, l6, l7} \subseteq R
      BY <1>0, <3>1
    <3> QED BY <3>1, <3>2, Tuple7
  <2>2. SwitchStages \in Seq(R) /\ Len(SwitchStages) = 10
    BY <1>0 DEF SwitchStages
  <2>3. BusStages \in Seq(R) /\ Len(BusStages) = 4
    <3> DEFINE b1 == Stage({13}, {"connected_Bus_CN"}, "BUS", FALSE, "q")
               b2 == Stage({17}, {"connected_Bus_CN"}, "BUS", FALSE, "q")
               b3 == Stage({18}, {"topo_bus"}, "TopoND", TRUE, "bus")
               b4 == Stage({19}, {"topo_bus"}, "TopoND", TRUE, "bus")
    <3>1. BusStages = <<b1, b2, b3, b4>>
      BY Zenon DEF BusStages
    <3> HIDE DEF b1, b2, b3, b4
    <3>2. {b1, b2, b3, b4} \subseteq R
      BY <1>0, <3>1
    <3> QED BY <3>1, <3>2, Tuple4
  <2>4. LineNoStages \in Seq(R) /\ Len(LineNoStages) = 4
    <3> DEFINE n1 == Stage({6}, {"topo_aclinedot"}, "TopoND", TRUE, "count")
               n2 == Stage({6}, {"topo_aclinedot"}, "TopoND", TRUE, "list1")
               n3 == Stage({7}, {"topo_aclinedot"}, "TopoND", TRUE, "count")
               n4 == Stage({7}, {"topo_aclinedot"}, "TopoND", TRUE, "list2")
    <3>1. LineNoStages = <<n1, n2, n3, n4>>
      BY Zenon DEF LineNoStages
    <3> HIDE DEF n1, n2, n3, n4
    <3>2. {n1, n2, n3, n4} \subseteq R
      BY <1>0, <3>1
    <3> QED BY <3>1, <3>2, Tuple4
  <2> QED BY <2>1, <2>2, <2>3, <2>4
<1>1. /\ \A i \in 1 .. 7 : LineStages[i] \in StageRecords
      /\ \A i \in 1 .. 4 : BusStages[i] \in StageRecords
      /\ \A i \in 1 .. 4 : LineNoStages[i] \in StageRecords
      /\ \A i \in 1 .. 10 : SwitchStages[i] \in StageRecords
  BY DEF StageRecords
<1> QED BY <1>0, <1>1

LEMMA StageTable ==
    /\ Len(Stages) = 25
    /\ \A i \in 1 .. 7 : Stages[i] = LineStages[i]
    /\ \A i \in 1 .. 10 : Stages[7 + i] = SwitchStages[i]
    /\ \A i \in 1 .. 4 : Stages[17 + i] = BusStages[i]
    /\ \A i \in 1 .. 4 : Stages[21 + i] = LineNoStages[i]
<1> DEFINE two == LineStages \o SwitchStages
           three == two \o BusStages
<1>1. /\ two \in Seq(StageRecords) /\ Len(two) = 17
      /\ \A i \in 1 .. 7 : two[i] = LineStages[i]
      /\ \A i \in 1 .. 10 : two[7 + i] = SwitchStages[i]
  <2>1. LineStages \in Seq(StageRecords) /\ SwitchStages \in Seq(StageRecords)
    BY StageSequences
  <2>2. /\ LineStages \o SwitchStages \in Seq(StageRecords) /\ Len(LineStages \o SwitchStages) = Len(LineStages) + Len(SwitchStages)
        /\ \A i \in 1 .. Len(LineStages) : (LineStages \o SwitchStages)[i] = LineStages[i]
        /\ \A i \in 1 .. Len(SwitchStages) : (LineStages \o SwitchStages)[Len(LineStages) + i] = SwitchStages[i]
    BY <2>1, Concatenation
  <2>3. Len(LineStages) = 7 /\ Len(SwitchStages) = 10 /\ 7 + 10 = 17
    BY StageSequences
  <2> QED BY <2>2, <2>3, Zenon
<1> HIDE DEF two
<1>2. /\ three \in Seq(StageRecords) /\ Len(three) = 21
      /\ \A i \in 1 .. 17 : three[i] = two[i]
      /\ \A i \in 1 .. 4 : three[17 + i] = BusStages[i]
  <2>1. two \in Seq(StageRecords) /\ BusStages \in Seq(StageRecords)
    BY <1>1, StageSequences
  <2>2. /\ two \o BusStages \in Seq(StageRecords) /\ Len(two \o BusStages) = Len(two) + Len(BusStages)
        /\ \A i \in 1 .. Len(two) : (two \o BusStages)[i] = two[i]
        /\ \A i \in 1 .. Len(BusStages) : (two \o BusStages)[Len(two) + i] = BusStages[i]
    BY <2>1, Concatenation
  <2>3. Len(two) = 17 /\ Len(BusStages) = 4 /\ 17 + 4 = 21
    BY <1>1, StageSequences
  <2> QED BY <2>2, <2>3, Zenon
<1> HIDE DEF three
<1>3. /\ Len(three \o LineNoStages) = 25
      /\ \A i \in 1 .. 21 : (three \o LineNoStages)[i] = three[i]
      /\ \A i \in 1 .. 4 : (three \o LineNoStages)[21 + i] = LineNoStages[i]
  <2>1. three \in Seq(StageRecords) /\ LineNoStages \in Seq(StageRecords)
    BY <1>2, StageSequences
  <2>2. /\ three \o LineNoStages \in Seq(StageRecords) /\ Len(three \o LineNoStages) = Len(three) + Len(LineNoStages)
        /\ \A i \in 1 .. Len(three) : (three \o LineNoStages)[i] = three[i]
        /\ \A i \in 1 .. Len(LineNoStages) : (three \o LineNoStages)[Len(three) + i] = LineNoStages[i]
    BY <2>1, Concatenation
  <2>3. Len(three) = 21 /\ Len(LineNoStages) = 4 /\ 21 + 4 = 25
    BY <1>2, StageSequences
  <2> QED BY <2>2, <2>3, Zenon
<1>4. Stages = three \o LineNoStages
  BY Zenon DEF Stages, three, two
<1> HIDE DEF three
<1>5. Len(Stages) = 25 /\ \A i \in 1 .. 4 : Stages[21 + i] = LineNoStages[i]
  BY <1>3, <1>4
<1>6. \A i \in 1 .. 21 : Stages[i] = three[i]
  BY <1>3, <1>4
<1>7. \A i \in 1 .. 7 : i \in 1 .. 21 /\ i \in 1 .. 17
  OBVIOUS
<1>8. \A i \in 1 .. 10 : 7 + i \in 1 .. 21 /\ 7 + i \in 1 .. 17
  OBVIOUS
<1>9. \A i \in 1 .. 4 : 17 + i \in 1 .. 21
  OBVIOUS
<1> QED BY <1>1, <1>2, <1>5, <1>6, <1>7, <1>8, <1>9

(* What each stage does, and that it starts from earlier ones. *)
LEMMA StageKinds ==
    /\ Stages[1].what = "meas" /\ Stages[1].from = {} /\ Stages[1].needs = "CN"
    /\ \A i \in 2 .. 21 : Stages[i].what \in {"q", "out", "bus"}
    /\ \A i \in 22 .. 25 : Stages[i].needs = "TopoND" /\ Stages[i].ls = {"topo_aclinedot"}
    /\ Stages[22].what = "count" /\ Stages[22].from = {6}
    /\ Stages[23].what = "list1" /\ Stages[23].from = {6}
    /\ Stages[24].what = "count" /\ Stages[24].from = {7}
    /\ Stages[25].what = "list2" /\ Stages[25].from = {7}
<1>1. /\ LineStages[1].what = "meas" /\ LineStages[1].from = {} /\ LineStages[1].needs = "CN"
      /\ \A i \in 2 .. 7 : LineStages[i].what \in {"q", "out", "bus"}
  <2>1. LineStages[1].what = "meas" /\ LineStages[1].from = {} /\ LineStages[1].needs = "CN"
    BY DEF LineStages, Stage
  <2>2. /\ LineStages[2].what = "q" /\ LineStages[3].what = "q" /\ LineStages[4].what = "q"
        /\ LineStages[5].what = "q" /\ LineStages[6].what = "q" /\ LineStages[7].what = "out"
    BY DEF LineStages, Hop, Stage
  <2>3. \A i \in 2 .. 7 : i \in {2, 3, 4, 5, 6, 7}
    OBVIOUS
  <2> QED BY <2>1, <2>2, <2>3
<1>2. \A i \in 1 .. 10 : SwitchStages[i].what = "q"
  <2>1. /\ SwitchStages[1].what = "q" /\ SwitchStages[2].what = "q" /\ SwitchStages[3].what = "q"
        /\ SwitchStages[4].what = "q" /\ SwitchStages[5].what = "q" /\ SwitchStages[6].what = "q"
        /\ SwitchStages[7].what = "q" /\ SwitchStages[8].what = "q" /\ SwitchStages[9].what = "q"
        /\ SwitchStages[10].what = "q"
    BY DEF SwitchStages, Hop, Stage
  <2>2. \A i \in 1 .. 10 : i \in {1, 2, 3, 4, 5, 6, 7, 8, 9, 10}
    OBVIOUS
  <2> QED BY <2>1, <2>2
<1>3. \A i \in 1 .. 4 : BusStages[i].what \in {"q", "out", "bus"}
  BY DEF BusStages, Stage
<1>4. /\ \A i \in 1 .. 4 : LineNoStages[i].needs = "TopoND" /\ LineNoStages[i].ls = {"topo_aclinedot"}
      /\ LineNoStages[1].what = "count" /\ LineNoStages[1].from = {6}
      /\ LineNoStages[2].what = "list1" /\ LineNoStages[2].from = {6}
      /\ LineNoStages[3].what = "count" /\ LineNoStages[3].from = {7}
      /\ LineNoStages[4].what = "list2" /\ LineNoStages[4].from = {7}
  BY DEF LineNoStages, Stage
<1>5. /\ \A i \in 1 .. 7 : Stages[i] = LineStages[i]
      /\ \A i \in 8 .. 17 : Stages[i] = SwitchStages[i - 7]
      /\ \A i \in 18 .. 21 : Stages[i] = BusStages[i - 17]
      /\ \A i \in 22 .. 25 : Stages[i] = LineNoStages[i - 21]
  <2>1. \A i \in 8 .. 17 : i - 7 \in 1 .. 10 /\ 7 + (i - 7) = i
    OBVIOUS
  <2>2. \A i \in 18 .. 21 : i - 17 \in 1 .. 4 /\ 17 + (i - 17) = i
    OBVIOUS
  <2>3. \A i \in 22 .. 25 : i - 21 \in 1 .. 4 /\ 21 + (i - 21) = i
    OBVIOUS
  <2> QED BY <2>1, <2>2, <2>3, StageTable
<1>6. \A i \in 2 .. 21 : Stages[i].what \in {"q", "out", "bus"}
  BY <1>1, <1>2, <1>3, <1>5
<1> QED BY <1>1, <1>4, <1>5, <1>6
-----------------------------------------------------------------------------
(* The subsets that the stages return: their recursive definition has a    *)
(* solution, since every stage starts from earlier ones.                   *)

(* A set of naturals has a least member: induction, without a predicate.   *)
LEMMA LeastNat ==
    ASSUME NEW T, T \subseteq Nat, T # {}
    PROVE  \E x \in T : \A y \in T : x <= y
<1> DEFINE R == {ss \in Nat \X Nat : ss[1] < ss[2]}
<1>1. IsWellFoundedOn(R, Nat)
  BY NatLessThanWellFounded, Zenon DEF OpToRel
<1>2. \A x, y \in Nat : y < x => <<y, x>> \in R
  OBVIOUS
<1> HIDE DEF R
<1>3. PICK x \in T : \A y \in T : ~ (<<y, x>> \in R)
  BY <1>1, WFMin, Zenon
<1>4. \A y \in T : ~(y < x)
  BY <1>2, <1>3, Zenon
<1> QED BY <1>3, <1>4

(* What holds at 0, and at n + 1 when it holds at n, holds at all naturals.*)
LEMMA Induction ==
    ASSUME NEW T, 0 \in T, \A n \in Nat : n \in T => n + 1 \in T
    PROVE  Nat \subseteq T
<1> SUFFICES ASSUME Nat \ T # {} PROVE FALSE
  OBVIOUS
<1>1. PICK x \in Nat \ T : \A y \in Nat \ T : x <= y
  BY LeastNat
<1>2. x # 0 /\ x - 1 \in Nat /\ x - 1 \in T /\ x = (x - 1) + 1
  BY <1>1
<1> QED BY <1>1, <1>2

LEMMA StageFroms == \A i \in 1 .. 25 : Stages[i].from \subseteq 1 .. (i - 1)
<1>1. \A i \in 1 .. 7 : LineStages[i].from \subseteq 1 .. (i - 1)
  <2>1. /\ LineStages[1].from = {} /\ LineStages[2].from = {1} /\ LineStages[3].from = {2}
        /\ LineStages[4].from = {3} /\ LineStages[5].from = {4} /\ LineStages[6].from = {3, 5}
        /\ LineStages[7].from = {6}
    BY DEF LineStages, Hop, Stage
  <2>2. \A i \in 1 .. 7 : i \in {1, 2, 3, 4, 5, 6, 7}
    OBVIOUS
  <2> QED BY <2>1, <2>2
<1>2. \A i \in 1 .. 10 : SwitchStages[i].from \subseteq 1 .. ((7 + i) - 1)
  <2>1. /\ SwitchStages[1].from = {1} /\ SwitchStages[2].from = {8} /\ SwitchStages[3].from = {9}
        /\ SwitchStages[4].from = {10} /\ SwitchStages[5].from = {11} /\ SwitchStages[6].from = {12}
        /\ SwitchStages[7].from = {1} /\ SwitchStages[8].from = {14} /\ SwitchStages[9].from = {15}
        /\ SwitchStages[10].from = {16}
    BY DEF SwitchStages, Hop, Stage
  <2>2. \A i \in 1 .. 10 : i \in {1, 2, 3, 4, 5, 6, 7, 8, 9, 10}
    OBVIOUS
  <2> QED BY <2>1, <2>2
<1>3. \A i \in 1 .. 4 : BusStages[i].from \subseteq 1 .. ((17 + i) - 1)
  <2>1. /\ BusStages[1].from = {13} /\ BusStages[2].from = {17} /\ BusStages[3].from = {18}
        /\ BusStages[4].from = {19}
    BY DEF BusStages, Stage
  <2> QED BY <2>1
<1>4. \A i \in 1 .. 4 : LineNoStages[i].from \subseteq 1 .. ((21 + i) - 1)
  <2>1. /\ LineNoStages[1].from = {6} /\ LineNoStages[2].from = {6} /\ LineNoStages[3].from = {7}
        /\ LineNoStages[4].from = {7}
    BY DEF LineNoStages, Stage
  <2> QED BY <2>1
<1> SUFFICES ASSUME NEW i \in 1 .. 25 PROVE Stages[i].from \subseteq 1 .. (i - 1)
  OBVIOUS
<1>5. CASE i \in 1 .. 7
  BY <1>1, <1>5, StageTable
<1>6. CASE i \in 8 .. 17
  <2>1. i - 7 \in 1 .. 10 /\ 7 + (i - 7) = i
    BY <1>6
  <2> QED BY <1>2, <2>1, StageTable
<1>7. CASE i \in 18 .. 21
  <2>1. i - 17 \in 1 .. 4 /\ 17 + (i - 17) = i
    BY <1>7
  <2> QED BY <1>3, <2>1, StageTable
<1>8. CASE i \in 22 .. 25
  <2>1. i - 21 \in 1 .. 4 /\ 21 + (i - 21) = i
    BY <1>8
  <2> QED BY <1>4, <2>1, StageTable
<1> QED BY <1>5, <1>6, <1>7, <1>8

Earlier(f, i) == UNION {f[j] : j \in Stages[i].from}
Found(i, earlier) ==
    {t \in UNION {Targets(Stages[i], s) : s \in Sources(Stages[i], earlier)} :
        Stages[i].only => Wanted(Stages[i], t)}

LEMMA EarlierSame ==
    ASSUME NEW n \in 1 .. 25, NEW f, NEW g, \A j \in 1 .. (n - 1) : f[j] = g[j]
    PROVE  Earlier(f, n) = Earlier(g, n)
  BY StageFroms DEF Earlier

LEMMA SubsetIs == \A i \in 1 .. 25 : Subset[i] = Found(i, Earlier(Subset, i))
<1> DEFINE T == {n \in Nat : n <= 25 => \E g : \A i \in 1 .. n : g[i] = Found(i, Earlier(g, i))}
           Rec(f) == f = [i \in 1 .. Len(Stages) |-> Found(i, Earlier(f, i))]
<1>1. 0 \in T
  OBVIOUS
<1>2. ASSUME NEW n \in Nat, n \in T PROVE n + 1 \in T
  <2> SUFFICES ASSUME n + 1 <= 25
               PROVE  \E g : \A i \in 1 .. (n + 1) : g[i] = Found(i, Earlier(g, i))
    OBVIOUS
  <2>1. PICK g : \A i \in 1 .. n : g[i] = Found(i, Earlier(g, i))
    BY <1>2
  <2> DEFINE h == [i \in 1 .. (n + 1) |-> IF i = n + 1 THEN Found(n + 1, Earlier(g, n + 1)) ELSE g[i]]
  <2>2. h[n + 1] = Found(n + 1, Earlier(g, n + 1)) /\ \A i \in 1 .. n : h[i] = g[i]
    OBVIOUS
  <2> HIDE DEF h
  <2>3. \A i \in 1 .. (n + 1) : Earlier(h, i) = Earlier(g, i)
    <3> TAKE i \in 1 .. (n + 1)
    <3>1. i \in 1 .. 25 /\ \A j \in 1 .. (i - 1) : h[j] = g[j]
      BY <2>2
    <3> QED BY <3>1, EarlierSame
  <2>4. \A i \in 1 .. (n + 1) : i = n + 1 \/ i \in 1 .. n
    OBVIOUS
  <2>5. \A i \in 1 .. (n + 1) : h[i] = Found(i, Earlier(h, i))
    BY <2>1, <2>2, <2>3, <2>4
  <2> QED BY <2>5
<1> HIDE DEF T
<1>3. 25 \in T
  BY <1>1, <1>2, Induction
<1>4. PICK g : \A i \in 1 .. 25 : g[i] = Found(i, Earlier(g, i))
  BY <1>3 DEF T
<1> DEFINE f == [i \in 1 .. 25 |-> g[i]]
<1>5. \A i \in 1 .. 25 : f[i] = g[i]
  OBVIOUS
<1>6. \A i \in 1 .. 25 : Earlier(f, i) = Earlier(g, i)
  <2> TAKE i \in 1 .. 25
  <2> HIDE DEF f
  <2>1. \A j \in 1 .. (i - 1) : f[j] = g[j]
    BY <1>5
  <2> QED BY <2>1, EarlierSame
<1>7. f = [i \in 1 .. 25 |-> f[i]]
  OBVIOUS
<1> HIDE DEF f
<1>8. Rec(f)
  <2>1. \A i \in 1 .. 25 : f[i] = Found(i, Earlier(f, i))
    BY <1>4, <1>5, <1>6
  <2> QED BY <1>7, <2>1, StageTable
<1>9. Subset = CHOOSE x : Rec(x)
  BY Zenon DEF Subset, Found, Earlier
<1> HIDE DEF Rec
<1>10. Rec(Subset)
  BY <1>8, <1>9, Zenon
<1>11. Subset = [i \in 1 .. 25 |-> Found(i, Earlier(Subset, i))]
  BY <1>10, StageTable DEF Rec
<1> QED BY <1>11
-----------------------------------------------------------------------------
(* Which vertices the stages reach.                                        *)

LEMMA Neighbours ==
    ASSUME NEW s, NEW ls, NEW t \in neighborIDs(s, ls)
    PROVE  \E e \in Link : /\ e.label \in ls
                           /\ (e.src = s /\ e.dst = t) \/ (e.dst = s /\ e.src = t)
  BY DEF neighborIDs

(* Across a switch edge a CN becomes a switch, and a switch a CN. *)
LEMMA AcrossSwitch ==
    ASSUME NEW s, NEW ls, ls \in {B \cup D, D}, NEW t \in neighborIDs(s, ls)
    PROVE  "CN" \in Labels[s] <=> "CN" \notin Labels[t]
<1>1. PICK e \in Link : /\ e.label \in ls
                        /\ (e.src = s /\ e.dst = t) \/ (e.dst = s /\ e.src = t)
  BY Neighbours
<1>2. ("CN" \in Labels[e.src] <=> "CN" \notin Labels[e.dst])
  BY <1>1, SchemaAssumption DEF B, D
<1> QED BY <1>1, <1>2

LEMMA AcrossLineEnd ==
    ASSUME NEW s, "CN" \in Labels[s], NEW t \in neighborIDs(s, {"aclinedot_cn"})
    PROVE  "ACline_dot" \in Labels[t] /\ t \in Vertex
<1>1. PICK e \in Link : /\ e.label \in {"aclinedot_cn"}
                        /\ (e.src = s /\ e.dst = t) \/ (e.dst = s /\ e.src = t)
  BY Neighbours
<1>2. s \in Vertex /\ t \in Vertex
  BY <1>1, GraphAssumption
<1>3. "ACline_dot" \notin Labels[s]
  BY <1>2, SchemaAssumption
<1> QED BY <1>1, <1>2, <1>3, SchemaAssumption

(* What the first seven stages return. *)
LEMMA FirstSubsets ==
    /\ \A v \in Subset[1] \cup Subset[3] \cup Subset[5] : "CN" \in Labels[v]
    /\ \A v \in Subset[6] \cup Subset[7] : "ACline_dot" \in Labels[v]
<1>1. /\ LineStages[1].only = TRUE /\ LineStages[1].needs = "CN"
      /\ LineStages[2].from = {1} /\ LineStages[2].what = "q" /\ LineStages[2].ls = B \cup D
      /\ LineStages[3].from = {2} /\ LineStages[3].what = "q" /\ LineStages[3].ls = B \cup D
      /\ LineStages[4].from = {3} /\ LineStages[4].what = "q" /\ LineStages[4].ls = D
      /\ LineStages[5].from = {4} /\ LineStages[5].what = "q" /\ LineStages[5].ls = D
      /\ LineStages[6].from = {3, 5} /\ LineStages[6].what = "q" /\ LineStages[6].ls = {"aclinedot_cn"}
      /\ LineStages[7].only = TRUE /\ LineStages[7].needs = "ACline_dot"
  BY DEF LineStages, Hop, Stage, Dots
<1>2. \A i \in 1 .. 7 : Stages[i] = LineStages[i] /\ Subset[i] = Found(i, Earlier(Subset, i))
  BY StageTable, SubsetIs
<1>3. ASSUME NEW i \in 2 .. 6, NEW v \in Subset[i]
      PROVE  \E j \in Stages[i].from : \E s \in Subset[j] : v \in neighborIDs(s, Stages[i].ls)
  <2>1. i \in {2, 3, 4, 5, 6} /\ i \in 1 .. 7
    OBVIOUS
  <2>2. Stages[i].what = "q" /\ Stages[i].from # {}
    BY <1>1, <1>2, <2>1
  <2>3. PICK s \in Sources(Stages[i], Earlier(Subset, i)) : v \in Targets(Stages[i], s)
    BY <1>2, <2>1 DEF Found
  <2>4. s \in Earlier(Subset, i) /\ v \in neighborIDs(s, Stages[i].ls)
    <3>1. s \in Earlier(Subset, i)
      BY <2>2, <2>3 DEF Sources
    <3>2. PICK x \in Visit : x[1].label \in Stages[i].ls /\ Near(x) = s /\ Far(x) = v
      BY <2>2, <2>3 DEF Targets, Follows, LeadsTo
    <3> QED BY <3>1, <3>2 DEF Visit, Near, Far, neighborIDs
  <2> QED BY <2>4 DEF Earlier
<1>4. \A v \in Subset[1] : "CN" \in Labels[v]
  <2>1. Stages[1].only /\ Stages[1].needs = "CN" /\ Subset[1] = Found(1, Earlier(Subset, 1))
    BY <1>1, <1>2
  <2>2. \A v \in Subset[1] : Wanted(Stages[1], v)
    BY <2>1, Zenon DEF Found
  <2> QED BY <2>1, <2>2 DEF Wanted
<1>5. \A v \in Subset[2] : "CN" \notin Labels[v]
  <2>1. Stages[2].from = {1} /\ Stages[2].ls = B \cup D /\ 2 \in 2 .. 6
    BY <1>1, <1>2
  <2>2. \A v \in Subset[2] : \E s \in Subset[1] : v \in neighborIDs(s, B \cup D)
    BY <1>3, <2>1
  <2>3. \A s, v : v \in neighborIDs(s, B \cup D) => ("CN" \in Labels[s] <=> "CN" \notin Labels[v])
    BY AcrossSwitch, Zenon
  <2> QED BY <1>4, <2>2, <2>3, Zenon
<1>6. \A v \in Subset[3] : "CN" \in Labels[v]
  <2>1. Stages[3].from = {2} /\ Stages[3].ls = B \cup D /\ 3 \in 2 .. 6
    BY <1>1, <1>2
  <2>2. \A v \in Subset[3] : \E s \in Subset[2] : v \in neighborIDs(s, B \cup D)
    BY <1>3, <2>1
  <2>3. \A s, v : v \in neighborIDs(s, B \cup D) => ("CN" \in Labels[s] <=> "CN" \notin Labels[v])
    BY AcrossSwitch, Zenon
  <2> QED BY <1>5, <2>2, <2>3, Zenon
<1>7. \A v \in Subset[4] : "CN" \notin Labels[v]
  <2>1. Stages[4].from = {3} /\ Stages[4].ls = D /\ 4 \in 2 .. 6
    BY <1>1, <1>2
  <2>2. \A v \in Subset[4] : \E s \in Subset[3] : v \in neighborIDs(s, D)
    BY <1>3, <2>1
  <2>3. \A s, v : v \in neighborIDs(s, D) => ("CN" \in Labels[s] <=> "CN" \notin Labels[v])
    BY AcrossSwitch, Zenon
  <2> QED BY <1>6, <2>2, <2>3, Zenon
<1>8. \A v \in Subset[5] : "CN" \in Labels[v]
  <2>1. Stages[5].from = {4} /\ Stages[5].ls = D /\ 5 \in 2 .. 6
    BY <1>1, <1>2
  <2>2. \A v \in Subset[5] : \E s \in Subset[4] : v \in neighborIDs(s, D)
    BY <1>3, <2>1
  <2>3. \A s, v : v \in neighborIDs(s, D) => ("CN" \in Labels[s] <=> "CN" \notin Labels[v])
    BY AcrossSwitch, Zenon
  <2> QED BY <1>7, <2>2, <2>3, Zenon
<1>9. \A v \in Subset[6] : "ACline_dot" \in Labels[v]
  <2> TAKE v \in Subset[6]
  <2>1. PICK j \in {3, 5} : \E s \in Subset[j] : v \in neighborIDs(s, {"aclinedot_cn"})
    <3>1. Stages[6].from = {3, 5} /\ Stages[6].ls = {"aclinedot_cn"} /\ 6 \in 2 .. 6
      BY <1>1, <1>2
    <3> QED BY <1>3, <3>1
  <2>2. PICK s \in Subset[j] : v \in neighborIDs(s, {"aclinedot_cn"})
    BY <2>1
  <2>3. "CN" \in Labels[s]
    BY <1>6, <1>8, <2>1, <2>2
  <2> QED BY <2>2, <2>3, AcrossLineEnd
<1>10. \A v \in Subset[7] : "ACline_dot" \in Labels[v]
  <2>1. Stages[7].only /\ Stages[7].needs = "ACline_dot" /\ Subset[7] = Found(7, Earlier(Subset, 7))
    BY <1>1, <1>2
  <2>2. \A v \in Subset[7] : Wanted(Stages[7], v)
    BY <2>1, Zenon DEF Found
  <2> QED BY <2>1, <2>2 DEF Wanted
<1> QED BY <1>4, <1>6, <1>8, <1>9, <1>10

(* What a stage writes. *)
LEMMA WritesOf ==
    ASSUME NEW i \in 1 .. 25
    PROVE  \A w : w \in Writes(i) <=>
              \E s \in Sources(Stages[i], Earlier(Subset, i)) :
                  \E x \in Follows(Stages[i], s) :
                      /\ Wanted(Stages[i], LeadsTo(Stages[i], x))
                      /\ w = [s |-> s, t |-> LeadsTo(Stages[i], x), via |-> x]
<1>1. Writes(i) = UNION {{[s |-> s, t |-> LeadsTo(Stages[i], x), via |-> x] :
                             x \in {y \in Follows(Stages[i], s) : Wanted(Stages[i], LeadsTo(Stages[i], y))}} :
                            s \in Sources(Stages[i], Earlier(Subset, i))}
  BY StageTable DEF Writes, Earlier
<1> QED BY <1>1

LEMMA LeadsToVertex ==
    ASSUME NEW st, NEW x \in Visit
    PROVE  LeadsTo(st, x) \in Vertex /\ Near(x) \in Vertex
<1>1. x[1] \in Link
  BY DEF Visit
<1> QED BY <1>1, GraphAssumption DEF LeadsTo, Near, Far

LEMMA TargetsAreVertices ==
    ASSUME NEW st, NEW s, NEW t \in Targets(st, s)
    PROVE  t \in Vertex
  BY LeadsToVertex DEF Targets, Follows

(* The visits that count a line at a TopoND, and those that list one. *)
Lines(n, i) ==
    {x \in Visit : x[1].label = "topo_aclinedot" /\ Near(x) \in Subset[i] /\ Far(x) = n}
Lists(n, i) ==
    {x \in Visit : x[1].label = "topo_aclinedot" /\ Near(x) \in Subset[i] /\ x[1].dst = n}

(* A write is known by its visit and its target. *)
Proper(w) == w = [s |-> Near(w.via), t |-> w.t, via |-> w.via]

LEMMA LastWrites ==
    /\ \A w : w \in Writes(22) <=> Proper(w) /\ w.t \in With("TopoND") /\ w.via \in Lines(w.t, 6)
    /\ \A w : w \in Writes(23) <=> Proper(w) /\ w.t \in With("TopoND") /\ w.via \in Lists(w.t, 6)
    /\ \A w : w \in Writes(24) <=> Proper(w) /\ w.t \in With("TopoND") /\ w.via \in Lines(w.t, 7)
    /\ \A w : w \in Writes(25) <=> Proper(w) /\ w.t \in With("TopoND") /\ w.via \in Lists(w.t, 7)
<1>1. ASSUME NEW i \in 22 .. 25, NEW k, Stages[i].from = {k}
      PROVE  /\ Stages[i].what = "count" => \A w : w \in Writes(i) <=>
                   Proper(w) /\ w.t \in With("TopoND") /\ w.via \in Lines(w.t, k)
             /\ Stages[i].what \in {"list1", "list2"} => \A w : w \in Writes(i) <=>
                   Proper(w) /\ w.t \in With("TopoND") /\ w.via \in Lists(w.t, k)
  <2>1. Stages[i].needs = "TopoND" /\ Stages[i].ls = {"topo_aclinedot"} /\ Earlier(Subset, i) = Subset[k]
    BY <1>1, StageKinds DEF Earlier
  <2>2. Stages[i].what # "bus" => Sources(Stages[i], Earlier(Subset, i)) = Subset[k]
    BY <1>1, <2>1 DEF Sources
  <2>3. \A t \in Vertex : Wanted(Stages[i], t) <=> t \in With("TopoND")
    BY <2>1 DEF Wanted, With
  <2>4. i \in 1 .. 25 /\ With("TopoND") \subseteq Vertex
    BY DEF With
  <2>5. ASSUME Stages[i].what \in {"count", "list1", "list2"}, NEW w
        PROVE  w \in Writes(i) <=>
                 \E s \in Subset[k] : \E x \in Visit :
                     /\ x[1].label = "topo_aclinedot" /\ Near(x) = s
                     /\ LeadsTo(Stages[i], x) \in With("TopoND")
                     /\ w = [s |-> s, t |-> LeadsTo(Stages[i], x), via |-> x]
    <3>1. \A s, x : x \in Follows(Stages[i], s) <=>
                       x \in Visit /\ x[1].label = "topo_aclinedot" /\ Near(x) = s
      BY <2>1, <2>5 DEF Follows
    <3>2. \A x \in Visit : Wanted(Stages[i], LeadsTo(Stages[i], x))
                              <=> LeadsTo(Stages[i], x) \in With("TopoND")
      BY <2>3, LeadsToVertex
    <3>3. w \in Writes(i) <=>
            \E s \in Subset[k] : \E x \in Follows(Stages[i], s) :
                      /\ Wanted(Stages[i], LeadsTo(Stages[i], x))
                      /\ w = [s |-> s, t |-> LeadsTo(Stages[i], x), via |-> x]
      BY <2>2, <2>4, <2>5, WritesOf
    <3> QED BY <3>1, <3>2, <3>3
  <2>6. ASSUME Stages[i].what = "count", NEW w
        PROVE  w \in Writes(i) <=>
                   Proper(w) /\ w.t \in With("TopoND") /\ w.via \in Lines(w.t, k)
    <3>1. \A x : LeadsTo(Stages[i], x) = Far(x)
      BY <2>6 DEF LeadsTo
    <3> QED BY <2>5, <2>6, <3>1 DEF Lines, Proper
  <2>7. ASSUME Stages[i].what \in {"list1", "list2"}, NEW w
        PROVE  w \in Writes(i) <=>
                   Proper(w) /\ w.t \in With("TopoND") /\ w.via \in Lists(w.t, k)
    <3>1. \A x : LeadsTo(Stages[i], x) = x[1].dst
      BY <2>7 DEF LeadsTo
    <3> QED BY <2>5, <2>7, <3>1 DEF Lists, Proper
  <2> QED BY <2>6, <2>7
<1>2. 22 \in 22 .. 25 /\ 23 \in 22 .. 25 /\ 24 \in 22 .. 25 /\ 25 \in 22 .. 25
  OBVIOUS
<1> QED BY <1>1, <1>2, StageKinds

(* A TopoND is no line end. *)
LEMMA NodeIsNoEnd ==
    ASSUME NEW n \in With("TopoND"), NEW i \in {6, 7}
    PROVE  n \notin Subset[i]
<1>1. n \in Vertex /\ "TopoND" \in Labels[n]
  BY DEF With
<1> QED BY <1>1, FirstSubsets, SchemaAssumption

(* A line is counted where it is listed. *)
LEMMA ListedAreCounted ==
    ASSUME NEW n \in With("TopoND"), NEW i \in {6, 7}
    PROVE  Lists(n, i) \subseteq Lines(n, i)
  BY NodeIsNoEnd DEF Lists, Lines, Near, Far

LEMMA LinesFinite ==
    ASSUME NEW n, NEW i
    PROVE  IsFiniteSet(Lines(n, i))
<1>1. IsFiniteSet({"out", "in"})
  <2>1. IsFiniteSet({"out"})
    BY FS_Singleton
  <2> QED BY <2>1, FS_AddElement
<1>2. IsFiniteSet(Visit)
  BY <1>1, SchemaAssumption, FS_Product DEF Visit
<1>3. Lines(n, i) \subseteq Visit
  BY DEF Lines
<1> QED BY <1>2, <1>3, FS_Subset

(* A TopoND sees each of its lines from one side only, so that it has as   *)
(* many visits as edges.                                                   *)
LEMMA VisitsAreEdges ==
    ASSUME NEW n \in With("TopoND"), NEW i \in {6, 7}
    PROVE  Cardinality(Lines(n, i)) = Cardinality(AclineEdges(n, i))
<1> DEFINE f == [x \in Lines(n, i) |-> x[1]]
<1>1. \A x \in Lines(n, i) : x[1] \in AclineEdges(n, i)
  BY DEF Lines, AclineEdges, Visit, Near, Far
<1>2. \A x, y \in Lines(n, i) : x[1] = y[1] => x = y
  <2> SUFFICES ASSUME NEW x \in Lines(n, i), NEW y \in Lines(n, i), x[1] = y[1] PROVE x = y
    OBVIOUS
  <2>1. x \in Visit /\ y \in Visit /\ Far(x) = n /\ Far(y) = n /\ Near(x) # n /\ Near(y) # n
    BY NodeIsNoEnd DEF Lines
  <2>2. x[2] = y[2]
    BY <2>1 DEF Visit, Near, Far
  <2> QED BY <2>1, <2>2 DEF Visit
<1>3. \A e \in AclineEdges(n, i) : \E x \in Lines(n, i) : x[1] = e
  <2> TAKE e \in AclineEdges(n, i)
  <2>1. e \in Link /\ e.label = "topo_aclinedot"
    BY DEF AclineEdges
  <2>2. CASE e.src = n /\ e.dst \in Subset[i]
    <3>1. <<e, "in">> \in Lines(n, i)
      BY <2>1, <2>2 DEF Lines, Visit, Near, Far
    <3> QED BY <3>1
  <2>3. CASE e.dst = n /\ e.src \in Subset[i]
    <3>1. <<e, "out">> \in Lines(n, i)
      BY <2>1, <2>3 DEF Lines, Visit, Near, Far
    <3> QED BY <3>1
  <2> QED BY <2>2, <2>3 DEF AclineEdges
<1>4. f \in Bijection(Lines(n, i), AclineEdges(n, i))
  <2>1. \A x \in Lines(n, i) : f[x] = x[1]
    OBVIOUS
  <2>2. f \in [Lines(n, i) -> AclineEdges(n, i)]
    BY <1>1
  <2> HIDE DEF f
  <2>3. f \in Injection(Lines(n, i), AclineEdges(n, i))
    <3>1. \A a, b \in Lines(n, i) : f[a] = f[b] => a = b
      BY <1>2, <2>1
    <3> QED BY <2>2, <3>1 DEF Injection, IsInjective
  <2>4. f \in Surjection(Lines(n, i), AclineEdges(n, i))
    <3>1. \A e \in AclineEdges(n, i) : \E a \in Lines(n, i) : f[a] = e
      BY <1>3, <2>1
    <3> QED BY <2>2, <3>1 DEF Surjection
  <2> QED BY <2>3, <2>4 DEF Bijection
<1>5. ExistsBijection(Lines(n, i), AclineEdges(n, i))
  BY <1>4 DEF ExistsBijection
<1> QED BY <1>5, LinesFinite, FS_Bijection
-----------------------------------------------------------------------------
(* The invariant of the last stages.                                       *)

Pair(h) == [s |-> h.s, t |-> h.t, via |-> h.via]
Zeros == {0, MinBits}
Entry == [name : Vertex, num : Zeros, den : Nat \ {0}]

(* The visits whose write to n is yet to come. *)
Open(n) == {w.via : w \in {x \in left : x.t = n}} \cup {h.via : h \in {x \in holding : x.t = n}}

TaskInv ==
    /\ at \in 1 .. 27
    /\ at <= 25 => left \subseteq Writes(at)
    /\ at > 25 => left = {} /\ holding = {}
    /\ \A h \in holding : Pair(h) \in Writes(at) \ left
    /\ \A h, k \in holding : Pair(h) = Pair(k) => h = k

(* After the first stage a value that is read is 0.0 or -0.0, since only a *)
(* CN may have another, and the stages that convert nothing start from     *)
(* line ends.                                                              *)
ValueInv ==
    /\ DOMAIN q = Vertex
    /\ \A v \in Vertex : q[v] \notin Zeros => "CN" \in Labels[v]
    /\ busQ \in [Vertex -> Zeros]
    /\ at > 1 => \A h \in holding : h.bits \in Zeros
    /\ lineNo \in [Vertex -> Nat]
    /\ listed \in [Vertex -> Seq(Entry)]

Counted(n, i) == Cardinality(Lines(n, i))
CountInv ==
    \A n \in With("TopoND") :
        /\ at < 22 => lineNo[n] = 0 /\ Len(listed[n]) = 0
        /\ at = 22 => lineNo[n] = Cardinality(Lines(n, 6) \ Open(n)) /\ Len(listed[n]) = 0
        /\ at = 23 => /\ lineNo[n] = Counted(n, 6)
                      /\ Len(listed[n]) <= Cardinality(Lists(n, 6) \ Open(n))
        /\ at = 24 => /\ lineNo[n] = Counted(n, 6) + Cardinality(Lines(n, 7) \ Open(n))
                      /\ Len(listed[n]) <= Counted(n, 6)
        /\ at = 25 => /\ lineNo[n] = Counted(n, 6) + Counted(n, 7)
                      /\ Len(listed[n]) <= Counted(n, 6) + Cardinality(Lists(n, 7) \ Open(n))
        /\ at > 25 => /\ lineNo[n] = Counted(n, 6) + Counted(n, 7)
                      /\ Len(listed[n]) <= Counted(n, 6) + Counted(n, 7)

CpInv == TaskInv /\ ValueInv /\ CountInv
-----------------------------------------------------------------------------
LEMMA WritesAreVertices ==
    ASSUME NEW i \in 1 .. 25, NEW w \in Writes(i)
    PROVE  w.s \in Vertex /\ w.t \in Vertex /\ Proper(w) /\ w.s = Near(w.via) /\ Wanted(Stages[i], w.t)
<1>0. PICK s \in Sources(Stages[i], Earlier(Subset, i)) :
          \E x \in Follows(Stages[i], s) :
              /\ Wanted(Stages[i], LeadsTo(Stages[i], x))
              /\ w = [s |-> s, t |-> LeadsTo(Stages[i], x), via |-> x]
  BY WritesOf
<1>1. PICK x \in Follows(Stages[i], s) :
              /\ Wanted(Stages[i], LeadsTo(Stages[i], x))
              /\ w = [s |-> s, t |-> LeadsTo(Stages[i], x), via |-> x]
  BY <1>0
<1>2. LeadsTo(Stages[i], x) \in Vertex /\ Near(x) = s
  BY LeadsToVertex DEF Follows
<1>3. vCP1 \subseteq Vertex
  <2>1. \A v, ls : neighborIDs(v, ls) \subseteq Vertex
    BY GraphAssumption DEF neighborIDs
  <2> QED BY <2>1 DEF vCP1
<1>4. Earlier(Subset, i) \subseteq Vertex
  <2>1. \A j \in 1 .. 25 : Subset[j] \subseteq Vertex
    BY SubsetIs, TargetsAreVertices DEF Found
  <2>2. \A j \in Stages[i].from : j \in 1 .. 25
    BY StageFroms
  <2> QED BY <2>1, <2>2 DEF Earlier
<1>5. s \in Vertex
  BY <1>3, <1>4 DEF Sources
<1> QED BY <1>1, <1>2, <1>5 DEF Proper

LEMMA CpInitInv == CpInit => CpInv
<1> SUFFICES ASSUME CpInit PROVE CpInv
  OBVIOUS
<1>1. TaskInv
  BY DEF CpInit, TaskInv
<1>2. ValueInv
  <2>1. listed \in [Vertex -> Seq(Entry)]
    BY DEF CpInit
  <2> QED BY <2>1 DEF CpInit, ValueInv, Zeros
<1>3. CountInv
  BY DEF CpInit, CountInv, With
<1> QED BY <1>1, <1>2, <1>3 DEF CpInv

(* One task less: one line more is counted. *)
LEMMA OneMore ==
    ASSUME NEW N, IsFiniteSet(N), NEW O, NEW s \in N, s \in O
    PROVE  /\ Cardinality(N \ (O \ {s})) = Cardinality(N \ O) + 1
           /\ Cardinality(N \ O) \in Nat
<1>1. IsFiniteSet(N \ O)
  BY FS_Difference
<1>2. N \ (O \ {s}) = (N \ O) \cup {s} /\ s \notin N \ O
  OBVIOUS
<1> QED BY <1>1, <1>2, FS_AddElement, FS_CardinalityType

LEMMA LineCounts ==
    ASSUME NEW n, NEW i, NEW O
    PROVE  /\ Counted(n, i) \in Nat
           /\ Cardinality(Lines(n, i) \ O) \in Nat
  BY LinesFinite, FS_Difference, FS_CardinalityType DEF Counted

LEMMA ListCounts ==
    ASSUME NEW n \in With("TopoND"), NEW i \in {6, 7}, NEW O
    PROVE  /\ IsFiniteSet(Lists(n, i))
           /\ Cardinality(Lists(n, i) \ O) \in Nat
           /\ Cardinality(Lists(n, i)) <= Counted(n, i)
<1>1. IsFiniteSet(Lists(n, i)) /\ Cardinality(Lists(n, i)) <= Counted(n, i)
  BY LinesFinite, ListedAreCounted, FS_Subset DEF Counted
<1> QED BY <1>1, FS_Difference, FS_CardinalityType

(* A task reads: nothing is finished by that. *)
LEMMA ReadInv ==
    ASSUME CpInv, NEW w \in left, ReadOwn(w)
    PROVE  CpInv'
<1>1. /\ TaskInv /\ ValueInv /\ CountInv /\ at \in 1 .. 25 /\ w \in Writes(at)
      /\ left' = left \ {w} /\ UNCHANGED <<at, q, busQ, lineNo, listed, reset>>
  <2>1. TaskInv /\ ValueInv /\ CountInv
    BY DEF CpInv
  <2>2. at \in 1 .. 25 /\ w \in Writes(at)
    BY <2>1 DEF TaskInv
  <2> QED BY <2>1, <2>2 DEF ReadOwn
<1>2. w.s \in Vertex /\ w.t \in Vertex /\ Proper(w) /\ w.s = Near(w.via)
  BY <1>1, WritesAreVertices
<1>3. PICK bits : /\ holding' = holding \cup {[s |-> w.s, t |-> w.t, via |-> w.via, bits |-> bits]}
                  /\ bits \in CASE Stages[at].what = "meas" -> {Qimeas[w.s]}
                               [] Stages[at].what \in {"q", "out"} -> Truncated(q[w.s])
                               [] Stages[at].what = "bus" -> Truncated(AbsHundredth(q[w.s]))
                               [] OTHER -> {q[w.s]}
  BY DEF ReadOwn
<1> DEFINE new == [s |-> w.s, t |-> w.t, via |-> w.via, bits |-> bits]
<1>4. Pair(new) = w /\ new.s = w.s /\ new.t = w.t /\ new.via = w.via /\ new.bits = bits
  BY <1>2 DEF Pair, Proper
<1>5. at > 1 => bits \in Zeros
  <2> SUFFICES ASSUME at > 1 PROVE bits \in Zeros
    OBVIOUS
  <2>1. \A b : Truncated(b) \subseteq Zeros
    BY DEF Truncated, Zeros
  <2>2. CASE at \in 2 .. 21
    <3>1. Stages[at].what \in {"q", "out", "bus"}
      BY <2>2, StageKinds
    <3> QED BY <1>3, <2>1, <3>1
  <2>3. CASE at \in 22 .. 25
    <3>1. at \in {22, 23, 24, 25}
      BY <2>3
    <3>2. Stages[at].what \in {"count", "list1", "list2"}
      BY <3>1, StageKinds
    <3>3. bits = q[w.s]
      BY <1>3, <3>2
    <3>4. w.s \in Subset[6] \cup Subset[7]
      BY <1>1, <1>2, <3>1, LastWrites DEF Lines, Lists
    <3>5. "CN" \notin Labels[w.s]
      BY <1>2, <3>4, FirstSubsets, SchemaAssumption
    <3> QED BY <1>1, <1>2, <3>3, <3>5 DEF ValueInv
  <2> QED BY <1>1, <2>2, <2>3
<1>6. TaskInv'
  <2> HIDE DEF new
  <2>1. \A h \in holding' : Pair(h) \in Writes(at) \ left'
    BY <1>1, <1>3, <1>4 DEF TaskInv, new
  <2>2. \A h, k \in holding' : Pair(h) = Pair(k) => h = k
    BY <1>1, <1>3, <1>4 DEF TaskInv, new
  <2> QED BY <1>1, <2>1, <2>2 DEF TaskInv
<1>7. ValueInv'
  BY <1>1, <1>3, <1>4, <1>5 DEF ValueInv
<1>8. \A n : Open(n)' = Open(n)
  BY <1>1, <1>2, <1>3, <1>4 DEF Open
<1>9. CountInv'
  BY <1>1, <1>8 DEF CountInv
<1> QED BY <1>6, <1>7, <1>9 DEF CpInv

(* A task writes: it is closed at the vertex it wrote to, and there only. *)
LEMMA WriteCloses ==
    ASSUME TaskInv, NEW h \in holding, WriteOther(h)
    PROVE  /\ TaskInv' /\ at \in 1 .. 25
           /\ Pair(h) \in Writes(at) /\ h.via \in Open(h.t)
           /\ Open(h.t)' = Open(h.t) \ {h.via}
           /\ \A n : n # h.t => Open(n)' = Open(n)
<1>1. at \in 1 .. 25 /\ Pair(h) \in Writes(at) \ left /\ left \subseteq Writes(at)
  BY DEF TaskInv
<1>2. holding' = holding \ {h} /\ left' = left /\ at' = at
  BY DEF WriteOther
<1>3. TaskInv'
  BY <1>1, <1>2 DEF TaskInv
<1>4. h.via \in Open(h.t)
  BY DEF Open
<1>5. \A w \in left : w.t = h.t => w.via # h.via
  <2>1. \A w \in Writes(at) : Proper(w)
    BY <1>1, WritesAreVertices
  <2>2. Pair(h).t = h.t /\ Pair(h).via = h.via
    BY DEF Pair
  <2> QED BY <1>1, <2>1, <2>2 DEF Proper
<1>6. \A k \in holding : k.t = h.t /\ k.via = h.via => k = h
  <2>1. \A k \in holding : Pair(k) \in Writes(at) /\ Pair(k).t = k.t /\ Pair(k).via = k.via
    BY DEF TaskInv, Pair
  <2>2. \A w \in Writes(at) : Proper(w)
    BY <1>1, WritesAreVertices
  <2>3. \A k \in holding : k.t = h.t /\ k.via = h.via => Pair(k) = Pair(h)
    BY <2>1, <2>2 DEF Proper
  <2> QED BY <2>3 DEF TaskInv
<1>7. Open(h.t)' = Open(h.t) \ {h.via}
  BY <1>2, <1>5, <1>6 DEF Open
<1>8. \A n : n # h.t => Open(n)' = Open(n)
  BY <1>2 DEF Open
<1> QED BY <1>1, <1>3, <1>4, <1>7, <1>8

LEMMA WriteValues ==
    ASSUME CpInv, NEW h \in holding, WriteOther(h)
    PROVE  ValueInv'
<1>1. TaskInv /\ ValueInv /\ CountInv
  BY DEF CpInv
<1>2. at \in 1 .. 25 /\ Pair(h) \in Writes(at) /\ at' = at /\ holding' \subseteq holding
  BY <1>1, WriteCloses DEF WriteOther
<1>3. h.s \in Vertex /\ h.t \in Vertex /\ Wanted(Stages[at], h.t)
  <2>1. Pair(h).s = h.s /\ Pair(h).t = h.t
    BY DEF Pair
  <2> QED BY <1>2, <2>1, WritesAreVertices
<1>4. at > 1 => h.bits \in Zeros
  BY <1>1 DEF ValueInv
<1>5. CASE WriteQimeas(h)
  <2>1. q' = [q EXCEPT ![h.t] = h.bits] /\ busQ' = busQ /\ lineNo' = lineNo /\ listed' = listed
    BY <1>5 DEF WriteQimeas
  <2>2. at = 1 => "CN" \in Labels[h.t]
    <3>1. Stages[1].needs = "CN" /\ "CN" # ""
      BY StageKinds
    <3>2. at = 1 => Wanted(Stages[1], h.t)
      BY <1>3, Zenon
    <3> QED BY ONLY <3>1, <3>2, Zenon DEF Wanted
  <2>3. h.bits \in Zeros \/ "CN" \in Labels[h.t]
    BY <1>2, <1>4, <2>2
  <2>4. DOMAIN q = Vertex /\ \A v \in Vertex : q[v] \notin Zeros => "CN" \in Labels[v]
    BY <1>1 DEF ValueInv
  <2>5. DOMAIN q' = Vertex /\ \A v \in Vertex : q'[v] \notin Zeros => "CN" \in Labels[v]
    BY <1>3, <2>1, <2>3, <2>4
  <2> QED BY <1>1, <1>2, <2>1, <2>5 DEF ValueInv
<1>6. CASE WriteBusQMeas(h)
  <2>1. at > 1
    BY <1>2, <1>6, StageKinds DEF WriteBusQMeas
  <2>2. busQ' \in [Vertex -> Zeros]
    BY <1>1, <1>3, <1>4, <1>6, <2>1 DEF WriteBusQMeas, ValueInv
  <2> QED BY <1>1, <1>2, <1>6, <2>2 DEF WriteBusQMeas, ValueInv
<1>7. CASE CountLine(h)
  <2>1. lineNo' \in [Vertex -> Nat]
    BY <1>1, <1>3, <1>7 DEF CountLine, ValueInv
  <2> QED BY <1>1, <1>2, <1>7, <2>1 DEF CountLine, ValueInv
<1>8. CASE ListLine(h)
  <2> DEFINE e == IF Stages[at].what = "list1" THEN [name |-> h.s, num |-> AbsHundredth(h.bits), den |-> 1]
                  ELSE [name |-> h.s, num |-> busQ[h.t], den |-> lineNo[h.t]]
  <2>1. /\ listed' = [listed EXCEPT ![h.t] = Append(@, e)]
        /\ Stages[at].what \in {"list1", "list2"} /\ q' = q /\ busQ' = busQ /\ lineNo' = lineNo
    BY <1>8 DEF ListLine
  <2>2. at = 23 \/ at = 25
    <3>1. at \in 2 .. 21 => FALSE
      BY <2>1, StageKinds
    <3>2. at \in {1, 22, 24} => FALSE
      BY <2>1, StageKinds
    <3> QED BY <1>2, <3>1, <3>2
  <2>3. at = 23 => e \in Entry
    <3> SUFFICES ASSUME at = 23 PROVE e \in Entry
      OBVIOUS
    <3>1. e = [name |-> h.s, num |-> AbsHundredth(h.bits), den |-> 1]
      BY StageKinds
    <3>2. h.bits \in Zeros
      BY <1>4
    <3>3. AbsHundredth(h.bits) = 0
      BY <3>2, GraphAssumption DEF AbsHundredth, Zeros
    <3> QED BY <1>3, <3>1, <3>3 DEF Entry, Zeros
  <2>4. at = 25 => e \in Entry
    <3> SUFFICES ASSUME at = 25 PROVE e \in Entry
      OBVIOUS
    <3>1. e = [name |-> h.s, num |-> busQ[h.t], den |-> lineNo[h.t]]
      BY StageKinds
    <3>2. h.t \in With("TopoND") /\ h.via \in Lists(h.t, 7)
      <4>1. Pair(h).via = h.via /\ Pair(h).t = h.t
        BY DEF Pair
      <4> QED BY <1>2, <4>1, LastWrites
    <3>3. Counted(h.t, 7) \in Nat /\ Counted(h.t, 7) # 0 /\ Counted(h.t, 6) \in Nat
      <4>1. h.via \in Lines(h.t, 7)
        BY <3>2, ListedAreCounted
      <4>2. Cardinality(Lines(h.t, 7)) # 0
        BY <4>1, LinesFinite, FS_EmptySet
      <4> QED BY <4>2, LineCounts DEF Counted
    <3>4. lineNo[h.t] = Counted(h.t, 6) + Counted(h.t, 7)
      BY <1>1, <3>2 DEF CountInv
    <3>5. lineNo[h.t] \in Nat \ {0}
      BY <3>3, <3>4
    <3>6. busQ[h.t] \in Zeros
      BY <1>1, <1>3 DEF ValueInv
    <3> QED BY <1>3, <3>1, <3>5, <3>6 DEF Entry
  <2>5. e \in Entry
    BY <2>2, <2>3, <2>4
  <2> HIDE DEF e
  <2>6. listed' \in [Vertex -> Seq(Entry)]
    <3>1. listed \in [Vertex -> Seq(Entry)]
      BY <1>1 DEF ValueInv
    <3>2. Append(listed[h.t], e) \in Seq(Entry)
      BY <1>3, <2>5, <3>1
    <3> QED BY <1>3, <2>1, <3>1, <3>2
  <2> QED BY <1>1, <1>2, <2>1, <2>6 DEF ValueInv
<1> QED BY <1>5, <1>6, <1>7, <1>8 DEF WriteOther

(* Which of the four writes a stage does. *)
LEMMA WriteKinds ==
    ASSUME at \in 1 .. 25, NEW h, WriteOther(h)
    PROVE  /\ at < 22 => lineNo' = lineNo /\ listed' = listed
           /\ at \in {22, 24} => lineNo' = [lineNo EXCEPT ![h.t] = @ + 1] /\ listed' = listed
           /\ at \in {23, 25} => lineNo' = lineNo /\ \E e : listed' = [listed EXCEPT ![h.t] = Append(@, e)]
<1>1. at < 22 => Stages[at].what \in {"meas", "q", "out", "bus"}
  <2>1. at < 22 => at = 1 \/ at \in 2 .. 21
    OBVIOUS
  <2> QED BY <2>1, StageKinds
<1>2. at \in {22, 24} => Stages[at].what = "count"
  BY StageKinds
<1>3. at \in {23, 25} => Stages[at].what \in {"list1", "list2"}
  BY StageKinds
<1>4. WriteQimeas(h) \/ WriteBusQMeas(h) \/ CountLine(h) \/ ListLine(h)
  BY DEF WriteOther
<1>5. Stages[at].what \in {"meas", "q", "out", "bus"} => lineNo' = lineNo /\ listed' = listed
  BY <1>4 DEF WriteQimeas, WriteBusQMeas, CountLine, ListLine
<1>6. Stages[at].what = "count" => lineNo' = [lineNo EXCEPT ![h.t] = @ + 1] /\ listed' = listed
  BY <1>4 DEF WriteQimeas, WriteBusQMeas, CountLine, ListLine
<1>7. Stages[at].what \in {"list1", "list2"} =>
          lineNo' = lineNo /\ \E e : listed' = [listed EXCEPT ![h.t] = Append(@, e)]
  <2>1. Stages[at].what \in {"list1", "list2"} => ListLine(h)
    BY <1>4 DEF WriteQimeas, WriteBusQMeas, CountLine
  <2>2. ListLine(h) => lineNo' = lineNo /\ \E e : listed' = [listed EXCEPT ![h.t] = Append(@, e)]
    BY Zenon DEF ListLine
  <2> QED BY <2>1, <2>2
<1> QED BY <1>1, <1>2, <1>3, <1>5, <1>6, <1>7

LEMMA WriteCounts ==
    ASSUME CpInv, NEW h \in holding, WriteOther(h)
    PROVE  CountInv'
<1>1. TaskInv /\ ValueInv /\ CountInv
  BY DEF CpInv
<1>2. /\ at \in 1 .. 25 /\ at' = at /\ Pair(h) \in Writes(at) /\ h.via \in Open(h.t)
      /\ Open(h.t)' = Open(h.t) \ {h.via} /\ \A n : n # h.t => Open(n)' = Open(n)
  BY <1>1, WriteCloses DEF WriteOther
<1>3. /\ at < 22 => lineNo' = lineNo /\ listed' = listed
      /\ at \in {22, 24} => lineNo' = [lineNo EXCEPT ![h.t] = @ + 1] /\ listed' = listed
      /\ at \in {23, 25} => lineNo' = lineNo /\ \E e : listed' = [listed EXCEPT ![h.t] = Append(@, e)]
  BY <1>2, WriteKinds
<1>4. lineNo \in [Vertex -> Nat] /\ listed \in [Vertex -> Seq(Entry)] /\ listed' \in [Vertex -> Seq(Entry)]
  BY <1>1, WriteValues DEF ValueInv
<1>5. Pair(h).via = h.via /\ Pair(h).t = h.t
  BY DEF Pair
<1>6. /\ at = 22 => h.t \in With("TopoND") /\ h.via \in Lines(h.t, 6)
      /\ at = 23 => h.t \in With("TopoND") /\ h.via \in Lists(h.t, 6)
      /\ at = 24 => h.t \in With("TopoND") /\ h.via \in Lines(h.t, 7)
      /\ at = 25 => h.t \in With("TopoND") /\ h.via \in Lists(h.t, 7)
  BY <1>2, <1>5, LastWrites
<1>7. ASSUME NEW n \in With("TopoND"), n # h.t
      PROVE  lineNo'[n] = lineNo[n] /\ Len(listed'[n]) = Len(listed[n]) /\ Open(n)' = Open(n)
  <2>1. at < 22 \/ at \in {22, 24} \/ at \in {23, 25}
    BY <1>2
  <2>2. n \in Vertex
    BY DEF With
  <2> QED BY <1>2, <1>3, <1>4, <1>7, <2>1, <2>2
<1>8. ASSUME h.t \in With("TopoND")
      PROVE  /\ at \in {22, 24} => lineNo'[h.t] = lineNo[h.t] + 1 /\ listed' = listed
             /\ at \in {23, 25} => lineNo' = lineNo /\ Len(listed'[h.t]) = Len(listed[h.t]) + 1
  <2>1. h.t \in Vertex
    BY <1>8 DEF With
  <2>2. at \in {22, 24} => lineNo'[h.t] = lineNo[h.t] + 1 /\ listed' = listed
    BY <1>3, <1>4, <2>1
  <2>3. ASSUME at \in {23, 25} PROVE Len(listed'[h.t]) = Len(listed[h.t]) + 1
    <3>1. PICK e : listed' = [listed EXCEPT ![h.t] = Append(@, e)]
      BY <1>3, <2>3
    <3>2. listed[h.t] \in Seq(Entry) /\ listed'[h.t] = Append(listed[h.t], e)
      BY <1>4, <2>1, <3>1
    <3> QED BY <3>2
  <2> QED BY <1>3, <2>2, <2>3
<1>9. /\ at = 22 => /\ Cardinality(Lines(h.t, 6) \ Open(h.t)') = Cardinality(Lines(h.t, 6) \ Open(h.t)) + 1
                    /\ Cardinality(Lines(h.t, 6) \ Open(h.t)) \in Nat
      /\ at = 24 => /\ Cardinality(Lines(h.t, 7) \ Open(h.t)') = Cardinality(Lines(h.t, 7) \ Open(h.t)) + 1
                    /\ Cardinality(Lines(h.t, 7) \ Open(h.t)) \in Nat
  <2>1. at = 22 => /\ Cardinality(Lines(h.t, 6) \ Open(h.t)') = Cardinality(Lines(h.t, 6) \ Open(h.t)) + 1
                 /\ Cardinality(Lines(h.t, 6) \ Open(h.t)) \in Nat
    <3> SUFFICES ASSUME at = 22
                 PROVE  /\ Cardinality(Lines(h.t, 6) \ Open(h.t)') = Cardinality(Lines(h.t, 6) \ Open(h.t)) + 1
                        /\ Cardinality(Lines(h.t, 6) \ Open(h.t)) \in Nat
      OBVIOUS
    <3>1. h.via \in Lines(h.t, 6) /\ IsFiniteSet(Lines(h.t, 6))
      BY <1>6, LinesFinite
    <3>2. h.via \in Open(h.t) /\ Open(h.t)' = Open(h.t) \ {h.via}
      BY <1>2
    <3>3. /\ Cardinality(Lines(h.t, 6) \ (Open(h.t) \ {h.via})) = Cardinality(Lines(h.t, 6) \ Open(h.t)) + 1
          /\ Cardinality(Lines(h.t, 6) \ Open(h.t)) \in Nat
      BY <3>1, <3>2, OneMore
    <3> QED BY <3>2, <3>3, Zenon
  <2>2. at = 24 => /\ Cardinality(Lines(h.t, 7) \ Open(h.t)') = Cardinality(Lines(h.t, 7) \ Open(h.t)) + 1
                 /\ Cardinality(Lines(h.t, 7) \ Open(h.t)) \in Nat
    <3> SUFFICES ASSUME at = 24
                 PROVE  /\ Cardinality(Lines(h.t, 7) \ Open(h.t)') = Cardinality(Lines(h.t, 7) \ Open(h.t)) + 1
                        /\ Cardinality(Lines(h.t, 7) \ Open(h.t)) \in Nat
      OBVIOUS
    <3>1. h.via \in Lines(h.t, 7) /\ IsFiniteSet(Lines(h.t, 7))
      BY <1>6, LinesFinite
    <3>2. h.via \in Open(h.t) /\ Open(h.t)' = Open(h.t) \ {h.via}
      BY <1>2
    <3>3. /\ Cardinality(Lines(h.t, 7) \ (Open(h.t) \ {h.via})) = Cardinality(Lines(h.t, 7) \ Open(h.t)) + 1
          /\ Cardinality(Lines(h.t, 7) \ Open(h.t)) \in Nat
      BY <3>1, <3>2, OneMore
    <3> QED BY <3>2, <3>3, Zenon
  <2> QED BY <2>1, <2>2
<1>10. /\ at = 23 => /\ Cardinality(Lists(h.t, 6) \ Open(h.t)') = Cardinality(Lists(h.t, 6) \ Open(h.t)) + 1
                     /\ Cardinality(Lists(h.t, 6) \ Open(h.t)) \in Nat
       /\ at = 25 => /\ Cardinality(Lists(h.t, 7) \ Open(h.t)') = Cardinality(Lists(h.t, 7) \ Open(h.t)) + 1
                     /\ Cardinality(Lists(h.t, 7) \ Open(h.t)) \in Nat
  <2>1. at = 23 => /\ Cardinality(Lists(h.t, 6) \ Open(h.t)') = Cardinality(Lists(h.t, 6) \ Open(h.t)) + 1
                 /\ Cardinality(Lists(h.t, 6) \ Open(h.t)) \in Nat
    <3> SUFFICES ASSUME at = 23
                 PROVE  /\ Cardinality(Lists(h.t, 6) \ Open(h.t)') = Cardinality(Lists(h.t, 6) \ Open(h.t)) + 1
                        /\ Cardinality(Lists(h.t, 6) \ Open(h.t)) \in Nat
      OBVIOUS
    <3>1. h.via \in Lists(h.t, 6) /\ IsFiniteSet(Lists(h.t, 6))
      BY <1>6, ListCounts
    <3>2. h.via \in Open(h.t) /\ Open(h.t)' = Open(h.t) \ {h.via}
      BY <1>2
    <3>3. /\ Cardinality(Lists(h.t, 6) \ (Open(h.t) \ {h.via})) = Cardinality(Lists(h.t, 6) \ Open(h.t)) + 1
          /\ Cardinality(Lists(h.t, 6) \ Open(h.t)) \in Nat
      BY <3>1, <3>2, OneMore
    <3> QED BY <3>2, <3>3, Zenon
  <2>2. at = 25 => /\ Cardinality(Lists(h.t, 7) \ Open(h.t)') = Cardinality(Lists(h.t, 7) \ Open(h.t)) + 1
                 /\ Cardinality(Lists(h.t, 7) \ Open(h.t)) \in Nat
    <3> SUFFICES ASSUME at = 25
                 PROVE  /\ Cardinality(Lists(h.t, 7) \ Open(h.t)') = Cardinality(Lists(h.t, 7) \ Open(h.t)) + 1
                        /\ Cardinality(Lists(h.t, 7) \ Open(h.t)) \in Nat
      OBVIOUS
    <3>1. h.via \in Lists(h.t, 7) /\ IsFiniteSet(Lists(h.t, 7))
      BY <1>6, ListCounts
    <3>2. h.via \in Open(h.t) /\ Open(h.t)' = Open(h.t) \ {h.via}
      BY <1>2
    <3>3. /\ Cardinality(Lists(h.t, 7) \ (Open(h.t) \ {h.via})) = Cardinality(Lists(h.t, 7) \ Open(h.t)) + 1
          /\ Cardinality(Lists(h.t, 7) \ Open(h.t)) \in Nat
      BY <3>1, <3>2, OneMore
    <3> QED BY <3>2, <3>3, Zenon
  <2> QED BY <2>1, <2>2
<1>11. \A n : Counted(n, 6) \in Nat /\ Counted(n, 7) \in Nat
  BY LineCounts
<1>12. \A n \in With("TopoND") : Len(listed[n]) \in Nat /\ lineNo[n] \in Nat
  BY <1>4 DEF With
<1> SUFFICES ASSUME NEW n \in With("TopoND")
             PROVE  /\ at < 22 => lineNo'[n] = 0 /\ Len(listed'[n]) = 0
                    /\ at = 22 => lineNo'[n] = Cardinality(Lines(n, 6) \ Open(n)') /\ Len(listed'[n]) = 0
                    /\ at = 23 => /\ lineNo'[n] = Counted(n, 6)
                                  /\ Len(listed'[n]) <= Cardinality(Lists(n, 6) \ Open(n)')
                    /\ at = 24 => /\ lineNo'[n] = Counted(n, 6) + Cardinality(Lines(n, 7) \ Open(n)')
                                  /\ Len(listed'[n]) <= Counted(n, 6)
                    /\ at = 25 => /\ lineNo'[n] = Counted(n, 6) + Counted(n, 7)
                                  /\ Len(listed'[n]) <= Counted(n, 6) + Cardinality(Lists(n, 7) \ Open(n)')
                    /\ ~(at > 25)
  BY <1>2 DEF CountInv, With, Lines, Lists, Counted
<1>13. /\ at < 22 => lineNo[n] = 0 /\ Len(listed[n]) = 0
       /\ at = 22 => lineNo[n] = Cardinality(Lines(n, 6) \ Open(n)) /\ Len(listed[n]) = 0
       /\ at = 23 => /\ lineNo[n] = Counted(n, 6)
                     /\ Len(listed[n]) <= Cardinality(Lists(n, 6) \ Open(n))
       /\ at = 24 => /\ lineNo[n] = Counted(n, 6) + Cardinality(Lines(n, 7) \ Open(n))
                     /\ Len(listed[n]) <= Counted(n, 6)
       /\ at = 25 => /\ lineNo[n] = Counted(n, 6) + Counted(n, 7)
                     /\ Len(listed[n]) <= Counted(n, 6) + Cardinality(Lists(n, 7) \ Open(n))
  BY <1>1 DEF CountInv
<1>14. CASE n # h.t
  <2>1. lineNo'[n] = lineNo[n] /\ Len(listed'[n]) = Len(listed[n]) /\ Open(n)' = Open(n)
    BY <1>7, <1>14
  <2>2. ~(at > 25)
    BY <1>2
  <2> QED BY <1>13, <2>1, <2>2, Zenon
<1>15. CASE n = h.t
  <2>1. at < 22 => lineNo'[n] = 0 /\ Len(listed'[n]) = 0
    BY <1>3, <1>13
  <2>2. at = 22 => lineNo'[n] = Cardinality(Lines(n, 6) \ Open(n)') /\ Len(listed'[n]) = 0
    BY <1>8, <1>9, <1>13, <1>15
  <2>3. at = 23 => /\ lineNo'[n] = Counted(n, 6)
                   /\ Len(listed'[n]) <= Cardinality(Lists(n, 6) \ Open(n)')
    BY <1>8, <1>10, <1>12, <1>13, <1>15
  <2>4. at = 24 => /\ lineNo'[n] = Counted(n, 6) + Cardinality(Lines(n, 7) \ Open(n)')
                   /\ Len(listed'[n]) <= Counted(n, 6)
    BY <1>8, <1>9, <1>11, <1>13, <1>15
  <2>5. at = 25 => /\ lineNo'[n] = Counted(n, 6) + Counted(n, 7)
                   /\ Len(listed'[n]) <= Counted(n, 6) + Cardinality(Lists(n, 7) \ Open(n)')
    BY <1>8, <1>10, <1>11, <1>12, <1>13, <1>15
  <2> QED BY <1>2, <2>1, <2>2, <2>3, <2>4, <2>5, SMTT(40)
<1> QED BY <1>14, <1>15

(* A stage ends with nothing open; the next one opens all that it counts.  *)
LEMMA NextOpens ==
    ASSUME TaskInv, NextStage, NEW n \in With("TopoND")
    PROVE  /\ Open(n) = {}
           /\ at' = 22 => Lines(n, 6) \ Open(n)' = {}
           /\ at' = 24 => Lines(n, 7) \ Open(n)' = {}
<1>1. left = {} /\ holding = {} /\ left' = Writes(at + 1) /\ at' = at + 1
  BY DEF NextStage
<1>2. Open(n) = {}
  BY <1>1 DEF Open
<1>3. ASSUME NEW i, NEW k, i = at', \A w : w \in Writes(i) <=>
              Proper(w) /\ w.t \in With("TopoND") /\ w.via \in Lines(w.t, k)
      PROVE  Lines(n, k) \ Open(n)' = {}
  <2> SUFFICES ASSUME NEW x \in Lines(n, k) PROVE x \in Open(n)'
    OBVIOUS
  <2> DEFINE w == [s |-> Near(x), t |-> n, via |-> x]
  <2>1. Proper(w) /\ w.t = n /\ w.via = x
    BY DEF Proper
  <2> HIDE DEF w
  <2>2. w \in left'
    BY <1>1, <1>3, <2>1
  <2> QED BY <2>1, <2>2 DEF Open
<1>4. at' = 22 => Lines(n, 6) \ Open(n)' = {}
  BY <1>3, LastWrites
<1>5. at' = 24 => Lines(n, 7) \ Open(n)' = {}
  BY <1>3, LastWrites
<1> QED BY <1>2, <1>4, <1>5

LEMMA NextStageInv == CpInv /\ NextStage => CpInv'
<1> SUFFICES ASSUME CpInv, NextStage PROVE CpInv'
  OBVIOUS
<1>1. TaskInv /\ ValueInv /\ CountInv
  BY DEF CpInv
<1>2. /\ at \in 1 .. 25 /\ at' = at + 1 /\ left' = Writes(at + 1) /\ holding' = {}
      /\ q' = q /\ busQ' = busQ /\ lineNo' = lineNo /\ listed' = listed
  BY <1>1, StageTable DEF TaskInv, NextStage
<1>3. TaskInv'
  <2>1. at = 25 => left' = {}
    BY <1>2, StageTable DEF Writes
  <2> QED BY <1>2, <2>1 DEF TaskInv
<1>4. ValueInv'
  BY <1>1, <1>2 DEF ValueInv
<1>5. CountInv'
  <2>1. \A n \in With("TopoND") : Len(listed[n]) \in Nat /\ lineNo[n] \in Nat
    BY <1>1 DEF ValueInv, With
  <2> SUFFICES ASSUME NEW n \in With("TopoND")
               PROVE  /\ at' < 22 => lineNo[n] = 0 /\ Len(listed[n]) = 0
                      /\ at' = 22 => lineNo[n] = Cardinality(Lines(n, 6) \ Open(n)') /\ Len(listed[n]) = 0
                      /\ at' = 23 => /\ lineNo[n] = Counted(n, 6)
                                     /\ Len(listed[n]) <= Cardinality(Lists(n, 6) \ Open(n)')
                      /\ at' = 24 => /\ lineNo[n] = Counted(n, 6) + Cardinality(Lines(n, 7) \ Open(n)')
                                     /\ Len(listed[n]) <= Counted(n, 6)
                      /\ at' = 25 => /\ lineNo[n] = Counted(n, 6) + Counted(n, 7)
                                     /\ Len(listed[n]) <= Counted(n, 6) + Cardinality(Lists(n, 7) \ Open(n)')
                      /\ at' > 25 => /\ lineNo[n] = Counted(n, 6) + Counted(n, 7)
                                     /\ Len(listed[n]) <= Counted(n, 6) + Counted(n, 7)
    BY <1>2 DEF CountInv, With, Lines, Lists, Counted
  <2>2. /\ Open(n) = {}
        /\ at' = 22 => Lines(n, 6) \ Open(n)' = {}
        /\ at' = 24 => Lines(n, 7) \ Open(n)' = {}
    BY <1>1, NextOpens
  <2>3. /\ at < 22 => lineNo[n] = 0 /\ Len(listed[n]) = 0
        /\ at = 22 => lineNo[n] = Cardinality(Lines(n, 6)) /\ Len(listed[n]) = 0
        /\ at = 23 => lineNo[n] = Counted(n, 6) /\ Len(listed[n]) <= Cardinality(Lists(n, 6))
        /\ at = 24 => /\ lineNo[n] = Counted(n, 6) + Cardinality(Lines(n, 7))
                      /\ Len(listed[n]) <= Counted(n, 6)
        /\ at = 25 => /\ lineNo[n] = Counted(n, 6) + Counted(n, 7)
                      /\ Len(listed[n]) <= Counted(n, 6) + Cardinality(Lists(n, 7))
    <3>1. \A S : S \ Open(n) = S
      BY <2>2
    <3>2. /\ at < 22 => lineNo[n] = 0 /\ Len(listed[n]) = 0
          /\ at = 22 => lineNo[n] = Cardinality(Lines(n, 6) \ Open(n)) /\ Len(listed[n]) = 0
          /\ at = 23 => lineNo[n] = Counted(n, 6) /\ Len(listed[n]) <= Cardinality(Lists(n, 6) \ Open(n))
          /\ at = 24 => /\ lineNo[n] = Counted(n, 6) + Cardinality(Lines(n, 7) \ Open(n))
                        /\ Len(listed[n]) <= Counted(n, 6)
          /\ at = 25 => /\ lineNo[n] = Counted(n, 6) + Counted(n, 7)
                        /\ Len(listed[n]) <= Counted(n, 6) + Cardinality(Lists(n, 7) \ Open(n))
      BY <1>1 DEF CountInv
    <3> QED BY <3>1, <3>2, Zenon
  <2>4. /\ Counted(n, 6) = Cardinality(Lines(n, 6)) /\ Counted(n, 7) = Cardinality(Lines(n, 7))
        /\ Counted(n, 6) \in Nat /\ Counted(n, 7) \in Nat
    BY LineCounts DEF Counted
  <2>5. /\ Cardinality(Lists(n, 6)) <= Counted(n, 6) /\ Cardinality(Lists(n, 7)) <= Counted(n, 7)
        /\ Cardinality(Lists(n, 6)) \in Nat /\ Cardinality(Lists(n, 7)) \in Nat
        /\ Cardinality(Lists(n, 6) \ Open(n)') \in Nat /\ Cardinality(Lists(n, 7) \ Open(n)') \in Nat
    BY ListCounts, FS_CardinalityType
  <2>6. /\ at' = 22 => Cardinality(Lines(n, 6) \ Open(n)') = 0
        /\ at' = 24 => Cardinality(Lines(n, 7) \ Open(n)') = 0
    BY <2>2, FS_EmptySet
  <2>7. /\ at' < 22 => at < 22
        /\ at' = 22 => at < 22
        /\ at' = 23 => at = 22
        /\ at' = 24 => at = 23
        /\ at' = 25 => at = 24
        /\ at' > 25 => at = 25
    BY <1>2
  <2> DEFINE ln == lineNo[n]
             li == Len(listed[n])
  <2>8. at' < 22 => ln = 0 /\ li = 0
    BY <2>3, <2>7
  <2>9. at' = 22 => ln = Cardinality(Lines(n, 6) \ Open(n)') /\ li = 0
    BY <2>3, <2>6, <2>7
  <2>10. at' = 23 => ln = Counted(n, 6) /\ li <= Cardinality(Lists(n, 6) \ Open(n)')
    BY <2>3, <2>4, <2>5, <2>7
  <2>11. at' = 24 => /\ ln = Counted(n, 6) + Cardinality(Lines(n, 7) \ Open(n)')
                     /\ li <= Counted(n, 6)
    BY <2>1, <2>3, <2>4, <2>5, <2>6, <2>7
  <2>12. at' = 25 => /\ ln = Counted(n, 6) + Counted(n, 7)
                     /\ li <= Counted(n, 6) + Cardinality(Lists(n, 7) \ Open(n)')
    BY <2>1, <2>3, <2>4, <2>5, <2>7
  <2>13. at' > 25 => ln = Counted(n, 6) + Counted(n, 7) /\ li <= Counted(n, 6) + Counted(n, 7)
    BY <2>1, <2>3, <2>4, <2>5, <2>7, SMTT(40)
  <2> QED BY <2>8, <2>9, <2>10, <2>11, <2>12, <2>13, Zenon
<1> QED BY <1>3, <1>4, <1>5 DEF CpInv

LEMMA CpNextInv ==
    ASSUME CpInv, CpNext \/ UNCHANGED cpVars
    PROVE  CpInv'
<1>1. ASSUME NEW w \in left, ReadOwn(w) PROVE CpInv'
  BY <1>1, ReadInv
<1>2. ASSUME NEW h \in holding, WriteOther(h) PROVE CpInv'
  <2>1. TaskInv /\ TaskInv'
    BY <1>2, WriteCloses DEF CpInv
  <2> QED BY <1>2, <2>1, WriteValues, WriteCounts DEF CpInv
<1>3. ASSUME NextStage PROVE CpInv'
  BY <1>3, NextStageInv
<1>4. ASSUME ResetEdges PROVE CpInv'
  <2>1. TaskInv /\ ValueInv /\ CountInv
    BY DEF CpInv
  <2>2. /\ at = 26 /\ at' = 27 /\ UNCHANGED <<left, holding, q, busQ, lineNo, listed>>
    BY <1>4, StageTable DEF ResetEdges
  <2>3. TaskInv'
    BY <2>1, <2>2 DEF TaskInv
  <2>4. ValueInv'
    BY <2>1, <2>2 DEF ValueInv
  <2>5. CountInv'
    BY <2>1, <2>2 DEF CountInv
  <2> QED BY <2>3, <2>4, <2>5 DEF CpInv
<1>5. ASSUME UNCHANGED cpVars PROVE CpInv'
  BY <1>5 DEF cpVars, CpInv, TaskInv, ValueInv, CountInv, Open
<1> QED BY <1>1, <1>2, <1>3, <1>4, <1>5 DEF CpNext

LEMMA CpCorrect == Spec => []CpInv
<1>1. Init => CpInv
  BY CpInitInv DEF Init
<1>2. CpInv /\ [Next]_vars => CpInv'
  <2> SUFFICES ASSUME CpInv, [Next]_vars PROVE CpInv'
    OBVIOUS
  <2>1. CpNext \/ UNCHANGED cpVars
    BY DEF Next, vars
  <2> QED BY <2>1, CpNextInv
<1> QED BY <1>1, <1>2, PTL DEF Spec

(* sumBusQMeas is never divided by a sumLineNo of 0                        *)
(* (NetworkTopoProcedure.cpp:1703), and at the end a TopoND counts each    *)
(* edge to a line end of the two subsets, parallel ones one by one, and    *)
(* lists no more of them.                                                  *)
THEOREM LineNumbers == Spec => []LinesCounted
<1>1. CpInv => LinesCounted
  <2> SUFFICES ASSUME TaskInv, ValueInv, CountInv PROVE LinesCounted
    BY DEF CpInv
  <2>1. ASSUME NEW v \in Vertex, NEW i \in DOMAIN listed[v] PROVE listed[v][i].den > 0
    <3>1. listed[v] \in Seq(Entry)
      BY DEF ValueInv
    <3>2. listed[v][i] \in Entry
      BY <2>1, <3>1
    <3>3. listed[v][i].den \in Nat \ {0}
      BY <3>2 DEF Entry
    <3> QED BY <3>3
  <2>2. ASSUME at > Len(Stages), NEW n \in With("TopoND")
        PROVE  /\ lineNo[n] = Cardinality(AclineEdges(n, 6)) + Cardinality(AclineEdges(n, 7))
               /\ Len(listed[n]) <= lineNo[n]
    <3>1. at > 25
      BY <2>2, StageTable
    <3>2. lineNo[n] = Counted(n, 6) + Counted(n, 7) /\ Len(listed[n]) <= Counted(n, 6) + Counted(n, 7)
      BY <3>1 DEF CountInv
    <3>3. Counted(n, 6) = Cardinality(AclineEdges(n, 6)) /\ Counted(n, 7) = Cardinality(AclineEdges(n, 7))
      BY VisitsAreEdges DEF Counted
    <3> QED BY <3>2, <3>3
  <2> QED BY <2>1, <2>2 DEF LinesCounted
<1> QED BY <1>1, CpCorrect, PTL
=============================================================================
