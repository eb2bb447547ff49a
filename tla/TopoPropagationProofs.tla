------------------------ MODULE TopoPropagationProofs ------------------------
(***************************************************************************)
(* Proofs about the merge loop of TopoPropagation, for every network,      *)
(* every set of closed switches, every seeding, every width of the ids and *)
(* every number of threads.                                                *)
(***************************************************************************)
EXTENDS TopoPropagation, FiniteSetTheorems, TLAPS

(* The helpers of the two atomic writes stay within the width of an id. *)
LEMMA IdArithmetic ==
    ASSUME NEW a \in ID, NEW b \in ID
    PROVE  /\ Larger(a, b) \in ID
           /\ Larger(a, b) >= a
           /\ WrapAdd(a, b) \in ID
  BY HalfAssumption DEF Larger, WrapAdd, ID, Word

(* ++ keeps the counter in its range. *)
LEMMA CounterArithmetic ==
    ASSUME NEW n \in 0 .. (CounterMod - 1)
    PROVE  Increment(n) \in 0 .. (CounterMod - 1)
  BY CounterAssumption DEF Increment

LEMMA TypeInit == Init => TypeOK
<1> SUFFICES ASSUME Init PROVE TypeOK
  OBVIOUS
<1>1. -1 \in ID /\ 0 \in ID
  BY HalfAssumption DEF ID, Word
<1>2. maxTopoID \in [CN -> ID]
  BY SeedAssumption DEF Init
<1>3. 0 \in 0 .. (CounterMod - 1) /\ 1 \in 0 .. (CounterMod - 1)
  BY CounterAssumption
<1> QED BY <1>1, <1>2, <1>3 DEF Init, TypeOK

LEMMA TypeNext == TypeOK /\ [Next]_vars => TypeOK'
<1> SUFFICES ASSUME TypeOK, [Next]_vars PROVE TypeOK'
  OBVIOUS
<1> USE DEF TypeOK, graph
<1>1. CASE StartRound
  BY <1>1 DEF StartRound
<1>2. CASE LeaveLoop
  BY <1>2 DEF LeaveLoop
<1>3. CASE SwitchesReached
  BY <1>3 DEF SwitchesReached, BDsOf
<1>4. CASE FrontierReached
  BY <1>4 DEF FrontierReached
<1>5. ASSUME NEW c \in CN, NEW b \in BD, PushToSwitch(c, b) PROVE TypeOK'
  <2>1. Larger(maxBDID[b], maxTopoID[c]) \in ID
    BY IdArithmetic
  <2> QED BY <1>5, <2>1 DEF PushToSwitch
<1>6. ASSUME NEW c \in CN, NEW b \in BD, CompareHolds(c, b) PROVE TypeOK'
  <2>1. Increment(sumCounter) \in 0 .. (CounterMod - 1)
    BY CounterArithmetic
  <2> QED BY <1>6, <2>1 DEF CompareHolds, MayHandle
<1>7. ASSUME NEW c \in CN, NEW b \in BD, CompareFails(c, b) PROVE TypeOK'
  BY <1>7 DEF CompareFails
<1>8. ASSUME NEW c \in CN, NEW b \in BD, Add(c, b) PROVE TypeOK'
  <2>1. WrapAdd(maxTopoID[c], maxBDID[b]) \in ID
    BY IdArithmetic
  <2> QED BY <1>8, <2>1 DEF Add
<1>9. ASSUME NEW c \in CN, NEW b \in BD, Publish(c, b) PROVE TypeOK'
  <2>1. Larger(maxTopoID[c], newTopoId[b]) \in ID
    BY IdArithmetic
  <2> QED BY <1>9, <2>1 DEF Publish
<1>10. CASE UNCHANGED vars
  BY <1>10 DEF vars
<1> QED
  BY <1>1, <1>2, <1>3, <1>4, <1>5, <1>6, <1>7, <1>8, <1>9, <1>10 DEF Next

(* Every variable of the loop keeps its type: the ids stay in the width of *)
(* an int64_t and the counter in that of an int, although ids are added up *)
(* and the counter is never reset.                                         *)
THEOREM TypeCorrect == Spec => []TypeOK
  BY TypeInit, TypeNext, PTL DEF Spec

-----------------------------------------------------------------------------
(* The second map takes up pairs of closed switches only. *)
LEMMA ClosedOnlyNext == TypeOK /\ ClosedOnly /\ [Next]_vars => ClosedOnly'
<1> SUFFICES ASSUME TypeOK, ClosedOnly, [Next]_vars PROVE ClosedOnly'
  OBVIOUS
<1> USE DEF ClosedOnly, graph
<1>1. CASE StartRound
  BY <1>1 DEF StartRound
<1>2. CASE LeaveLoop
  BY <1>2 DEF LeaveLoop
<1>3. CASE SwitchesReached
  BY <1>3 DEF SwitchesReached
<1>4. CASE FrontierReached
  BY <1>4 DEF FrontierReached
<1>5. ASSUME NEW c \in CN, NEW b \in BD, PushToSwitch(c, b) PROVE ClosedOnly'
  BY <1>5 DEF PushToSwitch
<1>6. ASSUME NEW c \in CN, NEW b \in BD, CompareHolds(c, b) PROVE ClosedOnly'
  BY <1>6 DEF CompareHolds, MayHandle
<1>7. ASSUME NEW c \in CN, NEW b \in BD, CompareFails(c, b) PROVE ClosedOnly'
  BY <1>7 DEF CompareFails, MayHandle
<1>8. ASSUME NEW c \in CN, NEW b \in BD, Add(c, b) PROVE ClosedOnly'
  BY <1>8 DEF Add
<1>9. ASSUME NEW c \in CN, NEW b \in BD, Publish(c, b) PROVE ClosedOnly'
  BY <1>9 DEF Publish
<1>10. CASE UNCHANGED vars
  BY <1>10 DEF vars
<1> QED
  BY <1>1, <1>2, <1>3, <1>4, <1>5, <1>6, <1>7, <1>8, <1>9, <1>10 DEF Next

(* One uniform island I: what IslandInv says of it. *)
Quiet(I) ==
    /\ \A c \in I : maxTopoID[c] = seed[c]
    /\ \A c \in I, b \in closed :
          <<c, b>> \in Connected => maxBDID[b] <= seed[c]
    /\ \A e \in compared \cup summed : e[1] \notin I

Uniform(I) == Isolated(I) /\ \A c, d \in I : seed[c] = seed[d]

(* A step keeps an island quiet.  A switch next to the island is either    *)
(* open, and then no second map reads it, or has only CNs of the island    *)
(* around it, and then no id above the island's seed reaches it.           *)
LEMMA QuietNext ==
    ASSUME TypeOK, ClosedOnly, [Next]_vars,
           NEW I \in SUBSET CN, Uniform(I), Quiet(I)
    PROVE  Quiet(I)'
<1> USE DEF Quiet, graph
<1>1. CASE StartRound
  BY <1>1 DEF StartRound
<1>2. CASE LeaveLoop
  BY <1>2 DEF LeaveLoop
<1>3. CASE SwitchesReached
  BY <1>3 DEF SwitchesReached
<1>4. CASE FrontierReached
  BY <1>4 DEF FrontierReached
<1>5. ASSUME NEW c \in CN, NEW b \in BD, PushToSwitch(c, b) PROVE Quiet(I)'
  <2> SUFFICES ASSUME NEW d \in I, NEW x \in closed, <<d, x>> \in Connected
               PROVE  maxBDID'[x] <= seed[d]
    BY <1>5 DEF PushToSwitch
  <2>1. CASE x # b
    BY <1>5, <2>1 DEF PushToSwitch, TypeOK
  <2>2. CASE x = b
    <3>1. <<c, b>> \in Connected
      BY <1>5 DEF PushToSwitch, TypeOK
    <3>2. c \in I
      BY <2>2, <3>1 DEF Uniform, Isolated, CNsOf
    <3>3. maxTopoID[c] = seed[d]
      BY <3>2 DEF Uniform
    <3>4. maxBDID[b] <= seed[d]
      BY <2>2
    <3>5. maxBDID'[b] = Larger(maxBDID[b], seed[d])
      BY <1>5, <3>3 DEF PushToSwitch, TypeOK
    <3>6. maxBDID[b] \in Int /\ seed[d] \in Int
      BY HalfAssumption DEF TypeOK, ID, Word
    <3> QED BY <2>2, <3>4, <3>5, <3>6 DEF Larger
  <2> QED BY <2>1, <2>2
<1>6. ASSUME NEW c \in CN, NEW b \in BD, CompareHolds(c, b) PROVE Quiet(I)'
  <2>1. b \in closed /\ <<c, b>> \in Connected
    BY <1>6 DEF CompareHolds, MayHandle, ClosedOnly, TypeOK
  <2>2. c \notin I
    <3> SUFFICES ASSUME c \in I PROVE FALSE
      OBVIOUS
    <3>1. maxBDID[b] <= seed[c] /\ maxTopoID[c] = seed[c]
      BY <2>1
    <3>2. maxBDID[b] \in Int /\ maxTopoID[c] \in Int
      BY HalfAssumption DEF TypeOK, ID, Word
    <3> QED BY <1>6, <3>1, <3>2 DEF CompareHolds
  <2> QED BY <1>6, <2>2 DEF CompareHolds
<1>7. ASSUME NEW c \in CN, NEW b \in BD, CompareFails(c, b) PROVE Quiet(I)'
  BY <1>7 DEF CompareFails
<1>8. ASSUME NEW c \in CN, NEW b \in BD, Add(c, b) PROVE Quiet(I)'
  BY <1>8 DEF Add
<1>9. ASSUME NEW c \in CN, NEW b \in BD, Publish(c, b) PROVE Quiet(I)'
  <2>1. c \notin I
    BY <1>9 DEF Publish
  <2> QED BY <1>9, <2>1 DEF Publish, TypeOK
<1>10. CASE UNCHANGED vars
  BY <1>10 DEF vars
<1> QED
  BY <1>1, <1>2, <1>3, <1>4, <1>5, <1>6, <1>7, <1>8, <1>9, <1>10 DEF Next

LEMMA IslandInit == Init => ClosedOnly /\ IslandInv
<1> SUFFICES ASSUME Init PROVE ClosedOnly /\ IslandInv
  OBVIOUS
<1>1. ClosedOnly
  BY DEF Init, ClosedOnly
<1>2. \A c \in CN : seed[c] \in Int /\ -1 <= seed[c]
  <2> SUFFICES ASSUME NEW c \in CN PROVE seed[c] \in Int /\ -1 <= seed[c]
    OBVIOUS
  <2>1. seed[c] \in Seeds
    BY DEF Init
  <2>2. seed[c] \in ID
    BY <2>1, SeedAssumption
  <2>3. seed[c] >= -1
    BY <2>1, SeedAssumption
  <2> QED BY <2>2, <2>3, HalfAssumption DEF ID, Word
<1>3. IslandInv
  BY <1>2 DEF Init, IslandInv
<1> QED BY <1>1, <1>3

LEMMA IslandNext ==
    TypeOK /\ ClosedOnly /\ IslandInv /\ [Next]_vars => IslandInv'
<1> SUFFICES ASSUME TypeOK, ClosedOnly, IslandInv, [Next]_vars,
                    NEW I \in SUBSET CN, Uniform(I)'
             PROVE  Quiet(I)'
  BY DEF IslandInv, Uniform, Quiet
<1>1. UNCHANGED <<closed, seed>>
  BY DEF Next, vars, graph, StartRound, LeaveLoop, SwitchesReached,
         FrontierReached, PushToSwitch, CompareHolds, CompareFails, Add, Publish
<1>2. Uniform(I)
  BY <1>1 DEF Uniform, Isolated
<1>3. Quiet(I)
  BY <1>2 DEF IslandInv, Uniform, Quiet
<1> QED BY <1>2, <1>3, QuietNext

(* For every network: a set of CNs that no closed switch leaves and that   *)
(* was seeded with one id keeps it, under every interleaving of the tasks. *)
THEOREM IslandsApart == Spec => []IslandsStayApart
<1>1. IslandInv => IslandsStayApart
  BY DEF IslandInv, IslandsStayApart
<1> QED
  BY <1>1, IslandInit, IslandNext, ClosedOnlyNext, TypeCorrect, PTL DEF Spec

-----------------------------------------------------------------------------
(* The pairs of a map are finitely many, no more than there are edges. *)
LEMMA TodoCount ==
    ASSUME TypeOK
    PROVE  /\ IsFiniteSet(todo)
           /\ Cardinality(todo) \in Nat
           /\ Cardinality(todo) <= Cardinality(Connected)
           /\ \A e \in todo : Cardinality(todo \ {e}) = Cardinality(todo) - 1
           /\ todo # {} => Cardinality(todo) > 0
<1>1. IsFiniteSet(todo) /\ Cardinality(todo) <= Cardinality(Connected)
  BY GraphAssumption, FS_Subset DEF TypeOK
<1>2. Cardinality(todo) \in Nat
  BY <1>1, FS_CardinalityType
<1>3. \A e \in todo : Cardinality(todo \ {e}) = Cardinality(todo) - 1
  BY <1>1, FS_RemoveElement
<1>4. todo # {} => Cardinality(todo) # 0
  BY <1>1, FS_EmptySet
<1> QED BY <1>1, <1>2, <1>3, <1>4

LEMMA AgreementInit == Init => AgreementInv
<1> SUFFICES ASSUME Init PROVE AgreementInv
  OBVIOUS
<1>1. FrontierKept
  BY DEF Init, FrontierKept
<1>2. sumCounter # sumOldCounter
  BY DEF Init
<1> QED BY <1>1, <1>2 DEF Init, AgreementInv

(* The steps of the calling thread. *)
LEMMA AgreementStart ==
    ASSUME TypeOK, AgreementInv, StartRound PROVE AgreementInv'
<1> USE DEF StartRound, graph
<1>1. FrontierKept'
  BY DEF AgreementInv, FrontierKept, CNsOf
<1>2. PushedUp'
  BY DEF AgreementInv, PushedUp
<1> QED BY <1>1, <1>2 DEF AgreementInv

LEMMA AgreementLeave ==
    ASSUME TypeOK, AgreementInv, LeaveLoop PROVE AgreementInv'
<1> USE DEF LeaveLoop, graph
<1>1. FrontierKept'
  BY DEF AgreementInv, FrontierKept, CNsOf
<1>2. Agreed'
  BY DEF AgreementInv, Agreed, CNsOf
<1> QED BY <1>1, <1>2 DEF AgreementInv

LEMMA AgreementSwitches ==
    ASSUME TypeOK, AgreementInv, SwitchesReached PROVE AgreementInv'
<1> USE DEF SwitchesReached, graph
<1>1. FrontierKept'
  BY DEF AgreementInv, FrontierKept, CNsOf
<1>2. bdSet' = BDsOf(cnSet)'
  BY DEF BDsOf
<1>3. Raised(0)'
  <2>1. TypeOK'
    BY TypeNext DEF Next
  <2>2. (0 + Cardinality(todo) <= Cardinality(Connected))'
    <3>1. /\ Cardinality(todo') <= Cardinality(Connected)
          /\ IsFiniteSet(todo')
      BY <2>1, GraphAssumption, FS_Subset DEF TypeOK
    <3>2. Cardinality(todo') \in Nat
      BY <3>1, FS_CardinalityType
    <3> QED BY <3>1, <3>2
  <2>3. PushedUp
    BY DEF AgreementInv
  <2>4. sumCounter' = IF sumOldCounter' + 0 < CounterMod
                      THEN sumOldCounter' + 0
                      ELSE sumOldCounter' + 0 - CounterMod
    BY <2>3, CounterAssumption DEF PushedUp, TypeOK
  <2>5. \A c \in cnSet', b \in BD :
            <<c, b>> \in Connected => maxTopoID'[c] <= maxBDID'[b]
    BY <2>3 DEF PushedUp
  <2>6. \A c \in CN, b \in bdSet' \cap closed' : <<c, b>> \notin Connected \ todo'
    OBVIOUS
  <2> QED BY <2>2, <2>3, <2>4, <2>5, <2>6 DEF Raised, PushedUp
<1> QED BY <1>1, <1>2, <1>3 DEF AgreementInv

LEMMA AgreementFrontier ==
    ASSUME TypeOK, AgreementInv, FrontierReached PROVE AgreementInv'
<1> USE DEF FrontierReached, graph
<1>1. bdSet = BDsOf(cnSet)
  BY DEF AgreementInv
<1>2. \A b \in closed, c \in CN :
          c \in CNsOf(b) \cap cnOpenSub => c \in cnSet /\ b \in bdSet
  BY <1>1 DEF AgreementInv, FrontierKept, CNsOf, BDsOf, TypeOK
<1>3. FrontierKept'
  BY <1>2 DEF FrontierKept, CNsOf
<1>4. ASSUME sumCounter = sumOldCounter PROVE Agreed
  <2>1. PICK n \in Nat : Raised(n)
    BY DEF AgreementInv
  <2>2. Cardinality(Connected) \in Nat
    BY GraphAssumption, FS_CardinalityType
  <2>3. n < CounterMod
    BY <2>1, <2>2, TodoCount, CounterAssumption DEF Raised
  <2>4. n = 0
    BY <1>4, <2>1, <2>3, CounterAssumption DEF Raised, TypeOK
  <2> SUFFICES ASSUME NEW b \in closed, NEW c \in CNsOf(b) \cap cnOpenSub,
                      NEW d \in CNsOf(b)
               PROVE  maxTopoID[c] <= maxTopoID[d]
    BY DEF Agreed
  <2>5. c \in CN /\ d \in CN /\ b \in BD /\ c \in cnSet /\ b \in bdSet
    BY <1>2 DEF CNsOf, TypeOK
  <2>6. maxTopoID[c] <= maxBDID[b]
    BY <2>1, <2>4, <2>5 DEF Raised, CNsOf
  <2>7. maxBDID[b] <= maxTopoID[d]
    BY <2>1, <2>4, <2>5 DEF Raised, CNsOf
  <2>8. maxTopoID[c] \in Int /\ maxTopoID[d] \in Int /\ maxBDID[b] \in Int
    BY <2>5, HalfAssumption DEF TypeOK, ID, Word
  <2> QED BY <2>6, <2>7, <2>8
<1>5. Agreed => Agreed'
  BY DEF Agreed, CNsOf
<1> QED BY <1>3, <1>4, <1>5 DEF AgreementInv

(* The steps of the tasks. *)
LEMMA AgreementPush ==
    ASSUME TypeOK, AgreementInv, NEW c \in CN, NEW b \in BD, PushToSwitch(c, b)
    PROVE  AgreementInv'
<1> USE DEF PushToSwitch, graph
<1>1. FrontierKept'
  BY DEF AgreementInv, FrontierKept, CNsOf
<1>2. PushedUp
  BY DEF AgreementInv
<1>3. ASSUME NEW d \in cnSet, NEW x \in BD, <<d, x>> \in Connected \ todo'
      PROVE  maxTopoID[d] <= maxBDID'[x]
  <2>1. d \in CN
    BY DEF TypeOK
  <2>2. maxTopoID[d] \in Int /\ maxTopoID[c] \in Int /\ maxBDID[x] \in Int
    BY <2>1, HalfAssumption DEF TypeOK, ID, Word
  <2>3. CASE <<d, x>> = <<c, b>>
    <3>1. maxBDID'[x] = Larger(maxBDID[x], maxTopoID[d])
      BY <2>3 DEF TypeOK
    <3> QED BY <2>2, <3>1 DEF Larger
  <2>4. CASE <<d, x>> # <<c, b>>
    <3>1. maxTopoID[d] <= maxBDID[x]
      BY <1>2, <1>3, <2>4 DEF PushedUp
    <3>2. maxBDID'[x] = IF x = b THEN Larger(maxBDID[x], maxTopoID[c])
                        ELSE maxBDID[x]
      BY DEF TypeOK
    <3> QED BY <2>2, <3>1, <3>2 DEF Larger
  <2> QED BY <2>3, <2>4
<1>4. PushedUp'
  BY <1>2, <1>3 DEF PushedUp
<1> QED BY <1>1, <1>4 DEF AgreementInv

LEMMA AgreementHolds ==
    ASSUME TypeOK, AgreementInv, NEW c \in CN, NEW b \in BD, CompareHolds(c, b)
    PROVE  AgreementInv'
<1> USE DEF CompareHolds, MayHandle, graph
<1>1. FrontierKept'
  BY DEF AgreementInv, FrontierKept, CNsOf
<1>2. bdSet' = BDsOf(cnSet)'
  BY DEF AgreementInv, BDsOf
<1>3. PICK n \in Nat : Raised(n)
  BY DEF AgreementInv
<1>4. Cardinality(todo') = Cardinality(todo) - 1
  BY TodoCount
<1>5. /\ Cardinality(Connected) \in Nat
      /\ Cardinality(todo) \in Nat
      /\ Cardinality(todo) > 0
  BY TodoCount, GraphAssumption, FS_CardinalityType
<1>6. /\ (n + 1) + Cardinality(todo') <= Cardinality(Connected)
      /\ n + 1 < CounterMod
  BY <1>3, <1>4, <1>5, CounterAssumption DEF Raised
<1>7. sumCounter' = IF sumOldCounter + (n + 1) < CounterMod
                    THEN sumOldCounter + (n + 1)
                    ELSE sumOldCounter + (n + 1) - CounterMod
  BY <1>3, <1>6, CounterAssumption DEF Raised, Increment, TypeOK
<1>8. Raised(n + 1)'
  BY <1>6, <1>7 DEF Raised
<1> QED BY <1>1, <1>2, <1>8 DEF AgreementInv

LEMMA AgreementFails ==
    ASSUME TypeOK, AgreementInv, NEW c \in CN, NEW b \in BD, CompareFails(c, b)
    PROVE  AgreementInv'
<1> USE DEF CompareFails, MayHandle, graph
<1>1. FrontierKept'
  BY DEF AgreementInv, FrontierKept, CNsOf
<1>2. bdSet' = BDsOf(cnSet)'
  BY DEF AgreementInv, BDsOf
<1>3. PICK n \in Nat : Raised(n)
  BY DEF AgreementInv
<1>4. n + Cardinality(todo') <= Cardinality(Connected)
  <2>1. Cardinality(Connected) \in Nat /\ Cardinality(todo) \in Nat
    BY TodoCount, GraphAssumption, FS_CardinalityType
  <2>2. Cardinality(todo') = Cardinality(todo) - 1
    BY TodoCount
  <2> QED BY <1>3, <2>1, <2>2 DEF Raised
<1>5. maxBDID[b] <= maxTopoID[c]
  BY HalfAssumption DEF TypeOK, ID, Word
<1>6. Raised(n)'
  BY <1>3, <1>4, <1>5 DEF Raised
<1> QED BY <1>1, <1>2, <1>6 DEF AgreementInv

(* Add and Publish finish a raise that is counted already: while one is    *)
(* under way the round is a second map with n # 0.                         *)
LEMMA AgreementRaise ==
    ASSUME TypeOK, AgreementInv, NEW c \in CN, NEW b \in BD,
           Add(c, b) \/ Publish(c, b)
    PROVE  AgreementInv'
<1> USE DEF graph
<1>1. compared # {} \/ summed # {}
  BY DEF Add, Publish
<1>2. pc = "toCN" /\ pc' = "toCN"
  BY <1>1 DEF Add, Publish, AgreementInv, PushedUp, TypeOK
<1>3. FrontierKept'
  BY DEF Add, Publish, AgreementInv, FrontierKept, CNsOf
<1>4. bdSet' = BDsOf(cnSet)'
  BY <1>2 DEF Add, Publish, AgreementInv, BDsOf
<1>5. PICK n \in Nat : Raised(n)
  BY <1>2 DEF AgreementInv
<1>6. n # 0
  BY <1>1, <1>5 DEF Raised
<1>7. Raised(n)'
  BY <1>5, <1>6 DEF Raised, Add, Publish
<1> QED BY <1>2, <1>3, <1>4, <1>7 DEF AgreementInv

LEMMA AgreementNext == TypeOK /\ AgreementInv /\ [Next]_vars => AgreementInv'
<1> SUFFICES ASSUME TypeOK, AgreementInv, [Next]_vars PROVE AgreementInv'
  OBVIOUS
<1>1. CASE UNCHANGED vars
  <2>1. FrontierKept' /\ (PushedUp => PushedUp') /\ (Agreed => Agreed')
    BY <1>1 DEF vars, AgreementInv, FrontierKept, PushedUp, Agreed, CNsOf
  <2>2. \A n \in Nat : Raised(n) => Raised(n)'
    BY <1>1 DEF vars, Raised
  <2>3. BDsOf(cnSet)' = BDsOf(cnSet)
    BY <1>1 DEF vars, BDsOf
  <2>4. UNCHANGED <<pc, bdSet, cnSet, compared, summed, sumCounter, sumOldCounter>>
    BY <1>1 DEF vars
  <2>5. pc = "toCN" => \E n \in Nat : Raised(n)'
    BY <2>2 DEF AgreementInv
  <2> QED BY <2>1, <2>3, <2>4, <2>5 DEF AgreementInv
<1> QED
  BY <1>1, AgreementStart, AgreementLeave, AgreementSwitches, AgreementFrontier,
     AgreementPush, AgreementHolds, AgreementFails, AgreementRaise DEF Next

(* For every network, number of threads and interleaving: when no raise    *)
(* was counted in a round, no id of the first frontier is larger than one  *)
(* across a closed switch, so the loop is right to stop there.             *)
THEOREM AgreementAtExit == Spec => []ExitAgreement
<1>1. AgreementInv => ExitAgreement
  BY DEF AgreementInv, Agreed, ExitAgreement
<1> QED BY <1>1, AgreementInit, AgreementNext, TypeCorrect, PTL DEF Spec

-----------------------------------------------------------------------------
(* Below the threshold, or with fewer switches than threads, a task takes  *)
(* up a pair only when no other is under way.                              *)
LEMMA OneAtATime ==
    ASSUME TypeOK, IsFiniteSet(BD), OneTask(Cardinality(BD)),
           NEW c \in CN, NEW b \in BD, MayHandle(c, b)
    PROVE  compared = {} /\ summed = {}
<1>1. IsFiniteSet(bdSet) /\ Cardinality(bdSet) <= Cardinality(BD)
  BY FS_Subset DEF TypeOK
<1>2. Cardinality(bdSet) \in Nat /\ Cardinality(BD) \in Nat
  BY <1>1, FS_CardinalityType
<1>3. Concurrency(bdSet) = 1
  BY <1>1, <1>2, PoolAssumption DEF Concurrency, NumTasks, OneTask
<1>4. Running \subseteq BD
  BY GraphAssumption DEF Running, TypeOK
<1>5. IsFiniteSet(Running)
  BY <1>4, FS_Subset
<1>6. Cardinality(Running) = 0
  <2>1. Cardinality(Running) \in Nat
    BY <1>5, FS_CardinalityType
  <2>2. Cardinality(Running) < 1
    BY <1>3 DEF MayHandle
  <2> QED BY <2>1, <2>2
<1>7. Running = {}
  BY <1>5, <1>6, FS_EmptySet
<1> QED BY <1>7 DEF Running

(* Two raises under way are of two switches, and the flag shared records   *)
(* when they are of one CN.                                                *)
LEMMA RaisersNext ==
    ASSUME TypeOK, [Next]_vars,
           pc # "toCN" => compared = {} /\ summed = {},
           \A e, f \in compared \cup summed : e[2] = f[2] => e = f,
           compared \cap summed = {},
           ~shared => \A e, f \in compared \cup summed : e[1] = f[1] => e = f
    PROVE  /\ pc' # "toCN" => compared' = {} /\ summed' = {}
           /\ \A e, f \in compared' \cup summed' : e[2] = f[2] => e = f
           /\ compared' \cap summed' = {}
           /\ ~shared' => \A e, f \in compared' \cup summed' : e[1] = f[1] => e = f
           /\ ~shared' => ~shared
<1>1. ASSUME NEW c \in CN, NEW b \in BD, CompareHolds(c, b)
      PROVE  /\ compared' = compared \cup {<<c, b>>} /\ summed' = summed
             /\ pc' = "toCN" /\ \A e \in compared \cup summed : e[2] # b
             /\ shared' = (shared \/ Raisers(c) # {})
  BY <1>1 DEF CompareHolds, MayHandle, Running
<1>2. CASE \E c \in CN, b \in BD : CompareHolds(c, b)
  <2>1. PICK c \in CN, b \in BD : CompareHolds(c, b)
    BY <1>2
  <2>2. /\ compared' = compared \cup {<<c, b>>} /\ summed' = summed
        /\ pc' = "toCN" /\ \A e \in compared \cup summed : e[2] # b
        /\ shared' = (shared \/ Raisers(c) # {})
    BY <1>1, <2>1
  <2>3. ~shared' => ~shared /\ \A e \in compared \cup summed : e[1] # c
    BY <2>2 DEF Raisers
  <2> QED BY <2>2, <2>3
<1>3. ASSUME NEW c \in CN, NEW b \in BD, Add(c, b)
      PROVE  /\ compared' = compared \ {<<c, b>>} /\ summed' = summed \cup {<<c, b>>}
             /\ <<c, b>> \in compared /\ pc' = pc /\ shared' = shared
  BY <1>3 DEF Add
<1>4. CASE \E c \in CN, b \in BD : Add(c, b)
  BY <1>3, <1>4
<1>5. ASSUME NEW c \in CN, NEW b \in BD, Publish(c, b)
      PROVE  /\ compared' = compared /\ summed' = summed \ {<<c, b>>}
             /\ pc' = pc /\ shared' = shared
  BY <1>5 DEF Publish
<1>6. CASE \E c \in CN, b \in BD : Publish(c, b)
  BY <1>5, <1>6
<1>7. CASE \/ StartRound \/ LeaveLoop \/ SwitchesReached \/ FrontierReached \/ UNCHANGED vars
           \/ \E c \in CN, b \in BD : PushToSwitch(c, b) \/ CompareFails(c, b)
  <2>1. compared' = compared /\ summed' = summed /\ shared' = shared
    BY <1>7 DEF StartRound, LeaveLoop, SwitchesReached, FrontierReached, PushToSwitch,
                CompareFails, vars
  <2>2. pc' # "toCN" => compared = {} /\ summed = {}
    BY <1>7 DEF StartRound, LeaveLoop, SwitchesReached, FrontierReached, PushToSwitch,
                CompareFails, MayHandle, vars
  <2> QED BY <2>1, <2>2
<1> QED BY <1>2, <1>4, <1>6, <1>7, Zenon DEF Next

(* One island I whose seeds are 0 and v. *)
LEMMA SeededIslandNext ==
    ASSUME TypeOK, ClosedOnly, [Next]_vars,
           NEW I \in SUBSET CN, NEW v \in Seeds \cap Nat, Isolated(I), ZeroOr(v, I),
           SeededIsland(I, v),
           pc # "toCN" => compared = {} /\ summed = {},
           \A e, f \in compared \cup summed : e[2] = f[2] => e = f,
           \A e, f \in compared \cup summed : e[1] = f[1] => e = f,
           compared \cap summed = {}
    PROVE  SeededIsland(I, v)'
<1> DEFINE ids == {seed[d] : d \in I}
<1>1. /\ \A c \in I : maxTopoID[c] \in ids
      /\ \A b \in closed : CNsOf(b) \cap I # {} => maxBDID[b] \in ids \cup {-1}
      /\ \A e \in compared : e[1] \in I => maxBDID[e[2]] > maxTopoID[e[1]]
      /\ \A e \in summed : e[1] \in I => newTopoId[e[2]] \in ids
  BY DEF SeededIsland
<1>2. seed' = seed /\ closed' = closed /\ ids' = ids
  BY DEF Next, vars, graph, StartRound, LeaveLoop, SwitchesReached, FrontierReached,
         PushToSwitch, CompareHolds, CompareFails, Add, Publish
<1>3. SUFFICES /\ \A c \in I : maxTopoID'[c] \in ids
               /\ \A b \in closed : CNsOf(b) \cap I # {} => maxBDID'[b] \in ids \cup {-1}
               /\ \A e \in compared' : e[1] \in I => maxBDID'[e[2]] > maxTopoID'[e[1]]
               /\ \A e \in summed' : e[1] \in I => newTopoId'[e[2]] \in ids
  BY <1>2 DEF SeededIsland, CNsOf
<1>4. ids \subseteq {0, v} /\ v \in ID /\ v \in Nat
  BY SeedAssumption DEF ZeroOr
<1>5. I \subseteq CN /\ closed \subseteq BD
  BY DEF TypeOK
<1> HIDE DEF ids
<1>6. CASE StartRound \/ LeaveLoop \/ SwitchesReached \/ FrontierReached \/ UNCHANGED vars
  BY <1>1, <1>6 DEF StartRound, LeaveLoop, SwitchesReached, FrontierReached, vars
<1>7. ASSUME NEW c \in CN, NEW b \in BD, PushToSwitch(c, b)
      PROVE  /\ maxTopoID' = maxTopoID /\ compared' = {} /\ summed' = {}
             /\ \A d \in closed : CNsOf(d) \cap I # {} => maxBDID'[d] \in ids \cup {-1}
  <2>1. compared' = {} /\ summed' = {} /\ maxTopoID' = maxTopoID /\ <<c, b>> \in Connected
    BY <1>7 DEF PushToSwitch, TypeOK
  <2>2. Larger(maxBDID[b], maxTopoID[c]) \in {maxBDID[b], maxTopoID[c]}
    BY DEF Larger
  <2>3. \A d \in BD : maxBDID'[d] = IF d = b THEN Larger(maxBDID[b], maxTopoID[c]) ELSE maxBDID[d]
    BY <1>7 DEF PushToSwitch, TypeOK
  <2>4. b \in closed /\ CNsOf(b) \cap I # {} => c \in I
    BY <2>1 DEF Isolated, CNsOf
  <2> QED BY <1>1, <1>5, <2>1, <2>2, <2>3, <2>4
<1>8. CASE \E c \in CN, b \in BD : PushToSwitch(c, b)
  BY <1>1, <1>7, <1>8
<1>9. ASSUME NEW c \in CN, NEW b \in BD, CompareHolds(c, b)
      PROVE  /\ maxTopoID' = maxTopoID /\ maxBDID' = maxBDID /\ newTopoId' = newTopoId
             /\ compared' = compared \cup {<<c, b>>} /\ summed' = summed
             /\ maxBDID[b] > maxTopoID[c]
  BY <1>9 DEF CompareHolds
<1>10. CASE \E c \in CN, b \in BD : CompareHolds(c, b)
  BY <1>1, <1>9, <1>10
<1>11. CASE \E c \in CN, b \in BD : CompareFails(c, b)
  BY <1>1, <1>11 DEF CompareFails
<1>12. ASSUME NEW c \in CN, NEW b \in BD, Add(c, b)
       PROVE  \A e \in summed' : e[1] \in I => newTopoId'[e[2]] \in ids
  <2>1. <<c, b>> \in compared /\ <<c, b>> \in Connected /\ b \in closed
    BY <1>12 DEF Add, ClosedOnly, TypeOK
  <2>2. ASSUME c \in I PROVE WrapAdd(maxTopoID[c], maxBDID[b]) \in ids
    <3>1. maxTopoID[c] \in ids /\ maxBDID[b] \in ids \cup {-1} /\ maxBDID[b] > maxTopoID[c]
      BY <1>1, <2>1, <2>2 DEF CNsOf
    <3>2. maxBDID[b] = v /\ maxTopoID[c] = 0 /\ v \in ids
      <4>1. maxTopoID[c] \in {0, v} /\ maxBDID[b] \in {0, v, -1}
        BY <1>4, <3>1
      <4>2. maxBDID[b] = v /\ maxTopoID[c] = 0
        BY <1>4, <3>1, <4>1
      <4> QED BY <1>4, <3>1, <4>2
    <3> QED BY <1>4, <3>2, HalfAssumption DEF WrapAdd, ID, Word
  <2>3. /\ newTopoId' = [newTopoId EXCEPT ![b] = WrapAdd(maxTopoID[c], maxBDID[b])]
        /\ summed' = summed \cup {<<c, b>>}
    BY <1>12 DEF Add
  <2>4. \A e \in summed : e \in CN \X BD /\ e[2] # b
    BY <2>1, GraphAssumption DEF TypeOK
  <2> QED BY <1>1, <2>2, <2>3, <2>4 DEF TypeOK
<1>13. CASE \E c \in CN, b \in BD : Add(c, b)
  BY <1>1, <1>12, <1>13 DEF Add
<1>14. ASSUME NEW c \in CN, NEW b \in BD, Publish(c, b)
       PROVE  /\ \A d \in I : maxTopoID'[d] \in ids
              /\ \A e \in compared : e[1] \in I => maxBDID[e[2]] > maxTopoID'[e[1]]
  <2>1. <<c, b>> \in summed
    BY <1>14 DEF Publish
  <2>2. Larger(maxTopoID[c], newTopoId[b]) \in {maxTopoID[c], newTopoId[b]}
    BY DEF Larger
  <2>3. \A d \in CN : maxTopoID'[d] = IF d = c THEN Larger(maxTopoID[c], newTopoId[b]) ELSE maxTopoID[d]
    BY <1>14 DEF Publish, TypeOK
  <2>4. \A d \in I : maxTopoID'[d] \in ids
    BY <1>1, <1>5, <2>1, <2>2, <2>3
  <2>5. \A e \in compared : e \in CN \X BD /\ e[1] # c
    BY <2>1, GraphAssumption DEF TypeOK
  <2> QED BY <1>1, <2>3, <2>4, <2>5
<1>15. CASE \E c \in CN, b \in BD : Publish(c, b)
  BY <1>1, <1>14, <1>15 DEF Publish
<1> QED BY <1>6, <1>8, <1>10, <1>11, <1>13, <1>15, Zenon DEF Next

LEMMA SeededNext == TypeOK /\ ClosedOnly /\ SeededInv /\ [Next]_vars => SeededInv'
<1> SUFFICES ASSUME TypeOK, ClosedOnly, SeededInv, [Next]_vars PROVE SeededInv'
  OBVIOUS
<1>1. /\ pc # "toCN" => compared = {} /\ summed = {}
      /\ \A e, f \in compared \cup summed : e[2] = f[2] => e = f
      /\ compared \cap summed = {}
      /\ ~shared => \A e, f \in compared \cup summed : e[1] = f[1] => e = f
  BY DEF SeededInv
<1>2. /\ pc' # "toCN" => compared' = {} /\ summed' = {}
      /\ \A e, f \in compared' \cup summed' : e[2] = f[2] => e = f
      /\ compared' \cap summed' = {}
      /\ ~shared' => \A e, f \in compared' \cup summed' : e[1] = f[1] => e = f
      /\ ~shared' => ~shared
  BY <1>1, RaisersNext, Zenon
<1>3. seed' = seed /\ closed' = closed
  BY DEF Next, vars, graph, StartRound, LeaveLoop, SwitchesReached, FrontierReached,
         PushToSwitch, CompareHolds, CompareFails, Add, Publish
<1>4. ASSUME ~shared', NEW I \in SUBSET CN, NEW v \in Seeds \cap Nat,
             Isolated(I)', ZeroOr(v, I)'
      PROVE  SeededIsland(I, v)'
  <2>1. Isolated(I) /\ ZeroOr(v, I)
    BY <1>3, <1>4 DEF Isolated, ZeroOr, CNsOf
  <2>2. ~shared
    BY <1>2, <1>4
  <2>3. SeededIsland(I, v)
    BY <2>1, <2>2 DEF SeededInv
  <2> QED BY <1>1, <2>1, <2>2, <2>3, SeededIslandNext, Zenon
<1> QED BY <1>2, <1>4, Zenon DEF SeededInv

(* For every network, every seeding - CNs left at -1 included - and any    *)
(* number of tasks: an id that seeding did not leave on an island of seeds *)
(* 0 and v comes from two tasks that raised one CN at the same time.  The  *)
(* rest of the network may hold any ids and may raise them without end.    *)
THEOREM SeededIds == Spec => []SeededUnlessShared
<1>1. Init => ClosedOnly /\ SeededInv
  <2> SUFFICES ASSUME Init PROVE ClosedOnly /\ SeededInv
    OBVIOUS
  <2>1. ClosedOnly
    BY DEF Init, ClosedOnly
  <2>2. ASSUME NEW I \in SUBSET CN, NEW v PROVE SeededIsland(I, v)
    BY DEF Init, SeededIsland, CNsOf
  <2> QED BY <2>1, <2>2 DEF Init, SeededInv
<1>2. TypeOK /\ ClosedOnly /\ SeededInv /\ [Next]_vars => ClosedOnly' /\ SeededInv'
  BY ClosedOnlyNext, SeededNext
<1>3. SeededInv => SeededUnlessShared
  BY DEF SeededInv, SeededUnlessShared, OnlySeededIds, SeededIsland, MeantIds
<1> QED BY <1>1, <1>2, <1>3, TypeCorrect, PTL DEF Spec

(* With so few switches that a map over them is one task (fewer than       *)
(* kParallelThreshold, 5000 in the code, or than there are threads) no CN  *)
(* is ever shared.                                                         *)
THEOREM SeededAlone ==
    ASSUME IsFiniteSet(BD), OneTask(Cardinality(BD))
    PROVE  Spec => []OnlySeededIds
<1>1. Init => ~shared
  BY DEF Init
<1>2. TypeOK /\ ~shared /\ [Next]_vars => ~shared'
  <2> SUFFICES ASSUME TypeOK, ~shared, [Next]_vars PROVE ~shared'
    OBVIOUS
  <2>1. ASSUME NEW c \in CN, NEW b \in BD, CompareHolds(c, b) PROVE ~shared'
    <3>1. MayHandle(c, b) /\ shared' = (shared \/ Raisers(c) # {})
      BY <2>1 DEF CompareHolds
    <3>2. Raisers(c) = {}
      BY <3>1, OneAtATime DEF Raisers
    <3> QED BY <3>1, <3>2
  <2> QED
    BY <2>1 DEF Next, vars, StartRound, LeaveLoop, SwitchesReached, FrontierReached,
                PushToSwitch, CompareFails, Add, Publish
<1>3. ~shared /\ SeededUnlessShared => OnlySeededIds
  BY DEF SeededUnlessShared
<1> QED BY <1>1, <1>2, <1>3, TypeCorrect, SeededIds, PTL DEF Spec
=============================================================================
