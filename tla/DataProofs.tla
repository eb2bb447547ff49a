----------------------------- MODULE DataProofs ------------------------------
(***************************************************************************)
(* Proofs about the data of the common headers.  The loops of write,       *)
(* writeAdd and writeMax implement CellSpec, for every set of threads,     *)
(* cells and requests and every width of the cells (AtomicCells); a set of *)
(* edge identifiers has one of each edge, for every catalog (EdgeIDs); a   *)
(* duration is what was added to it, for all units (Durations); datetimes  *)
(* are ordered as the instants they show (Datetimes); and the integers of  *)
(* values keep their numbers, and the tables of kinds agree (Values).      *)
(***************************************************************************)
EXTENDS AtomicCells, EdgeIDs, Datetimes, Values, TLAPS

(* A request leaves a word in a cell that holds a word. *)
LEMMA NewValueType ==
    ASSUME NEW r \in Invoked, NEW old \in Word
    PROVE  NewValue(r, old) \in Word
<1>1. r.kind \in {"write", "writeAdd", "writeMax"} /\ r.val \in Word
  BY RequestAssumption
<1>2. WrapAdd(old, r.val) \in Word
  BY <1>1, HalfAssumption DEF WrapAdd, Word
<1>3. Larger(old, r.val) \in Word
  BY <1>1 DEF Larger
<1> QED BY <1>1, <1>2, <1>3 DEF NewValue

LEMMA TypeNext == TypeOK /\ LoopInv /\ [Next]_vars => TypeOK'
<1> SUFFICES ASSUME TypeOK, LoopInv, [Next]_vars PROVE TypeOK'
  OBVIOUS
<1> USE DEF TypeOK
<1>1. ASSUME NEW t \in Thread, NEW r \in Invoked, Start(t, r) PROVE TypeOK'
  BY <1>1, RequestAssumption DEF Start
<1>2. ASSUME NEW t \in Thread, Load(t) PROVE TypeOK'
  <2>1. want[t] \in Invoked
    BY <1>2 DEF Load, LoopInv
  <2>2. cell[want[t].cell] \in Word
    BY <2>1, RequestAssumption
  <2>3. NewValue(want[t], cell[want[t].cell]) \in Word
    BY <2>1, <2>2, NewValueType
  <2>4. oldV'[t] = cell[want[t].cell]
    BY <1>2 DEF Load
  <2> QED BY <1>2, <2>2, <2>3, <2>4 DEF Load
<1>3. ASSUME NEW t \in Thread, CasSucceeds(t) PROVE TypeOK'
  BY <1>3 DEF CasSucceeds
<1>4. ASSUME NEW t \in Thread, CasFails(t) PROVE TypeOK'
  BY <1>4 DEF CasFails
<1>5. CASE UNCHANGED vars
  BY <1>5 DEF vars
<1> QED BY <1>1, <1>2, <1>3, <1>4, <1>5 DEF Next

LEMMA LoopInvNext == TypeOK /\ LoopInv /\ [Next]_vars => LoopInv'
<1> SUFFICES ASSUME TypeOK, LoopInv, [Next]_vars PROVE LoopInv'
  OBVIOUS
<1> USE DEF TypeOK, LoopInv
<1>1. ASSUME NEW t \in Thread, NEW r \in Invoked, Start(t, r) PROVE LoopInv'
  BY <1>1, RequestAssumption DEF Start
<1>2. ASSUME NEW t \in Thread, Load(t) PROVE LoopInv'
  BY <1>2 DEF Load
<1>3. ASSUME NEW t \in Thread, CasSucceeds(t) PROVE LoopInv'
  BY <1>3 DEF CasSucceeds
<1>4. ASSUME NEW t \in Thread, CasFails(t) PROVE LoopInv'
  BY <1>4 DEF CasFails
<1>5. CASE UNCHANGED vars
  BY <1>5 DEF vars
<1> QED BY <1>1, <1>2, <1>3, <1>4, <1>5 DEF Next

LEMMA CellsInv == Spec => [](TypeOK /\ LoopInv)
<1>1. Init => TypeOK /\ LoopInv
  BY HalfAssumption, RequestAssumption DEF Init, TypeOK, LoopInv, Word
<1> QED BY <1>1, TypeNext, LoopInvNext, PTL DEF Spec

(* Every variable of the loops keeps its type; in particular the cells     *)
(* hold words however many additions overflow.                             *)
THEOREM TypeCorrect == Spec => []TypeOK
  BY CellsInv, PTL

(* Every step of the loops is a step of CellSpec or leaves its variables   *)
(* alone: the effect of a call is its successful compare-and-swap, which   *)
(* writes what the call would write to the value in the cell now.          *)
THEOREM Atomicity == Spec => Atomic
<1>1. Init => Abstract!Init
  BY DEF Init, Abstract!Init, Word, Abstract!Word
<1>2. TypeOK /\ LoopInv /\ [Next]_vars => [Abstract!Next]_<<cell, want>>
  <2> SUFFICES ASSUME TypeOK, LoopInv, [Next]_vars
               PROVE  [Abstract!Next]_<<cell, want>>
    OBVIOUS
  <2>1. ASSUME NEW t \in Thread, NEW r \in Invoked, Start(t, r)
        PROVE  Abstract!Next
    <3>1. Abstract!Start(t, r)
      BY <2>1 DEF Start, Abstract!Start, LoopInv
    <3>2. r \in Abstract!Request
      BY RequestAssumption
      DEF Abstract!Request, Abstract!Kind, Abstract!Word, Word
    <3> QED BY <3>1, <3>2 DEF Abstract!Next
  <2>2. ASSUME NEW t \in Thread, CasSucceeds(t) PROVE Abstract!Next
    <3>1. want[t] # Idle
      BY <2>2 DEF CasSucceeds, LoopInv
    <3>2. newV[t] = Abstract!Written(want[t], cell[want[t].cell])
      BY <2>2 DEF CasSucceeds, LoopInv, NewValue, Abstract!Written,
                  WrapAdd, Abstract!WrapAdd, Larger, Abstract!Larger
    <3>3. Abstract!TakeEffect(t)
      BY <2>2, <3>1, <3>2 DEF CasSucceeds, Abstract!TakeEffect
    <3> QED BY <3>3 DEF Abstract!Next
  <2>3. ASSUME NEW t \in Thread, Load(t) \/ CasFails(t)
        PROVE  UNCHANGED <<cell, want>>
    BY <2>3 DEF Load, CasFails
  <2>4. CASE UNCHANGED vars
    BY <2>4 DEF vars
  <2> QED BY <2>1, <2>2, <2>3, <2>4 DEF Next
<1> QED BY <1>1, <1>2, CellsInv, PTL DEF Spec, Atomic, Abstract!Spec
-----------------------------------------------------------------------------
(* Identifiers of edges.  A type is its two direction bits and the type    *)
(* without them.                                                           *)

TypeIDs == 0 .. 4 * Shift - 1
BareTypes == 0 .. Shift - 1
IDs == [srcID : Nodes, dstID : Nodes, rank : Ranks, graphID : Graphs, edgeTypeID : TypeIDs]

Bare(e) == RemoveDirection(e.edgeTypeID)
Dir(e) == DirectionBits(e.edgeTypeID)

LEMMA ShiftType == Shift \in Nat \ {0}
  BY EdgeIDAssumption DEF Shift

LEMMA WithDirection ==
    ASSUME NEW b \in BareTypes, NEW d \in 0 .. 3
    PROVE  b + Shift * d \in TypeIDs /\ DirectionBits(b + Shift * d) = d /\ RemoveDirection(b + Shift * d) = b
<1>1. \A x \in 0 .. 3 : \A t \in Nat \ {0} : \A m \in 0 .. t - 1 :
          m + t * x \in 0 .. 4 * t - 1 /\ (m + t * x) \div t = x /\ (m + t * x) % t = m
  OBVIOUS
<1> QED BY <1>1, ShiftType DEF BareTypes, TypeIDs, DirectionBits, RemoveDirection

LEMMA SplitBits ==
    ASSUME NEW t \in TypeIDs
    PROVE  /\ DirectionBits(t) \in 0 .. 3 /\ RemoveDirection(t) \in BareTypes
           /\ t = RemoveDirection(t) + Shift * DirectionBits(t)
<1>1. \A s \in Nat \ {0} : \A x \in 0 .. 4 * s - 1 : x % s \in 0 .. s - 1
  OBVIOUS
<1>2. \A s \in Nat \ {0} : \A x \in 0 .. 4 * s - 1 : x \div s \in 0 .. 3
  OBVIOUS
<1>3. \A s \in Nat \ {0} : \A x \in 0 .. 4 * s - 1 : x = (x % s) + s * (x \div s)
  OBVIOUS
<1> QED BY <1>1, <1>2, <1>3, ShiftType DEF BareTypes, TypeIDs, DirectionBits, RemoveDirection

LEMMA Directions ==
    ASSUME NEW b \in BareTypes
    PROVE  /\ DirectionBits(b) = 0 /\ RemoveDirection(b) = b
           /\ Outgoing(b) = b + Shift * 0 /\ Incoming(b) = b + Shift * 1
           /\ Undirected0(b) = b + Shift * 2 /\ Undirected1(b) = b + Shift * 3
<1>1. b = b + Shift * 0
  BY ShiftType DEF BareTypes
<1>2. 0 \in 0 .. 3
  OBVIOUS
<1>3. DirectionBits(b) = 0 /\ RemoveDirection(b) = b
  BY <1>1, <1>2, WithDirection
<1> QED BY <1>1, <1>3 DEF Outgoing, Incoming, Undirected0, Undirected1, SetDirection

LEMMA Reversed ==
    ASSUME NEW b \in BareTypes
    PROVE  /\ ReverseType(b + Shift * 0) = b + Shift * 1 /\ ReverseType(b + Shift * 1) = b + Shift * 0
           /\ ReverseType(b + Shift * 2) = b + Shift * 3 /\ ReverseType(b + Shift * 3) = b + Shift * 2
<1>1. \A d \in 0 .. 3 : DirectionBits(b + Shift * d) = d
  BY WithDirection
<1>2. /\ DirectionBits(b + Shift * 0) % 2 = 0 /\ DirectionBits(b + Shift * 1) % 2 = 1
      /\ DirectionBits(b + Shift * 2) % 2 = 0 /\ DirectionBits(b + Shift * 3) % 2 = 1
  BY <1>1
<1> QED BY <1>2, ShiftType DEF ReverseType, BareTypes

LEMMA IDFields ==
    ASSUME NEW e \in IDs
    PROVE  /\ e.srcID \in Nodes /\ e.dstID \in Nodes /\ e.rank \in Ranks /\ e.graphID \in Graphs
           /\ e.edgeTypeID \in TypeIDs /\ Dir(e) \in 0 .. 3 /\ Bare(e) \in BareTypes
           /\ e.edgeTypeID = Bare(e) + Shift * Dir(e)
           /\ e = [srcID |-> e.srcID, dstID |-> e.dstID, rank |-> e.rank, graphID |-> e.graphID,
                   edgeTypeID |-> e.edgeTypeID]
<1>1. /\ e.srcID \in Nodes /\ e.dstID \in Nodes /\ e.rank \in Ranks /\ e.graphID \in Graphs
      /\ e.edgeTypeID \in TypeIDs
      /\ e = [srcID |-> e.srcID, dstID |-> e.dstID, rank |-> e.rank, graphID |-> e.graphID,
              edgeTypeID |-> e.edgeTypeID]
  BY DEF IDs
<1> QED BY <1>1, SplitBits DEF Dir, Bare

(* An identifier, by its fields. *)
IDOf(x, y, r, g, t) == [srcID |-> x, dstID |-> y, rank |-> r, graphID |-> g, edgeTypeID |-> t]

LEMMA Swapped ==
    ASSUME NEW x, NEW y, NEW r, NEW g, NEW t
    PROVE  SwapEnds(IDOf(x, y, r, g, t)) = IDOf(y, x, r, g, t)
<1>1. PICK f : f = IDOf(x, y, r, g, t)
  OBVIOUS
<1>2. f.srcID = x /\ f.dstID = y
  BY <1>1 DEF IDOf
<1>3. PICK h : h = [f EXCEPT !.srcID = y]
  OBVIOUS
<1>4. h = IDOf(y, y, r, g, t)
  BY ONLY <1>1, <1>3 DEF IDOf
<1>5. [h EXCEPT !.dstID = x] = IDOf(y, x, r, g, t)
  BY ONLY <1>4 DEF IDOf
<1>6. SwapEnds(f) = [f EXCEPT !.srcID = y, !.dstID = x]
  BY <1>2, Zenon DEF SwapEnds
<1>7. [f EXCEPT !.srcID = y, !.dstID = x] = [h EXCEPT !.dstID = x]
  BY <1>3, Zenon
<1> QED BY <1>1, <1>5, <1>6, <1>7, Zenon

LEMMA Retyped ==
    ASSUME NEW x, NEW y, NEW r, NEW g, NEW t, NEW u, NEW f, f = IDOf(x, y, r, g, t)
    PROVE  [f EXCEPT !.edgeTypeID = u] = IDOf(x, y, r, g, u)
  BY DEF IDOf

(* The fields of the standard form. *)
StdSwaps(e) == Dir(e) = 1 \/ (Dir(e) > 1 /\ e.srcID >= e.dstID)
StdSrc(e) == IF StdSwaps(e) THEN e.dstID ELSE e.srcID
StdDst(e) == IF StdSwaps(e) THEN e.srcID ELSE e.dstID
StdType(e) == IF Dir(e) < 2 THEN Bare(e) + Shift * 0 ELSE Bare(e) + Shift * 2

LEMMA StandardForm ==
    ASSUME NEW e \in IDs
    PROVE  /\ Standardized(e) = IDOf(StdSrc(e), StdDst(e), e.rank, e.graphID, StdType(e))
           /\ Standardized(e) \in IDs
<1>1. PICK s, d, r, g, t, b : /\ s = e.srcID /\ d = e.dstID /\ r = e.rank /\ g = e.graphID /\ t = e.edgeTypeID
                              /\ b = Bare(e)
  OBVIOUS
<1>2. /\ e = IDOf(s, d, r, g, t)
      /\ s \in Nodes /\ d \in Nodes /\ r \in Ranks /\ g \in Graphs /\ t \in TypeIDs
      /\ b \in BareTypes /\ Dir(e) \in 0 .. 3
  BY <1>1, IDFields, Zenon DEF IDOf
<1>3. PICK bare : bare = [e EXCEPT !.edgeTypeID = RemoveDirection(@)]
  OBVIOUS
<1>4. bare = IDOf(s, d, r, g, b)
  <2>1. bare = [e EXCEPT !.edgeTypeID = b]
    BY <1>1, <1>3, Zenon DEF Bare
  <2> QED BY <1>2, <2>1, Retyped
<1>5. PICK b2 : b2 = b + Shift * 2
  OBVIOUS
<1>6. ToUndirected(e) = IDOf(s, d, r, g, b2)
  <2>1. Undirected0(b) = b2
    BY <1>2, <1>5, Directions
  <2>2. ToUndirected(e) = [e EXCEPT !.edgeTypeID = b2]
    BY <1>1, <2>1, Zenon DEF ToUndirected, Bare
  <2> QED BY <1>2, <2>2, Retyped
<1>7. SwapEnds(bare) = IDOf(d, s, r, g, b) /\ SwapEnds(ToUndirected(e)) = IDOf(d, s, r, g, b2)
  <2>1. SwapEnds(IDOf(s, d, r, g, b)) = IDOf(d, s, r, g, b)
    BY Swapped
  <2>2. SwapEnds(IDOf(s, d, r, g, b2)) = IDOf(d, s, r, g, b2)
    BY Swapped
  <2> QED BY <1>4, <1>6, <2>1, <2>2
<1>8. Standardized(e) = IF Dir(e) = 0 THEN bare
                        ELSE IF Dir(e) = 1 THEN SwapEnds(bare)
                        ELSE IF s >= d THEN SwapEnds(ToUndirected(e))
                        ELSE ToUndirected(e)
  BY <1>1, <1>3, Zenon DEF Standardized, IsOutgoing, IsIncoming, Dir
<1>9. b = b + Shift * 0
  BY <1>2, ShiftType DEF BareTypes
<1>10. /\ Dir(e) = 0 => ~StdSwaps(e) /\ Dir(e) < 2
       /\ Dir(e) = 1 => StdSwaps(e) /\ Dir(e) < 2
       /\ Dir(e) # 0 /\ Dir(e) # 1 => (StdSwaps(e) <=> s >= d) /\ ~(Dir(e) < 2)
  BY <1>1, <1>2 DEF StdSwaps
<1>11. Standardized(e) = IDOf(StdSrc(e), StdDst(e), r, g, StdType(e))
  <2>1. CASE Dir(e) = 0
    <3>1. StdSrc(e) = s /\ StdDst(e) = d /\ StdType(e) = b
      BY <1>1, <1>9, <1>10, <2>1, Zenon DEF StdSrc, StdDst, StdType
    <3> QED BY <1>4, <1>8, <2>1, <3>1, Zenon
  <2>2. CASE Dir(e) = 1
    <3>1. StdSrc(e) = d /\ StdDst(e) = s /\ StdType(e) = b
      BY <1>1, <1>9, <1>10, <2>2, Zenon DEF StdSrc, StdDst, StdType
    <3>2. Dir(e) # 0
      BY <2>2
    <3> QED BY <1>7, <1>8, <2>2, <3>1, <3>2, Zenon
  <2>3. CASE Dir(e) # 0 /\ Dir(e) # 1
    <3>1. /\ s >= d => StdSrc(e) = d /\ StdDst(e) = s
          /\ ~(s >= d) => StdSrc(e) = s /\ StdDst(e) = d
          /\ StdType(e) = b2
      BY <1>1, <1>5, <1>10, <2>3, Zenon DEF StdSrc, StdDst, StdType
    <3> QED BY <1>6, <1>7, <1>8, <2>3, <3>1, Zenon
  <2> QED BY <2>1, <2>2, <2>3
<1>12. StdSrc(e) \in Nodes /\ StdDst(e) \in Nodes
  BY <1>1, <1>2 DEF StdSrc, StdDst
<1>13. StdType(e) \in TypeIDs
  <2>1. Bare(e) + Shift * 0 \in TypeIDs /\ Bare(e) + Shift * 2 \in TypeIDs
    <3>1. 0 \in 0 .. 3 /\ 2 \in 0 .. 3
      OBVIOUS
    <3> QED BY <1>1, <1>2, <3>1, WithDirection
  <2> QED BY <2>1 DEF StdType
<1>14. IDOf(StdSrc(e), StdDst(e), r, g, StdType(e)) \in IDs
  BY <1>2, <1>12, <1>13 DEF IDOf, IDs
<1> QED BY <1>1, <1>11, <1>14, Zenon

LEMMA SwappedEnds ==
    ASSUME NEW e \in IDs
    PROVE  SwapEnds(e).srcID = e.dstID /\ SwapEnds(e).dstID = e.srcID
<1>1. e = IDOf(e.srcID, e.dstID, e.rank, e.graphID, e.edgeTypeID)
  BY IDFields, Zenon DEF IDOf
<1>2. PICK x, y, r, g, t : x = e.srcID /\ y = e.dstID /\ r = e.rank /\ g = e.graphID /\ t = e.edgeTypeID
  OBVIOUS
<1>3. SwapEnds(e) = IDOf(y, x, r, g, t)
  <2>1. e = IDOf(x, y, r, g, t)
    BY <1>1, <1>2, Zenon
  <2> QED BY ONLY <2>1, Swapped
<1>4. IDOf(y, x, r, g, t).srcID = y /\ IDOf(y, x, r, g, t).dstID = x
  BY DEF IDOf
<1> QED BY <1>2, <1>3, <1>4, Zenon

(* What operator== compares. *)
SameEdge(a, b) ==
    /\ a.graphID = b.graphID /\ a.rank = b.rank /\ Bare(a) = Bare(b) /\ (Dir(a) < 2 <=> Dir(b) < 2)
    /\ \/ a.srcID = b.srcID /\ a.dstID = b.dstID /\ (Dir(a) < 2 => (Dir(a) = 0 <=> Dir(b) = 0))
       \/ a.srcID = b.dstID /\ a.dstID = b.srcID /\ (Dir(a) < 2 => ~(Dir(a) = 0 <=> Dir(b) = 0))

LEMMA EqualIsSame ==
    ASSUME NEW a \in IDs, NEW b \in IDs
    PROVE  EqualIDs(a, b) <=> SameEdge(a, b)
<1>1. /\ IsDirected(a.edgeTypeID) <=> Dir(a) < 2
      /\ IsDirected(b.edgeTypeID) <=> Dir(b) < 2
      /\ IsOutgoing(a.edgeTypeID) <=> Dir(a) = 0
      /\ IsOutgoing(b.edgeTypeID) <=> Dir(b) = 0
      /\ IsSameEdgeType(a.edgeTypeID, b.edgeTypeID) <=> Bare(a) = Bare(b)
  BY DEF IsDirected, IsOutgoing, IsSameEdgeType, Dir, Bare
<1>2. /\ SameEnds(a, b) <=> a.srcID = b.srcID /\ a.dstID = b.dstID
      /\ SameEnds(a, SwapEnds(b)) <=> a.srcID = b.dstID /\ a.dstID = b.srcID
  BY SwappedEnds DEF SameEnds
<1>3. (IsDirected(a.edgeTypeID) = IsDirected(b.edgeTypeID)) <=> (Dir(a) < 2 <=> Dir(b) < 2)
  BY <1>1 DEF IsDirected
<1>4. (IsOutgoing(a.edgeTypeID) = IsOutgoing(b.edgeTypeID)) <=> (Dir(a) = 0 <=> Dir(b) = 0)
  BY <1>1 DEF IsOutgoing
<1>5. EqualIDs(a, b) <=>
        /\ a.graphID = b.graphID
        /\ IsDirected(a.edgeTypeID) = IsDirected(b.edgeTypeID)
        /\ IsSameEdgeType(a.edgeTypeID, b.edgeTypeID)
        /\ a.rank = b.rank
        /\ IF IsDirected(a.edgeTypeID)
           THEN IF IsOutgoing(a.edgeTypeID) = IsOutgoing(b.edgeTypeID)
                THEN SameEnds(a, b) ELSE SameEnds(a, SwapEnds(b))
           ELSE SameEnds(a, b) \/ SameEnds(a, SwapEnds(b))
  BY Zenon DEF EqualIDs
<1>6. EqualIDs(a, b) <=>
        /\ a.graphID = b.graphID /\ (Dir(a) < 2 <=> Dir(b) < 2) /\ Bare(a) = Bare(b) /\ a.rank = b.rank
        /\ IF Dir(a) < 2
           THEN IF Dir(a) = 0 <=> Dir(b) = 0
                THEN a.srcID = b.srcID /\ a.dstID = b.dstID ELSE a.srcID = b.dstID /\ a.dstID = b.srcID
           ELSE (a.srcID = b.srcID /\ a.dstID = b.dstID) \/ (a.srcID = b.dstID /\ a.dstID = b.srcID)
  BY <1>1, <1>2, <1>3, <1>4, <1>5, Zenon
<1> QED BY <1>6, Zenon DEF SameEdge

LEMMA StandardIsSame ==
    ASSUME NEW a \in IDs, NEW b \in IDs
    PROVE  SameEdge(a, b) <=> Standardized(a) = Standardized(b)
<1>1. /\ Bare(a) \in Nat /\ Bare(b) \in Nat /\ Bare(a) < Shift /\ Bare(b) < Shift /\ Shift \in Nat \ {0}
      /\ Dir(a) \in 0 .. 3 /\ Dir(b) \in 0 .. 3
      /\ a.srcID \in Int /\ a.dstID \in Int /\ b.srcID \in Int /\ b.dstID \in Int
  BY IDFields, ShiftType, EdgeIDAssumption DEF BareTypes
<1>2. StdType(a) = StdType(b) <=> Bare(a) = Bare(b) /\ (Dir(a) < 2 <=> Dir(b) < 2)
  BY <1>1 DEF StdType
<1>3. Standardized(a) = Standardized(b) <=>
        /\ StdSrc(a) = StdSrc(b) /\ StdDst(a) = StdDst(b) /\ a.rank = b.rank /\ a.graphID = b.graphID
        /\ StdType(a) = StdType(b)
  <2>1. \A x, y, r, g, t, x2, y2, r2, g2, t2 :
           IDOf(x, y, r, g, t) = IDOf(x2, y2, r2, g2, t2) <=> x = x2 /\ y = y2 /\ r = r2 /\ g = g2 /\ t = t2
    BY DEF IDOf
  <2>2. Standardized(a) = IDOf(StdSrc(a), StdDst(a), a.rank, a.graphID, StdType(a))
    BY StandardForm
  <2>3. Standardized(b) = IDOf(StdSrc(b), StdDst(b), b.rank, b.graphID, StdType(b))
    BY StandardForm
  <2>4. PICK sa, sb : sa = Standardized(a) /\ sb = Standardized(b)
    OBVIOUS
  <2>5. IDOf(StdSrc(a), StdDst(a), a.rank, a.graphID, StdType(a)) = IDOf(StdSrc(b), StdDst(b), b.rank, b.graphID, StdType(b))
          <=> /\ StdSrc(a) = StdSrc(b) /\ StdDst(a) = StdDst(b) /\ a.rank = b.rank /\ a.graphID = b.graphID
              /\ StdType(a) = StdType(b)
    BY ONLY <2>1
  <2> QED BY <2>2, <2>3, <2>5
<1>4. ASSUME Dir(a) < 2 <=> Dir(b) < 2
      PROVE  StdSrc(a) = StdSrc(b) /\ StdDst(a) = StdDst(b) <=>
               \/ a.srcID = b.srcID /\ a.dstID = b.dstID /\ (Dir(a) < 2 => (Dir(a) = 0 <=> Dir(b) = 0))
               \/ a.srcID = b.dstID /\ a.dstID = b.srcID /\ (Dir(a) < 2 => ~(Dir(a) = 0 <=> Dir(b) = 0))
  BY <1>1, <1>4 DEF StdSrc, StdDst, StdSwaps
<1> QED BY <1>2, <1>3, <1>4, Zenon DEF SameEdge

(* The ends of an edge that is directed, and of one that is not. *)
From(x, y) == {<<x, y>>}
Between(x, y) == {<<x, y>>, <<y, x>>}

LEMMA Pairs ==
    ASSUME NEW s, NEW d, NEW x, NEW y
    PROVE  /\ From(s, d) = From(x, y) <=> s = x /\ d = y
           /\ Between(s, d) = Between(x, y) <=> (s = x /\ d = y) \/ (s = y /\ d = x)
<1>1. \A p, q, u, v : <<p, q>> = <<u, v>> <=> p = u /\ q = v
  OBVIOUS
<1>2. \A p, q : {p} = {q} <=> p = q
  OBVIOUS
<1>3. \A p, q, u, v : {p, q} = {u, v} <=> (p = u /\ q = v) \/ (p = v /\ q = u)
  OBVIOUS
<1>4. {<<s, d>>} = {<<x, y>>} <=> <<s, d>> = <<x, y>>
  BY <1>2, Zenon
<1>5. {<<s, d>>, <<d, s>>} = {<<x, y>>, <<y, x>>} <=>
        \/ <<s, d>> = <<x, y>> /\ <<d, s>> = <<y, x>>
        \/ <<s, d>> = <<y, x>> /\ <<d, s>> = <<x, y>>
  <2>1. PICK p, q, u, v : p = <<s, d>> /\ q = <<d, s>> /\ u = <<x, y>> /\ v = <<y, x>>
    OBVIOUS
  <2>2. {p, q} = {u, v} <=> (p = u /\ q = v) \/ (p = v /\ q = u)
    BY ONLY <1>3
  <2> QED BY ONLY <2>1, <2>2, Zenon
<1>6. /\ <<s, d>> = <<x, y>> <=> s = x /\ d = y
      /\ <<d, s>> = <<y, x>> <=> s = x /\ d = y
      /\ <<s, d>> = <<y, x>> <=> s = y /\ d = x
      /\ <<d, s>> = <<x, y>> <=> s = y /\ d = x
  BY <1>1, Zenon
<1> QED BY <1>4, <1>5, <1>6, Zenon DEF From, Between

LEMMA NamedIsSame ==
    ASSUME NEW a \in IDs, NEW b \in IDs
    PROVE  SameEdge(a, b) <=> Named(a) = Named(b)
<1> DEFINE Ends(e) == IF Dir(e) = 0 THEN From(e.srcID, e.dstID)
                      ELSE IF Dir(e) = 1 THEN From(e.dstID, e.srcID)
                      ELSE Between(e.srcID, e.dstID)
           Where(e) == <<e.graphID, e.rank, Bare(e)>>
<1>1. \A e : Named(e) = [directed |-> Dir(e) < 2, ends |-> Ends(e), where |-> Where(e)]
  BY Zenon DEF Named, Dir, Bare, RemoveDirection, From, Between
<1>2. \A p, q \in BOOLEAN : \A x, y, u, v :
         [directed |-> p, ends |-> x, where |-> u] = [directed |-> q, ends |-> y, where |-> v]
            <=> p = q /\ x = y /\ u = v
  OBVIOUS
<1>3. Where(a) = Where(b) <=> a.graphID = b.graphID /\ a.rank = b.rank /\ Bare(a) = Bare(b)
  OBVIOUS
<1>4. Dir(a) \in 0 .. 3 /\ Dir(b) \in 0 .. 3
  BY IDFields
<1>5. ASSUME Dir(a) < 2 <=> Dir(b) < 2
      PROVE  Ends(a) = Ends(b) <=>
               \/ a.srcID = b.srcID /\ a.dstID = b.dstID /\ (Dir(a) < 2 => (Dir(a) = 0 <=> Dir(b) = 0))
               \/ a.srcID = b.dstID /\ a.dstID = b.srcID /\ (Dir(a) < 2 => ~(Dir(a) = 0 <=> Dir(b) = 0))
  <2>1. PICK s, d, x, y : s = a.srcID /\ d = a.dstID /\ x = b.srcID /\ y = b.dstID
    OBVIOUS
  <2>2. /\ From(s, d) = From(x, y) <=> s = x /\ d = y
        /\ From(s, d) = From(y, x) <=> s = y /\ d = x
        /\ From(d, s) = From(x, y) <=> s = y /\ d = x
        /\ From(d, s) = From(y, x) <=> s = x /\ d = y
        /\ Between(s, d) = Between(x, y) <=> (s = x /\ d = y) \/ (s = y /\ d = x)
    BY ONLY Pairs
  <2>3. /\ Dir(a) = 0 => Ends(a) = From(s, d)
        /\ Dir(a) = 1 => Ends(a) = From(d, s)
        /\ Dir(a) # 0 /\ Dir(a) # 1 => Ends(a) = Between(s, d)
        /\ Dir(b) = 0 => Ends(b) = From(x, y)
        /\ Dir(b) = 1 => Ends(b) = From(y, x)
        /\ Dir(b) # 0 /\ Dir(b) # 1 => Ends(b) = Between(x, y)
    <3>1. 1 # 0
      OBVIOUS
    <3> QED BY <2>1, <3>1, Zenon
  <2>4. /\ Dir(a) < 2 => (Dir(a) = 0 /\ Dir(b) = 0) \/ (Dir(a) = 0 /\ Dir(b) = 1)
                      \/ (Dir(a) = 1 /\ Dir(b) = 0) \/ (Dir(a) = 1 /\ Dir(b) = 1)
        /\ ~(Dir(a) < 2) => Dir(a) # 0 /\ Dir(a) # 1 /\ Dir(b) # 0 /\ Dir(b) # 1
        /\ 0 # 1
    BY <1>4, <1>5
  <2> HIDE DEF Ends
  <2>5. CASE ~(Dir(a) < 2)
    BY <2>1, <2>2, <2>3, <2>4, <2>5, Zenon
  <2>6. CASE Dir(a) = 0 /\ Dir(b) = 0
    BY <2>1, <2>2, <2>3, <2>4, <2>6
  <2>7. CASE Dir(a) = 0 /\ Dir(b) = 1
    BY <2>1, <2>2, <2>3, <2>4, <2>7
  <2>8. CASE Dir(a) = 1 /\ Dir(b) = 0
    BY <2>1, <2>2, <2>3, <2>4, <2>8
  <2>9. CASE Dir(a) = 1 /\ Dir(b) = 1
    BY <2>1, <2>2, <2>3, <2>4, <2>9
  <2> QED BY <2>4, <2>5, <2>6, <2>7, <2>8, <2>9, Zenon
<1> HIDE DEF Ends, Where
<1>6. (Dir(a) < 2) \in BOOLEAN /\ (Dir(b) < 2) \in BOOLEAN
  OBVIOUS
<1>7. Named(a) = Named(b) <=> (Dir(a) < 2) = (Dir(b) < 2) /\ Ends(a) = Ends(b) /\ Where(a) = Where(b)
  BY <1>1, <1>2, <1>6, Zenon
<1>8. ((Dir(a) < 2) = (Dir(b) < 2)) <=> (Dir(a) < 2 <=> Dir(b) < 2)
  OBVIOUS
<1> QED BY <1>3, <1>5, <1>7, <1>8, Zenon DEF SameEdge

(* operator< orders any two identifiers that differ in a field. *)
LEMMA Lexicographic ==
    ASSUME NEW x, NEW y, \A i \in 1 .. 5 : x[i] \in Int /\ y[i] \in Int, \E i \in 1 .. 5 : x[i] # y[i]
    PROVE  (\E i \in 1 .. 5 : x[i] < y[i] /\ \A j \in 1 .. i - 1 : x[j] = y[j]) <=>
           ~(\E i \in 1 .. 5 : y[i] < x[i] /\ \A j \in 1 .. i - 1 : y[j] = x[j])
<1>1. ASSUME NEW i \in 1 .. 5, x[i] < y[i], \A j \in 1 .. i - 1 : x[j] = y[j],
             NEW k \in 1 .. 5, y[k] < x[k], \A j \in 1 .. k - 1 : y[j] = x[j]
      PROVE  FALSE
  <2>1. CASE i < k
    <3>1. i \in 1 .. k - 1
      BY <2>1
    <3> QED BY <1>1, <3>1
  <2>2. CASE k < i
    <3>1. k \in 1 .. i - 1
      BY <2>2
    <3> QED BY <1>1, <3>1
  <2>3. CASE i = k
    BY <1>1, <2>3
  <2> QED BY <2>1, <2>2, <2>3
<1>2. \E k \in 1 .. 5 : x[k] # y[k] /\ \A j \in 1 .. k - 1 : x[j] = y[j]
  <2>1. /\ 1 .. 1 - 1 = {} /\ 1 .. 2 - 1 = {1} /\ 1 .. 3 - 1 = {1, 2} /\ 1 .. 4 - 1 = {1, 2, 3}
        /\ 1 .. 5 - 1 = {1, 2, 3, 4} /\ 1 .. 5 = {1, 2, 3, 4, 5}
    OBVIOUS
  <2>2. CASE x[1] # y[1]
    BY <2>1, <2>2
  <2>3. CASE x[1] = y[1] /\ x[2] # y[2]
    BY <2>1, <2>3
  <2>4. CASE x[1] = y[1] /\ x[2] = y[2] /\ x[3] # y[3]
    BY <2>1, <2>4
  <2>5. CASE x[1] = y[1] /\ x[2] = y[2] /\ x[3] = y[3] /\ x[4] # y[4]
    BY <2>1, <2>5
  <2>6. CASE x[1] = y[1] /\ x[2] = y[2] /\ x[3] = y[3] /\ x[4] = y[4] /\ x[5] # y[5]
    BY <2>1, <2>6
  <2> QED BY <2>1, <2>2, <2>3, <2>4, <2>5, <2>6
<1>3. PICK k \in 1 .. 5 : x[k] # y[k] /\ \A j \in 1 .. k - 1 : x[j] = y[j]
  BY <1>2
<1>4. x[k] < y[k] \/ y[k] < x[k]
  BY <1>3
<1> QED BY <1>1, <1>3, <1>4

(* The numbers operator< compares, in their order. *)
KeyOf(e) == <<e.graphID, e.srcID, e.dstID, SignedType(e.edgeTypeID), e.rank>>

LEMMA LessKeys ==
    ASSUME NEW a, NEW b
    PROVE  LessID(a, b) <=>
             \E i \in 1 .. 5 : KeyOf(a)[i] < KeyOf(b)[i] /\ \A j \in 1 .. i - 1 : KeyOf(a)[j] = KeyOf(b)[j]
  BY Zenon DEF LessID, KeyOf

LEMMA KeyFields ==
    ASSUME NEW e \in IDs
    PROVE  /\ KeyOf(e)[1] = e.graphID /\ KeyOf(e)[2] = e.srcID /\ KeyOf(e)[3] = e.dstID
           /\ KeyOf(e)[4] = SignedType(e.edgeTypeID) /\ KeyOf(e)[5] = e.rank
           /\ \A i \in 1 .. 5 : KeyOf(e)[i] \in Int
<1>1. /\ KeyOf(e)[1] = e.graphID /\ KeyOf(e)[2] = e.srcID /\ KeyOf(e)[3] = e.dstID
      /\ KeyOf(e)[4] = SignedType(e.edgeTypeID) /\ KeyOf(e)[5] = e.rank
  BY DEF KeyOf
<1>2. e.edgeTypeID \in Int /\ Shift \in Int
  BY IDFields, ShiftType DEF TypeIDs
<1>3. SignedType(e.edgeTypeID) \in Int
  BY <1>2 DEF SignedType
<1>4. e.graphID \in Int /\ e.srcID \in Int /\ e.dstID \in Int /\ e.rank \in Int
  BY IDFields, EdgeIDAssumption
<1>5. 1 .. 5 = {1, 2, 3, 4, 5}
  OBVIOUS
<1> QED BY <1>1, <1>3, <1>4, <1>5

LEMMA OrderedIDs ==
    ASSUME NEW a \in IDs, NEW b \in IDs, a # b
    PROVE  LessID(a, b) <=> ~LessID(b, a)
<1>1. PICK x, y : x = KeyOf(a) /\ y = KeyOf(b)
  OBVIOUS
<1>2. \A i \in 1 .. 5 : x[i] \in Int /\ y[i] \in Int
  BY <1>1, KeyFields
<1>3. \E i \in 1 .. 5 : x[i] # y[i]
  <2>1. SUFFICES ASSUME \A i \in 1 .. 5 : x[i] = y[i]
                 PROVE  FALSE
    OBVIOUS
  <2>2. x[1] = y[1] /\ x[2] = y[2] /\ x[3] = y[3] /\ x[4] = y[4] /\ x[5] = y[5]
    BY <2>1
  <2>3. /\ a.graphID = b.graphID /\ a.srcID = b.srcID /\ a.dstID = b.dstID /\ a.rank = b.rank
        /\ SignedType(a.edgeTypeID) = SignedType(b.edgeTypeID)
    BY <1>1, <2>2, KeyFields
  <2>4. \A s \in Nat \ {0} : \A t, u \in 0 .. 4 * s - 1 :
           (IF t >= 2 * s THEN t - 4 * s ELSE t) = (IF u >= 2 * s THEN u - 4 * s ELSE u) => t = u
    OBVIOUS
  <2>5. a.edgeTypeID \in 0 .. 4 * Shift - 1 /\ b.edgeTypeID \in 0 .. 4 * Shift - 1
    BY IDFields DEF TypeIDs
  <2>6. a.edgeTypeID = b.edgeTypeID
    BY <2>3, <2>4, <2>5, ShiftType DEF SignedType
  <2>7. a = IDOf(a.srcID, a.dstID, a.rank, a.graphID, a.edgeTypeID)
    BY IDFields, Zenon DEF IDOf
  <2>8. b = IDOf(b.srcID, b.dstID, b.rank, b.graphID, b.edgeTypeID)
    BY IDFields, Zenon DEF IDOf
  <2> QED BY <2>3, <2>6, <2>7, <2>8, Zenon
<1>4. (\E i \in 1 .. 5 : x[i] < y[i] /\ \A j \in 1 .. i - 1 : x[j] = y[j]) <=>
           ~(\E i \in 1 .. 5 : y[i] < x[i] /\ \A j \in 1 .. i - 1 : y[j] = x[j])
  BY ONLY <1>2, <1>3, Lexicographic
<1>5. LessID(a, b) <=> \E i \in 1 .. 5 : x[i] < y[i] /\ \A j \in 1 .. i - 1 : x[j] = y[j]
  BY <1>1, LessKeys, Zenon
<1>6. LessID(b, a) <=> \E i \in 1 .. 5 : y[i] < x[i] /\ \A j \in 1 .. i - 1 : y[j] = x[j]
  BY <1>1, LessKeys, Zenon
<1> QED BY <1>4, <1>5, <1>6, Zenon

(* The identifiers of the program stay within IDs. *)
LEMMA NewAreIDs == NewIDs \subseteq IDs
<1>1. ASSUME NEW t \in Types
      PROVE  AllEdgeTypesFor("AnyDirection", t) \subseteq TypeIDs
  <2>1. t \in BareTypes
    BY EdgeIDAssumption DEF BareTypes, Shift
  <2>2. \A d \in 0 .. 3 : t + Shift * d \in TypeIDs
    BY <2>1, WithDirection
  <2>3. Outgoing(t) \in TypeIDs /\ Incoming(t) \in TypeIDs /\ Undirected0(t) \in TypeIDs /\ Undirected1(t) \in TypeIDs
    BY <2>1, <2>2, Directions
  <2> QED BY <2>3 DEF AllEdgeTypesFor
<1>2. UNION {AllEdgeTypesFor("AnyDirection", t) : t \in Types} \subseteq TypeIDs
  BY <1>1
<1> QED BY <1>2 DEF NewIDs, IDs

LEMMA ReverseIsID ==
    ASSUME NEW e \in IDs
    PROVE  ReverseID(e) \in IDs
<1>1. PICK s, d, r, g, t : s = e.srcID /\ d = e.dstID /\ r = e.rank /\ g = e.graphID /\ t = e.edgeTypeID
  OBVIOUS
<1>2. /\ e = IDOf(s, d, r, g, t)
      /\ s \in Nodes /\ d \in Nodes /\ r \in Ranks /\ g \in Graphs /\ t \in TypeIDs
  BY <1>1, IDFields, Zenon DEF IDOf
<1>3. SwapEnds(e) = IDOf(d, s, r, g, t)
  BY ONLY <1>2, Swapped
<1>4. PICK f : f = SwapEnds(e)
  OBVIOUS
<1>5. f = IDOf(d, s, r, g, t) /\ f.edgeTypeID = t
  BY <1>3, <1>4 DEF IDOf
<1>6. PICK u : u = ReverseType(t)
  OBVIOUS
<1>7. u \in TypeIDs
  <2>1. PICK b, x : b = RemoveDirection(t) /\ x = DirectionBits(t)
    OBVIOUS
  <2>2. b \in BareTypes /\ x \in 0 .. 3 /\ t = b + Shift * x
    BY <1>2, <2>1, SplitBits
  <2>3. \A y \in 0 .. 3 : b + Shift * y \in TypeIDs
    BY <2>2, WithDirection
  <2>4. x = 0 \/ x = 1 \/ x = 2 \/ x = 3
    BY <2>2
  <2> QED BY <1>6, <2>2, <2>3, <2>4, Reversed
<1>8. ReverseID(e) = [f EXCEPT !.edgeTypeID = u]
  BY <1>4, <1>5, <1>6, Zenon DEF ReverseID
<1>9. [f EXCEPT !.edgeTypeID = u] = IDOf(d, s, r, g, u)
  BY ONLY <1>5, Retyped
<1>10. IDOf(d, s, r, g, u) \in IDs
  BY <1>2, <1>7 DEF IDOf, IDs
<1> QED BY <1>8, <1>9, <1>10, Zenon

LEMMA UndirectedIsID ==
    ASSUME NEW e \in IDs
    PROVE  ToUndirected(e) \in IDs
<1>1. PICK s, d, r, g, t : s = e.srcID /\ d = e.dstID /\ r = e.rank /\ g = e.graphID /\ t = e.edgeTypeID
  OBVIOUS
<1>2. /\ e = IDOf(s, d, r, g, t)
      /\ s \in Nodes /\ d \in Nodes /\ r \in Ranks /\ g \in Graphs /\ t \in TypeIDs
      /\ Bare(e) \in BareTypes
  BY <1>1, IDFields, Zenon DEF IDOf
<1>3. PICK u : u = Undirected0(Bare(e))
  OBVIOUS
<1>4. u \in TypeIDs
  <2>1. 2 \in 0 .. 3
    OBVIOUS
  <2> QED BY <1>2, <1>3, <2>1, Directions, WithDirection
<1>5. ToUndirected(e) = [e EXCEPT !.edgeTypeID = u]
  BY <1>1, <1>3, Zenon DEF ToUndirected, Bare
<1>6. [e EXCEPT !.edgeTypeID = u] = IDOf(s, d, r, g, u)
  BY ONLY <1>2, Retyped
<1>7. IDOf(s, d, r, g, u) \in IDs
  BY <1>2, <1>4 DEF IDOf, IDs
<1> QED BY <1>5, <1>6, <1>7, Zenon

(* The identifiers that the program holds name different edges. *)
EdgeInv ==
    /\ id \in IDs
    /\ followed \in EdgeDirections \cup {"none"}
    /\ held \subseteq IDs
    /\ \A a, b \in held : Named(a) = Named(b) => a = b

LEMMA InsertInv ==
    ASSUME EdgeInv, Insert
    PROVE  EdgeInv'
<1>1. id' = id /\ followed' = followed
  BY DEF Insert
<1>2. CASE \E e \in held : HashID(e) = HashID(id) /\ EqualIDs(e, id)
  <2>1. held' = held
    BY <1>2, Zenon DEF Insert
  <2> QED BY <1>1, <2>1, Zenon DEF EdgeInv
<1>3. CASE ~\E e \in held : HashID(e) = HashID(id) /\ EqualIDs(e, id)
  <2>1. held' = held \cup {id}
    BY <1>3, Zenon DEF Insert
  <2>2. ASSUME NEW e \in held, Named(e) = Named(id)
        PROVE  FALSE
    <3>1. e \in IDs /\ id \in IDs
      BY DEF EdgeInv
    <3>2. SameEdge(e, id)
      BY <2>2, <3>1, NamedIsSame, Zenon
    <3>3. EqualIDs(e, id) /\ Standardized(e) = Standardized(id)
      BY <3>1, <3>2, EqualIsSame, StandardIsSame, Zenon
    <3> QED BY <1>3, <3>3, Zenon DEF HashID
  <2>3. ASSUME NEW a \in held \cup {id}, NEW b \in held \cup {id}, Named(a) = Named(b)
        PROVE  a = b
    <3>1. CASE a \in held /\ b \in held
      BY <2>3, <3>1, Zenon DEF EdgeInv
    <3>2. CASE a \in held /\ b = id
      BY <2>2, <2>3, <3>2, Zenon
    <3>3. CASE a = id /\ b \in held
      <4>1. Named(b) = Named(id)
        BY <2>3, <3>3, Zenon
      <4> QED BY <2>2, <3>3, <4>1, Zenon
    <3> QED BY <3>1, <3>2, <3>3, Zenon
  <2>4. \A a, b \in held' : Named(a) = Named(b) => a = b
    BY <2>1, <2>3, Zenon
  <2>5. id \in IDs /\ held \subseteq IDs /\ followed \in EdgeDirections \cup {"none"}
    BY DEF EdgeInv
  <2>6. held' \subseteq IDs
    BY <2>1, <2>5
  <2> QED BY <1>1, <2>4, <2>5, <2>6, Zenon DEF EdgeInv
<1> QED BY <1>2, <1>3, Zenon

LEMMA EdgeAlways == EdgeSpec => []EdgeInv
<1>1. EdgeInit => EdgeInv
  BY NewAreIDs DEF EdgeInit, EdgeInv
<1>2. EdgeInv /\ [EdgeNext]_edgeVars => EdgeInv'
  <2> SUFFICES ASSUME EdgeInv, [EdgeNext]_edgeVars PROVE EdgeInv'
    OBVIOUS
  <2>1. ASSUME id' \in IDs, held' = held, followed' \in EdgeDirections \cup {"none"}
        PROVE  EdgeInv'
    BY <2>1, Zenon DEF EdgeInv
  <2>2. id \in IDs /\ followed \in EdgeDirections \cup {"none"}
    BY DEF EdgeInv
  <2>3. CASE ReverseEdge
    BY <2>1, <2>2, <2>3, ReverseIsID, Zenon DEF ReverseEdge
  <2>4. CASE Standardize
    BY <2>1, <2>2, <2>4, StandardForm, Zenon DEF Standardize
  <2>5. CASE MakeUndirected
    <3>1. followed' \in EdgeDirections \cup {"none"}
      BY <2>5 DEF MakeUndirected
    <3> QED BY <2>1, <2>2, <2>5, <3>1, UndirectedIsID, Zenon DEF MakeUndirected
  <2>6. ASSUME NEW d \in EdgeDirections, NEW e \in NewIDs, Follow(d, e)
        PROVE  EdgeInv'
    <3>1. followed' \in EdgeDirections \cup {"none"} /\ id' \in IDs /\ held' = held
      BY <2>6, NewAreIDs DEF Follow
    <3> QED BY <2>1, <3>1, Zenon
  <2>7. CASE Insert
    BY <2>7, InsertInv, Zenon
  <2>8. CASE UNCHANGED edgeVars
    <3>1. id' = id /\ followed' = followed /\ held' = held
      BY <2>8 DEF edgeVars
    <3> QED BY <2>1, <2>2, <3>1, Zenon
  <2> QED BY <2>3, <2>4, <2>5, <2>6, <2>7, <2>8, Zenon DEF EdgeNext
<1> QED BY <1>1, <1>2, PTL DEF EdgeSpec

(* For all catalogs, nodes and bounds: a set of identifiers has one of an  *)
(* edge, operator== agrees with the standard forms, and operator< orders   *)
(* them (EdgeID.h:60-87, 94-118, 166-173).                                 *)
THEOREM EdgesOnce == EdgeSpec => []OneIdPerEdge
<1>1. EdgeInv => OneIdPerEdge
  <2> SUFFICES ASSUME EdgeInv PROVE OneIdPerEdge
    OBVIOUS
  <2>1. \A a, b \in held : Named(a) = Named(b) => a = b
    BY Zenon DEF EdgeInv
  <2>2. held \cup {id, ReverseID(id)} \subseteq IDs
    BY ReverseIsID DEF EdgeInv
  <2>3. ASSUME NEW a \in IDs, NEW b \in IDs
        PROVE  /\ EqualIDs(a, b) <=> Standardized(a) = Standardized(b)
               /\ EqualIDs(a, b) <=> Named(a) = Named(b)
               /\ Standardized(a) # Standardized(b) =>
                    (LessID(Standardized(a), Standardized(b)) <=> ~LessID(Standardized(b), Standardized(a)))
    <3>1. Standardized(a) \in IDs /\ Standardized(b) \in IDs
      BY StandardForm, Zenon
    <3>2. PICK sa, sb : sa = Standardized(a) /\ sb = Standardized(b)
      OBVIOUS
    <3>3. sa \in IDs /\ sb \in IDs
      BY <3>1, <3>2, Zenon
    <3>4. sa # sb => (LessID(sa, sb) <=> ~LessID(sb, sa))
      BY ONLY <3>3, OrderedIDs
    <3>5. EqualIDs(a, b) <=> SameEdge(a, b)
      BY EqualIsSame
    <3>6. SameEdge(a, b) <=> Standardized(a) = Standardized(b)
      BY StandardIsSame
    <3>7. SameEdge(a, b) <=> Named(a) = Named(b)
      BY NamedIsSame
    <3> QED BY <3>2, <3>4, <3>5, <3>6, <3>7, Zenon
  <2>4. \A a, b \in held \cup {id, ReverseID(id)} :
              /\ EqualIDs(a, b) <=> Standardized(a) = Standardized(b)
              /\ EqualIDs(a, b) <=> Named(a) = Named(b)
              /\ Standardized(a) # Standardized(b) =>
                    (LessID(Standardized(a), Standardized(b)) <=> ~LessID(Standardized(b), Standardized(a)))
    BY <2>2, <2>3, Zenon
  <2> QED BY <2>1, <2>4, Zenon DEF OneIdPerEdge
<1> QED BY <1>1, EdgeAlways, PTL

(* For all catalogs, nodes and bounds: an edge that was followed in a      *)
(* direction is found from its other end in the mirrored one               *)
(* (EdgeUtils.h:150-212, 56-93).                                           *)
THEOREM BothEnds == EdgeSpec => []SeenFromBothEnds
<1>1. EdgeInv => SeenFromBothEnds
  <2> SUFFICES ASSUME EdgeInv, followed # "none"
               PROVE  LET t == RemoveDirection(id.edgeTypeID)
                          turned == {ReverseType(x) : x \in AllEdgeTypesFor(followed, t)}
                      IN  /\ turned = AllEdgeTypesFor(Mirrored(followed), t)
                          /\ IsLegalEdgeTypeID(t)
                          /\ EdgePrefix(Mirrored(followed)) = EdgePostfix(followed)
                          /\ \A x \in turned : IsOutgoingOrUndirected0(x) <=> IsOutgoing(x) \/ IsUndirected0(x)
                          /\ \A x \in turned : IsUndirected1(x) <=> ~IsDirected(x) /\ ~IsUndirected0(x)
    BY Zenon DEF SeenFromBothEnds
  <2>1. PICK t : t = RemoveDirection(id.edgeTypeID)
    OBVIOUS
  <2>2. PICK f : f = followed
    OBVIOUS
  <2>3. f \in EdgeDirections
    BY <2>2 DEF EdgeInv
  <2>4. t \in BareTypes
    <3>1. id \in IDs
      BY DEF EdgeInv
    <3> QED BY <2>1, <3>1, IDFields DEF Bare
  <2>5. PICK out, in, un0, un1 : out = Outgoing(t) /\ in = Incoming(t) /\ un0 = Undirected0(t) /\ un1 = Undirected1(t)
    OBVIOUS
  <2>6. /\ ReverseType(out) = in /\ ReverseType(in) = out /\ ReverseType(un0) = un1 /\ ReverseType(un1) = un0
        /\ DirectionBits(out) = 0 /\ DirectionBits(in) = 1 /\ DirectionBits(un0) = 2 /\ DirectionBits(un1) = 3
    <3>1. out = t + Shift * 0 /\ in = t + Shift * 1 /\ un0 = t + Shift * 2 /\ un1 = t + Shift * 3
      BY <2>4, <2>5, Directions
    <3>2. \A d \in 0 .. 3 : DirectionBits(t + Shift * d) = d
      BY <2>4, WithDirection
    <3>3. 0 \in 0 .. 3 /\ 1 \in 0 .. 3 /\ 2 \in 0 .. 3 /\ 3 \in 0 .. 3
      OBVIOUS
    <3> QED BY <2>4, <3>1, <3>2, <3>3, Reversed
  <2>7. PICK turned : turned = {ReverseType(x) : x \in AllEdgeTypesFor(f, t)}
    OBVIOUS
  <2>8. \A d : AllEdgeTypesFor(d, t) = (IF HasLeft(d) THEN {in} ELSE {}) \cup (IF HasRight(d) THEN {out} ELSE {})
                                         \cup (IF HasUndirected(d) THEN {un0, un1} ELSE {})
    BY <2>5, Zenon DEF AllEdgeTypesFor
  <2>9. /\ HasLeft(Mirrored(f)) <=> HasRight(f)
        /\ HasRight(Mirrored(f)) <=> HasLeft(f)
        /\ HasUndirected(Mirrored(f)) <=> HasUndirected(f)
    BY <2>3 DEF EdgeDirections, Mirrored, HasLeft, HasRight, HasUndirected
  <2>10. PICK d2 : d2 = Mirrored(f)
    OBVIOUS
  <2>11. turned = AllEdgeTypesFor(d2, t)
    <3>1. \A y : y \in turned <=> \E x \in AllEdgeTypesFor(f, t) : y = ReverseType(x)
      BY <2>7
    <3>2. \A x : x \in AllEdgeTypesFor(f, t) <=>
              \/ HasLeft(f) /\ x = in
              \/ HasRight(f) /\ x = out
              \/ HasUndirected(f) /\ (x = un0 \/ x = un1)
      BY <2>8
    <3>3. \A x : x \in AllEdgeTypesFor(d2, t) <=>
              \/ HasRight(f) /\ x = in
              \/ HasLeft(f) /\ x = out
              \/ HasUndirected(f) /\ (x = un0 \/ x = un1)
      BY <2>8, <2>9, <2>10
    <3>4. \A y : y \in turned <=> y \in AllEdgeTypesFor(d2, t)
      BY ONLY <2>6, <3>1, <3>2, <3>3
    <3> QED BY <3>4
  <2>12. IsLegalEdgeTypeID(t)
    BY <2>4, Directions DEF IsLegalEdgeTypeID
  <2>13. EdgePrefix(d2) = EdgePostfix(f)
    BY <2>3, <2>10 DEF EdgeDirections, Mirrored, EdgePrefix, EdgePostfix
  <2>14. turned \subseteq {in, out, un0, un1}
    BY <2>8, <2>11
  <2>15. \A x \in {in, out, un0, un1} :
            /\ IsOutgoingOrUndirected0(x) <=> IsOutgoing(x) \/ IsUndirected0(x)
            /\ IsUndirected1(x) <=> ~IsDirected(x) /\ ~IsUndirected0(x)
    BY <2>6 DEF IsOutgoingOrUndirected0, IsOutgoing, IsUndirected0, IsUndirected1, IsDirected
  <2>16. turned = {ReverseType(x) : x \in AllEdgeTypesFor(followed, RemoveDirection(id.edgeTypeID))}
    BY <2>1, <2>2, <2>7, Zenon
  <2> QED BY <2>1, <2>2, <2>10, <2>11, <2>12, <2>13, <2>14, <2>15, <2>16, Zenon
<1> QED BY <1>1, EdgeAlways, PTL
-----------------------------------------------------------------------------
(* Durations.  Division towards zero is the division of natural numbers,   *)
(* with the sign put back.                                                 *)

LEMMA Multiples ==
    ASSUME NEW b \in Nat \ {0}, NEW q \in Int, NEW r \in Int, 0 <= r, r < b, NEW p \in Int, NEW s \in Int,
           0 <= s, s < b, b * q + r = b * p + s
    PROVE  q = p /\ r = s
<1>1. ASSUME NEW x \in Int, NEW y \in Int, NEW u \in Int, NEW v \in Int, 0 <= u, u < b, 0 <= v, v < b,
             b * x + u = b * y + v, x < y
      PROVE  FALSE
  <2>1. PICK k \in Nat : y = x + 1 + k
    <3>1. y - x - 1 \in Nat /\ y = x + 1 + (y - x - 1)
      BY <1>1
    <3> QED BY <3>1
  <2>2. b * y = b * x + b + b * k
    BY <2>1
  <2>3. b * k \in Nat
    OBVIOUS
  <2>4. b * x \in Int
    OBVIOUS
  <2> QED BY <1>1, <2>2, <2>3, <2>4
<1>2. q = p
  <2>1. ~(q < p)
    BY <1>1
  <2>2. ~(p < q)
    BY <1>1
  <2> QED BY <2>1, <2>2
<1> QED BY <1>2

LEMMA Divided ==
    ASSUME NEW a \in Nat, NEW b \in Nat \ {0}
    PROVE  /\ a \div b \in Nat /\ a % b \in Nat /\ a % b < b
           /\ a = b * (a \div b) + (a % b)
           /\ a - b * (a \div b) = a % b
  OBVIOUS

(* The remainder by a unit is that of the remainder by a multiple of it. *)
LEMMA ModTwice ==
    ASSUME NEW a \in Nat, NEW b \in Nat \ {0}, NEW k \in Nat \ {0}
    PROVE  (a % (b * k)) % b = a % b
<1>1. b * k \in Nat \ {0}
  OBVIOUS
<1>2. PICK m \in Nat \ {0} : m = b * k
  BY <1>1
<1>3. PICK q, r : q = a \div m /\ r = a % m
  OBVIOUS
<1>4. q \in Nat /\ r \in Nat /\ a = m * q + r
  BY <1>3, Divided
<1>5. PICK q2, r2 : q2 = r \div b /\ r2 = r % b
  OBVIOUS
<1>6. q2 \in Nat /\ r2 \in Nat /\ r2 < b /\ r = b * q2 + r2
  BY <1>4, <1>5, Divided
<1>7. PICK q3, r3 : q3 = a \div b /\ r3 = a % b
  OBVIOUS
<1>8. q3 \in Nat /\ r3 \in Nat /\ r3 < b /\ a = b * q3 + r3
  BY <1>7, Divided
<1>9. \A x, y, z \in Nat : (b * x) * y + (b * z) = b * (x * y + z)
  OBVIOUS
<1>10. m * q + b * q2 = b * (k * q + q2)
  BY <1>2, <1>4, <1>6, <1>9
<1>11. k * q + q2 \in Int
  BY <1>4, <1>6
<1>12. PICK p \in Int : p = k * q + q2
  BY <1>11
<1>13. r2 = r3
  <2>1. b * p + r2 = b * q3 + r3
    BY <1>4, <1>6, <1>8, <1>10, <1>12
  <2> QED BY ONLY <1>6, <1>8, <2>1, b \in Nat \ {0}, p \in Int, Multiples
<1> QED BY <1>2, <1>3, <1>5, <1>7, <1>13

LEMMA Signs ==
    ASSUME NEW a \in Int, NEW b \in Nat \ {0}
    PROVE  /\ Quotient(a, b) \in Int /\ Remainder(a, b) \in Int
           /\ Quotient(a, b) * b + Remainder(a, b) = a
           /\ a >= 0 => Remainder(a, b) = a % b
           /\ a < 0 => Remainder(a, b) = -((-a) % b)
<1>1. Quotient(a, b) \in Int
  BY DEF Quotient
<1>2. PICK q \in Int : q = Quotient(a, b)
  BY <1>1
<1>3. Remainder(a, b) = a - b * q
  BY <1>2 DEF Remainder
<1>4. a >= 0 => a - b * q = a % b
  BY <1>2, Divided DEF Quotient
<1>5. a < 0 => a - b * q = -((-a) % b)
  <2> SUFFICES ASSUME a < 0 PROVE a - b * q = -((-a) % b)
    OBVIOUS
  <2>1. PICK c \in Nat : c = -a
    OBVIOUS
  <2>2. q = -(c \div b)
    BY <1>2, <2>1 DEF Quotient
  <2>3. c - b * (c \div b) = c % b /\ c \div b \in Nat /\ c % b \in Nat
    BY Divided
  <2>4. b * q = -(b * (c \div b))
    BY <2>2, <2>3
  <2> QED BY <2>1, <2>3, <2>4
<1>6. q * b + (a - b * q) = a
  OBVIOUS
<1>7. a - b * q \in Int
  OBVIOUS
<1> QED BY <1>2, <1>3, <1>4, <1>5, <1>6, <1>7

LEMMA RemainderTwice ==
    ASSUME NEW a \in Int, NEW b \in Nat \ {0}, NEW k \in Nat \ {0}
    PROVE  Remainder(Remainder(a, b * k), b) = Remainder(a, b)
<1>1. PICK m \in Nat \ {0} : m = b * k
  OBVIOUS
<1>2. PICK r \in Int : r = Remainder(a, m)
  BY Signs
<1>3. CASE a >= 0
  <2>1. r = a % m /\ r >= 0
    BY <1>2, <1>3, Signs, Divided
  <2>2. Remainder(r, b) = r % b /\ Remainder(a, b) = a % b
    BY <1>2, <1>3, <2>1, Signs
  <2>3. (a % m) % b = a % b
    <3>1. a \in Nat
      BY <1>3
    <3>2. (a % (b * k)) % b = a % b
      BY <3>1, ModTwice
    <3> QED BY <1>1, <3>2
  <2> QED BY <1>1, <1>2, <2>1, <2>2, <2>3
<1>4. CASE a < 0
  <2>1. PICK c \in Nat : c = -a
    BY <1>4
  <2>2. r = -(c % m) /\ c % m \in Nat /\ Remainder(a, b) = -(c % b)
    BY <1>2, <1>4, <2>1, Signs, Divided
  <2>3. (c % m) % b = c % b
    BY <1>1, ModTwice
  <2>4. CASE r < 0
    <3>1. Remainder(r, b) = -((-r) % b)
      BY <1>2, <2>4, Signs
    <3>2. -r = c % m
      BY <2>2
    <3> QED BY <1>1, <1>2, <2>2, <2>3, <3>1, <3>2
  <2>5. CASE r >= 0
    <3>1. r = 0 /\ c % m = 0
      BY <2>2, <2>5
    <3>2. Remainder(r, b) = 0 % b
      BY <1>2, <3>1, Signs
    <3>3. 0 % b = 0
      OBVIOUS
    <3>4. Remainder(a, b) = 0
      BY <2>2, <2>3, <3>1, <3>3
    <3> QED BY <1>1, <1>2, <3>2, <3>3, <3>4
  <2> QED BY <1>2, <2>4, <2>5
<1> QED BY <1>3, <1>4

(* A duration has its months and its microseconds, and so has the sum of   *)
(* what was added to it.                                                   *)
DurationTypeOK ==
    /\ duration \in [months : Int, seconds : Int, microseconds : Int]
    /\ added \in [months : Int, micros : Int]

DurationInv ==
    /\ DurationTypeOK
    /\ duration.months = added.months
    /\ duration.seconds * MicrosOfSecond + duration.microseconds = added.micros

LEMMA Units ==
    /\ MicrosOfMilli \in Nat \ {0} /\ MillisOfSecond \in Nat \ {0} /\ MonthsOfYear \in Nat \ {0}
    /\ MicrosOfSecond \in Nat \ {0} /\ SecondsOfMinute \in Nat \ {0} /\ MinutesOfHour \in Nat \ {0}
    /\ HoursOfDay \in Nat \ {0} /\ SecondsOfHour \in Nat \ {0} /\ SecondsOfDay \in Nat \ {0}
<1>1. /\ MicrosOfMilli \in Nat \ {0} /\ MillisOfSecond \in Nat \ {0} /\ MonthsOfYear \in Nat \ {0}
      /\ SecondsOfMinute \in Nat \ {0} /\ MinutesOfHour \in Nat \ {0} /\ HoursOfDay \in Nat \ {0}
  BY DurationAssumption
<1>2. \A x, y \in Nat \ {0} : x * y \in Nat \ {0}
  OBVIOUS
<1>3. SecondsOfHour \in Nat \ {0} /\ MicrosOfSecond \in Nat \ {0}
  BY <1>1, <1>2 DEF SecondsOfHour, MicrosOfSecond
<1> QED BY <1>1, <1>2, <1>3 DEF SecondsOfDay

(* One call: the duration d becomes e, and the sums follow. *)
LEMMA Applied ==
    ASSUME DurationInv, NEW e, NEW m, NEW u, Apply(e, m, u),
           e \in [months : Int, seconds : Int, microseconds : Int], m \in Int, u \in Int,
           e.months = m, e.seconds * MicrosOfSecond + e.microseconds = u
    PROVE  DurationInv'
<1>1. duration' = e /\ added' = [months |-> m, micros |-> u]
  BY DEF Apply
<1>2. added'.months = m /\ added'.micros = u /\ added' \in [months : Int, micros : Int]
  BY <1>1
<1> QED BY <1>1, <1>2, Zenon DEF DurationInv, DurationTypeOK

(* A duration, by its fields. *)
DurationOf(m, s, u) == [months |-> m, seconds |-> s, microseconds |-> u]

LEMMA DurationFields ==
    ASSUME NEW m \in Int, NEW s \in Int, NEW u \in Int
    PROVE  /\ DurationOf(m, s, u) \in [months : Int, seconds : Int, microseconds : Int]
           /\ DurationOf(m, s, u).months = m /\ DurationOf(m, s, u).seconds = s
           /\ DurationOf(m, s, u).microseconds = u
  BY DEF DurationOf

(* What the calls make of the fields. *)
LEMMA AddsToFields ==
    ASSUME NEW d, NEW m \in Int, NEW s \in Int, NEW u \in Int, d = DurationOf(m, s, u), NEW n \in Int
    PROVE  /\ AddYears(d, n) = DurationOf(m + n * MonthsOfYear, s, u)
           /\ AddQuarters(d, n) = DurationOf(m + n * 3, s, u)
           /\ AddMonths(d, n) = DurationOf(m + n, s, u)
           /\ AddWeeks(d, n) = DurationOf(m, s + n * 7 * SecondsOfDay, u)
           /\ AddDays(d, n) = DurationOf(m, s + n * SecondsOfDay, u)
           /\ AddHours(d, n) = DurationOf(m, s + n * SecondsOfHour, u)
           /\ AddMinutes(d, n) = DurationOf(m, s + n * SecondsOfMinute, u)
           /\ AddSeconds(d, n) = DurationOf(m, s + n, u)
           /\ AddMicroseconds(d, n) = DurationOf(m, s, u + n)
           /\ AddMilliseconds(d, n) = DurationOf(m, s + Quotient(n, MillisOfSecond),
                                                 u + Remainder(n, MillisOfSecond) * MicrosOfMilli)
           /\ Negated(d) = DurationOf(-m, -s, -u)
<1>1. d.months = m /\ d.seconds = s /\ d.microseconds = u
  BY DEF DurationOf
<1>2. \A x : [d EXCEPT !.months = x] = DurationOf(x, s, u)
  BY DEF DurationOf
<1>3. \A x : [d EXCEPT !.seconds = x] = DurationOf(m, x, u)
  BY DEF DurationOf
<1>4. \A x : [d EXCEPT !.microseconds = x] = DurationOf(m, s, x)
  BY DEF DurationOf
<1>5. \A x, y : [d EXCEPT !.seconds = x, !.microseconds = y] = DurationOf(m, x, y)
  <2> SUFFICES ASSUME NEW x, NEW y PROVE [d EXCEPT !.seconds = x, !.microseconds = y] = DurationOf(m, x, y)
    OBVIOUS
  <2>1. PICK h : h = [d EXCEPT !.seconds = x]
    OBVIOUS
  <2>2. h = DurationOf(m, x, u)
    BY <1>3, <2>1
  <2>3. [h EXCEPT !.microseconds = y] = DurationOf(m, x, y)
    BY ONLY <2>2 DEF DurationOf
  <2> QED BY <2>1, <2>3, Zenon
<1>6. AddYears(d, n) = DurationOf(m + n * MonthsOfYear, s, u) /\ AddQuarters(d, n) = DurationOf(m + n * 3, s, u)
      /\ AddMonths(d, n) = DurationOf(m + n, s, u)
  BY <1>1, <1>2, Zenon DEF AddYears, AddQuarters, AddMonths
<1>7. /\ AddWeeks(d, n) = DurationOf(m, s + n * 7 * SecondsOfDay, u)
      /\ AddDays(d, n) = DurationOf(m, s + n * SecondsOfDay, u)
      /\ AddHours(d, n) = DurationOf(m, s + n * SecondsOfHour, u)
      /\ AddMinutes(d, n) = DurationOf(m, s + n * SecondsOfMinute, u)
      /\ AddSeconds(d, n) = DurationOf(m, s + n, u)
  BY <1>1, <1>3, Zenon DEF AddWeeks, AddDays, AddHours, AddMinutes, AddSeconds
<1>8. AddMicroseconds(d, n) = DurationOf(m, s, u + n)
  BY <1>1, <1>4, Zenon DEF AddMicroseconds
<1>9. AddMilliseconds(d, n) = DurationOf(m, s + Quotient(n, MillisOfSecond),
                                         u + Remainder(n, MillisOfSecond) * MicrosOfMilli)
  BY <1>1, <1>5, Zenon DEF AddMilliseconds
<1>10. Negated(d) = DurationOf(-m, -s, -u)
  BY <1>1, Zenon DEF Negated, DurationOf
<1> QED BY <1>6, <1>7, <1>8, <1>9, <1>10

LEMMA AppliedFields ==
    ASSUME DurationInv, NEW m \in Int, NEW s \in Int, NEW u \in Int, NEW p, NEW e,
           e = DurationOf(m, s, u), Apply(e, m, p), s * MicrosOfSecond + u = p
    PROVE  DurationInv'
<1>1. p \in Int
  BY Units
<1>2. /\ e \in [months : Int, seconds : Int, microseconds : Int]
      /\ e.months = m /\ e.seconds = s /\ e.microseconds = u
  BY DEF DurationOf
<1>3. e.seconds * MicrosOfSecond + e.microseconds = p
  BY <1>2
<1> QED BY ONLY <1>1, <1>2, <1>3, DurationInv, m \in Int, Apply(e, m, p), Applied

LEMMA AddInv ==
    ASSUME DurationInv, NEW n \in Int, Add(n)
    PROVE  DurationInv'
<1>1. PICK d, m, s, v, u : /\ d = duration /\ m = duration.months /\ s = duration.seconds
                           /\ v = duration.microseconds /\ u = added.micros
  OBVIOUS
<1>2. /\ m \in Int /\ s \in Int /\ v \in Int /\ u \in Int
      /\ d = DurationOf(m, s, v) /\ added.months = m
      /\ s * MicrosOfSecond + v = u
  BY <1>1 DEF DurationInv, DurationTypeOK, DurationOf
<1>3. \A x, y, z, w \in Int : (x + y) * z + w = (x * z + w) + y * z
  OBVIOUS
<1>4. \A x \in Int : (s + x) * MicrosOfSecond + v = u + x * MicrosOfSecond
  BY <1>2, <1>3, Units
<1>5. /\ n * MonthsOfYear \in Int /\ n * 3 \in Int /\ 3 * n = n * 3
      /\ n * 7 * SecondsOfDay \in Int /\ n * SecondsOfDay \in Int /\ n * SecondsOfHour \in Int
      /\ n * SecondsOfMinute \in Int /\ 7 * n * SecondsOfDay = n * 7 * SecondsOfDay
  BY Units
<1>6. PICK q, r, f, k : q = Quotient(n, MillisOfSecond) /\ r = Remainder(n, MillisOfSecond)
                        /\ f = MicrosOfMilli /\ k = MillisOfSecond
  OBVIOUS
<1>7. /\ q \in Int /\ r \in Int /\ q * k + r = n /\ MicrosOfSecond = f * k
      /\ f \in Nat \ {0} /\ k \in Nat \ {0}
  BY <1>6, Signs, Units DEF MicrosOfSecond
<1>8. r * f \in Int /\ q * MicrosOfSecond + r * f = n * f
  <2>1. \A x, y, z, w \in Int : x * (z * y) + w * z = (x * y + w) * z
    OBVIOUS
  <2>2. q * (f * k) + r * f = (q * k + r) * f
    BY <1>7, <2>1
  <2> QED BY <1>7, <2>2
<1>9. n * f \in Int /\ q * MicrosOfSecond \in Int /\ s * MicrosOfSecond \in Int
  BY <1>2, <1>7
<1>10. CASE Apply(AddYears(d, n), m + n * MonthsOfYear, u)
  <2>1. AddYears(d, n) = DurationOf(m + n * MonthsOfYear, s, v)
    BY <1>2, AddsToFields
  <2>2. PICK x \in Int : x = m + n * MonthsOfYear
    BY <1>2, <1>5
  <2> QED BY ONLY DurationInv, <1>2, <1>10, <2>1, <2>2, x \in Int, AppliedFields
<1>11. CASE Apply(AddQuarters(d, n), m + 3 * n, u)
  <2>1. AddQuarters(d, n) = DurationOf(m + n * 3, s, v)
    BY <1>2, AddsToFields
  <2>2. PICK x \in Int : x = m + n * 3 /\ x = m + 3 * n
    BY <1>2, <1>5
  <2> QED BY ONLY DurationInv, <1>2, <1>11, <2>1, <2>2, x \in Int, AppliedFields
<1>12. CASE Apply(AddMonths(d, n), m + n, u)
  <2>1. AddMonths(d, n) = DurationOf(m + n, s, v)
    BY <1>2, AddsToFields
  <2>2. PICK x \in Int : x = m + n
    BY <1>2
  <2> QED BY ONLY DurationInv, <1>2, <1>12, <2>1, <2>2, x \in Int, AppliedFields
<1>13. ASSUME NEW e, NEW x \in Int, NEW p, e = DurationOf(m, s + x, v), p = u + x * MicrosOfSecond, Apply(e, m, p)
       PROVE  DurationInv'
  <2>1. PICK y \in Int : y = s + x
    BY <1>2
  <2>2. y * MicrosOfSecond + v = p
    BY <1>4, <1>13, <2>1
  <2>3. e = DurationOf(m, y, v) /\ Apply(e, m, p)
    BY <1>13, <2>1
  <2> QED BY ONLY DurationInv, <1>2, <2>2, <2>3, y \in Int, AppliedFields
<1>14. CASE Apply(AddWeeks(d, n), m, u + 7 * n * SecondsOfDay * MicrosOfSecond)
  <2>1. AddWeeks(d, n) = DurationOf(m, s + n * 7 * SecondsOfDay, v)
    BY <1>2, AddsToFields
  <2>2. PICK x \in Int : x = n * 7 * SecondsOfDay
    BY <1>5
  <2>3. u + 7 * n * SecondsOfDay * MicrosOfSecond = u + x * MicrosOfSecond
    BY <1>5, <2>2
  <2> QED BY <1>13, <1>14, <2>1, <2>2, <2>3
<1>15. CASE Apply(AddDays(d, n), m, u + n * SecondsOfDay * MicrosOfSecond)
  <2>1. AddDays(d, n) = DurationOf(m, s + n * SecondsOfDay, v)
    BY <1>2, AddsToFields
  <2> QED BY <1>5, <1>13, <1>15, <2>1
<1>16. CASE Apply(AddHours(d, n), m, u + n * SecondsOfHour * MicrosOfSecond)
  <2>1. AddHours(d, n) = DurationOf(m, s + n * SecondsOfHour, v)
    BY <1>2, AddsToFields
  <2> QED BY <1>5, <1>13, <1>16, <2>1
<1>17. CASE Apply(AddMinutes(d, n), m, u + n * SecondsOfMinute * MicrosOfSecond)
  <2>1. AddMinutes(d, n) = DurationOf(m, s + n * SecondsOfMinute, v)
    BY <1>2, AddsToFields
  <2> QED BY <1>5, <1>13, <1>17, <2>1
<1>18. CASE Apply(AddSeconds(d, n), m, u + n * MicrosOfSecond)
  <2>1. AddSeconds(d, n) = DurationOf(m, s + n, v)
    BY <1>2, AddsToFields
  <2> QED BY <1>13, <1>18, <2>1
<1>19. CASE Apply(AddMilliseconds(d, n), m, u + n * MicrosOfMilli)
  <2>1. AddMilliseconds(d, n) = DurationOf(m, s + q, v + r * f)
    BY <1>2, <1>6, AddsToFields
  <2>2. PICK y, w \in Int : y = s + q /\ w = v + r * f
    BY <1>2, <1>7, <1>8
  <2>3. y * MicrosOfSecond + w = u + n * f
    <3>1. (s + q) * MicrosOfSecond + v = u + q * MicrosOfSecond
      BY <1>4, <1>7
    <3>2. PICK a \in Int : a = (s + q) * MicrosOfSecond
      BY <1>2, <1>7
    <3> QED BY <1>2, <1>8, <1>9, <2>2, <3>1, <3>2
  <2>4. PICK e, p : e = AddMilliseconds(d, n) /\ p = u + n * f
    OBVIOUS
  <2>5. e = DurationOf(m, y, w) /\ Apply(e, m, p) /\ y * MicrosOfSecond + w = p
    BY <1>6, <1>19, <2>1, <2>2, <2>3, <2>4
  <2> QED BY ONLY DurationInv, <1>2, <2>5, y \in Int, w \in Int, AppliedFields
<1>20. CASE Apply(AddMicroseconds(d, n), m, u + n)
  <2>1. AddMicroseconds(d, n) = DurationOf(m, s, v + n)
    BY <1>2, AddsToFields
  <2>2. PICK w \in Int : w = v + n
    BY <1>2
  <2>3. s * MicrosOfSecond + w = u + n
    BY <1>2, <1>9, <2>2
  <2>4. PICK e, p : e = AddMicroseconds(d, n) /\ p = u + n
    OBVIOUS
  <2>5. e = DurationOf(m, s, w) /\ Apply(e, m, p) /\ s * MicrosOfSecond + w = p
    BY <1>20, <2>1, <2>2, <2>3, <2>4
  <2> QED BY ONLY DurationInv, <1>2, <2>5, w \in Int, AppliedFields
<1>21. CASE Apply(Minus(d, AddMilliseconds(NoDuration, n)), m, u - n * MicrosOfMilli)
  <2>1. NoDuration = DurationOf(0, 0, 0)
    BY DEF NoDuration, DurationOf
  <2>2. PICK h : h = AddMilliseconds(NoDuration, n)
    OBVIOUS
  <2>3. h = DurationOf(0, 0 + q, 0 + r * f)
    BY <1>6, <2>1, <2>2, AddsToFields
  <2>4. PICK x, z \in Int : x = 0 + q /\ z = 0 + r * f
    BY <1>7, <1>8
  <2>5. PICK o \in Int : o = 0
    OBVIOUS
  <2>6. PICK g : g = Negated(h)
    OBVIOUS
  <2>7. g.months = -o /\ g.seconds = -x /\ g.microseconds = -z
    <3>1. h = DurationOf(o, x, z)
      BY <2>3, <2>4, <2>5
    <3>2. Negated(h) = DurationOf(-o, -x, -z)
      BY ONLY <3>1, o \in Int, x \in Int, z \in Int, n \in Int, AddsToFields
    <3>3. PICK p, a, b : p = -o /\ a = -x /\ b = -z
      OBVIOUS
    <3>4. g = DurationOf(p, a, b)
      BY <2>6, <3>2, <3>3, Zenon
    <3>5. g.months = p /\ g.seconds = a /\ g.microseconds = b
      BY ONLY <3>4 DEF DurationOf
    <3> QED BY <3>3, <3>5, Zenon
  <2>8. d.months = m /\ d.seconds = s /\ d.microseconds = v
    BY <1>1
  <2>9. PICK y, w \in Int : y = s + (-x) /\ w = v + (-z)
    BY <1>2
  <2>10. Minus(d, h) = DurationOf(m, y, w)
    <3>1. m + (-o) = m
      <4>1. \A x1, x2 \in Int : x2 = 0 => x1 + (-x2) = x1
        OBVIOUS
      <4> QED BY <1>2, <2>5, <4>1
    <3> QED BY <2>6, <2>7, <2>8, <2>9, <3>1, Zenon DEF Minus, Plus, DurationOf
  <2>11. y * MicrosOfSecond + w = u - n * f
    <3>1. (s + (-x)) * MicrosOfSecond + v = u + (-x) * MicrosOfSecond
      BY <1>4
    <3>2. (-x) * MicrosOfSecond = -(q * MicrosOfSecond)
      BY <1>7, <2>4
    <3>3. PICK a \in Int : a = y * MicrosOfSecond
      BY <1>7
    <3>4. a + v = u - q * MicrosOfSecond
      BY <1>2, <1>9, <2>9, <3>1, <3>2, <3>3
    <3>5. w = v - r * f
      BY <1>2, <1>8, <2>4, <2>9
    <3> QED BY <1>2, <1>8, <1>9, <3>3, <3>4, <3>5
  <2>12. PICK e, p : e = Minus(d, AddMilliseconds(NoDuration, n)) /\ p = u - n * f
    OBVIOUS
  <2>13. e = DurationOf(m, y, w) /\ Apply(e, m, p) /\ y * MicrosOfSecond + w = p
    BY <1>6, <1>21, <2>2, <2>10, <2>11, <2>12
  <2> QED BY ONLY DurationInv, <1>2, <2>13, y \in Int, w \in Int, AppliedFields
<1> QED
  <2>1. \/ Apply(AddYears(d, n), m + n * MonthsOfYear, u)
        \/ Apply(AddQuarters(d, n), m + 3 * n, u)
        \/ Apply(AddMonths(d, n), m + n, u)
        \/ Apply(AddWeeks(d, n), m, u + 7 * n * SecondsOfDay * MicrosOfSecond)
        \/ Apply(AddDays(d, n), m, u + n * SecondsOfDay * MicrosOfSecond)
        \/ Apply(AddHours(d, n), m, u + n * SecondsOfHour * MicrosOfSecond)
        \/ Apply(AddMinutes(d, n), m, u + n * SecondsOfMinute * MicrosOfSecond)
        \/ Apply(AddSeconds(d, n), m, u + n * MicrosOfSecond)
        \/ Apply(AddMilliseconds(d, n), m, u + n * MicrosOfMilli)
        \/ Apply(AddMicroseconds(d, n), m, u + n)
        \/ Apply(Minus(d, AddMilliseconds(NoDuration, n)), m, u - n * MicrosOfMilli)
    BY <1>1, <1>2, Zenon DEF Add
  <2> QED BY <1>10, <1>11, <1>12, <1>14, <1>15, <1>16, <1>17, <1>18, <1>19, <1>20, <1>21, <2>1, Zenon

LEMMA DurationAlways == DurationSpec => []DurationInv
<1>1. DurationInit => DurationInv
  <2> SUFFICES ASSUME DurationInit PROVE DurationInv
    OBVIOUS
  <2>1. DurationTypeOK /\ duration.months = 0 /\ added.months = 0
    BY DEF DurationInit, DurationTypeOK, NoDuration
  <2>2. duration.seconds = 0 /\ duration.microseconds = 0 /\ added.micros = 0
    BY DEF DurationInit, NoDuration
  <2>3. 0 * MicrosOfSecond + 0 = 0
    BY Units
  <2> QED BY <2>1, <2>2, <2>3 DEF DurationInv
<1>2. DurationInv /\ [DurationNext]_durationVars => DurationInv'
  <2> SUFFICES ASSUME DurationInv, [DurationNext]_durationVars PROVE DurationInv'
    OBVIOUS
  <2>1. ASSUME NEW n \in Amounts, Add(n) PROVE DurationInv'
    BY <2>1, AddInv, DurationAssumption
  <2>2. CASE Negate
    <3>1. PICK d, m, s, v, u : /\ d = duration /\ m = duration.months /\ s = duration.seconds
                               /\ v = duration.microseconds /\ u = added.micros
      OBVIOUS
    <3>2. /\ m \in Int /\ s \in Int /\ v \in Int /\ u \in Int
          /\ d = DurationOf(m, s, v) /\ added.months = m
          /\ s * MicrosOfSecond + v = u
      BY <3>1 DEF DurationInv, DurationTypeOK, DurationOf
    <3>3. Negated(d) = DurationOf(-m, -s, -v)
      BY <3>2, AddsToFields
    <3>4. (-s) * MicrosOfSecond + (-v) = -u
      BY <3>2, Units
    <3>5. PICK m2, s2, v2 \in Int : m2 = -m /\ s2 = -s /\ v2 = -v
      BY <3>2
    <3>6. PICK e, p : e = Negated(d) /\ p = -u
      OBVIOUS
    <3>7. e = DurationOf(m2, s2, v2) /\ Apply(e, m2, p) /\ s2 * MicrosOfSecond + v2 = p
      BY <2>2, <3>1, <3>2, <3>3, <3>4, <3>5, <3>6 DEF Negate
    <3> QED BY ONLY DurationInv, <3>7, m2 \in Int, s2 \in Int, v2 \in Int, AppliedFields
  <2>3. CASE UNCHANGED durationVars
    <3>1. duration' = duration /\ added' = added
      BY <2>3 DEF durationVars
    <3> QED BY <3>1, Zenon DEF DurationInv, DurationTypeOK
  <2> QED BY <2>1, <2>2, <2>3, Zenon DEF DurationNext
<1> QED BY <1>1, <1>2, PTL DEF DurationSpec

(* A remainder, and a quotient of a remainder, are parts of the whole. *)
LEMMA RemainderIsPart ==
    ASSUME NEW a \in Int, NEW b \in Nat \ {0}
    PROVE  PartOf(Remainder(a, b), a, b)
<1>1. CASE a >= 0
  <2>1. Remainder(a, b) = a % b
    BY <1>1, Signs
  <2>2. a % b \in 0 .. b - 1
    OBVIOUS
  <2>3. a <= 0 => a % b = 0
    BY <1>1
  <2> QED BY <1>1, <2>1, <2>2, <2>3 DEF PartOf
<1>2. CASE a < 0
  <2>1. PICK c \in Nat : c = -a
    BY <1>2
  <2>2. Remainder(a, b) = -(c % b) /\ c % b \in 0 .. b - 1
    BY <1>2, <2>1, Signs
  <2> QED BY <1>2, <2>2 DEF PartOf
<1> QED BY <1>1, <1>2

LEMMA QuotientIsPart ==
    ASSUME NEW a \in Int, NEW b \in Nat \ {0}, NEW k \in Nat \ {0}
    PROVE  PartOf(Quotient(Remainder(a, b * k), b), a, k)
<1>1. PICK m \in Nat \ {0} : m = b * k
  OBVIOUS
<1>2. PICK r \in Int : r = Remainder(a, m)
  BY Signs
<1>3. PartOf(r, a, m)
  BY <1>2, RemainderIsPart
<1>4. ASSUME NEW c \in Nat, c < m PROVE c \div b \in 0 .. k - 1
  <2>1. PICK q \in Nat : q = c \div b /\ b * q <= c
    BY Divided
  <2>2. ASSUME q >= k PROVE FALSE
    <3>1. PICK j \in Nat : q = k + j
      <4>1. q - k \in Nat /\ q = k + (q - k)
        BY <2>2
      <4> QED BY <4>1
    <3>2. b * q = m + b * j /\ b * j \in Nat
      BY <1>1, <3>1
    <3> QED BY <1>4, <2>1, <3>2
  <2> QED BY <2>1, <2>2
<1>5. a >= 0 => Quotient(r, b) \in 0 .. k - 1
  <2> SUFFICES ASSUME a >= 0 PROVE Quotient(r, b) \in 0 .. k - 1
    OBVIOUS
  <2>1. r \in Nat /\ r < m
    BY <1>3 DEF PartOf
  <2>2. Quotient(r, b) = r \div b
    BY <2>1 DEF Quotient
  <2> QED BY <1>4, <2>1, <2>2
<1>6. a <= 0 => Quotient(r, b) \in -(k - 1) .. 0
  <2> SUFFICES ASSUME a <= 0 PROVE Quotient(r, b) \in -(k - 1) .. 0
    OBVIOUS
  <2>1. PICK c \in Nat : c = -r /\ c < m
    BY <1>3 DEF PartOf
  <2>2. c \div b \in 0 .. k - 1
    BY <1>4, <2>1
  <2>3. Quotient(r, b) = -(c \div b)
    <3>1. CASE r < 0
      BY <2>1, <3>1 DEF Quotient
    <3>2. CASE r >= 0
      <4>1. r = 0 /\ c = 0
        BY <2>1, <3>2
      <4>2. 0 \div b = 0
        OBVIOUS
      <4> QED BY <4>1, <4>2 DEF Quotient
    <3> QED BY <3>1, <3>2
  <2> QED BY <2>2, <2>3
<1>7. Quotient(Remainder(a, b * k), b) = Quotient(r, b)
  BY <1>1, <1>2
<1> QED BY <1>5, <1>6, <1>7 DEF PartOf

(* For all units and amounts, of whatever sign: the parts that the getters *)
(* split a duration into add up to what was added to it, each stays below  *)
(* a unit of the next one, and each has the sign of the whole              *)
(* (Duration.h:32-58, 107-118).                                            *)
THEOREM DurationsExact == DurationSpec => []DurationExact
<1>1. DurationInv => DurationExact
  <2> SUFFICES ASSUME DurationInv PROVE DurationExact
    OBVIOUS
  <2>1. PICK d, m, s, v, u : /\ d = duration /\ m = duration.months /\ s = duration.seconds
                             /\ v = duration.microseconds /\ u = added.micros
    OBVIOUS
  <2>2. /\ m \in Int /\ s \in Int /\ v \in Int /\ u \in Int
        /\ added.months = m /\ s * MicrosOfSecond + v = u
    BY <2>1 DEF DurationInv, DurationTypeOK
  <2>3. Years(d) * MonthsOfYear + MonthsInYear(d) = m
    BY <2>1, <2>2, Signs, Units DEF Years, MonthsInYear
  <2>4. PICK rd, rh, rm : /\ rd = Remainder(s, SecondsOfDay) /\ rh = Remainder(s, SecondsOfHour)
                          /\ rm = Remainder(s, SecondsOfMinute)
    OBVIOUS
  <2>5. /\ rd \in Int /\ rh \in Int /\ rm \in Int
        /\ Days(d) * SecondsOfDay + rd = s
    BY <2>1, <2>2, <2>4, Signs, Units DEF Days
  <2>6. Remainder(rd, SecondsOfHour) = rh
    <3>1. Remainder(Remainder(s, SecondsOfHour * HoursOfDay), SecondsOfHour) = Remainder(s, SecondsOfHour)
      <4>1. SecondsOfHour \in Nat \ {0} /\ HoursOfDay \in Nat \ {0}
        BY Units
      <4>2. \A b, k \in Nat \ {0} : Remainder(Remainder(s, b * k), b) = Remainder(s, b)
        BY <2>2, RemainderTwice, Zenon
      <4> QED BY ONLY <4>1, <4>2, Zenon
    <3> QED BY ONLY <2>4, <3>1, Zenon DEF SecondsOfDay
  <2>7. Hours(d) * SecondsOfHour + rh = rd
    BY <2>1, <2>4, <2>5, <2>6, Signs, Units DEF Hours
  <2>8. Remainder(rh, SecondsOfMinute) = rm
    BY <2>2, <2>4, RemainderTwice, Units DEF SecondsOfHour
  <2>9. Minutes(d) * SecondsOfMinute + rm = rh
    BY <2>1, <2>4, <2>5, <2>8, Signs, Units DEF Minutes
  <2>10. SecondsInMinute(d) = rm
    BY <2>1, <2>4 DEF SecondsInMinute
  <2>11. PICK a, b, c \in Int : a = Days(d) * SecondsOfDay /\ b = Hours(d) * SecondsOfHour /\ c = Minutes(d) * SecondsOfMinute
    <3>1. Days(d) \in Int
      BY <2>1, <2>2, Signs, Units DEF Days
    <3>2. Hours(d) \in Int
      BY <2>1, <2>4, <2>5, Signs, Units DEF Hours
    <3>3. Minutes(d) \in Int
      BY <2>1, <2>4, <2>5, Signs, Units DEF Minutes
    <3> QED BY <3>1, <3>2, <3>3, Units
  <2>12. Days(d) * SecondsOfDay + Hours(d) * SecondsOfHour + Minutes(d) * SecondsOfMinute
               + SecondsInMinute(d) = s
    BY <2>2, <2>5, <2>7, <2>9, <2>10, <2>11
  <2>13. d.months = m /\ d.seconds = s /\ added.months = m /\ added.micros = u
         /\ MicrosecondsInSecond(d) = v
    BY <2>1, <2>2 DEF MicrosecondsInSecond
  <2>14. PartOf(MonthsInYear(d), m, MonthsOfYear)
    BY <2>2, <2>13, RemainderIsPart, Units DEF MonthsInYear
  <2>15. PartOf(SecondsInMinute(d), s, SecondsOfMinute)
    BY <2>2, <2>13, RemainderIsPart, Units DEF SecondsInMinute
  <2>16. PartOf(Minutes(d), s, MinutesOfHour)
    <3>1. PartOf(Quotient(Remainder(s, SecondsOfMinute * MinutesOfHour), SecondsOfMinute), s, MinutesOfHour)
      BY <2>2, QuotientIsPart, Units
    <3> QED BY <2>13, <3>1, Zenon DEF Minutes, SecondsOfHour
  <2>17. PartOf(Hours(d), s, HoursOfDay)
    <3>1. PartOf(Quotient(Remainder(s, SecondsOfHour * HoursOfDay), SecondsOfHour), s, HoursOfDay)
      BY <2>2, QuotientIsPart, Units
    <3> QED BY <2>13, <3>1, Zenon DEF Hours, SecondsOfDay
  <2>18. (Days(d) * SecondsOfDay + Hours(d) * SecondsOfHour + Minutes(d) * SecondsOfMinute
               + SecondsInMinute(d)) * MicrosOfSecond + MicrosecondsInSecond(d) = u
    BY ONLY <2>2, <2>12, <2>13, Zenon
  <2> QED BY <2>1, <2>3, <2>13, <2>14, <2>15, <2>16, <2>17, <2>18, Zenon DEF DurationExact
<1> QED BY <1>1, DurationAlways, PTL
-----------------------------------------------------------------------------
(* Datetimes.  The fields of a datetime are the digits of an instant, of   *)
(* mixed radix, and their lexicographic order is that of the instants.     *)

LEMMA Digits ==
    ASSUME NEW a \in Int, NEW b \in Nat \ {0}
    PROVE  /\ a \div b \in Int /\ a % b \in 0 .. b - 1
           /\ a = b * (a \div b) + (a % b)
  OBVIOUS

(* The digits are the only ones. *)
LEMMA DigitsOf ==
    ASSUME NEW a \in Int, NEW b \in Nat \ {0}, NEW q \in Int, NEW r \in 0 .. b - 1, a = b * q + r
    PROVE  a \div b = q /\ a % b = r
<1>1. PICK p, s : p = a \div b /\ s = a % b
  OBVIOUS
<1>2. p \in Int /\ s \in 0 .. b - 1 /\ a = b * p + s
  BY <1>1, Digits
<1>3. p = q /\ s = r
  BY ONLY <1>2, b \in Nat \ {0}, q \in Int, r \in 0 .. b - 1, a = b * q + r, Multiples
<1> QED BY <1>1, <1>3

(* Numbers are ordered by their first digit, and by the rest when that is  *)
(* the same.                                                               *)
LEMMA DigitOrder ==
    ASSUME NEW a \in Int, NEW c \in Int, NEW b \in Nat \ {0}
    PROVE  /\ a < c <=> a \div b < c \div b \/ (a \div b = c \div b /\ a % b < c % b)
           /\ a = c <=> a \div b = c \div b /\ a % b = c % b
<1>1. PICK p, r, q, s : p = a \div b /\ r = a % b /\ q = c \div b /\ s = c % b
  OBVIOUS
<1>2. /\ p \in Int /\ r \in 0 .. b - 1 /\ a = b * p + r
      /\ q \in Int /\ s \in 0 .. b - 1 /\ c = b * q + s
  BY <1>1, Digits
<1>3. ASSUME NEW x \in Int, NEW y \in Int, NEW u \in 0 .. b - 1, NEW v \in 0 .. b - 1, x < y
      PROVE  b * x + u < b * y + v
  <2>1. PICK k \in Nat : y = x + 1 + k
    <3>1. y - x - 1 \in Nat /\ y = x + 1 + (y - x - 1)
      BY <1>3
    <3> QED BY <3>1
  <2>2. b * y = b * x + b + b * k
    BY <2>1
  <2>3. b * k \in Nat /\ b * x \in Int
    OBVIOUS
  <2> QED BY <2>2, <2>3
<1>4. CASE p < q
  <2>1. a < c
    BY <1>2, <1>3, <1>4
  <2> QED BY <1>1, <1>2, <1>4, <2>1
<1>5. CASE q < p
  <2>1. c < a
    BY <1>2, <1>3, <1>5
  <2> QED BY <1>1, <1>2, <1>5, <2>1
<1>6. CASE p = q
  <2>1. b * p \in Int /\ b * p = b * q
    BY <1>2, <1>6
  <2>2. (a < c <=> r < s) /\ (a = c <=> r = s)
    BY <1>2, <2>1
  <2> QED BY <1>1, <1>6, <2>2
<1> QED BY <1>2, <1>4, <1>5, <1>6

(* (Named for the provers, who do not instantiate nested quotients.) *)
IsProduct(m, k, b) == m = k * b
Div(a, b) == a \div b
Mod(a, b) == a % b

(* Two digits at once: the digits by b of the digits by k. *)
LEMMA DigitsTwice ==
    ASSUME NEW a \in Int, NEW b \in Nat \ {0}, NEW k \in Nat \ {0}, NEW m \in Nat \ {0}, IsProduct(m, k, b)
    PROVE  /\ Div(Div(a, b), k) = Div(a, m)
           /\ Mod(Div(a, b), k) = Div(Mod(a, m), b)
           /\ Mod(a, b) = Mod(Mod(a, m), b)
<1>2. m = k * b
  BY DEF IsProduct
<1>3. PICK q, r : q = a \div b /\ r = a % b
  OBVIOUS
<1>4. q \in Int /\ r \in 0 .. b - 1 /\ a = b * q + r
  BY <1>3, Digits
<1>5. PICK p, t : p = q \div k /\ t = q % k
  OBVIOUS
<1>6. p \in Int /\ t \in 0 .. k - 1 /\ q = k * p + t
  BY <1>4, <1>5, Digits
<1>7. PICK w \in Int : w = b * t + r
  BY <1>4, <1>6
<1>8. w \in 0 .. m - 1
  <2>1. PICK n \in Nat : k = t + 1 + n
    <3>1. k - t - 1 \in Nat /\ k = t + 1 + (k - t - 1)
      BY <1>6
    <3> QED BY <3>1
  <2>2. \A x, y, z \in Nat : (x + 1 + y) * z = z * x + z + z * y
    OBVIOUS
  <2>3. m = b * t + b + b * n
    BY <1>2, <1>6, <2>1, <2>2
  <2>4. b * n \in Nat /\ b * t \in Nat
    BY <1>6
  <2> QED BY <1>4, <1>7, <2>3, <2>4
<1>9. a = m * p + w
  <2>1. \A x, y, z \in Int : y * (x * z + t) = (x * y) * z + y * t
    BY <1>6
  <2>2. b * (k * p + t) = (k * b) * p + b * t
    BY <1>6, <2>1
  <2>3. b * t \in Int /\ (k * b) * p \in Int
    BY <1>6
  <2> QED BY <1>2, <1>4, <1>6, <1>7, <2>2, <2>3
<1>10. a \div m = p /\ a % m = w
  BY ONLY <1>6, <1>8, <1>9, a \in Int, m \in Nat \ {0}, DigitsOf
<1>11. w \div b = t /\ w % b = r
  <2>1. t \in Int
    BY <1>6
  <2> QED BY ONLY <1>4, <1>7, <2>1, w \in Int, b \in Nat \ {0}, DigitsOf
<1> QED BY <1>3, <1>5, <1>10, <1>11 DEF Div, Mod

-----------------------------------------------------------------------------
(* The orders of dates and of times, written out. *)
LEMMA DateLessIs ==
    ASSUME NEW a, NEW b
    PROVE  DateLess(a, b) <=>
             \/ a.year < b.year
             \/ a.year = b.year /\ a.month < b.month
             \/ a.year = b.year /\ a.month = b.month /\ a.day < b.day
<1>1. PICK keys : keys = <<"year", "month", "day">>
  OBVIOUS
<1>2. DOMAIN keys = {1, 2, 3}
  BY <1>1
<1>3. keys[1] = "year" /\ keys[2] = "month" /\ keys[3] = "day"
  BY <1>1
<1>4. 1 .. 1 - 1 = {} /\ 1 .. 2 - 1 = {1} /\ 1 .. 3 - 1 = {1, 2}
  OBVIOUS
<1>5. DateLess(a, b) <=> \E i \in {1, 2, 3} :
         a[keys[i]] < b[keys[i]] /\ \A j \in 1 .. i - 1 : a[keys[j]] = b[keys[j]]
  <2>1. DateLess(a, b) <=> LessBy(keys, a, b)
    BY <1>1, Zenon DEF DateLess
  <2>2. LessBy(keys, a, b) <=> \E i \in DOMAIN keys :
           a[keys[i]] < b[keys[i]] /\ \A j \in 1 .. i - 1 : a[keys[j]] = b[keys[j]]
    BY ONLY Zenon DEF LessBy
  <2> QED BY ONLY <1>2, <2>1, <2>2, Zenon
<1>6. (\E i \in {1, 2, 3} : a[keys[i]] < b[keys[i]] /\ \A j \in 1 .. i - 1 : a[keys[j]] = b[keys[j]])
        <=> \/ a[keys[1]] < b[keys[1]]
            \/ a[keys[2]] < b[keys[2]] /\ a[keys[1]] = b[keys[1]]
            \/ a[keys[3]] < b[keys[3]] /\ a[keys[1]] = b[keys[1]] /\ a[keys[2]] = b[keys[2]]
  <2> HIDE <1>1
  <2> QED BY <1>4
<1> QED BY <1>3, <1>5, <1>6, Zenon

LEMMA TimeLessIs ==
    ASSUME NEW a, NEW b
    PROVE  TimeLess(a, b) <=>
             \/ a.hour < b.hour
             \/ a.hour = b.hour /\ a.minute < b.minute
             \/ a.hour = b.hour /\ a.minute = b.minute /\ a.sec < b.sec
             \/ a.hour = b.hour /\ a.minute = b.minute /\ a.sec = b.sec /\ a.microsec < b.microsec
<1>1. PICK keys : keys = <<"hour", "minute", "sec", "microsec">>
  OBVIOUS
<1>2. DOMAIN keys = {1, 2, 3, 4}
  BY <1>1
<1>3. keys[1] = "hour" /\ keys[2] = "minute" /\ keys[3] = "sec" /\ keys[4] = "microsec"
  BY <1>1
<1>4. 1 .. 1 - 1 = {} /\ 1 .. 2 - 1 = {1} /\ 1 .. 3 - 1 = {1, 2} /\ 1 .. 4 - 1 = {1, 2, 3}
  OBVIOUS
<1>5. TimeLess(a, b) <=> \E i \in {1, 2, 3, 4} :
         a[keys[i]] < b[keys[i]] /\ \A j \in 1 .. i - 1 : a[keys[j]] = b[keys[j]]
  <2>1. TimeLess(a, b) <=> LessBy(keys, a, b)
    BY <1>1, Zenon DEF TimeLess
  <2>2. LessBy(keys, a, b) <=> \E i \in DOMAIN keys :
           a[keys[i]] < b[keys[i]] /\ \A j \in 1 .. i - 1 : a[keys[j]] = b[keys[j]]
    BY ONLY Zenon DEF LessBy
  <2> QED BY ONLY <1>2, <2>1, <2>2, Zenon
<1>6. (\E i \in {1, 2, 3, 4} : a[keys[i]] < b[keys[i]] /\ \A j \in 1 .. i - 1 : a[keys[j]] = b[keys[j]])
        <=> \/ a[keys[1]] < b[keys[1]]
            \/ a[keys[2]] < b[keys[2]] /\ a[keys[1]] = b[keys[1]]
            \/ a[keys[3]] < b[keys[3]] /\ a[keys[1]] = b[keys[1]] /\ a[keys[2]] = b[keys[2]]
            \/ a[keys[4]] < b[keys[4]] /\ a[keys[1]] = b[keys[1]] /\ a[keys[2]] = b[keys[2]] /\ a[keys[3]] = b[keys[3]]
  <2> HIDE <1>1
  <2> QED BY <1>4
<1> QED BY <1>3, <1>5, <1>6, Zenon

LEMMA RecordsOfFields ==
    /\ \A y, m, d, y2, m2, d2 :
          /\ Date(y, m, d).year = y /\ Date(y, m, d).month = m /\ Date(y, m, d).day = d
          /\ Date(y, m, d) = Date(y2, m2, d2) <=> y = y2 /\ m = m2 /\ d = d2
    /\ \A h, n, s, u, h2, n2, s2, u2 :
          /\ LocalTime(h, n, s, u).hour = h /\ LocalTime(h, n, s, u).minute = n
          /\ LocalTime(h, n, s, u).sec = s /\ LocalTime(h, n, s, u).microsec = u
          /\ [LocalTime(h, n, s, u) EXCEPT !.microsec = u2] = LocalTime(h, n, s, u2)
          /\ LocalTime(h, n, s, u) = LocalTime(h2, n2, s2, u2) <=> h = h2 /\ n = n2 /\ s = s2 /\ u = u2
<1>1. ASSUME NEW y, NEW m, NEW d, NEW y2, NEW m2, NEW d2
      PROVE  /\ Date(y, m, d).year = y /\ Date(y, m, d).month = m /\ Date(y, m, d).day = d
             /\ Date(y, m, d) = Date(y2, m2, d2) <=> y = y2 /\ m = m2 /\ d = d2
  BY DEF Date
<1>2. ASSUME NEW h, NEW n, NEW s, NEW u, NEW h2, NEW n2, NEW s2, NEW u2
      PROVE  /\ LocalTime(h, n, s, u).hour = h /\ LocalTime(h, n, s, u).minute = n
             /\ LocalTime(h, n, s, u).sec = s /\ LocalTime(h, n, s, u).microsec = u
             /\ [LocalTime(h, n, s, u) EXCEPT !.microsec = u2] = LocalTime(h, n, s, u2)
             /\ LocalTime(h, n, s, u) = LocalTime(h2, n2, s2, u2) <=> h = h2 /\ n = n2 /\ s = s2 /\ u = u2
  BY DEF LocalTime
<1> QED BY <1>1, <1>2, Zenon

-----------------------------------------------------------------------------
(* The date of a day since the epoch, the time of a tick of a day, and the *)
(* datetime of a tick: a second has as many ticks as the field microsec    *)
(* has values, so that wrapped fractions are among them.                   *)
Ticks == 2 ^ MicroBits
TicksOfDay == SecondsOfDay * Ticks

DateAt(k) ==
    Date(EpochYear + ((k \div DaysOfMonth) \div MonthsOfYear), 1 + ((k \div DaysOfMonth) % MonthsOfYear),
         1 + (k % DaysOfMonth))

TimeAt(r) ==
    LET s == r \div Ticks
    IN  LocalTime(s \div SecondsOfHour, (s % SecondsOfHour) \div SecondsOfMinute, s % SecondsOfMinute,
                  r % Ticks)

DatetimeAt(n) == <<DateAt(n \div TicksOfDay), TimeAt(n % TicksOfDay)>>

LEMMA TimeUnits ==
    /\ Ticks \in Nat \ {0} /\ SecondsOfMinute \in Nat \ {0} /\ MinutesOfHour \in Nat \ {0}
    /\ SecondsOfHour \in Nat \ {0} /\ SecondsOfHour = SecondsOfMinute * MinutesOfHour
    /\ SecondsOfDay \in Nat \ {0} /\ TicksOfDay \in Nat \ {0}
    /\ TicksOfDay = SecondsOfDay * Ticks
    /\ MonthsOfYear \in Nat \ {0} /\ DaysOfMonth \in Nat \ {0}
<1>1. \A a, b \in Nat \ {0} : a * b \in Nat \ {0}
  OBVIOUS
<1>2. /\ MicrosOfMilli \in Nat \ {0} /\ MillisOfSecond \in Nat \ {0} /\ SecondsOfMinute \in Nat \ {0}
      /\ MinutesOfHour \in Nat \ {0} /\ HoursOfDay \in Nat \ {0} /\ MonthsOfYear \in Nat \ {0}
      /\ DaysOfMonth \in Nat \ {0}
  BY DurationAssumption, DatetimeAssumption
<1>3. Ticks \in Nat \ {0} /\ SecondsOfHour \in Nat \ {0}
  BY <1>1, <1>2, DatetimeAssumption, Zenon DEF Ticks, SecondsOfHour
<1>4. SecondsOfDay \in Nat \ {0}
  BY <1>1, <1>2, <1>3, Zenon DEF SecondsOfDay
<1>5. TicksOfDay \in Nat \ {0}
  BY <1>1, <1>3, <1>4, Zenon DEF TicksOfDay
<1> QED BY <1>2, <1>3, <1>4, <1>5, Zenon DEF SecondsOfHour, TicksOfDay

LEMMA DateOrder ==
    ASSUME NEW j \in Int, NEW k \in Int
    PROVE  /\ DateLess(DateAt(j), DateAt(k)) <=> j < k
           /\ DateAt(j) = DateAt(k) <=> j = k
<1>1. MonthsOfYear \in Nat \ {0} /\ DaysOfMonth \in Nat \ {0} /\ EpochYear \in Int
  BY TimeUnits, DatetimeAssumption
<1>2. PICK m, n, d, e : m = j \div DaysOfMonth /\ n = k \div DaysOfMonth /\ d = j % DaysOfMonth /\ e = k % DaysOfMonth
  OBVIOUS
<1>3. m \in Int /\ n \in Int /\ d \in Int /\ e \in Int
  BY <1>1, <1>2
<1>4. /\ j < k <=> m < n \/ (m = n /\ d < e)
      /\ j = k <=> m = n /\ d = e
  <2>1. PICK b \in Nat \ {0} : b = DaysOfMonth
    BY <1>1
  <2>2. /\ j < k <=> j \div b < k \div b \/ (j \div b = k \div b /\ j % b < k % b)
        /\ j = k <=> j \div b = k \div b /\ j % b = k % b
    BY ONLY j \in Int, k \in Int, b \in Nat \ {0}, DigitOrder
  <2> QED BY <1>2, <2>1, <2>2, Zenon
<1>5. PICK y, z, f, g : y = m \div MonthsOfYear /\ z = n \div MonthsOfYear /\ f = m % MonthsOfYear /\ g = n % MonthsOfYear
  OBVIOUS
<1>6. y \in Int /\ z \in Int /\ f \in Int /\ g \in Int
  BY <1>1, <1>3, <1>5
<1>7. /\ m < n <=> y < z \/ (y = z /\ f < g)
      /\ m = n <=> y = z /\ f = g
  <2>1. PICK b \in Nat \ {0} : b = MonthsOfYear
    BY <1>1
  <2>2. /\ m < n <=> m \div b < n \div b \/ (m \div b = n \div b /\ m % b < n % b)
        /\ m = n <=> m \div b = n \div b /\ m % b = n % b
    BY ONLY <1>3, b \in Nat \ {0}, DigitOrder
  <2> QED BY <1>5, <2>1, <2>2, Zenon
<1>8. DateAt(j) = Date(EpochYear + y, 1 + f, 1 + d) /\ DateAt(k) = Date(EpochYear + z, 1 + g, 1 + e)
  BY <1>2, <1>5, Zenon DEF DateAt
<1>9. /\ EpochYear + y < EpochYear + z <=> y < z
      /\ EpochYear + y = EpochYear + z <=> y = z
      /\ 1 + f < 1 + g <=> f < g
      /\ 1 + f = 1 + g <=> f = g
      /\ 1 + d < 1 + e <=> d < e
      /\ 1 + d = 1 + e <=> d = e
  BY ONLY <1>1, <1>3, <1>6
<1>10. DateLess(DateAt(j), DateAt(k)) <=>
          \/ EpochYear + y < EpochYear + z
          \/ EpochYear + y = EpochYear + z /\ 1 + f < 1 + g
          \/ EpochYear + y = EpochYear + z /\ 1 + f = 1 + g /\ 1 + d < 1 + e
  <2>1. PICK a, b : a = DateAt(j) /\ b = DateAt(k)
    OBVIOUS
  <2>2. a.year = EpochYear + y /\ a.month = 1 + f /\ a.day = 1 + d
    BY ONLY <1>8, <2>1, RecordsOfFields
  <2>3. b.year = EpochYear + z /\ b.month = 1 + g /\ b.day = 1 + e
    BY ONLY <1>8, <2>1, RecordsOfFields
  <2>4. DateLess(a, b) <=>
          \/ a.year < b.year
          \/ a.year = b.year /\ a.month < b.month
          \/ a.year = b.year /\ a.month = b.month /\ a.day < b.day
    BY DateLessIs, Zenon
  <2> QED BY ONLY <2>1, <2>2, <2>3, <2>4, Zenon
<1>11. DateAt(j) = DateAt(k) <=> EpochYear + y = EpochYear + z /\ 1 + f = 1 + g /\ 1 + d = 1 + e
  <2>1. \A a, b, c, a2, b2, c2 : Date(a, b, c) = Date(a2, b2, c2) <=> a = a2 /\ b = b2 /\ c = c2
    BY ONLY RecordsOfFields, Zenon
  <2>2. PICK a, b, c, a2, b2, c2 : a = EpochYear + y /\ b = 1 + f /\ c = 1 + d /\ a2 = EpochYear + z /\ b2 = 1 + g /\ c2 = 1 + e
    OBVIOUS
  <2>3. Date(a, b, c) = Date(a2, b2, c2) <=> a = a2 /\ b = b2 /\ c = c2
    BY ONLY <2>1
  <2> QED BY ONLY <1>8, <2>2, <2>3, Zenon
<1>12. DateLess(DateAt(j), DateAt(k)) <=> j < k
  BY ONLY <1>3, <1>6, <1>4, <1>7, <1>9, <1>10, <1>1, j \in Int, k \in Int
<1>13. DateAt(j) = DateAt(k) <=> j = k
  BY ONLY <1>3, <1>6, <1>4, <1>7, <1>9, <1>11, <1>1, j \in Int, k \in Int
<1> QED BY <1>12, <1>13

LEMMA TimeOrder ==
    ASSUME NEW j \in Int, NEW k \in Int
    PROVE  /\ TimeLess(TimeAt(j), TimeAt(k)) <=> j < k
           /\ TimeAt(j) = TimeAt(k) <=> j = k
<1>1. /\ Ticks \in Nat \ {0} /\ SecondsOfMinute \in Nat \ {0} /\ MinutesOfHour \in Nat \ {0}
      /\ SecondsOfHour \in Nat \ {0} /\ SecondsOfHour = MinutesOfHour * SecondsOfMinute
  BY TimeUnits
<1>2. PICK m, n, d, e : m = j \div Ticks /\ n = k \div Ticks /\ d = j % Ticks /\ e = k % Ticks
  OBVIOUS
<1>3. m \in Int /\ n \in Int
  BY <1>1, <1>2, Digits
<1>4. /\ j < k <=> m < n \/ (m = n /\ d < e)
      /\ j = k <=> m = n /\ d = e
  <2>1. PICK b \in Nat \ {0} : b = Ticks
    BY <1>1
  <2>2. /\ j < k <=> j \div b < k \div b \/ (j \div b = k \div b /\ j % b < k % b)
        /\ j = k <=> j \div b = k \div b /\ j % b = k % b
    BY ONLY j \in Int, k \in Int, b \in Nat \ {0}, DigitOrder
  <2> QED BY <1>2, <2>1, <2>2, Zenon
<1>5. PICK h, i, u, v : h = m \div SecondsOfHour /\ i = n \div SecondsOfHour /\ u = m % SecondsOfHour /\ v = n % SecondsOfHour
  OBVIOUS
<1>6. u \in Int /\ v \in Int
  BY <1>1, <1>3, <1>5, Digits
<1>7. /\ m < n <=> h < i \/ (h = i /\ u < v)
      /\ m = n <=> h = i /\ u = v
  <2>1. PICK b \in Nat \ {0} : b = SecondsOfHour
    BY <1>1
  <2>2. /\ m < n <=> m \div b < n \div b \/ (m \div b = n \div b /\ m % b < n % b)
        /\ m = n <=> m \div b = n \div b /\ m % b = n % b
    BY ONLY <1>3, b \in Nat \ {0}, DigitOrder
  <2> QED BY <1>5, <2>1, <2>2, Zenon
<1>8. PICK x, y, s, t : x = u \div SecondsOfMinute /\ y = v \div SecondsOfMinute /\ s = u % SecondsOfMinute /\ t = v % SecondsOfMinute
  OBVIOUS
<1>9. /\ u < v <=> x < y \/ (x = y /\ s < t)
      /\ u = v <=> x = y /\ s = t
  <2>1. PICK b \in Nat \ {0} : b = SecondsOfMinute
    BY <1>1
  <2>2. /\ u < v <=> u \div b < v \div b \/ (u \div b = v \div b /\ u % b < v % b)
        /\ u = v <=> u \div b = v \div b /\ u % b = v % b
    BY ONLY <1>6, b \in Nat \ {0}, DigitOrder
  <2> QED BY <1>8, <2>1, <2>2, Zenon
<1>10. m % SecondsOfMinute = s /\ n % SecondsOfMinute = t
  <2>1. PICK b \in Nat \ {0}, c \in Nat \ {0}, o \in Nat \ {0} : b = SecondsOfMinute /\ c = MinutesOfHour /\ o = SecondsOfHour
    BY <1>1
  <2>2. IsProduct(o, c, b)
    BY <1>1, <2>1 DEF IsProduct
  <2>3. Mod(m, b) = Mod(Mod(m, o), b) /\ Mod(n, b) = Mod(Mod(n, o), b)
    BY ONLY <1>3, <2>2, b \in Nat \ {0}, c \in Nat \ {0}, o \in Nat \ {0}, DigitsTwice
  <2> QED BY ONLY <1>5, <1>8, <2>1, <2>3, Zenon DEF Mod
<1>11. TimeAt(j) = LocalTime(h, x, s, d) /\ TimeAt(k) = LocalTime(i, y, t, e)
  BY <1>2, <1>5, <1>8, <1>10, Zenon DEF TimeAt
<1>12. TimeLess(TimeAt(j), TimeAt(k)) <=>
          \/ h < i
          \/ h = i /\ x < y
          \/ h = i /\ x = y /\ s < t
          \/ h = i /\ x = y /\ s = t /\ d < e
  <2>1. PICK a, b : a = TimeAt(j) /\ b = TimeAt(k)
    OBVIOUS
  <2>2. a.hour = h /\ a.minute = x /\ a.sec = s /\ a.microsec = d
    BY ONLY <1>11, <2>1, RecordsOfFields
  <2>3. b.hour = i /\ b.minute = y /\ b.sec = t /\ b.microsec = e
    BY ONLY <1>11, <2>1, RecordsOfFields
  <2>4. TimeLess(a, b) <=>
          \/ a.hour < b.hour
          \/ a.hour = b.hour /\ a.minute < b.minute
          \/ a.hour = b.hour /\ a.minute = b.minute /\ a.sec < b.sec
          \/ a.hour = b.hour /\ a.minute = b.minute /\ a.sec = b.sec /\ a.microsec < b.microsec
    BY TimeLessIs, Zenon
  <2> QED BY ONLY <2>1, <2>2, <2>3, <2>4, Zenon
<1>13. TimeAt(j) = TimeAt(k) <=> h = i /\ x = y /\ s = t /\ d = e
  <2>1. LocalTime(h, x, s, d) = LocalTime(i, y, t, e) <=> h = i /\ x = y /\ s = t /\ d = e
    BY ONLY RecordsOfFields
  <2> QED BY ONLY <1>11, <2>1, Zenon
<1>14. TimeLess(TimeAt(j), TimeAt(k)) <=> j < k
  BY ONLY <1>4, <1>7, <1>9, <1>12, Zenon
<1>15. TimeAt(j) = TimeAt(k) <=> j = k
  BY ONLY <1>4, <1>7, <1>9, <1>13, Zenon
<1> QED BY <1>14, <1>15

LEMMA InstantOrder ==
    ASSUME NEW j \in Int, NEW k \in Int
    PROVE  /\ DatetimeLess(DatetimeAt(j), DatetimeAt(k)) <=> j < k
           /\ DatetimeAt(j) = DatetimeAt(k) <=> j = k
<1>1. PICK m, n, d, e : m = j \div TicksOfDay /\ n = k \div TicksOfDay /\ d = j % TicksOfDay /\ e = k % TicksOfDay
  OBVIOUS
<1>2. m \in Int /\ n \in Int /\ d \in Int /\ e \in Int
  BY <1>1, Digits, TimeUnits
<1>3. /\ j < k <=> m < n \/ (m = n /\ d < e)
      /\ j = k <=> m = n /\ d = e
  <2>1. PICK b \in Nat \ {0} : b = TicksOfDay
    BY TimeUnits
  <2>2. /\ j < k <=> j \div b < k \div b \/ (j \div b = k \div b /\ j % b < k % b)
        /\ j = k <=> j \div b = k \div b /\ j % b = k % b
    BY ONLY j \in Int, k \in Int, b \in Nat \ {0}, DigitOrder
  <2> QED BY <1>1, <2>1, <2>2, Zenon
<1>4. DatetimeAt(j) = <<DateAt(m), TimeAt(d)>> /\ DatetimeAt(k) = <<DateAt(n), TimeAt(e)>>
  BY <1>1, Zenon DEF DatetimeAt
<1>5. \A p, q, r, s : (<<p, q>> = <<r, s>> <=> p = r /\ q = s) /\ <<p, q>>[1] = p /\ <<p, q>>[2] = q
  OBVIOUS
<1>6. DatetimeAt(j) = DatetimeAt(k) <=> j = k
  <2>1. DateAt(m) = DateAt(n) <=> m = n
    BY <1>2, DateOrder, Zenon
  <2>2. TimeAt(d) = TimeAt(e) <=> d = e
    BY <1>2, TimeOrder, Zenon
  <2>3. DatetimeAt(j) = DatetimeAt(k) <=> DateAt(m) = DateAt(n) /\ TimeAt(d) = TimeAt(e)
    BY ONLY <1>4
  <2> QED BY ONLY <1>3, <2>1, <2>2, <2>3, Zenon
<1>7. DatetimeLess(DatetimeAt(j), DatetimeAt(k)) <=>
         DateLess(DateAt(m), DateAt(n)) \/ (DateAt(m) = DateAt(n) /\ TimeLess(TimeAt(d), TimeAt(e)))
  <2>1. /\ DatetimeAt(j)[1] = DateAt(m) /\ DatetimeAt(j)[2] = TimeAt(d)
        /\ DatetimeAt(k)[1] = DateAt(n) /\ DatetimeAt(k)[2] = TimeAt(e)
    BY ONLY <1>4
  <2>2. PICK a, b : a = DatetimeAt(j) /\ b = DatetimeAt(k)
    OBVIOUS
  <2>3. DatetimeLess(a, b) <=> DateLess(a[1], b[1]) \/ (a[1] = b[1] /\ TimeLess(a[2], b[2]))
    BY ONLY Zenon DEF DatetimeLess, DateOf, TimeOf
  <2> QED BY ONLY <2>1, <2>2, <2>3, Zenon
<1>8. DatetimeLess(DatetimeAt(j), DatetimeAt(k)) <=> j < k
  BY <1>2, <1>3, <1>7, DateOrder, TimeOrder, Zenon
<1> QED BY <1>6, <1>8

-----------------------------------------------------------------------------
(* Packing wraps the microseconds, whatever their sign. *)
LEMMA CalendarAt ==
    ASSUME NEW s \in Int, NEW w \in Int, NEW n \in Int, n = Ticks * s + (w % Ticks)
    PROVE  Packed(Calendar(s).date, [Calendar(s).time EXCEPT !.microsec = w]) = DatetimeAt(n)
<1>1. /\ Ticks \in Nat \ {0} /\ SecondsOfDay \in Nat \ {0} /\ SecondsOfHour \in Nat \ {0}
      /\ SecondsOfMinute \in Nat \ {0}
  BY TimeUnits
<1>2. PICK u \in 0 .. Ticks - 1 : u = w % Ticks
  BY <1>1, Digits
<1>3. n \div Ticks = s /\ n % Ticks = u
  BY ONLY <1>1, <1>2, s \in Int, u \in 0 .. Ticks - 1, n \in Int, n = Ticks * s + (w % Ticks), DigitsOf
<1>4. /\ s \div SecondsOfDay = n \div TicksOfDay
      /\ s % SecondsOfDay = (n % TicksOfDay) \div Ticks
      /\ u = (n % TicksOfDay) % Ticks
  <2>1. PICK b \in Nat \ {0}, c \in Nat \ {0}, m \in Nat \ {0} : b = Ticks /\ c = SecondsOfDay /\ m = TicksOfDay
    BY <1>1, TimeUnits
  <2>2. IsProduct(m, c, b)
    BY <2>1, TimeUnits DEF IsProduct
  <2>3. /\ Div(Div(n, b), c) = Div(n, m)
        /\ Mod(Div(n, b), c) = Div(Mod(n, m), b)
        /\ Mod(n, b) = Mod(Mod(n, m), b)
    BY ONLY <2>2, n \in Int, b \in Nat \ {0}, c \in Nat \ {0}, m \in Nat \ {0}, DigitsTwice
  <2> QED BY ONLY <1>3, <2>1, <2>3, Zenon DEF Div, Mod
<1>5. PICK k, r, t : k = n \div TicksOfDay /\ r = n % TicksOfDay /\ t = r \div Ticks
  OBVIOUS
<1>6. s \div SecondsOfDay = k /\ s % SecondsOfDay = t /\ u = r % Ticks
  BY ONLY <1>4, <1>5, Zenon
<1>7. Calendar(s).date = DateAt(k)
  BY <1>6 DEF Calendar, DateAt
<1>8. Calendar(s).time = LocalTime(t \div SecondsOfHour, (t % SecondsOfHour) \div SecondsOfMinute, t % SecondsOfMinute, 0)
  BY <1>6 DEF Calendar
<1>9. PICK h, m, z : h = t \div SecondsOfHour /\ m = (t % SecondsOfHour) \div SecondsOfMinute /\ z = t % SecondsOfMinute
  OBVIOUS
<1>10. [Calendar(s).time EXCEPT !.microsec = w] = LocalTime(h, m, z, w)
  BY <1>8, <1>9 DEF LocalTime
<1>11. TimeAt(r) = LocalTime(h, m, z, u)
  BY <1>5, <1>6, <1>9, Zenon DEF TimeAt
<1>12. Packed(DateAt(k), LocalTime(h, m, z, w)) = <<DateAt(k), LocalTime(h, m, z, u)>>
  <2>2. [LocalTime(h, m, z, w) EXCEPT !.microsec = @ % Ticks] = LocalTime(h, m, z, u)
    BY <1>2 DEF LocalTime
  <2> QED BY <2>2, Zenon DEF Packed, Ticks
<1> QED BY <1>5, <1>7, <1>10, <1>11, <1>12, Zenon DEF DatetimeAt

LEMMA PackedTime ==
    ASSUME NEW date, NEW r \in Int
    PROVE  Packed(date, TimeAt(r)) = <<date, TimeAt(r)>>
<1>1. Ticks \in Nat \ {0}
  BY TimeUnits
<1>2. PICK t, u : t = r \div Ticks /\ u = r % Ticks
  OBVIOUS
<1>3. u % Ticks = u
  <2>1. PICK w \in Nat \ {0} : w = Ticks
    BY <1>1
  <2>2. u \in 0 .. w - 1
    BY <1>2, <2>1, Digits
  <2>3. u % w = u
    BY ONLY <2>2, w \in Nat \ {0}
  <2> QED BY <2>1, <2>3
<1>4. PICK h, m, z : h = t \div SecondsOfHour /\ m = (t % SecondsOfHour) \div SecondsOfMinute /\ z = t % SecondsOfMinute
  OBVIOUS
<1>5. TimeAt(r) = LocalTime(h, m, z, u)
  BY <1>2, <1>4, Zenon DEF TimeAt
<1>6. [LocalTime(h, m, z, u) EXCEPT !.microsec = @ % Ticks] = LocalTime(h, m, z, u)
  BY <1>3 DEF LocalTime
<1> QED BY <1>5, <1>6, Zenon DEF Packed, Ticks

(* A date and a time of day make the tick of that day and time. *)
LEMMA Recombined ==
    ASSUME NEW k \in Int, NEW r \in 0 .. TicksOfDay - 1, NEW n \in Int, n = TicksOfDay * k + r
    PROVE  Packed(DateAt(k), TimeAt(r)) = DatetimeAt(n)
<1>1. PICK b \in Nat \ {0} : b = TicksOfDay
  BY TimeUnits
<1>2. n \div b = k /\ n % b = r
  BY ONLY <1>1, k \in Int, r \in 0 .. TicksOfDay - 1, n \in Int, n = TicksOfDay * k + r, b \in Nat \ {0}, DigitsOf
<1>3. r \in Int
  BY TimeUnits
<1> QED BY <1>1, <1>2, <1>3, PackedTime, Zenon DEF DatetimeAt

LEMMA FirstOfDay == TimeAt(0) = LocalTime(0, 0, 0, 0)
<1>1. \A b \in Nat \ {0} : 0 \div b = 0 /\ 0 % b = 0
  OBVIOUS
<1>2. /\ 0 \div Ticks = 0 /\ 0 % Ticks = 0
      /\ 0 \div SecondsOfHour = 0 /\ 0 % SecondsOfHour = 0
      /\ 0 \div SecondsOfMinute = 0 /\ 0 % SecondsOfMinute = 0
  BY ONLY <1>1, TimeUnits, Zenon
<1> QED BY ONLY <1>2, Zenon DEF TimeAt

-----------------------------------------------------------------------------
(* A datetime is that of the tick its clock shows. *)
TickOf(second, micro) == Ticks * second + (micro % Ticks)

IsFraction(micro) == micro \in Int /\ -MicrosOfSecond < micro /\ micro < MicrosOfSecond

Shows(m) ==
    /\ m.second \in Int /\ IsFraction(m.micro)
    /\ m.dt = DatetimeAt(TickOf(m.second, m.micro))

MomentInv == moments = [i \in SlotsOfMoments |-> moments[i]] /\ \A i \in SlotsOfMoments : Shows(moments[i])

(* The day of a tick and the tick of a day. *)
LEMMA TickParts ==
    ASSUME NEW s \in Int, NEW u \in Int
    PROVE  /\ TickOf(s, u) \in Int
           /\ TickOf(s, u) \div TicksOfDay = s \div SecondsOfDay
           /\ TickOf(s, u) % TicksOfDay = TickOf(s % SecondsOfDay, u)
           /\ TickOf(s, u) % TicksOfDay \in 0 .. TicksOfDay - 1
           /\ TickOf(s, u) \div Ticks = s /\ TickOf(s, u) % Ticks = u % Ticks
<1>1. PICK b \in Nat \ {0}, c \in Nat \ {0}, m \in Nat \ {0} : b = Ticks /\ c = SecondsOfDay /\ m = TicksOfDay
  BY TimeUnits
<1>2. IsProduct(m, c, b)
  BY <1>1, TimeUnits DEF IsProduct
<1>3. PICK v \in 0 .. b - 1 : v = u % b
  BY Digits
<1>4. PICK n \in Int : n = b * s + v
  OBVIOUS
<1>5. TickOf(s, u) = n
  BY <1>1, <1>3, <1>4, Zenon DEF TickOf
<1>6. n \div b = s /\ n % b = v
  BY ONLY <1>4, s \in Int, v \in 0 .. b - 1, n \in Int, b \in Nat \ {0}, DigitsOf
<1>7. /\ Div(Div(n, b), c) = Div(n, m)
      /\ Mod(Div(n, b), c) = Div(Mod(n, m), b)
      /\ Mod(n, b) = Mod(Mod(n, m), b)
  BY ONLY <1>2, n \in Int, b \in Nat \ {0}, c \in Nat \ {0}, m \in Nat \ {0}, DigitsTwice
<1>8. n \div m = s \div c /\ (n % m) \div b = s % c /\ (n % m) % b = v
  BY ONLY <1>6, <1>7, Zenon DEF Div, Mod
<1>9. PICK r : r = n % m
  OBVIOUS
<1>10. r \in 0 .. m - 1
  BY ONLY <1>9, n \in Int, m \in Nat \ {0}, Digits
<1>11. r = b * (r \div b) + (r % b)
  BY ONLY <1>10, b \in Nat \ {0}, m \in Nat \ {0}, Digits
<1>12. r = b * (s % c) + v
  BY ONLY <1>8, <1>9, <1>11, Zenon
<1>13. TickOf(s % SecondsOfDay, u) = r
  BY <1>1, <1>3, <1>12, Zenon DEF TickOf
<1> QED BY <1>1, <1>3, <1>5, <1>6, <1>8, <1>9, <1>10, <1>13

LEMMA SetInv ==
    ASSUME MomentInv, NEW i \in SlotsOfMoments, NEW m, Shows(m), moments' = [moments EXCEPT ![i] = m]
    PROVE  MomentInv'
<1>1. moments' = [j \in SlotsOfMoments |-> IF j = i THEN m ELSE moments[j]]
  BY DEF MomentInv
<1>2. \A j \in SlotsOfMoments : moments'[j] = IF j = i THEN m ELSE moments[j]
  BY <1>1
<1>3. moments' = [j \in SlotsOfMoments |-> moments'[j]]
  BY <1>1
<1>4. \A j \in SlotsOfMoments : Shows(moments'[j])
  BY <1>2, Zenon DEF MomentInv
<1>5. SlotsOfMoments' = SlotsOfMoments
  BY DEF SlotsOfMoments
<1>6. MomentInv' <=> moments' = [j \in SlotsOfMoments |-> moments'[j]] /\ \A j \in SlotsOfMoments : Shows(moments'[j])
  BY DEF MomentInv, Shows, DatetimeAt, DateAt, TimeAt, SlotsOfMoments
<1> QED BY <1>3, <1>4, <1>6, Zenon

LEMMA ShowsMoment ==
    ASSUME NEW dt, NEW second \in Int, NEW micro, IsFraction(micro), dt = DatetimeAt(TickOf(second, micro))
    PROVE  Shows(Moment(dt, second, micro))
<1>1. PICK m : m = Moment(dt, second, micro)
  OBVIOUS
<1>2. m.dt = dt /\ m.second = second /\ m.micro = micro
  BY <1>1 DEF Moment
<1>3. Shows(m)
  BY ONLY <1>2, second \in Int, IsFraction(micro), dt = DatetimeAt(TickOf(second, micro)), Zenon DEF Shows
<1> QED BY <1>1, <1>3, Zenon

LEMMA ConvertInv ==
    ASSUME MomentInv, NEW i \in SlotsOfMoments, NEW micros \in Stamps, Convert(i, micros)
    PROVE  MomentInv'
<1>1. PICK b \in Nat \ {0} : b = MicrosOfSecond
  BY Units
<1>2. micros \in Int /\ Offset(Quotient(micros, MicrosOfSecond)) \in Int
  BY DatetimeAssumption
<1>3. PICK q, u : q = Quotient(micros, MicrosOfSecond) /\ u = Remainder(micros, MicrosOfSecond)
  OBVIOUS
<1>4. q \in Int /\ u \in Int /\ (micros >= 0 => u = micros % b) /\ (micros < 0 => u = -((-micros) % b))
  BY ONLY <1>1, <1>2, <1>3, b \in Nat \ {0}, Signs
<1>5. IsFraction(u)
  <2>1. \A x \in Int : x % b \in 0 .. b - 1
    OBVIOUS
  <2>2. micros >= 0 \/ micros < 0
    BY <1>2
  <2>3. -b < u /\ u < b
    BY ONLY <1>2, <1>4, <2>1, <2>2, b \in Nat \ {0}
  <2> QED BY ONLY <1>1, <1>4, <2>3, Zenon DEF IsFraction
<1>6. PICK p \in Int : p = q + Offset(q)
  BY <1>2, <1>3, <1>4
<1>7. ASSUME NEW s \in Int
      PROVE  Packed(Calendar(s).date, [Calendar(s).time EXCEPT !.microsec = u]) = DatetimeAt(TickOf(s, u))
  <2>1. PICK n \in Int : n = TickOf(s, u)
    BY <1>4, TickParts
  <2>2. n = Ticks * s + (u % Ticks)
    BY <2>1, Zenon DEF TickOf
  <2> QED BY <1>4, <2>1, <2>2, CalendarAt, Zenon
<1>8. LocalSecond(micros) = p
  BY <1>3, <1>6, Zenon DEF LocalSecond
<1>9. MicrosToDateTime(micros) = DatetimeAt(TickOf(p, u))
  BY <1>3, <1>7, <1>8, Zenon DEF MicrosToDateTime, LocalDatetimeOf
<1>10. MicrosToZonedDatetime(micros) = DatetimeAt(TickOf(q, u))
  BY <1>3, <1>4, <1>7, Zenon DEF MicrosToZonedDatetime, ZonedDatetimeOf
<1>11. Set(i, MicrosToDateTime(micros), p, u) \/ Set(i, MicrosToZonedDatetime(micros), q, u)
  BY <1>3, <1>8, Zenon DEF Convert
<1>12. Shows(Moment(MicrosToDateTime(micros), p, u)) /\ Shows(Moment(MicrosToZonedDatetime(micros), q, u))
  BY <1>4, <1>5, <1>9, <1>10, ShowsMoment, Zenon
<1> QED BY <1>11, <1>12, SetInv, Zenon DEF Set

LEMMA DateAndTime ==
    ASSUME NEW s \in Int, NEW u \in Int
    PROVE  /\ DateOf(DatetimeAt(TickOf(s, u))) = DateAt(s \div SecondsOfDay)
           /\ TimeOf(DatetimeAt(TickOf(s, u))) = TimeAt(TickOf(s % SecondsOfDay, u))
<1>1. PICK n : n = TickOf(s, u)
  OBVIOUS
<1>2. PICK d, t : d = DateAt(n \div TicksOfDay) /\ t = TimeAt(n % TicksOfDay)
  OBVIOUS
<1>3. DatetimeAt(n) = <<d, t>>
  BY <1>2, Zenon DEF DatetimeAt
<1>4. DateOf(<<d, t>>) = d /\ TimeOf(<<d, t>>) = t
  BY DEF DateOf, TimeOf
<1>5. n \div TicksOfDay = s \div SecondsOfDay /\ n % TicksOfDay = TickOf(s % SecondsOfDay, u)
  BY <1>1, TickParts
<1> QED BY <1>1, <1>2, <1>3, <1>4, <1>5, Zenon

(* Day k and second t of a day make a second of the clock. *)
LEMMA SecondOf ==
    ASSUME NEW k \in Int, NEW t \in 0 .. SecondsOfDay - 1, NEW u \in Int
    PROVE  /\ SecondsOfDay * k + t \in Int
           /\ Packed(DateAt(k), TimeAt(TickOf(t, u))) = DatetimeAt(TickOf(SecondsOfDay * k + t, u))
<1>1. PICK c \in Nat \ {0} : c = SecondsOfDay
  BY TimeUnits
<1>2. t \in 0 .. c - 1
  BY <1>1
<1>3. PICK s \in Int : s = c * k + t
  BY <1>2
<1>4. s \div c = k /\ s % c = t
  BY ONLY <1>2, <1>3, k \in Int, s \in Int, c \in Nat \ {0}, DigitsOf
<1>5. PICK n \in Int : n = TickOf(s, u)
  BY TickParts
<1>6. n \div TicksOfDay = k /\ n % TicksOfDay = TickOf(t, u) /\ n % TicksOfDay \in 0 .. TicksOfDay - 1
  BY <1>1, <1>4, <1>5, TickParts
<1>7. n = TicksOfDay * (n \div TicksOfDay) + (n % TicksOfDay)
  BY TimeUnits, Digits
<1>8. PICK r \in 0 .. TicksOfDay - 1 : r = TickOf(t, u)
  BY <1>6
<1>9. n = TicksOfDay * k + r
  BY ONLY <1>6, <1>7, <1>8, Zenon
<1>10. Packed(DateAt(k), TimeAt(r)) = DatetimeAt(n)
  BY <1>9, Recombined, Zenon
<1> QED BY <1>1, <1>3, <1>5, <1>8, <1>10, Zenon

LEMMA RecombineInv ==
    ASSUME MomentInv, NEW i \in SlotsOfMoments, NEW j \in SlotsOfMoments, Recombine(i, j)
    PROVE  MomentInv'
<1>1. PICK a, c, u, v : a = moments[i].second /\ c = moments[j].second /\ u = moments[j].micro /\ v = moments[i].micro
  OBVIOUS
<1>2. /\ a \in Int /\ IsFraction(v) /\ moments[i].dt = DatetimeAt(TickOf(a, v))
      /\ c \in Int /\ IsFraction(u) /\ moments[j].dt = DatetimeAt(TickOf(c, u))
  BY <1>1, Zenon DEF MomentInv, Shows
<1>3. u \in Int /\ v \in Int
  BY <1>2 DEF IsFraction
<1>4. PICK k, t : k = a \div SecondsOfDay /\ t = c % SecondsOfDay
  OBVIOUS
<1>5. k \in Int /\ t \in 0 .. SecondsOfDay - 1
  BY <1>2, <1>4, TimeUnits, Digits
<1>6. DateOf(moments[i].dt) = DateAt(k) /\ TimeOf(moments[j].dt) = TimeAt(TickOf(t, u))
  BY <1>2, <1>3, <1>4, DateAndTime, Zenon
<1>7. PICK s : s = SecondsOfDay * k + t
  OBVIOUS
<1>8. s \in Int /\ Packed(DateAt(k), TimeAt(TickOf(t, u))) = DatetimeAt(TickOf(s, u))
  BY <1>3, <1>5, <1>7, SecondOf, Zenon
<1>9. Set(i, Packed(DateAt(k), TimeAt(TickOf(t, u))), s, u)
  BY <1>1, <1>4, <1>6, <1>7, Zenon DEF Recombine, LocalDatetimeOf, Midnight
<1>10. Shows(Moment(Packed(DateAt(k), TimeAt(TickOf(t, u))), s, u))
  BY <1>2, <1>8, ShowsMoment, Zenon
<1> QED BY <1>9, <1>10, SetInv, Zenon DEF Set

(* The start of a day. *)
LEMMA StartShows ==
    ASSUME NEW k \in Int
    PROVE  Shows(Moment(StartOfDay(DateAt(k)), SecondsOfDay * k, 0))
<1>1. SecondsOfDay * k \in Int /\ SecondsOfDay * k + 0 = SecondsOfDay * k /\ 0 \in 0 .. SecondsOfDay - 1
  BY TimeUnits
<1>2. 0 % Ticks = 0 /\ Ticks * 0 + 0 = 0
  BY TimeUnits
<1>3. TickOf(0, 0) = 0
  BY <1>2, Zenon DEF TickOf
<1>4. Packed(DateAt(k), TimeAt(TickOf(0, 0))) = DatetimeAt(TickOf(SecondsOfDay * k + 0, 0))
  BY <1>1, SecondOf
<1>5. StartOfDay(DateAt(k)) = DatetimeAt(TickOf(SecondsOfDay * k, 0))
  BY <1>1, <1>3, <1>4, FirstOfDay, Zenon DEF StartOfDay
<1>6. IsFraction(0)
  BY Units DEF IsFraction
<1> QED BY <1>1, <1>5, <1>6, ShowsMoment, Zenon

LEMMA TruncateInv ==
    ASSUME MomentInv, NEW i \in SlotsOfMoments, Truncate(i)
    PROVE  MomentInv'
<1>1. PICK a, v : a = moments[i].second /\ v = moments[i].micro
  OBVIOUS
<1>2. a \in Int /\ IsFraction(v) /\ moments[i].dt = DatetimeAt(TickOf(a, v))
  BY <1>1, Zenon DEF MomentInv, Shows
<1>3. PICK k : k = a \div SecondsOfDay
  OBVIOUS
<1>4. k \in Int /\ v \in Int
  BY <1>2, <1>3, TimeUnits, Digits DEF IsFraction
<1>5. DateOf(moments[i].dt) = DateAt(k)
  BY <1>2, <1>3, <1>4, DateAndTime, Zenon
<1>6. Set(i, StartOfDay(DateAt(k)), SecondsOfDay * k, 0)
  BY <1>1, <1>3, <1>5, Zenon DEF Truncate, Midnight
<1> QED BY <1>4, <1>6, StartShows, SetInv, Zenon DEF Set

(* The cleared datetime is the first day of the year 0. *)
LEMMA ClearedShows == Shows(Cleared)
<1>1. PICK b \in Nat \ {0}, c \in Nat \ {0}, y \in Int : b = DaysOfMonth /\ c = MonthsOfYear /\ y = EpochYear
  BY TimeUnits, DatetimeAssumption
<1>2. PICK m \in Int, k \in Int : m = c * (-y) /\ k = b * m
  OBVIOUS
<1>3. k \div b = m /\ k % b = 0 /\ m \div c = -y /\ m % c = 0
  <2>1. k = b * m + 0 /\ 0 \in 0 .. b - 1 /\ m = c * (-y) + 0 /\ 0 \in 0 .. c - 1 /\ -y \in Int
    BY <1>2
  <2>2. k \div b = m /\ k % b = 0
    BY ONLY <2>1, k \in Int, m \in Int, b \in Nat \ {0}, DigitsOf
  <2>3. m \div c = -y /\ m % c = 0
    BY ONLY <2>1, m \in Int, c \in Nat \ {0}, DigitsOf
  <2> QED BY <2>2, <2>3
<1>4. DateAt(k) = Date(y + (-y), 1 + 0, 1 + 0)
  BY <1>1, <1>3, Zenon DEF DateAt
<1>5. y + (-y) = 0 /\ 1 + 0 = 1
  OBVIOUS
<1>6. DateAt(k) = Date(0, 1, 1)
  BY ONLY <1>4, <1>5, Zenon
<1>7. Cleared = Moment(StartOfDay(DateAt(k)), SecondsOfDay * k, 0)
  BY <1>1, <1>2, <1>6, Zenon DEF Cleared, ClearedDatetime
<1> QED BY <1>7, StartShows, Zenon

LEMMA MomentsAlways == DatetimeSpec => []MomentInv
<1>1. DatetimeInit => MomentInv
  <2> SUFFICES ASSUME DatetimeInit PROVE MomentInv
    OBVIOUS
  <2>1. moments = [i \in SlotsOfMoments |-> moments[i]] /\ \A i \in SlotsOfMoments : moments[i] = Cleared
    BY DEF DatetimeInit
  <2> QED BY <2>1, ClearedShows, Zenon DEF MomentInv
<1>2. MomentInv /\ [DatetimeNext]_moments => MomentInv'
  <2> SUFFICES ASSUME MomentInv, [DatetimeNext]_moments PROVE MomentInv'
    OBVIOUS
  <2>1. CASE UNCHANGED moments
    BY <2>1 DEF MomentInv, Shows, DatetimeAt, DateAt, TimeAt, SlotsOfMoments
  <2>2. ASSUME NEW i \in SlotsOfMoments, Clear(i) PROVE MomentInv'
    BY <2>2, ClearedShows, SetInv, Zenon DEF Clear
  <2> QED BY <2>1, <2>2, ConvertInv, RecombineInv, TruncateInv, Zenon DEF DatetimeNext
<1> QED BY <1>1, <1>2, PTL DEF DatetimeSpec

(* Fractions in the field: one is itself or, if negative, wrapped. *)
LEMMA Wrapped ==
    ASSUME NEW u, IsFraction(u), NEW v, IsFraction(v)
    PROVE  /\ (u < 0 <=> v < 0) => (u % Ticks < v % Ticks <=> u < v)
           /\ u % Ticks = v % Ticks <=> u = v
<1>1. PICK w \in Nat \ {0}, b \in Nat \ {0} : w = Ticks /\ b = MicrosOfSecond /\ 2 * b <= w
  BY TimeUnits, Units, DatetimeAssumption DEF Ticks
<1>2. ASSUME NEW x \in Int, -b < x, x < b
      PROVE  (x >= 0 => x % w = x) /\ (x < 0 => x % w = w + x)
  <2>1. x >= 0 => x = w * 0 + x /\ x \in 0 .. w - 1
    BY <1>1, <1>2
  <2>2. x < 0 => x = w * (-1) + (w + x) /\ w + x \in 0 .. w - 1
    BY <1>1, <1>2
  <2>3. x >= 0 => x % w = x
    BY ONLY <2>1, x \in Int, w \in Nat \ {0}, 0 \in Int, DigitsOf
  <2>4. x < 0 => x % w = w + x
    BY ONLY <2>2, x \in Int, w \in Nat \ {0}, -1 \in Int, DigitsOf
  <2> QED BY <2>3, <2>4
<1>3. u \in Int /\ v \in Int /\ -b < u /\ u < b /\ -b < v /\ v < b
  BY <1>1 DEF IsFraction
<1>4. PICK x, y : x = u % w /\ y = v % w
  OBVIOUS
<1>5. /\ u >= 0 => x = u
      /\ u < 0 => x = w + u
      /\ v >= 0 => y = v
      /\ v < 0 => y = w + v
  BY ONLY <1>2, <1>3, <1>4
<1>6. ((u < 0 <=> v < 0) => (x < y <=> u < v)) /\ (x = y <=> u = v)
  BY ONLY <1>1, <1>3, <1>5, w \in Nat \ {0}, b \in Nat \ {0}
<1> QED BY ONLY <1>1, <1>4, <1>6, Zenon

(* For all units, instants and zones, with whatever changes of their       *)
(* offset: datetimes are ordered and equal as the clocks they show,        *)
(* fractions before the epoch included, also after their dates and times   *)
(* were taken apart and put together (Datetime.h:50-88, Date.h:58-70,      *)
(* Time.h:33-47).                                                          *)
THEOREM DatetimesOrdered == DatetimeSpec => []MomentsOrdered
<1>1. ASSUME NEW m, Shows(m), NEW n, Shows(n)
      PROVE  /\ m.second < n.second => DatetimeLess(m.dt, n.dt) /\ ~DatetimeLess(n.dt, m.dt)
             /\ (m.second = n.second /\ (m.micro < 0 <=> n.micro < 0)) =>
                    (DatetimeLess(m.dt, n.dt) <=> m.micro < n.micro)
             /\ m.dt = n.dt <=> m.second = n.second /\ m.micro = n.micro
  <2>1. PICK a, c, u, v : a = m.second /\ c = n.second /\ u = m.micro /\ v = n.micro
    OBVIOUS
  <2>2. /\ a \in Int /\ IsFraction(u) /\ m.dt = DatetimeAt(TickOf(a, u))
        /\ c \in Int /\ IsFraction(v) /\ n.dt = DatetimeAt(TickOf(c, v))
    BY <1>1, <2>1, Zenon DEF Shows
  <2>3. u \in Int /\ v \in Int
    BY <2>2 DEF IsFraction
  <2>4. PICK x, y \in Int : x = TickOf(a, u) /\ y = TickOf(c, v)
    BY <2>2, <2>3, TickParts
  <2>5. /\ DatetimeLess(m.dt, n.dt) <=> x < y
        /\ DatetimeLess(n.dt, m.dt) <=> y < x
        /\ m.dt = n.dt <=> x = y
    BY <2>2, <2>4, InstantOrder
  <2>6. PICK p, q : p = u % Ticks /\ q = v % Ticks
    OBVIOUS
  <2>7. /\ x < y <=> a < c \/ (a = c /\ p < q)
        /\ y < x <=> c < a \/ (c = a /\ q < p)
        /\ x = y <=> a = c /\ p = q
    <3>1. PICK b \in Nat \ {0} : b = Ticks
      BY TimeUnits
    <3>2. x \div b = a /\ x % b = p /\ y \div b = c /\ y % b = q
      BY <2>2, <2>3, <2>4, <2>6, <3>1, TickParts
    <3>3. /\ x < y <=> x \div b < y \div b \/ (x \div b = y \div b /\ x % b < y % b)
          /\ y < x <=> y \div b < x \div b \/ (y \div b = x \div b /\ y % b < x % b)
          /\ x = y <=> x \div b = y \div b /\ x % b = y % b
      BY ONLY x \in Int, y \in Int, b \in Nat \ {0}, DigitOrder
    <3> QED BY ONLY <3>2, <3>3, Zenon
  <2>8. ((u < 0 <=> v < 0) => (p < q <=> u < v)) /\ (p = q <=> u = v)
    BY <2>2, <2>6, Wrapped, Zenon
  <2>9. a < c => ~(c < a) /\ c # a
    BY <2>2
  <2>10. a = c => ~(a < c)
    BY <2>2
  <2> QED BY ONLY <2>1, <2>5, <2>7, <2>8, <2>9, <2>10, Zenon
<1>2. MomentInv => MomentsOrdered
  BY <1>1, Zenon DEF MomentsOrdered, MomentInv
<1> QED BY <1>2, MomentsAlways, PTL

-----------------------------------------------------------------------------
(* Numbers in values.                                                      *)
Integral == SignedInts \cup UnsignedInts

Bytes(k) == TypeTraits[k].bytes
Precision(k) == TypeTraits[k].precision

(* Half the numbers of a kind. *)
HalfOf(k) == 2 ^ (Bits(k) - 1)

LEMMA IntTraits ==
    ASSUME NEW name, NEW bytes \in Nat
    PROVE  /\ SignedTraits(name, bytes).bytes = bytes /\ SignedTraits(name, bytes).precision = ByteBits * bytes - 1
           /\ UnsignedTraits(name, bytes).bytes = bytes /\ UnsignedTraits(name, bytes).precision = ByteBits * bytes - 1
  BY DEF SignedTraits, UnsignedTraits, Plain, Flags

LEMMA TraitsOf ==
    /\ TypeTraits["kInt8"] = SignedTraits("int8_t", 1) /\ TypeTraits["kUint8"] = UnsignedTraits("uint8_t", 1)
    /\ TypeTraits["kInt16"] = SignedTraits("int16_t", 2) /\ TypeTraits["kUint16"] = UnsignedTraits("uint16_t", 2)
    /\ TypeTraits["kInt32"] = SignedTraits("int32_t", 4) /\ TypeTraits["kUint32"] = UnsignedTraits("uint32_t", 4)
    /\ TypeTraits["kInt64"] = SignedTraits("int64_t", 8) /\ TypeTraits["kUint64"] = UnsignedTraits("uint64_t", 8)
  BY DEF TypeTraits, Int8Traits, Int16Traits, Int32Traits, Int64Traits, Uint8Traits, Uint16Traits,
         Uint32Traits, Uint64Traits

LEMMA Widths ==
    /\ \A k \in Integral : Bytes(k) \in {1, 2, 4, 8} /\ Precision(k) = ByteBits * Bytes(k) - 1
    /\ Bytes("kInt64") = 8 /\ Bytes("kUint64") = 8
<1>1. /\ Bytes("kInt8") = 1 /\ Bytes("kUint8") = 1 /\ Bytes("kInt16") = 2 /\ Bytes("kUint16") = 2
      /\ Bytes("kInt32") = 4 /\ Bytes("kUint32") = 4 /\ Bytes("kInt64") = 8 /\ Bytes("kUint64") = 8
  BY TraitsOf, IntTraits DEF Bytes
<1>2. /\ Precision("kInt8") = ByteBits * 1 - 1 /\ Precision("kUint8") = ByteBits * 1 - 1
      /\ Precision("kInt16") = ByteBits * 2 - 1 /\ Precision("kUint16") = ByteBits * 2 - 1
      /\ Precision("kInt32") = ByteBits * 4 - 1 /\ Precision("kUint32") = ByteBits * 4 - 1
      /\ Precision("kInt64") = ByteBits * 8 - 1 /\ Precision("kUint64") = ByteBits * 8 - 1
  BY TraitsOf, IntTraits DEF Precision
<1> QED BY <1>1, <1>2 DEF Integral, SignedInts, UnsignedInts

(* The limits of a kind, as multiples of its half. *)
LEMMA Limits ==
    ASSUME NEW k \in Integral
    PROVE  /\ Bits(k) = ByteBits * Bytes(k) /\ Bits(k) \in 1 .. 8 * ByteBits
           /\ HalfOf(k) \in Nat \ {0} /\ 2 ^ Bits(k) = 2 * HalfOf(k)
           /\ Least(k) = (IF k \in SignedInts THEN -HalfOf(k) ELSE 0)
           /\ Greatest(k) = Least(k) + 2 * HalfOf(k) - 1
<1>1. ByteBits \in Nat \ {0} /\ Bytes(k) \in {1, 2, 4, 8}
  BY ByteBitsAssumption, Widths
<1>2. Bits(k) = ByteBits * Bytes(k)
  BY DEF Bits, Bytes
<1>3. Bits(k) \in 1 .. 8 * ByteBits
  BY <1>1, <1>2
<1>4. PICK n : n = Bits(k)
  OBVIOUS
<1>5. n \in 0 .. 8 * ByteBits /\ n - 1 \in 0 .. 8 * ByteBits /\ (n - 1) + 1 = n
  BY <1>1, <1>3, <1>4
<1>6. 2 ^ (n - 1) \in Nat \ {0} /\ 2 ^ n = 2 * 2 ^ (n - 1)
  BY <1>5, PowersAssumption, Zenon
<1>7. HalfOf(k) \in Nat \ {0} /\ 2 ^ Bits(k) = 2 * HalfOf(k)
  BY <1>4, <1>6, Zenon DEF HalfOf
<1>8. Least(k) = IF k \in SignedInts THEN -HalfOf(k) ELSE 0
  BY Zenon DEF Least, HalfOf
<1>9. Greatest(k) = Least(k) + 2 * HalfOf(k) - 1
  BY <1>7, Zenon DEF Greatest
<1> QED BY <1>2, <1>3, <1>7, <1>8, <1>9

LEMMA FitsIs ==
    ASSUME NEW k \in Integral, NEW n
    PROVE  Fits(n, k) <=> /\ n \in Int
                          /\ IF k \in SignedInts THEN -HalfOf(k) <= n /\ n < HalfOf(k)
                                                 ELSE 0 <= n /\ n < 2 * HalfOf(k)
<1>0. PICK h \in Nat \ {0} : h = HalfOf(k)
  BY Limits
<1>1. PICK l, g : h = HalfOf(k) /\ l = Least(k) /\ g = Greatest(k)
  BY <1>0
<1>2. l = (IF k \in SignedInts THEN -h ELSE 0) /\ g = l + 2 * h - 1
  BY <1>1, Limits
<1>3. Fits(n, k) <=> n \in l .. g
  BY <1>1, Zenon DEF Fits
<1>4. n \in l .. g <=> /\ n \in Int
                       /\ IF k \in SignedInts THEN -h <= n /\ n < h ELSE 0 <= n /\ n < 2 * h
  BY ONLY <1>2, h \in Nat \ {0}
<1> QED BY ONLY <1>1, <1>3, <1>4, Zenon

(* A kind of more bytes has twice the numbers at least. *)
LEMMA HalvesGrow ==
    ASSUME NEW k \in Integral, NEW l \in Integral
    PROVE  /\ Bits(k) < Bits(l) => 2 * HalfOf(k) <= HalfOf(l)
           /\ Bits(k) = Bits(l) => HalfOf(k) = HalfOf(l)
<1>1. PICK m \in Int, n \in Int : m = Bits(k) - 1 /\ n = Bits(l) - 1
  BY Limits, ByteBitsAssumption
<1>2. m \in 0 .. 8 * ByteBits /\ n \in 0 .. 8 * ByteBits
  BY <1>1, Limits, ByteBitsAssumption
<1>3. m < n => 2 * 2 ^ m <= 2 ^ n
  BY <1>2, PowersAssumption, Zenon
<1>4. (Bits(k) < Bits(l) => m < n) /\ (Bits(k) = Bits(l) => m = n)
  BY <1>1, Limits, ByteBitsAssumption
<1>5. HalfOf(k) = 2 ^ m /\ HalfOf(l) = 2 ^ n
  BY <1>1, Zenon DEF HalfOf
<1> QED BY ONLY <1>3, <1>4, <1>5, Zenon

LEMMA HalvesBelow ==
    ASSUME NEW k \in Integral
    PROVE  HalfOf(k) <= HalfOf("kInt64") /\ HalfOf("kUint64") = HalfOf("kInt64") /\ HalfOf("kInt64") \in Nat \ {0}
<1>1. "kInt64" \in Integral /\ "kUint64" \in Integral
  BY DEF Integral, SignedInts, UnsignedInts
<1>2. Bits("kInt64") = ByteBits * 8 /\ Bits("kUint64") = ByteBits * 8 /\ Bits(k) = ByteBits * Bytes(k)
  BY <1>1, Limits, Widths
<1>3. Bits(k) < Bits("kInt64") \/ Bits(k) = Bits("kInt64")
  BY <1>2, Widths, ByteBitsAssumption
<1>4. HalfOf(k) \in Nat \ {0} /\ HalfOf("kInt64") \in Nat \ {0}
  BY <1>1, Limits
<1>5. (Bits(k) < Bits("kInt64") => 2 * HalfOf(k) <= HalfOf("kInt64")) /\ (Bits(k) = Bits("kInt64") => HalfOf(k) = HalfOf("kInt64"))
  BY <1>1, HalvesGrow
<1>6. HalfOf("kUint64") = HalfOf("kInt64")
  BY <1>1, <1>2, HalvesGrow
<1> QED BY ONLY <1>3, <1>4, <1>5, <1>6

(* A cast to a kind gives a number of it, the same one if it is one. *)
LEMMA Casts ==
    ASSUME NEW k \in Integral, NEW n \in Int
    PROVE  /\ StaticCast(n, k) \in Int /\ Fits(StaticCast(n, k), k)
           /\ Fits(n, k) => StaticCast(n, k) = n
<1>1. PICK h \in Nat \ {0}, l \in Int : h = HalfOf(k) /\ l = Least(k)
  BY Limits
<1>2. l = (IF k \in SignedInts THEN -h ELSE 0) /\ Greatest(k) = l + 2 * h - 1
  BY <1>1, Limits
<1>3. StaticCast(n, k) = l + ((n - l) % (2 * h))
  <2>1. 2 ^ Bits(k) = 2 * h
    BY <1>1, Limits
  <2> QED BY <1>1, <2>1, Zenon DEF StaticCast
<1>4. PICK r \in Int : r = (n - l) % (2 * h)
  OBVIOUS
<1>5. 0 <= r /\ r < 2 * h
  BY ONLY <1>4, n \in Int, l \in Int, h \in Nat \ {0}
<1>6. Fits(StaticCast(n, k), k)
  <2>1. l + r \in l .. (l + 2 * h - 1)
    BY ONLY <1>5, r \in Int, l \in Int, h \in Nat \ {0}
  <2> QED BY <1>1, <1>2, <1>3, <1>4, <2>1, Zenon DEF Fits
<1>7. Fits(n, k) => StaticCast(n, k) = n
  <2>1. n \in l .. (l + 2 * h - 1) => r = n - l
    BY ONLY <1>4, n \in Int, l \in Int, h \in Nat \ {0}
  <2>2. Fits(n, k) <=> n \in l .. (l + 2 * h - 1)
    BY <1>1, <1>2, Zenon DEF Fits
  <2>3. r = n - l => l + r = n
    BY ONLY n \in Int, l \in Int, r \in Int
  <2> QED BY <1>3, <1>4, <2>1, <2>2, <2>3, Zenon
<1> QED BY <1>3, <1>4, <1>6, <1>7

LEMMA WidensKeeps ==
    ASSUME NEW k \in Integral, NEW l \in Integral, Widens(k, l), NEW n, Fits(n, k)
    PROVE  Fits(n, l)
<1>1. PICK h \in Nat \ {0}, g \in Nat \ {0} : h = HalfOf(k) /\ g = HalfOf(l)
  BY Limits
<1>2. n \in Int /\ IF k \in SignedInts THEN -h <= n /\ n < h ELSE 0 <= n /\ n < 2 * h
  BY <1>1, FitsIs
<1>3. Precision(k) = Bits(k) - 1 /\ Precision(l) = Bits(l) - 1 /\ Bits(k) \in Int /\ Bits(l) \in Int
  BY Limits, Widths, ByteBitsAssumption
<1>4. \/ Bits(k) < Bits(l) /\ (k \in SignedInts => l \in SignedInts)
      \/ Bits(k) = Bits(l) /\ (k \in SignedInts <=> l \in SignedInts)
  <2>1. \/ Precision(k) < Precision(l) /\ (k \in SignedInts => l \in SignedInts)
        \/ Precision(k) = Precision(l) /\ (k \in SignedInts <=> l \in SignedInts)
    BY Zenon DEF Widens, Precision
  <2> QED BY ONLY <1>3, <2>1
<1>5. (Bits(k) < Bits(l) => 2 * h <= g) /\ (Bits(k) = Bits(l) => h = g)
  BY <1>1, HalvesGrow
<1>6. IF l \in SignedInts THEN -g <= n /\ n < g ELSE 0 <= n /\ n < 2 * g
  BY ONLY <1>2, <1>4, <1>5, h \in Nat \ {0}, g \in Nat \ {0}
<1> QED BY <1>1, <1>2, <1>6, FitsIs

-----------------------------------------------------------------------------
ValueOf(k, n) == [kind |-> k, num |-> n]

LEMMA ValueFields ==
    ASSUME NEW k, NEW n
    PROVE  /\ ValueOf(k, n).kind = k /\ ValueOf(k, n).num = n
           /\ \A j, m : ValueOf(k, n) = ValueOf(j, m) <=> k = j /\ n = m
           /\ \A m : [ValueOf(k, n) EXCEPT !.num = m] = ValueOf(k, m)
  BY DEF ValueOf

LEMMA IntegralKinds ==
    /\ "kInt64" \in Integral /\ "kUint64" \in Integral /\ "kInt64" \in SignedInts /\ "kUint64" \notin SignedInts
    /\ "kNull" \notin Integral /\ "nullopt" \notin Integral
    /\ \A k \in Integral : k \in SignedInts <=> k \notin UnsignedInts
  BY DEF Integral, SignedInts, UnsignedInts

(* What transformNumeric should make of a number: nothing, when no int64_t *)
(* is that number, or a value with it.                                     *)
Right(r, m) ==
    \/ r = NullOpt /\ ~Fits(m, "kInt64")
    \/ r # NullOpt /\ \E k \in Integral : r = ValueOf(k, m) /\ Fits(m, k)

LEMMA MakesRight ==
    ASSUME NEW k \in Integral, NEW m, Fits(m, k)
    PROVE  Right(ValueOf(k, m), m)
<1>1. NullOpt = ValueOf("nullopt", 0)
  BY DEF NullOpt, ValueOf
<1>2. k # "nullopt"
  BY IntegralKinds
<1>3. ValueOf(k, m) # NullOpt
  BY ONLY <1>1, <1>2, ValueFields
<1> QED BY <1>3, Zenon DEF Right

LEMMA SignedNegated ==
    ASSUME NEW k \in SignedInts, NEW n, Fits(n, k)
    PROVE  Right(TransformSigned(ValueOf(k, n), TRUE), -n)
<1>1. k \in Integral /\ "kInt64" \in Integral /\ "kInt64" \in SignedInts
  BY IntegralKinds DEF Integral
<1>2. PICK h \in Nat \ {0}, g \in Nat \ {0} : h = HalfOf(k) /\ g = HalfOf("kInt64")
  BY <1>1, Limits
<1>3. h <= g /\ Least("kInt64") = -g
  BY <1>1, <1>2, HalvesBelow, Limits
<1>4. n \in Int /\ -h <= n /\ n < h
  BY <1>1, <1>2, FitsIs
<1>5. PICK m \in Int : m = -n
  BY <1>4
<1>6. PICK v : v = ValueOf(k, n)
  OBVIOUS
<1>7. v.kind = k /\ v.num = n /\ [v EXCEPT !.num = m] = ValueOf(k, m)
  BY ONLY <1>6, ValueFields
<1>8. Fits(n, "kInt64") /\ GetInteger(v) = n
  <2>1. Fits(n, "kInt64")
    BY <1>1, <1>2, <1>3, <1>4, FitsIs
  <2>2. StaticCast(n, "kInt64") = n
    BY <1>1, <1>4, <2>1, Casts
  <2> QED BY <1>7, <2>1, <2>2 DEF GetInteger
<1>9. UnaryMinus(v) = IF Fits(m, k) THEN ValueOf(k, m) ELSE Null
  <2>1. [v EXCEPT !.num = -@] = ValueOf(k, m)
    BY <1>5, <1>6, <1>7 DEF ValueOf
  <2> QED BY <1>5, <1>7, <2>1, Zenon DEF UnaryMinus
<1>10. ValueOf(k, m) # Null
  <2>1. Null = ValueOf("kNull", 0)
    BY DEF Null, ValueOf
  <2>2. k # "kNull"
    BY <1>1, IntegralKinds
  <2> QED BY ONLY <2>1, <2>2, ValueFields
<1>11. CASE Fits(m, k)
  <2>1. TransformSigned(v, TRUE) = ValueOf(k, m)
    BY <1>9, <1>10, <1>11, Zenon DEF TransformSigned
  <2> QED BY <1>1, <1>5, <1>6, <1>11, <2>1, MakesRight, Zenon
<1>12. CASE ~Fits(m, k) /\ n > -g
  <2>1. TransformSigned(v, TRUE) = Int64(m)
    BY <1>3, <1>5, <1>8, <1>9, <1>12, Zenon DEF TransformSigned
  <2>2. Fits(m, "kInt64")
    <3>1. -g <= m /\ m < g
      BY ONLY <1>3, <1>4, <1>5, <1>12, h \in Nat \ {0}, g \in Nat \ {0}
    <3> QED BY <1>1, <1>2, <3>1, FitsIs
  <2>3. Int64(m) = ValueOf("kInt64", m)
    BY DEF Int64, ValueOf
  <2> QED BY <1>1, <1>5, <1>6, <2>1, <2>2, <2>3, MakesRight, Zenon
<1>13. CASE ~Fits(m, k) /\ ~(n > -g)
  <2>1. TransformSigned(v, TRUE) = NullOpt
    BY <1>3, <1>5, <1>8, <1>9, <1>13, Zenon DEF TransformSigned
  <2>2. ~Fits(m, "kInt64")
    <3>1. ~(m < g)
      BY ONLY <1>4, <1>5, <1>13, g \in Nat \ {0}
    <3> QED BY <1>1, <1>2, <3>1, FitsIs
  <2> QED BY <1>5, <1>6, <2>1, <2>2, Zenon DEF Right
<1> QED BY <1>11, <1>12, <1>13, Zenon

LEMMA UnsignedTransformed ==
    ASSUME NEW k \in UnsignedInts, NEW n, Fits(n, k)
    PROVE  /\ Right(TransformUnsigned(ValueOf(k, n), TRUE), -n)
           /\ Right(TransformUnsigned(ValueOf(k, n), FALSE), n)
<1>1. /\ k \in Integral /\ k \notin SignedInts /\ "kInt64" \in Integral /\ "kInt64" \in SignedInts
      /\ "kUint64" \in Integral /\ "kUint64" \notin SignedInts
  BY IntegralKinds DEF Integral
<1>2. PICK h \in Nat \ {0}, g \in Nat \ {0} : h = HalfOf(k) /\ g = HalfOf("kInt64")
  BY <1>1, Limits
<1>3. h <= g /\ Least("kInt64") = -g /\ HalfOf("kUint64") = g /\ Least("kUint64") = 0
  BY <1>1, <1>2, HalvesBelow, Limits
<1>4. n \in Int /\ 0 <= n /\ n < 2 * h
  BY <1>1, <1>2, FitsIs
<1>5. GetUnsignedInteger(ValueOf(k, n)) = n
  BY ValueFields DEF GetUnsignedInteger
<1>6. \A m : Int64(m) = ValueOf("kInt64", m)
  BY DEF Int64, ValueOf
<1>7. StaticCast(Least("kInt64"), "kUint64") = g
  <2>1. 2 ^ Bits("kUint64") = 2 * g
    BY <1>1, <1>3, Limits
  <2>2. PICK o \in Int : o = 0 /\ o = Least("kUint64")
    BY <1>3
  <2>3. o + ((-g - o) % (2 * g)) = g
    BY ONLY <2>2, g \in Nat \ {0}
  <2> QED BY ONLY <1>3, <2>1, <2>2, <2>3, Zenon DEF StaticCast
<1>8. PICK m \in Int : m = -n
  BY <1>4
<1>9. n <= g <=> Fits(m, "kInt64")
  <2>1. n <= g <=> -g <= m /\ m < g
    BY ONLY <1>3, <1>4, <1>8, g \in Nat \ {0}
  <2> QED BY <1>1, <1>2, <2>1, FitsIs
<1>10. StaticCast(m, "kInt64") = m \/ ~Fits(m, "kInt64")
  BY <1>1, Casts
<1>11. Right(TransformUnsigned(ValueOf(k, n), TRUE), m)
  <2>1. CASE n <= g
    <3>1. TransformUnsigned(ValueOf(k, n), TRUE) = Int64(StaticCast(m, "kInt64"))
      BY <1>5, <1>7, <1>8, <2>1, Zenon DEF TransformUnsigned
    <3> QED BY <1>1, <1>6, <1>9, <1>10, <2>1, <3>1, MakesRight, Zenon
  <2>2. CASE ~(n <= g)
    <3>1. TransformUnsigned(ValueOf(k, n), TRUE) = NullOpt
      BY <1>5, <1>7, <1>8, <2>2, Zenon DEF TransformUnsigned
    <3> QED BY <1>9, <2>2, <3>1, Zenon DEF Right
  <2> QED BY <2>1, <2>2
<1>12. Right(TransformUnsigned(ValueOf(k, n), FALSE), n)
  <2>1. CASE Fits(n, "kInt64")
    <3>1. TransformUnsigned(ValueOf(k, n), FALSE) = Int64(n)
      BY <1>5, <2>1, Zenon DEF TransformUnsigned
    <3> QED BY <1>1, <1>6, <2>1, <3>1, MakesRight, Zenon
  <2>2. CASE ~Fits(n, "kInt64")
    <3>1. TransformUnsigned(ValueOf(k, n), FALSE) = NullOpt
      BY <1>5, <2>2, Zenon DEF TransformUnsigned
    <3> QED BY <2>2, <3>1, Zenon DEF Right
  <2> QED BY <2>1, <2>2
<1> QED BY <1>8, <1>11, <1>12, Zenon

-----------------------------------------------------------------------------
(* A value keeps a number of its kind, and none that is not an integer. *)
Kept(v, n) ==
    \E k : /\ v = ValueOf(k, n) /\ n \in Int
           /\ (k \in Integral => Fits(n, k)) /\ (k \notin Integral => n = 0)

(* The value is the number it should be, or the number is beyond an int64_t. *)
ValueInv ==
    /\ meant \in Int /\ outcome \in {"value", "nullopt"}
    /\ outcome = "value" => Kept(value, meant)
    /\ outcome = "nullopt" => ~Fits(meant, "kInt64")

LEMMA ValueStarts == ValueInit => ValueInv
<1>. SUFFICES ASSUME ValueInit PROVE ValueInv
  OBVIOUS
<1>1. PICK k, n : /\ value = ValueOf(k, n)
                  /\ \/ k \in Integral /\ n \in Edges(k)
                     \/ k \notin Integral /\ n = 0
  <2>1. \/ \E k \in Integral : \E n \in Edges(k) : value = [kind |-> k, num |-> n]
        \/ \E k \in (HeldInline \cup HeldByPointer) \ Integral : value = [kind |-> k, num |-> 0]
    BY Zenon DEF ValueInit, Integral
  <2> QED BY <2>1, Zenon DEF ValueOf
<1>2. meant = n /\ outcome = "value"
  BY <1>1, ValueFields DEF ValueInit
<1>3. n \in Int /\ (k \in Integral => Fits(n, k)) /\ (k \notin Integral => n = 0)
  <2>1. CASE k \in Integral /\ n \in Edges(k)
    <3>1. Fits(n, k)
      BY <2>1, Zenon DEF Edges
    <3> QED BY <2>1, <3>1, FitsIs
  <2>2. CASE k \notin Integral /\ n = 0
    BY <2>2
  <2> QED BY <1>1, <2>1, <2>2, Zenon
<1>4. Kept(value, meant)
  BY <1>1, <1>2, <1>3, Zenon DEF Kept
<1> QED BY <1>2, <1>3, <1>4, Zenon DEF ValueInv

LEMMA CastKeeps ==
    ASSUME ValueInv, outcome = "value", NEW to \in Integral, Cast(to)
    PROVE  ValueInv'
<1>0. PICK k : /\ value = ValueOf(k, meant) /\ meant \in Int
               /\ (k \in Integral => Fits(meant, k)) /\ (k \notin Integral => meant = 0)
  BY Zenon DEF ValueInv, Kept
<1>1. PICK n \in Int : /\ value = ValueOf(k, n) /\ n = meant
                       /\ (k \in Integral => Fits(n, k)) /\ (k \notin Integral => n = 0)
  BY <1>0, Zenon
<1>2. value.kind = k /\ value.num = n
  BY ONLY <1>1, ValueFields
<1>3. k \in Integral /\ Fits(n, k)
  BY <1>1, <1>2, Zenon DEF Cast, IsInteger, Integral
<1>4. (IF IsSignedInt(value) THEN GetInteger(value) ELSE GetUnsignedInteger(value)) = n
  <2>1. CASE k \in SignedInts
    <3>1. "kInt64" \in Integral /\ "kInt64" \in SignedInts
      BY IntegralKinds
    <3>2. PICK h \in Nat \ {0}, g \in Nat \ {0} : h = HalfOf(k) /\ g = HalfOf("kInt64") /\ h <= g
      BY <1>3, <3>1, Limits, HalvesBelow
    <3>3. -h <= n /\ n < h
      BY <1>3, <2>1, <3>2, FitsIs
    <3>4. -g <= n /\ n < g
      BY ONLY <3>2, <3>3, n \in Int, h \in Nat \ {0}, g \in Nat \ {0}
    <3>5. Fits(n, "kInt64")
      BY <3>1, <3>2, <3>4, FitsIs
    <3>6. StaticCast(n, "kInt64") = n
      BY <3>1, <3>5, Casts
    <3> QED BY <1>2, <2>1, <3>6, Zenon DEF IsSignedInt, GetInteger
  <2>2. CASE k \notin SignedInts
    BY <1>2, <2>2, Zenon DEF IsSignedInt, GetUnsignedInteger
  <2> QED BY <2>1, <2>2
<1>5. PICK m \in Int : m = StaticCast(n, to) /\ Fits(m, to) /\ (Fits(n, to) => m = n)
  BY Casts
<1>6. value' = ValueOf(to, m) /\ outcome' = "value"
  BY <1>4, <1>5, Zenon DEF Cast, DoCastNumeric, ValueOf
<1>7. meant' = m
  <2>1. value'.num = m
    BY ONLY <1>6, ValueFields
  <2>2. Widens(k, to) => m = n
    BY <1>3, <1>5, WidensKeeps
  <2> QED BY <1>1, <1>2, <2>1, <2>2, Zenon DEF Cast
<1>8. Kept(value', meant')
  BY <1>5, <1>6, <1>7, Zenon DEF Kept
<1> QED BY <1>5, <1>6, <1>7, <1>8, Zenon DEF ValueInv

(* A value transformed rightly. *)
LEMMA TransformRight ==
    ASSUME NEW k, NEW n \in Int, k \in Integral, Fits(n, k)
    PROVE  /\ Right(TransformNumeric(ValueOf(k, n), TRUE), -n)
           /\ Right(TransformNumeric(ValueOf(k, n), FALSE), n)
<1>1. PICK v : v = ValueOf(k, n)
  OBVIOUS
<1>2. v.kind = k
  BY ONLY <1>1, ValueFields
<1>3. IsInteger(v) /\ (IsSignedInt(v) <=> k \in SignedInts)
  BY <1>2, Zenon DEF IsInteger, IsSignedInt, Integral
<1>4. CASE k \in SignedInts
  <2>1. TransformNumeric(v, TRUE) = TransformSigned(v, TRUE) /\ TransformNumeric(v, FALSE) = v
    BY <1>3, <1>4, Zenon DEF TransformNumeric, TransformSigned
  <2>2. Right(TransformSigned(v, TRUE), -n)
    BY <1>1, <1>4, SignedNegated, Zenon
  <2>3. Right(v, n)
    BY <1>1, MakesRight, Zenon
  <2> QED BY <1>1, <2>1, <2>2, <2>3, Zenon
<1>5. CASE k \notin SignedInts
  <2>1. /\ TransformNumeric(v, TRUE) = TransformUnsigned(v, TRUE)
        /\ TransformNumeric(v, FALSE) = TransformUnsigned(v, FALSE)
    BY <1>3, <1>5, Zenon DEF TransformNumeric
  <2>2. k \in UnsignedInts
    BY <1>5, IntegralKinds, Zenon
  <2> QED BY <1>1, <2>1, <2>2, UnsignedTransformed, Zenon
<1> QED BY <1>4, <1>5, Zenon

LEMMA Rightly ==
    ASSUME NEW m \in Int, NEW r, Right(r, m), meant' = m, outcome = "value",
           IF r = NullOpt THEN outcome' = "nullopt" /\ UNCHANGED value
           ELSE value' = r /\ UNCHANGED outcome
    PROVE  ValueInv'
<1>1. CASE r = NullOpt
  <2>1. ~Fits(m, "kInt64") /\ outcome' = "nullopt"
    BY <1>1, Zenon DEF Right
  <2> QED BY <2>1 DEF ValueInv
<1>2. CASE r # NullOpt
  <2>1. PICK k \in Integral : r = ValueOf(k, m) /\ Fits(m, k)
    BY <1>2, Zenon DEF Right
  <2>2. value' = r /\ outcome' = "value"
    BY <1>2, Zenon
  <2>3. Kept(value', meant')
    BY <2>1, <2>2, Zenon DEF Kept
  <2> QED BY <2>2, <2>3, Zenon DEF ValueInv
<1> QED BY <1>1, <1>2, Zenon

LEMMA TransformKeeps ==
    ASSUME ValueInv, NEW negate \in BOOLEAN, Transform(negate)
    PROVE  ValueInv'
<1>1. outcome = "value"
  BY Zenon DEF Transform
<1>0. PICK k : /\ value = ValueOf(k, meant) /\ meant \in Int
               /\ (k \in Integral => Fits(meant, k)) /\ (k \notin Integral => meant = 0)
  BY <1>1, Zenon DEF ValueInv, Kept
<1>2. PICK n \in Int : /\ value = ValueOf(k, n) /\ n = meant
                       /\ (k \in Integral => Fits(n, k)) /\ (k \notin Integral => n = 0)
  BY <1>0, Zenon
<1>3. PICK m \in Int : m = -n /\ (n = 0 => m = n)
  <2>1. \A o \in Int : -o \in Int /\ (o = 0 => -o = o)
    OBVIOUS
  <2> QED BY <2>1, Zenon
<1>4. PICK r : r = TransformNumeric(value, negate)
  OBVIOUS
<1>5. IF r = NullOpt THEN outcome' = "nullopt" /\ UNCHANGED value ELSE value' = r /\ UNCHANGED outcome
  BY <1>4, Zenon DEF Transform
<1>6. (negate = TRUE /\ meant' = m) \/ (negate = FALSE /\ meant' = n)
  <2>1. meant' = IF negate THEN m ELSE n
    BY <1>2, <1>3, Zenon DEF Transform
  <2> QED BY <2>1, Zenon
<1>7. CASE k \in Integral
  <2>1. Right(TransformNumeric(value, TRUE), m) /\ Right(TransformNumeric(value, FALSE), n)
    BY <1>2, <1>3, <1>7, TransformRight, Zenon
  <2>2. Right(r, meant') /\ meant' \in Int
    BY <1>3, <1>4, <1>6, <2>1, Zenon
  <2> QED BY <1>1, <1>5, <2>2, Rightly, Zenon
<1>8. CASE k \notin Integral
  <2>1. value.kind = k
    BY ONLY <1>2, ValueFields
  <2>2. r = value
    BY <1>4, <1>8, <2>1, Zenon DEF TransformNumeric, IsInteger, Integral
  <2>3. meant' = n
    BY <1>2, <1>3, <1>6, <1>8, Zenon
  <2>4. value' = value /\ outcome' = "value"
    <3>1. k # "nullopt"
      <4>1. "nullopt" \notin Integral \cup {"kFloat32", "kFloat64"}
        BY DEF Integral, SignedInts, UnsignedInts
      <4>2. k \in Integral \cup {"kFloat32", "kFloat64"}
        BY <2>1 DEF Transform, IsNumeric, IsInteger, Integral
      <4> QED BY <4>1, <4>2, Zenon
    <3>2. NullOpt = ValueOf("nullopt", 0)
      BY DEF NullOpt, ValueOf
    <3>3. value # NullOpt
      BY ONLY <1>2, <3>1, <3>2, ValueFields
    <3> QED BY <1>1, <1>5, <2>2, <3>3, Zenon
  <2>5. Kept(value', meant')
    BY <1>2, <1>8, <2>3, <2>4, Zenon DEF Kept
  <2> QED BY <2>3, <2>4, <2>5, Zenon DEF ValueInv
<1> QED BY <1>7, <1>8, Zenon

(* For every number of bits of a byte: whatever literals are given signs   *)
(* and whatever casts are made between, transformNumeric makes the number  *)
(* itself or nothing, and nothing only for what no int64_t holds.          *)
THEOREM NumbersKept == ValueSpec => []NumberKept
<1>1. ValueInv => NumberKept
  <2>. SUFFICES ASSUME ValueInv PROVE NumberKept
    OBVIOUS
  <2>1. CASE outcome = "nullopt"
    BY <2>1, Zenon DEF ValueInv, NumberKept
  <2>2. CASE outcome # "nullopt"
    <3>1. PICK k : value = ValueOf(k, meant)
      BY <2>2, Zenon DEF ValueInv, Kept
    <3>2. value.num = meant
      BY ONLY <3>1, ValueFields
    <3> QED BY <2>2, <3>2, Zenon DEF NumberKept
  <2> QED BY <2>1, <2>2
<1>2. ValueInv /\ [ValueNext]_valueVars => ValueInv'
  <2>. SUFFICES ASSUME ValueInv, [ValueNext]_valueVars PROVE ValueInv'
    OBVIOUS
  <2>1. CASE UNCHANGED valueVars
    <3>1. value' = value /\ meant' = meant /\ outcome' = outcome
      BY <2>1 DEF valueVars
    <3> QED BY <3>1, Zenon DEF ValueInv
  <2>2. CASE outcome = "value" /\ \E to \in Integral : Cast(to)
    BY <2>2, CastKeeps, Zenon
  <2>3. CASE \E negate \in BOOLEAN : Transform(negate)
    BY <2>3, TransformKeeps, Zenon
  <2> QED BY <2>1, <2>2, <2>3, Zenon DEF ValueNext, Integral
<1> QED BY <1>1, <1>2, ValueStarts, PTL DEF ValueSpec

-----------------------------------------------------------------------------
(* The tables of kinds: the rows of the table of traits, as the properties *)
(* read them.                                                              *)
Uniform(t) == \A i \in 1 .. 4 : t.types[i] = t.types[1]

LEMMA FlagsRow ==
    ASSUME NEW f, NEW n1, NEW n2, NEW n3, NEW n4
    PROVE  LET t == Flags(f, n1, n2, n3, n4)
           IN  /\ t.flags = f
               /\ n1 # n2 => ~Uniform(t)
<1>1. PICK t : t = Flags(f, n1, n2, n3, n4)
  OBVIOUS
<1>2. t.flags = f /\ t.types = <<n1, n2, n3, n4>>
  BY <1>1 DEF Flags
<1>3. t.types[1] = n1 /\ t.types[2] = n2
  BY <1>2
<1>4. n1 # n2 => ~Uniform(t)
  BY <1>3 DEF Uniform
<1> QED BY <1>1, <1>2, <1>4

LEMMA PlainRow ==
    ASSUME NEW f, NEW name, NEW b
    PROVE  LET t == Plain(f, name, b)
           IN  t.flags = f \cup {"primitive", "fixed"} /\ t.bytes = b /\ Uniform(t)
<1>1. PICK t : t = Plain(f, name, b)
  OBVIOUS
<1>2. t.flags = f \cup {"primitive", "fixed"} /\ t.bytes = b /\ t.types = <<name, name, name, name>>
  BY <1>1 DEF Plain, Flags
<1>3. Uniform(t)
  BY <1>2 DEF Uniform
<1> QED BY <1>1, <1>2, <1>3

(* What the properties say of an inline kind's traits. *)
Small(t, numeric) ==
    /\ Uniform(t) /\ "fixed" \in t.flags /\ t.bytes <= 8
    /\ numeric <=> "numeric" \in t.flags

LEMMA NumericRow ==
    ASSUME NEW f, "numeric" \in f, NEW name, NEW b \in 1 .. 8, NEW p
    PROVE  Small([Plain(f, name, b) EXCEPT !.precision = p], TRUE)
<1>1. PICK t : t = [Plain(f, name, b) EXCEPT !.precision = p]
  OBVIOUS
<1>2. t.flags = f \cup {"primitive", "fixed"} /\ t.bytes = b /\ t.types = <<name, name, name, name>>
  BY <1>1 DEF Plain, Flags
<1>3. Uniform(t)
  BY <1>2 DEF Uniform
<1> QED BY <1>1, <1>2, <1>3 DEF Small

LEMMA OtherRow ==
    ASSUME NEW f, "numeric" \notin f, NEW name, NEW b \in 1 .. 8
    PROVE  Small(Plain(f, name, b), FALSE)
<1>1. PICK t : t = Plain(f, name, b)
  OBVIOUS
<1>2. t.flags = f \cup {"primitive", "fixed"} /\ t.bytes = b /\ Uniform(t)
  BY <1>1, PlainRow
<1> QED BY <1>1, <1>2 DEF Small

Numbers == Integral \cup {"kFloat32", "kFloat64"}

LEMMA NumberRows ==
    ASSUME NEW k \in Numbers
    PROVE  Small(TypeTraits[k], TRUE)
<1>1. /\ TypeTraits["kFloat32"] = FloatTraits("float", 4, 23)
      /\ TypeTraits["kFloat64"] = FloatTraits("double", 8, 52)
  BY DEF TypeTraits, Float32Traits, Float64Traits
<1>2. \E name, b, p : b \in 1 .. 8 /\ \/ TypeTraits[k] = SignedTraits(name, b)
                                      \/ TypeTraits[k] = UnsignedTraits(name, b)
                                      \/ TypeTraits[k] = FloatTraits(name, b, p)
  BY <1>1, TraitsOf DEF Numbers, Integral, SignedInts, UnsignedInts
<1>3. ASSUME NEW name, NEW b \in 1 .. 8, NEW p
      PROVE  /\ Small(SignedTraits(name, b), TRUE)
             /\ Small(UnsignedTraits(name, b), TRUE)
             /\ Small(FloatTraits(name, b, p), TRUE)
  BY NumericRow DEF SignedTraits, UnsignedTraits, FloatTraits
<1> QED BY <1>2, <1>3

LEMMA PlainRows ==
    ASSUME NEW k \in HeldInline \ Numbers
    PROVE  Small(TypeTraits[k], FALSE)
<1>1. /\ TypeTraits["kBool"] = Plain({}, "bool", 1)
      /\ TypeTraits["kDate"] = Plain({"refGetter", "temporal"}, "Date", 4)
      /\ TypeTraits["kLocalTime"] = Plain({"refGetter", "temporal"}, "LocalTime", 8)
      /\ TypeTraits["kZonedTime"] = Plain({"refGetter", "temporal"}, "ZonedTime", 8)
      /\ TypeTraits["kLocalDatetime"] = Plain({"refGetter", "temporal"}, "LocalDatetime", 8)
      /\ TypeTraits["kZonedDatetime"] = Plain({"refGetter", "temporal"}, "ZonedDatetime", 8)
  BY DEF TypeTraits, BoolTraits, DateTraits, LocalTimeTraits, ZonedTimeTraits, LocalDatetimeTraits, ZonedDatetimeTraits
<1>2. k \in {"kBool", "kDate", "kLocalTime", "kZonedTime", "kLocalDatetime", "kZonedDatetime"}
  BY DEF HeldInline, Numbers, Integral, SignedInts, UnsignedInts
<1>3. \E f, name, b : "numeric" \notin f /\ b \in 1 .. 8 /\ TypeTraits[k] = Plain(f, name, b)
  <2>1. "numeric" \notin {} /\ "numeric" \notin {"refGetter", "temporal"} /\ 1 \in 1 .. 8 /\ 4 \in 1 .. 8 /\ 8 \in 1 .. 8
    OBVIOUS
  <2>2. CASE k = "kBool"
    BY ONLY <1>1, <2>1, <2>2, Zenon
  <2>3. CASE k = "kDate"
    BY ONLY <1>1, <2>1, <2>3, Zenon
  <2>4. CASE k \in {"kLocalTime", "kZonedTime", "kLocalDatetime", "kZonedDatetime"}
    <3>1. \E name : TypeTraits[k] = Plain({"refGetter", "temporal"}, name, 8)
      BY ONLY <1>1, <2>4, Zenon
    <3> QED BY ONLY <2>1, <3>1, Zenon
  <2> QED BY <1>2, <2>2, <2>3, <2>4
<1> QED BY <1>3, OtherRow

(* Kinds that are not kept in the value: no two of the first two types are *)
(* the same, but for references and durations.                             *)
LEMMA PointerRows ==
    ASSUME NEW k \in HeldByPointer
    PROVE  /\ ~("fixed" \in TypeTraits[k].flags /\ TypeTraits[k].bytes <= 8 /\ Uniform(TypeTraits[k]))
           /\ "numeric" \notin TypeTraits[k].flags
<1>1. /\ TypeTraits["kNode"] = Flags({"refGetter"}, "Node", "NodeView", "NodeWriter", "NodeHeader")
      /\ TypeTraits["kEdge"] = Flags({"refGetter"}, "Edge", "EdgeView", "EdgeWriter", "EdgeHeader")
      /\ TypeTraits["kBytes"] = Flags({"primitive", "refGetter"}, "String", "StringView", "StringWriter", "StringView")
      /\ TypeTraits["kString"] = Flags({"primitive", "refGetter"}, "String", "StringView", "StringWriter", "StringView")
      /\ TypeTraits["kList"] = Flags({"refGetter"}, "List", "ListView", "ListWriter", "ListHeader")
      /\ TypeTraits["kPath"] = Flags({"refGetter"}, "Path", "PathView", "PathWriter", "PathHeader")
      /\ TypeTraits["kRecord"] = Flags({"refGetter"}, "Record", "RecordView", "RecordWriter", "Unit")
      /\ TypeTraits["kNull"] = Flags({"refGetter", "fixed"}, "NullValue", "NullView", "NullWriter", "Unit")
  BY DEF TypeTraits, NodeTraits, EdgeTraits, BytesTraits, StringTraits, ListTraits, PathTraits, RecordTraits, NullTraits
<1>2. /\ TypeTraits["kRef"] = [Flags({}, "Ref", "Ref", "Ref", "Ref") EXCEPT !.bytes = 8]
      /\ TypeTraits["kDuration"] = Plain({"refGetter", "temporal"}, "Duration", 16)
  BY DEF TypeTraits, RefTraits, DurationTraits
<1>3. CASE k \notin {"kRef", "kDuration"}
  <2>1. \E f, n1, n2, n3, n4 : "numeric" \notin f /\ n1 # n2 /\ TypeTraits[k] = Flags(f, n1, n2, n3, n4)
    BY <1>1, <1>3 DEF HeldByPointer
  <2> QED BY <2>1, FlagsRow
<1>4. CASE k = "kRef"
  <2>1. TypeTraits[k].flags = {}
    BY <1>2, <1>4 DEF Flags
  <2> QED BY <1>4, <2>1
<1>5. CASE k = "kDuration"
  <2>1. TypeTraits[k].flags = {"refGetter", "temporal"} \cup {"primitive", "fixed"} /\ TypeTraits[k].bytes = 16
    BY <1>2, <1>5, PlainRow
  <2> QED BY <1>5, <2>1
<1> QED BY <1>3, <1>4, <1>5

LEMMA Dispatched ==
    ASSUME NEW k \in HeldInline \cup HeldByPointer
    PROVE  /\ k \in TypeDispatch
           /\ k # "kBytes" => k \in PhysicalTypeWithAnyDispatch
           /\ k \in PropertyTypeDispatch => k \in PhysicalTypeWithAnyDispatch
<1>1. k \in TypeDispatch
  BY DEF TypeDispatch, Kinds, KindCode, HeldInline, HeldByPointer
<1>2. k # "kInvalid" /\ k # "kAny"
  BY DEF HeldInline, HeldByPointer
<1> QED BY <1>1, <1>2 DEF PropertyTypeDispatch, PhysicalTypeWithAnyDispatch, PhysicalTypeDispatch

LEMMA TablesAgree ==
    ASSUME NEW k \in HeldInline \cup HeldByPointer
    PROVE  /\ k \in HeldInline <=> /\ IsFixedWidth(k) = "true" /\ TypeTraits[k].bytes <= 8
                                   /\ IsTrivialType(k) = "true"
           /\ UnableInline(k) => k \in HeldByPointer /\ k \notin HeldInline
           /\ k \in PropertyTypeDispatch => IsTrivialType(k) # "throws"
           /\ k \in Numbers <=> IsNumericType(k) = "true"
<1>1. k \in TypeDispatch /\ (k # "kBytes" => k \in PhysicalTypeWithAnyDispatch)
      /\ (k \in PropertyTypeDispatch => k \in PhysicalTypeWithAnyDispatch)
  BY Dispatched
<1>2. /\ IsFixedWidth(k) = "true" <=> "fixed" \in TypeTraits[k].flags
      /\ IsNumericType(k) = "true" <=> "numeric" \in TypeTraits[k].flags
  BY <1>1 DEF IsFixedWidth, IsNumericType, Has, Dispatch
<1>3. /\ IsTrivialType(k) = "true" <=> k \in PhysicalTypeWithAnyDispatch /\ Uniform(TypeTraits[k])
      /\ IsTrivialType(k) = "throws" <=> k \notin PhysicalTypeWithAnyDispatch
  BY DEF IsTrivialType, Dispatch, Uniform
<1>4. UnableInline(k) => k \in HeldByPointer /\ k \notin HeldInline
  BY DEF UnableInline, HeldByPointer, HeldInline
<1>5. CASE k \in HeldInline
  <2>1. Uniform(TypeTraits[k]) /\ "fixed" \in TypeTraits[k].flags /\ TypeTraits[k].bytes <= 8
    BY <1>5, NumberRows, PlainRows DEF Small
  <2>2. k \in Numbers <=> "numeric" \in TypeTraits[k].flags
    BY <1>5, NumberRows, PlainRows DEF Small
  <2>3. k # "kBytes"
    BY <1>5 DEF HeldInline
  <2> QED BY <1>1, <1>2, <1>3, <1>4, <1>5, <2>1, <2>2, <2>3
<1>6. CASE k \notin HeldInline
  <2>1. k \in HeldByPointer
    BY <1>6
  <2>2. "numeric" \notin TypeTraits[k].flags
    BY <2>1, PointerRows
  <2>3. k \notin Numbers
    BY <1>6 DEF HeldInline, Numbers, Integral, SignedInts, UnsignedInts
  <2>4. ~("fixed" \in TypeTraits[k].flags /\ TypeTraits[k].bytes <= 8 /\ Uniform(TypeTraits[k]))
    BY <2>1, PointerRows
  <2> QED BY <1>1, <1>2, <1>3, <1>4, <1>6, <2>2, <2>3, <2>4
<1> QED BY <1>5, <1>6

-----------------------------------------------------------------------------
(* A value is of one of the kinds that Value can hold. *)
HeldInv == \E k \in HeldInline \cup HeldByPointer : \E n : value = ValueOf(k, n)

LEMMA HeldNext == HeldInv /\ [ValueNext]_valueVars => HeldInv'
<1> SUFFICES ASSUME HeldInv, [ValueNext]_valueVars PROVE HeldInv'
  OBVIOUS
<1>1. PICK k \in HeldInline \cup HeldByPointer : \E n : value = ValueOf(k, n)
  BY DEF HeldInv
<1>a. PICK n : value = ValueOf(k, n)
  BY <1>1
<1>2. \A i \in Integral : i \in HeldInline \cup HeldByPointer
  BY DEF HeldInline, Integral, SignedInts, UnsignedInts
<1>3. CASE UNCHANGED valueVars
  <2>1. value' = value
    BY <1>3 DEF valueVars
  <2> QED BY <2>1, Zenon DEF HeldInv
<1>4. ASSUME NEW to \in Integral, Cast(to) PROVE HeldInv'
  <2>1. \E m : value' = [kind |-> to, num |-> m]
    BY <1>4, Zenon DEF Cast, DoCastNumeric
  <2> QED BY <1>2, <2>1, Zenon DEF HeldInv, ValueOf
<1>5. ASSUME NEW negate \in BOOLEAN, Transform(negate) PROVE HeldInv'
  <2>1. PICK r : r = TransformNumeric(value, negate)
    OBVIOUS
  <2>2. value' = value \/ (value' = r /\ r # NullOpt)
    BY <1>5, <2>1, Zenon DEF Transform
  <2>3. r = NullOpt \/ \E i \in HeldInline \cup HeldByPointer : \E m : r = ValueOf(i, m)
    <3>1. \A m : Int64(m) = ValueOf("kInt64", m) /\ "kInt64" \in HeldInline
      BY DEF Int64, ValueOf, HeldInline
    <3>2. UnaryMinus(value) # Null => \E m : UnaryMinus(value) = ValueOf(k, m)
      <4>1. PICK x : x = -value.num
        OBVIOUS
      <4>2. UnaryMinus(value) # Null => UnaryMinus(value) = [value EXCEPT !.num = x]
        BY <4>1, Zenon DEF UnaryMinus
      <4>3. [ValueOf(k, n) EXCEPT !.num = x] = ValueOf(k, x)
        BY ONLY ValueFields
      <4> QED BY <1>a, <4>2, <4>3, Zenon
    <3>3. r = value \/ r = NullOpt \/ (UnaryMinus(value) # Null /\ r = UnaryMinus(value)) \/ \E m : r = Int64(m)
      BY <2>1, Zenon DEF TransformNumeric, TransformSigned, TransformUnsigned
    <3> QED BY <1>1, <3>1, <3>2, <3>3, Zenon
  <2> QED BY <1>1, <2>2, <2>3, Zenon DEF HeldInv
<1> QED BY <1>3, <1>4, <1>5, Zenon DEF ValueNext, Integral

(* Whatever casts and signs a value went through, the tables agree on its  *)
(* kind: it is in the value's own bytes exactly if it is trivial, of fixed *)
(* width and of at most eight bytes, it is behind a pointer if             *)
(* unableInline says so, and a kind that can be a property has a physical  *)
(* type (Value.h:38-70, ValueTypeKind.h:1385-1423).  That unableInline     *)
(* says so of every kind behind a pointer is not claimed: of Ref, Bytes    *)
(* and Null it does not.                                                   *)
THEOREM KindsAgree == ValueSpec => []ValueFitsItsKind
<1>1. ValueInit => HeldInv
  BY Zenon DEF ValueInit, HeldInv, ValueOf, HeldInline, SignedInts, UnsignedInts
<1>2. HeldInv => ValueFitsItsKind
  <2> SUFFICES ASSUME HeldInv PROVE ValueFitsItsKind
    OBVIOUS
  <2>1. PICK k \in HeldInline \cup HeldByPointer : \E n : value = ValueOf(k, n)
    BY DEF HeldInv
  <2>a. PICK n : value = ValueOf(k, n)
    BY <2>1
  <2>2. value.kind = k
    BY ONLY <2>a, ValueFields
  <2>3. IsNumeric(value) <=> k \in Numbers
    BY <2>2 DEF IsNumeric, IsInteger, Numbers, Integral
  <2> QED BY <2>2, <2>3, TablesAgree, Zenon DEF ValueFitsItsKind
<1> QED BY <1>1, <1>2, HeldNext, PTL DEF ValueSpec
=============================================================================
