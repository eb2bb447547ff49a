------------------------------- MODULE EdgeIDs -------------------------------
(***************************************************************************)
(* The identifiers of edges: EdgeUtils, which keeps the direction of an    *)
(* edge in the two highest bits of its type, and EdgeID, which names an    *)
(* edge as seen from one of its ends.  A program walks over edges,         *)
(* turns the identifier it has, and collects identifiers in an EdgeIDSet.  *)
(***************************************************************************)
EXTENDS Integers, FiniteSets

CONSTANTS TypeBits,   \* kEdgeTypeMoveBits, the bits of a type below its direction
          Types,      \* type ids of the catalog, whose direction bits are 0
          Nodes,      \* node ids
          Ranks,      \* edge ranks
          Graphs,     \* graph ids
          MaxHeld     \* bound on the size of the set

\* (That a power of two is a positive number is stated for the provers.)
ASSUME EdgeIDAssumption ==
    /\ TypeBits \in Nat /\ 2 ^ TypeBits \in Nat \ {0}
    /\ Types \subseteq 0 .. 2 ^ TypeBits - 1
    /\ Nodes \subseteq Int /\ Ranks \subseteq Int /\ Graphs \subseteq Int

VARIABLES id,         \* the EdgeID at hand
          followed,   \* the EdgeDirection last followed, or "none"
          held        \* an EdgeIDSet

edgeVars == <<id, followed, held>>

-----------------------------------------------------------------------------
(* EdgeUtils.  A type id is the unsigned number of its bits.               *)

Shift == 2 ^ TypeBits

DirectionBits(t) == t \div Shift
RemoveDirection(t) == t % Shift
IsLegalEdgeTypeID(t) == DirectionBits(t) = 0

\* The bitwise or of the direction bits and b.  The callers assert that the former are 0.
SetDirection(t, b) ==
    LET d == DirectionBits(t)
    IN  RemoveDirection(t) + Shift * (IF d = 0 \/ d = b THEN b ELSE 3)

Outgoing(t) == RemoveDirection(t)
Incoming(t) == SetDirection(t, 1)
Undirected0(t) == SetDirection(t, 2)
Undirected1(t) == SetDirection(t, 3)

IsOutgoing(t) == DirectionBits(t) = 0
IsIncoming(t) == DirectionBits(t) = 1
IsUndirected0(t) == DirectionBits(t) = 2
IsUndirected1(t) == DirectionBits(t) = 3
IsDirected(t) == DirectionBits(t) < 2
IsOutgoingOrUndirected0(t) == DirectionBits(t) % 2 = 0
IsSameEdgeType(t1, t2) == RemoveDirection(t1) = RemoveDirection(t2)

\* The lower of the two direction bits is flipped.
ReverseType(t) == IF DirectionBits(t) % 2 = 0 THEN t + Shift ELSE t - Shift

EdgeDirections ==
    {"PointingLeft", "PointingRight", "Undirected", "LeftOrUndirected", "UndirectedOrRight",
     "LeftOrRight", "AnyDirection"}

HasLeft(d) == d \in {"PointingLeft", "LeftOrUndirected", "LeftOrRight", "AnyDirection"}
HasRight(d) == d \in {"PointingRight", "UndirectedOrRight", "LeftOrRight", "AnyDirection"}
HasUndirected(d) == d \in {"Undirected", "LeftOrUndirected", "UndirectedOrRight", "AnyDirection"}

\* Mutant of AllEdgeTypesFor: an undirected edge is only followed from its first end.
AllEdgeTypesForOneEnd(d, t) ==
    (IF HasLeft(d) THEN {Incoming(t)} ELSE {})
        \cup (IF HasRight(d) THEN {Outgoing(t)} ELSE {})
        \cup (IF HasUndirected(d) THEN {Undirected0(t)} ELSE {})

AllEdgeTypesFor(d, t) ==
    (IF HasLeft(d) THEN {Incoming(t)} ELSE {})
        \cup (IF HasRight(d) THEN {Outgoing(t)} ELSE {})
        \cup (IF HasUndirected(d) THEN {Undirected0(t), Undirected1(t)} ELSE {})

\* The marks in front of and behind a pattern's edge: an arrow head, a line.
EdgePrefix(d) ==
    [head |-> d \in {"PointingLeft", "LeftOrUndirected", "LeftOrRight"},
     line |-> IF d \in {"Undirected", "LeftOrUndirected", "UndirectedOrRight"} THEN "~" ELSE "-"]
EdgePostfix(d) ==
    [head |-> d \in {"PointingRight", "UndirectedOrRight", "LeftOrRight"},
     line |-> IF d \in {"Undirected", "LeftOrUndirected", "UndirectedOrRight"} THEN "~" ELSE "-"]

-----------------------------------------------------------------------------
(* EdgeID.                                                                 *)

SwapEnds(e) == [e EXCEPT !.srcID = e.dstID, !.dstID = e.srcID]

ToUndirected(e) == [e EXCEPT !.edgeTypeID = Undirected0(RemoveDirection(@))]

ReverseID(e) == [SwapEnds(e) EXCEPT !.edgeTypeID = ReverseType(@)]

Standardized(e) ==
    LET bare == [e EXCEPT !.edgeTypeID = RemoveDirection(@)]
    IN  IF IsOutgoing(e.edgeTypeID) THEN bare
        ELSE IF IsIncoming(e.edgeTypeID) THEN SwapEnds(bare)
        ELSE IF e.srcID >= e.dstID THEN SwapEnds(ToUndirected(e))
        ELSE ToUndirected(e)

SameEnds(a, b) == a.srcID = b.srcID /\ a.dstID = b.dstID

\* operator==
EqualIDs(a, b) ==
    /\ a.graphID = b.graphID
    /\ IsDirected(a.edgeTypeID) = IsDirected(b.edgeTypeID)
    /\ IsSameEdgeType(a.edgeTypeID, b.edgeTypeID)
    /\ a.rank = b.rank
    /\ IF IsDirected(a.edgeTypeID)
       THEN IF IsOutgoing(a.edgeTypeID) = IsOutgoing(b.edgeTypeID)
            THEN SameEnds(a, b) ELSE SameEnds(a, SwapEnds(b))
       ELSE SameEnds(a, b) \/ SameEnds(a, SwapEnds(b))

\* An EdgeTypeID is an int32_t: with the highest bit set it is negative.
SignedType(t) == IF t >= 2 * Shift THEN t - 4 * Shift ELSE t

\* operator<, lexicographic.
LessID(a, b) ==
    LET key(e) == <<e.graphID, e.srcID, e.dstID, SignedType(e.edgeTypeID), e.rank>>
    IN  \E i \in 1 .. 5 : key(a)[i] < key(b)[i] /\ \A j \in 1 .. i - 1 : key(a)[j] = key(b)[j]

\* Mutant of HashID: the ends are hashed as they are.
HashIDAsIs(e) == [e EXCEPT !.edgeTypeID = RemoveDirection(@)]

\* std::hash: a hash of the standardized fields, which stand for it here.
HashID(e) == Standardized(e)

-----------------------------------------------------------------------------
NewIDs ==
    [srcID : Nodes, dstID : Nodes, rank : Ranks, graphID : Graphs,
     edgeTypeID : UNION {AllEdgeTypesFor("AnyDirection", t) : t \in Types}]

EdgeInit ==
    /\ id \in NewIDs
    /\ followed = "none"
    /\ held = {}

ReverseEdge ==
    /\ id' = ReverseID(id)
    /\ UNCHANGED <<followed, held>>

Standardize ==
    /\ id' = Standardized(id)
    /\ UNCHANGED <<followed, held>>

MakeUndirected ==
    /\ id' = ToUndirected(id)
    /\ followed' = "none"
    /\ UNCHANGED held

\* The next edge of the same type in direction d.
Follow(d, e) ==
    /\ e.edgeTypeID \in AllEdgeTypesFor(d, RemoveDirection(id.edgeTypeID))
    /\ id' = e
    /\ followed' = d
    /\ UNCHANGED held

\* Insertion into an unordered set looks for an equal identifier of the same hash.
Insert ==
    /\ Cardinality(held) < MaxHeld
    /\ held' = IF \E e \in held : HashID(e) = HashID(id) /\ EqualIDs(e, id)
               THEN held ELSE held \cup {id}
    /\ UNCHANGED <<id, followed>>

EdgeNext ==
    \/ ReverseEdge
    \/ Standardize
    \/ MakeUndirected
    \/ \E d \in EdgeDirections, e \in NewIDs : Follow(d, e)
    \/ Insert

EdgeSpec == EdgeInit /\ [][EdgeNext]_edgeVars

-----------------------------------------------------------------------------
\* What an identifier names: an edge from one node to another, or between two.
Named(e) ==
    LET d == DirectionBits(e.edgeTypeID)
    IN  [directed |-> d < 2,
         ends     |-> IF d = 0 THEN {<<e.srcID, e.dstID>>}
                      ELSE IF d = 1 THEN {<<e.dstID, e.srcID>>}
                      ELSE {<<e.srcID, e.dstID>>, <<e.dstID, e.srcID>>},
         where    |-> <<e.graphID, e.rank, e.edgeTypeID % Shift>>]

\* The set has one identifier of an edge however often the edge was met and from which end
\* (EdgeID.h:60-87 against the hash at :166-173).  And "After standardization, the edge id could
\* compare byte by byte" (EdgeID.h:28-29): identifiers are equal when their standard forms are, and
\* between two standard forms that differ, exactly one is less.  (Of identifiers that are not
\* standardized, operator< may order two that are equal.)
OneIdPerEdge ==
    /\ \A a, b \in held : Named(a) = Named(b) => a = b
    /\ \A a, b \in held \cup {id, ReverseID(id)} :
           LET sa == Standardized(a)
               sb == Standardized(b)
           IN  /\ EqualIDs(a, b) <=> sa = sb
               /\ EqualIDs(a, b) <=> Named(a) = Named(b)
               /\ sa # sb => (LessID(sa, sb) <=> ~LessID(sb, sa))

\* left and right exchanged
Mirrored(d) ==
    CASE d = "PointingLeft" -> "PointingRight"
      [] d = "PointingRight" -> "PointingLeft"
      [] d = "LeftOrUndirected" -> "UndirectedOrRight"
      [] d = "UndirectedOrRight" -> "LeftOrUndirected"
      [] OTHER -> d

\* An edge that was followed in a direction is found again from its other end in the mirrored one
\* (EdgeUtils.h:150-212), where the pattern's marks are mirrored too (:56-93).
SeenFromBothEnds ==
    followed # "none" =>
        LET t == RemoveDirection(id.edgeTypeID)
            turned == {ReverseType(x) : x \in AllEdgeTypesFor(followed, t)}
        IN  /\ turned = AllEdgeTypesFor(Mirrored(followed), t)
            /\ IsLegalEdgeTypeID(t)
            /\ EdgePrefix(Mirrored(followed)) = EdgePostfix(followed)
            /\ \A x \in turned : IsOutgoingOrUndirected0(x) <=> IsOutgoing(x) \/ IsUndirected0(x)
            /\ \A x \in turned : IsUndirected1(x) <=> ~IsDirected(x) /\ ~IsUndirected0(x)
=============================================================================
