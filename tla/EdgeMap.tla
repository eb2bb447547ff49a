------------------------------- MODULE EdgeMap -------------------------------
(***************************************************************************)
(* ComputingAlgorithm::edgeMap (ComputingAlgorithm.h), in its sparse and   *)
(* its dense form, driven as the breadth-first search of the developer     *)
(* guide (include/nebula/computing/README.md) drives it: while the         *)
(* frontier is not empty, frontier = edgeMap(frontier, m, c).              *)
(*                                                                         *)
(* The tasks test the filters, apply m and record the target in three      *)
(* steps of which others may come in between.  The value that r folds for  *)
(* a target starts uninitialised and is discarded, so r is left out.       *)
(***************************************************************************)
EXTENDS Integers, FiniteSets, SplitTasks

CONSTANTS
    Node,
    Out,                \* the edges in direction dir, as pairs
    Passes,             \* the pairs for which the edge filter f is true
    ThresholdParam      \* kThresholdParam

ASSUME MapAssumption ==
    /\ IsFiniteSet(Node)
    /\ Out \subseteq Node \X Node
    /\ Passes \subseteq Node \X Node
    /\ ThresholdParam \in Nat \ {0}

VARIABLES
    search,     \* TRUE: the search, with c = BFS::cond; FALSE: one call, with
                \* c = alwaysReturnTrue (input, never assigned)
    srcId,      \* the source of the search (input, never assigned)
    distance,   \* state(v).distance
    u,          \* the frontier
    pc,         \* where the calling thread is
    pairs,      \* sparse form: the edges no task has taken up yet
    verts,      \* dense form: the vertices no task has taken up yet
    tested,     \* pairs that passed f and c, before m is applied
    applied,    \* pairs that m was applied to in this call (history)
    res         \* the vertices the map has recorded

vars == <<search, srcId, distance, u, pc, pairs, verts, tested, applied, res>>

Nbrs(v) == {d \in Node : <<v, d>> \in Out}
InNbrs(v) == {s \in Node : <<s, v>> \in Out}

(* Mutant: a condition that is met for ever. *)
CAlways(v) == TRUE

(* BFS::cond *)
C(v) == search => distance[v] = -1

(* BFS::update: casOp(&state(dst).distance, -1, state(src).distance + 1). *)
M(s, d) ==
    distance' = IF distance[d] = -1
                THEN [distance EXCEPT ![d] = distance[s] + 1]
                ELSE distance
-----------------------------------------------------------------------------
Init ==
    /\ search \in BOOLEAN
    /\ srcId \in Node
    /\ distance = [v \in Node |-> IF v = srcId THEN 0 ELSE -1]
    /\ IF search THEN u = {srcId} ELSE u \in SUBSET Node \ {{}}
    /\ pc = "loop"
    /\ pairs = {}
    /\ verts = {}
    /\ tested = {}
    /\ applied = {}
    /\ res = {}

(* while (!frontier.empty()), and which form edgeMap takes. *)
IsDense == Cardinality(u) > Cardinality(Node) \div ThresholdParam

StartSparse ==
    /\ pc = "loop"
    /\ u # {}
    /\ ~IsDense
    /\ pairs' = {e \in Out : e[1] \in u}
    /\ applied' = {}
    /\ res' = {}
    /\ pc' = "sparse"
    /\ UNCHANGED <<search, srcId, distance, u, verts, tested>>

(* Mutant: the dense form goes through u instead of all nodes. *)
StartDenseInside ==
    /\ pc = "loop"
    /\ u # {}
    /\ IsDense
    /\ verts' = u
    /\ applied' = {}
    /\ res' = {}
    /\ pc' = "dense"
    /\ UNCHANGED <<search, srcId, distance, u, pairs, tested>>

StartDense ==
    /\ pc = "loop"
    /\ u # {}
    /\ IsDense
    /\ verts' = Node
    /\ applied' = {}
    /\ res' = {}
    /\ pc' = "dense"
    /\ UNCHANGED <<search, srcId, distance, u, pairs, tested>>

Stop ==
    /\ pc = "loop"
    /\ u = {}
    /\ pc' = "done"
    /\ UNCHANGED <<search, srcId, distance, u, pairs, verts, tested, applied, res>>

(* A source is handled by one task unless it has so many neighbours that   *)
(* they get a parallelReduce of their own; sources share the tasks of      *)
(* parallelFor.  n is the number of tasks of the outer call.               *)
Heavy(s) == Cardinality(Nbrs(s)) > ParallelThreshold
MayTake(s, n) ==
    Heavy(s) \/ /\ \A e \in tested : e[1] # s
                /\ Cardinality({e \in tested : ~Heavy(e[1])}) < n

(* vFilter of edgeMapSparse: f(srcId, dstId) && c(dstId). *)
TestSparse(s, d) ==
    /\ pc = "sparse"
    /\ <<s, d>> \in pairs
    /\ MayTake(s, NumTasks(Cardinality(u)))
    /\ pairs' = pairs \ {<<s, d>>}
    /\ tested' = IF <<s, d>> \in Passes /\ C(d) THEN tested \cup {<<s, d>>}
                 ELSE tested
    /\ UNCHANGED <<search, srcId, distance, u, pc, verts, applied, res>>

(* Mutant: without the edge filter. *)
CandidatesUnfiltered(v) == InNbrs(v) \cap u

(* filter of edgeMapDense: vertex v leaves when c(v) is false or when no   *)
(* neighbour is in u and passes f; otherwise it takes the first that does, *)
(* in the order of the neighbour list, and breaks.                         *)
Candidates(v) == {t \in InNbrs(v) \cap u : <<t, v>> \in Passes}

TestDense(t, v) ==
    /\ pc = "dense"
    /\ v \in verts
    /\ Cardinality(tested) < NumTasks(Cardinality(Node))
    /\ C(v)
    /\ t \in Candidates(v)
    /\ verts' = verts \ {v}
    /\ tested' = tested \cup {<<t, v>>}
    /\ UNCHANGED <<search, srcId, distance, u, pc, pairs, applied, res>>

SkipDense(v) ==
    /\ pc = "dense"
    /\ v \in verts
    /\ ~C(v) \/ Candidates(v) = {}
    /\ verts' = verts \ {v}
    /\ UNCHANGED <<search, srcId, distance, u, pc, pairs, tested, applied, res>>

(* m(s, d), then res.push_back(d). *)
Apply(s, d) ==
    /\ <<s, d>> \in tested
    /\ M(s, d)
    /\ tested' = tested \ {<<s, d>>}
    /\ applied' = applied \cup {<<s, d>>}
    /\ res' = res \cup {d}
    /\ UNCHANGED <<search, srcId, u, pc, pairs, verts>>

(* runOnCurrentThread returns: the vertices recorded are the new frontier. *)
(* A client without cond makes one call.                                   *)
Returning ==
    /\ pc \in {"sparse", "dense"}
    /\ pairs = {} /\ verts = {} /\ tested = {}

Return ==
    /\ Returning
    /\ u' = IF search THEN res ELSE {}
    /\ pc' = "loop"
    /\ UNCHANGED <<search, srcId, distance, pairs, verts, tested, applied, res>>

Next ==
    \/ StartSparse \/ StartDense \/ Stop \/ Return
    \/ \E s, d \in Node : TestSparse(s, d) \/ TestDense(s, d) \/ Apply(s, d)
    \/ \E v \in Node : SkipDense(v)

Spec == Init /\ [][Next]_vars
FairSpec == Spec /\ WF_vars(Next)
-----------------------------------------------------------------------------
(* The reference: the vertices at most k edges away from the source. *)
Ball ==
    LET B[k \in Nat] ==
          IF k = 0 THEN {srcId}
          ELSE B[k - 1] \cup {d \in Node :
                   \E s \in B[k - 1] : <<s, d>> \in Out \cap Passes}
    IN  B

(* Sparse or dense, in whatever order the tasks race: when the search is   *)
(* complete, the distance of each vertex to the source is calculated       *)
(* (README.md of the computing headers), and -1 is left on the vertices    *)
(* that the source does not reach.                                         *)
DistancesRight ==
    (search /\ pc = "done") =>
        \A v \in Node :
            /\ distance[v] = -1 => v \notin Ball[Cardinality(Node)]
            /\ distance[v] = 0 => v = srcId
            /\ distance[v] > 0 => v \in Ball[distance[v]] \ Ball[distance[v] - 1]

(* The two forms find the same targets: those with an edge from u that     *)
(* passes f.  M was applied to such edges only and at least once for each  *)
(* target (the dense form stops at the first, so to aggregate "each        *)
(* M(s,d)", README.md of the computing headers, is not what it does).      *)
TargetsRight ==
    (Returning /\ ~search) =>
        LET passing == {e \in Out \cap Passes : e[1] \in u}
        IN  /\ res = {e[2] : e \in passing}
            /\ applied \subseteq passing
            /\ res = {e[2] : e \in applied}

(* The search ends. *)
SearchEnds == <>(pc = "done")
=============================================================================
