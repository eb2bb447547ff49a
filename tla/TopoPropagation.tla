--------------------------- MODULE TopoPropagation ---------------------------
(***************************************************************************)
(* The merge loop of NetworkTopoAlgorithm::run (NetworkTopoProcedure.cpp,  *)
(* lines 267-309).  Connectivity nodes (CN) carry a topology id,           *)
(* breakers and disconnectors (BD) carry the largest id seen next to them. *)
(* Every round pushes the ids of the frontier cnSet to the neighbouring    *)
(* switches, then from the closed switches back to their neighbours, until *)
(* a round raises no id.                                                   *)
(*                                                                         *)
(* The two maps of a round run on the thread pool.  A vertex is handled by *)
(* one task, a task handles one vertex at a time and several tasks run at  *)
(* once, so the steps of different switches interleave.  The update of a   *)
(* CN is three steps - compare, add, writeMax - because the code reads     *)
(* maxTopoID twice before its atomic write ("TODO(yee): data race").       *)
(* writeMax itself is one step: AtomicCells shows that its compare-and-    *)
(* swap loop implements that.                                              *)
(***************************************************************************)
EXTENDS Integers, FiniteSets, SplitTasks, Words

CONSTANTS
    CN,             \* connectivity nodes
    BD,             \* breakers and disconnectors
    Connected,      \* the connected_Breaker_CN / connected_Disconnector_CN edges
    Seeds,          \* the topology ids that seeding may leave on a CN
    CounterMod      \* sumCounter is an unsigned view of an int: it wraps here

ID == Word          \* int64_t

ASSUME GraphAssumption ==
    /\ Connected \subseteq CN \X BD
    /\ IsFiniteSet(Connected)

ASSUME SeedAssumption ==
    /\ Seeds \subseteq ID
    /\ \A v \in Seeds : v >= -1

\* A round has at most one increment per edge and a graph has fewer edges
\* than an int has values.
ASSUME CounterAssumption ==
    /\ CounterMod \in Nat \ {0, 1}
    /\ Cardinality(Connected) < CounterMod

VARIABLES
    closed,         \* the switches whose property point in the memory graph is 1
    cnOpenSub,      \* the frontier of the first round
    seed,           \* maxTopoID as seeding left it (history, never assigned)
    maxTopoID,      \* state(cn).maxTopoID
    maxBDID,        \* state(bd).maxBDID
    sumCounter,
    sumOldCounter,
    cnSet,
    bdSet,
    pc,             \* where the calling thread is in the loop
    todo,           \* pairs the map that is running has not handled yet
    compared,       \* pairs whose comparison held, before the addition
    summed,         \* pairs whose sum is computed, before writeMax
    newTopoId,      \* the task's local newTopoId, per switch it handles
    shared          \* two tasks were raising one CN at the same time (history)

graph == <<closed, cnOpenSub, seed>>
vars == <<closed, cnOpenSub, seed, maxTopoID, maxBDID, sumCounter,
          sumOldCounter, cnSet, bdSet, pc, todo, compared, summed, newTopoId,
          shared>>

-----------------------------------------------------------------------------
(* neighborIDs(s, bdLabels), from either side of the edge. *)
CNsOf(b) == {c \in CN : <<c, b>> \in Connected}
BDsOf(S) == {b \in BD : \E c \in S : <<c, b>> \in Connected}

(* Mutant: a raise that nobody counts. *)
IncrementLost(n) == n

(* ++ of an atomic_int. *)
Increment(n) == IF n = CounterMod - 1 THEN 0 ELSE n + 1

(* How many vertices of a subset the pool can be handling at one time. *)
Concurrency(vids) == NumTasks(Cardinality(vids))

-----------------------------------------------------------------------------
Init ==
    /\ closed \in SUBSET BD
    /\ cnOpenSub \in SUBSET CN
    /\ seed \in [CN -> Seeds]
    /\ maxTopoID = seed
    /\ maxBDID = [b \in BD |-> -1]
    /\ sumCounter = 0
    /\ sumOldCounter = 1
    /\ cnSet = cnOpenSub
    /\ bdSet = {}
    /\ pc = "test"
    /\ todo = {}
    /\ compared = {}
    /\ summed = {}
    /\ newTopoId = [b \in BD |-> 0]
    /\ shared = FALSE

(* Mutant: a round that does not remember the counter it starts from. *)
StartRoundForgets ==
    /\ pc = "test"
    /\ sumOldCounter # sumCounter
    /\ todo' = {e \in Connected : e[1] \in cnSet}
    /\ pc' = "toBD"
    /\ UNCHANGED <<graph, shared, maxTopoID, maxBDID, sumCounter, sumOldCounter, cnSet,
                   bdSet, compared, summed, newTopoId>>

(* while (sumOldCounter != sumCounter): enter a round, or leave the loop. *)
StartRound ==
    /\ pc = "test"
    /\ sumOldCounter # sumCounter
    /\ sumOldCounter' = sumCounter
    /\ todo' = {e \in Connected : e[1] \in cnSet}
    /\ pc' = "toBD"
    /\ UNCHANGED <<graph, shared, maxTopoID, maxBDID, sumCounter, cnSet, bdSet,
                   compared, summed, newTopoId>>

LeaveLoop ==
    /\ pc = "test"
    /\ sumOldCounter = sumCounter
    /\ pc' = "done"
    /\ UNCHANGED <<graph, shared, maxTopoID, maxBDID, sumCounter, sumOldCounter, cnSet,
                   bdSet, todo, compared, summed, newTopoId>>

(* First map: a task writes the id of CN c to a switch next to it.  No one *)
(* writes maxTopoID meanwhile, so its read is not a step of its own.       *)
PushToSwitch(c, b) ==
    /\ pc = "toBD"
    /\ <<c, b>> \in todo
    /\ maxBDID' = [maxBDID EXCEPT ![b] = Larger(@, maxTopoID[c])]
    /\ todo' = todo \ {<<c, b>>}
    /\ UNCHANGED <<graph, shared, maxTopoID, sumCounter, sumOldCounter, cnSet, bdSet,
                   pc, compared, summed, newTopoId>>

(* Mutant: without the early return for an open switch. *)
SwitchesReachedAnyPoint ==
    /\ pc = "toBD"
    /\ todo = {}
    /\ bdSet' = BDsOf(cnSet)
    /\ todo' = {e \in Connected : e[2] \in bdSet'}
    /\ pc' = "toCN"
    /\ UNCHANGED <<graph, shared, maxTopoID, maxBDID, sumCounter, sumOldCounter, cnSet,
                   compared, summed, newTopoId>>

(* The first map returns: its result is bdSet.  An open switch returns no  *)
(* neighbour from the second map, whatever id it holds.                    *)
SwitchesReached ==
    /\ pc = "toBD"
    /\ todo = {}
    /\ bdSet' = BDsOf(cnSet)
    /\ todo' = {e \in Connected : e[2] \in bdSet' \cap closed}
    /\ pc' = "toCN"
    /\ UNCHANGED <<graph, shared, maxTopoID, maxBDID, sumCounter, sumOldCounter, cnSet,
                   compared, summed, newTopoId>>

(* Second map: a task may take up the pair of switch b and CN c. *)
Running == {e[2] : e \in compared \cup summed}
MayHandle(c, b) ==
    /\ pc = "toCN"
    /\ <<c, b>> \in todo
    /\ b \notin Running
    /\ Cardinality(Running) < Concurrency(bdSet)

(* The raises of CN c that are under way, between comparison and writeMax. *)
Raisers(c) == {e \in compared \cup summed : e[1] = c}

(* Mutant: >= for >. *)
CompareHoldsOrEqual(c, b) ==
    /\ MayHandle(c, b)
    /\ maxBDID[b] >= maxTopoID[c]
    /\ sumCounter' = Increment(sumCounter)
    /\ todo' = todo \ {<<c, b>>}
    /\ compared' = compared \cup {<<c, b>>}
    /\ shared' = (shared \/ Raisers(c) # {})
    /\ UNCHANGED <<graph, maxTopoID, maxBDID, sumOldCounter, cnSet, bdSet, pc,
                   summed, newTopoId>>

(* if (state(s).maxBDID > state(t).maxTopoID) sumCounter++ *)
CompareHolds(c, b) ==
    /\ MayHandle(c, b)
    /\ maxBDID[b] > maxTopoID[c]
    /\ sumCounter' = Increment(sumCounter)
    /\ todo' = todo \ {<<c, b>>}
    /\ compared' = compared \cup {<<c, b>>}
    /\ shared' = (shared \/ Raisers(c) # {})
    /\ UNCHANGED <<graph, maxTopoID, maxBDID, sumOldCounter, cnSet, bdSet, pc,
                   summed, newTopoId>>

CompareFails(c, b) ==
    /\ MayHandle(c, b)
    /\ ~(maxBDID[b] > maxTopoID[c])
    /\ todo' = todo \ {<<c, b>>}
    /\ UNCHANGED <<graph, shared, maxTopoID, maxBDID, sumCounter, sumOldCounter, cnSet,
                   bdSet, pc, compared, summed, newTopoId>>

(* newTopoId = state(t).maxTopoID + state(s).maxBDID: the second read. *)
Add(c, b) ==
    /\ <<c, b>> \in compared
    /\ newTopoId' = [newTopoId EXCEPT ![b] = WrapAdd(maxTopoID[c], maxBDID[b])]
    /\ compared' = compared \ {<<c, b>>}
    /\ summed' = summed \cup {<<c, b>>}
    /\ UNCHANGED <<graph, shared, maxTopoID, maxBDID, sumCounter, sumOldCounter, cnSet,
                   bdSet, pc, todo>>

(* writeMax(&state(t).maxTopoID, newTopoId) *)
Publish(c, b) ==
    /\ <<c, b>> \in summed
    /\ maxTopoID' = [maxTopoID EXCEPT ![c] = Larger(@, newTopoId[b])]
    /\ summed' = summed \ {<<c, b>>}
    /\ UNCHANGED <<graph, shared, maxBDID, sumCounter, sumOldCounter, cnSet, bdSet, pc,
                   todo, compared, newTopoId>>

(* The second map returns: its result is the next frontier. *)
FrontierReached ==
    /\ pc = "toCN"
    /\ todo = {} /\ compared = {} /\ summed = {}
    /\ cnSet' = {c \in CN : \E b \in bdSet \cap closed : <<c, b>> \in Connected}
    /\ pc' = "test"
    /\ UNCHANGED <<graph, shared, maxTopoID, maxBDID, sumCounter, sumOldCounter, bdSet,
                   todo, compared, summed, newTopoId>>

Next ==
    \/ StartRound
    \/ LeaveLoop
    \/ SwitchesReached
    \/ FrontierReached
    \/ \E c \in CN, b \in BD :
          \/ PushToSwitch(c, b)
          \/ CompareHolds(c, b)
          \/ CompareFails(c, b)
          \/ Add(c, b)
          \/ Publish(c, b)

Spec == Init /\ [][Next]_vars

(* The caller and the pool's threads keep running: no step is left for     *)
(* ever while the run is under way.                                        *)
FairSpec == Spec /\ WF_vars(Next)
-----------------------------------------------------------------------------
TypeOK ==
    /\ closed \subseteq BD
    /\ cnOpenSub \subseteq CN
    /\ seed \in [CN -> Seeds]
    /\ maxTopoID \in [CN -> ID]
    /\ maxBDID \in [BD -> ID]
    /\ sumCounter \in 0 .. (CounterMod - 1)
    /\ sumOldCounter \in 0 .. (CounterMod - 1)
    /\ cnSet \subseteq CN
    /\ bdSet \subseteq BD
    /\ pc \in {"test", "toBD", "toCN", "done"}
    /\ todo \subseteq Connected
    /\ compared \subseteq Connected
    /\ summed \subseteq Connected
    /\ newTopoId \in [BD -> ID]
    /\ shared \in BOOLEAN

(* When the loop ends, no CN of the first frontier has a larger id than a  *)
(* CN on the other side of a closed switch; so two CNs of that frontier    *)
(* that a closed switch joins have the same id.  This is what the test     *)
(* sumOldCounter != sumCounter is for, and it must survive the race.       *)
ExitAgreement ==
    pc = "done" =>
        \A b \in closed : \A c \in CNsOf(b) \cap cnOpenSub, d \in CNsOf(b) :
            maxTopoID[c] <= maxTopoID[d]

(* No closed switch leads from a CN in I to a CN outside it. *)
Isolated(I) ==
    \A b \in closed : CNsOf(b) \subseteq I \/ CNsOf(b) \cap I = {}

(* Ids do not cross open switches: a set of CNs that no closed switch      *)
(* leaves, seeded with one id, keeps that id whatever the rest of the      *)
(* network does - although open switches collect ids from both their sides.*)
IslandsStayApart ==
    \A I \in SUBSET CN :
        (Isolated(I) /\ \A c, d \in I : seed[c] = seed[d])
            => \A c \in I : maxTopoID[c] = seed[c]

(* The CNs of I were seeded with 0 and one other id: there the addition of *)
(* two ids, the larger of which is not 0, is their maximum.                *)
ZeroOr(v, I) == \A c \in I : seed[c] \in {0, v}
MeantIds(I) == \A c \in I : maxTopoID[c] \in {seed[d] : d \in I}

(* The map functions of VertexSubset "must be thread-safe"                 *)
(* (VertexSubset.h): several tasks leave no id on an island that seeding   *)
(* did not leave there, if its seeds are 0 and one other id.               *)
OnlySeededIds ==
    \A I \in SUBSET CN, v \in Seeds \cap Nat :
        Isolated(I) /\ ZeroOr(v, I) => MeantIds(I)

(* An id that seeding left nowhere needs two tasks that raise the same CN  *)
(* at the same time: any other interleaving of the two maps is harmless.   *)
SeededUnlessShared == ~shared => OnlySeededIds

(* The islands that closed switches make of the network. *)
Island(I) ==
    /\ I # {} /\ Isolated(I)
    /\ \A J \in SUBSET I : J # {} /\ Isolated(J) => J = I

(* The loop ends when the seeds of each island are equal, or 0 and one     *)
(* other id - unless two tasks raised the same CN at the same time.  A CN  *)
(* that no device seeded has -1: only an island of such CNs may hold it.   *)
MergeableEnds ==
    (\A I \in SUBSET CN : Island(I) =>
        \/ \A c, d \in I : seed[c] = seed[d]
        \/ \E v \in Seeds \cap Nat : ZeroOr(v, I))
      => <>(pc = "done" \/ shared)

(* The loop ends, so that the results of the run can be returned. *)
Termination == <>(pc = "done")
-----------------------------------------------------------------------------
(* The inductive invariants of the proofs in TopoPropagationProofs. *)

(* The second map works on closed switches only. *)
ClosedOnly ==
    /\ pc = "toCN" => \A e \in todo : e[2] \in closed
    /\ \A e \in compared \cup summed : e[2] \in closed

(* A uniform island: its ids are its seeds, no closed switch next to it    *)
(* holds a larger id and no raise of one of its CNs is under way.          *)
IslandInv ==
    \A I \in SUBSET CN :
        (Isolated(I) /\ \A c, d \in I : seed[c] = seed[d])
            => /\ \A c \in I : maxTopoID[c] = seed[c]
               /\ \A c \in I, b \in closed :
                     <<c, b>> \in Connected => maxBDID[b] <= seed[c]
               /\ \A e \in compared \cup summed : e[1] \notin I

(* What ExitAgreement says of the ids. *)
Agreed ==
    \A b \in closed : \A c \in CNsOf(b) \cap cnOpenSub, d \in CNsOf(b) :
        maxTopoID[c] <= maxTopoID[d]

(* The frontier keeps the CNs of the first one that have a closed switch. *)
FrontierKept ==
    \A b \in closed : CNsOf(b) \cap cnOpenSub \subseteq cnSet

(* The first map so far: a pair that is handled is ordered. *)
PushedUp ==
    /\ compared = {} /\ summed = {}
    /\ sumCounter = sumOldCounter
    /\ \A c \in cnSet, b \in BD :
          <<c, b>> \in Connected \ todo => maxTopoID[c] <= maxBDID[b]

(* The second map so far: n raises were counted in this round, and while   *)
(* there is none all ids still are what the comparisons saw.               *)
Raised(n) ==
    /\ n + Cardinality(todo) <= Cardinality(Connected)
    /\ sumCounter = IF sumOldCounter + n < CounterMod
                    THEN sumOldCounter + n
                    ELSE sumOldCounter + n - CounterMod
    /\ n = 0 =>
         /\ compared = {} /\ summed = {}
         /\ \A c \in cnSet, b \in BD :
               <<c, b>> \in Connected => maxTopoID[c] <= maxBDID[b]
         /\ \A c \in CN, b \in bdSet \cap closed :
               <<c, b>> \in Connected \ todo => maxBDID[b] <= maxTopoID[c]

AgreementInv ==
    /\ FrontierKept
    /\ pc = "toBD" => PushedUp
    /\ pc = "toCN" => bdSet = BDsOf(cnSet) /\ \E n \in Nat : Raised(n)
    /\ pc \in {"test", "done"} =>
          /\ compared = {} /\ summed = {}
          /\ sumCounter = sumOldCounter => Agreed
    /\ pc = "done" => sumCounter = sumOldCounter

(* An island seeded with 0 and v, while no CN was shared: what is compared *)
(* is still so when it is added.                                           *)
SeededIsland(I, v) ==
    LET ids == {seed[d] : d \in I} IN
    /\ \A c \in I : maxTopoID[c] \in ids
    /\ \A b \in closed : CNsOf(b) \cap I # {} => maxBDID[b] \in ids \cup {-1}
    /\ \A e \in compared : e[1] \in I => maxBDID[e[2]] > maxTopoID[e[1]]
    /\ \A e \in summed : e[1] \in I => newTopoId[e[2]] \in ids

SeededInv ==
    /\ pc # "toCN" => compared = {} /\ summed = {}
    /\ \A e, f \in compared \cup summed : e[2] = f[2] => e = f
    /\ compared \cap summed = {}
    /\ ~shared =>
         /\ \A e, f \in compared \cup summed : e[1] = f[1] => e = f
         /\ \A I \in SUBSET CN, v \in Seeds \cap Nat :
               Isolated(I) /\ ZeroOr(v, I) => SeededIsland(I, v)
=============================================================================
