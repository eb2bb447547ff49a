----------------------------- MODULE AtomicCells -----------------------------
(***************************************************************************)
(* casOp, write, writeAdd and writeMax of ComputingAlgorithm.h step by     *)
(* step: a load of the cell, the new value, and a compare-and-swap that    *)
(* goes back to the load when the cell has changed.  Cells are compared by *)
(* value, so a change that was undone is not seen.                         *)
(***************************************************************************)
EXTENDS Words

CONSTANTS
    Thread,     \* tasks that write at the same time
    Cell,       \* the fields of the vertex states
    Idle,       \* no call is under way
    Invoked,    \* the calls that are made: kind, cell and value
    MaxWrites   \* bound: calls made by one thread

ASSUME RequestAssumption ==
    /\ Invoked \subseteq
          [kind : {"write", "writeAdd", "writeMax"}, cell : Cell, val : Word]
    /\ Idle \notin Invoked
    /\ MaxWrites \in Nat

VARIABLES
    cell,       \* *ptr, for each cell
    want,       \* the call each thread has under way, or Idle
    pc,         \* where it is in the do-while loop
    oldV, newV, \* the locals of the call
    writes      \* calls begun by each thread

vars == <<cell, want, pc, oldV, newV, writes>>

Init ==
    /\ cell \in [Cell -> Word]
    /\ want = [t \in Thread |-> Idle]
    /\ pc = [t \in Thread |-> "idle"]
    /\ oldV = [t \in Thread |-> 0]
    /\ newV = [t \in Thread |-> 0]
    /\ writes = [t \in Thread |-> 0]

Start(t, r) ==
    /\ pc[t] = "idle"
    /\ writes[t] < MaxWrites
    /\ writes' = [writes EXCEPT ![t] = @ + 1]
    /\ want' = [want EXCEPT ![t] = r]
    /\ pc' = [pc EXCEPT ![t] = "load"]
    /\ UNCHANGED <<cell, oldV, newV>>

(* newV from oldV, for each of the three functions. *)
NewValue(r, old) ==
    CASE r.kind = "write" -> r.val
      [] r.kind = "writeAdd" -> WrapAdd(old, r.val)
      [] r.kind = "writeMax" -> Larger(old, r.val)

(* oldV = *ptr; newV = ... *)
Load(t) ==
    /\ pc[t] = "load"
    /\ oldV' = [oldV EXCEPT ![t] = cell[want[t].cell]]
    /\ newV' = [newV EXCEPT ![t] = NewValue(want[t], oldV'[t])]
    /\ pc' = [pc EXCEPT ![t] = "cas"]
    /\ UNCHANGED <<cell, want, writes>>

(* Mutant: a store that does not compare. *)
CasSucceedsBlindly(t) ==
    /\ pc[t] = "cas"
    /\ cell' = [cell EXCEPT ![want[t].cell] = newV[t]]
    /\ want' = [want EXCEPT ![t] = Idle]
    /\ pc' = [pc EXCEPT ![t] = "idle"]
    /\ UNCHANGED <<oldV, newV, writes>>

CasSucceeds(t) ==
    /\ pc[t] = "cas"
    /\ cell[want[t].cell] = oldV[t]
    /\ cell' = [cell EXCEPT ![want[t].cell] = newV[t]]
    /\ want' = [want EXCEPT ![t] = Idle]
    /\ pc' = [pc EXCEPT ![t] = "idle"]
    /\ UNCHANGED <<oldV, newV, writes>>

(* Mutant: a retry that does not load the cell again. *)
CasFailsNoReload(t) ==
    /\ pc[t] = "cas"
    /\ cell[want[t].cell] # oldV[t]
    /\ UNCHANGED vars

CasFails(t) ==
    /\ pc[t] = "cas"
    /\ cell[want[t].cell] # oldV[t]
    /\ pc' = [pc EXCEPT ![t] = "load"]
    /\ UNCHANGED <<cell, want, oldV, newV, writes>>

Next ==
    \E t \in Thread :
        \/ \E r \in Invoked : Start(t, r)
        \/ Load(t)
        \/ CasSucceeds(t)
        \/ CasFails(t)

Spec == Init /\ [][Next]_vars

(* A thread inside a call keeps running; nobody has to start a call. *)
FairSpec ==
    Spec /\ \A t \in Thread : WF_vars(Load(t) \/ CasSucceeds(t) \/ CasFails(t))
-----------------------------------------------------------------------------
TypeOK ==
    /\ cell \in [Cell -> Word]
    /\ want \in [Thread -> Invoked \cup {Idle}]
    /\ pc \in [Thread -> {"idle", "load", "cas"}]
    /\ oldV \in [Thread -> Word]
    /\ newV \in [Thread -> Word]
    /\ writes \in [Thread -> 0 .. MaxWrites]

(* A call is atomic for the other threads: the three loops implement       *)
(* CellSpec, in which a call takes effect in one step.                     *)
Abstract == INSTANCE CellSpec WITH cell <- cell, want <- want
Atomic == Abstract!Spec

(* No call retries for ever: each failed compare-and-swap means that a     *)
(* call of another thread took effect, and a run makes finitely many.      *)
CallsEnd == \A t \in Thread : pc[t] # "idle" ~> pc[t] = "idle"

(* The inductive invariant of the refinement: a thread is idle when it has *)
(* no call, and newV belongs to oldV.                                      *)
LoopInv ==
    \A t \in Thread :
        /\ (pc[t] = "idle") <=> (want[t] = Idle)
        /\ pc[t] = "cas" => newV[t] = NewValue(want[t], oldV[t])
=============================================================================
