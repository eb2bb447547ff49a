------------------------------- MODULE CellSpec -------------------------------
(***************************************************************************)
(* What write, writeAdd and writeMax of ComputingAlgorithm promise to the  *)
(* functions that run in parallel: each call changes its cell in one step, *)
(* at some moment between its start and its return.                        *)
(***************************************************************************)
EXTENDS Words

CONSTANTS
    Thread,     \* tasks that write at the same time
    Cell,       \* the fields of the vertex states
    Idle        \* no call is under way

Kind == {"write", "writeAdd", "writeMax"}
Request == [kind : Kind, cell : Cell, val : Word]

(* The value a call leaves in a cell that holds old. *)
Written(r, old) ==
    CASE r.kind = "write" -> r.val
      [] r.kind = "writeAdd" -> WrapAdd(old, r.val)
      [] r.kind = "writeMax" -> Larger(old, r.val)

VARIABLES
    cell,       \* the value of each cell
    want        \* the call each thread has under way, or Idle

Init ==
    /\ cell \in [Cell -> Word]
    /\ want = [t \in Thread |-> Idle]

Start(t, r) ==
    /\ want[t] = Idle
    /\ want' = [want EXCEPT ![t] = r]
    /\ UNCHANGED cell

TakeEffect(t) ==
    /\ want[t] # Idle
    /\ cell' = [cell EXCEPT ![want[t].cell] = Written(want[t], @)]
    /\ want' = [want EXCEPT ![t] = Idle]

Next == \E t \in Thread : TakeEffect(t) \/ \E r \in Request : Start(t, r)

Spec == Init /\ [][Next]_<<cell, want>>
=============================================================================
