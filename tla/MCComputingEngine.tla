-------------------------- MODULE MCComputingEngine --------------------------
(***************************************************************************)
(* Instances of ComputingEngine for TLC.  With four threads and a          *)
(* threshold of 4: a container of 3 is one task, one of 4 is cut into four *)
(* chunks, and one of 5 would be cut into 2, 2, 1 and -1.  The code has    *)
(* this last cut from 73 threads on, with its threshold of 5000.  One      *)
(* caller makes a call of one task, so that its task queues with those of  *)
(* the other.                                                              *)
(***************************************************************************)
EXTENDS ComputingEngine

CONSTANTS a, b

Two == {a, b}

Call(o, r, kept, bad) == [op |-> o, range |-> r, adds |-> kept, throws |-> bad]

Short == Call("for", 3, {}, {1})
None == Call("reduce", 0, {}, {})
Even == Call("filter", 4, {0, 3}, {2})
Uneven == Call("reduce", 5, {1, 2, 4}, {3})
Reducing == Call("reduce", 4, {1, 2, 3}, {1})

SharedCalls == {Short, None, Even, Uneven, Reducing}
SharedWork ==
    {w \in [Two -> SharedCalls] : w[a] \in {Short, None}}
=============================================================================
