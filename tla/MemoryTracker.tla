--------------------------- MODULE MemoryTracker ----------------------------
(***************************************************************************)
(* The layered memory trackers: one global tracker, a tracker per query    *)
(* and a tracker per operator.  An operator runs on one thread; operators  *)
(* share the atomic counters of their query, and queries those of Global.  *)
(*                                                                         *)
(* A call of a tracker is a list of operations on counters, todo[o], of    *)
(* which each atomic operation is one step.  An exception drops the list.  *)
(* Blocks move: memory may be freed by another operator of the query than  *)
(* the one that allocated it.  The peaks and histograms are left out.      *)
(***************************************************************************)
EXTENDS Integers, Sequences, FiniteSets, FiniteSetsExt

CONSTANTS Queries, Operators,
          QueryOf,          \* [Operators -> Queries]
          Global,
          MaxReserve,       \* maxReserveBytes: [query |-> ..., operator |-> ...]
          Limit,            \* the limits given to the trackers: [Queries \cup {Global} -> Nat]
          Sizes,            \* sizes of blocks
          MaxCalls          \* bound: the calls each operator makes

ASSUME TrackerAssumption ==
    /\ QueryOf \in [Operators -> Queries]
    /\ Global \notin Queries \cup Operators /\ Queries \cap Operators = {}
    /\ IsFiniteSet(Queries) /\ IsFiniteSet(Operators) /\ IsFiniteSet(Sizes)
    /\ MaxReserve \in [{"query", "operator"} -> Nat \ {0}]
    /\ Limit \in [Queries \cup {Global} -> Nat]
    /\ Sizes \subseteq Nat \ {0}

Trackers == Queries \cup Operators \cup {Global}

VARIABLES amount,        \* usage_.amount of a tracker
          reservation,   \* reservation_
          todo,          \* what the call of an operator has still to do
          live,          \* live[q][n]: blocks of n bytes the code of q holds
          alive,         \* the trackers that are not destroyed
          calls,         \* calls an operator has made
          leaked,        \* history: bytes charged to a query by calls that then threw
          unbooked,      \* history: bytes of live blocks that no operator counts, less those counted for none
          missed         \* history: how the blocks and the counts of a query came apart

vars == <<amount, reservation, todo, live, alive, calls, leaked, unbooked, missed>>

-----------------------------------------------------------------------------
HardLimit(t) == Limit[t] + (IF t = Global THEN 0 ELSE MaxReserve.query)

\* The multiples of the reservation that a layer asks of its parent, and gives back to it.
GetFromParent(will, max) == IF will < 0 THEN max * ((-will) \div max + 1) ELSE 0
ReleaseParent(will, max) == IF will > max THEN max * ((will - 1) \div max) ELSE 0

Do(op, t, n) == [op |-> op, on |-> t, n |-> n]

\* MemoryTracker<Operator>::acquire and release: the requests to the query, then the change of the
\* tracker's own counters, which no other thread reads.
OperatorAcquire(o, n) ==
    LET get == GetFromParent(reservation[o] - n, MaxReserve.operator)
    IN  (IF get > 0 THEN <<Do("alloc", QueryOf[o], get), Do("reserve", QueryOf[o], get)>> ELSE <<>>)
            \o <<Do("got", o, <<n, get>>)>>

OperatorRelease(o, n) ==
    LET release == ReleaseParent(reservation[o] + n, MaxReserve.operator)
    IN  [i \in 1 .. release \div MaxReserve.operator |-> Do("give", QueryOf[o], MaxReserve.operator)]
            \o <<Do("freed", o, <<n, release>>)>>

-----------------------------------------------------------------------------
Init ==
    /\ amount = [t \in Trackers |-> 0]
    /\ reservation = [t \in Trackers |-> 0]
    /\ todo = [o \in Operators |-> <<>>]
    /\ live = [q \in Queries |-> [n \in Sizes |-> 0]]
    /\ alive = Trackers
    /\ calls = [o \in Operators |-> 0]
    /\ leaked = [q \in Queries |-> 0]
    /\ unbooked = [q \in Queries |-> 0]
    /\ missed = [q \in Queries |-> {}]

Call(o) ==
    /\ o \in alive
    /\ todo[o] = <<>>
    /\ calls[o] < MaxCalls[o]
    /\ calls' = [calls EXCEPT ![o] = @ + 1]

Allocate(o, n) ==
    /\ Call(o)
    /\ todo' = [todo EXCEPT ![o] = OperatorAcquire(o, n)]
    /\ UNCHANGED <<amount, reservation, live, alive, leaked, unbooked, missed>>

Deallocate(o, n) ==
    /\ Call(o)
    /\ live[QueryOf[o]][n] > 0
    /\ live' = [live EXCEPT ![QueryOf[o]][n] = @ - 1]
    /\ todo' = [todo EXCEPT ![o] = OperatorRelease(o, n)]
    /\ UNCHANGED <<amount, reservation, alive, leaked, unbooked, missed>>

\* Mutant: only the new block is accounted for.
ReallocateNoRelease(o, old, new) ==
    /\ Call(o)
    /\ live[QueryOf[o]][old] > 0
    /\ live' = [live EXCEPT ![QueryOf[o]][old] = @ - 1]
    /\ todo' = [todo EXCEPT ![o] = <<Do("swap", o, <<old, new>>)>>]
    /\ UNCHANGED <<amount, reservation, alive, leaked, unbooked, missed>>

\* The old block is released first; the caller keeps it when the acquire or the allocation throws.
Reallocate(o, old, new) ==
    /\ Call(o)
    /\ live[QueryOf[o]][old] > 0
    /\ live' = [live EXCEPT ![QueryOf[o]][old] = @ - 1]
    /\ todo' = [todo EXCEPT ![o] = OperatorRelease(o, old)
                                       \o <<Do("swap", o, <<old, new>>)>>]
    /\ UNCHANGED <<amount, reservation, alive, leaked, unbooked, missed>>

\* ~MemoryTracker<Operator>
DestroyOperator(o) ==
    /\ o \in alive
    /\ todo[o] = <<>>
    /\ alive' = alive \ {o}
    /\ todo' = [todo EXCEPT ![o] =
                    (IF reservation[o] # 0 THEN <<Do("give", QueryOf[o], reservation[o])>> ELSE <<>>)
                    \o (IF amount[o] # 0 THEN <<Do("give", QueryOf[o], amount[o])>> ELSE <<>>)
                    \o <<Do("gone", o, 0)>>]
    /\ UNCHANGED <<amount, reservation, live, calls, leaked, unbooked, missed>>

\* ~MemoryTracker<Query>, once its operators are gone
DestroyQuery(q) ==
    /\ q \in alive
    /\ \A o \in Operators : QueryOf[o] = q => o \notin alive /\ todo[o] = <<>>
    /\ alive' = alive \ {q}
    /\ amount' = [amount EXCEPT ![Global] = @ - reservation[q]]
    /\ reservation' = [reservation EXCEPT ![q] = 0]
    /\ UNCHANGED <<todo, live, calls, leaked, unbooked, missed>>

-----------------------------------------------------------------------------
(* The next operation of operator o: first is done, and todo becomes rest. *)

\* MemoryUsage::alloc; a charge above the limit is taken back in a second step.
Alloc(o, first, rest) ==
    /\ first.op = "alloc"
    /\ amount' = [amount EXCEPT ![first.on] = @ + first.n]
    /\ todo' = [todo EXCEPT ![o] = IF amount'[first.on] > HardLimit(first.on)
                                   THEN <<Do("throw", first.on, first.n)>> \o rest ELSE rest]
    /\ UNCHANGED <<reservation, live, leaked, unbooked, missed>>

\* The bytes of the block that a failed reallocation leaves with the caller; 0 if there is none.
KeptBytes(list) == LET last == list[Len(list)] IN IF last.op = "kept" THEN last.n ELSE 0
WithKept(blocks, bytes) == [n \in Sizes |-> blocks[n] + (IF n = bytes THEN 1 ELSE 0)]
KeepsOne(bytes) == IF bytes = 0 THEN {} ELSE {"kept"}

Throw(o, first, rest) ==
    LET q == QueryOf[o]
        bytes == KeptBytes(rest)
    IN  /\ first.op = "throw"
        /\ amount' = [amount EXCEPT ![first.on] = @ - first.n]
        /\ todo' = [todo EXCEPT ![o] = <<>>]
        /\ leaked' = [leaked EXCEPT ![q] = @ + (IF first.on = Global THEN -rest[2].n ELSE 0)]
        /\ live' = [live EXCEPT ![q] = WithKept(@, bytes)]
        /\ unbooked' = [unbooked EXCEPT ![q] = @ + bytes]
        /\ missed' = [missed EXCEPT ![q] = @ \cup KeepsOne(bytes)]
        /\ UNCHANGED reservation

\* Mutant: a reservation just fetched from the parent is not drawn on.
ReserveNoDraw(o, first, rest) ==
    LET get == GetFromParent(reservation[first.on] - first.n, MaxReserve.query)
    IN  /\ first.op = "reserve"
        /\ todo' = [todo EXCEPT ![o] =
                        (IF get > 0 THEN <<Do("alloc", Global, get), Do("add", first.on, get)>>
                                    ELSE <<Do("add", first.on, -first.n)>>) \o rest]
        /\ UNCHANGED <<amount, reservation, live, leaked, unbooked, missed>>

\* MemoryTracker::acquire after the charge: the reservation is loaded, then changed.
Reserve(o, first, rest) ==
    LET get == GetFromParent(reservation[first.on] - first.n, MaxReserve.query)
    IN  /\ first.op = "reserve"
        /\ todo' = [todo EXCEPT ![o] =
                        (IF get > 0 THEN <<Do("alloc", Global, get), Do("add", first.on, get)>> ELSE <<>>)
                            \o <<Do("add", first.on, -first.n)>> \o rest]
        /\ UNCHANGED <<amount, reservation, live, leaked, unbooked, missed>>

\* MemoryTracker::release
Give(o, first, rest) ==
    LET release == ReleaseParent(reservation[first.on] + first.n, MaxReserve.query)
    IN  /\ first.op = "give"
        /\ reservation' = [reservation EXCEPT ![first.on] = @ + first.n]
        /\ todo' = [todo EXCEPT ![o] =
                        (IF release > 0 THEN <<Do("free", Global, release), Do("add", first.on, -release)>>
                                        ELSE <<>>)
                            \o <<Do("free", first.on, first.n)>> \o rest]
        /\ UNCHANGED <<amount, live, leaked, unbooked, missed>>

Add(o, first, rest) ==
    /\ first.op = "add"
    /\ reservation' = [reservation EXCEPT ![first.on] = @ + first.n]
    /\ todo' = [todo EXCEPT ![o] = rest]
    /\ UNCHANGED <<amount, live, leaked, unbooked, missed>>

Free(o, first, rest) ==
    /\ first.op = "free"
    /\ amount' = [amount EXCEPT ![first.on] = @ - first.n]
    /\ todo' = [todo EXCEPT ![o] = rest]
    /\ UNCHANGED <<reservation, live, leaked, unbooked, missed>>

\* The ends of the calls: the caller has its block, gave one back, or destroyed its tracker.
Got(o, first, rest) ==
    /\ first.op = "got"
    /\ reservation' = [reservation EXCEPT ![o] = @ + first.n[2] - first.n[1]]
    /\ amount' = [amount EXCEPT ![o] = @ + first.n[1]]
    /\ live' = [live EXCEPT ![QueryOf[o]][first.n[1]] = @ + 1]
    /\ todo' = [todo EXCEPT ![o] = <<>>]
    /\ UNCHANGED <<leaked, unbooked, missed>>

\* The tracker is charged, but malloc finds no memory and std::bad_alloc is thrown: nothing takes the
\* charge back, and the block of a reallocation stays with the caller although it was released.
BadAlloc(o, first, rest) ==
    LET q == QueryOf[o]
        bytes == KeptBytes(todo[o])
    IN  /\ first.op = "got"
        /\ reservation' = [reservation EXCEPT ![o] = @ + first.n[2] - first.n[1]]
        /\ amount' = [amount EXCEPT ![o] = @ + first.n[1]]
        /\ live' = [live EXCEPT ![q] = WithKept(@, bytes)]
        /\ unbooked' = [unbooked EXCEPT ![q] = @ + (bytes - first.n[1])]
        /\ missed' = [missed EXCEPT ![q] = @ \cup {"charged"} \cup KeepsOne(bytes)]
        /\ todo' = [todo EXCEPT ![o] = <<>>]
        /\ UNCHANGED leaked

Freed(o, first, rest) ==
    /\ first.op = "freed"
    /\ reservation' = [reservation EXCEPT ![o] = @ + first.n[1] - first.n[2]]
    /\ amount' = [amount EXCEPT ![o] = @ - first.n[1]]
    /\ todo' = [todo EXCEPT ![o] = rest]
    /\ UNCHANGED <<live, leaked, unbooked, missed>>

Gone(o, first, rest) ==
    /\ first.op = "gone"
    /\ reservation' = [reservation EXCEPT ![o] = 0]
    /\ amount' = [amount EXCEPT ![o] = 0]
    /\ unbooked' = [unbooked EXCEPT ![QueryOf[o]] = @ + amount[o]]
    /\ missed' = [missed EXCEPT ![QueryOf[o]] = @ \cup (IF amount[o] = 0 THEN {} ELSE {"gone"})]
    /\ todo' = [todo EXCEPT ![o] = rest]
    /\ UNCHANGED <<live, leaked>>

\* A reallocation between its release and its acquire.
Swap(o, first, rest) ==
    /\ first.op = "swap"
    /\ todo' = [todo EXCEPT ![o] = OperatorAcquire(o, first.n[2])
                                       \o <<Do("kept", o, first.n[1])>>]
    /\ UNCHANGED <<amount, reservation, live, leaked, unbooked, missed>>

Step(o) ==
    /\ todo[o] # <<>>
    /\ LET first == Head(todo[o])
           rest == Tail(todo[o])
       IN  \/ Alloc(o, first, rest) \/ Throw(o, first, rest) \/ Reserve(o, first, rest)
           \/ Give(o, first, rest) \/ Add(o, first, rest) \/ Free(o, first, rest)
           \/ Got(o, first, rest) \/ BadAlloc(o, first, rest) \/ Freed(o, first, rest)
           \/ Gone(o, first, rest) \/ Swap(o, first, rest)
    /\ UNCHANGED <<alive, calls>>

Next ==
    \/ \E o \in Operators : Step(o) \/ DestroyOperator(o)
    \/ \E o \in Operators, n \in Sizes : Allocate(o, n) \/ Deallocate(o, n)
    \/ \E o \in Operators, n1, n2 \in Sizes : Reallocate(o, n1, n2)
    \/ \E q \in Queries : DestroyQuery(q)

Spec == Init /\ [][Next]_vars

-----------------------------------------------------------------------------
Of(q) == {o \in Operators : QueryOf[o] = q}
Quiet(q) == \A o \in Of(q) : todo[o] = <<>>
Sum(f, S) == MapThenSumSet(LAMBDA t : f[t], S)
LiveBytes(q) == Sum([n \in Sizes |-> n * live[q][n]], Sizes)

\* Between calls the layers agree: what a query counts is what its operators hold or keep in
\* reserve, apart from charges that a failed request to Global left behind
\* (MemoryTracker.h:75-92), and Global counts what the queries hold or keep in reserve.  The
\* unlocked load of the reservation (line 79) never loses or duplicates a byte.  When every query is
\* gone, nothing is charged to Global any more, whatever failed, moved between operators or was still
\* allocated when its operator went (MemoryTracker.h:35-47, 165-175).
LayersAgree ==
    /\ \A q \in Queries : Quiet(q) =>
           amount[q] = leaked[q] + Sum(amount, Of(q)) + Sum(reservation, Of(q))
    /\ (\A q \in Queries : Quiet(q)) =>
           amount[Global] = Sum(amount, Queries) + Sum(reservation, Queries) - Sum(leaked, Queries)
    /\ alive = {Global} => amount[Global] = 0

\* Between calls the operators of a query count exactly the blocks its code holds, as long as no call
\* failed where nothing is put right.  A refused reallocation leaves the caller a block whose bytes
\* were released (Allocator.h:39-42): such failures alone never make the operators count too much.
\* An allocation for which there is no memory leaves bytes charged for no block (Allocator.h:24-33,
\* Memory.h:73-83): such failures alone never make them count too little.  A failed reallocation for
\* which there is no memory does both, and nothing is said of an operator that is destroyed while it
\* counts bytes, its own or those it freed for another one.
BlocksCounted ==
    \A q \in Queries : Quiet(q) =>
        /\ missed[q] \subseteq {"kept"} => Sum(amount, Of(q)) <= LiveBytes(q)
        /\ missed[q] \subseteq {"charged"} => LiveBytes(q) <= Sum(amount, Of(q))

\* "Amount of consumed memory should always equal zero on destruction" (MemoryTracker.h:49-51), of a
\* query's tracker, whose operators give their counts back when they are destroyed.  Violated:
\* acquire() charges the query before it asks Global, and nothing takes the charge back when Global
\* refuses (MemoryTracker.h:75-92).
ZeroOnDestruction == \A q \in Queries : q \notin alive => amount[q] = 0
=============================================================================
