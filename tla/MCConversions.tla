---------------------------- MODULE MCConversions ----------------------------
(***************************************************************************)
(* The data of the common headers for TLC: the cells that parallel         *)
(* functions write, and the conversions.  The seven machines share no      *)
(* state, so a behaviour takes the steps of one of them and leaves the     *)
(* others where they start.                                                *)
(***************************************************************************)
EXTENDS AtomicCells, WireMessages, EdgeIDs, Datetimes, Values, ValueTypes

CONSTANTS c1, c2,     \* two cells
          Machines    \* the machines whose behaviours are looked at

VARIABLE machine   \* whose steps this behaviour takes

mcVars == <<machine, vars, wireVars, edgeVars, durationVars, moments, valueVars, typeVars>>

-----------------------------------------------------------------------------
\* Three tasks make one call each, on two cells of two bits: adds overflow and, between the load
\* and the compare-and-swap of one task, the other two can change its cell and change it back.
MCCells == {c1, c2}
MCRequests ==
    {[kind |-> "write", cell |-> c1, val |-> -1],
     [kind |-> "writeAdd", cell |-> c1, val |-> 1],
     [kind |-> "writeMax", cell |-> c1, val |-> 1],
     [kind |-> "writeAdd", cell |-> c2, val |-> -1]}

-----------------------------------------------------------------------------
(* Objects of every layout. *)

\* Long enough that a host address can be read from a part of it.
LongBits == [i \in 1 .. 9 |-> 0]

\* Objects of type t, with containers of at most n elements.
RECURSIVE Objects(_, _)
Objects(t, n) ==
    CASE t.k = "scalar" -> IF t.n = 1 THEN {0, 1} ELSE {Radix ^ (t.n - 1) + 1}
      [] t.k = "pointer" -> {<<>>} \cup {<<o>> : o \in Objects(t.of, n)}
      [] t.k \in {"tuple", "derived"} ->
             FoldLeft(LAMBDA vs, p : {Append(v, o) : v \in vs, o \in Objects(p, n)}, {<<>>}, t.of)
      [] t.k = "counted" ->
             LET es == Objects(t.of, n - 1)
             IN  {s \in SeqOf(es, n) : FoldLeft(LAMBDA r, e : Emplace(t.unique, r, e), <<>>, s) = s}
      [] t.k = "tagged" ->
             {<<>>} \cup UNION {{<<kind, o>> : o \in Objects(t.of[kind], n)} : kind \in DOMAIN t.of}
      [] t.k = "result" -> UNION {{<<ok, o>> : o \in Objects(t.of[ok], n)} : ok \in {0, 1}}
      [] t.k = "bitset" -> {<<Len(s), s>> : s \in SeqOf({0, 1}, n) \cup {LongBits}}
      [] t.k = "unsupported" -> {<<>>}

\* The second object of a batch shows whether the first left the buffer at its own end.
Trailer(t) == [t |-> t, v |-> <<<<1, 0>>, 5>>]

Entries(layouts, n, last) ==
    [i \in DOMAIN layouts |->
        [t |-> layouts[i], objects |-> Objects(layouts[i], n), trailer |-> Trailer(last)]]

Containers ==
    <<SharedPtr(DateLayout), UniquePtr(Str), Optional(Str), Tuple(<<Str, Optional(Str), Trivial(2)>>),
      Deque(Str), OrderedMap(Str, Scalar(2)), OrderedSet(Str), UnorderedSet(Scalar(1)),
      Vector(Optional(Scalar(1))), BitSet, Derived(DateLayout, <<Scalar(2)>>),
      Derived(LocalDatetimeLayout, <<Scalar(2)>>)>>

Records ==
    <<ErrorLayout, ResultLayout(DateLayout), ResultLayout(RowLayout), LocalDatetimeLayout,
      ZonedDatetimeLayout, DateLayout, LocalTimeLayout, ZonedTimeLayout,
      DurationLayout, EdgeIDLayout, RowLayout, ListLayout, PathLayout, RecordLayout, RefLayout,
      GraphLayout, HostAddressLayout, MemoryUsageLayout(FALSE), MemoryUsageLayout(TRUE),
      ValueTypeLayout, ObjectTypeLayout, RowTypeLayout>>

Nested == <<NodeLayout, EdgeLayout, DescriptorLayout>>

KVTypes ==
    <<KVInteger(8), KVEnum(2), KVBool, KVZonedDatetime, KVString, KVHostAddress, KVVector(KVString),
      KVMap(KVString, KVInteger(2)), KVUnorderedMap(KVPair(KVBool, KVInteger(2)), KVString)>>

SoundCatalogue ==
    Entries(Containers \o Records, 2, HostAddressLayout) \o Entries(Nested, 1, HostAddressLayout)
        \o Entries(KVTypes, 2, KVHostAddress)

-----------------------------------------------------------------------------
\* A calendar of two seconds a minute, two minutes an hour and so on: instants on both sides of the
\* epoch, with and without a fraction of a second, in different years, and two seconds that show the
\* same clock because the local time was set back by an hour between them.
MCStamps == {-64, -33, -2, -1, 0, 1, 4, 12, 65, 130}
MCOffset(second) == IF second < 3 THEN 5 ELSE 1
MCAmounts == {-3, 1}

NoTransfer == batch = <<>> /\ sent = 0 /\ arrived = -1 /\ buf = <<>> /\ got = <<>>

AnyEdge == id = (CHOOSE e \in NewIDs : TRUE) /\ followed = "none" /\ held = {}

NoValue == value = [kind |-> "kNull", num |-> 0] /\ meant = 0 /\ outcome = "value"

NoType == types = <<>> /\ copies = {}

NoCall ==
    /\ cell = [c \in Cell |-> 0]
    /\ want = [t \in Thread |-> Idle]
    /\ pc = [t \in Thread |-> "idle"]
    /\ oldV = [t \in Thread |-> 0]
    /\ newV = [t \in Thread |-> 0]
    /\ writes = [t \in Thread |-> 0]

MCInit ==
    /\ machine \in Machines
    /\ IF machine = "cells" THEN Init ELSE NoCall
    /\ IF machine = "wire" THEN WireInit ELSE NoTransfer
    /\ IF machine = "edges" THEN EdgeInit ELSE AnyEdge
    /\ IF machine = "values" THEN ValueInit ELSE NoValue
    /\ DurationInit
    /\ DatetimeInit
    /\ IF machine = "types" THEN TypeInit ELSE NoType

ExceptCells == <<wireVars, edgeVars, durationVars, moments, valueVars, typeVars>>

MCNext ==
    /\ \/ /\ machine = "cells" /\ Next
          /\ UNCHANGED ExceptCells
       \/ /\ machine = "wire" /\ WireNext
          /\ UNCHANGED <<vars, edgeVars, durationVars, moments, valueVars, typeVars>>
       \/ /\ machine = "edges" /\ EdgeNext
          /\ UNCHANGED <<vars, wireVars, durationVars, moments, valueVars, typeVars>>
       \/ /\ machine = "durations" /\ DurationNext
          /\ UNCHANGED <<vars, wireVars, edgeVars, moments, valueVars, typeVars>>
       \/ /\ machine = "datetimes" /\ DatetimeNext
          /\ UNCHANGED <<vars, wireVars, edgeVars, durationVars, valueVars, typeVars>>
       \/ /\ machine = "values" /\ ValueNext
          /\ UNCHANGED <<vars, wireVars, edgeVars, durationVars, moments, typeVars>>
       \/ /\ machine = "types" /\ TypeNext
          /\ UNCHANGED <<vars, wireVars, edgeVars, durationVars, moments, valueVars>>
    /\ UNCHANGED machine

\* The fairness of AtomicCells: a thread inside a call keeps running.
MCSpec ==
    /\ MCInit /\ [][MCNext]_mcVars
    /\ \A t \in Thread : WF_mcVars(/\ machine = "cells"
                                   /\ Load(t) \/ CasSucceeds(t) \/ CasFails(t)
                                   /\ UNCHANGED <<machine, ExceptCells>>)
=============================================================================
