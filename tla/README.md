# Network topology processing: TLA+ models and proofs

The repository is a plugin for the Nebula graph database. `src/yj/` holds the plugin: the
procedure `network_topo`, which reads a power network from an in-memory graph and computes
its topology, that is, which devices are joined by closed switches. `include/nebula/` holds
the headers of the database that the plugin is built against: the parallel computing engine,
its thread pool, the memory graph, values, memory tracking, modules. Most of those headers
only declare; the templates and inline functions among them are complete code.

This directory models the whole of the algorithm, the concurrent parts it rests on, and the
code of the headers that converts, counts and compares. Paths below are relative to `src/`.

## 1. Inventory

| component | state | operations | used by | what is hard |
|---|---|---|---|---|
| thread pool, `GenericThreadPool.h`, `GenericWorker.h` | `nextThread_`, per worker `pendingTasks_`, timers | `addTask`, `addDelayTask`, `addRepeatTask`, `addTimerTask`, `purgeTimerTask`, `stop`, `wait` | engine | tasks of all callers share the queues; ids of timers |
| computing engine, `ComputingEngine.h` | none of its own | `parallelFor/Filter/Reduce`, `runOnCurrentThread`, `splitTasks` | `VertexSubset`, `edgeMap` | exceptions in one of several tasks, cutting the container, blocking callers |
| vertex states, `ComputingAlgorithm.h` | `states_` | `casOp`, `write`, `writeAdd`, `writeMax` | algorithms, from many tasks | retry loops, values that change and change back, overflow |
| edgeMap, `ComputingAlgorithm.h` | the frontier | `edgeMap` (sparse, dense), `vertexMap`, `getResult` | algorithms | two forms that are exchanged between rounds, tests and updates that interleave |
| topology algorithm, `NetworkTopoProcedure.cpp` | `NetworkTopoState` per vertex, the subsets of vertices | one long `run()`: switch positions (95-178), selection (180-239), seeding (240-265), merge loop (267-309), topology nodes and component edges (310-482), lines and transformers (484-1370), calculation points (1372-1820) | procedure | every stage is a parallel map; a documented race; termination; stale properties; integers and doubles that are cut |
| procedure and plugin, `NetworkTopoProcedure.cpp` 1840-1898, `YJProcedurePlugin.*` | result table | `networkTopoProcedure`, registration | the database | arguments of the wrong kind |
| memory tracking, `common/memory/` | usage and reservation of nested trackers | acquire, release, allocate, reallocate, destroy | the database | concurrent reservations, refusals and failed allocations half way |
| modules, `common/module/` | reference counts | `Holder` copy, move, reset; load, unload, reload | plugins | an assignment against an unload |
| encodings, `common/nrpc/`, `KVEncodeDecode.h` | a buffer | write, read, `encodedSize` | remote calls, storage | sizes that are announced, buffers that are cut, dropped statuses |
| edge identifiers, `EdgeID.h`, `EdgeUtils.h` | an id, a set of ids | reverse, standardize, compare, hash | graph views | one edge has several ids |
| values and types, `common/datatype/`, `common/valuetype/` | a duration, datetimes, a value, type objects | arithmetic, conversion, clone, `supertypeOf` | everywhere | rounding of negatives, limits of integers, tables that must agree, shared objects |
| rpc, audit, errors | - | - | the database | tables and declarations |

Interactions: `run()` calls `VertexSubset::map/filter/forEach`, these call the engine, which
cuts the vertices into tasks, hands them to the pool and blocks the caller until all are
ready. So inside one stage the vertices are handled concurrently, and between two stages there
is a barrier. The functions of a stage share the vertex states and write them with the atomic
functions of `ComputingAlgorithm`, or under a spin lock. `insertNode` and `insertEdge` write the
graph on disk; no stage of the run reads what they wrote. The database reaches the procedure
through a `Holder`, which keeps the module loaded.

What makes each component correct: a call of the engine gives what one thread would have
given, handles every element once and leaves nothing behind; a write to a state is atomic;
`edgeMap` finds the same targets in both forms; the merge loop ends, with agreeing ids inside
an island, no id crossing an open switch, and (as it should) no id that nobody was given; a device ends with
the id of one of its connectivity nodes (CN), no topology edge lacks its node, and an edge has
one direction whichever end it was found from; counts are complete before they divide; what the
layers of trackers have reserved adds up; a module in use is not unloaded; what is written is
read back or an error is reported; equal ids are found equal; no number is changed silently.

PROJECT.json lists the hazards with their lines and the properties that cover them.

## 2. Modules

| module | models | composes |
|---|---|---|
| `SplitTasks` | `splitTasks` and the chunk bounds, as operators | used by every module with a parallel map |
| `Words` | fixed-width integers: `Larger` (writeMax), `WrapAdd` | used by every module with ids |
| `ComputingEngine` | callers, workers, futures | `SplitTasks` |
| `CellSpec`, `AtomicCells` | an atomic cell, and the compare-and-swap loops that implement it | `Words`; `AtomicCells` instances `CellSpec` |
| `EdgeMap` | edgeMap and the breadth-first search of the developer guide | `SplitTasks` |
| `SwitchPoints`, `TopoSelect` | positions of breakers and disconnectors, then the selection | `TopoSelect` extends `SwitchPoints` |
| `TopoPropagation` | the merge loop | `SplitTasks`, `Words` |
| `TopoBuild` | seeding, topology nodes, component edges | `SplitTasks`, `Words` |
| `TopoConnect`, `FromToCp` | edges of compensators, lines and transformers, then the calculation points | `FromToCp` extends `TopoConnect` |
| `MemoryTracker` | the three layers of trackers and the allocator | |
| `ModuleHost` | modules, holders and calls of the procedure | |
| `WorkerTimers` | delayed, repeated and purged tasks of the pool | |
| `Wire`, `WireMessages` | the binary encodings as operators on types; a transfer of messages | `WireMessages` extends `Wire` |
| `EdgeIDs` | edge types and edge identifiers | |
| `Durations`, `Datetimes` | time arithmetic | `Datetimes` extends `Durations` |
| `ValueKinds`, `Values`, `ValueTypes` | the tables of kinds; numbers in values; type objects | the last two extend `ValueKinds` |
| `ComputingEngineProofs` | theorems about the engine | `ComputingEngine`, `SplitTasks` |
| `TopoPropagationProofs`, `TopoBuildProofs`, `EdgeMapProofs` | theorems about the module of that name | that module |
| `TopoSelectProofs` | theorems about positions, also during the selection | `TopoSelect`, `SwitchPoints` |
| `FromToCpProofs` | theorems about edges and calculation points | `FromToCp`, `TopoConnect` |
| `ServicesProofs` | theorems about modules, timers and memory trackers | `ModuleHost`, `WorkerTimers`, `MemoryTracker` |
| `DataProofs` | theorems about cells, edge ids, time, numbers and kinds | `AtomicCells`, `EdgeIDs`, `Datetimes`, `Values` |
| `MCTopoBuild` | the run from the positions to the component edges, for TLC | `TopoSelect`, then `TopoBuild` |
| other `MC*` | instances for TLC; `MCServices` and `MCConversions` hold several machines, of which each behaviour runs one | |

How the layers rest on each other. `ComputingEngine` shows that a map is a set of independent
element steps between two barriers; the other modules use that form: `todo` holds what the map
has not handled, the action that ends the stage requires it to be empty, and as many vertices
are in progress at once as `NumTasks` allows. `AtomicCells` shows that a `writeMax`, `write` or
`writeAdd` is one step; the other modules use it as one. What is *not* atomic in the code - a
read before a write, a comparison before a sum - is a step of its own everywhere. Between the
stages of `run()`, each module takes as its initial states what the one before may leave: the
frontier and devices of `TopoSelect` are any sets for `TopoPropagation` and `TopoBuild`, and the
ids of `TopoBuild` (every device has the id of one of its CNs, `DeviceFollowsCN`) are any ids for
`TopoConnect`.

**ComputingEngine.** `Submit` is one turn of the loop in `parallelFor/Filter/Reduce`: copy the
chunk, `addTask`. `SubmitThrows` is the copy whose range is reversed. `Apply`, `ApplyThrows`
and `Finish` are what a worker does with the task at the head of its queue; `setWith` catches
whatever the function throws. `Collect` is `collectAll(...).deferValue(...)` run by `get()`.
`parallelFor` and `parallelFilter` call `value()` on each result and so turn any failure into
an empty answer; `parallelReduce` skips failed tasks. An element is its position, a function is
the set of positions it adds and the set where it throws. The aggregates of `parallelReduce`
start from an uninitialised value and are discarded, so they are left out.

**AtomicCells.** One action for the load (and the new value), one for a compare-and-swap that
succeeds, one for one that fails. `CellSpec` has a start and an effect.

**EdgeMap.** `TestSparse` and `TestDense` are the filters, `Apply` is `m` and the recording of
the target. `Heavy` sources get a nested `parallelReduce`. The input `search` selects the client:
the breadth-first search, whose `cond` and `update` read and write `distance`, or a single call
whose `c` is always true.

**SwitchPoints, TopoSelect.** `WriteDelta` is a write of one flagged measurement, `TakePositions`
the `forEach` after it. The two stages write different fields, which start at 0, so `written` starts
over with each stage; each stage has its own list of names, and a switch that both reach keeps what the
second gives it. The maps of the selection only read, so each of them is one step.

**TopoPropagation.** `StartRound`/`LeaveLoop` are the loop's test. `PushToSwitch` is the first
map, `SwitchesReached` its end together with the early return of open switches. The second map
takes three steps per pair, `CompareHolds` (with the count), `Add` and `Publish`, because the
code reads the CN's id twice before the write. `FrontierReached` ends the round. Seeds may be any ids from
-1 on; -1 is the default of a CN that no device seeded. `shared` is a history variable: it turns true
when a comparison holds for a CN that another task is about to raise.

**TopoBuild.** `Seed`; `Merge`, the loop above as one step that may raise any id (it
writes ids with `writeMax` only); `SameId`, `OtherId` and `WriteId` for the two building
maps, whose comparison and write are separate; then the stages that only insert.

**TopoConnect, FromToCp.** A stage of lines 484-1370 handles its vertices one by one in any order
and inserts a set of edges `[by, from, to, reverse, R]`. Ids pass through `ToInt`, the low 32 bits as
a signed number. In `FromToCp` a stage is an entry of `Stages`; a task reads its own vertex and writes
another in two steps, once for every edge: parallel edges of the memory graph differ in their number
(`no`), and a task visits an edge from its source and from its destination. The doubles that `writeDouble` handles are modelled by their bits.

**MemoryTracker.** A call becomes a list of operations on the counters, `todo`, and every atomic
operation is a step; an exception drops the rest of the list. `BadAlloc` is the allocation that finds no memory after
the tracker was charged. The histories `leaked`, `unbooked` and `missed` record what exceptions and destroyed operators
leave behind: bytes charged to a query by a call that threw, and how blocks and counts came apart (a block `kept` after
its bytes were released, bytes `charged` for no block, an operator `gone` with bytes on its count).

**ModuleHost.** The member functions of `Holder` are lists of references taken, dropped and set, in
the order of the source; `HolderStep` does one. The manager's functions are external: they exclude
each other by `lock_` and unload only what has no reference but the manager's.

**WorkerTimers.** `TakeWorker` is the atomic increment of the pool, `QueueTimer` what the worker does
under its lock, with the id that the client gets. `OnNotify`, `Fire` and `PurgeTimerTask` are
external: the event loop takes over new timers, then purges.

**Wire, WireMessages.** A type is a record that names the specialisation which handles it, `Write`,
`EncodedSize` and `Read` are the three functions of every specialisation. `WireMessages` has the layout
of every message, and sends two objects through a buffer that arrives whole or cut at any byte.

**EdgeIDs, Durations, Datetimes, Values, ValueTypes.** Each has one object at hand (an id and a set of
ids, a duration, two datetimes, a value, a heap of type objects) and the operations of its class as actions,
so that a property is checked after every sequence of calls and not for one call only. A datetime is kept with the
second its clock shows and the fraction packed with it; local time is UTC plus an `Offset` that may change at any
second, as it does with daylight saving. A dispatch over kinds answers true, false, or throws.

## 3. Runs

| run | states | shows |
|---|---|---|
| `topo_merge` | 86645 | with two tasks racing and seeds -1, 0 and 3: type, `ExitAgreement`, `IslandsStayApart`, `SeededUnlessShared`, `MergeableEnds` |
| `topo_merge_race` | violation | `OnlySeededIds`: seeds 0 and 3 and two tasks, an id nobody was seeded with |
| `topo_merge_endless` | violation | `Termination`: one task, seeds -1 and 3, no end |
| `engine_calls` | 13066 | `NoOrphans`, `AppliedOnce`, `SequentialResult`, `CallEnds` |
| `edgemap` | 31551 | `DistancesRight`, `TargetsRight`, `SearchEnds` |
| `topo_build` | 672403 | `PositionsMeasured`; after the selection `SeedsAreLargest`, `DeviceFollowsCN`, `EdgesHaveNodes` |
| `switch_points_stale` | violation | the merge loop works on the old positions |
| `topo_edges` | 82250 | `CompensatorsJoinSides`, `OneOrientation`, `LinesCounted` |
| `services` | 2509504 | memory: `LayersAgree`, `BlocksCounted`; modules: `HeldStaysLoaded`, `CountsHolders`; timers: `PurgesItsOwn`, `DelayedOnce` |
| `tracker_zero` | violation | `ZeroOnDestruction`: a query destroyed with a charge on it |
| `conversions` | 163803 | cells: refinement of `CellSpec` (`Atomic`), `CallsEnd`; encodings: `SizesExact`, `RoundTrip`; edge ids: `OneIdPerEdge`, `SeenFromBothEnds`; time: `DurationExact`, `MomentsOrdered`; values: `NumberKept`, `ValueFitsItsKind`; types: `CloneKeepsShape`, `SupertypeIsInclusion` |
| `wire_cut` | violation | `CutIsReported`: a cut bitset whose leftovers are read as the next object |

`services` and `conversions` take about two minutes on two workers, the others less than one. No run checks
for deadlock: a run of the program ends.

Bounds, and why they are enough.

* Networks of the merge loop: three CNs in a row with two switches, so that one CN is raised by
  two switches at once, and two CNs with two parallel switches. Every set of closed switches,
  every first frontier and every seeding with -1, 0 and 3 is an initial state, so that islands that can be
  merged stand next to islands that raise their ids without end. Words have four bits (`Half` = 8)
  and the counter three (`CounterMod` = 8), so sums overflow and the counter wraps, while a
  round has at most four raises, as in the code a round has fewer raises than an `int` has values.
* Engine: four threads and a threshold of 4 give one task, even chunks and chunks past the end.
  One of the two callers makes a call of one task, which queues with the other's.
* Cells: two bits, two cells, three threads with one call each: a third thread is needed for a
  value that changes and changes back. `MaxWrites` bounds the calls of a thread.
* Edge maps: five vertices with `kThresholdParam` 2, so that frontiers of one or two vertices are
  sparse and larger ones dense, and one vertex has more neighbours than the threshold.
* Building: two CNs and five devices of which one hangs on both CNs, one was not selected and
  one only seeds; all numbers from {0, 1, 2}.
* Positions and selection: two measurements, a breaker reached by both stages, one whose name is known to the first
  stage and which the second reaches too, and a disconnector known to the second; every value of the measurements. A
  substation with a load that leads to the devices and the CN, joined by any subset of seven edges; building starts
  when the selection has found the devices. The stages do not read each other's inputs, so each varies while the others
  have one value.
* Topology edges: words of four bits for `int` (`IntHalf` = 8), and ids beyond them that are cut to others;
  compensators, lines and transformers of each kind with both ends in different islands, in one, or unset;
  a line end joined to its TopoND by two parallel edges.
* Memory: two queries, one with two operators, blocks of 1 and 3 bytes, and limits that refuse at
  the query and at the global layer; every allocation may find no memory. `MaxCalls` bounds the calls.
* Modules: two names and two instances (`MaxLoads`), so that a module is loaded twice or two are
  loaded; two threads; three holders, so that a copy of a copy is dropped while the first is moved.
* Timers: two clients, two workers and one bit of id, with as many timers as there are ids
  (`MaxTasks` = 4); in the code a worker has 2^48 ids, and the models say nothing of the timer after those.
* Encodings: bytes of one bit (`Radix` = 2), containers of up to two elements and a bitset of nine bytes,
  long enough that another object can be read from a part of it, one of every message. A
  second object in the buffer shows whether the first was read to its end and no further.
* Edge ids: types of two bits below the direction bits, two nodes, sets of two (`MaxHeld`).
* Time: a calendar in which a minute has two seconds, a year two months and so on, so that every carry
  happens within a few steps; `Longest` and `MostMonths` bound a duration. Instants lie on both
  sides of the epoch, whole seconds and fractions, and on both sides of an hour in which the local clock is set back.
* Values: bytes of two bits, so that all integers of all widths are cast and negated.
* Types: all basic types, constructors over three of them; the heap has four made objects beside the
  basic ones (`MaxMade`) and one clone (`MaxClones`).

Fairness. Liveness is stated for specifications in which each thread that can take a step
eventually takes one (in the merge loop, in which the run as a whole does not stop): callers and worker loops are operating-system threads that nothing
suspends, and `addTask` notifies the worker after it queued the task. No fairness is assumed
for the start of a call, and no strong fairness at all: `CallsEnd` holds because a
compare-and-swap fails only when another call took effect, and a run makes finitely many.

## 4. Findings

Five disagreements of the code with its own text have a run that shows them.

1. *Race in the merge loop* (`topo_merge_race`, `NetworkTopoProcedure.cpp:303`). The comparison
   and the sum read `maxTopoID` separately. Two tasks that raise one CN from 0 to v leave 2v. The
   code carries the remark "TODO(yee): data race", and `VertexSubset.h:61` requires thread-safe functions.
   `SeededUnlessShared` says that this race is the only way, and `SeededAlone` that one task does not meet it.
2. *Merge loop without end* (`topo_merge_endless`, `NetworkTopoProcedure.cpp:303`). The loop adds ids. A CN that no
   device seeded has -1 (line 46). Joined to an id of 1 it becomes 0 and then 1, and the loop ends. Joined to
   0 it is raised to -1 + 0 in every round, which changes nothing and is counted all the same. Joined to an id from 2
   on, the two raise each other until the sums overflow, and then a round repeats for ever. Two different positive ids do the same. One task is enough. The results of `getResult` are
   returned "after the graph algorithm is complete" (`include/nebula/computing/README.md:57`), which it never is.
   `MergeableEnds` says which islands do no harm: those of one id, and those of 0 and one other.
3. *Stale positions* (`switch_points_stale`, `NetworkTopoProcedure.cpp:289`). The positions just
   taken over are in the state, the loop reads the graph's property.
4. *A charge that stays* (`tracker_zero`, `MemoryTracker.h:76`). A query is charged before its parent is asked; when
   the parent refuses, the charge stays, although the amount "should always equal zero on destruction" (line 50).
   The parent's own account is right (`LayersAgree`).
5. *A cut that nobody reports* (`wire_cut`, `BindingTableCommon.h:223`). The reader of a `BitSet` drops the
   statuses of its reads. What arrived of a cut bitset stays in the buffer, where the reader of the next object
   takes it for its own and says OK. The reader of a derived message drops the status of its base (`CommonDefine.h:276`).

Observations made while modelling, which the models have as the code has them:

* Chunks past the end of a container: possible from 73 threads on; theorem `ChunksValid` gives the
  bound below which they are not (`ComputingEngine.h:206`).
* The dense `edgeMap` stops at the first neighbour, where the guide promises to aggregate each
  `M(s,d)` (`ComputingAlgorithm.h:338`).
* Selection (lines 190-239) looks for devices and CNs around what the edges of the substations lead to, not around the
  substations: on a network with one level of edges it finds nothing, and no error says so.
* An island none of whose devices has its id gets no TopoND, yet component edges start at its id (lines 347, 466-478);
  `EdgesHaveNodes` is about the others.
* Guards of `TopoConnect` test ids for 0, but unset ids are -1. Edges of series compensators always have
  `reverse` 1. `writeDouble` (line 79) stores the bits of an integer in a double, so that a
  measurement that is passed on twice is 0.0 or -0.0 and the lists of lines hold nothing else (`ValueInv` of
  `FromToCpProofs`). The loop over in edges
  at line 1711 lists nothing.
* The procedure checks its argument to be a string and uses it as a `Ref`; rows have five cells and the
  table four column names.
* Memory: a refused reallocation has released a block that is still there; an allocation for which there is no memory
  stays charged (`BlocksCounted` says which way each of them errs); `alignedAlloc` gets its arguments in the other order
  (`Allocator.h:31`).
* Timers: a delayed task returns no id and cannot be purged; a task without a result that throws
  something else than a `std::exception` leaves its promise open (`GenericWorker.h:180`).
* Encodings: null pointers come back as default objects.
* `operator<` of `EdgeID` may order two equal ids that are not standardized.
* Instants before the epoch with a fraction of a second are rounded towards zero and their fraction wraps in an unsigned
  field, so that they come after the positive fractions of the second they are put in; the order of local datetimes in
  an hour that daylight saving repeats is that of the clock.
* Microseconds of a duration are never carried into seconds; sums of weeks are 32 bits wide. `toString` pads a negative
  remainder with zeros on its left (`{:0>6}`, `Duration.h:138-143`), so the sign stands inside the digits: -5 us is
  `0.0000-5000S`.
* `isTrivialType(kBytes)` throws; `unableInline` does not refuse `Ref`, `Bytes` and `Null`, which `Value` keeps behind
  pointers; a node or edge type of a graph reference is shared between its clones.
* Categories of errors: BACKUP, LICENSE and CLIENT errors get the category U (`ErrorCode.h`).

## 5. Proofs

Everything below is checked by TLAPS for every value of the constants that meets the assumptions at
the end of this section. Each invariant is proved the same way: an inductive invariant holds at the
start, every action keeps it, and it implies the property.

**The engine** (`ComputingEngineProofs`).

* Chunks are disjoint (`ChunksDisjoint`) and cover the container (`ChunksCover`). Under `SmallPool`,
  (threads - 1)^2 <= threshold, none is reversed (`ChunksValid`): the task size is less than
  range/threads + 1, so the last chunk starts before the end when range >= (threads - 1)^2. With
  the code's threshold this holds up to 71 threads.
* `AppliedExactlyOnce` and `NoOrphansLeft`, for any pool, callers and calls, exceptions included.
  The invariant has three parts: `QueueInv` (a queued task was submitted, is unfinished and is queued
  once), `CallInv` (only submitted tasks finish, a returned call has only finished ones) and `ChunkInv`
  (elements before `at[t]` were handled once, the others not yet). `QueueInv` is what makes the
  worker at the head of a queue the only one to touch a task; `ChunksDisjoint` is what keeps two
  tasks from one element. `SmallPoolSubmits`: in a small pool no call throws.
* `ResultsInOrder`: for any pool, callers and calls, and whatever order the tasks run and finish in, the result of a
  call that has returned holds exactly the elements that one thread would keep, each once and in the container's
  order. `FilledInv` is the invariant: the vector of a task is ascending and holds exactly the elements added between the
  start of its chunk and `at[t]`, none of which threw. So a task that is done has its whole chunk (`DoneTask`), and a
  failed one an element that throws (`FailedTask`). Chunks of smaller numbers hold smaller elements (`ChunksOrdered`),
  hence splicing the vectors by number, not by the time they were ready, keeps them ascending (`Joined`, `Flattening`). The
  concatenation of any number of vectors is unfolded by an induction over sets without a predicate (`FlatExists`, `Flat`).

**The merge loop** (`TopoPropagationProofs`).

* `TypeCorrect`.
* `IslandsApart`: the invariant also bounds the ids of the closed switches next to the island and
  says that no raise of an island's CN is under way (`IslandInv`), with `ClosedOnly`.
* `AgreementAtExit` counts: `Raised(n)` says that n raises were counted in this round, that n plus
  the pairs still to do is at most the number of edges, and that while n = 0 all comparisons so far
  still hold. Hence equal counters at the test mean n = 0, because n is less than `CounterMod`, and
  then the comparisons of a whole round hold at once. `FrontierKept` says that the frontier never
  loses a CN of the first one that has a closed switch.
* `SeededIds`: for any seeds, -1 included, and any number of tasks, an island of 0 and one other id keeps to these ids
  until two tasks raise one of its CNs at the same time. `SeededInv` says that while nothing was shared at most one pair
  of a CN is between its comparison and its write, so what was compared still holds when it is added and the sum is that of
  0 and the seed. The rest of the network may raise its ids without end: `Isolated` and `ClosedOnly` keep it apart.
  `SeededAlone`: with so few switches that a map over them is one task, nothing is ever shared (`OneAtATime`).
  `topo_merge_race` shows that the hypothesis is needed.

**Building** (`TopoBuildProofs`). `Seeding` rests on `SeedInv`: an id that was set is the number of a
device already handled, and no smaller than that of any other. `DevicesFollow` rests on `MapInv`: a
pair that was handled leaves a device that has the id of one of its CNs *or is about to be
written*; a device between its comparison and its write is the case a state-by-state argument
misses. `EdgesSupported` rests on `AnchorInv`: nothing but its own CN writes to a device at one CN, so
the test of equal ids succeeds when its pair is handled, and that inserts the TopoND.

**Positions** (`TopoSelectProofs`). `WrittenInv` says that what a switch was given so far in a stage comes from one of the
flagged edges of that stage, whichever task came last; `Measured(s, label)` is the position that a stage with these
names decides, and the second stage replaces it for the switches it reaches and for no other. `Positions` is about the two
stages, `PositionsSelected` about the run until the devices are selected.

**edgeMap** (`EdgeMapProofs`). `CallFindsTargets`: every passing edge is still waiting, tested or applied
(sparse), or its target is waiting or some edge to it is tested or applied (dense): `OneCallInv`.
`SearchFindsDistances`: `Search(k)` says that the frontier is the set at distance k, that distances up
to k agree with the reference `Ball`, that the call under way records exactly what it gives distance
k + 1, and that a vertex without a distance is still waiting or tested by some edge. That the
last empty frontier closes the search needs an induction over lengths of paths. It is done over sets
(a least element of the set of counterexamples, `Induction`), as the unfolding of `Ball` is (`BallIs`).

**Edges and calculation points** (`FromToCpProofs`). `Compensators`: `SideInv` ties a side to the id of
the CN that names it as soon as that CN was handled, and `MadeInv` the edge to the two sides;
`ToIntKeeps` says which ids the conversion to int keeps. `Branches`: `BranchInv` tells for every edge what it
was made from, and by `BranchAssumption` two ends of a branch give it the same magnitude. `LineNumbers`
needs the table of the 25 stages (`StageTable`) and the subsets they start from (`SubsetIs`). `ValueInv` bounds the
values that tasks hold. `CountInv`: while a counting stage runs, a TopoND has counted the visits whose task has written,
`Lines(n, i) \ Open(n)`; visits are edges (`VisitsAreEdges`), and list entries are written by visits that an
earlier stage counted (`ListedAreCounted`), so no count is 0.

**Modules and timers** (`ServicesProofs`). `HeldModules` and `HolderCounts`: the count is right only
between the functions of a holder. The invariant `OwnInv(own)` has a ghost function, `own`, with the
module that each holder has its reference to: its target, except for the holder that a function is
working on, which has none between `unref()` and `ref()`; of the two holders of a move only one has it.
`Copying`, `Moving`, `Resetting` and `Calling` give for each list of steps what is owned before each step;
the count is 1 plus the number of owners at all times. `Purges` and `DelayedTasks`: `NumbersInv`,
the next id of a worker is the number of the tasks it was given, hence within the mask; `TimerInv`,
timers of one worker differ in their ids and no task has two; `IdInv`, the timer that an id names on
its worker, if there still is one, is that of the task it was given for; `PurgeInv`, every purge under way is for
such an id. A delayed task has no id, so no purge reaches it.

**Memory trackers** (`ServicesProofs`). `LayersMeet` and `BlocksMeet`, for any tree of queries and operators, any
limits, reservations and sizes, and any interleaving of the single operations of the calls. What the two
properties say holds between calls only; during a call counters of different layers disagree. The
inductive invariant `TrackerInv` says by how much: `Books` closes the accounts of every layer *up to what
each operator owes*, its query (x), Global through its query (y) and the count of blocks (z), and `Stage` tells
from the list of operations that a call has still to do what that operator owes: nothing when the list
is empty. A call passes through a few stages (`Asking`: a block is asked for, `Returning`: one is given back,
piece by piece, `Frees`: a piece is taken off the counters, `Ending`: the own counters change;
`Leaving`: the destructor). Each operation moves
bytes between two counters or between a counter and a debt (`Balanced`, one lemma per operation).
The unlocked load of a query's reservation decides how much is asked of Global, and two operators may
decide by the same value; the proof does not need that value to be current, because what is asked
for is added and what is used is taken off, both atomically. `Dead` is needed for the last clause
of `LayersAgree`: a query that is gone has no operator in a call. `Signs` is what `BlocksMeet` adds: the bytes by which
blocks and counts differ have the sign of the failures in `missed`, since a refused reallocation keeps a block and a
`std::bad_alloc` a charge; a failed reallocation without memory does both. The sums are folds over finite sets
(`MapThenSumSet`); `SumsExist` shows that the recursive function behind it exists, and `SumChange` how a sum
changes with one summand, both by an induction over subsets without a predicate (`SubsetInduction`).

**Cells, edge ids, time, numbers, kinds** (`DataProofs`).

* `Atomicity`, the refinement of `CellSpec`. `LoopInv` says that `newV` belongs to `oldV`; when the
  compare-and-swap succeeds the cell equals `oldV`, so the step writes what `CellSpec` writes now,
  whatever happened in between. That is why a change that was undone does no harm. `TypeCorrect` with it.
* `EdgesOnce`: for ids of the catalog, equality of the code, equality of the standard forms and
  equality of the edge named are the same relation (`EqualIsSame`, `StandardIsSame`, `NamedIsSame`), and
  `operator<` is total on standard forms (`OrderedIDs`, from a lemma on lexicographic orders).
  `EdgeInv` says that the set holds ids of the catalog and one per edge. `BothEnds` follows from
  the arithmetic of the two direction bits (`SplitBits`, `Reversed`).
* `DurationsExact`: `DurationInv` is the sum of the fields; the parts are bounded and signed by what a remainder
  towards zero is. The getters nest remainders towards zero, for which
  `RemainderTwice` says that a remainder by a multiple can be taken first, for either sign.
* `DatetimesOrdered`: `MomentInv` says that a datetime is that of the *tick* of its clock, the second together with the
  fraction as the unsigned field holds it (`TickOf`), also after its date and time were taken apart and put together
  (`Recombined`, `TickParts`). Its fields are then digits of mixed radix, whose lexicographic order is that of the numbers
  (`DigitOrder`, `DigitsTwice`; `DateOrder` and `TimeOrder` for the two halves). Negative fractions become ticks from the
  end of the field's range, which is at least twice a second wide, so none meets a positive one.
* `NumbersKept`: `ValueInv` says that a value is the number it should be and a number of its own kind, or that
  the last result was nothing and no `int64_t` is that number. Without the second part a cast could
  lose bits that the first does not show. `Casts` and `WidensKeeps` give what a cast keeps,
  `SignedNegated` and `UnsignedTransformed` what becomes of a literal at the limits of every width.
* `KindsAgree`: a value always has a kind that `Value` can hold (`HeldInv`), and for each of these the tables of
  traits, of dispatch and of kinds kept inline agree (`TablesAgree`), the kinds for which a dispatch throws included. The tables are read row by row: a few forms of
  rows (`FlagsRow`, `PlainRow`, `NumericRow`) decide for every kind whether its four types are one.

Assumptions on constants.

* A pool has a thread; the network of the merge loop is finite and has fewer edges than the counter has
  values; seeds are words of at least -1; `Half` and `IntHalf` are positive.
* `ConnectAssumption`: no two open CNs have the same `CN_id`, and a line or transformer end in use has an
  open CN (`TopoBuild` gives it the CN's id). `BranchAssumption`: a branch has one resistance
  up to its sign from whichever end it is read, and lines, transformers and compensators are different
  objects. `SchemaAssumption`: edges of a switch join it to a CN, edges of a line end join it to a CN,
  no line end is a CN or TopoND; the memory graph is finite. These describe the graph the procedure is given; the code
  relies on them silently.
* There are finitely many holders, queries, operators and sizes of blocks; blocks and reservations have at
  least one byte; a tracker is of one layer; workers get no more timers than an id can tell apart (2^48 in the code).
* Units of time are positive, amounts are integers; the field `microsec` holds twice the microseconds of a second (22 bits
  for a million in the code). The offset of the zone is any function of the second. The
  calendar has equal months, like the one TLC uses.
* Powers of two are positive and each is twice the one before (`PowersAssumption` and parts of two others). The
  provers have no fact about powers; TLC evaluates these.

Only model-checked, and why:

* All liveness: there are no rules for fairness here.
* `SizesExact`, `RoundTrip`, `CloneKeepsShape`, `SupertypeIsInclusion`: they are about messages and type objects that are
  nested to any depth, whose readers, writers and copies are recursive operators; the prover has no induction for these.

## 6. Not modelled

* The bodies that are not in the repository: the event loop of `GenericWorker` with `start`, `stop`
  and `wait`, `VertexSubset`, `MemGraph`, `insertNode`/`insertEdge`, `ModuleManager`, the writer of
  `Value`. They enter as the code in the repository uses them.
* Properties of nodes and edges that only travel through (names, voltages, limits).
* The alignment of allocated blocks. Peaks, histograms and changes of limits of the trackers; the cells of the result table.
* Printing (`toString` of durations and datetimes), error tables, audit messages, contexts of remote calls, the build: nothing there changes
  state. `numeric_limits` overflow of durations and of `system_clock` is left out by bounds.

## 7. Plan

One proof is left: the refinement of a map of the engine to the set of element steps that the other modules use. Its
parts are proved (`AppliedExactlyOnce`, `NoOrphansLeft`, `ResultsInOrder`); the abstract specification of a map, and
the mapping to it, are not stated yet.
