------------------------------ MODULE SplitTasks ------------------------------
(***************************************************************************)
(* How ComputingEngine cuts a container into tasks for its thread pool:    *)
(* ComputingEngine::splitTasks and the begin/end arithmetic of             *)
(* parallelFor, parallelFilter and parallelReduce (ComputingEngine.h).     *)
(* Positions in the container are numbered from 0.                         *)
(***************************************************************************)
EXTENDS Integers

CONSTANTS
    NumThreads,         \* threadPool_->numThreads()
    ParallelThreshold   \* kParallelThreshold, 5000 in the code

ASSUME PoolAssumption ==
    /\ NumThreads \in Nat \ {0}
    /\ ParallelThreshold \in Nat

(* A short range, or one with fewer elements than threads, is one task. *)
OneTask(range) == range < ParallelThreshold \/ range < NumThreads

(* The two members of the pair that splitTasks returns. *)
NumTasks(range) == IF OneTask(range) THEN 1 ELSE NumThreads

TaskSize(range) ==
    IF OneTask(range) THEN range
    ELSE IF range % NumThreads # 0 THEN range \div NumThreads + 1
    ELSE range \div NumThreads

(* from and to of task i, for i in 0 .. NumTasks(range)-1. *)
From(range, i) == i * TaskSize(range)
To(range, i) ==
    IF From(range, i) + TaskSize(range) >= range THEN range
    ELSE From(range, i) + TaskSize(range)

(* std::vector c(from, to): the positions it copies.  With to before from  *)
(* its constructor throws.                                                 *)
ValidChunk(range, i) == From(range, i) <= To(range, i)
Chunk(range, i) == From(range, i) .. (To(range, i) - 1)
=============================================================================
