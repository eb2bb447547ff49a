--------------------------- MODULE ComputingEngine ---------------------------
(***************************************************************************)
(* ComputingEngine::parallelFor, parallelFilter and parallelReduce as      *)
(* called through runOnCurrentThread (ComputingEngine.h), on the shared    *)
(* GenericThreadPool.  Each caller makes one call.  It copies the chunks   *)
(* of its container into tasks, hands them to the workers in turn and      *)
(* waits; a worker runs its tasks first in, first out, without preemption. *)
(* An element is its position in the container, from 0, and f either       *)
(* handles it, possibly adding it to the task's vector, or throws.         *)
(*                                                                         *)
(* The aggregates that parallelReduce folds from an uninitialised value    *)
(* are discarded by the code and left out.                                 *)
(***************************************************************************)
EXTENDS Naturals, Sequences, SequencesExt, SplitTasks

CONSTANTS
    Caller,     \* threads that run an algorithm
    Calls,      \* the calls they may make: the operation, the container's
                \* size, the positions f adds, the positions where f throws
    Workloads   \* which calls they make at the same time

Worker == 0 .. (NumThreads - 1)
Index == 0 .. (NumThreads - 1)      \* no call has more tasks than threads
Operation == {"for", "filter", "reduce"}

ASSUME CallAssumption ==
    /\ \A k \in Calls :
          /\ k.op \in Operation
          /\ k.range \in Nat
          /\ k.adds \subseteq Nat
          /\ k.throws \subseteq Nat
    /\ Workloads \subseteq [Caller -> Calls]

VARIABLES
    call,           \* the call of each caller (input, never assigned)
    pc,             \* where each caller is in its call
    next,           \* the loop counter i: the next task to submit
    nextThread,     \* GenericThreadPool::nextThread_, modulo nrThreads_
    pendingTasks,   \* GenericWorker::pendingTasks_, the running task first
    at,             \* the next element of each task's chunk c
    res,            \* the vector each task fills
    done,           \* tasks whose future holds a value
    failed,         \* tasks whose future holds an exception
    result,         \* what runOnCurrentThread returned
    applied         \* how often f was applied to each element (history)

vars == <<call, pc, next, nextThread, pendingTasks, at, res, done, failed,
          result, applied>>

Task == Caller \X Index
Tasks(c) == NumTasks(call[c].range)
Live(c) == {<<c, i>> : i \in 0 .. (Tasks(c) - 1)}
-----------------------------------------------------------------------------
Init ==
    /\ call \in Workloads
    /\ pc = [c \in Caller |-> "submit"]
    /\ next = [c \in Caller |-> 0]
    /\ nextThread = 0
    /\ pendingTasks = [w \in Worker |-> <<>>]
    /\ at = [t \in Task |-> From(call[t[1]].range, t[2])]
    /\ res = [t \in Task |-> <<>>]
    /\ done = {}
    /\ failed = {}
    /\ result = [c \in Caller |-> <<>>]
    /\ applied = [c \in Caller |-> [v \in 0 .. (call[c].range - 1) |-> 0]]

(* std::vector c(from, to) and threadPool_->addTask, for task i. *)
Submit(c) ==
    /\ pc[c] = "submit"
    /\ next[c] < Tasks(c)
    /\ ValidChunk(call[c].range, next[c])
    /\ pendingTasks' = [pendingTasks EXCEPT ![nextThread] =
                           Append(@, <<c, next[c]>>)]
    /\ nextThread' = (nextThread + 1) % NumThreads
    /\ next' = [next EXCEPT ![c] = @ + 1]
    /\ UNCHANGED <<call, pc, at, res, done, failed, result, applied>>

(* The constructor of c throws std::length_error in the caller, which      *)
(* leaves the call with the tasks it has submitted still on the pool.      *)
SubmitThrows(c) ==
    /\ pc[c] = "submit"
    /\ next[c] < Tasks(c)
    /\ ~ValidChunk(call[c].range, next[c])
    /\ pc' = [pc EXCEPT ![c] = "threw"]
    /\ UNCHANGED <<call, next, nextThread, pendingTasks, at, res, done, failed,
                   result, applied>>

(* The loop ends; get() waits for collectAll(futures). *)
Wait(c) ==
    /\ pc[c] = "submit"
    /\ next[c] = Tasks(c)
    /\ pc' = [pc EXCEPT ![c] = "wait"]
    /\ UNCHANGED <<call, next, nextThread, pendingTasks, at, res, done, failed,
                   result, applied>>

-----------------------------------------------------------------------------
Busy(w) == pendingTasks[w] # <<>>
Running(w) == Head(pendingTasks[w])
CallOf(t) == call[t[1]]
ChunkLeft(t) == at[t] < To(CallOf(t).range, t[2])

(* What f adds to the vector for element v: parallelFor keeps the value of *)
(* every element, the others what f pushes.                                *)
Pushed(k, v) == IF k.op = "for" \/ v \in k.adds THEN <<v>> ELSE <<>>

(* Worker w applies f to the next element of its task. *)
Apply(w) ==
    /\ Busy(w)
    /\ LET t == Running(w) IN
        /\ ChunkLeft(t)
        /\ at[t] \notin CallOf(t).throws
        /\ res' = [res EXCEPT ![t] = @ \o Pushed(CallOf(t), at[t])]
        /\ applied' = [applied EXCEPT ![t[1]][at[t]] = @ + 1]
        /\ at' = [at EXCEPT ![t] = @ + 1]
    /\ UNCHANGED <<call, pc, next, nextThread, pendingTasks, done, failed, result>>

(* Mutant: an exception that no one stores in the promise. *)
ApplyThrowsUnseen(w) ==
    /\ Busy(w)
    /\ LET t == Running(w) IN
        /\ ChunkLeft(t)
        /\ at[t] \in CallOf(t).throws
    /\ pendingTasks' = [pendingTasks EXCEPT ![w] = Tail(@)]
    /\ UNCHANGED <<call, pc, next, nextThread, at, res, done, failed, result,
                   applied>>

(* f throws: the rest of the chunk is skipped and the promise fails. *)
ApplyThrows(w) ==
    /\ Busy(w)
    /\ LET t == Running(w) IN
        /\ ChunkLeft(t)
        /\ at[t] \in CallOf(t).throws
        /\ failed' = failed \cup {t}
    /\ pendingTasks' = [pendingTasks EXCEPT ![w] = Tail(@)]
    /\ UNCHANGED <<call, pc, next, nextThread, at, res, done, result, applied>>

(* Mutant: a chunk that stops one element short. *)
FinishEarly(w) ==
    /\ Busy(w)
    /\ LET t == Running(w) IN
        /\ at[t] + 1 >= To(CallOf(t).range, t[2])
        /\ done' = done \cup {t}
    /\ pendingTasks' = [pendingTasks EXCEPT ![w] = Tail(@)]
    /\ UNCHANGED <<call, pc, next, nextThread, at, res, failed, result, applied>>

(* The chunk is handled: promise->setWith gets the vector. *)
Finish(w) ==
    /\ Busy(w)
    /\ LET t == Running(w) IN
        /\ ~ChunkLeft(t)
        /\ done' = done \cup {t}
    /\ pendingTasks' = [pendingTasks EXCEPT ![w] = Tail(@)]
    /\ UNCHANGED <<call, pc, next, nextThread, at, res, failed, result, applied>>

-----------------------------------------------------------------------------
(* The vectors of the tasks in order.  parallelFor and parallelFilter      *)
(* rethrow the first exception, which runOnCurrentThread turns into T{};   *)
(* parallelReduce leaves out the tasks that failed.                        *)
Collected(c) ==
    LET Part(i) == IF <<c, i>> \in done THEN res[<<c, i>>] ELSE <<>>
    IN  IF call[c].op # "reduce" /\ Live(c) \cap failed # {} THEN <<>>
        ELSE FlattenSeq([i \in 1 .. Tasks(c) |-> Part(i - 1)])

(* Mutant: folly::collect, which is ready at the first failure. *)
CollectAtFailure(c) ==
    /\ pc[c] = "wait"
    /\ Live(c) \subseteq done \/ Live(c) \cap failed # {}
    /\ result' = [result EXCEPT ![c] = Collected(c)]
    /\ pc' = [pc EXCEPT ![c] = "returned"]
    /\ UNCHANGED <<call, next, nextThread, pendingTasks, at, res, done, failed,
                   applied>>

(* Mutant: parallelFilter and parallelFor that skip failed tasks too. *)
CollectSkipsFailed(c) ==
    /\ pc[c] = "wait"
    /\ Live(c) \subseteq done \cup failed
    /\ result' = [result EXCEPT ![c] =
          FlattenSeq([i \in 1 .. Tasks(c) |->
              IF <<c, i - 1>> \in done THEN res[<<c, i - 1>>] ELSE <<>>])]
    /\ pc' = [pc EXCEPT ![c] = "returned"]
    /\ UNCHANGED <<call, next, nextThread, pendingTasks, at, res, done, failed,
                   applied>>

(* Every future is ready: the caller gets the result. *)
Collect(c) ==
    /\ pc[c] = "wait"
    /\ Live(c) \subseteq done \cup failed
    /\ result' = [result EXCEPT ![c] = Collected(c)]
    /\ pc' = [pc EXCEPT ![c] = "returned"]
    /\ UNCHANGED <<call, next, nextThread, pendingTasks, at, res, done, failed,
                   applied>>

Next ==
    \/ \E c \in Caller : Submit(c) \/ SubmitThrows(c) \/ Wait(c) \/ Collect(c)
    \/ \E w \in Worker : Apply(w) \/ ApplyThrows(w) \/ Finish(w)

Spec == Init /\ [][Next]_vars

(* Every thread keeps running: the callers, and the event loops of the     *)
(* workers, which addTask notifies after it has queued a task.             *)
FairSpec ==
    /\ Spec
    /\ \A c \in Caller :
          WF_vars(Submit(c) \/ SubmitThrows(c) \/ Wait(c) \/ Collect(c))
    /\ \A w \in Worker : WF_vars(Apply(w) \/ ApplyThrows(w) \/ Finish(w))
-----------------------------------------------------------------------------
TasksOK ==
    /\ call \in [Caller -> Calls]
    /\ pc \in [Caller -> {"submit", "wait", "returned", "threw"}]
    /\ next \in [Caller -> 0 .. NumThreads]
    /\ nextThread \in Worker
    /\ pendingTasks \in [Worker -> Seq(Task)]
    /\ at \in [Task -> Nat]
    /\ res \in [Task -> Seq(Nat)]
    /\ done \subseteq Task
    /\ failed \subseteq Task
    /\ applied = [c \in Caller |-> applied[c]]
    /\ \A c \in Caller : applied[c] \in [0 .. (call[c].range - 1) -> Nat]

(* When a call has returned, whatever its functions threw, none of its     *)
(* tasks is queued or running: the functions that VertexSubset and the     *)
(* algorithms pass capture locals of the caller by reference.              *)
NoOrphans ==
    \A c \in Caller : pc[c] = "returned" =>
        \A w \in Worker : \A n \in 1 .. Len(pendingTasks[w]) :
            pendingTasks[w][n][1] # c

(* f was applied to every element at most once; and, when the call has     *)
(* returned, exactly once to those with no throwing element before them in *)
(* their chunk - whatever the other tasks did.                             *)
AppliedOnce ==
    \A c \in Caller : \A i \in 0 .. (Tasks(c) - 1) :
        \A v \in Chunk(call[c].range, i) :
            /\ applied[c][v] <= 1
            /\ (/\ pc[c] = "returned"
                /\ \A u \in Chunk(call[c].range, i) :
                      u \in call[c].throws => v < u)
               => applied[c][v] = 1

(* Whether one thread would keep element v: f adds it, and there was no    *)
(* exception; for parallelReduce, none in its chunk.                       *)
Kept(c, v) ==
    LET k == call[c]
        Spoilt(x) == \E i \in 0 .. (Tasks(c) - 1) :
            x \in Chunk(k.range, i) /\ Chunk(k.range, i) \cap k.throws # {}
        Throws == \E x \in 0 .. (k.range - 1) : x \in k.throws
    IN  /\ k.op = "for" \/ v \in k.adds
        /\ IF k.op = "reduce" THEN ~Spoilt(v) ELSE ~Throws

Ascending(s) == \A i, j \in DOMAIN s : i < j => s[i] < s[j]

(* A call that has returned gave what one thread would produce: with no    *)
(* exception the elements f adds, each once, in the container's order;     *)
(* with one, nothing, and from parallelReduce the elements of the chunks   *)
(* that had none (ComputingEngine.h, collectAll and the loop over its      *)
(* results).                                                               *)
SequentialResult ==
    \A c \in Caller : pc[c] = "returned" =>
        /\ Range(result[c]) = {v \in 0 .. (call[c].range - 1) : Kept(c, v)}
        /\ Ascending(result[c])

(* No call leaves by an exception of its own while its tasks run on. *)
NeverThrew == \A c \in Caller : pc[c] # "threw"

(* No caller is left waiting on the pool, whatever its functions throw and *)
(* however its container is cut: the call returns or throws.               *)
CallEnds == \A c \in Caller : <>(pc[c] \in {"returned", "threw"})
-----------------------------------------------------------------------------
(* The inductive invariants of the proofs in ComputingEngineProofs. *)

(* A queued task was submitted, is not finished and is queued once. *)
QueueInv ==
    /\ \A w \in Worker : \A n \in 1 .. Len(pendingTasks[w]) :
          LET t == pendingTasks[w][n] IN
          /\ t[2] < next[t[1]]
          /\ t \notin done \cup failed
    /\ \A w, x \in Worker :
          \A n \in 1 .. Len(pendingTasks[w]), m \in 1 .. Len(pendingTasks[x]) :
              pendingTasks[w][n] = pendingTasks[x][m] => w = x /\ n = m

(* No more tasks are submitted than there are, only submitted ones finish, *)
(* and a call that has returned has only finished tasks.                   *)
CallInv ==
    \A c \in Caller :
        /\ next[c] <= Tasks(c)
        /\ \A i \in Index : <<c, i>> \in done \cup failed => i < next[c]
        /\ pc[c] = "returned" => Live(c) \subseteq done \cup failed

(* The elements before at[t] were handled once, the others not yet; a      *)
(* finished task is at the end of its chunk or at an element that throws.  *)
ChunkInv ==
    \A c \in Caller : \A i \in 0 .. (Tasks(c) - 1) :
        LET t == <<c, i>> IN
        /\ at[t] >= From(call[c].range, i)
        /\ \A v \in Chunk(call[c].range, i) :
              applied[c][v] = IF v < at[t] THEN 1 ELSE 0
        /\ t \in done => at[t] >= To(call[c].range, i)
        /\ t \in failed =>
              at[t] \in Chunk(call[c].range, i) \cap call[c].throws

(* The vector of a task holds what f added so far, in order, none of these *)
(* elements threw, and the task does not pass the end of its chunk.        *)
Filled(c, i) ==
    LET k == call[c]
        t == <<c, i>>
        handled == From(k.range, i) .. (at[t] - 1)
    IN  /\ Range(res[t]) = {v \in handled : k.op = "for" \/ v \in k.adds}
        /\ Ascending(res[t])
        /\ handled \cap k.throws = {}
        /\ at[t] <= To(k.range, i) \/ at[t] = From(k.range, i)

FilledInv ==
    /\ result = [c \in Caller |-> result[c]]
    /\ \A c \in Caller : \A i \in 0 .. (Tasks(c) - 1) : Filled(c, i)
=============================================================================
