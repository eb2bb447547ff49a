------------------------ MODULE ComputingEngineProofs ------------------------
(***************************************************************************)
(* Proofs about the calls of ComputingEngine, for every number of callers  *)
(* and threads, every container and every set of elements that throw.      *)
(***************************************************************************)
EXTENDS ComputingEngine, WellFoundedInduction, TLAPS

(* The cut of a container into chunks, for every pool and every size.      *)

(* Division with remainder, by the number of threads. *)
LEMMA Euclid ==
    ASSUME NEW r \in Nat, NEW n \in Nat \ {0}
    PROVE  /\ r \div n \in Nat
           /\ r % n \in 0 .. (n - 1)
           /\ r = n * (r \div n) + (r % n)
  OBVIOUS

(* Multiplication is monotone. *)
LEMMA TimesMonotone ==
    ASSUME NEW a \in Nat, NEW b \in Nat, NEW s \in Nat, a <= b
    PROVE  a * s \in Nat /\ b * s \in Nat /\ a * s <= b * s
  BY SMTT(30)

LEMMA SplitTypes ==
    ASSUME NEW r \in Nat
    PROVE  /\ NumTasks(r) \in 1 .. NumThreads
           /\ TaskSize(r) \in Nat
           /\ NumTasks(r) * TaskSize(r) >= r
<1>1. CASE OneTask(r)
  BY <1>1, PoolAssumption DEF NumTasks, TaskSize
<1>2. CASE ~OneTask(r)
  <2>1. /\ r \div NumThreads \in Nat
        /\ r % NumThreads \in 0 .. (NumThreads - 1)
        /\ r = NumThreads * (r \div NumThreads) + (r % NumThreads)
    BY Euclid, PoolAssumption
  <2> QED BY <1>2, <2>1, PoolAssumption DEF NumTasks, TaskSize
<1> QED BY <1>1, <1>2

(* A task's chunk lies in the container, and starts at its own multiple. *)
LEMMA ChunkBounds ==
    ASSUME NEW r \in Nat, NEW i \in Nat
    PROVE  /\ From(r, i) \in Nat
           /\ To(r, i) \in Nat
           /\ To(r, i) <= r
           /\ To(r, i) <= From(r, i) + TaskSize(r)
           /\ From(r, i) + TaskSize(r) = (i + 1) * TaskSize(r)
<1>1. TaskSize(r) \in Nat
  BY SplitTypes
<1>2. i * TaskSize(r) \in Nat /\ (i + 1) * TaskSize(r) = i * TaskSize(r) + TaskSize(r)
  BY <1>1, SMTT(30)
<1> QED BY <1>1, <1>2 DEF From, To

(* No element is in two chunks. *)
THEOREM ChunksDisjoint ==
    ASSUME NEW r \in Nat, NEW i \in Nat, NEW j \in Nat,
           NEW v \in Chunk(r, i) \cap Chunk(r, j)
    PROVE  i = j
<1>1. ASSUME NEW a \in Nat, NEW b \in Nat, a < b,
             v \in Chunk(r, a), v \in Chunk(r, b)
      PROVE  FALSE
  <2>1. v < (a + 1) * TaskSize(r) /\ v >= b * TaskSize(r) /\ v \in Int
    <3>1. /\ To(r, a) \in Nat /\ To(r, a) <= (a + 1) * TaskSize(r)
          /\ From(r, a) \in Nat
      BY ChunkBounds
    <3>2. From(r, b) = b * TaskSize(r) /\ From(r, b) \in Nat
      BY ChunkBounds DEF From
    <3>3. (a + 1) * TaskSize(r) \in Nat
      BY TimesMonotone, SplitTypes
    <3>4. v \in Int /\ v < To(r, a) /\ v >= From(r, b)
      BY <1>1, <3>1 DEF Chunk
    <3> QED BY <3>1, <3>2, <3>3, <3>4
  <2>2. (a + 1) * TaskSize(r) <= b * TaskSize(r)
    BY <1>1, TimesMonotone, SplitTypes
  <2>3. /\ (a + 1) * TaskSize(r) \in Nat
        /\ b * TaskSize(r) \in Nat
    BY <1>1, TimesMonotone, SplitTypes
  <2> QED BY <2>1, <2>2, <2>3
<1> QED BY <1>1

(* Every element is in the chunk of some task. *)
THEOREM ChunksCover ==
    ASSUME NEW r \in Nat, NEW v \in 0 .. (r - 1)
    PROVE  \E i \in 0 .. (NumTasks(r) - 1) : v \in Chunk(r, i)
<1> DEFINE s == TaskSize(r)
           i == v \div s
<1>1. s \in Nat \ {0}
  <2>1. s \in Nat /\ NumTasks(r) * s >= r /\ r > 0 /\ NumTasks(r) \in Nat
    BY SplitTypes, PoolAssumption
  <2>2. s # 0
    <3> HIDE DEF s
    <3> QED BY <2>1
  <2> QED BY <2>1, <2>2
<1> HIDE DEF s
<1>2. i \in Nat /\ v % s \in 0 .. (s - 1) /\ v = s * i + (v % s)
  <2>1. v \in Nat
    OBVIOUS
  <2> QED BY <1>1, <2>1, Euclid
<1> HIDE DEF i
<1>3. i * s <= v /\ v < (i + 1) * s
  BY <1>1, <1>2, SMTT(30)
<1>4. i < NumTasks(r)
  <2> SUFFICES ASSUME i >= NumTasks(r) PROVE FALSE
    BY <1>2, SplitTypes, PoolAssumption
  <2>1. NumTasks(r) \in Nat /\ NumTasks(r) * s >= r
    BY SplitTypes, PoolAssumption DEF s
  <2>2. NumTasks(r) * s <= i * s /\ NumTasks(r) * s \in Nat /\ i * s \in Nat
    BY <1>1, <1>2, <2>1, TimesMonotone
  <2> QED BY <1>3, <2>1, <2>2
<1>5. v \in Chunk(r, i)
  <2>1. From(r, i) = i * s /\ From(r, i) + s = (i + 1) * s
    BY <1>2, ChunkBounds DEF From, s
  <2>2. From(r, i) \in Nat /\ s \in Nat
    BY <1>1, <1>2, ChunkBounds
  <2> QED BY <1>3, <2>1, <2>2 DEF Chunk, To, s
<1> QED BY <1>2, <1>4, <1>5, SplitTypes, PoolAssumption

(* A pool small enough for the threshold: 71 threads at most in the code,  *)
(* whose threshold is 5000.                                                *)
SmallPool == (NumThreads - 1) * (NumThreads - 1) <= ParallelThreshold

(* In a small pool no chunk ends before it begins, so that no construction *)
(* of a chunk throws.                                                      *)
THEOREM ChunksValid ==
    ASSUME SmallPool, NEW r \in Nat, NEW i \in 0 .. (NumTasks(r) - 1)
    PROVE  ValidChunk(r, i)
<1> DEFINE n == NumThreads
           s == TaskSize(r)
<1>1. s \in Nat /\ i \in Nat /\ NumTasks(r) \in 1 .. n /\ n \in Nat
  BY SplitTypes, PoolAssumption
<1>2. (NumTasks(r) - 1) * s <= r
  <2>1. CASE OneTask(r)
    BY <2>1, <1>1 DEF NumTasks
  <2>2. CASE ~OneTask(r)
    <3> DEFINE q == r \div n
               m == r % n
    <3>1. q \in Nat /\ m \in 0 .. (n - 1) /\ r = n * q + m
      BY Euclid, PoolAssumption
    <3>2. NumTasks(r) = n /\ s = IF m # 0 THEN q + 1 ELSE q
      BY <2>2 DEF NumTasks, TaskSize
    <3>3. r >= (n - 1) * (n - 1)
      BY <2>2, <1>1, PoolAssumption DEF OneTask, SmallPool
    <3> HIDE DEF q, m, n, s
    <3>4. CASE m = 0
      BY <1>1, <3>1, <3>2, <3>4, SMTT(30)
    <3>5. CASE m # 0
      <4>1. q >= n - 2
        <5> SUFFICES ASSUME q + 1 <= n - 2 PROVE FALSE
          BY <1>1, <3>1
        <5>1. (q + 1) * n <= (n - 2) * n
          BY <1>1, <3>1, TimesMonotone
        <5> QED BY <1>1, <3>1, <3>3, <5>1, SMTT(30)
      <4>2. (n - 1) * (q + 1) = n * q - q + n - 1
        BY <1>1, <3>1, SMTT(30)
      <4> QED BY <1>1, <3>1, <3>2, <3>5, <4>1, <4>2
    <3> QED BY <3>4, <3>5
  <2> QED BY <2>1, <2>2
<1>3. i * s <= r
  <2>1. i <= NumTasks(r) - 1 /\ NumTasks(r) - 1 \in Nat
    BY <1>1
  <2>2. /\ i * s <= (NumTasks(r) - 1) * s
        /\ i * s \in Nat
        /\ (NumTasks(r) - 1) * s \in Nat
    BY <1>1, <2>1, TimesMonotone
  <2> QED BY <1>2, <2>2
<1>4. From(r, i) = i * s /\ From(r, i) \in Nat
  BY <1>1, ChunkBounds DEF From
<1> HIDE DEF s
<1>5. From(r, i) <= r /\ From(r, i) <= From(r, i) + s
  BY <1>1, <1>3, <1>4
<1> QED BY <1>5 DEF ValidChunk, To, s
-----------------------------------------------------------------------------
(* The calls. *)

(* The tasks of a call have an index, whatever its container. *)
LEMMA TasksType ==
    ASSUME TasksOK, NEW c \in Caller
    PROVE  call[c].range \in Nat /\ Tasks(c) \in 1 .. NumThreads
<1>1. call[c].range \in Nat
  BY CallAssumption DEF TasksOK
<1> QED BY <1>1, SplitTypes DEF Tasks

(* The task a busy worker runs, and the element it is at. *)
LEMMA RunningTask ==
    ASSUME TasksOK, QueueInv, CallInv, ChunkInv, NEW w \in Worker, Busy(w)
    PROVE  \E c \in Caller, i \in Index :
              /\ Running(w) = <<c, i>>
              /\ i \in 0 .. (Tasks(c) - 1)
              /\ i < next[c]
              /\ <<c, i>> \notin done \cup failed
              /\ at[<<c, i>>] >= From(call[c].range, i)
              /\ at[<<c, i>>] \in Nat
              /\ ChunkLeft(<<c, i>>) => at[<<c, i>>] \in Chunk(call[c].range, i)
<1>1. pendingTasks[w] \in Seq(Task) /\ pendingTasks[w] # <<>>
  BY DEF TasksOK, Busy
<1>2. 1 \in 1 .. Len(pendingTasks[w]) /\ Running(w) = pendingTasks[w][1]
  BY <1>1 DEF Running
<1>3. PICK c \in Caller, i \in Index : Running(w) = <<c, i>>
  BY <1>1, <1>2 DEF Task
<1>4. i < next[c] /\ <<c, i>> \notin done \cup failed
  <2>1. /\ pendingTasks[w][1][2] < next[pendingTasks[w][1][1]]
        /\ pendingTasks[w][1] \notin done \cup failed
    BY <1>2 DEF QueueInv
  <2> QED BY <1>2, <1>3, <2>1
<1>5. next[c] <= Tasks(c) /\ next[c] \in Nat
  BY PoolAssumption DEF CallInv, TasksOK
<1>6. Tasks(c) \in 1 .. NumThreads /\ call[c].range \in Nat
  BY TasksType
<1>7. i \in 0 .. (Tasks(c) - 1)
  BY <1>4, <1>5, <1>6, PoolAssumption DEF Index
<1>8. at[<<c, i>>] >= From(call[c].range, i) /\ at[<<c, i>>] \in Nat
  BY <1>7 DEF ChunkInv, TasksOK, Task
<1>9. ChunkLeft(<<c, i>>) => at[<<c, i>>] \in Chunk(call[c].range, i)
  <2>1. From(call[c].range, i) \in Nat /\ To(call[c].range, i) \in Nat
    BY <1>6, <1>7, ChunkBounds
  <2> QED BY <1>8, <2>1 DEF ChunkLeft, CallOf, Chunk
<1> QED BY <1>3, <1>4, <1>7, <1>8, <1>9

LEMMA TasksNext ==
    TasksOK /\ QueueInv /\ CallInv /\ ChunkInv /\ [Next]_vars => TasksOK'
<1> SUFFICES ASSUME TasksOK, QueueInv, CallInv, ChunkInv, [Next]_vars
             PROVE  TasksOK'
  OBVIOUS
<1>1. ASSUME NEW c \in Caller, Submit(c) PROVE TasksOK'
  <2>1. Tasks(c) \in 1 .. NumThreads /\ next[c] \in Nat /\ next[c] < Tasks(c)
    BY <1>1, TasksType, PoolAssumption DEF Submit, TasksOK
  <2>2. <<c, next[c]>> \in Task /\ next[c] + 1 \in 0 .. NumThreads
    BY <2>1, PoolAssumption DEF Task, Index
  <2>3. (nextThread + 1) % NumThreads \in Worker
    <3>1. nextThread + 1 \in Nat
      BY PoolAssumption DEF TasksOK, Worker
    <3> QED BY <3>1, Euclid, PoolAssumption DEF Worker
  <2>4. Append(pendingTasks[nextThread], <<c, next[c]>>) \in Seq(Task)
    BY <2>2 DEF TasksOK
  <2> QED BY <1>1, <2>2, <2>3, <2>4 DEF Submit, TasksOK
<1>2. ASSUME NEW c \in Caller, SubmitThrows(c) \/ Wait(c) \/ Collect(c)
      PROVE  TasksOK'
  BY <1>2 DEF SubmitThrows, Wait, Collect, TasksOK
<1>3. ASSUME NEW w \in Worker, Apply(w) PROVE TasksOK'
  <2>1. PICK c \in Caller, i \in Index :
          /\ Running(w) = <<c, i>>
          /\ i \in 0 .. (Tasks(c) - 1)
          /\ at[<<c, i>>] \in Nat
          /\ ChunkLeft(<<c, i>>) => at[<<c, i>>] \in Chunk(call[c].range, i)
    BY <1>3, RunningTask DEF Apply
  <2> DEFINE t == <<c, i>>
             v == at[t]
  <2>2. /\ res' = [res EXCEPT ![t] = @ \o Pushed(CallOf(t), v)]
        /\ applied' = [applied EXCEPT ![c][v] = @ + 1]
        /\ at' = [at EXCEPT ![t] = @ + 1]
        /\ UNCHANGED <<call, pc, next, nextThread, pendingTasks, done, failed>>
    BY <1>3, <2>1 DEF Apply
  <2>3. t \in Task /\ v \in Nat /\ v + 1 \in Nat
    BY <2>1 DEF Task
  <2>4. Pushed(CallOf(t), v) \in Seq(Nat)
    BY <2>3 DEF Pushed
  <2>5. res[t] \o Pushed(CallOf(t), v) \in Seq(Nat)
    BY <2>3, <2>4 DEF TasksOK
  <2>6. res' \in [Task -> Seq(Nat)] /\ at' \in [Task -> Nat]
    BY <2>2, <2>3, <2>5 DEF TasksOK
  <2>7. applied' = [d \in Caller |-> applied'[d]]
    BY <2>2 DEF TasksOK
  <2>8. \A d \in Caller : applied'[d] \in [0 .. (call[d].range - 1) -> Nat]
    <3> SUFFICES ASSUME NEW d \in Caller
                 PROVE  applied'[d] \in [0 .. (call[d].range - 1) -> Nat]
      OBVIOUS
    <3>1. applied[d] \in [0 .. (call[d].range - 1) -> Nat]
      BY DEF TasksOK
    <3>2. CASE d = c
      <4>1. applied'[c] = [applied[c] EXCEPT ![v] = @ + 1]
        BY <2>2 DEF TasksOK
      <4>2. v \in 0 .. (call[c].range - 1)
        <5>1. To(call[c].range, i) <= call[c].range /\ To(call[c].range, i) \in Nat
          <6>1. i \in Nat /\ call[c].range \in Nat
            BY TasksType, PoolAssumption DEF Index
          <6> QED BY <6>1, ChunkBounds
        <5>2. v < To(call[c].range, i)
          <6>1. at[t] < To(CallOf(t).range, t[2])
            BY <1>3, <2>1, Zenon DEF Apply, ChunkLeft
          <6>2. CallOf(t) = call[c] /\ t[2] = i
            BY DEF CallOf
          <6> QED BY <6>1, <6>2, Zenon
        <5>3. call[c].range \in Nat
          BY TasksType
        <5> QED BY ONLY <2>3, <5>1, <5>2, <5>3
      <4>3. applied[c] \in [0 .. (call[c].range - 1) -> Nat]
        BY DEF TasksOK
      <4> HIDE DEF v
      <4>4. applied[c][v] + 1 \in Nat
        <5>1. applied[c][v] \in Nat
          BY <4>2, <4>3, Zenon
        <5> QED BY <5>1
      <4>5. applied'[c] \in [0 .. (call[c].range - 1) -> Nat]
        BY <4>1, <4>3, <4>4
      <4> QED BY <3>2, <4>5
    <3>3. CASE d # c
      <4>1. applied'[d] = applied[d]
        BY <2>2, <3>3 DEF TasksOK
      <4> QED BY <3>1, <4>1
    <3> QED BY <3>2, <3>3
  <2> QED BY <2>2, <2>6, <2>7, <2>8 DEF TasksOK
<1>4. ASSUME NEW w \in Worker, ApplyThrows(w) \/ Finish(w) PROVE TasksOK'
  <2>1. Busy(w) /\ pendingTasks[w] \in Seq(Task) /\ pendingTasks[w] # <<>>
    BY <1>4 DEF ApplyThrows, Finish, TasksOK, Busy
  <2>2. Running(w) \in Task /\ Tail(pendingTasks[w]) \in Seq(Task)
    BY <2>1 DEF Running
  <2>3. pendingTasks' \in [Worker -> Seq(Task)]
    BY <1>4, <2>2 DEF ApplyThrows, Finish, TasksOK
  <2> QED BY <1>4, <2>2, <2>3 DEF ApplyThrows, Finish, TasksOK
<1>5. CASE UNCHANGED vars
  BY <1>5 DEF vars, TasksOK
<1> QED BY <1>1, <1>2, <1>3, <1>4, <1>5 DEF Next

-----------------------------------------------------------------------------
(* Where the tasks of the queues were before a step. *)
LEMMA QueueNext ==
    TasksOK /\ QueueInv /\ CallInv /\ ChunkInv /\ [Next]_vars => QueueInv'
<1> SUFFICES ASSUME TasksOK, QueueInv, CallInv, ChunkInv, [Next]_vars
             PROVE  QueueInv'
  OBVIOUS
<1>1. ASSUME NEW c \in Caller, Submit(c) PROVE QueueInv'
  <2> DEFINE t == <<c, next[c]>>
             q == nextThread
  <2>1. /\ pendingTasks' = [pendingTasks EXCEPT ![q] = Append(@, t)]
        /\ next' = [next EXCEPT ![c] = @ + 1]
        /\ UNCHANGED <<done, failed>>
    BY <1>1 DEF Submit
  <2>2. q \in Worker /\ \A w \in Worker : pendingTasks[w] \in Seq(Task)
    BY DEF TasksOK
  <2>3. \A d \in Caller : next[d] \in Nat /\ next'[d] \in Nat /\ next[d] <= next'[d]
    BY <2>1, PoolAssumption DEF TasksOK
  <2>4. next[c] \in Index
    <3>1. next[c] < Tasks(c) /\ Tasks(c) \in 1 .. NumThreads /\ next[c] \in Nat
      BY <1>1, <2>3, TasksType DEF Submit
    <3> QED BY <3>1, PoolAssumption DEF Index
  <2>5. t \notin done \cup failed
    BY <2>3, <2>4 DEF CallInv
  <2>6. ASSUME NEW w \in Worker, NEW n \in 1 .. Len(pendingTasks[w])
        PROVE  /\ pendingTasks[w][n] # t
               /\ pendingTasks[w][n] \notin done \cup failed
               /\ pendingTasks[w][n][2] < next'[pendingTasks[w][n][1]]
    <3>1. PICK d \in Caller, j \in Index : pendingTasks[w][n] = <<d, j>>
      BY <2>2 DEF Task
    <3>2. j < next[d] /\ pendingTasks[w][n] \notin done \cup failed
      <4>1. /\ pendingTasks[w][n][2] < next[pendingTasks[w][n][1]]
            /\ pendingTasks[w][n] \notin done \cup failed
        BY DEF QueueInv
      <4> QED BY <3>1, <4>1
    <3>3. j < next'[d]
      BY <2>3, <3>2, PoolAssumption DEF Index
    <3>4. <<d, j>> # t
      BY <2>3, <3>2, PoolAssumption DEF Index
    <3> QED BY <3>1, <3>2, <3>3, <3>4
  <2>7. next[c] < next'[c]
    BY <2>1, <2>3 DEF TasksOK
  <2>8. ASSUME NEW w \in Worker, NEW n \in 1 .. Len(pendingTasks'[w])
        PROVE  \/ n \in 1 .. Len(pendingTasks[w]) /\ pendingTasks'[w][n] = pendingTasks[w][n]
               \/ w = q /\ n = Len(pendingTasks[q]) + 1 /\ pendingTasks'[w][n] = t
    <3>1. CASE w = q
      <4>1. pendingTasks'[w] = Append(pendingTasks[w], t)
        BY <2>1, <2>2, <3>1 DEF TasksOK
      <4> QED BY <2>2, <2>8, <3>1, <4>1
    <3>2. CASE w # q
      BY <2>1, <2>8, <3>2 DEF TasksOK
    <3> QED BY <3>1, <3>2
  <2>9. ASSUME NEW w \in Worker, NEW n \in 1 .. Len(pendingTasks'[w])
        PROVE  /\ pendingTasks'[w][n][2] < next'[pendingTasks'[w][n][1]]
               /\ pendingTasks'[w][n] \notin done \cup failed
    <3>1. CASE n \in 1 .. Len(pendingTasks[w]) /\ pendingTasks'[w][n] = pendingTasks[w][n]
      BY <2>6, <3>1, Zenon
    <3>2. CASE pendingTasks'[w][n] = t
      <4>1. t[2] < next'[t[1]] /\ t \notin done \cup failed
        BY <2>5, <2>7
      <4> QED BY <3>2, <4>1, Zenon
    <3> QED BY <2>8, <2>9, <3>1, <3>2, Zenon
  <2>10. ASSUME NEW w \in Worker, NEW x \in Worker,
                NEW n \in 1 .. Len(pendingTasks'[w]),
                NEW m \in 1 .. Len(pendingTasks'[x]),
                pendingTasks'[w][n] = pendingTasks'[x][m]
         PROVE  w = x /\ n = m
    <3> HIDE DEF t
    <3>1. \/ n \in 1 .. Len(pendingTasks[w]) /\ pendingTasks'[w][n] = pendingTasks[w][n]
          \/ w = q /\ n = Len(pendingTasks[q]) + 1 /\ pendingTasks'[w][n] = t
      BY <2>8
    <3>2. \/ m \in 1 .. Len(pendingTasks[x]) /\ pendingTasks'[x][m] = pendingTasks[x][m]
          \/ x = q /\ m = Len(pendingTasks[q]) + 1 /\ pendingTasks'[x][m] = t
      BY <2>8
    <3>3. /\ n \in 1 .. Len(pendingTasks[w]) => pendingTasks[w][n] # t
          /\ m \in 1 .. Len(pendingTasks[x]) => pendingTasks[x][m] # t
      BY <2>6
    <3> QED BY <2>10, <3>1, <3>2, <3>3 DEF QueueInv
  <2> QED BY <2>1, <2>9, <2>10 DEF QueueInv
<1>2. ASSUME NEW c \in Caller, SubmitThrows(c) \/ Wait(c) \/ Collect(c)
      PROVE  QueueInv'
  BY <1>2 DEF SubmitThrows, Wait, Collect, QueueInv
<1>3. ASSUME NEW w \in Worker, Apply(w) PROVE QueueInv'
  BY <1>3 DEF Apply, QueueInv
<1>4. ASSUME NEW w \in Worker, ApplyThrows(w) \/ Finish(w) PROVE QueueInv'
  <2> DEFINE t == Running(w)
  <2>1. /\ pendingTasks' = [pendingTasks EXCEPT ![w] = Tail(@)]
        /\ done' \cup failed' = done \cup failed \cup {t}
        /\ next' = next
        /\ pendingTasks[w] # <<>>
    BY <1>4 DEF ApplyThrows, Finish, Busy
  <2>2. \A x \in Worker : pendingTasks[x] \in Seq(Task)
    BY DEF TasksOK
  <2>3. t = pendingTasks[w][1] /\ 1 \in 1 .. Len(pendingTasks[w])
    BY <2>1, <2>2 DEF Running
  <2> DEFINE pos(x, n) == IF x = w THEN n + 1 ELSE n
  <2>4. ASSUME NEW x \in Worker, NEW n \in 1 .. Len(pendingTasks'[x])
        PROVE  /\ pos(x, n) \in 1 .. Len(pendingTasks[x])
               /\ pendingTasks'[x][n] = pendingTasks[x][pos(x, n)]
               /\ x = w => pos(x, n) # 1
    <3>1. CASE x = w
      <4>1. pendingTasks'[x] = Tail(pendingTasks[x])
        BY <2>1, <3>1 DEF TasksOK
      <4>2. pendingTasks[x] \in Seq(Task) /\ pendingTasks[x] # <<>>
        BY <2>1, <2>2, <3>1
      <4>3. /\ Len(Tail(pendingTasks[x])) = Len(pendingTasks[x]) - 1
            /\ Len(pendingTasks[x]) \in Nat
            /\ \A k \in 1 .. (Len(pendingTasks[x]) - 1) :
                  Tail(pendingTasks[x])[k] = pendingTasks[x][k + 1]
        BY <4>2
      <4>4. n \in 1 .. (Len(pendingTasks[x]) - 1)
        BY <2>4, <4>1, <4>3
      <4> QED BY <3>1, <4>1, <4>3, <4>4
    <3>2. CASE x # w
      BY <2>1, <2>4, <3>2 DEF TasksOK
    <3> QED BY <3>1, <3>2
  <2>5. ASSUME NEW x \in Worker, NEW n \in 1 .. Len(pendingTasks'[x])
        PROVE  /\ pendingTasks'[x][n][2] < next'[pendingTasks'[x][n][1]]
               /\ pendingTasks'[x][n] \notin done' \cup failed'
    <3> DEFINE m == pos(x, n)
    <3>1. m \in 1 .. Len(pendingTasks[x]) /\ pendingTasks'[x][n] = pendingTasks[x][m]
      BY <2>4
    <3>2. x = w => m # 1
      BY <2>4
    <3> HIDE DEF m, t
    <3>3. /\ pendingTasks[x][m][2] < next[pendingTasks[x][m][1]]
          /\ pendingTasks[x][m] \notin done \cup failed
      BY <3>1 DEF QueueInv
    <3>4. pendingTasks[x][m] # t
      BY <2>3, <3>1, <3>2 DEF QueueInv
    <3> QED BY <2>1, <3>1, <3>3, <3>4
  <2>6. ASSUME NEW x \in Worker, NEW y \in Worker,
               NEW n \in 1 .. Len(pendingTasks'[x]),
               NEW m \in 1 .. Len(pendingTasks'[y]),
               pendingTasks'[x][n] = pendingTasks'[y][m]
        PROVE  x = y /\ n = m
    <3>1. /\ pos(x, n) \in 1 .. Len(pendingTasks[x])
          /\ pos(y, m) \in 1 .. Len(pendingTasks[y])
          /\ pendingTasks[x][pos(x, n)] = pendingTasks[y][pos(y, m)]
      BY <2>4, <2>6
    <3>2. x = y /\ pos(x, n) = pos(y, m)
      BY <3>1, SMTT(40) DEF QueueInv
    <3> QED BY <3>2
  <2> QED BY <2>5, <2>6 DEF QueueInv
<1>5. CASE UNCHANGED vars
  BY <1>5 DEF vars, QueueInv
<1> QED BY <1>1, <1>2, <1>3, <1>4, <1>5 DEF Next

LEMMA CallNext ==
    TasksOK /\ QueueInv /\ CallInv /\ ChunkInv /\ [Next]_vars => CallInv'
<1> SUFFICES ASSUME TasksOK, QueueInv, CallInv, ChunkInv, [Next]_vars
             PROVE  CallInv'
  OBVIOUS
<1>0. \A d \in Caller : next[d] \in Nat /\ Tasks(d) \in Nat
  BY TasksType, PoolAssumption DEF TasksOK
<1>1. ASSUME NEW c \in Caller, Submit(c) PROVE CallInv'
  <2> SUFFICES ASSUME NEW d \in Caller
               PROVE  /\ next'[d] <= Tasks(d)
                      /\ \A i \in Index : <<d, i>> \in done \cup failed => i < next'[d]
                      /\ pc[d] = "returned" => Live(d) \subseteq done \cup failed
    BY <1>1 DEF Submit, CallInv, Tasks, Live
  <2>1. next'[d] = IF d = c THEN next[c] + 1 ELSE next[d]
    BY <1>1 DEF Submit, TasksOK
  <2>2. next'[d] <= Tasks(d)
    BY <1>0, <1>1, <2>1 DEF Submit, CallInv
  <2>3. \A i \in Index : <<d, i>> \in done \cup failed => i < next'[d]
    BY <1>0, <2>1, PoolAssumption DEF CallInv, Index
  <2> QED BY <2>2, <2>3 DEF CallInv
<1>2. ASSUME NEW c \in Caller, SubmitThrows(c) \/ Wait(c) PROVE CallInv'
  BY <1>2 DEF SubmitThrows, Wait, CallInv, TasksOK, Tasks, Live
<1>3. ASSUME NEW c \in Caller, Collect(c) PROVE CallInv'
  BY <1>3 DEF Collect, CallInv, TasksOK, Tasks, Live
<1>4. ASSUME NEW w \in Worker, Apply(w) PROVE CallInv'
  BY <1>4 DEF Apply, CallInv, Tasks, Live
<1>5. ASSUME NEW w \in Worker, ApplyThrows(w) \/ Finish(w) PROVE CallInv'
  <2>1. PICK c \in Caller, i \in Index : Running(w) = <<c, i>> /\ i < next[c]
    BY <1>5, RunningTask DEF ApplyThrows, Finish
  <2>2. /\ done' \cup failed' = done \cup failed \cup {<<c, i>>}
        /\ UNCHANGED <<call, pc, next>>
    BY <1>5, <2>1 DEF ApplyThrows, Finish
  <2> QED BY <2>1, <2>2 DEF CallInv, Tasks, Live
<1>6. CASE UNCHANGED vars
  BY <1>6 DEF vars, CallInv, Tasks, Live
<1> QED BY <1>1, <1>2, <1>3, <1>4, <1>5, <1>6 DEF Next

(* What ChunkInv says of task i of caller c. *)
ChunkOK(c, i) ==
    /\ at[<<c, i>>] >= From(call[c].range, i)
    /\ \A v \in Chunk(call[c].range, i) :
          applied[c][v] = IF v < at[<<c, i>>] THEN 1 ELSE 0
    /\ <<c, i>> \in done => at[<<c, i>>] >= To(call[c].range, i)
    /\ <<c, i>> \in failed =>
          at[<<c, i>>] \in Chunk(call[c].range, i) \cap call[c].throws

LEMMA ChunkNext ==
    TasksOK /\ QueueInv /\ CallInv /\ ChunkInv /\ [Next]_vars => ChunkInv'
<1> SUFFICES ASSUME TasksOK, QueueInv, CallInv, ChunkInv, [Next]_vars
             PROVE  ChunkInv'
  OBVIOUS
<1>0. /\ ChunkInv <=> \A d \in Caller : \A j \in 0 .. (Tasks(d) - 1) : ChunkOK(d, j)
      /\ ChunkInv' <=>
            \A d \in Caller : \A j \in 0 .. (Tasks(d)' - 1) : ChunkOK(d, j)'
  BY DEF ChunkInv, ChunkOK
<1>1. ASSUME NEW c \in Caller,
             Submit(c) \/ SubmitThrows(c) \/ Wait(c) \/ Collect(c)
      PROVE  ChunkInv'
  <2>1. UNCHANGED <<at, call, applied, done, failed>>
    BY <1>1 DEF Submit, SubmitThrows, Wait, Collect
  <2>2. at' = at /\ call' = call /\ applied' = applied /\ done' = done /\ failed' = failed
    BY <2>1
  <2> QED BY <2>2, Zenon DEF ChunkInv, Tasks
<1>2. ASSUME NEW w \in Worker, Apply(w) PROVE ChunkInv'
  <2>1. PICK c \in Caller, i \in Index :
          /\ Running(w) = <<c, i>>
          /\ i \in 0 .. (Tasks(c) - 1)
          /\ <<c, i>> \notin done \cup failed
          /\ at[<<c, i>>] >= From(call[c].range, i)
          /\ at[<<c, i>>] \in Nat
          /\ ChunkLeft(<<c, i>>) => at[<<c, i>>] \in Chunk(call[c].range, i)
    BY <1>2, RunningTask DEF Apply
  <2> DEFINE t == <<c, i>>
             u == at[t]
  <2>2. /\ applied' = [applied EXCEPT ![c][u] = @ + 1]
        /\ at' = [at EXCEPT ![t] = u + 1]
        /\ UNCHANGED <<call, done, failed>>
        /\ u \in Chunk(call[c].range, i)
    BY <1>2, <2>1 DEF Apply
  <2>3. t \in Task /\ call[c].range \in Nat /\ i \in Nat
    BY TasksType, PoolAssumption DEF Task, Index
  <2>4. at'[t] = u + 1 /\ \A x \in Task : x # t => at'[x] = at[x]
    BY <2>2, <2>3 DEF TasksOK
  <2>5. u \in 0 .. (call[c].range - 1)
    <3>1. To(call[c].range, i) \in Nat /\ To(call[c].range, i) <= call[c].range
      BY <2>3, ChunkBounds
    <3> QED BY <2>1, <2>2, <2>3, <3>1 DEF Chunk
  <2>6. applied'[c] = [applied[c] EXCEPT ![u] = @ + 1]
    BY <2>2 DEF TasksOK
  <2>7. \A v \in 0 .. (call[c].range - 1) :
            applied'[c][v] = IF v = u THEN applied[c][u] + 1 ELSE applied[c][v]
    <3> HIDE DEF u
    <3>1. applied[c] \in [0 .. (call[c].range - 1) -> Nat]
      BY DEF TasksOK
    <3> QED BY <2>5, <2>6, <3>1
  <2>8. \A d \in Caller : d # c => applied'[d] = applied[d]
    BY <2>2 DEF TasksOK
  <2> SUFFICES ASSUME NEW d \in Caller, NEW j \in 0 .. (Tasks(d) - 1)
               PROVE  ChunkOK(d, j)'
    BY <1>0, <2>2 DEF Tasks
  <2>9. ChunkOK(d, j) /\ j \in Index /\ j \in Nat /\ <<d, j>> \in Task
    BY <1>0, TasksType, PoolAssumption DEF Index, Task
  <2>10. CASE d = c /\ j = i
    <3>1. at'[<<d, j>>] >= From(call[c].range, i)
      <4>1. From(call[c].range, i) \in Nat
        BY <2>3, ChunkBounds
      <4> HIDE DEF u
      <4>2. u \in Nat /\ u >= From(call[c].range, i)
        BY <2>1 DEF u
      <4> QED BY <2>4, <2>10, <4>1, <4>2
    <3>2. ASSUME NEW v \in Chunk(call[c].range, i)
          PROVE  applied'[c][v] = IF v < u + 1 THEN 1 ELSE 0
      <4>1. v \in Int /\ v \in 0 .. (call[c].range - 1)
        <5>1. /\ To(call[c].range, i) \in Nat /\ To(call[c].range, i) <= call[c].range
              /\ From(call[c].range, i) \in Nat
          BY <2>3, ChunkBounds
        <5> QED BY <2>3, <5>1 DEF Chunk
      <4>2. applied[c][v] = IF v < u THEN 1 ELSE 0
        BY <2>9, <2>10 DEF ChunkOK
      <4>3. u \in Nat
        BY <2>1
      <4> HIDE DEF u
      <4> QED BY <2>7, <4>1, <4>2, <4>3
    <3> QED BY <2>1, <2>2, <2>4, <2>10, <3>1, <3>2 DEF ChunkOK
  <2>11. CASE ~(d = c /\ j = i)
    <3>1. at'[<<d, j>>] = at[<<d, j>>]
      BY <2>4, <2>9, <2>11
    <3>2. ASSUME NEW v \in Chunk(call[d].range, j)
          PROVE  applied'[d][v] = applied[d][v]
      <4>1. CASE d # c
        BY <2>8, <4>1
      <4>2. CASE d = c
        <5>1. v # u
          <6>1. j # i
            BY <2>11, <4>2
          <6>2. v = u => v \in Chunk(call[c].range, j) \cap Chunk(call[c].range, i)
            BY <2>2, <3>2, <4>2
          <6> QED BY <2>3, <2>9, <6>1, <6>2, ChunksDisjoint
        <5>2. v \in 0 .. (call[c].range - 1)
          <6>1. /\ To(call[c].range, j) \in Nat
                /\ To(call[c].range, j) <= call[c].range
                /\ From(call[c].range, j) \in Nat
            BY <2>3, <2>9, ChunkBounds
          <6> QED BY <2>3, <3>2, <4>2, <6>1 DEF Chunk
        <5> QED BY <2>7, <4>2, <5>1, <5>2
      <4> QED BY <4>1, <4>2
    <3> QED BY <2>2, <2>9, <3>1, <3>2 DEF ChunkOK
  <2> QED BY <2>10, <2>11
<1>3. ASSUME NEW w \in Worker, ApplyThrows(w) \/ Finish(w) PROVE ChunkInv'
  <2>1. PICK c \in Caller, i \in Index :
          /\ Running(w) = <<c, i>>
          /\ at[<<c, i>>] \in Nat
          /\ ChunkLeft(<<c, i>>) => at[<<c, i>>] \in Chunk(call[c].range, i)
    BY <1>3, RunningTask DEF ApplyThrows, Finish
  <2>2. UNCHANGED <<call, at, applied>>
    BY <1>3 DEF ApplyThrows, Finish
  <2>3. call[c].range \in Nat /\ i \in Nat /\ To(call[c].range, i) \in Nat
    BY TasksType, PoolAssumption, ChunkBounds DEF Index
  <2>4. CASE ApplyThrows(w)
    <3>1. failed' = failed \cup {<<c, i>>} /\ done' = done
      BY <2>1, <2>4 DEF ApplyThrows
    <3>2. at[<<c, i>>] \in Chunk(call[c].range, i) \cap call[c].throws
      BY <2>1, <2>4 DEF ApplyThrows, CallOf
    <3> QED BY <2>2, <3>1, <3>2 DEF ChunkInv, Tasks
  <2>5. CASE Finish(w)
    <3>1. done' = done \cup {<<c, i>>} /\ failed' = failed
      BY <2>1, <2>5 DEF Finish
    <3>2. at[<<c, i>>] >= To(call[c].range, i)
      BY <2>1, <2>3, <2>5 DEF Finish, ChunkLeft, CallOf
    <3> QED BY <2>2, <3>1, <3>2 DEF ChunkInv, Tasks
  <2> QED BY <1>3, <2>4, <2>5
<1>4. CASE UNCHANGED vars
  BY <1>4 DEF vars, ChunkInv, Tasks
<1> QED BY <1>1, <1>2, <1>3, <1>4 DEF Next

LEMMA EngineInit == Init => TasksOK /\ QueueInv /\ CallInv /\ ChunkInv
<1> SUFFICES ASSUME Init PROVE TasksOK /\ QueueInv /\ CallInv /\ ChunkInv
  OBVIOUS
<1>1. \A c \in Caller : call[c].range \in Nat
  BY CallAssumption DEF Init
<1>2. ASSUME NEW t \in Task PROVE at[t] \in Nat
  <2>1. PICK c \in Caller, i \in Index : t = <<c, i>>
    BY DEF Task
  <2>2. i \in Nat
    BY PoolAssumption DEF Index
  <2>3. From(call[c].range, i) \in Nat
    BY <1>1, <2>2, ChunkBounds
  <2> QED BY <2>1, <2>3 DEF Init
<1>3. TasksOK
  <2>1. 0 \in Worker /\ 0 \in 0 .. NumThreads
    BY PoolAssumption DEF Worker
  <2>2. at \in [Task -> Nat]
    BY <1>2 DEF Init
  <2>3. /\ applied = [c \in Caller |-> applied[c]]
        /\ \A c \in Caller : applied[c] \in [0 .. (call[c].range - 1) -> Nat]
    BY DEF Init
  <2>4. res \in [Task -> Seq(Nat)] /\ pendingTasks \in [Worker -> Seq(Task)]
    BY DEF Init
  <2> QED BY <2>1, <2>2, <2>3, <2>4, CallAssumption DEF Init, TasksOK
<1>4. QueueInv
  BY DEF Init, QueueInv
<1>5. CallInv
  <2>1. \A c \in Caller : 0 <= Tasks(c)
    BY <1>3, TasksType, PoolAssumption
  <2> QED BY <2>1 DEF Init, CallInv
<1>6. ChunkInv
  <2> SUFFICES ASSUME NEW c \in Caller, NEW i \in 0 .. (Tasks(c) - 1)
               PROVE  /\ at[<<c, i>>] >= From(call[c].range, i)
                      /\ \A v \in Chunk(call[c].range, i) :
                            applied[c][v] = IF v < at[<<c, i>>] THEN 1 ELSE 0
    BY DEF ChunkInv, Init
  <2>1. i \in Index /\ i \in Nat
    BY <1>3, TasksType, PoolAssumption DEF Index
  <2>2. at[<<c, i>>] = From(call[c].range, i)
    BY <2>1 DEF Init, Task
  <2>3. /\ From(call[c].range, i) \in Nat
        /\ To(call[c].range, i) \in Nat
        /\ To(call[c].range, i) <= call[c].range
    BY <1>1, <2>1, ChunkBounds
  <2>4. ASSUME NEW v \in Chunk(call[c].range, i)
        PROVE  applied[c][v] = IF v < at[<<c, i>>] THEN 1 ELSE 0
    <3>1. v \in 0 .. (call[c].range - 1) /\ ~(v < From(call[c].range, i))
      BY <1>1, <2>3 DEF Chunk
    <3> QED BY <2>2, <3>1 DEF Init
  <2> QED BY <2>2, <2>3, <2>4
<1> QED BY <1>3, <1>4, <1>5, <1>6

LEMMA EngineInv == Spec => [](TasksOK /\ QueueInv /\ CallInv /\ ChunkInv)
  BY EngineInit, TasksNext, QueueNext, CallNext, ChunkNext, PTL DEF Spec

(* For every cut of every container, also one that makes the call throw:   *)
(* f is applied to an element at most once, and exactly once when the call *)
(* has returned and nothing before the element in its chunk threw.         *)
THEOREM AppliedExactlyOnce == Spec => []AppliedOnce
<1>1. TasksOK /\ QueueInv /\ CallInv /\ ChunkInv => AppliedOnce
  <2> SUFFICES ASSUME TasksOK, CallInv, ChunkInv,
                      NEW c \in Caller, NEW i \in 0 .. (Tasks(c) - 1),
                      NEW v \in Chunk(call[c].range, i)
               PROVE  /\ applied[c][v] <= 1
                      /\ (/\ pc[c] = "returned"
                          /\ \A u \in Chunk(call[c].range, i) :
                                u \in call[c].throws => v < u)
                         => applied[c][v] = 1
    BY DEF AppliedOnce
  <2>1. applied[c][v] = IF v < at[<<c, i>>] THEN 1 ELSE 0
    BY DEF ChunkInv
  <2>2. ASSUME pc[c] = "returned",
               \A u \in Chunk(call[c].range, i) : u \in call[c].throws => v < u
        PROVE  v < at[<<c, i>>]
    <3>1. <<c, i>> \in done \cup failed
      BY <2>2 DEF CallInv, Live
    <3>2. CASE <<c, i>> \in failed
      BY <2>2, <3>2 DEF ChunkInv
    <3>3. CASE <<c, i>> \in done
      <4>1. at[<<c, i>>] >= To(call[c].range, i)
        BY <3>3 DEF ChunkInv
      <4>2. i \in Nat /\ i \in Index /\ call[c].range \in Nat
        BY TasksType, PoolAssumption DEF Index
      <4>3. To(call[c].range, i) \in Nat /\ From(call[c].range, i) \in Nat
        BY <4>2, ChunkBounds
      <4>4. at[<<c, i>>] \in Nat
        BY <4>2 DEF TasksOK, Task
      <4> QED BY <4>1, <4>3, <4>4 DEF Chunk
    <3> QED BY <3>1, <3>2, <3>3
  <2> QED BY <2>1, <2>2
<1> QED BY <1>1, EngineInv, PTL

(* Whatever the functions throw: when a call has returned, none of its     *)
(* tasks is left on the pool, so no task can read a local of a caller that *)
(* has gone on.                                                            *)
THEOREM NoOrphansLeft == Spec => []NoOrphans
<1>1. TasksOK /\ QueueInv /\ CallInv => NoOrphans
  <2> SUFFICES ASSUME TasksOK, QueueInv, CallInv,
                      NEW c \in Caller, pc[c] = "returned",
                      NEW w \in Worker, NEW n \in 1 .. Len(pendingTasks[w]),
                      pendingTasks[w][n][1] = c
               PROVE  FALSE
    BY DEF NoOrphans
  <2>1. PICK d \in Caller, i \in Index : pendingTasks[w][n] = <<d, i>>
    <3>1. pendingTasks[w] \in Seq(Task)
      BY DEF TasksOK
    <3> QED BY <3>1 DEF Task
  <2>2. d = c
    BY <2>1
  <2>3. /\ pendingTasks[w][n][2] < next[pendingTasks[w][n][1]]
        /\ pendingTasks[w][n] \notin done \cup failed
    BY DEF QueueInv
  <2>4. i < next[c] /\ <<c, i>> \notin done \cup failed
    BY <2>1, <2>2, <2>3
  <2>5. next[c] <= Tasks(c) /\ next[c] \in Nat /\ Tasks(c) \in Nat
    <3>1. next[c] <= Tasks(c)
      BY DEF CallInv
    <3>2. next[c] \in 0 .. NumThreads
      BY DEF TasksOK
    <3> QED BY <3>1, <3>2, TasksType, PoolAssumption
  <2>6. <<c, i>> \in Live(c)
    BY <2>4, <2>5, PoolAssumption DEF Live, Index
  <2> QED BY <2>4, <2>6 DEF CallInv
<1> QED BY <1>1, EngineInv, PTL

(* In a small pool the calling thread never fails to submit a task. *)
LEMMA SmallPoolStep ==
    ASSUME SmallPool
    PROVE  TasksOK /\ CallInv /\ NeverThrew /\ [Next]_vars => NeverThrew'
<1> SUFFICES ASSUME TasksOK, CallInv, NeverThrew, [Next]_vars PROVE NeverThrew'
  OBVIOUS
<1> USE DEF NeverThrew
<1>1. ASSUME NEW c \in Caller, SubmitThrows(c) PROVE FALSE
  <2>1. next[c] \in 0 .. (NumTasks(call[c].range) - 1) /\ call[c].range \in Nat
    BY <1>1, TasksType, PoolAssumption DEF SubmitThrows, TasksOK, Tasks
  <2>2. ValidChunk(call[c].range, next[c])
    BY <2>1, ChunksValid
  <2> QED BY <1>1, <2>2 DEF SubmitThrows
<1>2. ASSUME NEW c \in Caller, Submit(c) \/ Wait(c) \/ Collect(c) PROVE NeverThrew'
  BY <1>2 DEF Submit, Wait, Collect, TasksOK
<1>3. ASSUME NEW w \in Worker, Apply(w) \/ ApplyThrows(w) \/ Finish(w)
      PROVE  NeverThrew'
  BY <1>3 DEF Apply, ApplyThrows, Finish
<1>4. CASE UNCHANGED vars
  BY <1>4 DEF vars
<1> QED BY <1>1, <1>2, <1>3, <1>4 DEF Next

(* In a small pool no call leaves by an exception of its own, whatever the *)
(* size of its container: every chunk it copies begins before it ends.     *)
THEOREM SmallPoolSubmits ==
    ASSUME SmallPool
    PROVE  Spec => []NeverThrew
<1>1. Init => NeverThrew
  BY DEF Init, NeverThrew
<1> QED BY <1>1, EngineInv, SmallPoolStep, PTL DEF Spec

-----------------------------------------------------------------------------
(* The results. *)

(* A set of naturals that holds 0 and all successors holds all naturals.   *)
LEMMA Induction ==
    ASSUME NEW T, 0 \in T, \A n \in Nat : n \in T => n + 1 \in T
    PROVE  Nat \subseteq T
<1> DEFINE R == {ss \in Nat \X Nat : ss[1] < ss[2]}
           M == Nat \ T
<1> SUFFICES ASSUME M # {} PROVE FALSE
  OBVIOUS
<1>1. IsWellFoundedOn(R, Nat)
  BY NatLessThanWellFounded, Zenon DEF OpToRel
<1>2. \A x, y \in Nat : y < x => <<y, x>> \in R
  OBVIOUS
<1> HIDE DEF R
<1>3. M \subseteq Nat
  OBVIOUS
<1> HIDE DEF M
<1>4. PICK x \in M : \A y \in M : ~ (<<y, x>> \in R)
  BY <1>1, <1>3, WFMin, Zenon
<1>5. \A y \in M : ~(y < x)
  BY <1>2, <1>3, <1>4, Zenon
<1> USE DEF M
<1>6. x # 0 /\ x - 1 \in Nat /\ x - 1 \in T /\ x = (x - 1) + 1
  BY <1>4, <1>5
<1> QED BY <1>4, <1>6

-----------------------------------------------------------------------------
(* Vectors of elements, and the concatenation of the vectors of all tasks. *)

LEMMA RangeIs ==
    ASSUME NEW s \in Seq(Nat), NEW x
    PROVE  /\ x \in Range(s) <=> \E i \in 1 .. Len(s) : s[i] = x
           /\ \A i \in 1 .. Len(s) : s[i] \in Range(s) /\ s[i] \in Nat
           /\ Len(s) \in Nat /\ DOMAIN s = 1 .. Len(s)
  BY DEF Range

LEMMA JoinIs ==
    ASSUME NEW a \in Seq(Nat), NEW b \in Seq(Nat)
    PROVE  /\ a \o b \in Seq(Nat) /\ Len(a \o b) = Len(a) + Len(b)
           /\ \A i \in 1 .. Len(a) + Len(b) : (a \o b)[i] = IF i <= Len(a) THEN a[i] ELSE b[i - Len(a)]
  OBVIOUS

(* Every element of a is before every element of b. *)
Before(a, b) == \A x \in Range(a), y \in Range(b) : x < y

LEMMA Joined ==
    ASSUME NEW a \in Seq(Nat), NEW b \in Seq(Nat)
    PROVE  /\ a \o b \in Seq(Nat)
           /\ Range(a \o b) = Range(a) \cup Range(b)
           /\ Ascending(a) /\ Ascending(b) /\ Before(a, b) => Ascending(a \o b)
<1>a. PICK d : d = a \o b
  OBVIOUS
<1>b. PICK m : m = Len(a)
  OBVIOUS
<1>c. PICK n : n = Len(b)
  OBVIOUS
<1>1. /\ d = a \o b /\ d \in Seq(Nat) /\ m = Len(a) /\ n = Len(b) /\ m \in Nat /\ n \in Nat
      /\ Len(d) = m + n
      /\ \A i \in 1 .. m + n : d[i] = IF i <= m THEN a[i] ELSE b[i - m]
  BY <1>a, <1>b, <1>c, JoinIs
<1>2. ASSUME NEW x PROVE x \in Range(d) <=> x \in Range(a) \/ x \in Range(b)
  <2>1. ASSUME NEW i \in 1 .. m + n, d[i] = x PROVE x \in Range(a) \/ x \in Range(b)
    <3>1. CASE i <= m
      <4>1. i \in 1 .. m /\ a[i] = x
        BY <1>1, <2>1, <3>1
      <4> QED BY <1>1, <4>1, RangeIs
    <3>2. CASE ~(i <= m)
      <4>1. i - m \in 1 .. n /\ b[i - m] = x
        BY <1>1, <2>1, <3>2
      <4> QED BY <1>1, <4>1, RangeIs
    <3> QED BY <3>1, <3>2
  <2>2. ASSUME NEW i \in 1 .. m, a[i] = x PROVE x \in Range(d)
    <3>1. i \in 1 .. m + n /\ d[i] = x
      BY <1>1, <2>2
    <3> QED BY <1>1, <3>1, RangeIs
  <2>3. ASSUME NEW i \in 1 .. n, b[i] = x PROVE x \in Range(d)
    <3>1. i + m \in 1 .. m + n /\ ~(i + m <= m) /\ (i + m) - m = i
      BY <1>1
    <3>2. d[i + m] = x
      BY <1>1, <2>3, <3>1
    <3> QED BY <1>1, <3>1, <3>2, RangeIs
  <2>4. x \in Range(a) <=> \E i \in 1 .. m : a[i] = x
    BY <1>1, RangeIs
  <2>5. x \in Range(b) <=> \E i \in 1 .. n : b[i] = x
    BY <1>1, RangeIs
  <2>6. x \in Range(d) <=> \E i \in 1 .. m + n : d[i] = x
    <3>1. d \in Seq(Nat) /\ Len(d) = m + n
      BY <1>1
    <3>2. x \in Range(d) <=> \E i \in 1 .. Len(d) : d[i] = x
      BY ONLY <3>1, RangeIs
    <3> QED BY <3>1, <3>2
  <2> QED BY <2>1, <2>2, <2>3, <2>4, <2>5, <2>6
<1>3. ASSUME Ascending(a), Ascending(b), Before(a, b) PROVE Ascending(d)
  <2>1. DOMAIN d = 1 .. m + n /\ DOMAIN a = 1 .. m /\ DOMAIN b = 1 .. n
    BY <1>1
  <2> SUFFICES ASSUME NEW i \in 1 .. m + n, NEW j \in 1 .. m + n, i < j PROVE d[i] < d[j]
    BY <2>1 DEF Ascending
  <2>2. CASE j <= m
    <3>1. i \in 1 .. m /\ j \in 1 .. m /\ d[i] = a[i] /\ d[j] = a[j]
      BY <1>1, <2>2
    <3> QED BY <1>3, <2>1, <3>1 DEF Ascending
  <2>3. CASE i <= m /\ ~(j <= m)
    <3>1. i \in 1 .. m /\ j - m \in 1 .. n /\ d[i] = a[i] /\ d[j] = b[j - m]
      BY <1>1, <2>3
    <3>2. a[i] \in Range(a) /\ b[j - m] \in Range(b)
      BY <1>1, <3>1, RangeIs
    <3> QED BY <1>3, <3>1, <3>2 DEF Before
  <2>4. CASE ~(i <= m)
    <3>1. i - m \in 1 .. n /\ j - m \in 1 .. n /\ i - m < j - m /\ d[i] = b[i - m] /\ d[j] = b[j - m]
      BY <1>1, <2>4
    <3> QED BY <1>3, <2>1, <3>1 DEF Ascending
  <2> QED BY <1>1, <2>2, <2>3, <2>4
<1> QED BY <1>1, <1>2, <1>3

(* r has the concatenations of the first vectors of s. *)
Flattens(r, s) == r = [i \in 1 .. Len(s) |-> IF i = 1 THEN s[i] ELSE r[i - 1] \o s[i]]
Flattened(s) == CHOOSE r : Flattens(r, s)

LEMMA FlattenIs ==
    ASSUME NEW s, Len(s) # 0
    PROVE  FlattenSeq(s) = Flattened(s)[Len(s)]
  BY DEF FlattenSeq, Flattened, Flattens

(* g has the concatenations of the first k. *)
FlatTo(g, s, n, k) ==
    /\ g \in [1 .. n -> Seq(Nat)]
    /\ \A i \in 1 .. n : i <= k => g[i] = IF i = 1 THEN s[i] ELSE g[i - 1] \o s[i]

LEMMA FlatExists ==
    ASSUME NEW n \in Nat \ {0}, NEW s \in [1 .. n -> Seq(Nat)]
    PROVE  \E g : FlatTo(g, s, n, n)
<1> DEFINE T == {k \in Nat : \E g : FlatTo(g, s, n, k)}
<1>1. 0 \in T
  <2>1. FlatTo(s, s, n, 0)
    BY DEF FlatTo
  <2> QED BY <2>1
<1>2. ASSUME NEW k \in Nat, k \in T PROVE k + 1 \in T
  <2>1. PICK g : FlatTo(g, s, n, k)
    BY <1>2
  <2>2. CASE k + 1 > n
    <3>1. \A i \in 1 .. n : i <= k
      BY <2>2
    <3>2. FlatTo(g, s, n, k + 1)
      BY <2>1, <3>1, Zenon DEF FlatTo
    <3> QED BY <3>2
  <2>3. CASE k + 1 <= n
    <3>1. PICK v : v = IF k + 1 = 1 THEN s[k + 1] ELSE g[k] \o s[k + 1]
      OBVIOUS
    <3>2. v \in Seq(Nat)
      <4>1. s[k + 1] \in Seq(Nat)
        BY <2>3
      <4>2. k + 1 # 1 => g[k] \in Seq(Nat)
        BY <2>1, <2>3 DEF FlatTo
      <4> QED BY <3>1, <4>1, <4>2, JoinIs
    <3>3. PICK h : h = [i \in 1 .. n |-> IF i = k + 1 THEN v ELSE g[i]]
      OBVIOUS
    <3>4. h \in [1 .. n -> Seq(Nat)]
      BY <2>1, <3>2, <3>3 DEF FlatTo
    <3>5. ASSUME NEW i \in 1 .. n, i <= k + 1
          PROVE  h[i] = IF i = 1 THEN s[i] ELSE h[i - 1] \o s[i]
      <4>1. CASE i = k + 1
        <5>1. h[i] = v /\ (i # 1 => i - 1 = k /\ h[i - 1] = g[k])
          BY <2>3, <3>3, <4>1
        <5> QED BY <3>1, <4>1, <5>1
      <4>2. CASE i # k + 1
        <5>1. i <= k /\ h[i] = g[i] /\ (i # 1 => h[i - 1] = g[i - 1])
          BY <3>3, <3>5, <4>2
        <5> QED BY <2>1, <5>1 DEF FlatTo
      <4> QED BY <4>1, <4>2
    <3>6. FlatTo(h, s, n, k + 1)
      BY <3>4, <3>5 DEF FlatTo
    <3> QED BY <3>6
  <2> QED BY <2>2, <2>3
<1> HIDE DEF T
<1>3. n \in T
  BY <1>1, <1>2, Induction
<1> QED BY <1>3 DEF T

LEMMA Flat ==
    ASSUME NEW n \in Nat \ {0}, NEW s \in [1 .. n -> Seq(Nat)]
    PROVE  \E g : FlatTo(g, s, n, n) /\ FlattenSeq(s) = g[n]
<1>1. Len(s) = n
  <2>1. s \in Seq(Seq(Nat)) /\ DOMAIN s = 1 .. n
    OBVIOUS
  <2>2. Len(s) \in Nat /\ DOMAIN s = 1 .. Len(s)
    BY <2>1
  <2>3. PICK l \in Nat : l = Len(s) /\ 1 .. l = 1 .. n
    BY <2>1, <2>2
  <2>4. n \in 1 .. l /\ (l >= 1 => l \in 1 .. n)
    BY <2>3
  <2> QED BY <2>3, <2>4
<1>2. PICK g : FlatTo(g, s, n, n)
  BY FlatExists
<1>3. Flattens(g, s)
  <2>1. g = [i \in 1 .. n |-> g[i]]
    BY <1>2 DEF FlatTo
  <2>2. \A i \in 1 .. n : i <= n
    OBVIOUS
  <2>3. \A i \in 1 .. n : g[i] = IF i = 1 THEN s[i] ELSE g[i - 1] \o s[i]
    BY <1>2, <2>2, Zenon DEF FlatTo
  <2> QED BY <1>1, <2>1, <2>3 DEF Flattens
<1>4. PICK r : r = Flattened(s) /\ Flattens(r, s)
  BY <1>3, Zenon DEF Flattened
<1>5. /\ r = [i \in 1 .. n |-> r[i]]
      /\ \A i \in 1 .. n : r[i] = IF i = 1 THEN s[i] ELSE r[i - 1] \o s[i]
  BY <1>1, <1>4 DEF Flattens
<1>6. \A i \in 1 .. n : r[i] = g[i]
  <2> DEFINE T == {k \in Nat : k + 1 \in 1 .. n => r[k + 1] = g[k + 1]}
  <2>1. 0 \in T
    <3>1. 1 \in 1 .. n /\ 0 + 1 = 1 /\ 1 <= n
      OBVIOUS
    <3>2. r[1] = s[1]
      BY <1>5, <3>1, Zenon
    <3>3. g[1] = s[1]
      BY <1>2, <3>1, Zenon DEF FlatTo
    <3> QED BY <3>1, <3>2, <3>3
  <2>2. ASSUME NEW k \in Nat, k \in T PROVE k + 1 \in T
    <3> SUFFICES ASSUME (k + 1) + 1 \in 1 .. n PROVE r[(k + 1) + 1] = g[(k + 1) + 1]
      OBVIOUS
    <3>1. PICK j \in 1 .. n : j = (k + 1) + 1 /\ j # 1 /\ j - 1 = k + 1 /\ k + 1 \in 1 .. n
      OBVIOUS
    <3>2. r[j] = r[j - 1] \o s[j]
      BY <1>5, <3>1, Zenon
    <3>3. j <= n
      BY <3>1
    <3>4. g[j] = g[j - 1] \o s[j]
      BY <1>2, <3>1, <3>3, Zenon DEF FlatTo
    <3>5. r[k + 1] = g[k + 1]
      BY <2>2, <3>1, Zenon
    <3>6. r[j - 1] = g[j - 1]
      BY <3>1, <3>5, Zenon
    <3>7. r[j] = g[j]
      BY <3>2, <3>4, <3>6, Zenon
    <3> QED BY <3>1, <3>7, Zenon
  <2> HIDE DEF T
  <2>3. Nat \subseteq T
    BY <2>1, <2>2, Induction
  <2> SUFFICES ASSUME NEW i \in 1 .. n PROVE r[i] = g[i]
    OBVIOUS
  <2>4. i - 1 \in Nat /\ (i - 1) + 1 = i
    OBVIOUS
  <2>5. i - 1 \in T
    BY <2>3, <2>4
  <2> QED BY <2>4, <2>5 DEF T
<1>7. FlattenSeq(s) = g[n]
  <2>1. n \in 1 .. n /\ Len(s) # 0
    BY <1>1
  <2>2. FlattenSeq(s) = r[n]
    BY <1>1, <1>4, <2>1, FlattenIs, Zenon
  <2> QED BY <1>6, <2>1, <2>2, Zenon
<1> QED BY <1>2, <1>7

(* Ascending vectors, each before the later ones, give an ascending one. *)
LEMMA Flattening ==
    ASSUME NEW n \in Nat \ {0}, NEW s \in [1 .. n -> Seq(Nat)],
           \A i \in 1 .. n : Ascending(s[i]),
           \A i, j \in 1 .. n : i < j => Before(s[i], s[j])
    PROVE  /\ FlattenSeq(s) \in Seq(Nat) /\ Ascending(FlattenSeq(s))
           /\ \A x : x \in Range(FlattenSeq(s)) <=> \E i \in 1 .. n : x \in Range(s[i])
<1>1. PICK g : FlatTo(g, s, n, n) /\ FlattenSeq(s) = g[n]
  BY Flat
<1> DEFINE Good(k) == /\ g[k] \in Seq(Nat) /\ Ascending(g[k])
                      /\ \A x : x \in Range(g[k]) <=> \E i \in 1 .. k : x \in Range(s[i])
           T == {k \in Nat : k + 1 <= n => Good(k + 1)}
<1>2. 0 \in T
  <2>1. g[1] = s[1] /\ 1 \in 1 .. n /\ s[1] \in Seq(Nat)
    BY <1>1 DEF FlatTo
  <2>2. \A i : i \in 1 .. 1 <=> i = 1
    OBVIOUS
  <2>3. Good(1)
    BY <2>1, <2>2
  <2> QED BY <2>3
<1>3. ASSUME NEW k \in Nat, k \in T PROVE k + 1 \in T
  <2> SUFFICES ASSUME (k + 1) + 1 <= n PROVE Good((k + 1) + 1)
    OBVIOUS
  <2>1. PICK j, l : /\ j = (k + 1) + 1 /\ j \in 1 .. n /\ j # 1 /\ j - 1 = l /\ l = k + 1 /\ l \in 1 .. n
                    /\ l <= n /\ \A i : i \in 1 .. j <=> i \in 1 .. l \/ i = j
    BY <1>3
  <2>2. Good(l)
    BY <1>3, <2>1
  <2>3. g[j] = g[l] \o s[j] /\ s[j] \in Seq(Nat)
    BY <1>1, <2>1 DEF FlatTo
  <2>4. Before(g[l], s[j])
    <3> SUFFICES ASSUME NEW x \in Range(g[l]), NEW y \in Range(s[j]) PROVE x < y
      BY DEF Before
    <3>1. PICK i \in 1 .. l : x \in Range(s[i])
      BY <2>2
    <3>2. i \in 1 .. n /\ i < j
      BY <2>1
    <3> QED BY <2>1, <3>1, <3>2 DEF Before
  <2>5. /\ g[j] \in Seq(Nat) /\ Range(g[j]) = Range(g[l]) \cup Range(s[j]) /\ Ascending(g[j])
    BY <2>1, <2>2, <2>3, <2>4, Joined
  <2>6. ASSUME NEW x PROVE x \in Range(g[j]) <=> \E i \in 1 .. j : x \in Range(s[i])
    BY <2>1, <2>2, <2>5
  <2> QED BY <2>1, <2>5, <2>6
<1> HIDE DEF T
<1>4. Nat \subseteq T
  BY <1>2, <1>3, Induction
<1>5. PICK m \in Nat : m + 1 = n
  <2>1. n - 1 \in Nat /\ (n - 1) + 1 = n
    OBVIOUS
  <2> QED BY <2>1
<1> HIDE DEF Good
<1>6. m \in T /\ m + 1 <= n
  BY <1>4, <1>5
<1>7. Good(n)
  BY <1>5, <1>6, Zenon DEF T
<1> USE DEF Good
<1> QED BY <1>1, <1>7, Zenon

(* What Filled says, of a call, a vector and a position. *)
FilledBy(k, a, u, from, to) ==
    /\ \A v : v \in Range(a) <=> v \in from .. (u - 1) /\ (k.op = "for" \/ v \in k.adds)
    /\ Ascending(a)
    /\ \A v \in from .. (u - 1) : v \notin k.throws
    /\ u <= to \/ u = from

LEMMA FilledByIs ==
    ASSUME NEW k, NEW a, NEW u, NEW from, NEW to
    PROVE  FilledBy(k, a, u, from, to) <=>
             /\ Range(a) = {v \in from .. (u - 1) : k.op = "for" \/ v \in k.adds}
             /\ Ascending(a)
             /\ (from .. (u - 1)) \cap k.throws = {}
             /\ u <= to \/ u = from
<1>1. PICK V : V = from .. (u - 1)
  OBVIOUS
<1>2. (\A v : v \in Range(a) <=> v \in V /\ (k.op = "for" \/ v \in k.adds))
      <=> Range(a) = {v \in V : k.op = "for" \/ v \in k.adds}
  OBVIOUS
<1>3. (\A v \in V : v \notin k.throws) <=> V \cap k.throws = {}
  OBVIOUS
<1> QED BY <1>1, <1>2, <1>3 DEF FilledBy

(* f adds one element to an ascending vector of smaller ones, or nothing. *)
LEMMA Pushing ==
    ASSUME NEW a \in Seq(Nat), Ascending(a), NEW u \in Nat, NEW k, \A x \in Range(a) : x < u
    PROVE  /\ Ascending(a \o Pushed(k, u))
           /\ \A x : x \in Range(a \o Pushed(k, u)) <=>
                 x \in Range(a) \/ (x = u /\ (k.op = "for" \/ u \in k.adds))
<1>1. CASE k.op = "for" \/ u \in k.adds
  <2>0. PICK b : b = <<u>>
    OBVIOUS
  <2>1. b = <<u>> /\ b \in Seq(Nat) /\ Len(b) = 1 /\ b[1] = u
    BY <2>0
  <2>2. Pushed(k, u) = b
    BY <1>1, <2>1 DEF Pushed
  <2>3. DOMAIN b = {1}
    BY <2>1
  <2>4. Range(b) = {u}
    BY <2>1, <2>3 DEF Range
  <2>5. Ascending(b)
    BY <2>3 DEF Ascending
  <2>6. Before(a, b)
    BY <2>4 DEF Before
  <2>7. Range(a \o b) = Range(a) \cup Range(b) /\ Ascending(a \o b)
    BY <2>1, <2>5, <2>6, Joined
  <2> QED BY <1>1, <2>2, <2>4, <2>7
<1>2. CASE ~(k.op = "for" \/ u \in k.adds)
  <2>1. Pushed(k, u) = <<>>
    BY <1>2 DEF Pushed
  <2>2. a \o <<>> = a
    OBVIOUS
  <2>3. a \o Pushed(k, u) = a
    BY <2>1, <2>2
  <2> QED BY <1>2, <2>3
<1> QED BY <1>1, <1>2

LEMMA FilledNext ==
    TasksOK /\ QueueInv /\ CallInv /\ ChunkInv /\ FilledInv /\ [Next]_vars => FilledInv'
<1> SUFFICES ASSUME TasksOK, QueueInv, CallInv, ChunkInv, FilledInv, [Next]_vars
             PROVE  FilledInv'
  OBVIOUS
<1>0. /\ result = [c \in Caller |-> result[c]]
      /\ \A c \in Caller : \A i \in 0 .. (Tasks(c) - 1) : Filled(c, i)
  BY DEF FilledInv
<1>1. ASSUME res' = res, at' = at, call' = call, result' = [c \in Caller |-> result'[c]]
      PROVE  FilledInv'
  <2> SUFFICES ASSUME NEW c \in Caller, NEW i \in 0 .. (Tasks(c)' - 1) PROVE Filled(c, i)'
    BY <1>1 DEF FilledInv
  <2>1. Tasks(c)' = Tasks(c)
    BY <1>1 DEF Tasks
  <2>2. Filled(c, i)
    BY <1>0, <2>1
  <2> QED BY <1>1, <2>2 DEF Filled
<1>2. ASSUME NEW c \in Caller, Submit(c) \/ SubmitThrows(c) \/ Wait(c) \/ Collect(c) PROVE FilledInv'
  <2>1. res' = res /\ at' = at /\ call' = call
    BY <1>2 DEF Submit, SubmitThrows, Wait, Collect
  <2>2. result' = result \/ \E r : result' = [result EXCEPT ![c] = r]
    BY <1>2 DEF Submit, SubmitThrows, Wait, Collect
  <2>3. result' = [d \in Caller |-> result'[d]]
    BY <1>0, <2>2
  <2> QED BY <1>1, <2>1, <2>3
<1>3. ASSUME NEW w \in Worker, Apply(w) PROVE FilledInv'
  <2>1. PICK c \in Caller, i \in Index :
          /\ Running(w) = <<c, i>>
          /\ i \in 0 .. (Tasks(c) - 1)
          /\ <<c, i>> \notin done \cup failed
          /\ at[<<c, i>>] >= From(call[c].range, i)
          /\ at[<<c, i>>] \in Nat
          /\ ChunkLeft(<<c, i>>) => at[<<c, i>>] \in Chunk(call[c].range, i)
    BY <1>3, RunningTask DEF Apply
  <2>a. PICK t : t = <<c, i>>
    OBVIOUS
  <2>2. t = <<c, i>> /\ t \in Task
    BY <2>a DEF Task
  <2>3. PICK u \in Nat : u = at[t]
    BY <2>1, <2>2
  <2>4. /\ res' = [res EXCEPT ![t] = @ \o Pushed(call[c], u)]
        /\ at' = [at EXCEPT ![t] = u + 1]
        /\ UNCHANGED <<call, result>>
        /\ u \in Chunk(call[c].range, i) /\ u \notin call[c].throws
    BY <1>3, <2>1, <2>2, <2>3 DEF Apply, CallOf
  <2>5. call[c].range \in Nat /\ i \in Nat
    BY TasksType, PoolAssumption DEF Index
  <2>6. PICK from, to \in Nat : from = From(call[c].range, i) /\ to = To(call[c].range, i)
    BY <2>5, ChunkBounds
  <2>7. from <= u /\ u < to
    BY <2>4, <2>6 DEF Chunk
  <2>8. at'[t] = u + 1 /\ \A x \in Task : x # t => at'[x] = at[x] /\ res'[x] = res[x]
    BY <2>2, <2>4 DEF TasksOK
  <2>9. PICK a \in Seq(Nat) : a = res[t]
    BY <2>2 DEF TasksOK
  <2>10. res'[t] = a \o Pushed(call[c], u)
    BY <2>2, <2>4, <2>9 DEF TasksOK
  <2>11. Filled(c, i)
    BY <1>0, <2>1
  <2>12. FilledBy(call[c], a, u, from, to)
    BY <2>2, <2>3, <2>6, <2>9, <2>11, FilledByIs DEF Filled
  <2>13. Ascending(a) /\ \A x \in Range(a) : x < u
    BY <2>12 DEF FilledBy
  <2>14. /\ Ascending(res'[t])
         /\ \A x : x \in Range(res'[t]) <=>
               x \in Range(a) \/ (x = u /\ (call[c].op = "for" \/ u \in call[c].adds))
    BY <2>9, <2>10, <2>13, Pushing
  <2>15. \A x : x \in from .. ((u + 1) - 1) <=> x \in from .. (u - 1) \/ x = u
    BY <2>7
  <2>16. ASSUME NEW x
         PROVE  x \in Range(res'[t]) <=>
                   x \in from .. ((u + 1) - 1) /\ (call[c].op = "for" \/ x \in call[c].adds)
    BY <2>12, <2>14, <2>15 DEF FilledBy
  <2>17. \A v \in from .. ((u + 1) - 1) : v \notin call[c].throws
    BY <2>4, <2>12, <2>15 DEF FilledBy
  <2>18. u + 1 <= to
    BY <2>7
  <2>19. Filled(c, i)'
    <3>1. FilledBy(call[c], res'[t], u + 1, from, to)
      BY <2>14, <2>16, <2>17, <2>18 DEF FilledBy
    <3>2. call' = call /\ t = <<c, i>> /\ at'[t] = u + 1
      BY <2>2, <2>4, <2>8
    <3> QED BY <2>6, <3>1, <3>2, FilledByIs DEF Filled
  <2>20. ASSUME NEW d \in Caller, NEW j \in 0 .. (Tasks(d)' - 1) PROVE Filled(d, j)'
    <3>1. Tasks(d)' = Tasks(d) /\ call' = call
      BY <2>4 DEF Tasks
    <3>2. Filled(d, j) /\ <<d, j>> \in Task
      BY <1>0, <3>1, TasksType, PoolAssumption DEF Index, Task
    <3>3. CASE <<d, j>> = <<c, i>>
      <4>1. d = c /\ j = i
        BY <3>3
      <4> QED BY <2>19, <4>1
    <3>4. CASE <<d, j>> # <<c, i>>
      <4>1. at'[<<d, j>>] = at[<<d, j>>] /\ res'[<<d, j>>] = res[<<d, j>>]
        BY <2>2, <2>8, <3>2, <3>4
      <4> QED BY <3>1, <3>2, <4>1 DEF Filled
    <3> QED BY <3>3, <3>4
  <2>21. result' = [d \in Caller |-> result'[d]]
    BY <1>0, <2>4
  <2> QED BY <2>20, <2>21 DEF FilledInv
<1>4. ASSUME NEW w \in Worker, ApplyThrows(w) \/ Finish(w) PROVE FilledInv'
  <2>1. res' = res /\ at' = at /\ call' = call /\ result' = result
    BY <1>4 DEF ApplyThrows, Finish
  <2> QED BY <1>0, <1>1, <2>1
<1>5. CASE UNCHANGED vars
  <2>1. res' = res /\ at' = at /\ call' = call /\ result' = result
    BY <1>5 DEF vars
  <2> QED BY <1>0, <1>1, <2>1
<1> QED BY <1>2, <1>3, <1>4, <1>5 DEF Next

LEMMA FilledInit == Init => FilledInv
<1> SUFFICES ASSUME Init PROVE FilledInv
  OBVIOUS
<1>1. ASSUME NEW c \in Caller, NEW i \in 0 .. (Tasks(c) - 1) PROVE Filled(c, i)
  <2>1. TasksOK
    BY EngineInit
  <2>2. i \in Index /\ i \in Nat /\ call[c].range \in Nat
    BY <2>1, TasksType, PoolAssumption DEF Index
  <2>3. <<c, i>> \in Task
    BY <2>2 DEF Task
  <2>4. PICK from \in Nat : from = From(call[c].range, i)
    BY <2>2, ChunkBounds
  <2>5. at[<<c, i>>] = from /\ res[<<c, i>>] = <<>>
    BY <2>3, <2>4 DEF Init
  <2>6. \A v : v \notin from .. (from - 1)
    OBVIOUS
  <2>7. Range(<<>>) = {} /\ Ascending(<<>>)
    BY DEF Range, Ascending
  <2>8. from .. (from - 1) = {}
    BY <2>6
  <2> QED BY <2>4, <2>5, <2>7, <2>8 DEF Filled
<1>2. result = [c \in Caller |-> result[c]]
  BY DEF Init
<1> QED BY <1>1, <1>2 DEF FilledInv

(* The chunks are in the order of the container. *)
LEMMA ChunksOrdered ==
    ASSUME NEW r \in Nat, NEW i \in Nat, NEW j \in Nat, i < j,
           NEW x \in Chunk(r, i), NEW y \in Chunk(r, j)
    PROVE  x < y
<1>1. PICK p, q \in Nat : p = (i + 1) * TaskSize(r) /\ q = j * TaskSize(r) /\ p <= q
  <2>1. i + 1 \in Nat /\ i + 1 <= j /\ TaskSize(r) \in Nat
    BY SplitTypes
  <2> QED BY <2>1, TimesMonotone
<1>2. To(r, i) \in Nat /\ To(r, i) <= p /\ From(r, i) \in Nat
  BY <1>1, ChunkBounds
<1>3. From(r, j) = q /\ To(r, j) \in Nat
  BY <1>1, ChunkBounds DEF From
<1>4. x \in Int /\ x < To(r, i)
  BY <1>2 DEF Chunk
<1>5. y \in Int /\ y >= q
  BY <1>1, <1>3 DEF Chunk
<1> QED BY <1>1, <1>2, <1>4, <1>5

LEMMA ChunkInRange ==
    ASSUME NEW r \in Nat, NEW i \in Nat, NEW x \in Chunk(r, i)
    PROVE  x \in 0 .. (r - 1)
<1>1. From(r, i) \in Nat /\ To(r, i) \in Nat /\ To(r, i) <= r
  BY ChunkBounds
<1> QED BY <1>1 DEF Chunk

Adds(c, v) == call[c].op = "for" \/ v \in call[c].adds
Clean(c, j) == \A v \in Chunk(call[c].range, j) : v \notin call[c].throws

(* A task that is done handled its whole chunk, and nothing threw. *)
LEMMA DoneTask ==
    ASSUME TasksOK, ChunkInv, FilledInv, NEW c \in Caller, NEW j \in 0 .. (Tasks(c) - 1), <<c, j>> \in done
    PROVE  /\ Clean(c, j)
           /\ \A v : v \in Range(res[<<c, j>>]) <=> v \in Chunk(call[c].range, j) /\ Adds(c, v)
<1>1. j \in Nat /\ j \in Index /\ call[c].range \in Nat
  BY TasksType, PoolAssumption DEF Index
<1>a. PICK t : t = <<c, j>>
  OBVIOUS
<1>2. t = <<c, j>> /\ t \in Task
  BY <1>1, <1>a DEF Task
<1>3. PICK from, to \in Nat : from = From(call[c].range, j) /\ to = To(call[c].range, j)
  BY <1>1, ChunkBounds
<1>4. PICK u \in Nat : u = at[t]
  BY <1>2 DEF TasksOK
<1>5. u >= to
  BY <1>2, <1>3, <1>4 DEF ChunkInv
<1>6. FilledBy(call[c], res[t], u, from, to)
  <2>1. Filled(c, j)
    BY DEF FilledInv
  <2> QED BY <1>2, <1>3, <1>4, <2>1, FilledByIs DEF Filled
<1>7. u <= to \/ u = from
  BY <1>6 DEF FilledBy
<1>8. \A v : v \in from .. (u - 1) <=> v \in Chunk(call[c].range, j)
  BY <1>3, <1>5, <1>7 DEF Chunk
<1> QED BY <1>2, <1>6, <1>8 DEF FilledBy, Clean, Adds

LEMMA FailedTask ==
    ASSUME TasksOK, ChunkInv, NEW c \in Caller, NEW j \in 0 .. (Tasks(c) - 1), <<c, j>> \in failed
    PROVE  ~Clean(c, j)
  BY DEF ChunkInv, Clean

(* Kept, without the definitions in it. *)
LEMMA KeptIs ==
    ASSUME NEW c, NEW v
    PROVE  Kept(c, v) <=>
             /\ Adds(c, v)
             /\ IF call[c].op = "reduce"
                THEN \A i \in 0 .. (Tasks(c) - 1) : v \in Chunk(call[c].range, i) => Clean(c, i)
                ELSE \A x \in 0 .. (call[c].range - 1) : x \notin call[c].throws
<1>1. ASSUME NEW i
      PROVE  (Chunk(call[c].range, i) \cap call[c].throws # {}) <=> ~Clean(c, i)
  BY DEF Clean
<1> QED BY <1>1, Zenon DEF Kept, Adds

(* The vectors that Collected joins. *)
Parts(c) == [i \in 1 .. Tasks(c) |-> IF <<c, i - 1>> \in done THEN res[<<c, i - 1>>] ELSE <<>>]

LEMMA CollectedIs ==
    ASSUME NEW c
    PROVE  Collected(c) = IF call[c].op # "reduce" /\ Live(c) \cap failed # {} THEN <<>> ELSE FlattenSeq(Parts(c))
  BY Zenon DEF Collected, Parts

LEMMA CollectedParts ==
    ASSUME TasksOK, ChunkInv, FilledInv, NEW c \in Caller
    PROVE  /\ Ascending(FlattenSeq(Parts(c)))
           /\ \A x : x \in Range(FlattenSeq(Parts(c))) <=>
                 \E j \in 0 .. (Tasks(c) - 1) :
                     <<c, j>> \in done /\ x \in Chunk(call[c].range, j) /\ Adds(c, x)
<1>1. PICK n \in Nat \ {0} : n = Tasks(c)
  BY TasksType, PoolAssumption
<1>2. PICK s : s = Parts(c)
  OBVIOUS
<1>3. ASSUME NEW i \in 1 .. n
      PROVE  /\ s[i] \in Seq(Nat) /\ Ascending(s[i])
             /\ \A x : x \in Range(s[i]) <=>
                   <<c, i - 1>> \in done /\ x \in Chunk(call[c].range, i - 1) /\ Adds(c, x)
  <2>1. PICK j \in 0 .. (n - 1) : j = i - 1
    OBVIOUS
  <2>2. j \in Index /\ <<c, j>> \in Task
    BY <1>1, TasksType, PoolAssumption DEF Index, Task
  <2>3. s[i] = IF <<c, j>> \in done THEN res[<<c, j>>] ELSE <<>>
    BY <1>1, <1>2, <2>1 DEF Parts
  <2>4. CASE <<c, j>> \in done
    <3>1. s[i] = res[<<c, j>>] /\ s[i] \in Seq(Nat)
      BY <2>2, <2>3, <2>4 DEF TasksOK
    <3>2. Filled(c, j)
      BY <1>1 DEF FilledInv
    <3>3. Ascending(s[i])
      BY <3>1, <3>2 DEF Filled
    <3>4. \A v : v \in Range(res[<<c, j>>]) <=> v \in Chunk(call[c].range, j) /\ Adds(c, v)
      BY <1>1, <2>4, DoneTask
    <3> QED BY <2>1, <2>4, <3>1, <3>3, <3>4
  <2>5. CASE <<c, j>> \notin done
    <3>1. s[i] = <<>>
      BY <2>3, <2>5
    <3>2. Range(<<>>) = {} /\ Ascending(<<>>) /\ <<>> \in Seq(Nat)
      BY DEF Range, Ascending
    <3> QED BY <2>1, <2>5, <3>1, <3>2
  <2> QED BY <2>4, <2>5
<1>4. s \in [1 .. n -> Seq(Nat)]
  <2>1. s = [i \in 1 .. n |-> s[i]]
    BY <1>1, <1>2 DEF Parts
  <2> QED BY <1>3, <2>1
<1>5. ASSUME NEW i \in 1 .. n, NEW j \in 1 .. n, i < j PROVE Before(s[i], s[j])
  <2> SUFFICES ASSUME NEW x \in Range(s[i]), NEW y \in Range(s[j]) PROVE x < y
    BY DEF Before
  <2>1. x \in Chunk(call[c].range, i - 1) /\ y \in Chunk(call[c].range, j - 1)
    BY <1>3
  <2>2. i - 1 \in Nat /\ j - 1 \in Nat /\ i - 1 < j - 1 /\ call[c].range \in Nat
    BY <1>5, TasksType
  <2> QED BY <2>1, <2>2, ChunksOrdered
<1>6. \A i \in 1 .. n : Ascending(s[i])
  BY <1>3
<1>7. /\ Ascending(FlattenSeq(s))
      /\ \A x : x \in Range(FlattenSeq(s)) <=> \E i \in 1 .. n : x \in Range(s[i])
  BY <1>4, <1>5, <1>6, Flattening
<1>8. ASSUME NEW x
      PROVE  x \in Range(FlattenSeq(s)) <=>
                 \E j \in 0 .. (Tasks(c) - 1) :
                     <<c, j>> \in done /\ x \in Chunk(call[c].range, j) /\ Adds(c, x)
  <2>1. ASSUME x \in Range(FlattenSeq(s))
        PROVE  \E j \in 0 .. (Tasks(c) - 1) :
                     <<c, j>> \in done /\ x \in Chunk(call[c].range, j) /\ Adds(c, x)
    <3>1. PICK i \in 1 .. n : x \in Range(s[i])
      BY <1>7, <2>1
    <3>2. PICK j : j = i - 1 /\ j \in 0 .. (n - 1)
      OBVIOUS
    <3> QED BY <1>1, <1>3, <3>1, <3>2
  <2>2. ASSUME NEW j \in 0 .. (Tasks(c) - 1), <<c, j>> \in done, x \in Chunk(call[c].range, j), Adds(c, x)
        PROVE  x \in Range(FlattenSeq(s))
    <3>1. PICK i \in 1 .. n : j = i - 1
      <4>1. j + 1 \in 1 .. n /\ j = (j + 1) - 1
        BY <1>1
      <4> QED BY <4>1
    <3>2. x \in Range(s[i])
      BY <1>3, <2>2, <3>1
    <3> QED BY <1>7, <3>2
  <2> QED BY <2>1, <2>2
<1> QED BY <1>2, <1>7, <1>8

(* What the caller collects when every task is done or failed. *)
LEMMA CollectedAll ==
    ASSUME TasksOK, ChunkInv, FilledInv, NEW c \in Caller, Live(c) \subseteq done \cup failed
    PROVE  /\ Range(Collected(c)) = {v \in 0 .. (call[c].range - 1) : Kept(c, v)}
           /\ Ascending(Collected(c))
<1>0. call[c].range \in Nat /\ Tasks(c) = NumTasks(call[c].range) /\ Tasks(c) \in Nat
  BY TasksType, PoolAssumption DEF Tasks
<1>1. ASSUME NEW j \in 0 .. (Tasks(c) - 1)
      PROVE  j \in Nat /\ <<c, j>> \in Live(c) /\ <<c, j>> \in done \cup failed
  BY DEF Live
<1>2. CASE call[c].op # "reduce" /\ Live(c) \cap failed # {}
  <2>1. PICK j \in 0 .. (Tasks(c) - 1) : <<c, j>> \in failed
    BY <1>2 DEF Live
  <2>2. PICK x \in Chunk(call[c].range, j) : x \in call[c].throws
    BY <2>1, FailedTask DEF Clean
  <2>3. x \in 0 .. (call[c].range - 1)
    BY <1>0, <1>1, <2>2, ChunkInRange
  <2>4. \A v : ~Kept(c, v)
    BY <1>2, <2>2, <2>3, KeptIs
  <2>5. Collected(c) = <<>>
    BY <1>2, CollectedIs
  <2>6. Range(<<>>) = {} /\ Ascending(<<>>)
    BY DEF Range, Ascending
  <2> QED BY <2>4, <2>5, <2>6
<1>3. CASE ~(call[c].op # "reduce" /\ Live(c) \cap failed # {})
  <2>1. Collected(c) = FlattenSeq(Parts(c))
    BY <1>3, CollectedIs
  <2>2. ASSUME NEW j \in 0 .. (Tasks(c) - 1) PROVE <<c, j>> \in done <=> Clean(c, j)
    BY <1>1, DoneTask, FailedTask
  <2>3. call[c].op # "reduce" => \A j \in 0 .. (Tasks(c) - 1) : Clean(c, j)
    BY <1>1, <1>3, <2>2
  <2>4. ASSUME NEW x, x \in Range(Collected(c)) PROVE x \in 0 .. (call[c].range - 1) /\ Kept(c, x)
    <3>1. PICK j \in 0 .. (Tasks(c) - 1) : <<c, j>> \in done /\ x \in Chunk(call[c].range, j) /\ Adds(c, x)
      BY <2>1, <2>4, CollectedParts
    <3>2. x \in 0 .. (call[c].range - 1)
      BY <1>0, <1>1, <3>1, ChunkInRange
    <3>3. ASSUME NEW i \in 0 .. (Tasks(c) - 1), x \in Chunk(call[c].range, i) PROVE Clean(c, i)
      <4>1. i = j
        BY <1>0, <1>1, <3>1, <3>3, ChunksDisjoint
      <4> QED BY <2>2, <3>1, <4>1
    <3>4. ASSUME call[c].op # "reduce", NEW y \in 0 .. (call[c].range - 1) PROVE y \notin call[c].throws
      <4>1. PICK i \in 0 .. (Tasks(c) - 1) : y \in Chunk(call[c].range, i)
        BY <1>0, ChunksCover
      <4> QED BY <2>3, <3>4, <4>1 DEF Clean
    <3>5. Kept(c, x)
      BY <3>1, <3>3, <3>4, KeptIs
    <3> QED BY <3>2, <3>5
  <2>5. ASSUME NEW x \in 0 .. (call[c].range - 1), Kept(c, x) PROVE x \in Range(Collected(c))
    <3>1. PICK j \in 0 .. (Tasks(c) - 1) : x \in Chunk(call[c].range, j)
      BY <1>0, ChunksCover
    <3>2. Clean(c, j) /\ Adds(c, x)
      BY <2>3, <2>5, <3>1, KeptIs
    <3>3. <<c, j>> \in done
      BY <2>2, <3>2
    <3> QED BY <2>1, <3>1, <3>2, <3>3, CollectedParts
  <2>6. Ascending(Collected(c))
    BY <2>1, CollectedParts
  <2> QED BY <2>4, <2>5, <2>6
<1> QED BY <1>2, <1>3

LEMMA ResultNext ==
    TasksOK /\ ChunkInv /\ FilledInv /\ SequentialResult /\ [Next]_vars => SequentialResult'
<1> SUFFICES ASSUME TasksOK, ChunkInv, FilledInv, SequentialResult, [Next]_vars,
                    NEW d \in Caller, pc'[d] = "returned"
             PROVE  /\ Range(result'[d]) = {v \in 0 .. (call'[d].range - 1) : Kept(d, v)'}
                    /\ Ascending(result'[d])
  BY DEF SequentialResult
<1>0. call' = call
  BY DEF Next, Submit, SubmitThrows, Wait, Collect, Apply, ApplyThrows, Finish, vars
<1>1. {v \in 0 .. (call'[d].range - 1) : Kept(d, v)'} = {v \in 0 .. (call[d].range - 1) : Kept(d, v)}
  BY <1>0 DEF Kept, Tasks
<1>2. CASE pc[d] = "returned" /\ result'[d] = result[d]
  BY <1>1, <1>2 DEF SequentialResult
<1>3. CASE Collect(d)
  <2>1. result'[d] = Collected(d) /\ Live(d) \subseteq done \cup failed
    BY <1>3 DEF Collect, FilledInv
  <2> QED BY <1>1, <2>1, CollectedAll
<1>4. ASSUME NEW c \in Caller, Submit(c) \/ SubmitThrows(c) \/ Wait(c) PROVE pc[d] = "returned" /\ result' = result
  BY <1>4 DEF Submit, SubmitThrows, Wait, TasksOK
<1>5. ASSUME NEW c \in Caller, Collect(c), c # d PROVE pc[d] = "returned" /\ result'[d] = result[d]
  BY <1>5 DEF Collect, TasksOK, FilledInv
<1>6. ASSUME NEW w \in Worker, Apply(w) \/ ApplyThrows(w) \/ Finish(w) PROVE pc[d] = "returned" /\ result' = result
  BY <1>6 DEF Apply, ApplyThrows, Finish
<1>7. CASE UNCHANGED vars
  BY <1>2, <1>7 DEF vars
<1> QED BY <1>2, <1>3, <1>4, <1>5, <1>6, <1>7 DEF Next

(* For every pool, container and set of elements that throw, and however   *)
(* the tasks interleave, a call that has returned gave what one thread     *)
(* would give: the elements f adds, each once, in the container's order;   *)
(* nothing from parallelFor and parallelFilter when f threw, and from      *)
(* parallelReduce the elements of the chunks without an exception.         *)
THEOREM ResultsInOrder == Spec => []SequentialResult
<1>1. Init => SequentialResult
  BY DEF Init, SequentialResult
<1> QED BY <1>1, EngineInv, FilledInit, FilledNext, ResultNext, PTL DEF Spec
=============================================================================
