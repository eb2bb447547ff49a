---------------------------- MODULE WorkerTimers ----------------------------
(***************************************************************************)
(* Delayed and repeated tasks of the thread pool (GenericThreadPool.h,     *)
(* GenericWorker.h).  The pool takes the next worker with one atomic       *)
(* operation; the worker then numbers the timer and queues it under its    *)
(* lock, a second step between which other clients may come.  The loop of  *)
(* a worker is not in the repository: woken by notify it takes over what   *)
(* the two lists hold, new timers first, and it runs the callbacks of its  *)
(* active timers one at a time.                                            *)
(***************************************************************************)
EXTENDS Integers, Sequences, FiniteSets

CONSTANTS
    Client,        \* threads that add and purge tasks
    NrThreads,     \* nrThreads_
    TimerIdBits,   \* TIMER_ID_BITS
    MaxTasks       \* bound on the tasks added

(* A worker numbers at most as many timers as TIMER_ID_MASK tells apart,   *)
(* 2^48 in the code.  (That a power of two is a positive number is stated  *)
(* for the provers, who have no fact about powers.)                        *)
ASSUME TimersAssumption ==
    /\ NrThreads \in Nat \ {0}
    /\ TimerIdBits \in Nat /\ 2 ^ TimerIdBits \in Nat \ {0}
    /\ MaxTasks \in 0 .. NrThreads * 2 ^ TimerIdBits

Worker == 0 .. (NrThreads - 1)
TimerIds == 2 ^ TimerIdBits
NoId == -1
NotAdding == [task |-> 0]

VARIABLES
    nextThread,      \* nextThread_
    nextTimerId,     \* nextTimerId_ of a worker
    pendingTimers,   \* pendingTimers_
    purgingTimers,   \* purgingTimers_
    activeTimers,    \* activeTimers_: timers [id, interval, task]
    adding,          \* the call each client is in: its task, the worker and the timer's interval
    tasks,           \* [delayed, id, runs]: its kind, the id its client got, its runs if delayed
    purged,          \* tasks a client has purged (history)
    dropped          \* tasks whose timer a purge removed (history)

timerVars == <<nextThread, nextTimerId, pendingTimers, purgingTimers, activeTimers,
               adding, tasks, purged, dropped>>

TimersInit ==
    /\ nextThread = 0
    /\ nextTimerId = [w \in Worker |-> 0]
    /\ pendingTimers = [w \in Worker |-> <<>>]
    /\ purgingTimers = [w \in Worker |-> {}]
    /\ activeTimers = [w \in Worker |-> {}]
    /\ adding = [c \in Client |-> NotAdding]
    /\ tasks = <<>>
    /\ purged = {}
    /\ dropped = {}
-----------------------------------------------------------------------------
(* idx = nextThread_++ % nrThreads_, in every function of the pool that    *)
(* adds a task.                                                            *)
TakeWorker(c, delayed, interval) ==
    /\ adding[c] = NotAdding
    /\ Len(tasks) < MaxTasks
    /\ tasks' = Append(tasks, [delayed |-> delayed, id |-> NoId, runs |-> 0])
    /\ adding' = [adding EXCEPT ![c] = [task |-> Len(tasks) + 1,
                                        worker |-> nextThread % NrThreads,
                                        interval |-> interval]]
    /\ nextThread' = nextThread + 1
    /\ UNCHANGED <<nextTimerId, pendingTimers, purgingTimers, activeTimers, purged, dropped>>

(* Mutant: the delay is passed on as the interval, as addRepeatTask does. *)
AddDelayTaskRepeats(c) == TakeWorker(c, TRUE, 1)

(* A promise is fulfilled by the callback; the timer's id is not returned. *)
AddDelayTask(c) == TakeWorker(c, TRUE, 0)

AddRepeatTask(c) == TakeWorker(c, FALSE, 1)

AddTimerTask(c, interval) == TakeWorker(c, FALSE, interval)

NextTimerId(w) == nextTimerId[w] % TimerIds

(* Mutant: the worker is left out of the id. *)
PoolIdOfWorker(w, id) == id

(* (idx << TIMER_ID_BITS) | id *)
PoolId(w, id) == w * TimerIds + id

(* addTimerTask of the worker, and the return to the client. *)
QueueTimer(c) ==
    /\ adding[c] # NotAdding
    /\ LET call == adding[c]
           w == call.worker
           timer == [id |-> NextTimerId(w), interval |-> call.interval, task |-> call.task]
       IN  /\ pendingTimers' = [pendingTimers EXCEPT ![w] = Append(@, timer)]
           /\ nextTimerId' = [nextTimerId EXCEPT ![w] = @ + 1]
           /\ tasks' = [tasks EXCEPT ![call.task].id =
                            IF tasks[call.task].delayed THEN NoId ELSE PoolId(w, timer.id)]
    /\ adding' = [adding EXCEPT ![c] = NotAdding]
    /\ UNCHANGED <<nextThread, purgingTimers, activeTimers, purged, dropped>>

(* purgeTimerTask: the id says which worker has the timer. *)
PurgeTimerTask(k) ==
    /\ tasks[k].id # NoId
    /\ k \notin purged
    /\ LET w == tasks[k].id \div TimerIds
       IN  purgingTimers' = [purgingTimers EXCEPT ![w] = @ \cup {tasks[k].id % TimerIds}]
    /\ purged' = purged \cup {k}
    /\ UNCHANGED <<nextThread, nextTimerId, pendingTimers, activeTimers, adding, tasks, dropped>>
-----------------------------------------------------------------------------
OnNotify(w) ==
    /\ pendingTimers[w] # <<>> \/ purgingTimers[w] # {}
    /\ LET all == activeTimers[w] \cup {pendingTimers[w][i] : i \in DOMAIN pendingTimers[w]}
           gone == {timer \in all : timer.id \in purgingTimers[w]}
       IN  /\ activeTimers' = [activeTimers EXCEPT ![w] = all \ gone]
           /\ dropped' = dropped \cup {timer.task : timer \in gone}
    /\ pendingTimers' = [pendingTimers EXCEPT ![w] = <<>>]
    /\ purgingTimers' = [purgingTimers EXCEPT ![w] = {}]
    /\ UNCHANGED <<nextThread, nextTimerId, adding, tasks, purged>>

(* A timer without an interval is gone after it ran.  The runs of delayed  *)
(* tasks are counted, up to two, which tells once from repeatedly.         *)
Fire(w) ==
    \E timer \in activeTimers[w] :
        /\ tasks[timer.task].runs < 2
        /\ tasks' = [tasks EXCEPT ![timer.task].runs =
                            IF tasks[timer.task].delayed THEN @ + 1 ELSE @]
        /\ activeTimers' =
               [activeTimers EXCEPT ![w] = IF timer.interval = 0 THEN @ \ {timer} ELSE @]
        /\ UNCHANGED <<nextThread, nextTimerId, pendingTimers, purgingTimers, adding, purged, dropped>>

TimersNext ==
    \/ \E c \in Client : AddDelayTask(c)
    \/ \E c \in Client : AddRepeatTask(c)
    \/ \E c \in Client, interval \in {0, 1} : AddTimerTask(c, interval)
    \/ \E c \in Client : QueueTimer(c)
    \/ \E k \in DOMAIN tasks : PurgeTimerTask(k)
    \/ \E w \in Worker : OnNotify(w)
    \/ \E w \in Worker : Fire(w)

TimersSpec == TimersInit /\ [][TimersNext]_timerVars
-----------------------------------------------------------------------------
(* A purge removes the timer whose id the client got and no other, of this *)
(* worker or another, although workers number their timers from 0 and      *)
(* clients add, purge and are answered in any order, up to the last id     *)
(* that a worker can give (GenericThreadPool.h:171, GenericWorker.h:145).  *)
PurgesItsOwn == dropped \subseteq purged

(* The function of a delayed task runs once at most, so its promise is     *)
(* fulfilled once: a second fulfilment would throw in the worker's loop.   *)
(* Nothing a client purges takes its timer away before it ran.             *)
DelayedOnce ==
    \A k \in DOMAIN tasks : tasks[k].delayed =>
        /\ tasks[k].runs <= 1
        /\ tasks[k].runs = 0 =>
               \/ \E c \in Client : adding[c].task = k
               \/ \E w \in Worker : \E timer \in activeTimers[w] : timer.task = k
               \/ \E w \in Worker : \E i \in DOMAIN pendingTimers[w] : pendingTimers[w][i].task = k
=============================================================================
