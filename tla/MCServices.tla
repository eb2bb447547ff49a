----------------------------- MODULE MCServices -----------------------------
(***************************************************************************)
(* Three services of the database that threads share: the memory trackers, *)
(* the modules and the timers of the thread pool.  They share no state, so *)
(* a behaviour takes the steps of one of them and leaves the others where  *)
(* they start.                                                             *)
(*                                                                         *)
(* Memory: two queries, one of them with two operators, under small        *)
(* limits.  Modules: two names and two instances, so that one module is    *)
(* loaded twice or both once, two threads, and three holders, so that a    *)
(* copy of a copy is dropped while the first is moved.  Timers: two        *)
(* clients and two workers with as many timers as they have ids.           *)
(***************************************************************************)
EXTENDS MemoryTracker, ModuleHost, WorkerTimers, TLC

CONSTANTS q1, q2, o1, o2, o3

MCQueryOf == (o1 :> q1) @@ (o2 :> q1) @@ (o3 :> q2)
MCMaxReserve == [query |-> 3, operator |-> 2]
MCLimit == (q1 :> 3) @@ (q2 :> 1) @@ (Global :> 7)
MCMaxCalls == (o1 :> 2) @@ (o2 :> 1) @@ (o3 :> 1)

VARIABLE machine   \* whose steps this behaviour takes

MCInit ==
    /\ machine \in {"memory", "modules", "timers"}
    /\ Init
    /\ HostInit
    /\ TimersInit

MCNext ==
    /\ \/ machine = "memory" /\ Next /\ UNCHANGED <<hostVars, timerVars>>
       \/ machine = "modules" /\ HostNext /\ UNCHANGED <<vars, timerVars>>
       \/ machine = "timers" /\ TimersNext /\ UNCHANGED <<vars, hostVars>>
    /\ UNCHANGED machine

MCSpec == MCInit /\ [][MCNext]_<<machine, vars, hostVars, timerVars>>
=============================================================================
