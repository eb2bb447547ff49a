----------------------------- MODULE ModuleHost -----------------------------
(***************************************************************************)
(* Loaded modules, the holders that keep them loaded (Module.h) and calls  *)
(* of the procedure they provide (NetworkTopoProcedure.cpp).               *)
(*                                                                         *)
(* A holder is not atomic: an assignment drops one reference and takes     *)
(* another in separate steps, in the order of the source, while other      *)
(* threads work on other holders and the manager unloads what has no       *)
(* reference but its own.  A thread's steps yet to do are in prog.  As for *)
(* any object that is not atomic, no two threads use one holder at a time. *)
(* The manager's own code is not in the repository: load, unload, reload   *)
(* and the look-up exclude each other by its lock_ (ModuleManager.h).      *)
(***************************************************************************)
EXTENDS Integers, Sequences, FiniteSets

CONSTANTS
    Name,        \* names of modules
    Thread,
    Slot,        \* places where a Holder may be
    MaxLoads     \* bound on the instances made

ASSUME HostAssumption == MaxLoads \in Nat /\ IsFiniteSet(Slot)

VARIABLES
    modules,     \* modules_: the instance of each name, 0 when it is not loaded
    made,        \* instances made so far; instances are numbered from 1
    loaded,      \* instances that are not destroyed
    refcnt,      \* refcnt_ of each instance
    target,      \* target_ of each holder, by its module, 0 for nullptr
    prog,        \* the rest of the member function each thread is in
    outcome      \* what the last call of the procedure returned

hostVars == <<modules, made, loaded, refcnt, target, prog, outcome>>

Instance == 1 .. MaxLoads

(* One step of a member function. *)
Ref(i) == [op |-> "ref", slot |-> {}, inst |-> i]
Unref(i) == [op |-> "unref", slot |-> {}, inst |-> i]
Set(s, i) == [op |-> "set", slot |-> {s}, inst |-> i]
Run(s, request) == [op |-> "run", slot |-> {s}, inst |-> target[s], request |-> request]

(* if (target_ != nullptr) target_->module->ref(), and unref(). *)
RefIf(i) == IF i = 0 THEN <<>> ELSE <<Ref(i)>>
UnrefIf(i) == IF i = 0 THEN <<>> ELSE <<Unref(i)>>

Idle == [slots |-> {}, steps |-> <<>>]

HostInit ==
    /\ modules = [n \in Name |-> 0]
    /\ made = 0
    /\ loaded = {}
    /\ refcnt = [i \in Instance |-> 0]
    /\ target = [s \in Slot |-> 0]
    /\ prog = [t \in Thread |-> Idle]
    /\ outcome = "none"
-----------------------------------------------------------------------------
(* The manager.                                                            *)

Make(n) ==
    /\ made < MaxLoads
    /\ made' = made + 1
    /\ modules' = [modules EXCEPT ![n] = made + 1]
    /\ refcnt' = [refcnt EXCEPT ![made + 1] = 1]

Load(n) ==
    /\ modules[n] = 0
    /\ Make(n)
    /\ loaded' = loaded \cup {made + 1}
    /\ UNCHANGED <<target, prog, outcome>>

(* "in an optimistic way, will fail if the module is being in use": the    *)
(* manager has the only reference.                                         *)
Unused(n) == modules[n] # 0 /\ refcnt[modules[n]] = 1

Unload(n) ==
    /\ Unused(n)
    /\ modules' = [modules EXCEPT ![n] = 0]
    /\ loaded' = loaded \ {modules[n]}
    /\ UNCHANGED <<made, refcnt, target, prog, outcome>>

Reload(n) ==
    /\ Unused(n)
    /\ Make(n)
    /\ loaded' = (loaded \ {modules[n]}) \cup {made + 1}
    /\ UNCHANGED <<target, prog, outcome>>
-----------------------------------------------------------------------------
(* Holders.                                                                *)

HolderFree(t, slots) ==
    /\ prog[t] = Idle
    /\ \A u \in Thread : prog[u].slots \cap slots = {}

Begin(t, slots, steps) ==
    /\ HolderFree(t, slots)
    /\ prog' = [prog EXCEPT ![t] = [slots |-> slots, steps |-> steps]]
    /\ UNCHANGED <<modules, made, loaded, refcnt, target, outcome>>

(* Mutant: the procedure is looked up, and its module referenced after the *)
(* lock was released.                                                      *)
GetUnlocked(t, s, n) ==
    /\ target[s] = 0
    /\ modules[n] # 0
    /\ Begin(t, {s}, <<Set(s, modules[n]), Ref(modules[n])>>)

(* getProc: Holder(const T *target) under the manager's lock. *)
Get(t, s, n) ==
    /\ HolderFree(t, {s})
    /\ target[s] = 0
    /\ modules[n] # 0
    /\ target' = [target EXCEPT ![s] = modules[n]]
    /\ refcnt' = [refcnt EXCEPT ![modules[n]] = @ + 1]
    /\ UNCHANGED <<modules, made, loaded, prog, outcome>>

(* Holder(const Holder &rhs) *)
CopyConstruct(t, s, r) ==
    /\ target[s] = 0
    /\ Begin(t, {s, r}, <<Set(s, target[r])>> \o RefIf(target[r]))

(* Holder(Holder &&rhs) *)
MoveConstruct(t, s, r) ==
    /\ target[s] = 0
    /\ Begin(t, {s, r}, <<Set(s, target[r]), Set(r, 0)>>)

(* Mutant: the own reference is dropped only when rhs is another module's. *)
CopyAssignSkips(t, s, r) ==
    Begin(t, {s, r},
          (IF target[s] # target[r] THEN UnrefIf(target[s]) ELSE <<>>)
          \o <<Set(s, target[r])>> \o RefIf(target[r]))

(* operator=(const Holder &rhs) *)
CopyAssign(t, s, r) ==
    Begin(t, {s, r}, UnrefIf(target[s]) \o <<Set(s, target[r])>> \o RefIf(target[r]))

(* operator=(Holder &&rhs) *)
MoveAssign(t, s, r) ==
    Begin(t, {s, r}, UnrefIf(target[s]) \o <<Set(s, target[r]), Set(r, 0)>>)

(* reset() and the destructor *)
Reset(t, s) ==
    /\ target[s] # 0
    /\ Begin(t, {s}, <<Unref(target[s]), Set(s, 0)>>)
-----------------------------------------------------------------------------
(* The procedure.                                                          *)

Request == [rctx : BOOLEAN, args : {"none", "string", "ref"}]

(* networkTopoProcedure: without a request context or a string it returns  *)
(* OK and no table.  With a string it takes the string for a Ref: there is *)
(* no telling which graph, if any, the id in it names.                     *)
Outcomes(request) ==
    IF ~request.rctx \/ request.args # "string" THEN {"empty"} ELSE {"table", "undefined"}

(* A call through a holder, operator->(). *)
CallProcedure(t, s) ==
    /\ target[s] # 0
    /\ \E request \in Request : Begin(t, {s}, <<Run(s, request)>>)
-----------------------------------------------------------------------------
Popped(t) == LET rest == Tail(prog[t].steps)
             IN  IF rest = <<>> THEN Idle ELSE [prog[t] EXCEPT !.steps = rest]

HolderStep(t) ==
    /\ prog[t].steps # <<>>
    /\ LET step == Head(prog[t].steps)
           by == CASE step.op = "ref" -> 1 [] step.op = "unref" -> -1 [] OTHER -> 0
       IN  /\ refcnt' = [i \in Instance |-> IF i = step.inst THEN refcnt[i] + by ELSE refcnt[i]]
           /\ target' = [s \in Slot |-> IF step.op = "set" /\ s \in step.slot
                                        THEN step.inst ELSE target[s]]
           /\ IF step.op = "run"
              THEN outcome' \in Outcomes(step.request)
              ELSE UNCHANGED outcome
    /\ prog' = [prog EXCEPT ![t] = Popped(t)]
    /\ UNCHANGED <<modules, made, loaded>>

HostNext ==
    \/ \E n \in Name : Load(n)
    \/ \E n \in Name : Unload(n)
    \/ \E n \in Name : Reload(n)
    \/ \E t \in Thread, s \in Slot, n \in Name : Get(t, s, n)
    \/ \E t \in Thread, s \in Slot : \E r \in Slot \ {s} : CopyConstruct(t, s, r)
    \/ \E t \in Thread, s \in Slot : \E r \in Slot \ {s} : MoveConstruct(t, s, r)
    \/ \E t \in Thread, s \in Slot : \E r \in Slot \ {s} : CopyAssign(t, s, r)
    \/ \E t \in Thread, s \in Slot : \E r \in Slot \ {s} : MoveAssign(t, s, r)
    \/ \E t \in Thread, s \in Slot : Reset(t, s)
    \/ \E t \in Thread, s \in Slot : CallProcedure(t, s)
    \/ \E t \in Thread : HolderStep(t)

HostSpec == HostInit /\ [][HostNext]_hostVars
-----------------------------------------------------------------------------
(* Whatever the other threads assign and the manager unloads, the next     *)
(* step of a thread - a reference taken or dropped, a call of the          *)
(* procedure - finds the module it goes to still loaded, and a holder that *)
(* no function is working on points to a loaded module: "a reference to    *)
(* the underlying module to protect the module from being unloaded"        *)
(* (ModuleManager.h:87).                                                   *)
HeldStaysLoaded ==
    /\ \A t \in Thread :
           prog[t].steps # <<>> => LET step == Head(prog[t].steps)
                                   IN  step.op # "set" => step.inst \in loaded
    /\ \A s \in Slot : (\A t \in Thread : s \notin prog[t].slots) => target[s] \in loaded \cup {0}

(* Between the functions the count of a loaded module is the number of its *)
(* holders and the manager's own reference, so that it can be unloaded as  *)
(* soon as the last holder is gone and not before.                         *)
CountsHolders ==
    (\A t \in Thread : prog[t] = Idle) =>
        \A i \in loaded : refcnt[i] = 1 + Cardinality({s \in Slot : target[s] = i})
=============================================================================
