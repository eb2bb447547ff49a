--------------------------- MODULE ServicesProofs ----------------------------
(***************************************************************************)
(* Proofs about the services that threads share: the modules of a host and *)
(* their holders (ModuleHost), the timers of the workers of a pool         *)
(* (WorkerTimers), and the layers of memory trackers (MemoryTracker).      *)
(***************************************************************************)
EXTENDS ModuleHost, WorkerTimers, MemoryTracker, FiniteSetTheorems, WellFoundedInduction, TLAPS

-----------------------------------------------------------------------------
(* Short sequences. *)
LEMMA Tuples ==
    ASSUME NEW a, NEW b, NEW c
    PROVE  /\ <<a>> # <<>> /\ Head(<<a>>) = a /\ Tail(<<a>>) = <<>>
           /\ <<a, b>> # <<>> /\ Head(<<a, b>>) = a /\ Tail(<<a, b>>) = <<b>>
           /\ <<a, b, c>> # <<>> /\ Head(<<a, b, c>>) = a /\ Tail(<<a, b, c>>) = <<b, c>>
  OBVIOUS

LEMMA SameSeq ==
    ASSUME NEW S, NEW s \in Seq(S), NEW u \in Seq(S), Len(s) = Len(u), \A i \in 1 .. Len(s) : s[i] = u[i]
    PROVE  s = u
  OBVIOUS

LEMMA Joins ==
    ASSUME NEW a, NEW b, NEW c
    PROVE  /\ <<>> \o <<a>> = <<a>> /\ <<a>> \o <<>> = <<a>> /\ <<a>> \o <<b>> = <<a, b>>
           /\ <<a, b>> \o <<>> = <<a, b>> /\ <<a, b>> \o <<c>> = <<a, b, c>>
           /\ <<>> \o <<a, b>> = <<a, b>> /\ <<a>> \o <<b, c>> = <<a, b, c>>
<1>1. ASSUME NEW S, NEW s \in Seq(S) PROVE <<>> \o s = s /\ s \o <<>> = s
  OBVIOUS
<1>2. <<a>> \in Seq({a}) /\ <<a, b>> \in Seq({a, b})
  OBVIOUS
<1>3. <<>> \o <<a>> = <<a>> /\ <<a>> \o <<>> = <<a>> /\ <<a, b>> \o <<>> = <<a, b>> /\ <<>> \o <<a, b>> = <<a, b>>
  BY <1>1, <1>2
<1> DEFINE S == {a, b, c}
<1>4. ASSUME NEW s \in Seq(S), NEW u \in Seq(S)
      PROVE  /\ s \o u \in Seq(S) /\ Len(s \o u) = Len(s) + Len(u)
             /\ \A i \in 1 .. Len(s) : (s \o u)[i] = s[i]
             /\ \A i \in 1 .. Len(u) : (s \o u)[Len(s) + i] = u[i]
  <2> HIDE DEF S
  <2> QED OBVIOUS
<1>5. /\ <<a>> \in Seq(S) /\ <<b>> \in Seq(S) /\ <<c>> \in Seq(S) /\ <<a, b>> \in Seq(S) /\ <<b, c>> \in Seq(S)
      /\ <<a, b, c>> \in Seq(S)
  OBVIOUS
<1>6. /\ Len(<<a>>) = 1 /\ <<a>>[1] = a /\ Len(<<b>>) = 1 /\ <<b>>[1] = b /\ Len(<<c>>) = 1 /\ <<c>>[1] = c
      /\ Len(<<a, b>>) = 2 /\ <<a, b>>[1] = a /\ <<a, b>>[2] = b
      /\ Len(<<b, c>>) = 2 /\ <<b, c>>[1] = b /\ <<b, c>>[2] = c
      /\ Len(<<a, b, c>>) = 3 /\ <<a, b, c>>[1] = a /\ <<a, b, c>>[2] = b /\ <<a, b, c>>[3] = c
  OBVIOUS
<1> DEFINE a1 == <<a>>
           b1 == <<b>>
           c1 == <<c>>
           ab == <<a, b>>
           bc == <<b, c>>
           abc == <<a, b, c>>
<1> HIDE DEF S, a1, b1, c1, ab, bc, abc
<1>7. a1 \o b1 = ab
  <2>1. a1 \o b1 \in Seq(S) /\ ab \in Seq(S) /\ Len(a1 \o b1) = 2 /\ Len(ab) = 2
    BY <1>4, <1>5, <1>6 DEF a1, b1, ab
  <2>2. (a1 \o b1)[1] = ab[1] /\ (a1 \o b1)[2] = ab[2]
    BY <1>4, <1>5, <1>6 DEF a1, b1, ab
  <2>3. \A i \in 1 .. 2 : i = 1 \/ i = 2
    OBVIOUS
  <2>4. \A i \in 1 .. 2 : (a1 \o b1)[i] = ab[i]
    BY <2>2, <2>3, Zenon
  <2> QED BY <2>1, <2>4, SameSeq
<1>8. ab \o c1 = abc
  <2>1. ab \o c1 \in Seq(S) /\ abc \in Seq(S) /\ Len(ab \o c1) = 3 /\ Len(abc) = 3
    BY <1>4, <1>5, <1>6 DEF ab, c1, abc
  <2>2. (ab \o c1)[1] = abc[1] /\ (ab \o c1)[2] = abc[2] /\ (ab \o c1)[3] = abc[3]
    BY <1>4, <1>5, <1>6 DEF ab, c1, abc
  <2>3. \A i \in 1 .. 3 : i = 1 \/ i = 2 \/ i = 3
    OBVIOUS
  <2>4. \A i \in 1 .. 3 : (ab \o c1)[i] = abc[i]
    BY <2>2, <2>3, Zenon
  <2> QED BY <2>1, <2>4, SameSeq
<1>9. a1 \o bc = abc
  <2>1. a1 \o bc \in Seq(S) /\ abc \in Seq(S) /\ Len(a1 \o bc) = 3 /\ Len(abc) = 3
    BY <1>4, <1>5, <1>6 DEF a1, bc, abc
  <2>2. (a1 \o bc)[1] = abc[1] /\ (a1 \o bc)[2] = abc[2] /\ (a1 \o bc)[3] = abc[3]
    BY <1>4, <1>5, <1>6 DEF a1, bc, abc
  <2>3. \A i \in 1 .. 3 : i = 1 \/ i = 2 \/ i = 3
    OBVIOUS
  <2>4. \A i \in 1 .. 3 : (a1 \o bc)[i] = abc[i]
    BY <2>2, <2>3, Zenon
  <2> QED BY <2>1, <2>4, SameSeq
<1> QED BY <1>3, <1>7, <1>8, <1>9 DEF a1, b1, c1, ab, bc, abc

-----------------------------------------------------------------------------
(* Modules and their holders.                                              *)
(*                                                                         *)
(* A count is right only between the member functions of a holder.  In     *)
(* between, own tells which module each holder has its reference to: its   *)
(* target, but for the holder a function is working on, which has none     *)
(* after unref() and before ref(), and of the two that a move works on     *)
(* only one has it.                                                        *)

HoldersOf(own, i) == {s \in Slot : own[s] = i}

(* What a thread has still to do, with what the holders own meanwhile. *)
Copying(p, own, tg) ==
    \E s \in Slot : \E r \in Slot \ {s} :
        /\ p.slots = {s, r} /\ own[r] = tg[r]
        /\ \/ /\ own[s] = tg[s] /\ own[s] # 0
              /\ p.steps = <<Unref(tg[s])>> \o (<<Set(s, tg[r])>> \o RefIf(tg[r]))
           \/ own[s] = 0 /\ p.steps = <<Set(s, tg[r])>> \o RefIf(tg[r])
           \/ own[s] = 0 /\ tg[s] = tg[r] /\ tg[r] # 0 /\ p.steps = <<Ref(tg[r])>>

Moving(p, own, tg) ==
    \E s \in Slot : \E r \in Slot \ {s} :
        /\ p.slots = {s, r}
        /\ \/ /\ own[s] = tg[s] /\ own[s] # 0 /\ own[r] = tg[r]
              /\ p.steps = <<Unref(tg[s]), Set(s, tg[r]), Set(r, 0)>>
           \/ own[s] = 0 /\ own[r] = tg[r] /\ p.steps = <<Set(s, tg[r]), Set(r, 0)>>
           \/ own[r] = 0 /\ own[s] = tg[s] /\ p.steps = <<Set(r, 0)>>

Resetting(p, own, tg) ==
    \E s \in Slot :
        /\ p.slots = {s}
        /\ \/ own[s] = tg[s] /\ own[s] # 0 /\ p.steps = <<Unref(tg[s]), Set(s, 0)>>
           \/ own[s] = 0 /\ p.steps = <<Set(s, 0)>>

Calling(p, own, tg) ==
    \E s \in Slot :
        /\ p.slots = {s} /\ own[s] = tg[s] /\ own[s] # 0
        /\ \E req \in Request : p.steps = <<[op |-> "run", slot |-> {s}, inst |-> tg[s], request |-> req]>>

Doing(p, own, tg) ==
    /\ p = [slots |-> p.slots, steps |-> p.steps]
    /\ p = Idle \/ Copying(p, own, tg) \/ Moving(p, own, tg) \/ Resetting(p, own, tg) \/ Calling(p, own, tg)

HostTypeOK ==
    /\ made \in 0 .. MaxLoads
    /\ loaded \subseteq 1 .. made
    /\ refcnt \in [Instance -> Int]
    /\ modules \in [Name -> loaded \cup {0}]
    /\ \A n, m \in Name : modules[n] # 0 /\ modules[n] = modules[m] => n = m
    /\ target \in [Slot -> 0 .. MaxLoads]
    /\ prog = [t \in Thread |-> prog[t]]
    /\ \A t, u \in Thread : t # u => prog[t].slots \cap prog[u].slots = {}

OwnInv(own) ==
    /\ own \in [Slot -> Nat]
    /\ \A s \in Slot : own[s] \in loaded \cup {0}
    /\ \A i \in loaded : refcnt[i] = 1 + Cardinality(HoldersOf(own, i))
    /\ \A s \in Slot : (\A t \in Thread : s \notin prog[t].slots) => own[s] = target[s]
    /\ \A t \in Thread : Doing(prog[t], own, target)

HostInv == HostTypeOK /\ \E own : OwnInv(own)
-----------------------------------------------------------------------------
(* One more and one less holder. *)
LEMMA OwnMoves ==
    ASSUME NEW own \in [Slot -> Nat], NEW s \in Slot, NEW v \in Nat, NEW i
    PROVE  /\ Cardinality(HoldersOf(own, i)) \in Nat
           /\ i # v /\ i # own[s] =>
                 Cardinality(HoldersOf([own EXCEPT ![s] = v], i)) = Cardinality(HoldersOf(own, i))
           /\ i = v /\ i # own[s] =>
                 Cardinality(HoldersOf([own EXCEPT ![s] = v], i)) = Cardinality(HoldersOf(own, i)) + 1
           /\ i # v /\ i = own[s] =>
                 Cardinality(HoldersOf([own EXCEPT ![s] = v], i)) = Cardinality(HoldersOf(own, i)) - 1
<1> DEFINE A == HoldersOf(own, i)
           C == HoldersOf([own EXCEPT ![s] = v], i)
<1>1. IsFiniteSet(A)
  <2>1. A \subseteq Slot
    BY DEF HoldersOf
  <2> QED BY <2>1, FS_Subset, HostAssumption
<1>2. i # v /\ i # own[s] => C = A
  BY DEF HoldersOf
<1>3. i = v /\ i # own[s] => C = A \cup {s} /\ s \notin A
  BY DEF HoldersOf
<1>4. i # v /\ i = own[s] => C = A \ {s} /\ s \in A
  BY DEF HoldersOf
<1> HIDE DEF A, C
<1>5. /\ s \notin A => Cardinality(A \cup {s}) = Cardinality(A) + 1
      /\ s \in A => Cardinality(A \ {s}) = Cardinality(A) - 1
      /\ Cardinality(A) \in Nat
  BY <1>1, FS_AddElement, FS_RemoveElement, FS_CardinalityType
<1>6. /\ Cardinality(A) \in Nat
      /\ i # v /\ i # own[s] => Cardinality(C) = Cardinality(A)
      /\ i = v /\ i # own[s] => Cardinality(C) = Cardinality(A) + 1
      /\ i # v /\ i = own[s] => Cardinality(C) = Cardinality(A) - 1
  BY <1>2, <1>3, <1>4, <1>5
<1> QED BY <1>6 DEF A, C

(* A reference that passes from one holder to another. *)
LEMMA OwnPasses ==
    ASSUME NEW own \in [Slot -> Nat], NEW s \in Slot, NEW r \in Slot, s # r, own[s] = 0, NEW i, i # 0,
           NEW own2 \in [Slot -> Nat], own2[s] = own[r], own2[r] = 0, \A x \in Slot \ {s, r} : own2[x] = own[x]
    PROVE  Cardinality(HoldersOf(own2, i)) = Cardinality(HoldersOf(own, i))
<1> DEFINE A == HoldersOf(own, i)
           B == A \ {r}
           C == HoldersOf(own2, i)
<1>1. IsFiniteSet(A)
  <2>1. A \subseteq Slot
    BY DEF HoldersOf
  <2> QED BY <2>1, FS_Subset, HostAssumption
<1>2. own[r] # i => C = A
  BY DEF HoldersOf
<1>3. own[r] = i => r \in A /\ s \notin B /\ C = B \cup {s}
  BY DEF HoldersOf
<1> HIDE DEF A, B, C
<1>4. IsFiniteSet(B) /\ Cardinality(B) \in Nat /\ Cardinality(A) \in Nat
  BY <1>1, FS_RemoveElement, FS_CardinalityType DEF B
<1>5. r \in A => Cardinality(B) = Cardinality(A) - 1
  BY <1>1, FS_RemoveElement DEF B
<1>6. s \notin B => Cardinality(B \cup {s}) = Cardinality(B) + 1
  BY <1>4, FS_AddElement
<1>7. Cardinality(C) = Cardinality(A)
  BY <1>2, <1>3, <1>4, <1>5, <1>6
<1> QED BY <1>7 DEF A, C

(* A function depends on the holders it works on only. *)
LEMMA DoingKept ==
    ASSUME NEW p, NEW own, NEW tg, NEW own2, NEW tg2, Doing(p, own, tg),
           \A s \in p.slots : own2[s] = own[s] /\ tg2[s] = tg[s]
    PROVE  Doing(p, own2, tg2)
<1>0. p = [slots |-> p.slots, steps |-> p.steps]
  BY DEF Doing
<1>1. ASSUME Copying(p, own, tg) PROVE Copying(p, own2, tg2)
  <2>1. PICK s \in Slot : \E r \in Slot \ {s} :
        /\ p.slots = {s, r} /\ own[r] = tg[r]
        /\ \/ /\ own[s] = tg[s] /\ own[s] # 0
              /\ p.steps = <<Unref(tg[s])>> \o (<<Set(s, tg[r])>> \o RefIf(tg[r]))
           \/ own[s] = 0 /\ p.steps = <<Set(s, tg[r])>> \o RefIf(tg[r])
           \/ own[s] = 0 /\ tg[s] = tg[r] /\ tg[r] # 0 /\ p.steps = <<Ref(tg[r])>>
    BY <1>1, Zenon DEF Copying
  <2>2. PICK r \in Slot \ {s} :
        /\ p.slots = {s, r} /\ own[r] = tg[r]
        /\ \/ /\ own[s] = tg[s] /\ own[s] # 0
              /\ p.steps = <<Unref(tg[s])>> \o (<<Set(s, tg[r])>> \o RefIf(tg[r]))
           \/ own[s] = 0 /\ p.steps = <<Set(s, tg[r])>> \o RefIf(tg[r])
           \/ own[s] = 0 /\ tg[s] = tg[r] /\ tg[r] # 0 /\ p.steps = <<Ref(tg[r])>>
    BY <2>1, Zenon
  <2>3. own2[s] = own[s] /\ tg2[s] = tg[s] /\ own2[r] = own[r] /\ tg2[r] = tg[r]
    BY <2>2
  <2> QED BY <2>2, <2>3, Zenon DEF Copying
<1>2. ASSUME Moving(p, own, tg) PROVE Moving(p, own2, tg2)
  <2>1. PICK s \in Slot : \E r \in Slot \ {s} :
        /\ p.slots = {s, r}
        /\ \/ /\ own[s] = tg[s] /\ own[s] # 0 /\ own[r] = tg[r]
              /\ p.steps = <<Unref(tg[s]), Set(s, tg[r]), Set(r, 0)>>
           \/ own[s] = 0 /\ own[r] = tg[r] /\ p.steps = <<Set(s, tg[r]), Set(r, 0)>>
           \/ own[r] = 0 /\ own[s] = tg[s] /\ p.steps = <<Set(r, 0)>>
    BY <1>2, Zenon DEF Moving
  <2>2. PICK r \in Slot \ {s} :
        /\ p.slots = {s, r}
        /\ \/ /\ own[s] = tg[s] /\ own[s] # 0 /\ own[r] = tg[r]
              /\ p.steps = <<Unref(tg[s]), Set(s, tg[r]), Set(r, 0)>>
           \/ own[s] = 0 /\ own[r] = tg[r] /\ p.steps = <<Set(s, tg[r]), Set(r, 0)>>
           \/ own[r] = 0 /\ own[s] = tg[s] /\ p.steps = <<Set(r, 0)>>
    BY <2>1, Zenon
  <2>3. own2[s] = own[s] /\ tg2[s] = tg[s] /\ own2[r] = own[r] /\ tg2[r] = tg[r]
    BY <2>2
  <2> QED BY <2>2, <2>3, Zenon DEF Moving
<1>3. ASSUME Resetting(p, own, tg) PROVE Resetting(p, own2, tg2)
  <2>1. PICK s \in Slot :
        /\ p.slots = {s}
        /\ \/ own[s] = tg[s] /\ own[s] # 0 /\ p.steps = <<Unref(tg[s]), Set(s, 0)>>
           \/ own[s] = 0 /\ p.steps = <<Set(s, 0)>>
    BY <1>3, Zenon DEF Resetting
  <2>2. own2[s] = own[s] /\ tg2[s] = tg[s]
    BY <2>1
  <2> QED BY <2>1, <2>2, Zenon DEF Resetting
<1>4. ASSUME Calling(p, own, tg) PROVE Calling(p, own2, tg2)
  <2>1. PICK s \in Slot :
        /\ p.slots = {s} /\ own[s] = tg[s] /\ own[s] # 0
        /\ \E req \in Request : p.steps = <<[op |-> "run", slot |-> {s}, inst |-> tg[s], request |-> req]>>
    BY <1>4, Zenon DEF Calling
  <2>2. own2[s] = own[s] /\ tg2[s] = tg[s]
    BY <2>1
  <2> QED BY <2>1, <2>2, Zenon DEF Calling
<1> QED BY <1>0, <1>1, <1>2, <1>3, <1>4, Zenon DEF Doing
LEMMA DoingSlots ==
    ASSUME NEW p, NEW own, NEW tg, Doing(p, own, tg)
    PROVE  p.slots \subseteq Slot
<1>1. p = Idle => p.slots = {}
  BY DEF Idle
<1>2. Copying(p, own, tg) \/ Moving(p, own, tg) => \E s, r \in Slot : p.slots = {s, r}
  BY Zenon DEF Copying, Moving
<1>3. Resetting(p, own, tg) \/ Calling(p, own, tg) => \E s \in Slot : p.slots = {s}
  BY Zenon DEF Resetting, Calling
<1>4. p = Idle \/ Copying(p, own, tg) \/ Moving(p, own, tg) \/ Resetting(p, own, tg) \/ Calling(p, own, tg)
  BY Zenon DEF Doing
<1> QED BY <1>1, <1>2, <1>3, <1>4
-----------------------------------------------------------------------------
LEMMA HostInitInv == HostInit => HostInv
<1> SUFFICES ASSUME HostInit PROVE HostInv
  OBVIOUS
<1>1. HostTypeOK
  BY HostAssumption DEF HostInit, HostTypeOK, Instance, Idle
<1> DEFINE none == [s \in Slot |-> 0]
<1>2. OwnInv(none)
  <2>1. \A t \in Thread : prog[t] = Idle /\ Idle = [slots |-> Idle.slots, steps |-> Idle.steps]
    BY DEF HostInit, Idle
  <2>2. \A t \in Thread : Doing(prog[t], none, target)
    BY <2>1, Zenon DEF Doing
  <2> QED BY <2>2 DEF HostInit, OwnInv
<1> QED BY <1>1, <1>2 DEF HostInv

(* The manager makes an instance: nobody has a reference to it yet. *)
LEMMA MakeOwn ==
    ASSUME HostTypeOK, NEW own, OwnInv(own), NEW n \in Name, Make(n), NEW keep, keep \subseteq loaded,
           loaded' = keep \cup {made + 1}, \A s \in Slot : own[s] \in keep \cup {0},
           \A m \in Name : m # n => modules[m] \in keep \cup {0},
           UNCHANGED <<target, prog, outcome>>
    PROVE  HostTypeOK' /\ OwnInv(own)'
<1>1. /\ made < MaxLoads /\ made' = made + 1 /\ modules' = [modules EXCEPT ![n] = made + 1]
      /\ refcnt' = [refcnt EXCEPT ![made + 1] = 1]
  BY DEF Make
<1>2. /\ made \in 0 .. MaxLoads /\ loaded \subseteq 1 .. made /\ refcnt \in [Instance -> Int]
      /\ modules \in [Name -> loaded \cup {0}] /\ MaxLoads \in Nat
  BY HostAssumption DEF HostTypeOK
<1>3. made + 1 \in Instance /\ made + 1 \notin loaded /\ made + 1 # 0
  BY <1>1, <1>2 DEF Instance
<1>4. HostTypeOK'
  <2>1. made' \in 0 .. MaxLoads /\ loaded' \subseteq 1 .. made' /\ refcnt' \in [Instance -> Int]
    BY <1>1, <1>2, <1>3
  <2>2. modules' \in [Name -> loaded' \cup {0}]
    BY <1>1, <1>2
  <2>3. \A k, m \in Name : modules'[k] # 0 /\ modules'[k] = modules'[m] => k = m
    <3>1. \A k, m \in Name : modules[k] # 0 /\ modules[k] = modules[m] => k = m
      BY DEF HostTypeOK
    <3>2. \A k \in Name : modules[k] # made + 1
      BY <1>2, <1>3
    <3>3. \A k \in Name : modules'[k] = IF k = n THEN made + 1 ELSE modules[k]
      BY <1>1, <1>2
    <3> QED BY <3>1, <3>2, <3>3
  <2> QED BY <2>1, <2>2, <2>3 DEF HostTypeOK
<1>5. \A i \in loaded' : refcnt'[i] = 1 + Cardinality(HoldersOf(own, i))
  <2> TAKE i \in loaded'
  <2>1. CASE i = made + 1
    <3>1. HoldersOf(own, i) = {}
      BY <1>3, <2>1 DEF HoldersOf
    <3> QED BY <1>1, <1>2, <1>3, <2>1, <3>1, FS_EmptySet
  <2>2. CASE i # made + 1
    <3>1. i \in loaded /\ refcnt[i] = 1 + Cardinality(HoldersOf(own, i))
      BY <2>2 DEF OwnInv
    <3> QED BY <1>1, <1>2, <2>2, <3>1
  <2> QED BY <2>1, <2>2
<1>6. OwnInv(own)'
  BY <1>5 DEF OwnInv, HoldersOf
<1> QED BY <1>4, <1>6

(* What has no reference but the manager's has no holder. *)
LEMMA UnusedIsFree ==
    ASSUME HostTypeOK, NEW own, OwnInv(own), NEW n \in Name, Unused(n)
    PROVE  \A s \in Slot : own[s] \in (loaded \ {modules[n]}) \cup {0}
<1>1. modules[n] \in loaded /\ refcnt[modules[n]] = 1
  BY DEF Unused, HostTypeOK
<1>2. refcnt[modules[n]] = 1 + Cardinality(HoldersOf(own, modules[n]))
  BY <1>1 DEF OwnInv
<1>3. HoldersOf(own, modules[n]) \subseteq Slot
  BY DEF HoldersOf
<1>4. IsFiniteSet(HoldersOf(own, modules[n]))
  BY <1>3, HostAssumption, FS_Subset
<1>5. HoldersOf(own, modules[n]) = {}
  BY <1>1, <1>2, <1>4, FS_EmptySet, FS_CardinalityType
<1> QED BY <1>5 DEF OwnInv, HoldersOf

LEMMA LoadOwn ==
    ASSUME HostTypeOK, NEW own, OwnInv(own), NEW n \in Name, Load(n)
    PROVE  HostTypeOK' /\ OwnInv(own)'
<1>1. /\ Make(n) /\ loaded' = loaded \cup {made + 1} /\ UNCHANGED <<target, prog, outcome>>
      /\ \A s \in Slot : own[s] \in loaded \cup {0}
      /\ \A m \in Name : modules[m] \in loaded \cup {0}
  BY DEF Load, OwnInv, HostTypeOK
<1> QED BY <1>1, MakeOwn

LEMMA ReloadOwn ==
    ASSUME HostTypeOK, NEW own, OwnInv(own), NEW n \in Name, Reload(n)
    PROVE  HostTypeOK' /\ OwnInv(own)'
<1> DEFINE keep == loaded \ {modules[n]}
<1>1. /\ Make(n) /\ Unused(n) /\ loaded' = keep \cup {made + 1} /\ UNCHANGED <<target, prog, outcome>>
  BY DEF Reload
<1>2. \A s \in Slot : own[s] \in keep \cup {0}
  BY <1>1, UnusedIsFree
<1>3. \A m \in Name : m # n => modules[m] \in keep \cup {0}
  BY <1>1 DEF HostTypeOK, Unused
<1>4. keep \subseteq loaded
  OBVIOUS
<1> HIDE DEF keep
<1> QED BY <1>1, <1>2, <1>3, <1>4, MakeOwn

LEMMA UnloadOwn ==
    ASSUME HostTypeOK, NEW own, OwnInv(own), NEW n \in Name, Unload(n)
    PROVE  HostTypeOK' /\ OwnInv(own)'
<1>1. /\ Unused(n) /\ modules' = [modules EXCEPT ![n] = 0] /\ loaded' = loaded \ {modules[n]}
      /\ UNCHANGED <<made, refcnt, target, prog>>
  BY DEF Unload
<1>2. \A s \in Slot : own[s] \in loaded' \cup {0}
  BY <1>1, UnusedIsFree
<1>3. \A m \in Name : modules'[m] = IF m = n THEN 0 ELSE modules[m]
  BY <1>1 DEF HostTypeOK
<1>4. modules' \in [Name -> loaded' \cup {0}]
  BY <1>1, <1>3 DEF HostTypeOK, Unused
<1>5. HostTypeOK'
  BY <1>1, <1>3, <1>4 DEF HostTypeOK
<1>6. OwnInv(own)'
  BY <1>1, <1>2 DEF OwnInv, HoldersOf
<1> QED BY <1>5, <1>6

(* A look-up under the lock. *)
LEMMA GetOwn ==
    ASSUME HostTypeOK, NEW own, OwnInv(own), NEW t \in Thread, NEW s \in Slot, NEW n \in Name, Get(t, s, n)
    PROVE  HostInv'
<1>1. /\ target[s] = 0 /\ modules[n] # 0 /\ target' = [target EXCEPT ![s] = modules[n]]
      /\ refcnt' = [refcnt EXCEPT ![modules[n]] = @ + 1]
      /\ UNCHANGED <<modules, made, loaded, prog>>
      /\ \A u \in Thread : s \notin prog[u].slots
  BY DEF Get, HolderFree
<1>2. PICK i : i = modules[n]
  OBVIOUS
<1>3. /\ made \in 0 .. MaxLoads /\ loaded \subseteq 1 .. made /\ refcnt \in [Instance -> Int]
      /\ modules \in [Name -> loaded \cup {0}] /\ MaxLoads \in Nat /\ target \in [Slot -> 0 .. MaxLoads]
  BY HostAssumption DEF HostTypeOK
<1>4. i \in loaded /\ i \in Instance /\ i \in Nat /\ i # 0 /\ i \in 0 .. MaxLoads
  <2>1. i \in loaded
    BY <1>1, <1>2, <1>3
  <2> QED BY <1>3, <2>1 DEF Instance
<1>5. HostTypeOK'
  <2>1. target' \in [Slot -> 0 .. MaxLoads] /\ refcnt' \in [Instance -> Int]
    BY <1>1, <1>2, <1>3, <1>4
  <2> QED BY <1>1, <2>1 DEF HostTypeOK
<1>6. own[s] = 0 /\ own \in [Slot -> Nat]
  BY <1>1 DEF OwnInv
<1> DEFINE own2 == [own EXCEPT ![s] = i]
<1>7. own2 \in [Slot -> Nat] /\ own2[s] = i /\ \A r \in Slot : r # s => own2[r] = own[r]
  BY <1>4, <1>6
<1>8. \A k \in loaded : refcnt'[k] = 1 + Cardinality(HoldersOf(own2, k))
  <2> TAKE k \in loaded
  <2>1. refcnt[k] = 1 + Cardinality(HoldersOf(own, k)) /\ k \in Instance /\ k # 0 /\ refcnt[k] \in Int
    BY <1>3 DEF OwnInv, Instance
  <2>2. /\ Cardinality(HoldersOf(own, k)) \in Nat
        /\ k # i => Cardinality(HoldersOf(own2, k)) = Cardinality(HoldersOf(own, k))
        /\ k = i => Cardinality(HoldersOf(own2, k)) = Cardinality(HoldersOf(own, k)) + 1
    BY <1>4, <1>6, <2>1, OwnMoves
  <2>3. refcnt'[k] = IF k = i THEN refcnt[k] + 1 ELSE refcnt[k]
    BY <1>1, <1>2, <1>3, <2>1
  <2> HIDE DEF own2
  <2> QED BY <2>1, <2>2, <2>3
<1> HIDE DEF own2
<1>9. ASSUME NEW u \in Thread PROVE Doing(prog[u], own2, target')
  <2>1. Doing(prog[u], own, target)
    BY DEF OwnInv
  <2>2. prog[u].slots \subseteq Slot
    BY <2>1, DoingSlots
  <2>3. \A r \in prog[u].slots : own2[r] = own[r] /\ target'[r] = target[r]
    BY <1>1, <1>3, <1>7, <2>2
  <2> QED BY <2>1, <2>3, DoingKept
<1>10. OwnInv(own2)'
  <2>1. \A r \in Slot : own2[r] \in loaded \cup {0}
    BY <1>4, <1>7 DEF OwnInv
  <2>2. \A r \in Slot : (\A u \in Thread : r \notin prog[u].slots) => own2[r] = target'[r]
    BY <1>1, <1>2, <1>3, <1>7 DEF OwnInv
  <2> QED BY <1>1, <1>7, <1>8, <1>9, <2>1, <2>2 DEF OwnInv, HoldersOf
<1> QED BY <1>5, <1>10 DEF HostInv
-----------------------------------------------------------------------------
(* A member function begins on holders that no other works on. *)
LEMMA BeginOwn ==
    ASSUME HostTypeOK, NEW own, OwnInv(own), NEW t \in Thread, NEW slots, NEW steps,
           Begin(t, slots, steps), Doing([slots |-> slots, steps |-> steps], own, target)
    PROVE  HostTypeOK' /\ OwnInv(own)'
<1> DEFINE new == [slots |-> slots, steps |-> steps]
<1>1. /\ prog' = [prog EXCEPT ![t] = new] /\ UNCHANGED <<modules, made, loaded, refcnt, target>>
      /\ \A u \in Thread : prog[u].slots \cap slots = {}
      /\ prog[t] = Idle
  BY DEF Begin, HolderFree
<1>2. prog = [u \in Thread |-> prog[u]]
  BY DEF HostTypeOK
<1>3. prog'[t] = new /\ (\A u \in Thread : u # t => prog'[u] = prog[u]) /\ prog' = [u \in Thread |-> prog'[u]]
  <2> HIDE DEF new
  <2>1. \A u \in Thread : prog'[u] = IF u = t THEN new ELSE prog[u]
    BY <1>1, <1>2
  <2>2. prog' = [u \in Thread |-> IF u = t THEN new ELSE prog[u]]
    BY <1>1, <1>2
  <2> QED BY <2>1, <2>2
<1>4. new.slots = slots /\ Idle.slots = {}
  BY DEF Idle
<1> HIDE DEF new
<1>5. HostTypeOK'
  <2>1. \A u, w \in Thread : u # w => prog'[u].slots \cap prog'[w].slots = {}
    <3>1. \A u, w \in Thread : u # w => prog[u].slots \cap prog[w].slots = {}
      BY DEF HostTypeOK
    <3> QED BY <1>1, <1>3, <1>4, <3>1
  <2> QED BY <1>1, <1>3, <2>1 DEF HostTypeOK
<1>6. OwnInv(own)'
  <2>1. \A s \in Slot : (\A u \in Thread : s \notin prog'[u].slots) => (\A u \in Thread : s \notin prog[u].slots)
    BY <1>1, <1>3, <1>4
  <2>2. \A u \in Thread : Doing(prog'[u], own, target)
    BY <1>3, Zenon DEF OwnInv, new
  <2> QED BY <1>1, <2>1, <2>2 DEF OwnInv, HoldersOf
<1> QED BY <1>5, <1>6

LEMMA FreeOwn ==
    ASSUME NEW own, OwnInv(own), NEW t \in Thread, NEW slots, NEW steps, Begin(t, slots, steps),
           NEW s \in Slot, s \in slots
    PROVE  own[s] = target[s]
  BY DEF Begin, HolderFree, OwnInv

(* Every member function begins as described. *)
LEMMA BeginsOwn ==
    ASSUME HostTypeOK, NEW own, OwnInv(own), NEW t \in Thread, NEW s \in Slot,
           \/ \E r \in Slot \ {s} : CopyConstruct(t, s, r)
           \/ \E r \in Slot \ {s} : MoveConstruct(t, s, r)
           \/ \E r \in Slot \ {s} : CopyAssign(t, s, r)
           \/ \E r \in Slot \ {s} : MoveAssign(t, s, r)
           \/ Reset(t, s)
           \/ CallProcedure(t, s)
    PROVE  HostTypeOK' /\ OwnInv(own)'
<1> DEFINE P(slots, steps) == [slots |-> slots, steps |-> steps]
<1>0. \A slots, steps : /\ P(slots, steps).slots = slots /\ P(slots, steps).steps = steps
                        /\ P(slots, steps) = [slots |-> P(slots, steps).slots, steps |-> P(slots, steps).steps]
  OBVIOUS
<1>1. ASSUME NEW r \in Slot \ {s}, NEW steps, Begin(t, {s, r}, steps)
      PROVE  own[s] = target[s] /\ own[r] = target[r]
  <2>1. s \in {s, r} /\ r \in {s, r} /\ r \in Slot
    OBVIOUS
  <2> QED BY <1>1, <2>1, FreeOwn
<1>2. ASSUME NEW r \in Slot \ {s}, NEW steps, Begin(t, {s, r}, steps),
             \/ target[s] # 0 /\ steps = <<Unref(target[s])>> \o (<<Set(s, target[r])>> \o RefIf(target[r]))
             \/ target[s] = 0 /\ steps = <<Set(s, target[r])>> \o RefIf(target[r])
      PROVE  HostTypeOK' /\ OwnInv(own)'
  <2>0. own[s] = target[s] /\ own[r] = target[r]
    BY <1>1, <1>2
  <2>1. Copying(P({s, r}, steps), own, target)
    BY <1>0, <1>2, <2>0, ZenonT(40) DEF Copying
  <2>2. Doing(P({s, r}, steps), own, target)
    BY <1>0, <2>1, Zenon DEF Doing
  <2> QED BY <1>2, <2>2, BeginOwn
<1>3. ASSUME NEW r \in Slot \ {s}, NEW steps, Begin(t, {s, r}, steps),
             \/ target[s] # 0 /\ steps = <<Unref(target[s]), Set(s, target[r]), Set(r, 0)>>
             \/ target[s] = 0 /\ steps = <<Set(s, target[r]), Set(r, 0)>>
      PROVE  HostTypeOK' /\ OwnInv(own)'
  <2>0. own[s] = target[s] /\ own[r] = target[r]
    BY <1>1, <1>3
  <2>1. Moving(P({s, r}, steps), own, target)
    BY <1>0, <1>3, <2>0, Zenon DEF Moving
  <2>2. Doing(P({s, r}, steps), own, target)
    BY <1>0, <2>1, Zenon DEF Doing
  <2> QED BY <1>3, <2>2, BeginOwn
<1>4. ASSUME NEW r \in Slot \ {s}, CopyConstruct(t, s, r) PROVE HostTypeOK' /\ OwnInv(own)'
  BY <1>2, <1>4 DEF CopyConstruct
<1>5. ASSUME NEW r \in Slot \ {s}, MoveConstruct(t, s, r) PROVE HostTypeOK' /\ OwnInv(own)'
  BY <1>3, <1>5 DEF MoveConstruct
<1>6. ASSUME NEW r \in Slot \ {s}, CopyAssign(t, s, r) PROVE HostTypeOK' /\ OwnInv(own)'
  <2> DEFINE steps == UnrefIf(target[s]) \o <<Set(s, target[r])>> \o RefIf(target[r])
  <2>1. Begin(t, {s, r}, steps)
    BY <1>6 DEF CopyAssign
  <2>2. RefIf(target[r]) = <<>> \/ RefIf(target[r]) = <<Ref(target[r])>>
    BY Zenon DEF RefIf
  <2>3. target[s] # 0 => steps = <<Unref(target[s])>> \o (<<Set(s, target[r])>> \o RefIf(target[r]))
    <3>1. ASSUME NEW a, NEW b, NEW c
          PROVE  /\ (<<a>> \o <<b>>) \o <<c>> = <<a>> \o (<<b>> \o <<c>>)
                 /\ (<<a>> \o <<b>>) \o <<>> = <<a>> \o (<<b>> \o <<>>)
      BY Joins
    <3>2. target[s] # 0 => UnrefIf(target[s]) = <<Unref(target[s])>>
      BY Zenon DEF UnrefIf
    <3> HIDE DEF steps
    <3>3. target[s] # 0 => steps = (<<Unref(target[s])>> \o <<Set(s, target[r])>>) \o RefIf(target[r])
      BY <3>2, Zenon DEF steps
    <3>4. CASE RefIf(target[r]) = <<>>
      BY <3>1, <3>3, <3>4, Zenon
    <3>5. CASE RefIf(target[r]) = <<Ref(target[r])>>
      <4>1. (<<Unref(target[s])>> \o <<Set(s, target[r])>>) \o <<Ref(target[r])>>
                = <<Unref(target[s])>> \o (<<Set(s, target[r])>> \o <<Ref(target[r])>>)
        BY <3>1
      <4> QED BY <3>3, <3>5, <4>1, Zenon
    <3> QED BY <2>2, <3>4, <3>5
  <2>4. target[s] = 0 => steps = <<Set(s, target[r])>> \o RefIf(target[r])
    <3>1. <<>> \o <<Set(s, target[r])>> = <<Set(s, target[r])>>
      BY Joins
    <3>2. target[s] = 0 => UnrefIf(target[s]) = <<>>
      BY Zenon DEF UnrefIf
    <3> QED BY <3>1, <3>2, Zenon
  <2> HIDE DEF steps
  <2> QED BY <1>2, <2>1, <2>3, <2>4
<1>7. ASSUME NEW r \in Slot \ {s}, MoveAssign(t, s, r) PROVE HostTypeOK' /\ OwnInv(own)'
  <2> DEFINE steps == UnrefIf(target[s]) \o <<Set(s, target[r]), Set(r, 0)>>
  <2>1. Begin(t, {s, r}, steps)
    BY <1>7 DEF MoveAssign
  <2>2. target[s] # 0 => steps = <<Unref(target[s]), Set(s, target[r]), Set(r, 0)>>
    <3>1. <<Unref(target[s])>> \o <<Set(s, target[r]), Set(r, 0)>> = <<Unref(target[s]), Set(s, target[r]), Set(r, 0)>>
      BY Joins
    <3>2. target[s] # 0 => UnrefIf(target[s]) = <<Unref(target[s])>>
      BY Zenon DEF UnrefIf
    <3> QED BY <3>1, <3>2, Zenon
  <2>3. target[s] = 0 => steps = <<Set(s, target[r]), Set(r, 0)>>
    <3>1. <<>> \o <<Set(s, target[r]), Set(r, 0)>> = <<Set(s, target[r]), Set(r, 0)>>
      BY Joins
    <3>2. target[s] = 0 => UnrefIf(target[s]) = <<>>
      BY Zenon DEF UnrefIf
    <3> QED BY <3>1, <3>2, Zenon
  <2> HIDE DEF steps
  <2> QED BY <1>3, <2>1, <2>2, <2>3
<1>8. ASSUME Reset(t, s) PROVE HostTypeOK' /\ OwnInv(own)'
  <2> DEFINE steps == <<Unref(target[s]), Set(s, 0)>>
  <2>1. Begin(t, {s}, steps) /\ target[s] # 0 /\ s \in {s}
    BY <1>8 DEF Reset
  <2>2. own[s] = target[s]
    BY <2>1, FreeOwn
  <2>3. Resetting(P({s}, steps), own, target)
    BY <1>0, <2>1, <2>2, Zenon DEF Resetting
  <2>4. Doing(P({s}, steps), own, target)
    BY <1>0, <2>3, Zenon DEF Doing
  <2> QED BY <2>1, <2>4, BeginOwn
<1>9. ASSUME CallProcedure(t, s) PROVE HostTypeOK' /\ OwnInv(own)'
  <2>1. PICK req \in Request : Begin(t, {s}, <<Run(s, req)>>)
    BY <1>9 DEF CallProcedure
  <2> DEFINE steps == <<Run(s, req)>>
  <2>2. target[s] # 0 /\ s \in {s}
    BY <1>9 DEF CallProcedure
  <2>3. own[s] = target[s]
    BY <2>1, <2>2, FreeOwn
  <2>4. steps = <<[op |-> "run", slot |-> {s}, inst |-> target[s], request |-> req]>>
    BY Zenon DEF Run
  <2>5. Calling(P({s}, steps), own, target)
    BY <1>0, <2>2, <2>3, <2>4, Zenon DEF Calling
  <2>6. Doing(P({s}, steps), own, target)
    BY <1>0, <2>5, Zenon DEF Doing
  <2> QED BY <2>1, <2>6, BeginOwn
<1> QED BY <1>4, <1>5, <1>6, <1>7, <1>8, <1>9
-----------------------------------------------------------------------------
(* A step of a member function. *)

LEMMA StepOwn ==
    ASSUME HostTypeOK, NEW own, OwnInv(own), NEW t \in Thread, HolderStep(t),
           NEW own2 \in [Slot -> Nat], prog[t].slots \subseteq Slot,
           \A s \in Slot \ prog[t].slots : own2[s] = own[s] /\ target'[s] = target[s],
           \A s \in Slot : own2[s] \in loaded \cup {0},
           refcnt' \in [Instance -> Int],
           \A i \in loaded : refcnt'[i] = 1 + Cardinality(HoldersOf(own2, i)),
           target' \in [Slot -> 0 .. MaxLoads],
           Doing(prog'[t], own2, target'),
           \/ prog'[t] = Idle /\ \A s \in prog[t].slots : own2[s] = target'[s]
           \/ prog'[t].slots = prog[t].slots
    PROVE  HostTypeOK' /\ OwnInv(own2)'
<1>1. prog' = [prog EXCEPT ![t] = Popped(t)] /\ UNCHANGED <<modules, made, loaded>>
  BY DEF HolderStep
<1>2. prog = [u \in Thread |-> prog[u]]
  BY DEF HostTypeOK
<1>3. prog' = [u \in Thread |-> prog'[u]] /\ \A u \in Thread : u # t => prog'[u] = prog[u]
  BY <1>1, <1>2
<1>4. Idle.slots = {}
  BY DEF Idle
<1>5. prog'[t].slots \subseteq prog[t].slots
  BY <1>4
<1>6. \A u, w \in Thread : u # w => prog[u].slots \cap prog[w].slots = {}
  BY DEF HostTypeOK
<1>7. HostTypeOK'
  <2>1. \A u, w \in Thread : u # w => prog'[u].slots \cap prog'[w].slots = {}
    BY <1>3, <1>5, <1>6
  <2> QED BY <1>1, <1>3, <2>1 DEF HostTypeOK
<1>8. ASSUME NEW u \in Thread PROVE Doing(prog'[u], own2, target')
  <2>1. CASE u = t
    BY <2>1
  <2>2. CASE u # t
    <3>1. Doing(prog[u], own, target) /\ prog'[u] = prog[u] /\ prog[u].slots \cap prog[t].slots = {}
      BY <1>3, <1>6, <2>2 DEF OwnInv
    <3>2. prog[u].slots \subseteq Slot
      BY <3>1, DoingSlots
    <3>3. \A s \in prog[u].slots : own2[s] = own[s] /\ target'[s] = target[s]
      BY <3>1, <3>2
    <3> QED BY <3>1, <3>3, DoingKept
  <2> QED BY <2>1, <2>2
<1>9. ASSUME NEW s \in Slot, \A u \in Thread : s \notin prog'[u].slots PROVE own2[s] = target'[s]
  <2>1. CASE s \in prog[t].slots
    <3>1. prog'[t] = Idle /\ \A r \in prog[t].slots : own2[r] = target'[r]
      BY <1>9, <2>1
    <3> QED BY <2>1, <3>1
  <2>2. CASE s \notin prog[t].slots
    <3>1. \A u \in Thread : s \notin prog[u].slots
      BY <1>3, <1>9, <2>2
    <3> QED BY <2>2, <3>1 DEF OwnInv
  <2> QED BY <2>1, <2>2
<1>10. OwnInv(own2)'
  BY <1>1, <1>8, <1>9 DEF OwnInv, HoldersOf
<1> QED BY <1>7, <1>10

(* The step, and what is left after it. *)
First(t) == Head(prog[t].steps)
Rest(t) == Tail(prog[t].steps)
After(t) == [slots |-> prog[t].slots, steps |-> Rest(t)]

LEMMA StepsReplaced ==
    \A a, b, c, p : p = [slots |-> a, steps |-> b] => [p EXCEPT !.steps = c] = [slots |-> a, steps |-> c]
  OBVIOUS

(* What a step does, by its kind. *)
LEMMA StepIs ==
    ASSUME HostTypeOK, NEW t \in Thread, HolderStep(t),
           prog[t] = [slots |-> prog[t].slots, steps |-> prog[t].steps]
    PROVE  /\ prog'[t] = IF Rest(t) = <<>> THEN Idle
                         ELSE After(t)
           /\ First(t).op = "ref" => /\ target' = target
                 /\ refcnt' = [i \in Instance |-> IF i = First(t).inst THEN refcnt[i] + 1 ELSE refcnt[i]]
           /\ First(t).op = "unref" => /\ target' = target
                 /\ refcnt' = [i \in Instance |-> IF i = First(t).inst THEN refcnt[i] - 1 ELSE refcnt[i]]
           /\ First(t).op = "set" => /\ refcnt' = refcnt
                 /\ target' = [s \in Slot |-> IF s \in First(t).slot
                                              THEN First(t).inst ELSE target[s]]
           /\ First(t).op = "run" => refcnt' = refcnt /\ target' = target
<1>0. PICK step, rest, sl : step = First(t) /\ rest = Rest(t) /\ sl = prog[t].slots
  OBVIOUS
<1> DEFINE by == CASE step.op = "ref" -> 1 [] step.op = "unref" -> -1 [] OTHER -> 0
<1>1. /\ refcnt' = [i \in Instance |-> IF i = step.inst THEN refcnt[i] + by ELSE refcnt[i]]
      /\ target' = [s \in Slot |-> IF step.op = "set" /\ s \in step.slot THEN step.inst ELSE target[s]]
      /\ prog' = [prog EXCEPT ![t] = Popped(t)]
  BY <1>0, Zenon DEF HolderStep, First
<1>2. refcnt \in [Instance -> Int] /\ target \in [Slot -> 0 .. MaxLoads] /\ prog = [u \in Thread |-> prog[u]]
  BY DEF HostTypeOK
<1>3. /\ step.op = "ref" => by = 1
      /\ step.op = "unref" => by = -1
      /\ step.op = "set" => by = 0
      /\ step.op = "run" => by = 0
  OBVIOUS
<1> HIDE DEF by
<1>4. prog'[t] = IF rest = <<>> THEN Idle ELSE [slots |-> sl, steps |-> rest]
  <2>1. prog'[t] = Popped(t)
    BY <1>1, <1>2
  <2>2. [prog[t] EXCEPT !.steps = rest] = [slots |-> sl, steps |-> rest]
    <3>1. prog[t] = [slots |-> sl, steps |-> prog[t].steps]
      BY <1>0, Zenon
    <3> QED BY ONLY <3>1, StepsReplaced
  <2> QED BY <1>0, <2>1, <2>2, Zenon DEF Popped, Rest
<1>5. step.op # "set" => target' = target
  BY <1>1, <1>2
<1>6. by = 0 => refcnt' = refcnt
  BY <1>1, <1>2
<1>7. step.op = "set" => target' = [s \in Slot |-> IF s \in step.slot THEN step.inst ELSE target[s]]
  BY <1>1
<1>8. by = 1 => refcnt' = [i \in Instance |-> IF i = step.inst THEN refcnt[i] + 1 ELSE refcnt[i]]
  BY <1>1
<1>9. by = -1 => refcnt' = [i \in Instance |-> IF i = step.inst THEN refcnt[i] - 1 ELSE refcnt[i]]
  BY <1>1, <1>2
<1>10. /\ step.op = "ref" => target' = target /\ by = 1
       /\ step.op = "unref" => target' = target /\ by = -1
       /\ step.op = "set" => refcnt' = refcnt
       /\ step.op = "run" => refcnt' = refcnt /\ target' = target
  BY <1>3, <1>5, <1>6
<1> QED BY <1>0, <1>4, <1>7, <1>8, <1>9, <1>10, Zenon DEF After

LEMMA StepFields ==
    ASSUME NEW i, NEW s
    PROVE  /\ Ref(i).op = "ref" /\ Ref(i).inst = i
           /\ Unref(i).op = "unref" /\ Unref(i).inst = i
           /\ Set(s, i).op = "set" /\ Set(s, i).inst = i /\ Set(s, i).slot = {s}
  BY DEF Ref, Unref, Set

(* unref(): the holder has no reference any more. *)
LEMMA UnrefOwn ==
    ASSUME HostTypeOK, NEW own, OwnInv(own), NEW t \in Thread, HolderStep(t),
           NEW s \in Slot, s \in prog[t].slots, own[s] # 0,
           First(t) = Unref(own[s]), Rest(t) # <<>>,
           Doing(After(t), [own EXCEPT ![s] = 0], target)
    PROVE  HostTypeOK' /\ OwnInv([own EXCEPT ![s] = 0])'
<1> DEFINE own2 == [own EXCEPT ![s] = 0]
           p == After(t)
<1>1. own \in [Slot -> Nat] /\ own[s] \in loaded /\ loaded \subseteq Instance
  BY HostAssumption DEF OwnInv, HostTypeOK, Instance
<1>2. Doing(prog[t], own, target) /\ prog[t] = [slots |-> prog[t].slots, steps |-> prog[t].steps]
  BY DEF OwnInv, Doing
<1>3. prog[t].slots \subseteq Slot
  BY <1>2, DoingSlots
<1>4. /\ prog'[t] = p /\ target' = target
      /\ refcnt' = [i \in Instance |-> IF i = own[s] THEN refcnt[i] - 1 ELSE refcnt[i]]
  <2>1. Unref(own[s]).op = "unref" /\ Unref(own[s]).inst = own[s]
    BY StepFields
  <2>2. /\ prog'[t] = IF Rest(t) = <<>> THEN Idle ELSE p
        /\ First(t).op = "unref" => /\ target' = target
              /\ refcnt' = [i \in Instance |-> IF i = First(t).inst THEN refcnt[i] - 1 ELSE refcnt[i]]
    BY <1>2, StepIs, Zenon
  <2>3. First(t).op = "unref" /\ First(t).inst = own[s]
    BY <2>1, Zenon
  <2> QED BY <2>2, <2>3, Zenon
<1>5. own2 \in [Slot -> Nat] /\ own2[s] = 0 /\ \A r \in Slot : r # s => own2[r] = own[r]
  BY <1>1
<1>6. refcnt' \in [Instance -> Int]
  BY <1>4 DEF HostTypeOK
<1>7. \A i \in loaded : refcnt'[i] = 1 + Cardinality(HoldersOf(own2, i))
  <2> TAKE i \in loaded
  <2>1. refcnt[i] = 1 + Cardinality(HoldersOf(own, i)) /\ i \in Instance /\ i # 0 /\ refcnt[i] \in Int
    BY <1>1 DEF OwnInv, Instance, HostTypeOK
  <2>2. /\ Cardinality(HoldersOf(own, i)) \in Nat
        /\ i # 0 /\ i # own[s] => Cardinality(HoldersOf(own2, i)) = Cardinality(HoldersOf(own, i))
        /\ i # 0 /\ i = own[s] => Cardinality(HoldersOf(own2, i)) = Cardinality(HoldersOf(own, i)) - 1
    <3>1. 0 \in Nat
      OBVIOUS
    <3> QED BY <1>1, <3>1, OwnMoves, ZenonT(40)
  <2>3. refcnt'[i] = IF i = own[s] THEN refcnt[i] - 1 ELSE refcnt[i]
    BY <1>4, <2>1
  <2> HIDE DEF own2
  <2> QED BY <2>1, <2>2, <2>3
<1>8. p.slots = prog[t].slots /\ Doing(p, own2, target)
  BY DEF After
<1> HIDE DEF own2, p
<1>9. \A r \in Slot : own2[r] \in loaded \cup {0}
  BY <1>5 DEF OwnInv
<1>10. target' \in [Slot -> 0 .. MaxLoads]
  BY <1>4 DEF HostTypeOK
<1>11. Doing(prog'[t], own2, target') /\ prog'[t].slots = prog[t].slots
  BY <1>4, <1>8
<1>12. \A r \in Slot \ prog[t].slots : own2[r] = own[r] /\ target'[r] = target[r]
  BY <1>4, <1>5
<1>13. HostTypeOK' /\ OwnInv(own2)'
  BY <1>3, <1>5, <1>6, <1>7, <1>9, <1>10, <1>11, <1>12, StepOwn, ZenonT(40)
<1> QED BY <1>13 DEF own2

(* A pointer is written, which no count depends on: the references may     *)
(* pass from one holder to the other meanwhile.                            *)
LEMMA SetOwn ==
    ASSUME HostTypeOK, NEW own, OwnInv(own), NEW t \in Thread, HolderStep(t),
           NEW s \in Slot, s \in prog[t].slots, NEW v \in 0 .. MaxLoads,
           First(t) = Set(s, v),
           NEW own2 \in [Slot -> Nat],
           \A r \in Slot \ prog[t].slots : own2[r] = own[r],
           \A r \in Slot : own2[r] \in loaded \cup {0},
           \A i \in loaded : Cardinality(HoldersOf(own2, i)) = Cardinality(HoldersOf(own, i)),
           NEW tg \in [Slot -> 0 .. MaxLoads], tg[s] = v, \A r \in Slot : r # s => tg[r] = target[r],
           Rest(t) = <<>> => \A r \in prog[t].slots : own2[r] = tg[r],
           Rest(t) # <<>> => Doing(After(t), own2, tg)
    PROVE  HostInv'
<1>1. Doing(prog[t], own, target) /\ prog[t] = [slots |-> prog[t].slots, steps |-> prog[t].steps]
  BY DEF OwnInv, Doing
<1>2. prog[t].slots \subseteq Slot
  BY <1>1, DoingSlots
<1>3. /\ prog'[t] = IF Rest(t) = <<>> THEN Idle ELSE After(t)
      /\ refcnt' = refcnt /\ target' = [r \in Slot |-> IF r \in {s} THEN v ELSE target[r]]
  <2>1. Set(s, v).op = "set" /\ Set(s, v).inst = v /\ Set(s, v).slot = {s}
    BY StepFields
  <2>2. /\ prog'[t] = IF Rest(t) = <<>> THEN Idle ELSE After(t)
        /\ First(t).op = "set" => /\ refcnt' = refcnt
              /\ target' = [r \in Slot |-> IF r \in First(t).slot
                                           THEN First(t).inst ELSE target[r]]
    <3>1. prog'[t] = IF Rest(t) = <<>> THEN Idle
                     ELSE After(t)
      BY <1>1, StepIs, Zenon
    <3> QED BY <1>1, <3>1, StepIs, Zenon
  <2>3. First(t).op = "set" /\ First(t).slot = {s} /\ First(t).inst = v
    BY <2>1, Zenon
  <2> QED BY <2>2, <2>3, Zenon
<1>4. After(t).slots = prog[t].slots
  BY DEF After
<1>5. target \in [Slot -> 0 .. MaxLoads] /\ refcnt \in [Instance -> Int]
  BY DEF HostTypeOK
<1>6. target' = tg /\ target' \in [Slot -> 0 .. MaxLoads] /\ \A r \in Slot : r # s => target'[r] = target[r]
  BY <1>3, <1>5
<1>7. \A i \in loaded : refcnt'[i] = 1 + Cardinality(HoldersOf(own2, i))
  BY <1>3 DEF OwnInv
<1>8. Doing(Idle, own2, target')
  BY Zenon DEF Doing, Idle
<1>9. Doing(prog'[t], own2, target')
  BY <1>3, <1>6, <1>8, Zenon
<1>10. \/ prog'[t] = Idle /\ \A r \in prog[t].slots : own2[r] = target'[r]
       \/ prog'[t].slots = prog[t].slots
  BY <1>3, <1>4, <1>6
<1>11. \A r \in Slot \ prog[t].slots : own2[r] = own[r] /\ target'[r] = target[r]
  BY <1>6
<1>12. refcnt' \in [Instance -> Int]
  BY <1>3, <1>5
<1>13. /\ HostTypeOK /\ OwnInv(own) /\ t \in Thread /\ HolderStep(t) /\ own2 \in [Slot -> Nat]
       /\ \A r \in Slot : own2[r] \in loaded \cup {0}
  OBVIOUS
<1>14. HostTypeOK' /\ OwnInv(own2)'
  BY ONLY <1>2, <1>6, <1>7, <1>9, <1>10, <1>11, <1>12, <1>13, StepOwn
<1> QED BY <1>14 DEF HostInv

LEMMA SetSame ==
    ASSUME HostTypeOK, NEW own, OwnInv(own), NEW t \in Thread, HolderStep(t),
           NEW s \in Slot, s \in prog[t].slots, NEW v \in 0 .. MaxLoads,
           First(t) = Set(s, v),
           NEW tg \in [Slot -> 0 .. MaxLoads], tg[s] = v, \A r \in Slot : r # s => tg[r] = target[r],
           Rest(t) = <<>> => \A r \in prog[t].slots : own[r] = tg[r],
           Rest(t) # <<>> => Doing(After(t), own, tg)
    PROVE  HostInv'
<1>1. own \in [Slot -> Nat] /\ \A r \in Slot : own[r] \in loaded \cup {0}
  BY DEF OwnInv
<1>2. /\ \A r \in Slot \ prog[t].slots : own[r] = own[r]
      /\ \A i \in loaded : Cardinality(HoldersOf(own, i)) = Cardinality(HoldersOf(own, i))
  OBVIOUS
<1> QED BY <1>1, <1>2, SetOwn

(* ref(): the last step of a copy. *)
LEMMA RefOwn ==
    ASSUME HostTypeOK, NEW own, OwnInv(own), NEW t \in Thread, HolderStep(t),
           NEW s \in Slot, s \in prog[t].slots, \A x \in prog[t].slots : x = s \/ own[x] = target[x],
           NEW v \in loaded, own[s] = 0, target[s] = v,
           First(t) = Ref(v), Rest(t) = <<>>
    PROVE  HostInv'
<1> DEFINE own2 == [own EXCEPT ![s] = v]
<1>1. own \in [Slot -> Nat] /\ loaded \subseteq Instance /\ v \in Nat /\ v # 0
  BY HostAssumption DEF OwnInv, HostTypeOK, Instance
<1>2. Doing(prog[t], own, target) /\ prog[t] = [slots |-> prog[t].slots, steps |-> prog[t].steps]
  BY DEF OwnInv, Doing
<1>3. /\ prog'[t] = Idle /\ target' = target
      /\ refcnt' = [i \in Instance |-> IF i = v THEN refcnt[i] + 1 ELSE refcnt[i]]
  <2>1. Ref(v).op = "ref" /\ Ref(v).inst = v
    BY StepFields
  <2>2. /\ prog'[t] = IF Rest(t) = <<>> THEN Idle
                     ELSE After(t)
        /\ First(t).op = "ref" => /\ target' = target
              /\ refcnt' = [i \in Instance |-> IF i = First(t).inst THEN refcnt[i] + 1 ELSE refcnt[i]]
    BY <1>2, StepIs, Zenon
  <2>3. First(t).op = "ref" /\ First(t).inst = v
    BY <2>1, Zenon
  <2>4. prog'[t] = Idle
    BY ONLY <2>2, Rest(t) = <<>>, Zenon
  <2> QED BY ONLY <2>2, <2>3, <2>4, Zenon
<1>4. own2 \in [Slot -> Nat] /\ own2[s] = v /\ \A x \in Slot : x # s => own2[x] = own[x]
  BY <1>1
<1>5. refcnt' \in [Instance -> Int]
  BY <1>3 DEF HostTypeOK
<1>6. \A i \in loaded : refcnt'[i] = 1 + Cardinality(HoldersOf(own2, i))
  <2> TAKE i \in loaded
  <2>1. refcnt[i] = 1 + Cardinality(HoldersOf(own, i)) /\ i \in Instance /\ i # 0 /\ refcnt[i] \in Int
    BY <1>1 DEF OwnInv, Instance, HostTypeOK
  <2>2. /\ Cardinality(HoldersOf(own, i)) \in Nat
        /\ i # v /\ i # own[s] => Cardinality(HoldersOf(own2, i)) = Cardinality(HoldersOf(own, i))
        /\ i = v /\ i # own[s] => Cardinality(HoldersOf(own2, i)) = Cardinality(HoldersOf(own, i)) + 1
        /\ i # v /\ i = own[s] => Cardinality(HoldersOf(own2, i)) = Cardinality(HoldersOf(own, i)) - 1
    <3>1. own \in [Slot -> Nat] /\ s \in Slot /\ v \in Nat
      BY <1>1
    <3> QED BY ONLY <3>1, OwnMoves
  <2>3. refcnt'[i] = IF i = v THEN refcnt[i] + 1 ELSE refcnt[i]
    BY <1>3, <2>1
  <2> HIDE DEF own2
  <2> QED BY <2>1, <2>2, <2>3
<1> HIDE DEF own2
<1>7. \A x \in Slot : own2[x] \in loaded \cup {0}
  BY <1>1, <1>4 DEF OwnInv
<1>8. target' \in [Slot -> 0 .. MaxLoads]
  BY <1>3 DEF HostTypeOK
<1>9. Doing(prog'[t], own2, target')
  <2>1. Doing(Idle, own2, target')
    BY Zenon DEF Doing, Idle
  <2> QED BY <1>3, <2>1
<1>10. prog[t].slots \subseteq Slot
  BY <1>2, DoingSlots
<1>11. \/ prog'[t] = Idle /\ \A x \in prog[t].slots : own2[x] = target'[x]
       \/ prog'[t].slots = prog[t].slots
  BY <1>3, <1>4, <1>10
<1>12. \A x \in Slot \ prog[t].slots : own2[x] = own[x] /\ target'[x] = target[x]
  BY <1>3, <1>4
<1>13. own2 \in [Slot -> Nat]
  BY <1>4
<1>14. HostTypeOK' /\ OwnInv(own2)'
  BY <1>5, <1>6, <1>7, <1>8, <1>9, <1>10, <1>11, <1>12, <1>13, StepOwn, ZenonT(40)
<1> QED BY <1>14 DEF HostInv

(* A call of the procedure ends. *)
LEMMA RunOwn ==
    ASSUME HostTypeOK, NEW own, OwnInv(own), NEW t \in Thread, HolderStep(t),
           NEW s \in Slot, prog[t].slots = {s}, own[s] = target[s],
           First(t).op = "run", Rest(t) = <<>>
    PROVE  HostInv'
<1>1. prog[t] = [slots |-> prog[t].slots, steps |-> prog[t].steps]
  BY DEF OwnInv, Doing
<1>2. prog'[t] = Idle /\ target' = target /\ refcnt' = refcnt
  BY <1>1, StepIs, Zenon
<1>3. Doing(prog'[t], own, target')
  <2>1. Doing(Idle, own, target')
    BY Zenon DEF Doing, Idle
  <2> QED BY <1>2, <2>1
<1>4. own \in [Slot -> Nat] /\ prog[t].slots \subseteq Slot
  BY DEF OwnInv
<1>5. refcnt' \in [Instance -> Int] /\ target' \in [Slot -> 0 .. MaxLoads]
  BY <1>2 DEF HostTypeOK
<1>6. /\ \A i \in loaded : refcnt'[i] = 1 + Cardinality(HoldersOf(own, i))
      /\ \A x \in Slot : own[x] \in loaded \cup {0}
  BY <1>2 DEF OwnInv
<1>7. \A x \in prog[t].slots : own[x] = target'[x]
  BY <1>2
<1>8. \A x \in Slot \ prog[t].slots : own[x] = own[x] /\ target'[x] = target[x]
  BY <1>2
<1>9. HostTypeOK' /\ OwnInv(own)'
  BY <1>2, <1>3, <1>4, <1>5, <1>6, <1>7, <1>8, StepOwn
<1> QED BY <1>9 DEF HostInv

LEMMA CopySteps ==
    ASSUME NEW a, NEW s, NEW b, NEW X, X = <<Set(s, b)>> \o RefIf(b)
    PROVE  /\ X # <<>> /\ Head(X) = Set(s, b) /\ Tail(X) = RefIf(b)
           /\ <<Unref(a)>> \o X # <<>> /\ Head(<<Unref(a)>> \o X) = Unref(a) /\ Tail(<<Unref(a)>> \o X) = X
<1>1. b = 0 => RefIf(b) = <<>>
  BY Zenon DEF RefIf
<1>2. b # 0 => RefIf(b) = <<Ref(b)>>
  BY Zenon DEF RefIf
<1>3. CASE b = 0
  <2>1. X = <<Set(s, b)>>
    BY <1>1, <1>3, Joins
  <2>2. <<Unref(a)>> \o X = <<Unref(a), Set(s, b)>>
    <3>1. <<Unref(a)>> \o <<Set(s, b)>> = <<Unref(a), Set(s, b)>>
      BY Joins
    <3> QED BY <2>1, <3>1, Zenon
  <2>3. /\ <<Set(s, b)>> # <<>> /\ Head(<<Set(s, b)>>) = Set(s, b) /\ Tail(<<Set(s, b)>>) = <<>>
        /\ <<Unref(a), Set(s, b)>> # <<>> /\ Head(<<Unref(a), Set(s, b)>>) = Unref(a)
        /\ Tail(<<Unref(a), Set(s, b)>>) = <<Set(s, b)>>
    BY Tuples
  <2> QED BY <1>1, <1>3, <2>1, <2>2, <2>3, Zenon
<1>4. CASE b # 0
  <2>1. X = <<Set(s, b), Ref(b)>>
    <3>1. <<Set(s, b)>> \o <<Ref(b)>> = <<Set(s, b), Ref(b)>>
      BY Joins
    <3> QED BY <1>2, <1>4, <3>1, Zenon
  <2>2. <<Unref(a)>> \o X = <<Unref(a), Set(s, b), Ref(b)>>
    <3>1. <<Unref(a)>> \o <<Set(s, b), Ref(b)>> = <<Unref(a), Set(s, b), Ref(b)>>
      BY Joins
    <3> QED BY <2>1, <3>1, Zenon
  <2>3. /\ <<Set(s, b), Ref(b)>> # <<>> /\ Head(<<Set(s, b), Ref(b)>>) = Set(s, b)
        /\ Tail(<<Set(s, b), Ref(b)>>) = <<Ref(b)>>
        /\ <<Unref(a), Set(s, b), Ref(b)>> # <<>> /\ Head(<<Unref(a), Set(s, b), Ref(b)>>) = Unref(a)
        /\ Tail(<<Unref(a), Set(s, b), Ref(b)>>) = <<Set(s, b), Ref(b)>>
    BY Tuples
  <2> QED BY <1>2, <1>4, <2>1, <2>2, <2>3, Zenon
<1> QED BY <1>3, <1>4

LEMMA CopyingOwn ==
    ASSUME HostTypeOK, NEW own, OwnInv(own), NEW t \in Thread, HolderStep(t), Copying(prog[t], own, target)
    PROVE  HostInv'
<1> DEFINE Steps(s, r) ==
              \/ /\ own[s] = target[s] /\ own[s] # 0
                 /\ prog[t].steps = <<Unref(target[s])>> \o (<<Set(s, target[r])>> \o RefIf(target[r]))
              \/ own[s] = 0 /\ prog[t].steps = <<Set(s, target[r])>> \o RefIf(target[r])
              \/ own[s] = 0 /\ target[s] = target[r] /\ target[r] # 0 /\ prog[t].steps = <<Ref(target[r])>>
<1>1. PICK s \in Slot : \E r \in Slot \ {s} : prog[t].slots = {s, r} /\ own[r] = target[r] /\ Steps(s, r)
  BY Zenon DEF Copying
<1>2. PICK r \in Slot \ {s} : prog[t].slots = {s, r} /\ own[r] = target[r] /\ Steps(s, r)
  BY <1>1, Zenon
<1>3. PICK a, b, X : a = target[s] /\ b = target[r] /\ X = <<Set(s, b)>> \o RefIf(b)
  OBVIOUS
<1>4. /\ X # <<>> /\ Head(X) = Set(s, b) /\ Tail(X) = RefIf(b)
      /\ Head(<<Unref(a)>> \o X) = Unref(a) /\ Tail(<<Unref(a)>> \o X) = X
  BY <1>3, CopySteps, SMTT(40)
<1>5. /\ own \in [Slot -> Nat] /\ target \in [Slot -> 0 .. MaxLoads] /\ b \in 0 .. MaxLoads
      /\ s \in prog[t].slots /\ r \in prog[t].slots /\ prog[t].slots \subseteq Slot
      /\ \A x \in Slot : own[x] \in loaded \cup {0}
  BY <1>2, <1>3 DEF OwnInv, HostTypeOK
<1>6. /\ After(t).slots = {s, r} /\ After(t).steps = Rest(t)
      /\ After(t) = [slots |-> After(t).slots, steps |-> After(t).steps]
  BY <1>2 DEF After
<1>7. CASE own[s] = a /\ own[s] # 0 /\ prog[t].steps = <<Unref(a)>> \o X
  <2> DEFINE own2 == [own EXCEPT ![s] = 0]
  <2>1. own2[s] = 0 /\ own2[r] = own[r]
    BY <1>5
  <2>2. First(t) = Unref(own[s]) /\ Rest(t) = X
    BY <1>4, <1>7, Zenon DEF First, Rest
  <2> HIDE DEF own2
  <2>3. Copying(After(t), own2, target)
    BY <1>2, <1>3, <1>6, <2>1, <2>2, ZenonT(40) DEF Copying
  <2>4. Doing(After(t), own2, target)
    BY <1>6, <2>3, Zenon DEF Doing
  <2>5. own[s] # 0 /\ Rest(t) # <<>>
    BY <1>4, <1>7, <2>2, Zenon
  <2>6. HostTypeOK' /\ OwnInv(own2)'
    BY <1>5, <2>2, <2>4, <2>5, UnrefOwn, Zenon DEF own2
  <2> QED BY <2>6 DEF HostInv
<1>8. CASE own[s] = 0 /\ prog[t].steps = X
  <2>1. PICK tg : tg = [target EXCEPT ![s] = b]
    OBVIOUS
  <2>2. /\ tg[s] = b /\ tg[r] = b /\ tg \in [Slot -> 0 .. MaxLoads]
        /\ \A x \in Slot : x # s => tg[x] = target[x]
    BY <1>3, <1>5, <2>1
  <2>3. First(t) = Set(s, b) /\ Rest(t) = RefIf(b)
    BY <1>4, <1>8, Zenon DEF First, Rest
  <2>4. b = 0 => Rest(t) = <<>> /\ \A x \in prog[t].slots : own[x] = tg[x]
    <3>1. b = 0 => RefIf(b) = <<>>
      BY Zenon DEF RefIf
    <3>2. b = 0 => own[s] = tg[s] /\ own[r] = tg[r]
      BY <1>2, <1>3, <1>8, <2>2, Zenon
    <3> QED BY <1>2, <2>3, <3>1, <3>2
  <2>5. b # 0 => Rest(t) # <<>> /\ Doing(After(t), own, tg)
    <3> SUFFICES ASSUME b # 0 PROVE Rest(t) # <<>> /\ Doing(After(t), own, tg)
      OBVIOUS
    <3>1. Rest(t) = <<Ref(b)>>
      BY <2>3, Zenon DEF RefIf
    <3>2. <<Ref(b)>> # <<>>
      OBVIOUS
    <3>3. Copying(After(t), own, tg)
      <4>1. /\ own[s] = 0 /\ own[r] = tg[r] /\ tg[s] = tg[r] /\ tg[r] # 0
            /\ After(t).slots = {s, r} /\ After(t).steps = <<Ref(tg[r])>>
        BY <1>2, <1>3, <1>6, <1>8, <2>2, <3>1, Zenon
      <4> QED BY <4>1, Zenon DEF Copying
    <3>4. Doing(After(t), own, tg)
      BY <1>6, <3>3, Zenon DEF Doing
    <3> QED BY <3>1, <3>2, <3>4, Zenon
  <2>6. /\ Rest(t) = <<>> => \A x \in prog[t].slots : own[x] = tg[x]
        /\ Rest(t) # <<>> => Doing(After(t), own, tg)
    BY <2>4, <2>5, Zenon
  <2>7. HostTypeOK /\ OwnInv(own) /\ t \in Thread /\ HolderStep(t) /\ s \in Slot
    OBVIOUS
  <2> QED BY ONLY <1>5, <2>2, <2>3, <2>6, <2>7, SetSame, SMTT(40)
<1>9. CASE own[s] = 0 /\ a = b /\ b # 0 /\ prog[t].steps = <<Ref(b)>>
  <2>1. Head(<<Ref(b)>>) = Ref(b) /\ Tail(<<Ref(b)>>) = <<>>
    BY Tuples
  <2>2. First(t) = Ref(b) /\ Rest(t) = <<>>
    BY <1>9, <2>1, Zenon DEF First, Rest
  <2>3. b \in loaded /\ target[s] = b /\ \A x \in prog[t].slots : x = s \/ own[x] = target[x]
    BY <1>2, <1>3, <1>5, <1>9
  <2>4. own[s] = 0
    BY <1>9
  <2> QED BY <1>5, <2>2, <2>3, <2>4, RefOwn, Zenon
<1> QED BY <1>2, <1>3, <1>7, <1>8, <1>9, Zenon

LEMMA MovingOwn ==
    ASSUME HostTypeOK, NEW own, OwnInv(own), NEW t \in Thread, HolderStep(t), Moving(prog[t], own, target)
    PROVE  HostInv'
<1> DEFINE Steps(s, r) ==
              \/ /\ own[s] = target[s] /\ own[s] # 0 /\ own[r] = target[r]
                 /\ prog[t].steps = <<Unref(target[s]), Set(s, target[r]), Set(r, 0)>>
              \/ own[s] = 0 /\ own[r] = target[r] /\ prog[t].steps = <<Set(s, target[r]), Set(r, 0)>>
              \/ own[r] = 0 /\ own[s] = target[s] /\ prog[t].steps = <<Set(r, 0)>>
<1>1. PICK s \in Slot : \E r \in Slot \ {s} : prog[t].slots = {s, r} /\ Steps(s, r)
  BY Zenon DEF Moving
<1>2. PICK r \in Slot \ {s} : prog[t].slots = {s, r} /\ Steps(s, r)
  BY <1>1, Zenon
<1>3. PICK a, b : a = target[s] /\ b = target[r]
  OBVIOUS
<1>4. /\ own \in [Slot -> Nat] /\ target \in [Slot -> 0 .. MaxLoads] /\ b \in 0 .. MaxLoads
      /\ s \in prog[t].slots /\ r \in prog[t].slots /\ prog[t].slots \subseteq Slot
      /\ r \in Slot /\ r # s /\ 0 \in 0 .. MaxLoads /\ loaded \subseteq 1 .. MaxLoads
      /\ \A x \in Slot : own[x] \in loaded \cup {0}
  BY <1>2, <1>3, HostAssumption DEF OwnInv, HostTypeOK
<1>5. /\ After(t).slots = {s, r} /\ After(t).steps = Rest(t)
      /\ After(t) = [slots |-> After(t).slots, steps |-> After(t).steps]
  BY <1>2 DEF After
<1>6. /\ Head(<<Unref(a), Set(s, b), Set(r, 0)>>) = Unref(a)
      /\ Tail(<<Unref(a), Set(s, b), Set(r, 0)>>) = <<Set(s, b), Set(r, 0)>>
      /\ <<Set(s, b), Set(r, 0)>> # <<>> /\ Head(<<Set(s, b), Set(r, 0)>>) = Set(s, b)
      /\ Tail(<<Set(s, b), Set(r, 0)>>) = <<Set(r, 0)>>
      /\ <<Set(r, 0)>> # <<>> /\ Head(<<Set(r, 0)>>) = Set(r, 0) /\ Tail(<<Set(r, 0)>>) = <<>>
  BY Tuples
<1>7. CASE /\ own[s] = a /\ own[s] # 0 /\ own[r] = b
           /\ prog[t].steps = <<Unref(a), Set(s, b), Set(r, 0)>>
  <2> DEFINE own2 == [own EXCEPT ![s] = 0]
  <2>1. own2[s] = 0 /\ own2[r] = own[r]
    BY <1>4
  <2>2. First(t) = Unref(own[s]) /\ Rest(t) = <<Set(s, b), Set(r, 0)>>
    BY <1>6, <1>7, Zenon DEF First, Rest
  <2> HIDE DEF own2
  <2>3. Moving(After(t), own2, target)
    BY <1>2, <1>3, <1>5, <1>7, <2>1, <2>2, Zenon DEF Moving
  <2>4. Doing(After(t), own2, target)
    BY <1>5, <2>3, Zenon DEF Doing
  <2>5. own[s] # 0 /\ Rest(t) # <<>>
    BY <1>6, <1>7, <2>2, Zenon
  <2>6. HostTypeOK' /\ OwnInv(own2)'
    BY <1>4, <2>2, <2>4, <2>5, UnrefOwn, Zenon DEF own2
  <2> QED BY <2>6 DEF HostInv
<1>8. CASE own[s] = 0 /\ own[r] = b /\ prog[t].steps = <<Set(s, b), Set(r, 0)>>
  <2>1. PICK tg, own1, own2 : /\ tg = [target EXCEPT ![s] = b]
                              /\ own1 = [own EXCEPT ![s] = b]
                              /\ own2 = [own1 EXCEPT ![r] = 0]
    OBVIOUS
  <2>2. /\ tg[s] = b /\ tg \in [Slot -> 0 .. MaxLoads]
        /\ \A x \in Slot : x # s => tg[x] = target[x]
    BY <1>3, <1>4, <2>1
  <2>3. b \in Nat /\ own1 \in [Slot -> Nat] /\ own1[s] = b /\ own1[r] = b
    BY <1>4, <1>8, <2>1
  <2>4. /\ own2 \in [Slot -> Nat] /\ own2[s] = b /\ own2[r] = 0
        /\ \A x \in Slot \ {s, r} : own2[x] = own[x]
    BY <1>4, <2>1, <2>3
  <2>5. \A i \in loaded : Cardinality(HoldersOf(own2, i)) = Cardinality(HoldersOf(own, i))
    <3> TAKE i \in loaded
    <3>1. i # 0
      BY <1>4
    <3>2. own \in [Slot -> Nat] /\ s \in Slot /\ r \in Slot /\ s # r /\ own[s] = 0
      BY <1>4, <1>8
    <3>3. /\ own2 \in [Slot -> Nat] /\ own2[s] = own[r] /\ own2[r] = 0
          /\ \A x \in Slot \ {s, r} : own2[x] = own[x]
      BY <1>8, <2>4
    <3> QED BY ONLY <3>1, <3>2, <3>3, OwnPasses
  <2>6. First(t) = Set(s, b) /\ Rest(t) = <<Set(r, 0)>> /\ Rest(t) # <<>>
    BY <1>6, <1>8, Zenon DEF First, Rest
  <2>7. Doing(After(t), own2, tg)
    <3>1. Moving(After(t), own2, tg)
      BY <1>5, <2>2, <2>4, <2>6, Zenon DEF Moving
    <3> QED BY <1>5, <3>1, Zenon DEF Doing
  <2>8. \A x \in Slot : own2[x] \in loaded \cup {0}
    <3>1. b \in loaded \cup {0}
      BY <1>4, <1>8
    <3> QED BY <1>4, <2>4, <3>1
  <2>10. /\ HostTypeOK /\ OwnInv(own) /\ t \in Thread /\ HolderStep(t) /\ s \in Slot /\ s \in prog[t].slots
         /\ b \in 0 .. MaxLoads
    BY <1>4
  <2>11. \A x \in Slot \ prog[t].slots : own2[x] = own[x]
    BY <1>2, <2>4
  <2>12. own2 \in [Slot -> Nat]
    BY <2>4
  <2>13. /\ First(t) = Set(s, b)
         /\ Rest(t) = <<>> => \A x \in prog[t].slots : own2[x] = tg[x]
         /\ Rest(t) # <<>> => Doing(After(t), own2, tg)
    BY <2>6, <2>7, Zenon
  <2> QED BY ONLY <2>2, <2>5, <2>8, <2>10, <2>11, <2>12, <2>13, SetOwn, SMTT(60)
<1>9. CASE own[r] = 0 /\ own[s] = a /\ prog[t].steps = <<Set(r, 0)>>
  <2>1. PICK tg : tg = [target EXCEPT ![r] = 0]
    OBVIOUS
  <2>2. /\ tg[r] = 0 /\ tg[s] = a /\ tg \in [Slot -> 0 .. MaxLoads]
        /\ \A x \in Slot : x # r => tg[x] = target[x]
    BY <1>3, <1>4, <2>1
  <2>3. First(t) = Set(r, 0) /\ Rest(t) = <<>>
    BY <1>6, <1>9, Zenon DEF First, Rest
  <2>4. \A x \in prog[t].slots : own[x] = tg[x]
    BY <1>2, <1>9, <2>2
  <2>5. /\ HostTypeOK /\ OwnInv(own) /\ t \in Thread /\ HolderStep(t) /\ r \in Slot /\ r \in prog[t].slots
        /\ 0 \in 0 .. MaxLoads
    BY <1>4
  <2> QED BY ONLY <2>2, <2>3, <2>4, <2>5, SetSame
<1> QED BY <1>2, <1>3, <1>7, <1>8, <1>9, Zenon

LEMMA ResettingOwn ==
    ASSUME HostTypeOK, NEW own, OwnInv(own), NEW t \in Thread, HolderStep(t), Resetting(prog[t], own, target)
    PROVE  HostInv'
<1>1. PICK s \in Slot :
        /\ prog[t].slots = {s}
        /\ \/ own[s] = target[s] /\ own[s] # 0 /\ prog[t].steps = <<Unref(target[s]), Set(s, 0)>>
           \/ own[s] = 0 /\ prog[t].steps = <<Set(s, 0)>>
  BY Zenon DEF Resetting
<1>2. PICK a : a = target[s]
  OBVIOUS
<1>3. /\ own \in [Slot -> Nat] /\ target \in [Slot -> 0 .. MaxLoads] /\ s \in prog[t].slots
      /\ 0 \in 0 .. MaxLoads
  BY <1>1, HostAssumption DEF OwnInv, HostTypeOK
<1>4. /\ After(t).slots = {s} /\ After(t).steps = Rest(t)
      /\ After(t) = [slots |-> After(t).slots, steps |-> After(t).steps]
  BY <1>1 DEF After
<1>5. /\ Head(<<Unref(a), Set(s, 0)>>) = Unref(a) /\ Tail(<<Unref(a), Set(s, 0)>>) = <<Set(s, 0)>>
      /\ <<Set(s, 0)>> # <<>> /\ Head(<<Set(s, 0)>>) = Set(s, 0) /\ Tail(<<Set(s, 0)>>) = <<>>
  BY Tuples
<1>6. CASE own[s] = a /\ own[s] # 0 /\ prog[t].steps = <<Unref(a), Set(s, 0)>>
  <2> DEFINE own2 == [own EXCEPT ![s] = 0]
  <2>1. own2[s] = 0
    BY <1>3
  <2>2. First(t) = Unref(own[s]) /\ Rest(t) = <<Set(s, 0)>>
    BY <1>5, <1>6, Zenon DEF First, Rest
  <2> HIDE DEF own2
  <2>3. Resetting(After(t), own2, target)
    BY <1>4, <2>1, <2>2, Zenon DEF Resetting
  <2>4. Doing(After(t), own2, target)
    BY <1>4, <2>3, Zenon DEF Doing
  <2>5. own[s] # 0 /\ Rest(t) # <<>>
    BY <1>5, <1>6, <2>2, Zenon
  <2>6. HostTypeOK' /\ OwnInv(own2)'
    BY <1>3, <2>2, <2>4, <2>5, UnrefOwn, Zenon DEF own2
  <2> QED BY <2>6 DEF HostInv
<1>7. CASE own[s] = 0 /\ prog[t].steps = <<Set(s, 0)>>
  <2>1. PICK tg : tg = [target EXCEPT ![s] = 0]
    OBVIOUS
  <2>2. tg[s] = 0 /\ tg \in [Slot -> 0 .. MaxLoads] /\ \A x \in Slot : x # s => tg[x] = target[x]
    BY <1>3, <2>1
  <2>3. First(t) = Set(s, 0) /\ Rest(t) = <<>>
    BY <1>5, <1>7, Zenon DEF First, Rest
  <2>4. \A x \in prog[t].slots : own[x] = tg[x]
    BY <1>1, <1>7, <2>2
  <2>5. HostTypeOK /\ OwnInv(own) /\ t \in Thread /\ HolderStep(t) /\ s \in Slot
    OBVIOUS
  <2> QED BY ONLY <1>3, <2>2, <2>3, <2>4, <2>5, SetSame
<1> QED BY <1>1, <1>2, <1>6, <1>7, Zenon

LEMMA CallingOwn ==
    ASSUME HostTypeOK, NEW own, OwnInv(own), NEW t \in Thread, HolderStep(t), Calling(prog[t], own, target)
    PROVE  HostInv'
<1>1. PICK s \in Slot :
        /\ prog[t].slots = {s} /\ own[s] = target[s] /\ own[s] # 0
        /\ \E req \in Request :
              prog[t].steps = <<[op |-> "run", slot |-> {s}, inst |-> target[s], request |-> req]>>
  BY Zenon DEF Calling
<1>2. PICK step : prog[t].steps = <<step>> /\ step.op = "run"
  <2>1. PICK req \in Request :
              prog[t].steps = <<[op |-> "run", slot |-> {s}, inst |-> target[s], request |-> req]>>
    BY <1>1, Zenon
  <2>2. [op |-> "run", slot |-> {s}, inst |-> target[s], request |-> req].op = "run"
    OBVIOUS
  <2> QED BY <2>1, <2>2, Zenon
<1>3. Head(<<step>>) = step /\ Tail(<<step>>) = <<>>
  BY Tuples
<1>4. First(t).op = "run" /\ Rest(t) = <<>>
  BY <1>2, <1>3, Zenon DEF First, Rest
<1> QED BY <1>1, <1>4, RunOwn, Zenon

LEMMA HolderStepInv ==
    ASSUME HostInv, NEW t \in Thread, HolderStep(t)
    PROVE  HostInv'
<1>1. PICK own : OwnInv(own)
  BY DEF HostInv
<1>2. HostTypeOK /\ Doing(prog[t], own, target)
  BY <1>1 DEF HostInv, OwnInv
<1>3. prog[t] # Idle
  <2>1. prog[t].steps # <<>>
    BY Zenon DEF HolderStep
  <2>2. Idle.steps = <<>>
    BY DEF Idle
  <2> QED BY <2>1, <2>2, Zenon
<1>4. \/ Copying(prog[t], own, target) \/ Moving(prog[t], own, target)
      \/ Resetting(prog[t], own, target) \/ Calling(prog[t], own, target)
  BY <1>2, <1>3, Zenon DEF Doing
<1> QED BY <1>1, <1>2, <1>4, CopyingOwn, MovingOwn, ResettingOwn, CallingOwn, Zenon

LEMMA HostNextInv == HostInv /\ [HostNext]_hostVars => HostInv'
<1> SUFFICES ASSUME HostInv, [HostNext]_hostVars PROVE HostInv'
  OBVIOUS
<1>1. PICK own : OwnInv(own)
  BY DEF HostInv
<1>2. HostTypeOK
  BY DEF HostInv
<1>3. ASSUME HostTypeOK' /\ OwnInv(own)' PROVE HostInv'
  BY <1>3 DEF HostInv
<1>4. CASE \E n \in Name : Load(n)
  BY <1>1, <1>2, <1>3, <1>4, LoadOwn
<1>5. CASE \E n \in Name : Unload(n)
  BY <1>1, <1>2, <1>3, <1>5, UnloadOwn
<1>6. CASE \E n \in Name : Reload(n)
  BY <1>1, <1>2, <1>3, <1>6, ReloadOwn
<1>7. CASE \E t \in Thread, s \in Slot, n \in Name : Get(t, s, n)
  BY <1>1, <1>2, <1>7, GetOwn
<1>8. CASE \E t \in Thread, s \in Slot :
              \/ \E r \in Slot \ {s} : CopyConstruct(t, s, r)
              \/ \E r \in Slot \ {s} : MoveConstruct(t, s, r)
              \/ \E r \in Slot \ {s} : CopyAssign(t, s, r)
              \/ \E r \in Slot \ {s} : MoveAssign(t, s, r)
              \/ Reset(t, s)
              \/ CallProcedure(t, s)
  BY <1>1, <1>2, <1>3, <1>8, BeginsOwn, Zenon
<1>9. CASE \E t \in Thread : HolderStep(t)
  BY <1>9, HolderStepInv
<1>10. CASE UNCHANGED hostVars
  <2>1. HostTypeOK'
    BY <1>2, <1>10 DEF hostVars, HostTypeOK
  <2>2. OwnInv(own)'
    BY <1>1, <1>10 DEF hostVars, OwnInv, HoldersOf
  <2> QED BY <2>1, <2>2, <1>3
<1>11. HostNext \/ UNCHANGED hostVars
  OBVIOUS
<1> QED BY <1>4, <1>5, <1>6, <1>7, <1>8, <1>9, <1>10, <1>11, Zenon DEF HostNext

LEMMA HostAlways == HostSpec => []HostInv
<1>1. HostInit => HostInv
  BY HostInitInv
<1>2. HostInv /\ [HostNext]_hostVars => HostInv'
  BY HostNextInv
<1> QED BY <1>1, <1>2, PTL DEF HostSpec

(* What the next step of a thread goes to is owned by a holder. *)
LEMMA NextOwned ==
    ASSUME NEW p, NEW own, NEW tg, Doing(p, own, tg), p.steps # <<>>, Head(p.steps).op # "set"
    PROVE  \E s \in Slot : own[s] # 0 /\ Head(p.steps).inst = own[s]
<1>1. CASE p = Idle
  <2>1. Idle.steps = <<>>
    BY DEF Idle
  <2> QED BY <1>1, <2>1, Zenon
<1>2. CASE Copying(p, own, tg)
  <2>1. PICK s \in Slot, r \in Slot :
        /\ own[r] = tg[r]
        /\ \/ /\ own[s] = tg[s] /\ own[s] # 0
              /\ p.steps = <<Unref(tg[s])>> \o (<<Set(s, tg[r])>> \o RefIf(tg[r]))
           \/ p.steps = <<Set(s, tg[r])>> \o RefIf(tg[r])
           \/ tg[r] # 0 /\ p.steps = <<Ref(tg[r])>>
    BY <1>2, Zenon DEF Copying
  <2>2. PICK a, b, X : a = tg[s] /\ b = tg[r] /\ X = <<Set(s, b)>> \o RefIf(b)
    OBVIOUS
  <2>3. Head(X) = Set(s, b) /\ Head(<<Unref(a)>> \o X) = Unref(a)
    BY <2>2, CopySteps
  <2>4. Head(<<Ref(b)>>) = Ref(b)
    BY Tuples
  <2>5. Set(s, b).op = "set" /\ Unref(a).inst = a /\ Ref(b).inst = b
    BY StepFields
  <2>6. CASE own[s] = a /\ own[s] # 0 /\ p.steps = <<Unref(a)>> \o X
    BY <2>3, <2>5, <2>6, Zenon
  <2>7. CASE p.steps = X
    BY <2>3, <2>5, <2>7, Zenon
  <2>8. CASE b # 0 /\ p.steps = <<Ref(b)>>
    BY <2>1, <2>2, <2>4, <2>5, <2>8, Zenon
  <2> QED BY <2>1, <2>2, <2>6, <2>7, <2>8, Zenon
<1>3. CASE Moving(p, own, tg)
  <2>1. PICK s \in Slot, r \in Slot :
        \/ /\ own[s] = tg[s] /\ own[s] # 0
           /\ p.steps = <<Unref(tg[s]), Set(s, tg[r]), Set(r, 0)>>
        \/ p.steps = <<Set(s, tg[r]), Set(r, 0)>>
        \/ p.steps = <<Set(r, 0)>>
    BY <1>3, Zenon DEF Moving
  <2>2. PICK a, b : a = tg[s] /\ b = tg[r]
    OBVIOUS
  <2>3. /\ Head(<<Unref(a), Set(s, b), Set(r, 0)>>) = Unref(a)
        /\ Head(<<Set(s, b), Set(r, 0)>>) = Set(s, b) /\ Head(<<Set(r, 0)>>) = Set(r, 0)
    BY Tuples
  <2>4. Set(s, b).op = "set" /\ Set(r, 0).op = "set" /\ Unref(a).inst = a
    BY StepFields
  <2> QED BY <2>1, <2>2, <2>3, <2>4, Zenon
<1>4. CASE Resetting(p, own, tg)
  <2>1. PICK s \in Slot :
        \/ own[s] = tg[s] /\ own[s] # 0 /\ p.steps = <<Unref(tg[s]), Set(s, 0)>>
        \/ p.steps = <<Set(s, 0)>>
    BY <1>4, Zenon DEF Resetting
  <2>2. PICK a : a = tg[s]
    OBVIOUS
  <2>3. Head(<<Unref(a), Set(s, 0)>>) = Unref(a) /\ Head(<<Set(s, 0)>>) = Set(s, 0)
    BY Tuples
  <2>4. Set(s, 0).op = "set" /\ Unref(a).inst = a
    BY StepFields
  <2> QED BY <2>1, <2>2, <2>3, <2>4, Zenon
<1>5. CASE Calling(p, own, tg)
  <2>1. PICK s \in Slot, req \in Request :
        /\ own[s] = tg[s] /\ own[s] # 0
        /\ p.steps = <<[op |-> "run", slot |-> {s}, inst |-> tg[s], request |-> req]>>
    BY <1>5, Zenon DEF Calling
  <2>2. PICK step : step = [op |-> "run", slot |-> {s}, inst |-> tg[s], request |-> req]
    OBVIOUS
  <2>3. step.inst = tg[s]
    BY <2>2
  <2>4. Head(<<step>>) = step
    BY Tuples
  <2> QED BY <2>1, <2>2, <2>3, <2>4, Zenon
<1> QED BY <1>1, <1>2, <1>3, <1>4, <1>5, Zenon DEF Doing

(* Holders, their functions step by step and the manager's load, unload    *)
(* and reload in any interleaving: what the next step of a thread goes to, *)
(* and what a holder at rest points to, is loaded.                         *)
THEOREM HeldModules == HostSpec => []HeldStaysLoaded
<1>1. HostInv => HeldStaysLoaded
  <2> SUFFICES ASSUME HostInv PROVE HeldStaysLoaded
    OBVIOUS
  <2>1. PICK own : OwnInv(own)
    BY DEF HostInv
  <2>2. ASSUME NEW t \in Thread, prog[t].steps # <<>>, Head(prog[t].steps).op # "set"
        PROVE  Head(prog[t].steps).inst \in loaded
    <3>1. Doing(prog[t], own, target) /\ \A s \in Slot : own[s] \in loaded \cup {0}
      BY <2>1 DEF OwnInv
    <3>2. PICK s \in Slot : own[s] # 0 /\ Head(prog[t].steps).inst = own[s]
      BY <2>2, <3>1, NextOwned, Zenon
    <3>3. own[s] \in loaded
      BY <3>1, <3>2
    <3> QED BY <3>2, <3>3, Zenon
  <2>3. \A s \in Slot : (\A t \in Thread : s \notin prog[t].slots) => target[s] \in loaded \cup {0}
    BY <2>1 DEF OwnInv
  <2> QED BY <2>2, <2>3, Zenon DEF HeldStaysLoaded
<1> QED BY <1>1, HostAlways, PTL

(* Between the functions the count of every loaded module is the number of *)
(* its holders and one for the manager.                                    *)
THEOREM HolderCounts == HostSpec => []CountsHolders
<1>1. HostInv => CountsHolders
  <2> SUFFICES ASSUME HostInv, \A t \in Thread : prog[t] = Idle, NEW i \in loaded
               PROVE  refcnt[i] = 1 + Cardinality({s \in Slot : target[s] = i})
    BY DEF CountsHolders
  <2>1. PICK own : OwnInv(own)
    BY DEF HostInv
  <2>2. \A s \in Slot : own[s] = target[s]
    <3>1. Idle.slots = {}
      BY DEF Idle
    <3> QED BY <2>1, <3>1 DEF OwnInv
  <2>3. HoldersOf(own, i) = {s \in Slot : target[s] = i}
    BY <2>2 DEF HoldersOf
  <2>4. refcnt[i] = 1 + Cardinality(HoldersOf(own, i))
    BY <2>1 DEF OwnInv
  <2> QED BY <2>3, <2>4, Zenon
<1> QED BY <1>1, HostAlways, PTL
-----------------------------------------------------------------------------
(* Timers.  The n-th task goes to worker (n - 1) % nrThreads_, so that a   *)
(* worker never numbers more timers than it has ids, and an id stays       *)
(* unique.                                                                 *)

Timer == [id : Nat, interval : {0, 1}, task : Nat]
Task == [delayed : BOOLEAN, id : Int, runs : Nat]
Adding == [task : Nat \ {0}, worker : Worker, interval : {0, 1}]

Pending(w) == {pendingTimers[w][i] : i \in DOMAIN pendingTimers[w]}
TimersOf(w) == activeTimers[w] \cup Pending(w)
Queued(k) == \A c \in Client : adding[c].task # k
WorkerOf(k) == (k - 1) % NrThreads
QueuedOn(w) == {k \in 1 .. Len(tasks) : WorkerOf(k) = w /\ Queued(k)}

IdOf(k) == tasks[k].id
Delayed(k) == tasks[k].delayed
RunsOf(k) == tasks[k].runs
IdWorker(k) == IdOf(k) \div TimerIds
IdNumber(k) == IdOf(k) % TimerIds

TimersTypeOK ==
    /\ tasks \in Seq(Task) /\ Len(tasks) <= MaxTasks /\ nextThread = Len(tasks)
    /\ nextTimerId \in [Worker -> Nat]
    /\ pendingTimers \in [Worker -> Seq(Timer)]
    /\ purgingTimers \in [Worker -> SUBSET Nat]
    /\ activeTimers \in [Worker -> SUBSET Timer]
    /\ adding \in [Client -> {NotAdding} \cup Adding]

(* The calls that clients are in. *)
AddingInv ==
    \A c \in Client : adding[c] # NotAdding =>
        /\ adding[c].task \in 1 .. Len(tasks) /\ adding[c].worker = WorkerOf(adding[c].task)
        /\ IdOf(adding[c].task) = NoId /\ RunsOf(adding[c].task) = 0
        /\ Delayed(adding[c].task) => adding[c].interval = 0
        /\ \A d \in Client : d # c => adding[d].task # adding[c].task

NumbersInv == \A w \in Worker : nextTimerId[w] = Cardinality(QueuedOn(w))

(* The timers that a worker has. *)
TimerInv ==
    \A w \in Worker : \A tm \in TimersOf(w) :
        /\ tm.task \in 1 .. Len(tasks) /\ Queued(tm.task) /\ tm.id < nextTimerId[w]
        /\ Delayed(tm.task) => tm.interval = 0 /\ RunsOf(tm.task) = 0
        /\ \A v \in Worker : \A tn \in TimersOf(v) : tm.task = tn.task => v = w /\ tn = tm
        /\ \A tn \in TimersOf(w) : tm.id = tn.id => tm.task = tn.task

(* A timer is queued or active. *)
ListsInv == \A w \in Worker : activeTimers[w] \cap Pending(w) = {}

(* The ids that clients have. *)
IdInv ==
    \A k \in 1 .. Len(tasks) : IdOf(k) # NoId =>
        /\ ~Delayed(k) /\ Queued(k)
        /\ IdWorker(k) \in Worker /\ IdNumber(k) < nextTimerId[IdWorker(k)]
        /\ \A tm \in TimersOf(IdWorker(k)) : tm.id = IdNumber(k) => tm.task = k

PurgeInv ==
    /\ dropped \subseteq purged
    /\ \A k \in purged : k \in 1 .. Len(tasks) /\ IdOf(k) # NoId
    /\ \A w \in Worker : \A n \in purgingTimers[w] : \E k \in purged : IdWorker(k) = w /\ IdNumber(k) = n

DelayInv ==
    \A k \in 1 .. Len(tasks) : Delayed(k) =>
        /\ RunsOf(k) <= 1
        /\ RunsOf(k) = 0 => ~Queued(k) \/ \E w \in Worker : \E tm \in TimersOf(w) : tm.task = k

TimersInv ==
    /\ TimersTypeOK /\ AddingInv /\ NumbersInv /\ TimerInv /\ ListsInv /\ IdInv /\ PurgeInv /\ DelayInv
-----------------------------------------------------------------------------
LEMMA Workers ==
    /\ NrThreads \in Nat \ {0} /\ TimerIds \in Nat \ {0} /\ MaxTasks \in Nat
    /\ MaxTasks <= NrThreads * TimerIds
    /\ \A w \in Worker : w \in Nat
    /\ \A k \in Nat \ {0} : WorkerOf(k) \in Worker
<1>1. /\ NrThreads \in Nat \ {0} /\ TimerIds \in Nat \ {0} /\ MaxTasks \in Nat
      /\ MaxTasks <= NrThreads * TimerIds
  BY TimersAssumption DEF TimerIds
<1>2. \A n \in Nat : n % NrThreads \in 0 .. NrThreads - 1
  BY <1>1
<1>3. \A k \in Nat \ {0} : k - 1 \in Nat
  OBVIOUS
<1> QED BY <1>1, <1>2, <1>3 DEF Worker, WorkerOf

(* A worker has enough ids. *)
LEMMA Capacity ==
    ASSUME NEW w \in Worker, NEW S, S \subseteq {k \in 1 .. MaxTasks : WorkerOf(k) = w}
    PROVE  IsFiniteSet(S) /\ Cardinality(S) \in Nat /\ Cardinality(S) <= TimerIds
<1> DEFINE f == [k \in S |-> (k - 1) \div NrThreads]
           T == 0 .. TimerIds - 1
<1>1. IsFiniteSet(T) /\ Cardinality(T) = TimerIds
  <2>1. 0 \in Int /\ TimerIds - 1 \in Int /\ ~(0 > TimerIds - 1) /\ (TimerIds - 1) - 0 + 1 = TimerIds
    BY Workers
  <2>2. IsFiniteSet(T) /\ Cardinality(T) = IF 0 > TimerIds - 1 THEN 0 ELSE (TimerIds - 1) - 0 + 1
    BY <2>1, FS_Interval, Zenon
  <2> QED BY <2>1, <2>2, Zenon
<1>2. IsFiniteSet(S)
  <2>1. 1 \in Int /\ MaxTasks \in Int
    BY Workers
  <2>2. IsFiniteSet(1 .. MaxTasks)
    BY <2>1, FS_Interval, Zenon
  <2>3. S \in SUBSET (1 .. MaxTasks)
    OBVIOUS
  <2> QED BY <2>2, <2>3, FS_Subset, Zenon
<1>3. ASSUME NEW k \in S PROVE (k - 1) \div NrThreads \in T
  <2>1. k \in 1 .. MaxTasks
    OBVIOUS
  <2>2. k - 1 \in Nat /\ k - 1 < NrThreads * TimerIds
    BY <2>1, Workers
  <2>3. (k - 1) \div NrThreads < TimerIds /\ (k - 1) \div NrThreads \in Nat
    BY <2>2, Workers
  <2> QED BY <2>3, Workers
<1>4. ASSUME NEW j \in S, NEW k \in S, (j - 1) \div NrThreads = (k - 1) \div NrThreads PROVE j = k
  <2>1. j \in 1 .. MaxTasks /\ k \in 1 .. MaxTasks /\ (j - 1) % NrThreads = (k - 1) % NrThreads
    BY DEF WorkerOf
  <2>2. \A x, y \in Nat : \A n \in Nat \ {0} : x \div n = y \div n /\ x % n = y % n => x = y
    OBVIOUS
  <2>3. j - 1 \in Nat /\ k - 1 \in Nat
    BY <2>1
  <2>4. j - 1 = k - 1
    BY <1>4, <2>1, <2>2, <2>3, Workers
  <2> QED BY <2>1, <2>4
<1>5. f \in Injection(S, T)
  BY <1>3, <1>4 DEF Injection, IsInjective
<1>6. Cardinality(S) <= Cardinality(T)
  BY <1>1, <1>2, <1>5, FS_Injection
<1> QED BY <1>1, <1>2, <1>6, FS_CardinalityType

LEMMA PoolIds ==
    ASSUME NEW w \in Worker, NEW n \in Nat, n < TimerIds
    PROVE  PoolId(w, n) \in Nat /\ PoolId(w, n) \div TimerIds = w /\ PoolId(w, n) % TimerIds = n
<1>1. \A x \in Nat : \A t \in Nat \ {0} : \A m \in 0 .. t - 1 :
          x * t + m \in Nat /\ (x * t + m) \div t = x /\ (x * t + m) % t = m
  OBVIOUS
<1>2. w \in Nat /\ TimerIds \in Nat \ {0} /\ n \in 0 .. TimerIds - 1
  BY Workers
<1> QED BY <1>1, <1>2 DEF PoolId

LEMMA PendingAppend ==
    ASSUME NEW s \in Seq(Timer), NEW x \in Timer
    PROVE  /\ Append(s, x) \in Seq(Timer)
           /\ {Append(s, x)[i] : i \in DOMAIN Append(s, x)} = {s[i] : i \in DOMAIN s} \cup {x}
<1>1. /\ Append(s, x) \in Seq(Timer) /\ Len(Append(s, x)) = Len(s) + 1 /\ Len(s) \in Nat
      /\ \A i \in 1 .. Len(s) : Append(s, x)[i] = s[i]
      /\ Append(s, x)[Len(s) + 1] = x
  OBVIOUS
<1>2. DOMAIN s = 1 .. Len(s) /\ DOMAIN Append(s, x) = 1 .. Len(s) + 1
  BY <1>1
<1>3. PICK a : a = Append(s, x)
  OBVIOUS
<1>4. {a[i] : i \in 1 .. Len(s) + 1} = {s[i] : i \in 1 .. Len(s)} \cup {x}
  BY <1>1, <1>3
<1> QED BY <1>1, <1>2, <1>3, <1>4, Zenon

LEMMA TaskId ==
    ASSUME NEW s \in Seq(Task), NEW k \in 1 .. Len(s), NEW v \in Int, NEW u, u = [s EXCEPT ![k].id = v]
    PROVE  /\ u \in Seq(Task) /\ Len(u) = Len(s) /\ u[k].id = v
           /\ \A j \in 1 .. Len(s) : j # k => u[j] = s[j]
           /\ u[k].delayed = s[k].delayed /\ u[k].runs = s[k].runs
<1>1. s[k] \in Task
  OBVIOUS
<1>2. PICK r : r = [s[k] EXCEPT !.id = v]
  OBVIOUS
<1>3. r \in Task /\ r.id = v /\ r.delayed = s[k].delayed /\ r.runs = s[k].runs
  BY <1>1, <1>2 DEF Task
<1>4. u = [s EXCEPT ![k] = r]
  BY <1>2, Zenon
<1> QED BY <1>3, <1>4

LEMMA TaskRuns ==
    ASSUME NEW s \in Seq(Task), NEW k \in 1 .. Len(s), NEW v \in Nat, NEW u, u = [s EXCEPT ![k].runs = v]
    PROVE  /\ u \in Seq(Task) /\ Len(u) = Len(s) /\ u[k].runs = v
           /\ \A j \in 1 .. Len(s) : j # k => u[j] = s[j]
           /\ u[k].delayed = s[k].delayed /\ u[k].id = s[k].id
<1>1. s[k] \in Task
  OBVIOUS
<1>2. PICK r : r = [s[k] EXCEPT !.runs = v]
  OBVIOUS
<1>3. r \in Task /\ r.runs = v /\ r.delayed = s[k].delayed /\ r.id = s[k].id
  BY <1>1, <1>2 DEF Task
<1>4. u = [s EXCEPT ![k] = r]
  BY <1>2, Zenon
<1> QED BY <1>3, <1>4

LEMMA TimersInitInv == TimersInit => TimersInv
<1> SUFFICES ASSUME TimersInit PROVE TimersInv
  OBVIOUS
<1>1. /\ nextThread = 0 /\ nextTimerId = [w \in Worker |-> 0] /\ pendingTimers = [w \in Worker |-> <<>>]
      /\ purgingTimers = [w \in Worker |-> {}] /\ activeTimers = [w \in Worker |-> {}]
      /\ adding = [c \in Client |-> NotAdding] /\ tasks = <<>> /\ purged = {} /\ dropped = {}
  BY DEF TimersInit
<1>2. tasks \in Seq(Task) /\ Len(tasks) = 0 /\ 1 .. Len(tasks) = {}
  BY <1>1
<1>3. <<>> \in Seq(Timer)
  OBVIOUS
<1>4. TimersTypeOK
  BY <1>1, <1>2, <1>3, Workers DEF TimersTypeOK
<1>5. \A w \in Worker : TimersOf(w) = {}
  BY <1>1 DEF TimersOf, Pending
<1>6. NumbersInv
  <2>1. \A w \in Worker : QueuedOn(w) = {}
    BY <1>2 DEF QueuedOn
  <2> QED BY <1>1, <2>1, FS_EmptySet DEF NumbersInv
<1>7. AddingInv /\ TimerInv /\ IdInv /\ PurgeInv /\ DelayInv
  BY <1>1, <1>2, <1>5 DEF AddingInv, TimerInv, IdInv, PurgeInv, DelayInv
<1>8. ListsInv
  BY <1>5 DEF ListsInv, TimersOf
<1> QED BY <1>4, <1>6, <1>7, <1>8 DEF TimersInv

(* The next worker is taken: a new task, which no timer is for yet. *)
LEMMA TakeWorkerInv ==
    ASSUME TimersInv, NEW c \in Client, NEW delayed \in BOOLEAN, NEW interval \in {0, 1},
           delayed => interval = 0, TakeWorker(c, delayed, interval)
    PROVE  TimersInv'
<1>1. PICK k : k = Len(tasks) + 1
  OBVIOUS
<1>2. /\ tasks \in Seq(Task) /\ Len(tasks) \in Nat /\ Len(tasks) < MaxTasks /\ MaxTasks \in Nat
      /\ nextThread = Len(tasks) /\ adding \in [Client -> {NotAdding} \cup Adding]
      /\ adding[c] = NotAdding /\ nextThread' = nextThread + 1
  BY Workers DEF TimersInv, TimersTypeOK, TakeWorker
<1>3. /\ tasks' \in Seq(Task) /\ Len(tasks') = k /\ tasks'[k] = [delayed |-> delayed, id |-> NoId, runs |-> 0]
      /\ \A j \in 1 .. Len(tasks) : tasks'[j] = tasks[j]
  <2>1. PICK r : r = [delayed |-> delayed, id |-> NoId, runs |-> 0]
    OBVIOUS
  <2>2. r \in Task
    BY <2>1 DEF Task, NoId
  <2>3. tasks' = Append(tasks, r)
    BY <2>1, Zenon DEF TakeWorker
  <2>4. /\ tasks' \in Seq(Task) /\ Len(tasks') = k /\ tasks'[k] = r
        /\ \A j \in 1 .. Len(tasks) : tasks'[j] = tasks[j]
    BY ONLY <1>1, <1>2, <2>2, <2>3
  <2> QED BY <2>1, <2>4, Zenon
<1>4. /\ IdOf(k)' = NoId /\ RunsOf(k)' = 0 /\ Delayed(k)' = delayed
      /\ \A j \in 1 .. Len(tasks) : IdOf(j)' = IdOf(j) /\ RunsOf(j)' = RunsOf(j) /\ Delayed(j)' = Delayed(j)
  BY <1>3 DEF IdOf, RunsOf, Delayed
<1>5. k \in Nat \ {0} /\ k \notin 1 .. Len(tasks) /\ 1 .. Len(tasks') = 1 .. Len(tasks) \cup {k}
  BY <1>1, <1>2, <1>3
<1>6. /\ adding' \in [Client -> {NotAdding} \cup Adding] /\ adding'[c] # NotAdding
      /\ adding'[c].task = k /\ adding'[c].worker = WorkerOf(k) /\ adding'[c].interval = interval
      /\ \A d \in Client : d # c => adding'[d] = adding[d]
  <2>1. PICK r : r = [task |-> Len(tasks) + 1, worker |-> nextThread % NrThreads, interval |-> interval]
    OBVIOUS
  <2>2. adding' = [adding EXCEPT ![c] = r]
    BY <2>1, Zenon DEF TakeWorker
  <2>3. r.task = k /\ r.worker = WorkerOf(k) /\ r.interval = interval
    BY <1>1, <1>2, <2>1 DEF WorkerOf
  <2>4. r \in Adding
    BY <1>1, <1>5, <2>1, <2>3, Workers DEF Adding
  <2>5. r # NotAdding
    <3>1. NotAdding.task = 0
      BY DEF NotAdding
    <3> QED BY <1>5, <2>3, <3>1
  <2> QED BY <1>2, <2>2, <2>3, <2>4, <2>5
<1>7. NotAdding.task = 0
  BY DEF NotAdding
<1>8. UNCHANGED <<nextTimerId, pendingTimers, purgingTimers, activeTimers, purged, dropped>>
  BY DEF TakeWorker
<1>9. \A w : TimersOf(w)' = TimersOf(w)
  BY <1>8 DEF TimersOf, Pending
<1>10. \A d \in Client : adding[d].task # k
  <2>1. \A d \in Client : adding[d] # NotAdding => adding[d].task \in 1 .. Len(tasks)
    BY DEF TimersInv, AddingInv
  <2> QED BY <1>5, <1>7, <2>1
<1>11. /\ ~Queued(k)' /\ \A j \in 1 .. Len(tasks) : Queued(j)' <=> Queued(j)
  BY <1>2, <1>5, <1>6, <1>7, <1>10 DEF Queued
<1>12. TimersTypeOK'
  BY <1>1, <1>2, <1>3, <1>6, <1>8 DEF TimersInv, TimersTypeOK
<1>13. AddingInv'
  <2> SUFFICES ASSUME NEW d \in Client, adding'[d] # NotAdding
               PROVE  /\ adding'[d].task \in 1 .. Len(tasks') /\ adding'[d].worker = WorkerOf(adding'[d].task)
                      /\ IdOf(adding[d].task)' = NoId /\ RunsOf(adding[d].task)' = 0
                      /\ Delayed(adding[d].task)' => adding'[d].interval = 0
                      /\ \A e \in Client : e # d => adding'[e].task # adding'[d].task
    BY Zenon DEF AddingInv, WorkerOf
  <2>1. CASE d = c
    BY <1>4, <1>5, <1>6, <1>10, <2>1
  <2>2. CASE d # c
    <3>1. /\ adding[d].task \in 1 .. Len(tasks) /\ adding[d].worker = WorkerOf(adding[d].task)
          /\ IdOf(adding[d].task) = NoId /\ RunsOf(adding[d].task) = 0
          /\ Delayed(adding[d].task) => adding[d].interval = 0
          /\ \A e \in Client : e # d => adding[e].task # adding[d].task
          /\ adding'[d] = adding[d]
      BY <1>6, <2>2, Zenon DEF TimersInv, AddingInv
    <3> QED BY <1>4, <1>5, <1>6, <1>10, <2>2, <3>1
  <2> QED BY <2>1, <2>2
<1>14. NumbersInv'
  <2>1. \A w : QueuedOn(w)' = QueuedOn(w)
    BY <1>5, <1>11 DEF QueuedOn, WorkerOf
  <2> QED BY <1>8, <2>1 DEF TimersInv, NumbersInv
<1>15. TimerInv'
  <2> SUFFICES ASSUME NEW w \in Worker, NEW tm \in TimersOf(w)
               PROVE  /\ tm.task \in 1 .. Len(tasks') /\ Queued(tm.task)' /\ tm.id < nextTimerId'[w]
                      /\ Delayed(tm.task)' => tm.interval = 0 /\ RunsOf(tm.task)' = 0
                      /\ \A v \in Worker : \A tn \in TimersOf(v) : tm.task = tn.task => v = w /\ tn = tm
                      /\ \A tn \in TimersOf(w) : tm.id = tn.id => tm.task = tn.task
    BY <1>9, ZenonT(40) DEF TimerInv
  <2>1. /\ tm.task \in 1 .. Len(tasks) /\ Queued(tm.task) /\ tm.id < nextTimerId[w]
        /\ Delayed(tm.task) => tm.interval = 0 /\ RunsOf(tm.task) = 0
        /\ \A v \in Worker : \A tn \in TimersOf(v) : tm.task = tn.task => v = w /\ tn = tm
        /\ \A tn \in TimersOf(w) : tm.id = tn.id => tm.task = tn.task
    BY Zenon DEF TimersInv, TimerInv
  <2> QED BY <1>4, <1>5, <1>8, <1>11, <2>1, Zenon
<1>16. IdInv'
  <2> SUFFICES ASSUME NEW j \in 1 .. Len(tasks'), IdOf(j)' # NoId
               PROVE  /\ ~Delayed(j)' /\ Queued(j)'
                      /\ IdWorker(j)' \in Worker /\ IdNumber(j)' < nextTimerId'[IdWorker(j)']
                      /\ \A tm \in TimersOf(IdWorker(j)') : tm.id = IdNumber(j)' => tm.task = j
    BY <1>9, Zenon DEF IdInv, TimersOf, Pending
  <2>1. j \in 1 .. Len(tasks) /\ IdOf(j)' = IdOf(j)
    BY <1>4, <1>5
  <2>2. IdWorker(j)' = IdWorker(j) /\ IdNumber(j)' = IdNumber(j)
    BY <2>1 DEF IdWorker, IdNumber
  <2>3. /\ ~Delayed(j) /\ Queued(j)
        /\ IdWorker(j) \in Worker /\ IdNumber(j) < nextTimerId[IdWorker(j)]
        /\ \A tm \in TimersOf(IdWorker(j)) : tm.id = IdNumber(j) => tm.task = j
    BY <2>1, Zenon DEF TimersInv, IdInv
  <2> QED BY <1>4, <1>8, <1>11, <2>1, <2>2, <2>3, Zenon
<1>17. PurgeInv'
  <2>1. \A j \in purged : j \in 1 .. Len(tasks) /\ IdOf(j) # NoId
    BY DEF TimersInv, PurgeInv
  <2>2. \A j \in 1 .. Len(tasks) : IdWorker(j)' = IdWorker(j) /\ IdNumber(j)' = IdNumber(j)
    BY <1>4 DEF IdWorker, IdNumber
  <2>3. \A w \in Worker : \A n \in purgingTimers[w] : \E j \in purged : IdWorker(j) = w /\ IdNumber(j) = n
    BY DEF TimersInv, PurgeInv
  <2>4. \A w \in Worker : \A n \in purgingTimers'[w] : \E j \in purged' : IdWorker(j)' = w /\ IdNumber(j)' = n
    BY <1>8, <2>1, <2>2, <2>3
  <2>5. \A j \in purged' : j \in 1 .. Len(tasks') /\ IdOf(j)' # NoId
    BY <1>4, <1>5, <1>8, <2>1
  <2> QED BY <1>8, <2>4, <2>5 DEF TimersInv, PurgeInv
<1>18. DelayInv'
  <2> SUFFICES ASSUME NEW j \in 1 .. Len(tasks'), Delayed(j)'
               PROVE  /\ RunsOf(j)' <= 1
                      /\ RunsOf(j)' = 0 => ~Queued(j)' \/ \E w \in Worker : \E tm \in TimersOf(w) : tm.task = j
    BY <1>9, Zenon DEF DelayInv
  <2>1. CASE j = k
    BY <1>4, <1>11, <2>1
  <2>2. CASE j \in 1 .. Len(tasks)
    <3>1. Delayed(j)
      BY <1>4, <2>2
    <3>2. /\ RunsOf(j) <= 1
          /\ RunsOf(j) = 0 => ~Queued(j) \/ \E w \in Worker : \E tm \in TimersOf(w) : tm.task = j
      BY <2>2, <3>1, Zenon DEF TimersInv, DelayInv
    <3> QED BY <1>4, <1>11, <2>2, <3>2, Zenon
  <2> QED BY <1>5, <2>1, <2>2
<1>19. ListsInv'
  BY <1>8 DEF TimersInv, ListsInv, Pending
<1> QED BY <1>12, <1>13, <1>14, <1>15, <1>16, <1>17, <1>18, <1>19 DEF TimersInv

(* The worker numbers the timer of the task and queues it. *)
LEMMA QueueTimerInv ==
    ASSUME TimersInv, NEW c \in Client, QueueTimer(c)
    PROVE  TimersInv'
<1>1. PICK k, w, n, tm0 : /\ k = adding[c].task /\ w = adding[c].worker /\ n = NextTimerId(w)
                          /\ tm0 = [id |-> n, interval |-> adding[c].interval, task |-> k]
  OBVIOUS
<1>2. /\ tasks \in Seq(Task) /\ Len(tasks) \in Nat /\ Len(tasks) <= MaxTasks /\ nextThread = Len(tasks)
      /\ adding \in [Client -> {NotAdding} \cup Adding] /\ nextTimerId \in [Worker -> Nat]
      /\ pendingTimers \in [Worker -> Seq(Timer)] /\ purgingTimers \in [Worker -> SUBSET Nat]
      /\ activeTimers \in [Worker -> SUBSET Timer] /\ adding[c] # NotAdding
  BY DEF TimersInv, TimersTypeOK, QueueTimer
<1>3. /\ k \in 1 .. Len(tasks) /\ w = WorkerOf(k) /\ IdOf(k) = NoId /\ RunsOf(k) = 0
      /\ Delayed(k) => adding[c].interval = 0
      /\ \A d \in Client : d # c => adding[d].task # k
  BY <1>1, <1>2, Zenon DEF TimersInv, AddingInv
<1>4. w \in Worker /\ adding[c].interval \in {0, 1}
  BY <1>1, <1>2 DEF Adding
<1>5. NotAdding.task = 0
  BY DEF NotAdding
<1>6. /\ pendingTimers' = [pendingTimers EXCEPT ![w] = Append(pendingTimers[w], tm0)]
      /\ nextTimerId' = [nextTimerId EXCEPT ![w] = nextTimerId[w] + 1]
      /\ tasks' = [tasks EXCEPT ![k].id = IF tasks[k].delayed THEN NoId ELSE PoolId(w, tm0.id)]
      /\ adding' = [adding EXCEPT ![c] = NotAdding]
      /\ UNCHANGED <<nextThread, purgingTimers, activeTimers, purged, dropped>>
  BY <1>1, Zenon DEF QueueTimer
<1>7. /\ adding' \in [Client -> {NotAdding} \cup Adding] /\ adding'[c] = NotAdding
      /\ \A d \in Client : d # c => adding'[d] = adding[d]
  BY <1>2, <1>6
<1>8. \A j \in Nat \ {0} : Queued(j)' <=> Queued(j) \/ j = k
  BY <1>1, <1>3, <1>5, <1>7 DEF Queued
<1>9. ~Queued(k)
  BY <1>1 DEF Queued
<1>10. Len(tasks') = Len(tasks) /\ tasks' \in Seq(Task)
  <2>1. NoId \in Int /\ PoolId(w, tm0.id) \in Int
    <3>1. n \in Nat
      <4>1. PICK m \in Nat, b \in Nat \ {0} : m = nextTimerId[w] /\ b = TimerIds
        BY <1>2, <1>4, Workers
      <4>2. n = m % b
        BY <1>1, <4>1, Zenon DEF NextTimerId
      <4> QED BY ONLY <4>2, m \in Nat, b \in Nat \ {0}
    <3> QED BY <1>1, <1>4, <3>1, Workers DEF NoId, PoolId
  <2>2. PICK v : v = IF tasks[k].delayed THEN NoId ELSE PoolId(w, tm0.id)
    OBVIOUS
  <2>3. v \in Int /\ tasks' = [tasks EXCEPT ![k].id = v]
    BY <1>6, <2>1, <2>2, Zenon
  <2>4. PICK s, u : s = tasks /\ u = tasks'
    OBVIOUS
  <2>5. s \in Seq(Task) /\ k \in 1 .. Len(s) /\ v \in Int /\ u = [s EXCEPT ![k].id = v]
    BY <1>2, <1>3, <2>3, <2>4, Zenon
  <2>6. u \in Seq(Task) /\ Len(u) = Len(s)
    BY ONLY <2>5, TaskId
  <2> QED BY <2>4, <2>6, Zenon
<1>11. /\ nextTimerId[w] \in Nat /\ nextTimerId[w] < TimerIds /\ n = nextTimerId[w]
       /\ QueuedOn(w)' = QueuedOn(w) \cup {k}
       /\ Cardinality(QueuedOn(w)') = nextTimerId[w] + 1
  <2>1. QueuedOn(w)' = QueuedOn(w) \cup {k} /\ k \notin QueuedOn(w)
    BY <1>2, <1>3, <1>8, <1>9, <1>10 DEF QueuedOn, WorkerOf
  <2>2. nextTimerId[w] = Cardinality(QueuedOn(w))
    BY <1>4 DEF TimersInv, NumbersInv
  <2>3. QueuedOn(w) \subseteq {j \in 1 .. MaxTasks : WorkerOf(j) = w}
    BY <1>2, Workers DEF QueuedOn
  <2>4. QueuedOn(w) \cup {k} \subseteq {j \in 1 .. MaxTasks : WorkerOf(j) = w}
    BY <1>2, <1>3, <2>3, Workers
  <2>5. IsFiniteSet(QueuedOn(w))
    BY <1>4, <2>3, Capacity
  <2>6. Cardinality(QueuedOn(w) \cup {k}) = Cardinality(QueuedOn(w)) + 1
    BY <2>1, <2>5, FS_AddElement
  <2>7. Cardinality(QueuedOn(w) \cup {k}) <= TimerIds
    BY <1>4, <2>4, Capacity
  <2>8. nextTimerId[w] \in Nat
    BY <1>2, <1>4
  <2>9. nextTimerId[w] < TimerIds
    BY <2>2, <2>6, <2>7, <2>8, Workers
  <2>10. \A x \in Nat : \A t \in Nat \ {0} : x < t => x % t = x
    OBVIOUS
  <2>11. n = nextTimerId[w]
    BY <1>1, <2>8, <2>9, <2>10, Workers DEF NextTimerId
  <2> QED BY <2>1, <2>2, <2>6, <2>8, <2>9, <2>11
<1>12. tm0 \in Timer /\ tm0.id = n /\ tm0.task = k /\ tm0.interval = adding[c].interval
  BY <1>1, <1>3, <1>4, <1>11 DEF Timer
<1>13. /\ TimersOf(w)' = TimersOf(w) \cup {tm0} /\ \A v \in Worker : v # w => TimersOf(v)' = TimersOf(v)
       /\ pendingTimers' \in [Worker -> Seq(Timer)]
       /\ Pending(w)' = Pending(w) \cup {tm0} /\ \A v \in Worker : v # w => Pending(v)' = Pending(v)
  <2>1. PICK s : s = pendingTimers[w]
    OBVIOUS
  <2>2. s \in Seq(Timer)
    BY <1>2, <1>4, <2>1
  <2>3. /\ Append(s, tm0) \in Seq(Timer)
        /\ {Append(s, tm0)[i] : i \in DOMAIN Append(s, tm0)} = {s[i] : i \in DOMAIN s} \cup {tm0}
    BY <1>12, <2>2, PendingAppend
  <2>4. PICK a : a = Append(s, tm0)
    OBVIOUS
  <2>5. pendingTimers'[w] = a /\ \A v \in Worker : v # w => pendingTimers'[v] = pendingTimers[v]
    BY <1>2, <1>4, <1>6, <2>1, <2>4
  <2>6. pendingTimers' \in [Worker -> Seq(Timer)]
    BY <1>2, <1>4, <1>6, <2>1, <2>3
  <2>7. Pending(w)' = Pending(w) \cup {tm0}
    <3>1. {a[i] : i \in DOMAIN a} = {s[i] : i \in DOMAIN s} \cup {tm0}
      BY <2>3, <2>4, Zenon
    <3>2. Pending(w)' = {a[i] : i \in DOMAIN a}
      BY <2>5, Zenon DEF Pending
    <3>3. Pending(w) = {s[i] : i \in DOMAIN s}
      BY <2>1, Zenon DEF Pending
    <3> QED BY <3>1, <3>2, <3>3, Zenon
  <2>8. \A v \in Worker : v # w => Pending(v)' = Pending(v)
    BY <2>5 DEF Pending
  <2>9. TimersOf(w)' = TimersOf(w) \cup {tm0}
    BY <1>6, <2>7 DEF TimersOf
  <2>10. \A v \in Worker : v # w => TimersOf(v)' = TimersOf(v)
    BY <1>6, <2>8 DEF TimersOf
  <2> QED BY <2>6, <2>7, <2>8, <2>9, <2>10
<1>14. /\ IdOf(k)' = IF Delayed(k) THEN NoId ELSE PoolId(w, n)
       /\ RunsOf(k)' = 0 /\ (Delayed(k)' <=> Delayed(k))
       /\ \A j \in 1 .. Len(tasks) : j # k =>
             IdOf(j)' = IdOf(j) /\ RunsOf(j)' = RunsOf(j) /\ (Delayed(j)' <=> Delayed(j))
  <2>1. PICK v : v = IF tasks[k].delayed THEN NoId ELSE PoolId(w, tm0.id)
    OBVIOUS
  <2>2. v \in Int /\ tasks' = [tasks EXCEPT ![k].id = v]
    <3>1. NoId \in Int /\ PoolId(w, tm0.id) \in Int
      BY <1>4, <1>11, <1>12, PoolIds DEF NoId
    <3> QED BY <1>6, <2>1, <3>1, Zenon
  <2>3. /\ tasks'[k].id = v /\ \A j \in 1 .. Len(tasks) : j # k => tasks'[j] = tasks[j]
        /\ tasks'[k].delayed = tasks[k].delayed /\ tasks'[k].runs = tasks[k].runs
    BY ONLY <1>2, <1>3, <2>2, TaskId
  <2>4. v = IF Delayed(k) THEN NoId ELSE PoolId(w, n)
    BY <1>12, <2>1, Zenon DEF Delayed
  <2> QED BY <1>3, <2>3, <2>4, Zenon DEF IdOf, RunsOf, Delayed
<1>15. \A j \in 1 .. Len(tasks) : j # k => IdWorker(j)' = IdWorker(j) /\ IdNumber(j)' = IdNumber(j)
  BY <1>14 DEF IdWorker, IdNumber
<1>16. IdOf(k)' # NoId => ~Delayed(k)' /\ IdWorker(k)' = w /\ IdNumber(k)' = n
  BY <1>4, <1>11, <1>14, PoolIds DEF IdWorker, IdNumber
<1>17. nextTimerId' \in [Worker -> Nat] /\ nextTimerId'[w] = nextTimerId[w] + 1 /\ \A v \in Worker : v # w => nextTimerId'[v] = nextTimerId[v]
  BY <1>2, <1>4, <1>6
<1>18. \A v \in Worker : \A tm \in TimersOf(v) : tm.task # k /\ (v = w => tm.id # n)
  <2>1. \A v \in Worker : \A tm \in TimersOf(v) : Queued(tm.task) /\ tm.id < nextTimerId[v]
    BY Zenon DEF TimersInv, TimerInv
  <2> QED BY <1>9, <1>11, <2>1
<1>19. TimersTypeOK'
  BY <1>2, <1>6, <1>7, <1>10, <1>13, <1>17 DEF TimersTypeOK
<1>20. AddingInv'
  <2> SUFFICES ASSUME NEW d \in Client, adding'[d] # NotAdding
               PROVE  /\ adding'[d].task \in 1 .. Len(tasks') /\ adding'[d].worker = WorkerOf(adding'[d].task)
                      /\ IdOf(adding[d].task)' = NoId /\ RunsOf(adding[d].task)' = 0
                      /\ Delayed(adding[d].task)' => adding'[d].interval = 0
                      /\ \A e \in Client : e # d => adding'[e].task # adding'[d].task
    BY Zenon DEF AddingInv, WorkerOf
  <2>1. d # c /\ adding'[d] = adding[d]
    BY <1>7
  <2>2. /\ adding[d].task \in 1 .. Len(tasks) /\ adding[d].worker = WorkerOf(adding[d].task)
        /\ IdOf(adding[d].task) = NoId /\ RunsOf(adding[d].task) = 0
        /\ Delayed(adding[d].task) => adding[d].interval = 0
        /\ \A e \in Client : e # d => adding[e].task # adding[d].task
        /\ adding[d].task # k
    BY <1>3, <2>1, Zenon DEF TimersInv, AddingInv
  <2>3. PICK j : j = adding[d].task
    OBVIOUS
  <2>4. /\ IdOf(adding[d].task)' = IdOf(j)' /\ RunsOf(adding[d].task)' = RunsOf(j)'
        /\ Delayed(adding[d].task)' = Delayed(j)'
    BY <2>1, <2>3 DEF IdOf, RunsOf, Delayed
  <2>5. \A e \in Client : e # d => adding'[e].task # j
    BY <1>5, <1>7, <2>2, <2>3
  <2> QED BY <1>10, <1>14, <2>1, <2>2, <2>3, <2>4, <2>5
<1>21. NumbersInv'
  <2>1. \A v \in Worker : v # w => QueuedOn(v)' = QueuedOn(v)
    BY <1>2, <1>3, <1>8, <1>10 DEF QueuedOn, WorkerOf
  <2> QED BY <1>11, <1>17, <2>1 DEF TimersInv, NumbersInv
<1>22. TimerInv'
  <2> SUFFICES ASSUME NEW v \in Worker, NEW tm \in TimersOf(v)'
               PROVE  /\ tm.task \in 1 .. Len(tasks') /\ Queued(tm.task)' /\ tm.id < nextTimerId'[v]
                      /\ Delayed(tm.task)' => tm.interval = 0 /\ RunsOf(tm.task)' = 0
                      /\ \A x \in Worker : \A tn \in TimersOf(x)' : tm.task = tn.task => x = v /\ tn = tm
                      /\ \A tn \in TimersOf(v)' : tm.id = tn.id => tm.task = tn.task
    BY Zenon DEF TimerInv
  <2>1. CASE v = w /\ tm = tm0
    <3>1. k \in 1 .. Len(tasks') /\ Queued(k)' /\ n < nextTimerId'[w]
      BY <1>3, <1>8, <1>10, <1>11, <1>17
    <3>2. Delayed(k)' => tm0.interval = 0 /\ RunsOf(k)' = 0
      BY <1>3, <1>12, <1>14, Zenon
    <3>3. \A x \in Worker : \A tn \in TimersOf(x)' : tm.task = tn.task => x = v /\ tn = tm
      BY <1>12, <1>13, <1>18, <2>1
    <3>4. \A tn \in TimersOf(v)' : tm.id = tn.id => tm.task = tn.task
      BY <1>12, <1>13, <1>18, <2>1
    <3> QED BY <1>12, <2>1, <3>1, <3>2, <3>3, <3>4, Zenon
  <2>2. CASE tm \in TimersOf(v)
    <3>1. /\ tm.task \in 1 .. Len(tasks) /\ Queued(tm.task) /\ tm.id < nextTimerId[v]
          /\ Delayed(tm.task) => tm.interval = 0 /\ RunsOf(tm.task) = 0
          /\ \A x \in Worker : \A tn \in TimersOf(x) : tm.task = tn.task => x = v /\ tn = tm
          /\ \A tn \in TimersOf(v) : tm.id = tn.id => tm.task = tn.task
      BY <2>2, Zenon DEF TimersInv, TimerInv
    <3>2. tm.task # k /\ (v = w => tm.id # n)
      BY <1>18, <2>2
    <3>3. Delayed(tm.task)' => tm.interval = 0 /\ RunsOf(tm.task)' = 0
      BY <1>14, <3>1, <3>2, Zenon
    <3>4. tm.id \in Nat /\ nextTimerId[v] \in Nat
      <4>1. TimersOf(v) \subseteq Timer
        BY <1>2 DEF TimersOf, Pending
      <4> QED BY <1>2, <2>2, <4>1 DEF Timer
    <3>5. tm.id < nextTimerId'[v]
      BY <1>17, <3>1, <3>4
    <3>6. \A x \in Worker : \A tn \in TimersOf(x)' : tm.task = tn.task => x = v /\ tn = tm
      BY <1>12, <1>13, <3>1, <3>2
    <3>7. \A tn \in TimersOf(v)' : tm.id = tn.id => tm.task = tn.task
      BY <1>12, <1>13, <3>1, <3>2
    <3>8. tm.task \in 1 .. Len(tasks') /\ Queued(tm.task)'
      BY <1>8, <1>10, <3>1
    <3> QED BY <3>3, <3>5, <3>6, <3>7, <3>8
  <2> QED BY <1>13, <2>1, <2>2
<1>23. IdInv'
  <2> SUFFICES ASSUME NEW j \in 1 .. Len(tasks'), IdOf(j)' # NoId
               PROVE  /\ ~Delayed(j)' /\ Queued(j)'
                      /\ IdWorker(j)' \in Worker /\ IdNumber(j)' < nextTimerId'[IdWorker(j)']
                      /\ \A tm \in TimersOf(IdWorker(j))' : tm.id = IdNumber(j)' => tm.task = j
    BY Zenon DEF IdInv
  <2>1. PICK v, m : v = IdWorker(j)' /\ m = IdNumber(j)'
    OBVIOUS
  <2>2. TimersOf(IdWorker(j))' = TimersOf(v)'
    BY <2>1 DEF TimersOf, Pending
  <2>3. CASE j = k
    <3>1. v = w /\ m = n /\ ~Delayed(j)'
      BY <1>16, <2>1, <2>3
    <3>2. \A tm \in TimersOf(v)' : tm.id = m => tm.task = j
      BY <1>12, <1>13, <1>18, <2>3, <3>1, <1>4
    <3>3. Queued(j)' /\ m < nextTimerId'[v]
      BY <1>8, <1>11, <1>17, <2>3, <3>1, <1>3
    <3> QED BY <1>4, <2>1, <2>2, <3>1, <3>2, <3>3, Zenon
  <2>4. CASE j # k
    <3>1. j \in 1 .. Len(tasks) /\ IdOf(j) # NoId /\ v = IdWorker(j) /\ m = IdNumber(j) /\ (Delayed(j)' <=> Delayed(j))
      BY <1>10, <1>14, <1>15, <2>1, <2>4, Zenon
    <3>2. /\ ~Delayed(j) /\ Queued(j) /\ v \in Worker /\ m < nextTimerId[v]
          /\ \A tm \in TimersOf(v) : tm.id = m => tm.task = j
      BY <3>1, Zenon DEF TimersInv, IdInv
    <3>3. m \in Int
      <4>1. tasks[j] \in Task
        BY <1>2, <3>1
      <4>2. IdOf(j) \in Int /\ TimerIds \in Nat \ {0}
        BY <4>1, Workers DEF IdOf, Task
      <4> QED BY <3>1, <4>2 DEF IdNumber
    <3>4. m < nextTimerId'[v] /\ (v = w => m # n)
      BY <1>2, <1>11, <1>17, <3>2, <3>3
    <3>5. \A tm \in TimersOf(v)' : tm.id = m => tm.task = j
      BY <1>12, <1>13, <3>2, <3>4
    <3>6. Queued(j)'
      BY <1>8, <3>1, <3>2
    <3> QED BY <2>1, <2>2, <3>1, <3>2, <3>4, <3>5, <3>6, Zenon
  <2> QED BY <2>3, <2>4
<1>24. PurgeInv'
  <2>1. \A j \in purged : j \in 1 .. Len(tasks) /\ IdOf(j) # NoId
    BY DEF TimersInv, PurgeInv
  <2>2. \A j \in purged : j # k
    BY <1>3, <2>1
  <2>3. \A x \in Worker : \A m \in purgingTimers[x] : \E j \in purged : IdWorker(j) = x /\ IdNumber(j) = m
    BY DEF TimersInv, PurgeInv
  <2>4. \A x \in Worker : \A m \in purgingTimers'[x] : \E j \in purged' : IdWorker(j)' = x /\ IdNumber(j)' = m
    BY <1>6, <1>15, <2>1, <2>2, <2>3
  <2>5. \A j \in purged' : j \in 1 .. Len(tasks') /\ IdOf(j)' # NoId
    BY <1>6, <1>10, <1>14, <2>1, <2>2
  <2> QED BY <1>6, <2>4, <2>5 DEF TimersInv, PurgeInv
<1>25. DelayInv'
  <2> SUFFICES ASSUME NEW j \in 1 .. Len(tasks'), Delayed(j)'
               PROVE  /\ RunsOf(j)' <= 1
                      /\ RunsOf(j)' = 0 => ~Queued(j)' \/ \E v \in Worker : \E tm \in TimersOf(v)' : tm.task = j
    BY Zenon DEF DelayInv
  <2>1. CASE j = k
    BY <1>4, <1>12, <1>13, <1>14, <2>1
  <2>2. CASE j # k
    <3>1. j \in 1 .. Len(tasks) /\ Delayed(j) /\ RunsOf(j)' = RunsOf(j)
      BY <1>10, <1>14, <2>2, Zenon
    <3>2. /\ RunsOf(j) <= 1
          /\ RunsOf(j) = 0 => ~Queued(j) \/ \E v \in Worker : \E tm \in TimersOf(v) : tm.task = j
      BY <3>1, Zenon DEF TimersInv, DelayInv
    <3>3. ~Queued(j) => ~Queued(j)'
      BY <1>8, <2>2, <3>1
    <3>4. \A v \in Worker : TimersOf(v) \subseteq TimersOf(v)'
      BY <1>13
    <3> QED BY <3>1, <3>2, <3>3, <3>4
  <2> QED BY <2>1, <2>2
<1>26. ListsInv'
  <2>1. tm0 \notin activeTimers[w]
    BY <1>4, <1>12, <1>18 DEF TimersOf
  <2> QED BY <1>6, <1>13, <2>1 DEF TimersInv, ListsInv
<1> QED BY <1>19, <1>20, <1>21, <1>22, <1>23, <1>24, <1>25, <1>26 DEF TimersInv

(* Timers go, and the tasks stay as they are, but for the runs of one that *)
(* has no timer any more.                                                  *)
LEMMA TimersGo ==
    ASSUME TimersInv, UNCHANGED <<nextThread, nextTimerId, adding>>, Len(tasks') = Len(tasks),
           \A j \in 1 .. Len(tasks) : IdOf(j)' = IdOf(j) /\ (Delayed(j)' <=> Delayed(j)),
           \A j \in 1 .. Len(tasks) :
               \/ RunsOf(j)' = RunsOf(j)
               \/ Queued(j) /\ \A w \in Worker : \A tm \in TimersOf(w)' : tm.task # j,
           \A w \in Worker : TimersOf(w)' \subseteq TimersOf(w)
    PROVE  AddingInv' /\ NumbersInv' /\ TimerInv' /\ IdInv'
<1>1. \A j : Queued(j)' <=> Queued(j)
  BY DEF Queued
<1>2. \A j \in 1 .. Len(tasks) : IdWorker(j)' = IdWorker(j) /\ IdNumber(j)' = IdNumber(j)
  BY DEF IdWorker, IdNumber
<1>3. AddingInv'
  <2> SUFFICES ASSUME NEW d \in Client, adding'[d] # NotAdding
               PROVE  /\ adding'[d].task \in 1 .. Len(tasks') /\ adding'[d].worker = WorkerOf(adding'[d].task)
                      /\ IdOf(adding[d].task)' = NoId /\ RunsOf(adding[d].task)' = 0
                      /\ Delayed(adding[d].task)' => adding'[d].interval = 0
                      /\ \A e \in Client : e # d => adding'[e].task # adding'[d].task
    BY Zenon DEF AddingInv, WorkerOf
  <2>1. PICK j : j = adding[d].task
    OBVIOUS
  <2>2. /\ j \in 1 .. Len(tasks) /\ adding[d].worker = WorkerOf(j) /\ IdOf(j) = NoId /\ RunsOf(j) = 0
        /\ Delayed(j) => adding[d].interval = 0
        /\ \A e \in Client : e # d => adding[e].task # j
    BY <2>1, Zenon DEF TimersInv, AddingInv
  <2>3. ~Queued(j)
    BY <2>1 DEF Queued
  <2>4. IdOf(j)' = NoId /\ RunsOf(j)' = 0 /\ (Delayed(j)' => adding[d].interval = 0)
    BY <2>2, <2>3, Zenon
  <2>5. /\ IdOf(adding[d].task)' = IdOf(j)' /\ RunsOf(adding[d].task)' = RunsOf(j)'
        /\ Delayed(adding[d].task)' = Delayed(j)'
    BY <2>1 DEF IdOf, RunsOf, Delayed
  <2> QED BY <2>1, <2>2, <2>4, <2>5, Zenon
<1>4. NumbersInv'
  BY <1>1 DEF TimersInv, NumbersInv, QueuedOn, WorkerOf
<1>5. TimerInv'
  <2> SUFFICES ASSUME NEW v \in Worker, NEW tm \in TimersOf(v)'
               PROVE  /\ tm.task \in 1 .. Len(tasks') /\ Queued(tm.task)' /\ tm.id < nextTimerId'[v]
                      /\ Delayed(tm.task)' => tm.interval = 0 /\ RunsOf(tm.task)' = 0
                      /\ \A x \in Worker : \A tn \in TimersOf(x)' : tm.task = tn.task => x = v /\ tn = tm
                      /\ \A tn \in TimersOf(v)' : tm.id = tn.id => tm.task = tn.task
    BY Zenon DEF TimerInv
  <2>1. tm \in TimersOf(v)
    OBVIOUS
  <2>2. /\ tm.task \in 1 .. Len(tasks) /\ Queued(tm.task) /\ tm.id < nextTimerId[v]
        /\ Delayed(tm.task) => tm.interval = 0 /\ RunsOf(tm.task) = 0
        /\ \A x \in Worker : \A tn \in TimersOf(x) : tm.task = tn.task => x = v /\ tn = tm
        /\ \A tn \in TimersOf(v) : tm.id = tn.id => tm.task = tn.task
    BY <2>1, Zenon DEF TimersInv, TimerInv
  <2>3. /\ \A x \in Worker : \A tn \in TimersOf(x)' : tm.task = tn.task => x = v /\ tn = tm
        /\ \A tn \in TimersOf(v)' : tm.id = tn.id => tm.task = tn.task
    BY <2>2
  <2>4. RunsOf(tm.task)' = RunsOf(tm.task)
    BY <2>2, Zenon
  <2>5. /\ tm.task \in 1 .. Len(tasks') /\ Queued(tm.task)' /\ tm.id < nextTimerId'[v]
        /\ Delayed(tm.task)' => tm.interval = 0 /\ RunsOf(tm.task)' = 0
    BY <1>1, <2>2, <2>4, Zenon
  <2> QED BY <2>3, <2>5
<1>6. IdInv'
  <2> SUFFICES ASSUME NEW j \in 1 .. Len(tasks'), IdOf(j)' # NoId
               PROVE  /\ ~Delayed(j)' /\ Queued(j)'
                      /\ IdWorker(j)' \in Worker /\ IdNumber(j)' < nextTimerId'[IdWorker(j)']
                      /\ \A tm \in TimersOf(IdWorker(j))' : tm.id = IdNumber(j)' => tm.task = j
    BY Zenon DEF IdInv
  <2>1. PICK v, m : v = IdWorker(j) /\ m = IdNumber(j)
    OBVIOUS
  <2>2. IdWorker(j)' = v /\ IdNumber(j)' = m /\ j \in 1 .. Len(tasks) /\ IdOf(j) # NoId
    BY <1>2, <2>1, Zenon
  <2>3. TimersOf(IdWorker(j))' = TimersOf(v)'
    BY <2>2 DEF TimersOf, Pending
  <2>4. /\ ~Delayed(j) /\ Queued(j) /\ v \in Worker /\ m < nextTimerId[v]
        /\ \A tm \in TimersOf(v) : tm.id = m => tm.task = j
    BY <2>1, <2>2, Zenon DEF TimersInv, IdInv
  <2>5. \A tm \in TimersOf(v)' : tm.id = m => tm.task = j
    BY <2>4
  <2> QED BY <1>1, <2>2, <2>3, <2>4, <2>5, Zenon
<1> QED BY <1>3, <1>4, <1>5, <1>6

(* The same timers: a delayed task has its own still. *)
LEMMA TimersStay ==
    ASSUME TimersInv, UNCHANGED <<adding, tasks>>, \A w \in Worker : TimersOf(w)' = TimersOf(w)
    PROVE  DelayInv'
<1>1. \A j : (Queued(j)' <=> Queued(j)) /\ RunsOf(j)' = RunsOf(j) /\ Delayed(j)' = Delayed(j)
  BY DEF Queued, RunsOf, Delayed
<1> SUFFICES ASSUME NEW j \in 1 .. Len(tasks'), Delayed(j)'
             PROVE  /\ RunsOf(j)' <= 1
                    /\ RunsOf(j)' = 0 => ~Queued(j)' \/ \E v \in Worker : \E tm \in TimersOf(v)' : tm.task = j
  BY Zenon DEF DelayInv
<1>2. /\ RunsOf(j) <= 1
      /\ RunsOf(j) = 0 => ~Queued(j) \/ \E v \in Worker : \E tm \in TimersOf(v) : tm.task = j
  BY <1>1, Zenon DEF TimersInv, DelayInv
<1>3. (\E v \in Worker : \E tm \in TimersOf(v) : tm.task = j) => \E v \in Worker : \E tm \in TimersOf(v)' : tm.task = j
  OBVIOUS
<1> QED BY <1>1, <1>2, <1>3, Zenon

LEMMA PurgeTimerTaskInv ==
    ASSUME TimersInv, NEW k \in DOMAIN tasks, PurgeTimerTask(k)
    PROVE  TimersInv'
<1>1. /\ IdOf(k) # NoId /\ purged' = purged \cup {k}
      /\ purgingTimers' = [purgingTimers EXCEPT ![IdWorker(k)] = @ \cup {IdNumber(k)}]
      /\ UNCHANGED <<nextThread, nextTimerId, pendingTimers, activeTimers, adding, tasks, dropped>>
  BY Zenon DEF PurgeTimerTask, IdOf, IdWorker, IdNumber
<1>2. /\ tasks \in Seq(Task) /\ purgingTimers \in [Worker -> SUBSET Nat]
  BY DEF TimersInv, TimersTypeOK
<1>3. k \in 1 .. Len(tasks)
  BY <1>2
<1>4. IdWorker(k) \in Worker
  BY <1>1, <1>3, Zenon DEF TimersInv, IdInv
<1>5. IdNumber(k) \in Nat
  <2>1. tasks[k] \in Task
    BY <1>2, <1>3
  <2>2. IdOf(k) \in Int
    BY <2>1 DEF IdOf, Task
  <2> QED BY <2>2, Workers DEF IdNumber
<1>6. \A w : TimersOf(w)' = TimersOf(w)
  BY <1>1 DEF TimersOf, Pending
<1>7. TimersTypeOK'
  <2>1. purgingTimers' \in [Worker -> SUBSET Nat]
    BY <1>1, <1>2, <1>4, <1>5
  <2> QED BY <1>1, <2>1 DEF TimersInv, TimersTypeOK
<1>8. AddingInv' /\ NumbersInv' /\ TimerInv' /\ IdInv' /\ DelayInv' /\ ListsInv'
  <2>1. \A j : IdOf(j)' = IdOf(j) /\ Delayed(j)' = Delayed(j) /\ RunsOf(j)' = RunsOf(j)
    BY <1>1 DEF IdOf, Delayed, RunsOf
  <2>2. AddingInv' /\ NumbersInv' /\ TimerInv' /\ IdInv'
    BY <1>1, <1>6, <2>1, TimersGo
  <2>3. DelayInv'
    BY <1>1, <1>6, TimersStay
  <2>4. ListsInv'
    BY <1>1 DEF TimersInv, ListsInv, Pending
  <2> QED BY <2>2, <2>3, <2>4
<1>9. PurgeInv'
  <2>1. \A j : IdOf(j)' = IdOf(j) /\ IdWorker(j)' = IdWorker(j) /\ IdNumber(j)' = IdNumber(j)
    BY <1>1 DEF IdOf, IdWorker, IdNumber
  <2>2. /\ dropped \subseteq purged /\ \A j \in purged : j \in 1 .. Len(tasks) /\ IdOf(j) # NoId
        /\ \A w \in Worker : \A n \in purgingTimers[w] : \E j \in purged : IdWorker(j) = w /\ IdNumber(j) = n
    BY Zenon DEF TimersInv, PurgeInv
  <2>3. \A j \in purged' : j \in 1 .. Len(tasks') /\ IdOf(j)' # NoId
    BY <1>1, <1>3, <2>1, <2>2
  <2>4. ASSUME NEW w \in Worker, NEW n \in purgingTimers'[w]
        PROVE  \E j \in purged' : IdWorker(j)' = w /\ IdNumber(j)' = n
    <3>1. CASE n \in purgingTimers[w]
      BY <1>1, <2>1, <2>2, <3>1
    <3>2. CASE n \notin purgingTimers[w]
      <4>1. w = IdWorker(k) /\ n = IdNumber(k)
        BY <1>1, <1>2, <1>4, <3>2
      <4> QED BY <1>1, <2>1, <4>1
    <3> QED BY <3>1, <3>2
  <2> QED BY <1>1, <2>2, <2>3, <2>4 DEF PurgeInv
<1> QED BY <1>7, <1>8, <1>9 DEF TimersInv

(* What the worker drops has the number of a purged task's id, and so it   *)
(* is that task's timer.                                                   *)
LEMMA OnNotifyInv ==
    ASSUME TimersInv, NEW w \in Worker, OnNotify(w)
    PROVE  TimersInv'
<1>1. PICK all, gone : all = TimersOf(w) /\ gone = {tm \in all : tm.id \in purgingTimers[w]}
  OBVIOUS
<1>2. /\ activeTimers' = [activeTimers EXCEPT ![w] = all \ gone]
      /\ dropped' = dropped \cup {tm.task : tm \in gone}
      /\ pendingTimers' = [pendingTimers EXCEPT ![w] = <<>>]
      /\ purgingTimers' = [purgingTimers EXCEPT ![w] = {}]
      /\ UNCHANGED <<nextThread, nextTimerId, adding, tasks, purged>>
  BY <1>1, Zenon DEF OnNotify, TimersOf, Pending
<1>3. /\ activeTimers \in [Worker -> SUBSET Timer] /\ pendingTimers \in [Worker -> Seq(Timer)]
      /\ purgingTimers \in [Worker -> SUBSET Nat]
  BY DEF TimersInv, TimersTypeOK
<1>4. /\ TimersOf(w)' = all \ gone /\ \A v \in Worker : v # w => TimersOf(v)' = TimersOf(v)
      /\ ListsInv'
  <2>1. /\ pendingTimers'[w] = <<>> /\ activeTimers'[w] = all \ gone
        /\ \A v \in Worker : v # w => pendingTimers'[v] = pendingTimers[v] /\ activeTimers'[v] = activeTimers[v]
    BY <1>2, <1>3
  <2>2. Pending(w)' = {}
    BY <2>1 DEF Pending
  <2>3. \A v \in Worker : v # w => Pending(v)' = Pending(v)
    BY <2>1 DEF Pending
  <2>4. ListsInv'
    BY <2>1, <2>2, <2>3 DEF TimersInv, ListsInv
  <2> QED BY <2>1, <2>2, <2>3, <2>4 DEF TimersOf
<1>5. all \subseteq Timer
  BY <1>1, <1>3 DEF TimersOf, Pending
<1>6. TimersTypeOK'
  <2>1. <<>> \in Seq(Timer)
    OBVIOUS
  <2>2. activeTimers' \in [Worker -> SUBSET Timer] /\ pendingTimers' \in [Worker -> Seq(Timer)]
        /\ purgingTimers' \in [Worker -> SUBSET Nat]
    BY <1>2, <1>3, <1>5, <2>1
  <2> QED BY <1>2, <2>2 DEF TimersInv, TimersTypeOK
<1>7. \A v \in Worker : TimersOf(v)' \subseteq TimersOf(v)
  BY <1>1, <1>4
<1>8. AddingInv' /\ NumbersInv' /\ TimerInv' /\ IdInv'
  <2>1. \A j : IdOf(j)' = IdOf(j) /\ Delayed(j)' = Delayed(j) /\ RunsOf(j)' = RunsOf(j)
    BY <1>2 DEF IdOf, Delayed, RunsOf
  <2> QED BY <1>2, <1>7, <2>1, TimersGo
<1>9. /\ dropped \subseteq purged /\ \A j \in purged : j \in 1 .. Len(tasks) /\ IdOf(j) # NoId
      /\ \A v \in Worker : \A n \in purgingTimers[v] : \E j \in purged : IdWorker(j) = v /\ IdNumber(j) = n
  BY Zenon DEF TimersInv, PurgeInv
<1>10. \A tm \in gone : tm.task \in purged
  <2> TAKE tm \in gone
  <2>1. tm \in TimersOf(w) /\ tm.id \in purgingTimers[w]
    BY <1>1
  <2>2. PICK j \in purged : IdWorker(j) = w /\ IdNumber(j) = tm.id
    BY <1>9, <2>1
  <2>3. j \in 1 .. Len(tasks) /\ IdOf(j) # NoId
    BY <1>9
  <2>4. \A tn \in TimersOf(IdWorker(j)) : tn.id = IdNumber(j) => tn.task = j
    BY <2>3, Zenon DEF TimersInv, IdInv
  <2> QED BY <2>1, <2>2, <2>4
<1>11. \A j : /\ IdOf(j)' = IdOf(j) /\ IdWorker(j)' = IdWorker(j) /\ IdNumber(j)' = IdNumber(j)
              /\ (Queued(j)' <=> Queued(j)) /\ RunsOf(j)' = RunsOf(j) /\ Delayed(j)' = Delayed(j)
  BY <1>2 DEF IdOf, IdWorker, IdNumber, Queued, RunsOf, Delayed
<1>12. PurgeInv'
  <2>1. dropped' \subseteq purged'
    BY <1>2, <1>9, <1>10
  <2>2. \A j \in purged' : j \in 1 .. Len(tasks') /\ IdOf(j)' # NoId
    BY <1>2, <1>9, <1>11
  <2>3. \A v \in Worker : purgingTimers'[v] \subseteq purgingTimers[v]
    BY <1>2, <1>3
  <2>4. \A v \in Worker : \A n \in purgingTimers'[v] : \E j \in purged' : IdWorker(j)' = v /\ IdNumber(j)' = n
    BY <1>2, <1>9, <1>11, <2>3
  <2> QED BY <2>1, <2>2, <2>4 DEF PurgeInv
<1>13. DelayInv'
  <2> SUFFICES ASSUME NEW j \in 1 .. Len(tasks'), Delayed(j)'
               PROVE  /\ RunsOf(j)' <= 1
                      /\ RunsOf(j)' = 0 => ~Queued(j)' \/ \E v \in Worker : \E tm \in TimersOf(v)' : tm.task = j
    BY Zenon DEF DelayInv
  <2>1. j \in 1 .. Len(tasks) /\ Delayed(j)
    BY <1>2, <1>11, Zenon
  <2>2. /\ RunsOf(j) <= 1
        /\ RunsOf(j) = 0 => ~Queued(j) \/ \E v \in Worker : \E tm \in TimersOf(v) : tm.task = j
    BY <2>1, Zenon DEF TimersInv, DelayInv
  <2>3. j \notin purged
    BY <1>9, <2>1, Zenon DEF TimersInv, IdInv
  <2>4. ASSUME NEW v \in Worker, NEW tm \in TimersOf(v), tm.task = j PROVE tm \in TimersOf(v)'
    BY <1>1, <1>4, <1>10, <2>3, <2>4
  <2>5. (\E v \in Worker : \E tm \in TimersOf(v) : tm.task = j) => \E v \in Worker : \E tm \in TimersOf(v)' : tm.task = j
    BY <2>4
  <2> QED BY <1>11, <2>2, <2>5, Zenon
<1> QED BY <1>4, <1>6, <1>8, <1>12, <1>13 DEF TimersInv

(* A delayed task's timer is the only one it has, and goes as it runs. *)
LEMMA FireInv ==
    ASSUME TimersInv, NEW w \in Worker, Fire(w)
    PROVE  TimersInv'
<1>1. PICK tm0 \in activeTimers[w] :
        /\ tasks' = [tasks EXCEPT ![tm0.task].runs = IF tasks[tm0.task].delayed THEN @ + 1 ELSE @]
        /\ activeTimers' = [activeTimers EXCEPT ![w] = IF tm0.interval = 0 THEN @ \ {tm0} ELSE @]
        /\ UNCHANGED <<nextThread, nextTimerId, pendingTimers, purgingTimers, adding, purged, dropped>>
  BY Zenon DEF Fire
<1>2. PICK k : k = tm0.task
  OBVIOUS
<1>3. /\ activeTimers \in [Worker -> SUBSET Timer] /\ tasks \in Seq(Task)
  BY DEF TimersInv, TimersTypeOK
<1>4. tm0 \in TimersOf(w)
  BY DEF TimersOf
<1>5. /\ k \in 1 .. Len(tasks) /\ Queued(k)
      /\ Delayed(k) => tm0.interval = 0 /\ RunsOf(k) = 0
      /\ \A v \in Worker : \A tn \in TimersOf(v) : tn.task = k => v = w /\ tn = tm0
  <2>1. /\ tm0.task \in 1 .. Len(tasks) /\ Queued(tm0.task)
        /\ Delayed(tm0.task) => tm0.interval = 0 /\ RunsOf(tm0.task) = 0
        /\ \A v \in Worker : \A tn \in TimersOf(v) : tm0.task = tn.task => v = w /\ tn = tm0
    BY <1>4, Zenon DEF TimersInv, TimerInv
  <2> QED BY <1>2, <2>1, Zenon
<1>6. /\ tasks' \in Seq(Task) /\ Len(tasks') = Len(tasks)
      /\ RunsOf(k)' = IF Delayed(k) THEN RunsOf(k) + 1 ELSE RunsOf(k)
      /\ \A j \in 1 .. Len(tasks) : IdOf(j)' = IdOf(j) /\ (Delayed(j)' <=> Delayed(j)) /\ (j # k => RunsOf(j)' = RunsOf(j))
  <2>1. PICK s, u, v : s = tasks /\ u = tasks' /\ v = IF Delayed(k) THEN RunsOf(k) + 1 ELSE RunsOf(k)
    OBVIOUS
  <2>2. RunsOf(k) \in Nat
    <3>1. tasks[k] \in Task
      BY <1>3, <1>5
    <3> QED BY <3>1 DEF RunsOf, Task
  <2>3. v \in Nat
    <3>1. RunsOf(k) + 1 \in Nat
      BY <2>2
    <3> QED BY <2>1, <2>2, <3>1, Zenon
  <2>4. u = [s EXCEPT ![k].runs = v]
    BY <1>1, <1>2, <2>1, Zenon DEF Delayed, RunsOf
  <2>5. s \in Seq(Task) /\ k \in 1 .. Len(s)
    BY <1>3, <1>5, <2>1, Zenon
  <2>6. u \in Seq(Task) /\ Len(u) = Len(s)
    BY ONLY <2>3, <2>4, <2>5, TaskRuns
  <2>7. /\ u[k].runs = v /\ u[k].delayed = s[k].delayed /\ u[k].id = s[k].id
        /\ \A j \in 1 .. Len(s) : j # k => u[j] = s[j]
    BY ONLY <2>3, <2>4, <2>5, TaskRuns
  <2>8. \A j \in 1 .. Len(s) : u[j].id = s[j].id /\ u[j].delayed = s[j].delayed /\ (j # k => u[j].runs = s[j].runs)
    BY <2>7, Zenon
  <2> QED BY <2>1, <2>6, <2>7, <2>8, Zenon DEF IdOf, RunsOf, Delayed
<1>7. \A v \in Worker : TimersOf(v)' \subseteq TimersOf(v)
  BY <1>1, <1>3 DEF TimersOf, Pending
<1>8. Delayed(k) => \A v \in Worker : \A tm \in TimersOf(v)' : tm.task # k
  <2> SUFFICES ASSUME Delayed(k), NEW v \in Worker, NEW tm \in TimersOf(v)', tm.task = k PROVE FALSE
    OBVIOUS
  <2>1. v = w /\ tm = tm0
    BY <1>5, <1>7
  <2>2. activeTimers'[w] = activeTimers[w] \ {tm0}
    BY <1>1, <1>3, <1>5
  <2>3. tm0 \in Pending(w)
    BY <1>1, <2>1, <2>2 DEF TimersOf, Pending
  <2> QED BY <2>3 DEF TimersInv, ListsInv
<1>9. \A j \in 1 .. Len(tasks) : IdWorker(j)' = IdWorker(j) /\ IdNumber(j)' = IdNumber(j)
  BY <1>6 DEF IdWorker, IdNumber
<1>10. TimersTypeOK'
  <2>1. activeTimers' \in [Worker -> SUBSET Timer]
    BY <1>1, <1>3
  <2> QED BY <1>1, <1>6, <2>1 DEF TimersInv, TimersTypeOK
<1>11. AddingInv' /\ NumbersInv' /\ TimerInv' /\ IdInv'
  <2>1. \A j \in 1 .. Len(tasks) : \/ RunsOf(j)' = RunsOf(j)
                                   \/ Queued(j) /\ \A v \in Worker : \A tm \in TimersOf(v)' : tm.task # j
    BY <1>5, <1>6, <1>8, Zenon
  <2> QED BY <1>1, <1>6, <1>7, <2>1, TimersGo
<1>12. ListsInv'
  <2>1. \A v \in Worker : Pending(v)' = Pending(v) /\ activeTimers'[v] \subseteq activeTimers[v]
    BY <1>1, <1>3 DEF Pending
  <2> QED BY <2>1 DEF TimersInv, ListsInv
<1>13. PurgeInv'
  <2>1. /\ dropped \subseteq purged /\ \A j \in purged : j \in 1 .. Len(tasks) /\ IdOf(j) # NoId
        /\ \A v \in Worker : \A n \in purgingTimers[v] : \E j \in purged : IdWorker(j) = v /\ IdNumber(j) = n
    BY Zenon DEF TimersInv, PurgeInv
  <2>2. \A j \in purged' : j \in 1 .. Len(tasks') /\ IdOf(j)' # NoId
    BY <1>1, <1>6, <2>1
  <2>3. \A v \in Worker : \A n \in purgingTimers'[v] : \E j \in purged' : IdWorker(j)' = v /\ IdNumber(j)' = n
    BY <1>1, <1>9, <2>1
  <2> QED BY <1>1, <2>1, <2>2, <2>3 DEF PurgeInv
<1>14. DelayInv'
  <2> SUFFICES ASSUME NEW j \in 1 .. Len(tasks'), Delayed(j)'
               PROVE  /\ RunsOf(j)' <= 1
                      /\ RunsOf(j)' = 0 => ~Queued(j)' \/ \E v \in Worker : \E tm \in TimersOf(v)' : tm.task = j
    BY Zenon DEF DelayInv
  <2>1. j \in 1 .. Len(tasks) /\ Delayed(j)
    BY <1>6, Zenon
  <2>2. CASE j = k
    <3>1. RunsOf(j)' = RunsOf(j) + 1 /\ RunsOf(j) = 0
      BY <1>5, <1>6, <2>1, <2>2, Zenon
    <3> QED BY <3>1
  <2>3. CASE j # k
    <3>1. /\ RunsOf(j) <= 1 /\ RunsOf(j)' = RunsOf(j)
          /\ RunsOf(j) = 0 => ~Queued(j) \/ \E v \in Worker : \E tm \in TimersOf(v) : tm.task = j
      BY <1>6, <2>1, <2>3, Zenon DEF TimersInv, DelayInv
    <3>2. Queued(j)' <=> Queued(j)
      BY <1>1 DEF Queued
    <3>3. ASSUME NEW v \in Worker, NEW tm \in TimersOf(v), tm.task = j PROVE tm \in TimersOf(v)'
      BY <1>1, <1>2, <1>3, <2>3, <3>3 DEF TimersOf, Pending
    <3>4. (\E v \in Worker : \E tm \in TimersOf(v) : tm.task = j) => \E v \in Worker : \E tm \in TimersOf(v)' : tm.task = j
      BY <3>3
    <3> QED BY <3>1, <3>2, <3>4, Zenon
  <2> QED BY <2>2, <2>3
<1> QED BY <1>10, <1>11, <1>12, <1>13, <1>14 DEF TimersInv

LEMMA TimersNextInv == TimersInv /\ [TimersNext]_timerVars => TimersInv'
<1> SUFFICES ASSUME TimersInv, [TimersNext]_timerVars PROVE TimersInv'
  OBVIOUS
<1>1. ASSUME NEW c \in Client, AddDelayTask(c) PROVE TimersInv'
  <2>1. TakeWorker(c, TRUE, 0) /\ TRUE \in BOOLEAN /\ 0 \in {0, 1} /\ (TRUE => 0 = 0)
    BY <1>1, Zenon DEF AddDelayTask
  <2> QED BY <2>1, TakeWorkerInv, Zenon
<1>2. ASSUME NEW c \in Client, NEW interval \in {0, 1}, TakeWorker(c, FALSE, interval) PROVE TimersInv'
  <2>1. FALSE \in BOOLEAN /\ (FALSE => interval = 0)
    OBVIOUS
  <2> QED BY <1>2, <2>1, TakeWorkerInv, Zenon
<1>3. ASSUME NEW c \in Client, AddRepeatTask(c) PROVE TimersInv'
  <2>1. TakeWorker(c, FALSE, 1) /\ 1 \in {0, 1}
    BY <1>3, Zenon DEF AddRepeatTask
  <2> QED BY <1>2, <2>1, Zenon
<1>4. ASSUME NEW c \in Client, NEW interval \in {0, 1}, AddTimerTask(c, interval) PROVE TimersInv'
  BY <1>2, <1>4, Zenon DEF AddTimerTask
<1>5. CASE UNCHANGED timerVars
  <2>1. UNCHANGED <<nextThread, nextTimerId, pendingTimers, purgingTimers, activeTimers, adding, tasks, purged, dropped>>
    BY <1>5 DEF timerVars
  <2>2. \A j : IdOf(j)' = IdOf(j) /\ Delayed(j)' = Delayed(j) /\ RunsOf(j)' = RunsOf(j) /\ TimersOf(j)' = TimersOf(j)
    BY <2>1 DEF IdOf, Delayed, RunsOf, TimersOf, Pending
  <2>3. AddingInv' /\ NumbersInv' /\ TimerInv' /\ IdInv'
    BY <2>1, <2>2, TimersGo
  <2>4. DelayInv'
    BY <2>1, <2>2, TimersStay
  <2>5. TimersTypeOK' /\ ListsInv' /\ PurgeInv'
    BY <2>1 DEF TimersInv, TimersTypeOK, ListsInv, Pending, PurgeInv, IdOf, IdWorker, IdNumber
  <2> QED BY <2>3, <2>4, <2>5 DEF TimersInv
<1>6. TimersNext \/ UNCHANGED timerVars
  OBVIOUS
<1> QED BY <1>1, <1>3, <1>4, <1>5, <1>6, QueueTimerInv, PurgeTimerTaskInv, OnNotifyInv, FireInv, Zenon DEF TimersNext

LEMMA TimersAlways == TimersSpec => []TimersInv
<1>1. TimersInit => TimersInv
  BY TimersInitInv
<1>2. TimersInv /\ [TimersNext]_timerVars => TimersInv'
  BY TimersNextInv
<1> QED BY <1>1, <1>2, PTL DEF TimersSpec

(* A purge removes the timer whose id the client got and no other, for any *)
(* number of workers, of clients and of bits in an id, as long as a worker *)
(* is given no more timers than it has ids.                                *)
THEOREM Purges == TimersSpec => []PurgesItsOwn
<1>1. TimersInv => PurgesItsOwn
  BY DEF TimersInv, PurgeInv, PurgesItsOwn
<1> QED BY <1>1, TimersAlways, PTL

(* A delayed task runs once at most, and until it ran it has a timer. *)
THEOREM DelayedTasks == TimersSpec => []DelayedOnce
<1>1. TimersInv => DelayedOnce
  <2> SUFFICES ASSUME TimersInv, NEW k \in DOMAIN tasks, tasks[k].delayed
               PROVE  /\ tasks[k].runs <= 1
                      /\ tasks[k].runs = 0 =>
                             \/ \E c \in Client : adding[c].task = k
                             \/ \E w \in Worker : \E timer \in activeTimers[w] : timer.task = k
                             \/ \E w \in Worker : \E i \in DOMAIN pendingTimers[w] : pendingTimers[w][i].task = k
    BY Zenon DEF DelayedOnce
  <2>1. tasks \in Seq(Task)
    BY DEF TimersInv, TimersTypeOK
  <2>2. k \in 1 .. Len(tasks)
    BY <2>1
  <2>3. /\ RunsOf(k) <= 1
        /\ RunsOf(k) = 0 => ~Queued(k) \/ \E w \in Worker : \E tm \in TimersOf(w) : tm.task = k
    BY <2>2, Zenon DEF TimersInv, DelayInv, Delayed
  <2>4. ~Queued(k) => \E c \in Client : adding[c].task = k
    BY Zenon DEF Queued
  <2>5. ASSUME NEW w \in Worker, NEW tm \in TimersOf(w), tm.task = k
        PROVE  \/ \E timer \in activeTimers[w] : timer.task = k
               \/ \E i \in DOMAIN pendingTimers[w] : pendingTimers[w][i].task = k
    BY <2>5, Zenon DEF TimersOf, Pending
  <2> QED BY <2>3, <2>4, <2>5, Zenon DEF RunsOf
<1> QED BY <1>1, TimersAlways, PTL

-----------------------------------------------------------------------------
(* Memory trackers.  Sums over finite sets come first: Sum folds a choice  *)
(* of members, and what is proved of it is how it changes with a summand.  *)
(* Then the lists of operations of a call; the books, which state that     *)
(* every byte is counted by each layer or owed by an operator in a call;   *)
(* the stages of a call, with what is owed in each; and what every         *)
(* operation of a list makes of a stage.                                   *)

(* A set of naturals has a least member: induction, without a predicate.   *)
LEMMA LeastNat ==
    ASSUME NEW T, T \subseteq Nat, T # {}
    PROVE  \E x \in T : \A y \in T : x <= y
<1> DEFINE R == {ss \in Nat \X Nat : ss[1] < ss[2]}
<1>1. IsWellFoundedOn(R, Nat)
  BY NatLessThanWellFounded, Zenon DEF OpToRel
<1>2. \A x, y \in Nat : y < x => <<y, x>> \in R
  OBVIOUS
<1> HIDE DEF R
<1>3. PICK x \in T : \A y \in T : ~ (<<y, x>> \in R)
  BY <1>1, WFMin, Zenon
<1>4. \A y \in T : ~(y < x)
  BY <1>2, <1>3, Zenon
<1> QED BY <1>3, <1>4

-----------------------------------------------------------------------------
(* Sums over sets.                                                         *)
Picked(s) == CHOOSE x \in s : TRUE
Less(s) == s \ {Picked(s)}

(* r has the sums of f over the subsets of S. *)
SumsUp(r, f, S) ==
    r = [s \in SUBSET S |-> IF s = {} THEN 0 ELSE f[Picked(s)] + r[Less(s)]]
Sums(f, S) == CHOOSE r : SumsUp(r, f, S)

LEMMA SumIs ==
    ASSUME NEW f, NEW S
    PROVE  Sum(f, S) = Sums(f, S)[S]
  BY DEF Sum, MapThenSumSet, MapThenFoldSet, Sums, SumsUp, Picked, Less

LEMMA Picks ==
    ASSUME NEW S, IsFiniteSet(S), NEW s \in SUBSET S, s # {}
    PROVE  /\ Picked(s) \in s /\ Less(s) \in SUBSET S /\ Less(s) # s
           /\ IsFiniteSet(s) /\ Cardinality(s) \in Nat
           /\ Cardinality(Less(s)) \in Nat /\ Cardinality(Less(s)) < Cardinality(s)
<1>1. Picked(s) \in s
  BY Zenon DEF Picked
<1>2. IsFiniteSet(s) /\ Cardinality(s) \in Nat
  BY FS_Subset, FS_CardinalityType
<1>3. IsFiniteSet(Less(s)) /\ Cardinality(Less(s)) = Cardinality(s) - 1
  BY <1>1, <1>2, FS_RemoveElement DEF Less
<1>4. Cardinality(Less(s)) \in Nat
  BY <1>3, FS_CardinalityType
<1> QED BY <1>1, <1>2, <1>3, <1>4 DEF Less

(* What holds of the empty set, and of s when it holds of s without the    *)
(* element picked from it, holds of all subsets.                           *)
LEMMA SubsetInduction ==
    ASSUME NEW S, IsFiniteSet(S), NEW T, {} \in T,
           \A s \in SUBSET S : s # {} /\ Less(s) \in T => s \in T
    PROVE  SUBSET S \subseteq T
<1> SUFFICES ASSUME NEW s0 \in SUBSET S, s0 \notin T PROVE FALSE
  OBVIOUS
<1> DEFINE N == {Cardinality(s) : s \in (SUBSET S) \ T}
<1>1. ASSUME NEW s \in (SUBSET S) \ T
      PROVE  /\ Cardinality(s) \in Nat /\ Cardinality(Less(s)) < Cardinality(s)
             /\ Less(s) \in (SUBSET S) \ T
  BY <1>1, Picks
<1>2. N \subseteq Nat /\ N # {}
  BY <1>1
<1>3. PICK n \in N : \A m \in N : n <= m
  BY <1>2, LeastNat, Zenon
<1>4. PICK s \in (SUBSET S) \ T : n = Cardinality(s)
  OBVIOUS
<1>5. Less(s) \in (SUBSET S) \ T /\ Cardinality(Less(s)) < Cardinality(s) /\ Cardinality(s) \in Nat
  BY <1>1
<1>6. Cardinality(Less(s)) \in N /\ Cardinality(Less(s)) \in Nat
  BY <1>1, <1>5
<1>7. n <= Cardinality(Less(s))
  BY <1>3, <1>6, Zenon
<1> HIDE DEF N
<1> QED BY <1>4, <1>5, <1>6, <1>7

(* g has the sums of f over the subsets of at most n elements. *)
SumsTo(g, f, S, n) ==
    /\ g \in [SUBSET S -> Int]
    /\ \A s \in SUBSET S : Cardinality(s) <= n =>
          g[s] = IF s = {} THEN 0 ELSE f[Picked(s)] + g[Less(s)]

LEMMA Induction ==
    ASSUME NEW T, 0 \in T, \A n \in Nat : n \in T => n + 1 \in T
    PROVE  Nat \subseteq T
<1> SUFFICES ASSUME Nat \ T # {} PROVE FALSE
  OBVIOUS
<1>1. PICK x \in Nat \ T : \A y \in Nat \ T : x <= y
  BY LeastNat
<1>2. x # 0 /\ x - 1 \in Nat /\ x - 1 \in T /\ x = (x - 1) + 1
  BY <1>1
<1> QED BY <1>1, <1>2

LEMMA SumsExist ==
    ASSUME NEW S, IsFiniteSet(S), NEW f, \A t \in S : f[t] \in Int, NEW n \in Nat
    PROVE  \E g : SumsTo(g, f, S, n)
<1> DEFINE T == {k \in Nat : \E g : SumsTo(g, f, S, k)}
<1>1. 0 \in T
  <2> DEFINE g == [s \in SUBSET S |-> 0]
  <2>1. ASSUME NEW s \in SUBSET S, Cardinality(s) <= 0 PROVE s = {}
    <3>1. ASSUME s # {} PROVE FALSE
      <4>1. /\ Cardinality(s) \in Nat /\ Cardinality(Less(s)) \in Nat
            /\ Cardinality(Less(s)) < Cardinality(s)
        BY <3>1, Picks
      <4> QED BY <2>1, <4>1
    <3> QED BY <3>1
  <2>2. SumsTo(g, f, S, 0)
    BY <2>1 DEF SumsTo
  <2> QED BY <2>2
<1>2. ASSUME NEW k \in Nat, k \in T PROVE k + 1 \in T
  <2>1. PICK g : SumsTo(g, f, S, k)
    BY <1>2
  <2> DEFINE h == [s \in SUBSET S |->
                       IF s # {} /\ Cardinality(s) = k + 1 THEN f[Picked(s)] + g[Less(s)] ELSE g[s]]
  <2>2. ASSUME NEW s \in SUBSET S, s # {}
        PROVE  f[Picked(s)] \in Int /\ g[Less(s)] \in Int /\ f[Picked(s)] + g[Less(s)] \in Int
    <3>1. f[Picked(s)] \in Int /\ g[Less(s)] \in Int
      BY <2>1, <2>2, Picks DEF SumsTo
    <3> QED BY <3>1
  <2>3. h \in [SUBSET S -> Int]
    BY <2>1, <2>2 DEF SumsTo
  <2>4. ASSUME NEW s \in SUBSET S, Cardinality(s) <= k + 1
        PROVE  h[s] = IF s = {} THEN 0 ELSE f[Picked(s)] + h[Less(s)]
    <3>1. CASE s = {}
      <4>1. Cardinality(s) <= k
        BY <3>1, FS_EmptySet
      <4> QED BY <2>1, <3>1, <4>1 DEF SumsTo
    <3>2. CASE s # {}
      <4>1. /\ Less(s) \in SUBSET S /\ Cardinality(s) \in Nat /\ Cardinality(Less(s)) \in Nat
            /\ Cardinality(Less(s)) < Cardinality(s)
        BY <3>2, Picks
      <4>2. Cardinality(Less(s)) # k + 1
        BY <2>4, <4>1
      <4>3. h[Less(s)] = g[Less(s)]
        BY <4>1, <4>2
      <4>4. CASE Cardinality(s) = k + 1
        BY <3>2, <4>3, <4>4
      <4>5. CASE Cardinality(s) # k + 1
        <5>1. Cardinality(s) <= k
          BY <2>4, <4>1, <4>5
        <5>2. g[s] = f[Picked(s)] + g[Less(s)]
          BY <2>1, <3>2, <5>1 DEF SumsTo
        <5> QED BY <3>2, <4>3, <4>5, <5>2
      <4> QED BY <4>4, <4>5
    <3> QED BY <3>1, <3>2
  <2> HIDE DEF h
  <2>5. SumsTo(h, f, S, k + 1)
    BY <2>3, <2>4 DEF SumsTo
  <2> QED BY <2>5
<1> HIDE DEF T
<1>3. n \in T
  BY <1>1, <1>2, Induction
<1> QED BY <1>3 DEF T

(* The sums over a finite set are what their definition says. *)
LEMMA SumsAre ==
    ASSUME NEW S, IsFiniteSet(S), NEW f, \A t \in S : f[t] \in Int
    PROVE  /\ Sums(f, S) \in [SUBSET S -> Int] /\ Sums(f, S)[{}] = 0
           /\ \A s \in SUBSET S : s # {} => Sums(f, S)[s] = f[Picked(s)] + Sums(f, S)[Less(s)]
<1>1. Cardinality(S) \in Nat
  BY FS_CardinalityType
<1>2. PICK g : SumsTo(g, f, S, Cardinality(S))
  BY <1>1, SumsExist
<1>3. \A s \in SUBSET S : Cardinality(s) <= Cardinality(S)
  BY FS_Subset
<1>4. SumsUp(g, f, S)
  BY <1>2, <1>3 DEF SumsTo, SumsUp
<1>5. SumsUp(Sums(f, S), f, S)
  BY <1>4, Zenon DEF Sums
<1> DEFINE r == Sums(f, S)
           T == {s \in SUBSET S : r[s] \in Int}
<1>6. \A s \in SUBSET S : r[s] = IF s = {} THEN 0 ELSE f[Picked(s)] + r[Less(s)]
  BY <1>5 DEF SumsUp
<1>7. r[{}] = 0 /\ \A s \in SUBSET S : s # {} => r[s] = f[Picked(s)] + r[Less(s)]
  BY <1>6
<1> HIDE DEF r
<1>8. {} \in T
  BY <1>7
<1>9. ASSUME NEW s \in SUBSET S, s # {}, Less(s) \in T PROVE s \in T
  <2>1. f[Picked(s)] \in Int
    BY <1>9, Picks
  <2> QED BY <1>7, <1>9, <2>1
<1> HIDE DEF T
<1>10. SUBSET S \subseteq T
  BY <1>8, <1>9, SubsetInduction
<1>11. \A s \in SUBSET S : r[s] \in Int
  BY <1>10 DEF T
<1>12. r = [s \in SUBSET S |-> r[s]]
  BY <1>5 DEF SumsUp, r
<1> QED BY <1>7, <1>11, <1>12 DEF r

LEMMA SumType ==
    ASSUME NEW S, IsFiniteSet(S), NEW f, \A t \in S : f[t] \in Int
    PROVE  Sum(f, S) \in Int
<1>1. Sums(f, S) \in [SUBSET S -> Int] /\ S \in SUBSET S
  BY SumsAre
<1> QED BY <1>1, SumIs

(* A change of one summand changes the sum by as much. *)
LEMMA SumChange ==
    ASSUME NEW S, IsFiniteSet(S), NEW f, \A t \in S : f[t] \in Int,
           NEW g, NEW y, NEW d \in Int,
           \A t \in S : g[t] = IF t = y THEN f[t] + d ELSE f[t]
    PROVE  Sum(g, S) = IF y \in S THEN Sum(f, S) + d ELSE Sum(f, S)
<1>0. \A t \in S : g[t] \in Int
  OBVIOUS
<1>a. ASSUME NEW h, \A t \in S : h[t] \in Int
      PROVE  \E c : /\ c = Sums(h, S) /\ c \in [SUBSET S -> Int] /\ c[{}] = 0
                    /\ \A s \in SUBSET S : s # {} => c[s] = h[Picked(s)] + c[Less(s)]
  <2>1. /\ Sums(h, S) \in [SUBSET S -> Int] /\ Sums(h, S)[{}] = 0
        /\ \A s \in SUBSET S : s # {} => Sums(h, S)[s] = h[Picked(s)] + Sums(h, S)[Less(s)]
    BY ONLY IsFiniteSet(S), <1>a, SumsAre
  <2> QED BY <2>1, Zenon
<1>2. PICK a : /\ a = Sums(f, S) /\ a \in [SUBSET S -> Int] /\ a[{}] = 0
               /\ \A s \in SUBSET S : s # {} => a[s] = f[Picked(s)] + a[Less(s)]
  BY <1>a
<1>3. PICK b : /\ b = Sums(g, S) /\ b \in [SUBSET S -> Int] /\ b[{}] = 0
               /\ \A s \in SUBSET S : s # {} => b[s] = g[Picked(s)] + b[Less(s)]
  BY <1>0, <1>a
<1>1. a = Sums(f, S) /\ b = Sums(g, S)
  BY <1>2, <1>3
<1> DEFINE T == {s \in SUBSET S : b[s] = IF y \in s THEN a[s] + d ELSE a[s]}
<1>4. {} \in T
  BY <1>2, <1>3
<1>5. ASSUME NEW s \in SUBSET S, s # {}, Less(s) \in T PROVE s \in T
  <2>1. PICK p : p = Picked(s) /\ p \in s
    BY <1>5, Picks
  <2>2. /\ a[s] = f[p] + a[Less(s)] /\ b[s] = g[p] + b[Less(s)]
        /\ a[Less(s)] \in Int /\ f[p] \in Int /\ g[p] = IF p = y THEN f[p] + d ELSE f[p]
    BY <1>2, <1>3, <1>5, <2>1, Picks
  <2>3. b[Less(s)] = IF y \in Less(s) THEN a[Less(s)] + d ELSE a[Less(s)]
    BY <1>5
  <2>4. y \in Less(s) <=> y \in s /\ y # p
    BY <2>1 DEF Less
  <2>5. b[s] = IF y \in s THEN a[s] + d ELSE a[s]
    BY <2>1, <2>2, <2>3, <2>4
  <2> QED BY <2>5
<1> HIDE DEF T
<1>6. S \in T
  BY <1>4, <1>5, SubsetInduction
<1>7. b[S] = IF y \in S THEN a[S] + d ELSE a[S]
  BY <1>6 DEF T
<1>8. Sum(f, S) = a[S] /\ Sum(g, S) = b[S]
  BY <1>1, SumIs
<1> QED BY <1>7, <1>8

LEMMA SumZero ==
    ASSUME NEW S, IsFiniteSet(S), NEW f, \A t \in S : f[t] = 0
    PROVE  Sum(f, S) = 0
<1>0. \A t \in S : f[t] \in Int
  OBVIOUS
<1>1. PICK a : a = Sums(f, S)
  OBVIOUS
<1>2. /\ a \in [SUBSET S -> Int] /\ a[{}] = 0
      /\ \A s \in SUBSET S : s # {} => a[s] = f[Picked(s)] + a[Less(s)]
  BY <1>0, <1>1, SumsAre
<1> DEFINE T == {s \in SUBSET S : a[s] = 0}
<1>3. {} \in T
  BY <1>2
<1>4. ASSUME NEW s \in SUBSET S, s # {}, Less(s) \in T PROVE s \in T
  <2>1. f[Picked(s)] = 0
    BY <1>4, Picks
  <2> QED BY <1>2, <1>4, <2>1
<1> HIDE DEF T
<1>5. S \in T
  BY <1>3, <1>4, SubsetInduction
<1> QED BY <1>1, <1>5, SumIs DEF T

-----------------------------------------------------------------------------
(* The lists of operations.                                                *)
OpNames == {"alloc", "throw", "reserve", "give", "add", "free", "got", "freed", "gone", "swap", "kept"}
Entry == [op : OpNames, on : Trackers, n : Int \cup (Int \X Int)]
Lists == Seq(Entry)
Cons(e, s) == <<e>> \o s

LEMMA DoIs ==
    ASSUME NEW op, NEW t, NEW n
    PROVE  /\ Do(op, t, n).op = op /\ Do(op, t, n).on = t /\ Do(op, t, n).n = n
           /\ op \in OpNames /\ t \in Trackers /\ n \in Int \cup (Int \X Int) => Do(op, t, n) \in Entry
  BY DEF Do, Entry

LEMMA ConsIs ==
    ASSUME NEW X, NEW e \in X, NEW s \in Seq(X)
    PROVE  /\ Cons(e, s) \in Seq(X) /\ Cons(e, s) # <<>>
           /\ Head(Cons(e, s)) = e /\ Tail(Cons(e, s)) = s
           /\ Len(Cons(e, s)) = Len(s) + 1 /\ Cons(e, s)[1] = e
           /\ \A i \in 1 .. Len(s) : Cons(e, s)[i + 1] = s[i]
<1>1. <<e>> \in Seq(X) /\ Len(<<e>>) = 1 /\ <<e>>[1] = e
  OBVIOUS
<1>2. PICK c : c = <<e>> \o s
  OBVIOUS
<1>3. c \in Seq(X) /\ Len(c) = Len(s) + 1 /\ c[1] = e /\ \A i \in 1 .. Len(s) : c[i + 1] = s[i]
  BY <1>1, <1>2
<1>4. c # <<>> /\ Head(c) = e
  BY <1>3
<1>5. Tail(c) \in Seq(X) /\ Len(Tail(c)) = Len(s) /\ \A i \in 1 .. Len(s) : Tail(c)[i] = c[i + 1]
  BY <1>3, <1>4
<1>6. Tail(c) = s
  BY <1>3, <1>5
<1> QED BY <1>2, <1>3, <1>4, <1>6 DEF Cons

LEMMA JoinIs ==
    ASSUME NEW X, NEW s \in Seq(X), NEW t \in Seq(X)
    PROVE  /\ s \o t \in Seq(X) /\ Len(s \o t) = Len(s) + Len(t) /\ Len(s) \in Nat /\ Len(t) \in Nat
           /\ \A i \in 1 .. Len(s) + Len(t) :
                 (s \o t)[i] = IF i <= Len(s) THEN s[i] ELSE t[i - Len(s)]
  OBVIOUS

LEMMA SameLists ==
    ASSUME NEW X, NEW s \in Seq(X), NEW t \in Seq(X), Len(s) = Len(t), \A i \in 1 .. Len(s) : s[i] = t[i]
    PROVE  s = t
  OBVIOUS

LEMMA JoinsAssociate ==
    ASSUME NEW X, NEW u \in Seq(X), NEW v \in Seq(X), NEW w \in Seq(X)
    PROVE  (u \o v) \o w = u \o (v \o w)
<1>a. PICK uv, vw, l, r : uv = u \o v /\ vw = v \o w /\ l = uv \o w /\ r = u \o vw
  OBVIOUS
<1>1. /\ uv \in Seq(X) /\ Len(uv) = Len(u) + Len(v) /\ Len(u) \in Nat /\ Len(v) \in Nat
      /\ \A i \in 1 .. Len(u) + Len(v) : uv[i] = IF i <= Len(u) THEN u[i] ELSE v[i - Len(u)]
  BY <1>a, JoinIs
<1>2. /\ vw \in Seq(X) /\ Len(vw) = Len(v) + Len(w) /\ Len(w) \in Nat
      /\ \A i \in 1 .. Len(v) + Len(w) : vw[i] = IF i <= Len(v) THEN v[i] ELSE w[i - Len(v)]
  BY <1>a, JoinIs
<1>3. /\ l \in Seq(X) /\ Len(l) = Len(uv) + Len(w)
      /\ \A i \in 1 .. Len(uv) + Len(w) : l[i] = IF i <= Len(uv) THEN uv[i] ELSE w[i - Len(uv)]
  BY <1>1, <1>a, JoinIs
<1>4. /\ r \in Seq(X) /\ Len(r) = Len(u) + Len(vw)
      /\ \A i \in 1 .. Len(u) + Len(vw) : r[i] = IF i <= Len(u) THEN u[i] ELSE vw[i - Len(u)]
  BY <1>2, <1>a, JoinIs
<1>5. Len(l) = Len(r)
  BY <1>1, <1>2, <1>3, <1>4
<1>6. ASSUME NEW i \in 1 .. Len(l) PROVE l[i] = r[i]
  <2>1. PICK a, b, c \in Nat : a = Len(u) /\ b = Len(v) /\ c = Len(w)
    BY <1>1, <1>2
  <2>2. i \in 1 .. a + b + c
    BY <1>1, <1>3, <2>1
  <2>3. CASE i <= a
    <3>1. i \in 1 .. Len(u) + Len(v) /\ i \in 1 .. Len(uv) + Len(w) /\ i <= Len(uv) /\ i <= Len(u)
          /\ i \in 1 .. Len(u) + Len(vw)
      BY <1>1, <1>2, <2>1, <2>2, <2>3
    <3>2. l[i] = uv[i] /\ uv[i] = u[i]
      BY <1>1, <1>3, <3>1
    <3>3. r[i] = u[i]
      BY <1>4, <3>1
    <3> QED BY <3>2, <3>3
  <2>4. CASE i > a /\ i <= a + b
    <3>0. i \in 1 .. Len(u) + Len(v) /\ i \in 1 .. Len(uv) + Len(w) /\ i <= Len(uv) /\ ~ (i <= Len(u))
          /\ i \in 1 .. Len(u) + Len(vw) /\ i - a \in 1 .. b + c /\ i - a <= b
      BY <1>1, <1>2, <2>1, <2>2, <2>4
    <3>1. l[i] = uv[i] /\ uv[i] = v[i - a]
      BY <1>1, <1>3, <2>1, <3>0
    <3>2. r[i] = vw[i - a] /\ i - a \in 1 .. b + c /\ i - a <= b
      BY <1>4, <2>1, <3>0
    <3>3. vw[i - a] = v[i - a]
      BY <1>2, <2>1, <3>2
    <3> QED BY <3>1, <3>2, <3>3
  <2>5. CASE i > a + b
    <3>1. l[i] = w[i - (a + b)]
      BY <1>1, <1>2, <1>3, <1>4, <2>1, <2>2, <2>5
    <3>2. r[i] = vw[i - a] /\ i - a \in 1 .. b + c /\ ~ (i - a <= b) /\ (i - a) - b = i - (a + b)
      BY <1>1, <1>2, <1>3, <1>4, <2>1, <2>2, <2>5
    <3>3. vw[i - a] = w[(i - a) - b]
      BY <1>2, <2>1, <3>2
    <3> QED BY <3>1, <3>2, <3>3
  <2> QED BY <2>1, <2>2, <2>3, <2>4, <2>5
<1>7. l = r
  BY <1>3, <1>4, <1>5, <1>6, SameLists
<1> QED BY <1>7, <1>a

LEMMA Listed ==
    ASSUME NEW X, NEW a \in X, NEW b \in X, NEW s \in Seq(X)
    PROVE  /\ <<>> \in Seq(X) /\ <<>> \o s = s
           /\ <<a>> = Cons(a, <<>>) /\ <<a>> \o s = Cons(a, s) /\ <<a, b>> = Cons(a, Cons(b, <<>>))
           /\ <<a, b>> \o s = Cons(a, Cons(b, s))
<1>1. <<>> \in Seq(X) /\ <<>> \o s = s /\ \A x \in X : <<x>> \in Seq(X) /\ <<x>> \o <<>> = <<x>>
  OBVIOUS
<1>2. Cons(a, <<>>) = <<a>> /\ Cons(b, <<>>) = <<b>> /\ Cons(a, s) = <<a>> \o s
  BY <1>1 DEF Cons
<1>3. <<a, b>> = <<a>> \o <<b>>
  <2>1. <<a>> \in Seq(X) /\ <<b>> \in Seq(X) /\ Len(<<a>>) = 1 /\ Len(<<b>>) = 1 /\ <<a>>[1] = a /\ <<b>>[1] = b
    OBVIOUS
  <2>2. PICK u : u = <<a>> \o <<b>>
    OBVIOUS
  <2>3. u \in Seq(X) /\ Len(u) = 2 /\ u[1] = a /\ u[2] = b
    BY <2>1, <2>2, JoinIs
  <2>4. PICK v : v = <<a, b>> /\ v \in Seq(X) /\ Len(v) = 2 /\ v[1] = a /\ v[2] = b
    <3>1. <<a, b>> \in Seq(X) /\ Len(<<a, b>>) = 2 /\ <<a, b>>[1] = a /\ <<a, b>>[2] = b
      OBVIOUS
    <3> QED BY <3>1
  <2>5. u = v
    BY <2>3, <2>4, SameLists
  <2> QED BY <2>2, <2>4, <2>5
<1>4. (<<a>> \o <<b>>) \o s = <<a>> \o (<<b>> \o s)
  BY <1>1, JoinsAssociate
<1> QED BY <1>1, <1>2, <1>3, <1>4 DEF Cons

LEMMA ConsJoins ==
    ASSUME NEW X, NEW a \in X, NEW s \in Seq(X), NEW t \in Seq(X)
    PROVE  Cons(a, s) \o t = Cons(a, s \o t) /\ s \o t \in Seq(X)
<1>1. <<a>> \in Seq(X)
  OBVIOUS
<1> QED BY <1>1, JoinsAssociate, JoinIs DEF Cons

(* Tuples of the gives that a release makes. *)
Repeat(e, k) == [i \in 1 .. k |-> e]

LEMMA RepeatIs ==
    ASSUME NEW X, NEW e \in X, NEW k \in Nat
    PROVE  Repeat(e, k) \in Seq(X) /\ Repeat(e, 0) = <<>> /\ Repeat(e, k + 1) = Cons(e, Repeat(e, k))
<1>1. ASSUME NEW j \in Nat
      PROVE  Repeat(e, j) \in Seq(X) /\ Len(Repeat(e, j)) = j /\ \A i \in 1 .. j : Repeat(e, j)[i] = e
  BY DEF Repeat
<1>2. Repeat(e, 0) = <<>>
  BY <1>1
<1>3. PICK r : r = Repeat(e, k) /\ r \in Seq(X) /\ Len(r) = k /\ \A i \in 1 .. k : r[i] = e
  BY <1>1
<1>4. <<e>> \in Seq(X) /\ Len(<<e>>) = 1 /\ <<e>>[1] = e
  OBVIOUS
<1>5. /\ <<e>> \o r \in Seq(X) /\ Len(<<e>> \o r) = k + 1
      /\ \A i \in 1 .. k + 1 : (<<e>> \o r)[i] = IF i <= 1 THEN <<e>>[i] ELSE r[i - 1]
  <2>1. r \in Seq(X) /\ Len(r) = k
    BY <1>3
  <2>2. PICK h : h = <<e>> /\ h \in Seq(X) /\ Len(h) = 1
    BY <1>4
  <2>3. /\ h \o r \in Seq(X) /\ Len(h \o r) = Len(h) + Len(r)
        /\ \A i \in 1 .. Len(h) + Len(r) : (h \o r)[i] = IF i <= Len(h) THEN h[i] ELSE r[i - Len(h)]
    BY ONLY <2>1, <2>2, JoinIs
  <2> QED BY <2>1, <2>2, <2>3
<1>6. PICK d : d = Repeat(e, k + 1) /\ d \in Seq(X) /\ Len(d) = k + 1 /\ \A i \in 1 .. k + 1 : d[i] = e
  BY <1>1
<1>7. PICK c : c = <<e>> \o r
  OBVIOUS
<1>8. c \in Seq(X) /\ Len(c) = k + 1 /\ \A i \in 1 .. k + 1 : c[i] = d[i]
  BY <1>3, <1>4, <1>5, <1>6, <1>7
<1>9. c = d
  BY <1>6, <1>8, SameLists
<1> QED BY <1>1, <1>2, <1>3, <1>6, <1>7, <1>9 DEF Cons

-----------------------------------------------------------------------------
(* The books: what the layers count, and what the operators still owe.     *)
Bytes(lv) == Sum([n \in Sizes |-> n * lv[n]], Sizes)

(* x, y, z: what an operator in a call owes its query, its query owes      *)
(* Global, and the blocks of its query owe its count.                      *)
Books(am, re, lk, ub, lv, x, y, z) ==
    /\ \A q \in Queries :
          /\ am[q] + Sum(x, Of(q)) = lk[q] + Sum(am, Of(q)) + Sum(re, Of(q))
          /\ Bytes(lv[q]) + Sum(z, Of(q)) = Sum(am, Of(q)) + ub[q]
    /\ am[Global] + Sum(y, Operators) = Sum(am, Queries) + Sum(re, Queries) - Sum(lk, Queries)

(* f1 is f but for the change of one value by d. *)
Ints(f, S) == \A t \in S : f[t] \in Int
Changes(f, f1, S, y, d) == \A t \in S : f1[t] = IF t = y THEN f[t] + d ELSE f[t]

LEMMA OfIs ==
    ASSUME NEW q \in Queries
    PROVE  Of(q) \subseteq Operators /\ IsFiniteSet(Of(q)) /\ \A o \in Operators : o \in Of(q) <=> q = QueryOf[o]
<1>1. Of(q) \subseteq Operators /\ \A o \in Operators : o \in Of(q) <=> q = QueryOf[o]
  BY DEF Of
<1> QED BY <1>1, FS_Subset, TrackerAssumption

LEMMA ChangesSum ==
    ASSUME NEW S, IsFiniteSet(S), NEW f, Ints(f, S),
           NEW f1, NEW y, NEW d \in Int, Changes(f, f1, S, y, d)
    PROVE  /\ Sum(f, S) \in Int
           /\ y \in S => Sum(f1, S) = Sum(f, S) + d
           /\ y \notin S => Sum(f1, S) = Sum(f, S)
<1>1. (\A t \in S : f[t] \in Int) /\ \A t \in S : f1[t] = IF t = y THEN f[t] + d ELSE f[t]
  BY DEF Ints, Changes
<1>2. Sum(f1, S) = IF y \in S THEN Sum(f, S) + d ELSE Sum(f, S)
  BY <1>1, SumChange
<1> QED BY <1>1, <1>2, SumType

LEMMA BytesChange ==
    ASSUME NEW lv \in [Sizes -> Int], NEW lv1 \in [Sizes -> Int], NEW n \in Int, NEW e \in {-1, 0, 1},
           Changes(lv, lv1, Sizes, n, e)
    PROVE  /\ Bytes(lv) \in Int
           /\ n \in Sizes => Bytes(lv1) = Bytes(lv) + n * e
           /\ n \notin Sizes => Bytes(lv1) = Bytes(lv)
<1> DEFINE f == [k \in Sizes |-> k * lv[k]]
           f1 == [k \in Sizes |-> k * lv1[k]]
<1>1. IsFiniteSet(Sizes) /\ Sizes \subseteq Int
  BY TrackerAssumption
<1>2. \A i, j, k \in Int : i * (j + k) = i * j + i * k /\ i * j \in Int /\ i * k \in Int
  OBVIOUS
<1>3. PICK d \in Int : d = n * e
  BY <1>2
<1>4. Ints(f, Sizes)
  BY <1>1, <1>2 DEF Ints
<1>5. ASSUME NEW k \in Sizes PROVE f1[k] = IF k = n THEN f[k] + d ELSE f[k]
  <2>1. CASE k = n
    <3>1. lv1[k] = lv[k] + e /\ lv[k] \in Int /\ e \in Int
      BY <2>1 DEF Changes
    <3>2. n * (lv[k] + e) = n * lv[k] + n * e
      BY <1>2, <3>1
    <3> QED BY <1>3, <2>1, <3>1, <3>2
  <2>2. CASE k # n
    BY <2>2 DEF Changes
  <2> QED BY <2>1, <2>2
<1>6. Changes(f, f1, Sizes, n, d)
  BY <1>5 DEF Changes
<1> HIDE DEF f, f1
<1>7. /\ Sum(f, Sizes) \in Int
      /\ n \in Sizes => Sum(f1, Sizes) = Sum(f, Sizes) + d
      /\ n \notin Sizes => Sum(f1, Sizes) = Sum(f, Sizes)
  BY <1>1, <1>4, <1>6, ChangesSum
<1> QED BY <1>3, <1>7 DEF Bytes, f, f1

LEMMA ZeroBooks ==
    ASSUME NEW am \in [Trackers -> Int], NEW re \in [Trackers -> Int], NEW lk \in [Queries -> Int],
           NEW ub \in [Queries -> Int], NEW lv \in [Queries -> [Sizes -> Int]],
           NEW x \in [Operators -> Int],
           \A t \in Trackers : am[t] = 0 /\ re[t] = 0,
           \A q \in Queries : lk[q] = 0 /\ ub[q] = 0 /\ \A n \in Sizes : lv[q][n] = 0,
           \A o \in Operators : x[o] = 0
    PROVE  Books(am, re, lk, ub, lv, x, x, x)
<1>0. Queries \subseteq Trackers /\ Operators \subseteq Trackers /\ Global \in Trackers
      /\ IsFiniteSet(Queries) /\ IsFiniteSet(Operators) /\ IsFiniteSet(Sizes) /\ Sizes \subseteq Int
  BY TrackerAssumption DEF Trackers
<1>1. ASSUME NEW q \in Queries
      PROVE  /\ am[q] + Sum(x, Of(q)) = lk[q] + Sum(am, Of(q)) + Sum(re, Of(q))
             /\ Bytes(lv[q]) + Sum(x, Of(q)) = Sum(am, Of(q)) + ub[q]
  <2>1. PICK S : S = Of(q) /\ S \subseteq Operators /\ IsFiniteSet(S)
    BY OfIs
  <2>2. Sum(x, S) = 0 /\ Sum(am, S) = 0 /\ Sum(re, S) = 0
    <3>1. \A t \in S : x[t] = 0 /\ am[t] = 0 /\ re[t] = 0
      BY <1>0, <2>1
    <3> QED BY <2>1, <3>1, SumZero
  <2>3. Bytes(lv[q]) = 0
    <3> DEFINE f == [n \in Sizes |-> n * lv[q][n]]
    <3>0. \A i \in Int : i * 0 = 0
      OBVIOUS
    <3>1. \A n \in Sizes : f[n] = 0
      BY <1>0, <3>0
    <3> HIDE DEF f
    <3>2. Sum(f, Sizes) = 0
      BY <1>0, <3>1, SumZero
    <3> QED BY <3>2 DEF f, Bytes
  <2>4. am[q] = 0 /\ lk[q] = 0 /\ ub[q] = 0
    BY <1>0
  <2> QED BY <2>1, <2>2, <2>3, <2>4
<1>2. Sum(x, Operators) = 0 /\ Sum(am, Queries) = 0 /\ Sum(re, Queries) = 0 /\ Sum(lk, Queries) = 0
  <2>1. (\A t \in Operators : x[t] = 0) /\ \A t \in Queries : am[t] = 0 /\ re[t] = 0 /\ lk[t] = 0
    BY <1>0
  <2> QED BY <1>0, <2>1, SumZero
<1>3. am[Global] = 0
  BY <1>0
<1> QED BY <1>1, <1>2, <1>3 DEF Books

-----------------------------------------------------------------------------
(* Steps of the calls, and what they do to the books.                      *)
Typed ==
    /\ amount \in [Trackers -> Int] /\ reservation \in [Trackers -> Int]
    /\ leaked \in [Queries -> Int] /\ unbooked \in [Queries -> Int]
    /\ live \in [Queries -> [Sizes -> Int]]
    /\ todo = [o \in Operators |-> todo[o]]
    /\ missed = [q \in Queries |-> missed[q]]

(* The bytes that are not booked have the sign of what was missed. *)
Signed(ms, ub) ==
    /\ ms \subseteq {"kept"} => ub >= 0
    /\ ms \subseteq {"charged"} => ub <= 0

(* A step of o, of query q, changes the counters of no other operator and  *)
(* of no other query, and keeps the sign of what q has missed.             *)
Elsewhere(o, q) ==
    /\ Signed(missed[q], unbooked[q]) => Signed(missed'[q], unbooked'[q])
    /\ \A p \in Operators : p # o => amount'[p] = amount[p] /\ reservation'[p] = reservation[p]
    /\ \A p \in Queries : p # q => /\ amount'[p] = amount[p] /\ reservation'[p] = reservation[p]
                                  /\ leaked'[p] = leaked[p] /\ unbooked'[p] = unbooked[p]
                                  /\ missed'[p] = missed[p] /\ Bytes(live'[p]) = Bytes(live[p])

(* The step books what it moves, when what o owes changes from x, y, z to  *)
(* x1, y1, z1.                                                             *)
Balanced(o, x, y, z, x1, y1, z1) ==
    LET q == QueryOf[o]
    IN  /\ Elsewhere(o, q)
        /\ amount'[q] + x1 - leaked'[q] - amount'[o] - reservation'[o]
              = amount[q] + x - leaked[q] - amount[o] - reservation[o]
        /\ amount'[Global] + y1 - amount'[q] - reservation'[q] + leaked'[q]
              = amount[Global] + y - amount[q] - reservation[q] + leaked[q]
        /\ Bytes(live'[q]) + z1 - amount'[o] - unbooked'[q] = Bytes(live[q]) + z - amount[o] - unbooked[q]

LEMMA TrackersAre ==
    ASSUME NEW o \in Operators
    PROVE  /\ QueryOf[o] \in Queries /\ QueryOf[o] \in Trackers /\ o \in Trackers /\ Global \in Trackers
           /\ QueryOf[o] # Global /\ o # Global /\ o # QueryOf[o] /\ QueryOf[o] \notin Operators /\ o \notin Queries
           /\ Queries \subseteq Trackers /\ Operators \subseteq Trackers /\ Global \notin Operators /\ Global \notin Queries
           /\ Queries \cap Operators = {} /\ Sizes \subseteq Nat /\ 0 \notin Sizes
           /\ MaxReserve.query \in Nat /\ MaxReserve.query > 0
           /\ MaxReserve.operator \in Nat /\ MaxReserve.operator > 0
<1>1. QueryOf[o] \in Queries /\ Global \notin Queries \cup Operators /\ Queries \cap Operators = {}
  BY TrackerAssumption
<1>2. \A f \in [{"query", "operator"} -> Nat \ {0}] :
         f.query \in Nat /\ f.query > 0 /\ f.operator \in Nat /\ f.operator > 0
  OBVIOUS
<1> QED BY <1>1, <1>2, TrackerAssumption DEF Trackers

LEMMA BytesInt ==
    ASSUME Typed, NEW q \in Queries
    PROVE  Bytes(live[q]) \in Int
<1>1. live[q] \in [Sizes -> Int]
  BY DEF Typed
<1>2. Changes(live[q], live[q], Sizes, 0, 0)
  BY <1>1 DEF Changes
<1> QED BY <1>1, <1>2, BytesChange

LEMMA LiveSame ==
    ASSUME Typed, live' = live
    PROVE  \A p \in Queries : /\ Bytes(live[p]) \in Int /\ Bytes(live'[p]) = Bytes(live[p])
                              /\ Bytes(live'[p]) = Bytes(live[p]) + 0
  BY BytesInt

LEMMA LiveChange ==
    ASSUME Typed, NEW q \in Queries, NEW n \in Sizes, NEW e \in {-1, 1},
           live' = [live EXCEPT ![q][n] = @ + e]
    PROVE  /\ live' \in [Queries -> [Sizes -> Int]]
           /\ \A p \in Queries : /\ Bytes(live[p]) \in Int
                                 /\ p = q => Bytes(live'[p]) = Bytes(live[p]) + n * e
                                 /\ p # q => Bytes(live'[p]) = Bytes(live[p])
<1>0. Sizes \subseteq Int
  BY TrackerAssumption
<1>1. live \in [Queries -> [Sizes -> Int]] /\ live[q] \in [Sizes -> Int]
  BY DEF Typed
<1>2. live'[q] = [live[q] EXCEPT ![n] = @ + e] /\ \A p \in Queries : p # q => live'[p] = live[p]
  BY <1>1
<1>3. live'[q] \in [Sizes -> Int] /\ Changes(live[q], live'[q], Sizes, n, e)
  BY <1>1, <1>2 DEF Changes
<1>4. live' \in [Queries -> [Sizes -> Int]]
  BY <1>1, <1>3
<1>5. Bytes(live'[q]) = Bytes(live[q]) + n * e
  <2>1. n \in Int /\ e \in {-1, 0, 1}
    BY <1>0
  <2> QED BY ONLY <1>1, <1>3, <2>1, n \in Sizes, BytesChange
<1> QED BY <1>2, <1>4, <1>5, BytesInt

(* A block goes back to the code of the query. *)
LEMMA LiveBack ==
    ASSUME Typed, NEW q \in Queries, NEW bytes \in Sizes \cup {0},
           live' = [live EXCEPT ![q] = WithKept(@, bytes)]
    PROVE  /\ live' \in [Queries -> [Sizes -> Int]]
           /\ \A p \in Queries : /\ p = q => Bytes(live'[p]) = Bytes(live[p]) + bytes
                                 /\ p # q => Bytes(live'[p]) = Bytes(live[p])
<1>1. Sizes \subseteq Int /\ 0 \notin Sizes
  BY TrackerAssumption
<1>2. PICK k \in Int : k = bytes
  BY <1>1
<1>3. live[q] \in [Sizes -> Int] /\ live \in [Queries -> [Sizes -> Int]]
  BY DEF Typed
<1>4. live'[q] = [j \in Sizes |-> live[q][j] + (IF j = bytes THEN 1 ELSE 0)]
      /\ \A p \in Queries : p # q => live'[p] = live[p]
  BY <1>3 DEF WithKept
<1>5. live'[q] \in [Sizes -> Int] /\ Changes(live[q], live'[q], Sizes, k, 1)
  <2>1. PICK f, f1 : f = live[q] /\ f1 = live'[q] /\ f \in [Sizes -> Int]
    BY <1>3
  <2>2. f1 = [j \in Sizes |-> f[j] + (IF j = k THEN 1 ELSE 0)]
    BY <1>2, <1>4, <2>1
  <2>3. \A j \in Sizes : /\ f1[j] = IF j = k THEN f[j] + 1 ELSE f[j]
                         /\ f1[j] \in Int
    BY <2>1, <2>2
  <2>4. f1 \in [Sizes -> Int]
    BY <2>2, <2>3
  <2> QED BY <2>1, <2>3, <2>4 DEF Changes
<1>6. live' \in [Queries -> [Sizes -> Int]]
  <2>1. DOMAIN live' = Queries /\ live' = [p \in Queries |-> live'[p]]
    BY <1>3
  <2>2. \A p \in Queries : live'[p] \in [Sizes -> Int]
    BY <1>3, <1>4, <1>5
  <2> QED BY <2>1, <2>2
<1>7. Bytes(live'[q]) = Bytes(live[q]) + k
  <2>1. /\ k \in Sizes => Bytes(live'[q]) = Bytes(live[q]) + k * 1
        /\ k \notin Sizes => Bytes(live'[q]) = Bytes(live[q])
    <3>1. 1 \in {-1, 0, 1}
      OBVIOUS
    <3> QED BY ONLY <1>2, <1>3, <1>5, <3>1, BytesChange
  <2>2. PICK B \in Int : B = Bytes(live[q])
    BY BytesInt
  <2> QED BY <1>1, <1>2, <2>1, <2>2
<1> QED BY <1>2, <1>4, <1>6, <1>7

LEMMA SignedKept ==
    ASSUME NEW ms, NEW ub \in Int, Signed(ms, ub), NEW k \in Nat
    PROVE  Signed(ms \cup KeepsOne(k), ub + k)
<1>1. ub + 0 = ub
  OBVIOUS
<1> QED BY <1>1 DEF Signed, KeepsOne

LEMMA SignedCharged ==
    ASSUME NEW ms, NEW ub \in Int, Signed(ms, ub), NEW k \in Nat, NEW n \in Nat, n > 0
    PROVE  Signed(ms \cup {"charged"} \cup KeepsOne(k), ub + (k - n))
<1>1. CASE k = 0
  <2>1. ub <= 0 => ub + (k - n) <= 0
    BY <1>1
  <2> QED BY <1>1, <2>1 DEF Signed, KeepsOne
<1>2. CASE k # 0
  BY <1>2 DEF Signed, KeepsOne
<1> QED BY <1>1, <1>2

LEMMA SignedGone ==
    ASSUME NEW ms, NEW ub \in Int, Signed(ms, ub), NEW a \in Int
    PROVE  Signed(ms \cup (IF a = 0 THEN {} ELSE {"gone"}), ub + a)
<1>1. ub + 0 = ub
  OBVIOUS
<1> QED BY <1>1 DEF Signed

(* The head of the list decides the step. *)
Does(o, e, w) ==
    \/ Alloc(o, e, w) \/ Throw(o, e, w) \/ Reserve(o, e, w) \/ Give(o, e, w) \/ Add(o, e, w)
    \/ Free(o, e, w) \/ Got(o, e, w) \/ BadAlloc(o, e, w) \/ Freed(o, e, w) \/ Gone(o, e, w)
    \/ Swap(o, e, w)

LEMMA HeadDone ==
    ASSUME NEW o, NEW e \in Entry, NEW w \in Lists, todo[o] = Cons(e, w), Step(o)
    PROVE  Does(o, e, w) /\ alive' = alive
<1>1. Head(todo[o]) = e /\ Tail(todo[o]) = w
  BY ConsIs DEF Lists
<1>2. Does(o, Head(todo[o]), Tail(todo[o])) /\ alive' = alive
  BY Zenon DEF Step, Does
<1> QED BY <1>1, <1>2

LEMMA Ops ==
    ASSUME NEW o, NEW e, NEW w
    PROVE  /\ Alloc(o, e, w) => e.op = "alloc"
           /\ Throw(o, e, w) => e.op = "throw"
           /\ Reserve(o, e, w) => e.op = "reserve"
           /\ Give(o, e, w) => e.op = "give"
           /\ Add(o, e, w) => e.op = "add"
           /\ Free(o, e, w) => e.op = "free"
           /\ Got(o, e, w) \/ BadAlloc(o, e, w) => e.op = "got"
           /\ Freed(o, e, w) => e.op = "freed"
           /\ Gone(o, e, w) => e.op = "gone"
           /\ Swap(o, e, w) => e.op = "swap"
<1>1. Alloc(o, e, w) => e.op = "alloc"
  BY Zenon DEF Alloc
<1>2. Throw(o, e, w) => e.op = "throw"
  BY Zenon DEF Throw
<1>3. Reserve(o, e, w) => e.op = "reserve"
  BY Zenon DEF Reserve
<1>4. Give(o, e, w) => e.op = "give"
  BY Zenon DEF Give
<1>5. Add(o, e, w) => e.op = "add"
  BY Zenon DEF Add
<1>6. Free(o, e, w) => e.op = "free"
  BY Zenon DEF Free
<1>7. Got(o, e, w) \/ BadAlloc(o, e, w) => e.op = "got"
  BY Zenon DEF Got, BadAlloc
<1>8. Freed(o, e, w) => e.op = "freed"
  BY Zenon DEF Freed
<1>9. Gone(o, e, w) => e.op = "gone"
  BY Zenon DEF Gone
<1>10. Swap(o, e, w) => e.op = "swap"
  BY Zenon DEF Swap
<1> QED BY <1>1, <1>2, <1>3, <1>4, <1>5, <1>6, <1>7, <1>8, <1>9, <1>10

LEMMA DoesOne ==
    ASSUME NEW o, NEW e, NEW w, Does(o, e, w)
    PROVE  /\ e.op = "alloc" => Alloc(o, e, w)
           /\ e.op = "throw" => Throw(o, e, w)
           /\ e.op = "reserve" => Reserve(o, e, w)
           /\ e.op = "give" => Give(o, e, w)
           /\ e.op = "add" => Add(o, e, w)
           /\ e.op = "free" => Free(o, e, w)
           /\ e.op = "got" => Got(o, e, w) \/ BadAlloc(o, e, w)
           /\ e.op = "freed" => Freed(o, e, w)
           /\ e.op = "gone" => Gone(o, e, w)
           /\ e.op = "swap" => Swap(o, e, w)
  BY Ops DEF Does

(* A step of o leaves the lists of the others alone. *)
LEMMA OthersKeep ==
    ASSUME Typed, NEW o \in Operators, NEW e, NEW w, Does(o, e, w)
    PROVE  /\ todo' = [p \in Operators |-> todo'[p]]
           /\ \A p \in Operators : p # o => todo'[p] = todo[p]
<1>1. ASSUME NEW L, todo' = [todo EXCEPT ![o] = L]
      PROVE  /\ todo' = [p \in Operators |-> todo'[p]]
             /\ \A p \in Operators : p # o => todo'[p] = todo[p]
  BY <1>1 DEF Typed
<1>2. Alloc(o, e, w) => \E L : todo' = [todo EXCEPT ![o] = L]
  BY Zenon DEF Alloc
<1>3. Throw(o, e, w) => \E L : todo' = [todo EXCEPT ![o] = L]
  BY Zenon DEF Throw
<1>4. Reserve(o, e, w) => \E L : todo' = [todo EXCEPT ![o] = L]
  BY Zenon DEF Reserve
<1>5. Give(o, e, w) => \E L : todo' = [todo EXCEPT ![o] = L]
  BY Zenon DEF Give
<1>6. Add(o, e, w) \/ Free(o, e, w) \/ Freed(o, e, w) \/ Gone(o, e, w) => \E L : todo' = [todo EXCEPT ![o] = L]
  BY Zenon DEF Add, Free, Freed, Gone
<1>7. Got(o, e, w) \/ BadAlloc(o, e, w) \/ Swap(o, e, w) => \E L : todo' = [todo EXCEPT ![o] = L]
  BY Zenon DEF Got, BadAlloc, Swap
<1>8. \E L : todo' = [todo EXCEPT ![o] = L]
  BY <1>2, <1>3, <1>4, <1>5, <1>6, <1>7 DEF Does
<1> QED BY <1>1, <1>8

LEMMA Updated ==
    ASSUME Typed, NEW o \in Operators, NEW L, todo' = [todo EXCEPT ![o] = L]
    PROVE  todo'[o] = L
  BY DEF Typed

-----------------------------------------------------------------------------
(* A step on the counters of q or of Global, with the blocks as they are. *)
LEMMA AmountMoves ==
    ASSUME Typed, NEW o \in Operators, NEW t \in {QueryOf[o], Global}, NEW d \in Int,
           amount' = [amount EXCEPT ![t] = @ + d], UNCHANGED <<reservation, live, leaked, unbooked, missed>>,
           NEW e, NEW w, Does(o, e, w), NEW x \in Int, NEW y \in Int, NEW z \in Int
    PROVE  /\ Typed'
           /\ t # Global => Balanced(o, x, y, z, x - d, y + d, z)
           /\ t = Global => Balanced(o, x, y, z, x, y - d, z)
           /\ amount'[o] = amount[o] /\ reservation'[o] = reservation[o]
<1>0. PICK q : q = QueryOf[o]
  OBVIOUS
<1>1. Typed'
  <2>1. amount' \in [Trackers -> Int]
    BY TrackersAre DEF Typed
  <2> QED BY <2>1, OthersKeep DEF Typed
<1>2. \A p \in Trackers : amount'[p] = IF p = t THEN amount[p] + d ELSE amount[p]
  BY DEF Typed
<1>3. Elsewhere(o, q)
  BY <1>0, <1>2, TrackersAre DEF Elsewhere
<1>4. PICK A, Q, G, R, S, L, U, B \in Int :
         /\ A = amount[o] /\ Q = amount[q] /\ G = amount[Global] /\ R = reservation[o] /\ S = reservation[q]
         /\ L = leaked[q] /\ U = unbooked[q] /\ B = Bytes(live[q])
  <2>1. /\ amount[o] \in Int /\ amount[q] \in Int /\ amount[Global] \in Int
        /\ reservation[o] \in Int /\ reservation[q] \in Int /\ leaked[q] \in Int /\ unbooked[q] \in Int
        /\ Bytes(live[q]) \in Int
    BY <1>0, TrackersAre, BytesInt DEF Typed
  <2> QED BY <2>1, Zenon
<1>5. /\ amount'[o] = A /\ reservation'[o] = R /\ reservation'[q] = S /\ leaked'[q] = L /\ unbooked'[q] = U
      /\ Bytes(live'[q]) = B
  BY <1>0, <1>2, <1>4, TrackersAre
<1>6. CASE t = q
  <2>1. amount'[q] = Q + d /\ amount'[Global] = G
    BY <1>0, <1>2, <1>4, <1>6, TrackersAre
  <2>2. /\ (Q + d) + (x - d) - L - A - R = Q + x - L - A - R
        /\ G + (y + d) - (Q + d) - S + L = G + y - Q - S + L
    OBVIOUS
  <2>3. Balanced(o, x, y, z, x - d, y + d, z)
    BY <1>0, <1>3, <1>4, <1>5, <2>1, <2>2 DEF Balanced
  <2> QED BY <1>0, <1>1, <1>4, <1>5, <1>6, <2>3, TrackersAre
<1>7. CASE t = Global
  <2>1. amount'[q] = Q /\ amount'[Global] = G + d
    BY <1>0, <1>2, <1>4, <1>7, TrackersAre
  <2>2. (G + d) + (y - d) - Q - S + L = G + y - Q - S + L
    OBVIOUS
  <2>3. Balanced(o, x, y, z, x, y - d, z)
    BY <1>0, <1>3, <1>4, <1>5, <2>1, <2>2 DEF Balanced
  <2> QED BY <1>0, <1>1, <1>4, <1>5, <1>7, <2>3, TrackersAre
<1> QED BY <1>0, <1>6, <1>7

LEMMA ReservationMoves ==
    ASSUME Typed, NEW o \in Operators, NEW d \in Int,
           reservation' = [reservation EXCEPT ![QueryOf[o]] = @ + d], UNCHANGED <<amount, live, leaked, unbooked, missed>>,
           NEW e, NEW w, Does(o, e, w), NEW x \in Int, NEW y \in Int, NEW z \in Int
    PROVE  Typed' /\ Balanced(o, x, y, z, x, y + d, z) /\ amount'[o] = amount[o] /\ reservation'[o] = reservation[o]
<1>0. PICK q : q = QueryOf[o]
  OBVIOUS
<1>1. Typed'
  <2>1. reservation' \in [Trackers -> Int]
    BY TrackersAre DEF Typed
  <2> QED BY <2>1, OthersKeep DEF Typed
<1>2. \A p \in Trackers : reservation'[p] = IF p = q THEN reservation[p] + d ELSE reservation[p]
  BY <1>0 DEF Typed
<1>3. Elsewhere(o, q)
  BY <1>0, <1>2, TrackersAre DEF Elsewhere
<1>4. PICK Q, G, S, L \in Int : Q = amount[q] /\ G = amount[Global] /\ S = reservation[q] /\ L = leaked[q]
  BY <1>0, TrackersAre DEF Typed
<1>5. reservation'[q] = S + d /\ reservation'[o] = reservation[o]
  BY <1>0, <1>2, <1>4, TrackersAre
<1>6. G + (y + d) - Q - (S + d) + L = G + y - Q - S + L
  OBVIOUS
<1>7. Balanced(o, x, y, z, x, y + d, z)
  BY <1>0, <1>3, <1>4, <1>5, <1>6 DEF Balanced
<1> QED BY <1>1, <1>5, <1>7

LEMMA NothingMoves ==
    ASSUME Typed, NEW o \in Operators, UNCHANGED <<amount, reservation, live, leaked, unbooked, missed>>,
           NEW x, NEW y, NEW z
    PROVE  Balanced(o, x, y, z, x, y, z)
<1>1. Elsewhere(o, QueryOf[o])
  BY DEF Elsewhere
<1> QED BY <1>1 DEF Balanced

LEMMA ThrowMoves ==
    ASSUME Typed, NEW o \in Operators, NEW e, NEW w, Does(o, e, w), e.op = "throw",
           NEW t \in {QueryOf[o], Global}, e.on = t, NEW n \in Int, e.n = n,
           NEW get \in Int, t = Global => -w[2].n = get,
           NEW bytes \in Sizes \cup {0}, KeptBytes(w) = bytes, NEW x \in Int, NEW y \in Int, NEW z \in Int
    PROVE  /\ Typed' /\ todo'[o] = <<>>
           /\ t # Global => Balanced(o, x, y, z, x + n, y - n, z)
           /\ t = Global => Balanced(o, x, y, z, x + get, y + (n - get), z)
<1>0. PICK q : q = QueryOf[o] /\ q \in Queries
  BY TrackersAre
<1>a. Throw(o, e, w)
  BY DoesOne
<1>1. PICK l \in Int : l = IF t = Global THEN get ELSE 0
  OBVIOUS
<1>2. /\ amount' = [amount EXCEPT ![t] = @ - n] /\ todo' = [todo EXCEPT ![o] = <<>>]
      /\ leaked' = [leaked EXCEPT ![q] = @ + l]
      /\ live' = [live EXCEPT ![q] = WithKept(@, bytes)]
      /\ unbooked' = [unbooked EXCEPT ![q] = @ + bytes]
      /\ missed' = [missed EXCEPT ![q] = @ \cup KeepsOne(bytes)]
      /\ reservation' = reservation
  BY <1>0, <1>1, <1>a DEF Throw
<1>3. Sizes \subseteq Int /\ 0 \notin Sizes
  BY TrackersAre
<1>b. PICK k \in Nat : k = bytes
  BY TrackersAre
<1>4. /\ \A p \in Trackers : amount'[p] = IF p = t THEN amount[p] - n ELSE amount[p]
      /\ \A p \in Queries : leaked'[p] = IF p = q THEN leaked[p] + l ELSE leaked[p]
      /\ \A p \in Queries : unbooked'[p] = IF p = q THEN unbooked[p] + k ELSE unbooked[p]
      /\ \A p \in Queries : missed'[p] = IF p = q THEN missed[p] \cup KeepsOne(k) ELSE missed[p]
  BY <1>2, <1>b DEF Typed
<1>5. /\ live' \in [Queries -> [Sizes -> Int]]
      /\ \A p \in Queries : /\ p = q => Bytes(live'[p]) = Bytes(live[p]) + k
                            /\ p # q => Bytes(live'[p]) = Bytes(live[p])
  BY <1>0, <1>2, <1>b, LiveBack
<1>6. Signed(missed[q], unbooked[q]) => Signed(missed'[q], unbooked'[q])
  <2>1. unbooked[q] \in Int
    BY <1>0 DEF Typed
  <2>2. Signed(missed[q], unbooked[q]) => Signed(missed[q] \cup KeepsOne(k), unbooked[q] + k)
    BY <2>1, SignedKept
  <2> QED BY <1>0, <1>4, <2>2
<1>8. Typed'
  <2>1. amount' \in [Trackers -> Int]
    BY <1>2, TrackersAre DEF Typed
  <2>2. leaked' \in [Queries -> Int] /\ unbooked' \in [Queries -> Int]
    <3>1. leaked \in [Queries -> Int] /\ unbooked \in [Queries -> Int]
      BY DEF Typed
    <3>2. leaked' \in [Queries -> Int]
      BY <1>0, <1>2, <3>1
    <3>3. unbooked' \in [Queries -> Int]
      BY <1>0, <1>2, <1>b, <3>1
    <3> QED BY <3>2, <3>3
  <2>3. missed' = [p \in Queries |-> missed'[p]]
    BY <1>2 DEF Typed
  <2> QED BY <1>2, <1>5, <2>1, <2>2, <2>3, OthersKeep DEF Typed
<1>9. PICK A, Q, G, R, S, L, U, B \in Int :
         /\ A = amount[o] /\ Q = amount[q] /\ G = amount[Global] /\ R = reservation[o] /\ S = reservation[q]
         /\ L = leaked[q] /\ U = unbooked[q] /\ B = Bytes(live[q])
  <2>1. /\ amount[o] \in Int /\ amount[q] \in Int /\ amount[Global] \in Int
        /\ reservation[o] \in Int /\ reservation[q] \in Int /\ leaked[q] \in Int /\ unbooked[q] \in Int
        /\ Bytes(live[q]) \in Int
    BY <1>0, TrackersAre, BytesInt DEF Typed
  <2> QED BY <2>1, Zenon
<1>10. Bytes(live'[q]) = B + k
  BY <1>0, <1>5, <1>9
<1>11. Elsewhere(o, q)
  BY <1>0, <1>2, <1>4, <1>5, <1>6, TrackersAre DEF Elsewhere
<1>12. amount'[o] = A /\ reservation'[o] = R /\ reservation'[q] = S /\ leaked'[q] = L + l /\ unbooked'[q] = U + k
  BY <1>0, <1>2, <1>4, <1>9, TrackersAre
<1>13. todo'[o] = <<>>
  BY <1>2, Updated
<1>14. CASE t = q
  <2>1. l = 0 /\ t # Global /\ amount'[q] = Q - n /\ amount'[Global] = G
    BY <1>0, <1>1, <1>4, <1>9, <1>14, TrackersAre
  <2>2. /\ (Q - n) + (x + n) - (L + l) - A - R = Q + x - L - A - R
        /\ G + (y - n) - (Q - n) - S + (L + l) = G + y - Q - S + L
        /\ (B + k) + z - A - (U + k) = B + z - A - U
    BY <2>1
  <2>3. Balanced(o, x, y, z, x + n, y - n, z)
    BY <1>0, <1>9, <1>10, <1>11, <1>12, <2>1, <2>2 DEF Balanced
  <2> QED BY <1>8, <1>13, <2>1, <2>3
<1>15. CASE t = Global
  <2>1. l = get /\ amount'[q] = Q /\ amount'[Global] = G - n
    BY <1>0, <1>1, <1>4, <1>9, <1>15, TrackersAre
  <2>2. /\ Q + (x + get) - (L + l) - A - R = Q + x - L - A - R
        /\ (G - n) + (y + (n - get)) - Q - S + (L + l) = G + y - Q - S + L
        /\ (B + k) + z - A - (U + k) = B + z - A - U
    BY <2>1
  <2>3. Balanced(o, x, y, z, x + get, y + (n - get), z)
    BY <1>0, <1>9, <1>10, <1>11, <1>12, <2>1, <2>2 DEF Balanced
  <2> QED BY <1>8, <1>13, <1>15, <2>3
<1> QED BY <1>0, <1>14, <1>15

(* The counters of the operator itself. *)
LEMMA CountersMove ==
    ASSUME Typed, NEW o \in Operators, NEW a \in Int, NEW r \in Int, NEW u \in Int, NEW b \in Int,
           amount' = [amount EXCEPT ![o] = @ + a], reservation' = [reservation EXCEPT ![o] = @ + r],
           UNCHANGED leaked, unbooked' = [unbooked EXCEPT ![QueryOf[o]] = @ + u],
           missed' = [p \in Queries |-> missed'[p]], \A p \in Queries : p # QueryOf[o] => missed'[p] = missed[p],
           Signed(missed[QueryOf[o]], unbooked[QueryOf[o]])
               => Signed(missed'[QueryOf[o]], unbooked[QueryOf[o]] + u),
           live' \in [Queries -> [Sizes -> Int]],
           \A p \in Queries : /\ p = QueryOf[o] => Bytes(live'[p]) = Bytes(live[p]) + b
                              /\ p # QueryOf[o] => Bytes(live'[p]) = Bytes(live[p]),
           NEW e, NEW w, Does(o, e, w), NEW x \in Int, NEW y \in Int, NEW z \in Int
    PROVE  Typed' /\ Balanced(o, x, y, z, x + (a + r), y, z + ((a + u) - b))
<1>0. PICK q : q = QueryOf[o] /\ q \in Queries
  BY TrackersAre
<1>1. Typed'
  <2>1. amount' \in [Trackers -> Int] /\ reservation' \in [Trackers -> Int]
    BY TrackersAre DEF Typed
  <2>2. unbooked' \in [Queries -> Int]
    BY TrackersAre DEF Typed
  <2> QED BY <2>1, <2>2, OthersKeep DEF Typed
<1>2. /\ \A p \in Trackers : amount'[p] = IF p = o THEN amount[p] + a ELSE amount[p]
      /\ \A p \in Trackers : reservation'[p] = IF p = o THEN reservation[p] + r ELSE reservation[p]
      /\ \A p \in Queries : unbooked'[p] = IF p = q THEN unbooked[p] + u ELSE unbooked[p]
  BY <1>0 DEF Typed
<1>3. Elsewhere(o, q)
  BY <1>0, <1>2, TrackersAre DEF Elsewhere
<1>4. PICK A, Q, G, R, S, L, U, B \in Int :
         /\ A = amount[o] /\ Q = amount[q] /\ G = amount[Global] /\ R = reservation[o] /\ S = reservation[q]
         /\ L = leaked[q] /\ U = unbooked[q] /\ B = Bytes(live[q])
  <2>1. /\ amount[o] \in Int /\ amount[q] \in Int /\ amount[Global] \in Int
        /\ reservation[o] \in Int /\ reservation[q] \in Int /\ leaked[q] \in Int /\ unbooked[q] \in Int
        /\ Bytes(live[q]) \in Int
    BY <1>0, TrackersAre, BytesInt DEF Typed
  <2> QED BY <2>1, Zenon
<1>5. /\ amount'[o] = A + a /\ amount'[q] = Q /\ amount'[Global] = G /\ reservation'[o] = R + r
      /\ reservation'[q] = S /\ leaked'[q] = L /\ unbooked'[q] = U + u /\ Bytes(live'[q]) = B + b
  BY <1>0, <1>2, <1>4, TrackersAre
<1>6. /\ Q + (x + (a + r)) - L - (A + a) - (R + r) = Q + x - L - A - R
      /\ (B + b) + (z + ((a + u) - b)) - (A + a) - (U + u) = B + z - A - U
  OBVIOUS
<1>7. Balanced(o, x, y, z, x + (a + r), y, z + ((a + u) - b))
  BY <1>0, <1>3, <1>4, <1>5, <1>6 DEF Balanced
<1> QED BY <1>1, <1>7

-----------------------------------------------------------------------------
(* The first operation of a list is done.                                  *)
LEMMA EntryIs ==
    ASSUME NEW o \in Operators, NEW t \in {o, QueryOf[o], Global}, NEW op \in OpNames,
           NEW n, n \in Int \/ n \in Int \X Int
    PROVE  /\ Do(op, t, n) \in Entry
           /\ Do(op, t, n).op = op /\ Do(op, t, n).on = t /\ Do(op, t, n).n = n
<1>1. t \in Trackers /\ n \in Int \cup (Int \X Int)
  BY TrackersAre
<1> QED BY <1>1, DoIs

LEMMA HeadIs ==
    ASSUME NEW o \in Operators, NEW t \in {o, QueryOf[o], Global}, NEW op \in OpNames,
           NEW n, n \in Int \/ n \in Int \X Int, NEW w \in Lists, todo[o] = Cons(Do(op, t, n), w), Step(o)
    PROVE  \E e : /\ e.op = op /\ e.on = t /\ e.n = n /\ Does(o, e, w) /\ alive' = alive
<1>1. PICK e : e = Do(op, t, n) /\ e \in Entry /\ e.op = op /\ e.on = t /\ e.n = n
  BY EntryIs
<1> QED BY <1>1, HeadDone

LEMMA AllocDone ==
    ASSUME Typed, NEW o \in Operators, NEW t \in {QueryOf[o], Global}, NEW n \in Int,
           NEW w \in Lists, todo[o] = Cons(Do("alloc", t, n), w), Step(o),
           NEW x \in Int, NEW y \in Int, NEW z \in Int
    PROVE  /\ Typed' /\ (todo'[o] = w \/ todo'[o] = Cons(Do("throw", t, n), w))
           /\ t # Global => Balanced(o, x, y, z, x - n, y + n, z)
           /\ t = Global => Balanced(o, x, y, z, x, y - n, z)
<1>1. PICK e : e.op = "alloc" /\ e.on = t /\ e.n = n /\ Does(o, e, w)
  <2>1. "alloc" \in OpNames /\ t \in {o, QueryOf[o], Global}
    BY DEF OpNames
  <2> QED BY <2>1, HeadIs
<1>2. Alloc(o, e, w)
  BY <1>1, DoesOne
<1>3. /\ amount' = [amount EXCEPT ![t] = @ + n] /\ UNCHANGED <<reservation, live, leaked, unbooked, missed>>
      /\ \/ todo' = [todo EXCEPT ![o] = <<Do("throw", t, n)>> \o w]
         \/ todo' = [todo EXCEPT ![o] = w]
  BY <1>1, <1>2 DEF Alloc
<1>4. todo'[o] = w \/ todo'[o] = Cons(Do("throw", t, n), w)
  BY <1>3, Updated DEF Cons
<1> QED BY <1>1, <1>3, <1>4, AmountMoves

LEMMA FreeDone ==
    ASSUME Typed, NEW o \in Operators, NEW t \in {QueryOf[o], Global}, NEW n \in Int,
           NEW w \in Lists, todo[o] = Cons(Do("free", t, n), w), Step(o),
           NEW x \in Int, NEW y \in Int, NEW z \in Int
    PROVE  /\ Typed' /\ todo'[o] = w /\ amount'[o] = amount[o] /\ reservation'[o] = reservation[o]
           /\ t # Global => Balanced(o, x, y, z, x + n, y - n, z)
           /\ t = Global => Balanced(o, x, y, z, x, y + n, z)
<1>1. PICK e : e.op = "free" /\ e.on = t /\ e.n = n /\ Does(o, e, w)
  <2>1. "free" \in OpNames /\ t \in {o, QueryOf[o], Global}
    BY DEF OpNames
  <2> QED BY <2>1, HeadIs
<1>2. Free(o, e, w)
  BY <1>1, DoesOne
<1>3. PICK d \in Int : d = -n /\ x - d = x + n /\ y + d = y - n /\ y - d = y + n
  OBVIOUS
<1>4. /\ amount' = [amount EXCEPT ![t] = @ - n] /\ UNCHANGED <<reservation, live, leaked, unbooked, missed>>
      /\ todo' = [todo EXCEPT ![o] = w]
  BY <1>1, <1>2 DEF Free
<1>5. t \in Trackers /\ amount[t] \in Int
  BY TrackersAre DEF Typed
<1>6. amount' = [amount EXCEPT ![t] = @ + d]
  BY <1>3, <1>4, <1>5
<1>7. todo'[o] = w
  BY <1>4, Updated
<1>8. /\ Typed' /\ amount'[o] = amount[o] /\ reservation'[o] = reservation[o]
      /\ t # Global => Balanced(o, x, y, z, x - d, y + d, z)
      /\ t = Global => Balanced(o, x, y, z, x, y - d, z)
  BY <1>1, <1>4, <1>6, AmountMoves
<1> QED BY <1>3, <1>7, <1>8

LEMMA AddDone ==
    ASSUME Typed, NEW o \in Operators, NEW n \in Int,
           NEW w \in Lists, todo[o] = Cons(Do("add", QueryOf[o], n), w), Step(o),
           NEW x \in Int, NEW y \in Int, NEW z \in Int
    PROVE  /\ Typed' /\ todo'[o] = w /\ amount'[o] = amount[o] /\ reservation'[o] = reservation[o]
           /\ Balanced(o, x, y, z, x, y + n, z)
<1>1. PICK e : e.op = "add" /\ e.on = QueryOf[o] /\ e.n = n /\ Does(o, e, w)
  <2>1. "add" \in OpNames /\ QueryOf[o] \in {o, QueryOf[o], Global}
    BY DEF OpNames
  <2> QED BY <2>1, HeadIs
<1>2. Add(o, e, w)
  BY <1>1, DoesOne
<1>3. /\ reservation' = [reservation EXCEPT ![QueryOf[o]] = @ + n] /\ UNCHANGED <<amount, live, leaked, unbooked, missed>>
      /\ todo' = [todo EXCEPT ![o] = w]
  BY <1>1, <1>2 DEF Add
<1> QED BY <1>1, <1>3, ReservationMoves, Updated

(* What a layer asks of its parent, or gives back, is so many times the    *)
(* reservation.                                                            *)
LEMMA ParentIs ==
    ASSUME NEW will \in Int, NEW max \in Nat, max > 0
    PROVE  /\ GetFromParent(will, max) \in Nat
           /\ \E k \in Nat : ReleaseParent(will, max) = k * max /\ ReleaseParent(will, max) \div max = k
<1>0. \A i, j \in Nat : i * j \in Nat /\ i * j = j * i
  OBVIOUS
<1>1. GetFromParent(will, max) \in Nat
  <2>1. CASE will < 0
    <3>1. -will \in Nat
      BY <2>1
    <3>2. PICK k \in Nat : k = (-will) \div max + 1
      BY <3>1
    <3> QED BY <1>0, <2>1, <3>2 DEF GetFromParent
  <2>2. CASE ~(will < 0)
    BY <2>2 DEF GetFromParent
  <2> QED BY <2>1, <2>2
<1>2. \A k \in Nat : (k * max) \div max = k
  OBVIOUS
<1>3. \E k \in Nat : ReleaseParent(will, max) = k * max
  <2>1. CASE will > max
    <3>1. PICK k \in Nat : k = (will - 1) \div max
      BY <2>1
    <3> QED BY <1>0, <2>1, <3>1 DEF ReleaseParent
  <2>2. CASE ~(will > max)
    <3>1. ReleaseParent(will, max) = 0 /\ 0 * max = 0
      BY <2>2 DEF ReleaseParent
    <3> QED BY <3>1
  <2> QED BY <2>1, <2>2
<1> QED BY <1>1, <1>2, <1>3

-----------------------------------------------------------------------------
(* The stages of a call: what an operator still has to do, and what it     *)
(* owes its query (x), its query owes Global (y), and the live blocks owe  *)
(* the counts (z).                                                         *)
Cat(s, t) == s \o t

Kept(o, b) == IF b = 0 THEN <<>> ELSE Cons(Do("kept", o, b), <<>>)
GotList(o, n, get, b) == Cons(Do("got", o, <<n, get>>), Kept(o, b))
AddedList(o, n, get, b) == Cons(Do("add", QueryOf[o], -get), GotList(o, n, get, b))
FetchedList(o, n, get, g, b) == Cons(Do("add", QueryOf[o], g), AddedList(o, n, get, b))

(* A block of n bytes is asked for, with get from the query, which gets g  *)
(* from Global.                                                            *)
Asks(o, n, get, g, b, L, x, y) ==
    \/ L = GotList(o, n, get, b) /\ x = -get /\ y = 0
    \/ L = AddedList(o, n, get, b) /\ x = -get /\ y = get
    \/ L = FetchedList(o, n, get, g, b) /\ x = -get /\ y = get - g
    \/ L = Cons(Do("alloc", Global, g), FetchedList(o, n, get, g, b)) /\ x = -get /\ y = get
    \/ L = Cons(Do("throw", Global, g), FetchedList(o, n, get, g, b)) /\ x = -get /\ y = get - g
    \/ L = Cons(Do("reserve", QueryOf[o], get), GotList(o, n, get, b)) /\ x = -get /\ y = get
    \/ /\ L = Cons(Do("alloc", QueryOf[o], get), Cons(Do("reserve", QueryOf[o], get), GotList(o, n, get, b)))
       /\ x = 0 /\ y = 0
    \/ /\ L = Cons(Do("throw", QueryOf[o], get), Cons(Do("reserve", QueryOf[o], get), GotList(o, n, get, b)))
       /\ x = -get /\ y = get

Asking(o, L, x, y) ==
    \E n \in Sizes, get \in Nat, g \in Int, b \in Sizes \cup {0} : Asks(o, n, get, g, b, L, x, y)

(* What follows a release. *)
SwapList(o, old, new) == Cons(Do("swap", o, <<old, new>>), <<>>)
Follow(o) == {w \in Lists : w = <<>> \/ \E old, new \in Sizes : w = SwapList(o, old, new)}

GiveBack(o) == Do("give", QueryOf[o], MaxReserve.operator)

Returning(o, L, x, z) ==
    \E k \in Nat, n \in Sizes, release \in Int, w \in Follow(o) :
        /\ L = Cat(Repeat(GiveBack(o), k), Cons(Do("freed", o, <<n, release>>), w))
        /\ x = release - k * MaxReserve.operator /\ z = n

(* The tracker of o is destroyed with t bytes in its amount and reservation. *)
GoneList(o) == Cons(Do("gone", o, 0), <<>>)
Ending(o, L, t, x) ==
    \/ L = GoneList(o) /\ x = t
    \/ \E m \in Int : L = Cons(Do("give", QueryOf[o], m), GoneList(o)) /\ x = t - m
    \/ \E m1, m2 \in Int :
           L = Cons(Do("give", QueryOf[o], m1), Cons(Do("give", QueryOf[o], m2), GoneList(o))) /\ x = t - m1 - m2

(* m bytes are given to the query, before the list w. *)
Frees(o, w, m, L, y) ==
    \E k \in Int :
        LET q == QueryOf[o]
        IN  \/ L = Cons(Do("free", q, m), w) /\ y = m
            \/ L = Cons(Do("add", q, -k), Cons(Do("free", q, m), w)) /\ y = m + k
            \/ L = Cons(Do("free", Global, k), Cons(Do("add", q, -k), Cons(Do("free", q, m), w))) /\ y = m

Working(o, L, x, y, z) ==
    \/ L \in Follow(o) /\ x = 0 /\ y = 0 /\ z = 0
    \/ Asking(o, L, x, y) /\ z = 0
    \/ Returning(o, L, x, z) /\ y = 0
    \/ \E w \in Lists, m \in Int : Returning(o, w, x + m, z) /\ Frees(o, w, m, L, y)

Leaving(o, L, a, r, x, y, z) ==
    \/ L = <<>> /\ a = 0 /\ r = 0 /\ x = 0 /\ y = 0 /\ z = 0
    \/ Ending(o, L, a + r, x) /\ y = 0 /\ z = 0
    \/ \E w \in Lists, m \in Int : Ending(o, w, a + r, x + m) /\ Frees(o, w, m, L, y) /\ z = 0

Stage(o, x, y, z) ==
    IF o \in alive THEN Working(o, todo[o], x, y, z) ELSE Leaving(o, todo[o], amount[o], reservation[o], x, y, z)

-----------------------------------------------------------------------------
LEMMA ListIs ==
    ASSUME NEW e \in Entry, NEW s \in Lists
    PROVE  /\ Cons(e, s) \in Lists /\ Cons(e, s) # <<>> /\ Len(s) \in Nat
           /\ Len(Cons(e, s)) = Len(s) + 1 /\ Cons(e, s)[1] = e
           /\ \A i \in 1 .. Len(s) : Cons(e, s)[i + 1] = s[i]
<1>1. s \in Seq(Entry)
  BY DEF Lists
<1>2. Len(s) \in Nat
  BY <1>1
<1>3. /\ Cons(e, s) \in Seq(Entry) /\ Cons(e, s) # <<>>
      /\ Len(Cons(e, s)) = Len(s) + 1 /\ Cons(e, s)[1] = e
      /\ \A i \in 1 .. Len(s) : Cons(e, s)[i + 1] = s[i]
  BY <1>1, ConsIs
<1> QED BY <1>2, <1>3 DEF Lists

LEMMA NoList == <<>> \in Lists /\ Len(<<>>) = 0
  BY DEF Lists

LEMMA OneIs ==
    ASSUME NEW e \in Entry
    PROVE  /\ Cons(e, <<>>) \in Lists /\ Cons(e, <<>>) # <<>> /\ Len(Cons(e, <<>>)) = 1 /\ Cons(e, <<>>)[1] = e
<1>1. <<e>> \in Seq(Entry) /\ Len(<<e>>) = 1 /\ <<e>>[1] = e /\ <<e>> # <<>>
  OBVIOUS
<1>2. <<e>> = Cons(e, <<>>)
  BY <1>1 DEF Cons
<1> QED BY <1>1, <1>2, Zenon DEF Lists

LEMMA CatIs ==
    ASSUME NEW X, NEW a \in X, NEW s \in Seq(X), NEW t \in Seq(X)
    PROVE  /\ Cat(Cons(a, s), t) = Cons(a, Cat(s, t)) /\ Cat(s, t) \in Seq(X)
           /\ Cat(<<>>, t) = t
<1>1. <<>> \o t = t
  OBVIOUS
<1> QED BY <1>1, ConsJoins DEF Cat

One(c) == <<>> \o <<c>>
Two(a, b, c) == <<a, b>> \o <<c>>

LEMMA Chains ==
    ASSUME NEW X, NEW a \in X, NEW b \in X, NEW c \in X, NEW s \in Seq(X)
    PROVE  /\ Cat(Two(a, b, c), s) = Cons(a, Cons(b, Cons(c, s))) /\ Cat(One(c), s) = Cons(c, s)
           /\ Two(a, b, c) = Cons(a, Cons(b, Cons(c, <<>>))) /\ One(c) = Cons(c, <<>>)
<1>0. <<>> \in Seq(X)
  OBVIOUS
<1>1. PICK z : z = <<>> /\ z \in Seq(X)
  BY <1>0, Zenon
<1>2. PICK cc, ab : /\ cc = <<c>> /\ cc = Cons(c, z) /\ ab = <<a, b>> /\ ab = Cons(a, Cons(b, z))
  BY <1>1, Listed, ZenonT(60)
<1>3. Cons(b, z) \in Seq(X) /\ cc \in Seq(X) /\ ab \in Seq(X)
  <2>1. \A e \in X, u \in Seq(X) : Cons(e, u) \in Seq(X)
    BY ConsIs
  <2> QED BY <1>1, <1>2, <2>1
<1>4. \A e \in X, u \in Seq(X), v \in Seq(X) : Cat(Cons(e, u), v) = Cons(e, Cat(u, v))
  BY CatIs
<1>5. \A v \in Seq(X) : Cat(z, v) = v
  BY <1>1, CatIs
<1>6. cc = Cons(c, z) /\ ab = Cons(a, Cons(b, z))
  BY <1>2
<1>7. z \in Seq(X)
  BY <1>1
<1>8. ASSUME NEW v \in Seq(X) PROVE Cat(cc, v) = Cons(c, v)
  <2>1. Cat(Cons(c, z), v) = Cons(c, Cat(z, v))
    BY ONLY <1>4, <1>7, c \in X, v \in Seq(X)
  <2> QED BY ONLY <1>5, <1>6, <2>1, v \in Seq(X)
<1>9. ASSUME NEW v \in Seq(X) PROVE Cat(ab, v) = Cons(a, Cons(b, v))
  <2>1. Cat(Cons(b, z), v) = Cons(b, Cat(z, v))
    BY ONLY <1>4, <1>7, b \in X, v \in Seq(X)
  <2>2. Cat(Cons(a, Cons(b, z)), v) = Cons(a, Cat(Cons(b, z), v))
    BY ONLY <1>3, <1>4, a \in X, v \in Seq(X)
  <2> QED BY ONLY <1>5, <1>6, <2>1, <2>2, v \in Seq(X)
<1>10. Cat(ab, cc) = Cons(a, Cons(b, cc)) /\ Cat(z, cc) = cc
  BY ONLY <1>3, <1>5, <1>9
<1>11. Cons(b, cc) \in Seq(X)
  BY ONLY <1>3, b \in X, ConsIs
<1>12. Cat(Cat(ab, cc), s) = Cons(a, Cons(b, Cons(c, s)))
  <2>1. Cat(Cons(b, cc), s) = Cons(b, Cat(cc, s))
    BY ONLY <1>3, <1>4, b \in X, s \in Seq(X)
  <2>2. Cat(Cons(a, Cons(b, cc)), s) = Cons(a, Cat(Cons(b, cc), s))
    BY ONLY <1>4, <1>11, a \in X, s \in Seq(X)
  <2> QED BY ONLY <1>8, <1>10, <2>1, <2>2, s \in Seq(X)
<1>13. Cat(Cat(z, cc), s) = Cons(c, s)
  BY <1>8, <1>10
<1> QED BY <1>1, <1>2, <1>10, <1>12, <1>13, Zenon DEF Cat, One, Two

LEMMA GotLists ==
    ASSUME NEW o \in Operators, NEW n \in Sizes, NEW get \in Int, NEW b \in Sizes \cup {0}
    PROVE  /\ Do("got", o, <<n, get>>) \in Entry /\ Kept(o, b) \in Lists /\ GotList(o, n, get, b) \in Lists
           /\ Do("add", QueryOf[o], -get) \in Entry /\ Do("add", QueryOf[o], -get).n = -get
           /\ AddedList(o, n, get, b) \in Lists
           /\ \A g \in Int : /\ Do("add", QueryOf[o], g) \in Entry /\ Do("alloc", Global, g) \in Entry
                             /\ Do("throw", Global, g) \in Entry /\ FetchedList(o, n, get, g, b) \in Lists
           /\ Do("reserve", QueryOf[o], get) \in Entry /\ Do("alloc", QueryOf[o], get) \in Entry
           /\ Do("throw", QueryOf[o], get) \in Entry
           /\ Cons(Do("reserve", QueryOf[o], get), GotList(o, n, get, b)) \in Lists
<1>1. PICK m \in Int : m = -get
  OBVIOUS
<1>2. n \in Int /\ b \in Int /\ <<n, get>> \in Int \X Int
  BY TrackersAre
<1>3. /\ Do("got", o, <<n, get>>) \in Entry /\ Do("kept", o, b) \in Entry
      /\ Do("add", QueryOf[o], m) \in Entry /\ Do("add", QueryOf[o], m).n = m
      /\ \A g \in Int : /\ Do("add", QueryOf[o], g) \in Entry /\ Do("alloc", Global, g) \in Entry
                        /\ Do("throw", Global, g) \in Entry
      /\ Do("reserve", QueryOf[o], get) \in Entry /\ Do("alloc", QueryOf[o], get) \in Entry
      /\ Do("throw", QueryOf[o], get) \in Entry
  <2>1. {"got", "kept", "add", "alloc", "throw", "reserve"} \subseteq OpNames
    BY DEF OpNames
  <2>2. \A t \in {o, QueryOf[o], Global}, op \in OpNames, i \in Int : Do(op, t, i) \in Entry /\ Do(op, t, i).n = i
    BY EntryIs
  <2>3. Do("got", o, <<n, get>>) \in Entry
    BY <1>2, <2>1, EntryIs
  <2> QED BY <1>1, <1>2, <2>1, <2>2, <2>3
<1>4. <<>> \in Lists /\ \A e \in Entry, s \in Lists : Cons(e, s) \in Lists
  BY ListIs, NoList
<1>5. Kept(o, b) \in Lists
  BY <1>3, <1>4 DEF Kept
<1>6. GotList(o, n, get, b) \in Lists
  BY <1>3, <1>4, <1>5 DEF GotList
<1>7. AddedList(o, n, get, b) \in Lists
  BY <1>1, <1>3, <1>4, <1>6 DEF AddedList
<1>8. \A g \in Int : FetchedList(o, n, get, g, b) \in Lists
  BY <1>3, <1>4, <1>7 DEF FetchedList
<1> QED BY <1>1, <1>3, <1>4, <1>5, <1>6, <1>7, <1>8

(* The bytes that a refused reallocation leaves. *)
LEMMA KeptIs ==
    ASSUME NEW e \in Entry, NEW s \in Lists, s # <<>>
    PROVE  KeptBytes(Cons(e, s)) = KeptBytes(s) /\ Cons(e, s)[2] = s[1]
<1>1. PICK c : c = Cons(e, s)
  OBVIOUS
<1>2. Len(s) \in Nat /\ Len(s) >= 1
  BY ListIs DEF Lists
<1>3. Len(c) = Len(s) + 1 /\ \A i \in 1 .. Len(s) : c[i + 1] = s[i]
  BY <1>1, ListIs
<1>4. c[Len(c)] = s[Len(s)] /\ c[2] = s[1]
  BY <1>2, <1>3
<1> QED BY <1>1, <1>4 DEF KeptBytes

LEMMA KeptOf ==
    ASSUME NEW o \in Operators, NEW n \in Sizes, NEW get \in Int, NEW b \in Sizes \cup {0}
    PROVE  GotList(o, n, get, b) # <<>> /\ KeptBytes(GotList(o, n, get, b)) = b
<1>1. Do("got", o, <<n, get>>) \in Entry /\ Kept(o, b) \in Lists
  BY GotLists
<1>2. GotList(o, n, get, b) # <<>>
  BY <1>1, ListIs DEF GotList
<1>3. CASE b = 0
  <2>1. PICK e, s : e = Do("got", o, <<n, get>>) /\ s = GotList(o, n, get, b) /\ s = Cons(e, <<>>) /\ <<>> \in Lists
    BY <1>3, NoList DEF GotList, Kept
  <2>2. Len(s) = 1 /\ s[1] = e
    BY <1>1, <2>1, OneIs
  <2>3. e.op # "kept"
    BY <2>1, DoIs
  <2> QED BY <1>2, <1>3, <2>1, <2>2, <2>3 DEF KeptBytes
<1>4. CASE b # 0
  <2>1. PICK e, s : e = Do("kept", o, b) /\ s = Kept(o, b) /\ s = Cons(e, <<>>) /\ <<>> \in Lists /\ e \in Entry
    <3>1. b \in Int /\ "kept" \in OpNames
      BY TrackersAre DEF OpNames
    <3>2. Do("kept", o, b) \in Entry
      BY <3>1, EntryIs
    <3> QED BY <1>4, <3>2, NoList DEF Kept
  <2>2. Len(s) = 1 /\ s[1] = e /\ s # <<>>
    BY <2>1, OneIs
  <2>3. e.op = "kept" /\ e.n = b
    BY <2>1, DoIs
  <2>4. KeptBytes(s) = b
    BY <2>2, <2>3 DEF KeptBytes
  <2>5. KeptBytes(GotList(o, n, get, b)) = KeptBytes(s)
    BY <1>1, <2>1, <2>2, KeptIs DEF GotList
  <2> QED BY <1>2, <2>4, <2>5
<1> QED BY <1>3, <1>4

-----------------------------------------------------------------------------
LEMMA Longer ==
    ASSUME NEW a \in Entry, NEW b \in Entry, NEW c \in Entry, NEW s \in Lists
    PROVE  /\ Cat(Two(a, b, c), s) = Cons(a, Cons(b, Cons(c, s))) /\ Cat(One(c), s) = Cons(c, s)
           /\ Two(a, b, c) = Cons(a, Cons(b, Cons(c, <<>>))) /\ One(c) = Cons(c, <<>>)
  BY Chains DEF Lists

LEMMA Entries ==
    ASSUME NEW o \in Operators, NEW n \in Int, NEW t \in {o, QueryOf[o], Global}
    PROVE  /\ Do("alloc", t, n) \in Entry /\ Do("throw", t, n) \in Entry /\ Do("reserve", t, n) \in Entry
           /\ Do("give", t, n) \in Entry /\ Do("add", t, n) \in Entry /\ Do("free", t, n) \in Entry
           /\ Do("gone", t, n) \in Entry /\ Do("kept", t, n) \in Entry
           /\ \A m \in Int : /\ Do("got", t, <<n, m>>) \in Entry /\ Do("freed", t, <<n, m>>) \in Entry
                             /\ Do("swap", t, <<n, m>>) \in Entry
<1>1. {"alloc", "throw", "reserve", "give", "add", "free", "got", "freed", "gone", "swap", "kept"} \subseteq OpNames
  BY DEF OpNames
<1>2. \A op \in OpNames : Do(op, t, n) \in Entry
  BY EntryIs
<1>3. \A op \in OpNames, m \in Int : Do(op, t, <<n, m>>) \in Entry
  <2>1. ASSUME NEW op \in OpNames, NEW m \in Int PROVE Do(op, t, <<n, m>>) \in Entry
    <3>1. <<n, m>> \in Int \X Int
      OBVIOUS
    <3> QED BY <3>1, EntryIs
  <2> QED BY <2>1
<1> QED BY <1>1, <1>2, <1>3

LEMMA ThrowDone ==
    ASSUME Typed, NEW o \in Operators, NEW t \in {QueryOf[o], Global}, NEW n \in Int,
           NEW w \in Lists, todo[o] = Cons(Do("throw", t, n), w), Step(o),
           NEW get \in Int, t = Global => -w[2].n = get,
           NEW bytes \in Sizes \cup {0}, KeptBytes(w) = bytes, NEW x \in Int, NEW y \in Int, NEW z \in Int
    PROVE  /\ Typed' /\ todo'[o] = <<>>
           /\ t # Global => Balanced(o, x, y, z, x + n, y - n, z)
           /\ t = Global => Balanced(o, x, y, z, x + get, y + (n - get), z)
<1>1. PICK e : e.op = "throw" /\ e.on = t /\ e.n = n /\ Does(o, e, w)
  <2>1. "throw" \in OpNames /\ t \in {o, QueryOf[o], Global}
    BY DEF OpNames
  <2>2. n \in Int \/ n \in Int \X Int
    OBVIOUS
  <2> QED BY ONLY <2>1, <2>2, o \in Operators, w \in Lists, todo[o] = Cons(Do("throw", t, n), w), Step(o), HeadIs
<1>2. e.op = "throw" /\ e.on = t /\ e.n = n /\ Does(o, e, w)
  BY <1>1
<1>3. e.op = "throw" /\ e.on = t /\ e.n = n
  BY <1>2
<1>4. Does(o, e, w)
  BY <1>2
<1>5. e.op = "throw"
  BY <1>3
<1>6. e.on = t
  BY <1>3
<1>7. e.n = n
  BY <1>3
<1> QED BY ONLY <1>4, <1>5, <1>6, <1>7, Typed, o \in Operators, t \in {QueryOf[o], Global}, n \in Int, get \in Int,
             t = Global => -w[2].n = get, bytes \in Sizes \cup {0}, KeptBytes(w) = bytes,
             x \in Int, y \in Int, z \in Int, ThrowMoves, SMTT(40)

LEMMA ReserveDone ==
    ASSUME Typed, NEW o \in Operators, NEW get \in Int,
           NEW w \in Lists, todo[o] = Cons(Do("reserve", QueryOf[o], get), w), Step(o),
           NEW x, NEW y, NEW z
    PROVE  /\ Typed' /\ Balanced(o, x, y, z, x, y, z)
           /\ \/ todo'[o] = Cons(Do("add", QueryOf[o], -get), w)
              \/ \E g \in Int : todo'[o] = Cons(Do("alloc", Global, g), Cons(Do("add", QueryOf[o], g),
                                                Cons(Do("add", QueryOf[o], -get), w)))
<1>0. PICK q : q = QueryOf[o]
  OBVIOUS
<1>1. PICK e : e.op = "reserve" /\ e.on = q /\ e.n = get /\ Does(o, e, w)
  <2>1. "reserve" \in OpNames /\ q \in {o, QueryOf[o], Global}
    BY <1>0 DEF OpNames
  <2> QED BY <1>0, <2>1, HeadIs
<1>2. Reserve(o, e, w)
  BY <1>1, DoesOne
<1>3. PICK g \in Nat : g = GetFromParent(reservation[q] - get, MaxReserve.query)
  <2>1. PICK will \in Int : will = reservation[q] - get
    BY <1>0, TrackersAre DEF Typed
  <2>2. PICK max \in Nat : max = MaxReserve.query /\ max > 0
    BY TrackersAre
  <2> QED BY <2>1, <2>2, ParentIs
<1>4. /\ UNCHANGED <<amount, reservation, live, leaked, unbooked, missed>>
      /\ todo' = [todo EXCEPT ![o] =
            (IF g > 0 THEN <<Do("alloc", Global, g), Do("add", q, g)>> ELSE <<>>) \o <<Do("add", q, -get)>> \o w]
  BY <1>1, <1>2, <1>3 DEF Reserve
<1>5. PICK a, b, c \in Entry : a = Do("alloc", Global, g) /\ b = Do("add", q, g) /\ c = Do("add", q, -get)
  <2>1. PICK m \in Int : m = -get
    OBVIOUS
  <2> QED BY <1>0, <2>1, Entries
<1>6. Cat(Two(a, b, c), w) = Cons(a, Cons(b, Cons(c, w))) /\ Cat(One(c), w) = Cons(c, w)
  BY Longer
<1>7. todo'[o] = Cons(a, Cons(b, Cons(c, w))) \/ todo'[o] = Cons(c, w)
  <2>1. CASE g > 0
    <3>1. todo' = [todo EXCEPT ![o] = Cat(Two(a, b, c), w)]
      BY <1>4, <1>5, <2>1 DEF Cat, Two
    <3> QED BY <1>6, <3>1, Updated
  <2>2. CASE ~ (g > 0)
    <3>1. todo' = [todo EXCEPT ![o] = Cat(One(c), w)]
      BY <1>4, <1>5, <2>2 DEF Cat, One
    <3> QED BY <1>6, <3>1, Updated
  <2> QED BY <2>1, <2>2
<1>8. Typed'
  BY <1>1, <1>4, OthersKeep DEF Typed
<1>9. Balanced(o, x, y, z, x, y, z)
  BY <1>4, NothingMoves
<1>10. g \in Int
  OBVIOUS
<1> QED BY <1>0, <1>5, <1>7, <1>8, <1>9, <1>10

LEMMA GiveDone ==
    ASSUME Typed, NEW o \in Operators, NEW m \in Int,
           NEW w \in Lists, todo[o] = Cons(Do("give", QueryOf[o], m), w), Step(o),
           NEW x \in Int, NEW z \in Int
    PROVE  /\ Typed' /\ amount'[o] = amount[o] /\ reservation'[o] = reservation[o]
           /\ Balanced(o, x, 0, z, x, m, z) /\ Frees(o, w, m, todo'[o], m)
<1>0. PICK q : q = QueryOf[o]
  OBVIOUS
<1>1. PICK e : e.op = "give" /\ e.on = q /\ e.n = m /\ Does(o, e, w)
  <2>1. "give" \in OpNames /\ q \in {o, QueryOf[o], Global}
    BY <1>0 DEF OpNames
  <2> QED BY <1>0, <2>1, HeadIs
<1>2. Give(o, e, w)
  BY <1>1, DoesOne
<1>3. PICK k \in Int : k = ReleaseParent(reservation[q] + m, MaxReserve.query)
  <2>1. PICK will \in Int : will = reservation[q] + m
    BY <1>0, TrackersAre DEF Typed
  <2>2. PICK max \in Nat : max = MaxReserve.query /\ max > 0
    BY TrackersAre
  <2>3. PICK i \in Nat : ReleaseParent(will, max) = i * max
    BY <2>2, ParentIs
  <2>4. i * max \in Int
    OBVIOUS
  <2> QED BY <2>1, <2>2, <2>3, <2>4
<1>4. /\ reservation' = [reservation EXCEPT ![q] = @ + m]
      /\ UNCHANGED <<amount, live, leaked, unbooked, missed>>
      /\ todo' = [todo EXCEPT ![o] =
            (IF k > 0 THEN <<Do("free", Global, k), Do("add", q, -k)>> ELSE <<>>) \o <<Do("free", q, m)>> \o w]
  BY <1>1, <1>2, <1>3 DEF Give
<1>5. PICK a, b, c \in Entry : a = Do("free", Global, k) /\ b = Do("add", q, -k) /\ c = Do("free", q, m)
  <2>1. PICK j \in Int : j = -k
    OBVIOUS
  <2> QED BY <1>0, <2>1, Entries
<1>6. Cat(Two(a, b, c), w) = Cons(a, Cons(b, Cons(c, w))) /\ Cat(One(c), w) = Cons(c, w)
  BY Longer
<1>7. todo'[o] = Cons(a, Cons(b, Cons(c, w))) \/ todo'[o] = Cons(c, w)
  <2>1. CASE k > 0
    <3>1. todo' = [todo EXCEPT ![o] = Cat(Two(a, b, c), w)]
      BY <1>4, <1>5, <2>1 DEF Cat, Two
    <3> QED BY <1>6, <3>1, Updated
  <2>2. CASE ~ (k > 0)
    <3>1. todo' = [todo EXCEPT ![o] = Cat(One(c), w)]
      BY <1>4, <1>5, <2>2 DEF Cat, One
    <3> QED BY <1>6, <3>1, Updated
  <2> QED BY <2>1, <2>2
<1>8. Frees(o, w, m, todo'[o], m)
  BY <1>0, <1>5, <1>7 DEF Frees
<1>9. Typed' /\ amount'[o] = amount[o] /\ reservation'[o] = reservation[o] /\ Balanced(o, x, 0, z, x, m, z)
  <2>0. PICK y \in Int : y = 0 /\ y + m = m
    OBVIOUS
  <2>1. reservation' = [reservation EXCEPT ![QueryOf[o]] = @ + m]
    BY <1>0, <1>4
  <2>2. Typed' /\ amount'[o] = amount[o] /\ reservation'[o] = reservation[o] /\ Balanced(o, x, y, z, x, y + m, z)
    BY <1>1, <1>4, <2>1, ReservationMoves
  <2> QED BY <2>0, <2>2
<1> QED BY <1>8, <1>9

-----------------------------------------------------------------------------
LEMMA GotDone ==
    ASSUME Typed, NEW o \in Operators, NEW n \in Sizes, NEW get \in Int,
           NEW w \in Lists, todo[o] = Cons(Do("got", o, <<n, get>>), w), Step(o),
           NEW bytes \in Sizes \cup {0}, KeptBytes(todo[o]) = bytes,
           NEW x \in Int, NEW y \in Int, NEW z \in Int
    PROVE  Typed' /\ todo'[o] = <<>> /\ Balanced(o, x, y, z, x + get, y, z)
<1>0. PICK q : q = QueryOf[o] /\ q \in Queries
  BY TrackersAre
<1>1. PICK e : e.op = "got" /\ e.n = <<n, get>> /\ Does(o, e, w)
  <2>1. "got" \in OpNames /\ o \in {o, QueryOf[o], Global} /\ n \in Int
    BY TrackersAre DEF OpNames
  <2>2. PICK p : p = <<n, get>> /\ p \in Int \X Int
    BY <2>1
  <2> QED BY <2>1, <2>2, HeadIs
<1>2. PICK a, r \in Int : a = n /\ r = get - n
  <2>1. n \in Int
    BY TrackersAre
  <2> QED BY <2>1
<1>3. e.n[1] = n /\ e.n[2] = get
  BY <1>1
<1>4. unbooked \in [Queries -> Int] /\ unbooked[q] \in Int
  BY <1>0 DEF Typed
<1>5. /\ reservation' = [reservation EXCEPT ![o] = @ + get - n]
      /\ amount' = [amount EXCEPT ![o] = @ + n]
      /\ todo' = [todo EXCEPT ![o] = <<>>] /\ leaked' = leaked
      /\ \/ /\ live' = [live EXCEPT ![q][n] = @ + 1]
            /\ unbooked' = unbooked /\ missed' = missed
         \/ /\ live' = [live EXCEPT ![q] = WithKept(@, bytes)]
            /\ unbooked' = [unbooked EXCEPT ![q] = @ + (bytes - n)]
            /\ missed' = [missed EXCEPT ![q] = @ \cup {"charged"} \cup KeepsOne(bytes)]
  <2>1. CASE Got(o, e, w)
    BY <1>0, <1>3, <2>1 DEF Got
  <2>2. CASE BadAlloc(o, e, w)
    BY <1>0, <1>3, <2>2 DEF BadAlloc
  <2> QED BY <1>1, <2>1, <2>2, DoesOne
<1>6. reservation' = [reservation EXCEPT ![o] = @ + r]
  <2>1. reservation[o] \in Int /\ \A i \in Int : i + get - n = i + r
    BY <1>2, TrackersAre DEF Typed
  <2> QED BY <1>5, <2>1
<1>7. amount' = [amount EXCEPT ![o] = @ + a]
  BY <1>2, <1>5
<1>8. PICK u, b \in Int :
         /\ (a + u) - b = 0
         /\ unbooked' = [unbooked EXCEPT ![QueryOf[o]] = @ + u]
         /\ live' \in [Queries -> [Sizes -> Int]]
         /\ \A p \in Queries : /\ p = QueryOf[o] => Bytes(live'[p]) = Bytes(live[p]) + b
                               /\ p # QueryOf[o] => Bytes(live'[p]) = Bytes(live[p])
         /\ missed' = [p \in Queries |-> missed'[p]]
         /\ \A p \in Queries : p # QueryOf[o] => missed'[p] = missed[p]
         /\ Signed(missed[QueryOf[o]], unbooked[QueryOf[o]])
                => Signed(missed'[QueryOf[o]], unbooked[QueryOf[o]] + u)
  <2>1. CASE /\ live' = [live EXCEPT ![q][n] = @ + 1]
             /\ unbooked' = unbooked /\ missed' = missed
    <3>1. (a + 0) - a = 0 /\ n * 1 = a
      BY <1>2
    <3>2. unbooked' = [unbooked EXCEPT ![q] = @ + 0] /\ unbooked[q] + 0 = unbooked[q]
      BY <1>0, <1>4, <2>1
    <3>3. /\ live' \in [Queries -> [Sizes -> Int]]
          /\ \A p \in Queries : /\ p = q => Bytes(live'[p]) = Bytes(live[p]) + n * 1
                                /\ p # q => Bytes(live'[p]) = Bytes(live[p])
      <4>1. 1 \in {-1, 1}
        OBVIOUS
      <4> QED BY <1>0, <2>1, <4>1, LiveChange
    <3>4. /\ missed' = [p \in Queries |-> missed'[p]]
          /\ \A p \in Queries : p # q => missed'[p] = missed[p]
          /\ Signed(missed[q], unbooked[q]) => Signed(missed'[q], unbooked[q] + 0)
      BY <2>1, <3>2 DEF Typed
    <3>5. 0 \in Int
      OBVIOUS
    <3> QED BY <1>0, <3>1, <3>2, <3>3, <3>4, <3>5
  <2>2. CASE /\ live' = [live EXCEPT ![q] = WithKept(@, bytes)]
             /\ unbooked' = [unbooked EXCEPT ![q] = @ + (bytes - n)]
             /\ missed' = [missed EXCEPT ![q] = @ \cup {"charged"} \cup KeepsOne(bytes)]
    <3>1. PICK k, m \in Nat : k = bytes /\ m = n /\ m > 0
      BY TrackersAre
    <3>2. PICK d \in Int : d = k - m
      OBVIOUS
    <3>3. (a + d) - k = 0
      BY <1>2, <3>1, <3>2
    <3>4. unbooked' = [unbooked EXCEPT ![q] = @ + d]
      BY <2>2, <3>1, <3>2
    <3>5. /\ live' \in [Queries -> [Sizes -> Int]]
          /\ \A p \in Queries : /\ p = q => Bytes(live'[p]) = Bytes(live[p]) + k
                                /\ p # q => Bytes(live'[p]) = Bytes(live[p])
      BY <1>0, <2>2, <3>1, LiveBack
    <3>6. /\ missed' = [p \in Queries |-> missed'[p]]
          /\ \A p \in Queries : p # q => missed'[p] = missed[p]
          /\ missed'[q] = missed[q] \cup {"charged"} \cup KeepsOne(k)
      BY <1>0, <2>2, <3>1 DEF Typed
    <3>7. Signed(missed[q], unbooked[q]) => Signed(missed'[q], unbooked[q] + d)
      <4>1. Signed(missed[q], unbooked[q])
               => Signed(missed[q] \cup {"charged"} \cup KeepsOne(k), unbooked[q] + (k - m))
        BY <1>4, <3>1, SignedCharged
      <4> QED BY <3>2, <3>6, <4>1
    <3>8. k \in Int
      OBVIOUS
    <3> QED BY <1>0, <3>2, <3>3, <3>4, <3>5, <3>6, <3>7, <3>8
  <2> QED BY <1>5, <2>1, <2>2
<1>9. Typed' /\ Balanced(o, x, y, z, x + (a + r), y, z + ((a + u) - b))
  BY <1>1, <1>5, <1>6, <1>7, <1>8, CountersMove
<1>10. x + (a + r) = x + get /\ z + ((a + u) - b) = z
  BY <1>2, <1>8
<1>11. todo'[o] = <<>>
  BY <1>5, Updated
<1> QED BY <1>9, <1>10, <1>11

(* What was missed stays as it is. *)
LEMMA MissedKept ==
    ASSUME Typed, NEW q \in Queries, missed' = missed
    PROVE  /\ missed' = [p \in Queries |-> missed'[p]] /\ \A p \in Queries : p # q => missed'[p] = missed[p]
           /\ Signed(missed[q], unbooked[q]) => Signed(missed'[q], unbooked[q] + 0)
<1>1. unbooked[q] + 0 = unbooked[q]
  BY DEF Typed
<1> QED BY <1>1 DEF Typed

LEMMA LiveKept ==
    ASSUME Typed, live' = live
    PROVE  /\ live' \in [Queries -> [Sizes -> Int]]
           /\ \A p \in Queries : /\ \A q : p = q => Bytes(live'[p]) = Bytes(live[p]) + 0
                                 /\ \A q : p # q => Bytes(live'[p]) = Bytes(live[p])
  BY LiveSame DEF Typed

LEMMA FreedDone ==
    ASSUME Typed, NEW o \in Operators, NEW n \in Sizes, NEW rel \in Int,
           NEW w \in Lists, todo[o] = Cons(Do("freed", o, <<n, rel>>), w), Step(o),
           NEW x \in Int, NEW y \in Int, NEW z \in Int
    PROVE  Typed' /\ todo'[o] = w /\ Balanced(o, x, y, z, x - rel, y, z - n)
<1>0. PICK q : q = QueryOf[o] /\ q \in Queries
  BY TrackersAre
<1>1. PICK e : e.op = "freed" /\ e.n = <<n, rel>> /\ Does(o, e, w)
  <2>1. "freed" \in OpNames /\ o \in {o, QueryOf[o], Global} /\ n \in Int
    BY TrackersAre DEF OpNames
  <2>2. PICK p : p = <<n, rel>> /\ p \in Int \X Int
    BY <2>1
  <2> QED BY <2>1, <2>2, HeadIs
<1>2. Freed(o, e, w)
  BY <1>1, DoesOne
<1>3. PICK k, a, r, u, b \in Int : k = n /\ a = -n /\ r = n - rel /\ u = 0 /\ b = 0
  BY TrackersAre
<1>4. e.n[1] = k /\ e.n[2] = rel
  BY <1>1, <1>3
<1>5. /\ reservation' = [reservation EXCEPT ![o] = @ + k - rel]
      /\ amount' = [amount EXCEPT ![o] = @ - k]
      /\ todo' = [todo EXCEPT ![o] = w] /\ leaked' = leaked /\ unbooked' = unbooked /\ live' = live
      /\ missed' = missed
  BY <1>2, <1>4 DEF Freed
<1>6. reservation' = [reservation EXCEPT ![o] = @ + r]
  <2>1. reservation[o] \in Int /\ \A i \in Int : i + k - rel = i + r
    BY <1>3, TrackersAre DEF Typed
  <2> QED BY <1>5, <2>1
<1>7. amount' = [amount EXCEPT ![o] = @ + a]
  <2>1. amount[o] \in Int /\ \A i \in Int : i - k = i + a
    BY <1>3, TrackersAre DEF Typed
  <2> QED BY <1>5, <2>1
<1>8. unbooked' = [unbooked EXCEPT ![QueryOf[o]] = @ + u]
  <2>1. unbooked \in [Queries -> Int]
    BY DEF Typed
  <2> QED BY <1>0, <1>3, <1>5, <2>1
<1>9. /\ live' \in [Queries -> [Sizes -> Int]]
      /\ \A p \in Queries : /\ p = QueryOf[o] => Bytes(live'[p]) = Bytes(live[p]) + b
                            /\ p # QueryOf[o] => Bytes(live'[p]) = Bytes(live[p])
  BY <1>3, <1>5, LiveKept
<1>a. /\ missed' = [p \in Queries |-> missed'[p]] /\ \A p \in Queries : p # QueryOf[o] => missed'[p] = missed[p]
      /\ Signed(missed[QueryOf[o]], unbooked[QueryOf[o]]) => Signed(missed'[QueryOf[o]], unbooked[QueryOf[o]] + u)
  BY <1>0, <1>3, <1>5, MissedKept
<1>10. Typed' /\ Balanced(o, x, y, z, x + (a + r), y, z + ((a + u) - b))
  BY <1>1, <1>5, <1>6, <1>7, <1>8, <1>9, <1>a, CountersMove
<1>11. x + (a + r) = x - rel /\ z + ((a + u) - b) = z - n
  BY <1>3
<1>12. todo'[o] = w
  BY <1>5, Updated
<1> QED BY <1>10, <1>11, <1>12

LEMMA GoneDone ==
    ASSUME Typed, NEW o \in Operators,
           NEW w \in Lists, todo[o] = Cons(Do("gone", o, 0), w), Step(o),
           NEW x \in Int, NEW y \in Int, NEW z \in Int
    PROVE  /\ Typed' /\ todo'[o] = w /\ amount'[o] = 0 /\ reservation'[o] = 0
           /\ Balanced(o, x, y, z, x - (amount[o] + reservation[o]), y, z)
<1>0. PICK q : q = QueryOf[o] /\ q \in Queries
  BY TrackersAre
<1>1. PICK e : e.op = "gone" /\ Does(o, e, w)
  <2>1. "gone" \in OpNames /\ o \in {o, QueryOf[o], Global} /\ 0 \in Int
    BY TrackersAre DEF OpNames
  <2> QED BY <2>1, HeadIs
<1>2. Gone(o, e, w)
  BY <1>1, DoesOne
<1>3. PICK A, R \in Int : A = amount[o] /\ R = reservation[o]
  BY TrackersAre DEF Typed
<1>a. PICK a, r, u, b \in Int : a = -A /\ r = -R /\ u = A /\ b = 0
  OBVIOUS
<1>4. o \in Trackers /\ DOMAIN amount = Trackers /\ DOMAIN reservation = Trackers
  BY TrackersAre DEF Typed
<1>5. /\ reservation' = [reservation EXCEPT ![o] = 0]
      /\ amount' = [amount EXCEPT ![o] = 0]
      /\ unbooked' = [unbooked EXCEPT ![QueryOf[o]] = @ + A]
      /\ missed' = [missed EXCEPT ![QueryOf[o]] = @ \cup (IF A = 0 THEN {} ELSE {"gone"})]
      /\ todo' = [todo EXCEPT ![o] = w] /\ leaked' = leaked /\ live' = live
  BY <1>2, <1>3 DEF Gone
<1>6. R + r = 0 /\ A + a = 0
  BY <1>a
<1>7. reservation' = [reservation EXCEPT ![o] = @ + r] /\ amount' = [amount EXCEPT ![o] = @ + a]
  BY <1>3, <1>5, <1>6
<1>8. unbooked' = [unbooked EXCEPT ![QueryOf[o]] = @ + u]
  BY <1>a, <1>5
<1>9. /\ live' \in [Queries -> [Sizes -> Int]]
      /\ \A p \in Queries : /\ p = QueryOf[o] => Bytes(live'[p]) = Bytes(live[p]) + b
                            /\ p # QueryOf[o] => Bytes(live'[p]) = Bytes(live[p])
  BY <1>a, <1>5, LiveKept
<1>b. /\ missed' = [p \in Queries |-> missed'[p]] /\ \A p \in Queries : p # q => missed'[p] = missed[p]
      /\ missed'[q] = missed[q] \cup (IF A = 0 THEN {} ELSE {"gone"})
  BY <1>0, <1>5 DEF Typed
<1>c. Signed(missed[q], unbooked[q]) => Signed(missed'[q], unbooked[q] + u)
  <2>1. unbooked[q] \in Int
    BY <1>0 DEF Typed
  <2>2. Signed(missed[q], unbooked[q])
           => Signed(missed[q] \cup (IF A = 0 THEN {} ELSE {"gone"}), unbooked[q] + A)
    BY <2>1, SignedGone
  <2> QED BY <1>a, <1>b, <2>2
<1>10. Typed' /\ Balanced(o, x, y, z, x + (a + r), y, z + ((a + u) - b))
  BY <1>1, <1>5, <1>7, <1>8, <1>9, <1>0, <1>b, <1>c, CountersMove
<1>11. x + (a + r) = x - (A + R) /\ z + ((a + u) - b) = z
  BY <1>a
<1>12. todo'[o] = w
  BY <1>5, Updated
<1>13. amount'[o] = 0 /\ reservation'[o] = 0
  BY <1>4, <1>5
<1> QED BY <1>3, <1>10, <1>11, <1>12, <1>13

LEMMA SwapDone ==
    ASSUME Typed, NEW o \in Operators, NEW old \in Sizes, NEW new \in Sizes,
           NEW w \in Lists, todo[o] = Cons(Do("swap", o, <<old, new>>), w), Step(o),
           NEW x, NEW y, NEW z
    PROVE  /\ Typed' /\ todo'[o] = Cat(OperatorAcquire(o, new), <<Do("kept", o, old)>>)
           /\ Balanced(o, x, y, z, x, y, z)
<1>1. PICK e : e.op = "swap" /\ e.n = <<old, new>> /\ Does(o, e, w)
  <2>1. "swap" \in OpNames /\ o \in {o, QueryOf[o], Global} /\ old \in Int /\ new \in Int
    BY TrackersAre DEF OpNames
  <2>2. PICK p : p = <<old, new>> /\ p \in Int \X Int
    BY <2>1
  <2> QED BY <2>1, <2>2, HeadIs
<1>2. Swap(o, e, w)
  BY <1>1, DoesOne
<1>4. e.n[1] = old /\ e.n[2] = new
  BY <1>1
<1>5. /\ todo' = [todo EXCEPT ![o] = Cat(OperatorAcquire(o, new), <<Do("kept", o, old)>>)]
      /\ UNCHANGED <<amount, reservation, live, leaked, unbooked, missed>>
  BY <1>2, <1>4 DEF Swap, Cat
<1>6. todo'[o] = Cat(OperatorAcquire(o, new), <<Do("kept", o, old)>>)
  BY <1>5, Updated
<1>7. Typed'
  BY <1>1, <1>5, OthersKeep DEF Typed
<1>8. Balanced(o, x, y, z, x, y, z)
  BY <1>5, NothingMoves
<1> QED BY <1>6, <1>7, <1>8

-----------------------------------------------------------------------------
LEMMA Acquires ==
    ASSUME Typed, NEW o \in Operators, NEW n \in Sizes
    PROVE  /\ Asking(o, OperatorAcquire(o, n), 0, 0)
           /\ \A old \in Sizes : Asking(o, Cat(OperatorAcquire(o, n), <<Do("kept", o, old)>>), 0, 0)
<1>1. PICK get \in Nat : get = GetFromParent(reservation[o] - n, MaxReserve.operator)
  <2>a. o \in Trackers /\ Sizes \subseteq Nat
    BY TrackersAre
  <2>b. reservation[o] \in Int
    BY <2>a DEF Typed
  <2>0. reservation[o] \in Int /\ n \in Int
    BY <2>a, <2>b
  <2>1. PICK will \in Int : will = reservation[o] - n
    BY <2>0
  <2>2. PICK max \in Nat : max = MaxReserve.operator /\ max > 0
    BY TrackersAre
  <2> QED BY <2>1, <2>2, ParentIs
<1>2. PICK a, b, c \in Entry : /\ a = Do("alloc", QueryOf[o], get) /\ b = Do("reserve", QueryOf[o], get)
                               /\ c = Do("got", o, <<n, get>>)
  <2>1. get \in Int /\ 0 \in Sizes \cup {0}
    OBVIOUS
  <2> QED BY <2>1, GotLists
<1>3. OperatorAcquire(o, n) = IF get > 0 THEN Two(a, b, c) ELSE One(c)
  BY <1>1, <1>2 DEF OperatorAcquire, Two, One
<1>4. Two(a, b, c) = Cons(a, Cons(b, Cons(c, <<>>))) /\ One(c) = Cons(c, <<>>)
  BY Longer, NoList
<1>5. GotList(o, n, get, 0) = Cons(c, <<>>)
  BY <1>2 DEF GotList, Kept
<1>6. -get \in Int /\ (~(get > 0) => -get = 0)
  OBVIOUS
<1>7. Asks(o, n, get, 0, 0, OperatorAcquire(o, n), 0, 0)
  BY <1>2, <1>3, <1>4, <1>5, <1>6 DEF Asks
<1>8. Asking(o, OperatorAcquire(o, n), 0, 0)
  BY <1>7 DEF Asking
<1>9. ASSUME NEW old \in Sizes PROVE Asking(o, Cat(OperatorAcquire(o, n), <<Do("kept", o, old)>>), 0, 0)
  <2>1. old \in Int /\ old # 0
    BY TrackersAre
  <2>2. PICK d : d = Do("kept", o, old) /\ d \in Entry
    BY <2>1, Entries
  <2>3. Cons(d, <<>>) \in Lists /\ <<d>> = Cons(d, <<>>)
    BY <2>2, OneIs, Listed, NoList DEF Lists
  <2>4. PICK k : k = Cons(d, <<>>) /\ k \in Lists /\ k = Kept(o, old) /\ k = <<d>>
    BY <2>1, <2>2, <2>3 DEF Kept
  <2>5. k \in Lists
    BY <2>4
  <2>6. Cat(Two(a, b, c), k) = Cons(a, Cons(b, Cons(c, k))) /\ Cat(One(c), k) = Cons(c, k)
    BY ONLY <2>5, a \in Entry, b \in Entry, c \in Entry, Longer
  <2>7. GotList(o, n, get, old) = Cons(c, k)
    BY <1>2, <2>4 DEF GotList
  <2>8. Asks(o, n, get, 0, old, Cat(OperatorAcquire(o, n), k), 0, 0)
    BY <1>2, <1>3, <1>6, <2>6, <2>7 DEF Asks
  <2>9. Asking(o, Cat(OperatorAcquire(o, n), k), 0, 0)
    BY <2>8 DEF Asking
  <2> QED BY <2>2, <2>4, <2>9
<1> QED BY <1>8, <1>9

LEMMA FollowIs ==
    ASSUME NEW o \in Operators
    PROVE  /\ <<>> \in Follow(o) /\ Follow(o) \subseteq Lists
           /\ \A old, new \in Sizes : SwapList(o, old, new) \in Follow(o)
<1>1. ASSUME NEW old \in Sizes, NEW new \in Sizes PROVE SwapList(o, old, new) \in Lists
  <2>1. PICK i, j \in Int : i = old /\ j = new
    BY TrackersAre
  <2>2. o \in {o, QueryOf[o], Global}
    OBVIOUS
  <2>3. Do("swap", o, <<i, j>>) \in Entry
    BY ONLY <2>2, i \in Int, j \in Int, o \in Operators, Entries
  <2> QED BY <2>1, <2>3, OneIs DEF SwapList
<1> QED BY <1>1, NoList DEF Follow

(* The gives of a release, one after the other. *)
LEMMA GiveBacks ==
    ASSUME NEW o \in Operators, NEW k \in Nat, NEW s \in Lists
    PROVE  /\ GiveBack(o) \in Entry /\ Repeat(GiveBack(o), k) \in Lists /\ Cat(Repeat(GiveBack(o), k), s) \in Lists
           /\ Cat(Repeat(GiveBack(o), 0), s) = s
           /\ Cat(Repeat(GiveBack(o), k + 1), s) = Cons(GiveBack(o), Cat(Repeat(GiveBack(o), k), s))
<1>1. PICK e \in Entry : e = GiveBack(o)
  <2>1. MaxReserve.operator \in Int
    BY TrackersAre
  <2> QED BY <2>1, Entries DEF GiveBack
<1>2. PICK r : r = Repeat(e, k) /\ r \in Seq(Entry) /\ Repeat(e, k + 1) = Cons(e, r)
  BY RepeatIs
<1>3. Repeat(e, 0) = <<>>
  BY RepeatIs
<1>4. s \in Seq(Entry) /\ r \in Seq(Entry)
  BY <1>2 DEF Lists
<1>5. Cat(Cons(e, r), s) = Cons(e, Cat(r, s)) /\ Cat(r, s) \in Seq(Entry) /\ Cat(<<>>, s) = s
  BY ONLY <1>4, e \in Entry, CatIs
<1> QED BY <1>1, <1>2, <1>3, <1>5 DEF Lists

LEMMA Releases ==
    ASSUME Typed, NEW o \in Operators, NEW n \in Sizes
    PROVE  /\ Returning(o, OperatorRelease(o, n), 0, n)
           /\ \A w \in Follow(o) : Returning(o, Cat(OperatorRelease(o, n), w), 0, n)
<1>1. PICK k \in Nat : /\ ReleaseParent(reservation[o] + n, MaxReserve.operator) = k * MaxReserve.operator
                       /\ ReleaseParent(reservation[o] + n, MaxReserve.operator) \div MaxReserve.operator = k
  <2>a. o \in Trackers /\ Sizes \subseteq Nat
    BY TrackersAre
  <2>b. reservation[o] \in Int
    BY <2>a DEF Typed
  <2>0. reservation[o] \in Int /\ n \in Int
    BY <2>a, <2>b
  <2>1. PICK will \in Int : will = reservation[o] + n
    BY <2>0
  <2>2. PICK max \in Nat : max = MaxReserve.operator /\ max > 0
    BY TrackersAre
  <2> QED BY <2>1, <2>2, ParentIs
<1>2. PICK rel \in Int : rel = k * MaxReserve.operator /\ 0 = rel - k * MaxReserve.operator
  <2>1. PICK max \in Nat : max = MaxReserve.operator
    BY TrackersAre
  <2>2. k * max \in Int /\ 0 = k * max - k * max
    OBVIOUS
  <2> QED BY <2>1, <2>2
<1>3. PICK f \in Entry : f = Do("freed", o, <<n, rel>>)
  <2>1. n \in Int
    BY TrackersAre
  <2> QED BY <2>1, Entries
<1>4. PICK r : r = Repeat(GiveBack(o), k) /\ r \in Lists
  BY GiveBacks, NoList
<1>5. OperatorRelease(o, n) = Cat(r, <<f>>)
  BY <1>1, <1>2, <1>3, <1>4 DEF OperatorRelease, Cat, Repeat, GiveBack
<1>6. <<f>> = Cons(f, <<>>) /\ Cons(f, <<>>) \in Lists
  BY OneIs, Listed, NoList DEF Lists
<1>7. ASSUME NEW w \in Follow(o) PROVE Returning(o, Cat(r, Cons(f, w)), 0, n)
  BY <1>2, <1>3, <1>4 DEF Returning
<1>8. Returning(o, OperatorRelease(o, n), 0, n)
  <2>1. <<>> \in Follow(o)
    BY FollowIs
  <2> QED BY <1>5, <1>6, <1>7, <2>1
<1>9. ASSUME NEW w \in Follow(o) PROVE Returning(o, Cat(OperatorRelease(o, n), w), 0, n)
  <2>1. w \in Lists
    BY FollowIs
  <2>2. PICK g : g = <<f>> /\ g = Cons(f, <<>>) /\ g \in Lists
    BY <1>6
  <2>3. Cat(g, w) = Cons(f, w)
    BY <2>2 DEF Cat, Cons
  <2>4. Cat(Cat(r, g), w) = Cat(r, Cat(g, w))
    BY <1>4, <2>1, <2>2, JoinsAssociate DEF Cat, Lists
  <2> QED BY <1>5, <1>7, <2>2, <2>3, <2>4
<1> QED BY <1>8, <1>9

-----------------------------------------------------------------------------
(* What a step makes of each stage. *)
LEMMA FreesList ==
    ASSUME NEW o \in Operators, NEW m \in Int, NEW k \in Int, NEW w \in Lists
    PROVE  /\ Cons(Do("free", QueryOf[o], m), w) \in Lists
           /\ Cons(Do("add", QueryOf[o], -k), Cons(Do("free", QueryOf[o], m), w)) \in Lists
<1>1. PICK a, b \in Entry : a = Do("free", QueryOf[o], m) /\ b = Do("add", QueryOf[o], -k)
  <2>1. PICK j \in Int : j = -k
    OBVIOUS
  <2> QED BY <2>1, Entries
<1> QED BY <1>1, ListIs

LEMMA FreesSteps ==
    ASSUME Typed, NEW o \in Operators, NEW w \in Lists, NEW m \in Int, NEW y \in Int, Frees(o, w, m, todo[o], y),
           Step(o), NEW x \in Int, NEW z \in Int
    PROVE  /\ Typed' /\ amount'[o] = amount[o] /\ reservation'[o] = reservation[o]
           /\ \/ todo'[o] = w /\ Balanced(o, x, y, z, x + m, 0, z)
              \/ \E y1 \in Int : Frees(o, w, m, todo'[o], y1) /\ Balanced(o, x, y, z, x, y1, z)
<1>0. PICK q : q = QueryOf[o] /\ q # Global /\ q \in {QueryOf[o], Global}
  BY TrackersAre
<1>1. PICK k \in Int :
         \/ todo[o] = Cons(Do("free", q, m), w) /\ y = m
         \/ todo[o] = Cons(Do("add", q, -k), Cons(Do("free", q, m), w)) /\ y = m + k
         \/ todo[o] = Cons(Do("free", Global, k), Cons(Do("add", q, -k), Cons(Do("free", q, m), w))) /\ y = m
  BY <1>0 DEF Frees
<1>2. PICK s, r \in Lists : s = Cons(Do("free", q, m), w) /\ r = Cons(Do("add", q, -k), s)
  <2>1. /\ Cons(Do("free", QueryOf[o], m), w) \in Lists
        /\ Cons(Do("add", QueryOf[o], -k), Cons(Do("free", QueryOf[o], m), w)) \in Lists
    BY ONLY o \in Operators, m \in Int, k \in Int, w \in Lists, FreesList
  <2> QED BY <1>0, <2>1, Zenon
<1>3. CASE todo[o] = s /\ y = m
  <2>1. /\ Typed' /\ todo'[o] = w /\ amount'[o] = amount[o] /\ reservation'[o] = reservation[o]
        /\ Balanced(o, x, y, z, x + m, y - m, z)
    BY <1>0, <1>2, <1>3, FreeDone
  <2>2. y - m = 0
    BY <1>3
  <2> QED BY <2>1, <2>2
<1>4. CASE todo[o] = r /\ y = m + k
  <2>0. PICK j \in Int : j = -k
    OBVIOUS
  <2>1. /\ Typed' /\ todo'[o] = s /\ amount'[o] = amount[o] /\ reservation'[o] = reservation[o]
        /\ Balanced(o, x, y, z, x, y + j, z)
    BY <1>0, <1>2, <1>4, <2>0, AddDone
  <2>2. y + j = m
    BY <1>4, <2>0
  <2>3. Frees(o, w, m, s, m)
    BY <1>0, <1>2 DEF Frees
  <2> QED BY <2>1, <2>2, <2>3
<1>5. CASE todo[o] = Cons(Do("free", Global, k), r) /\ y = m
  <2>1. /\ Typed' /\ todo'[o] = r /\ amount'[o] = amount[o] /\ reservation'[o] = reservation[o]
        /\ Balanced(o, x, y, z, x, y + k, z)
    BY <1>0, <1>2, <1>5, FreeDone
  <2>2. y + k = m + k /\ m + k \in Int
    BY <1>5
  <2>3. Frees(o, w, m, r, m + k)
    BY <1>0, <1>2 DEF Frees
  <2> QED BY <2>1, <2>2, <2>3
<1> QED BY <1>1, <1>2, <1>3, <1>4, <1>5

Worked(o, x, y, z) ==
    /\ Typed'
    /\ \E x1, y1, z1 \in Int : Balanced(o, x, y, z, x1, y1, z1) /\ Working(o, todo'[o], x1, y1, z1)

LEMMA ReturningSteps ==
    ASSUME Typed, NEW o \in Operators, NEW x \in Int, NEW z \in Int, Returning(o, todo[o], x, z), Step(o)
    PROVE  Worked(o, x, 0, z)
<1>1. PICK k \in Nat, n \in Sizes, release \in Int, w \in Follow(o) :
         /\ todo[o] = Cat(Repeat(GiveBack(o), k), Cons(Do("freed", o, <<n, release>>), w))
         /\ x = release - k * MaxReserve.operator /\ z = n
  BY DEF Returning
<1>2. PICK max \in Nat : max = MaxReserve.operator
  BY TrackersAre
<1>3. PICK f : f = Cons(Do("freed", o, <<n, release>>), w) /\ f \in Lists /\ w \in Lists
  <2>1. PICK i \in Int : i = n
    BY TrackersAre
  <2>2. Do("freed", o, <<i, release>>) \in Entry
    BY Entries
  <2> QED BY <2>1, <2>2, FollowIs, ListIs
<1>4. CASE k = 0
  <2>1. todo[o] = f
    <3>1. Cat(Repeat(GiveBack(o), 0), f) = f
      BY <1>3, GiveBacks
    <3> QED BY <1>1, <1>3, <1>4, <3>1
  <2>2. 0 \in Int
    OBVIOUS
  <2>3. Typed' /\ todo'[o] = w /\ Balanced(o, x, 0, z, x - release, 0, z - n)
    BY <1>3, <2>1, <2>2, FreedDone
  <2>4. x - release = 0 /\ z - n = 0
    <3>1. x = release - 0 * max /\ 0 * max = 0
      BY <1>1, <1>2, <1>4
    <3>2. z = n
      BY <1>1
    <3> QED BY <3>1, <3>2
  <2>5. Working(o, w, 0, 0, 0)
    BY DEF Working
  <2> QED BY <2>2, <2>3, <2>4, <2>5 DEF Worked
<1>5. CASE k # 0
  <2>1. PICK j \in Nat : k = j + 1
    <3>1. k - 1 \in Nat /\ k = (k - 1) + 1
      BY <1>5
    <3> QED BY <3>1
  <2>2. PICK s : s = Cat(Repeat(GiveBack(o), j), f) /\ s \in Lists /\ todo[o] = Cons(GiveBack(o), s)
    BY <1>1, <1>3, <2>1, GiveBacks
  <2>3. /\ Typed' /\ Balanced(o, x, 0, z, x, max, z) /\ Frees(o, s, max, todo'[o], max)
    <3>1. todo[o] = Cons(Do("give", QueryOf[o], max), s) /\ max \in Int
      BY <1>2, <2>2 DEF GiveBack
    <3> QED BY <2>2, <3>1, GiveDone
  <2>4. x + max = release - j * MaxReserve.operator
    <3>1. (j + 1) * max = j * max + max /\ j * max \in Int
      OBVIOUS
    <3>2. PICK t \in Int : t = j * max
      BY <3>1
    <3>3. x = release - (t + max)
      BY <1>1, <1>2, <2>1, <3>1, <3>2
    <3>4. x + max = release - t
      BY <3>3
    <3> QED BY <1>2, <3>2, <3>4
  <2>5. Returning(o, s, x + max, z)
    <3>1. z = n
      BY <1>1
    <3> QED BY <1>3, <2>2, <2>4, <3>1 DEF Returning
  <2>6. Working(o, todo'[o], x, max, z)
    <3>1. max \in Int /\ s \in Lists
      BY <2>2
    <3> QED BY <2>3, <2>5, <3>1 DEF Working
  <2>7. max \in Int
    OBVIOUS
  <2> QED BY <2>3, <2>6, <2>7 DEF Worked
<1> QED BY <1>4, <1>5

(* The bytes of a block are on their way to the query. *)
LEMMA GivingSteps ==
    ASSUME Typed, NEW o \in Operators, NEW x \in Int, NEW y \in Int, NEW z \in Int, NEW w \in Lists, NEW m \in Int,
           Returning(o, w, x + m, z), Frees(o, w, m, todo[o], y), Step(o)
    PROVE  Worked(o, x, y, z)
<1>1. /\ Typed'
      /\ \/ todo'[o] = w /\ Balanced(o, x, y, z, x + m, 0, z)
         \/ \E y1 \in Int : Frees(o, w, m, todo'[o], y1) /\ Balanced(o, x, y, z, x, y1, z)
  BY FreesSteps
<1>2. CASE todo'[o] = w /\ Balanced(o, x, y, z, x + m, 0, z)
  <2>1. Working(o, w, x + m, 0, z)
    BY DEF Working
  <2>2. x + m \in Int /\ 0 \in Int
    OBVIOUS
  <2> QED BY <1>1, <1>2, <2>1, <2>2 DEF Worked
<1>3. CASE \E y1 \in Int : Frees(o, w, m, todo'[o], y1) /\ Balanced(o, x, y, z, x, y1, z)
  <2>1. PICK y1 \in Int : Frees(o, w, m, todo'[o], y1) /\ Balanced(o, x, y, z, x, y1, z)
    BY <1>3
  <2>2. Working(o, todo'[o], x, y1, z)
    BY <2>1 DEF Working
  <2> QED BY <1>1, <2>1, <2>2 DEF Worked
<1> QED BY <1>1, <1>2, <1>3

LEMMA FollowSteps ==
    ASSUME Typed, NEW o \in Operators, todo[o] \in Follow(o), Step(o)
    PROVE  Worked(o, 0, 0, 0)
<1>1. todo[o] # <<>>
  BY DEF Step
<1>2. PICK old, new \in Sizes : todo[o] = SwapList(o, old, new)
  BY <1>1 DEF Follow
<1>3. /\ Typed' /\ todo'[o] = Cat(OperatorAcquire(o, new), <<Do("kept", o, old)>>)
      /\ Balanced(o, 0, 0, 0, 0, 0, 0)
  <2>1. PICK s \in Lists : s = <<>>
    BY NoList
  <2>2. todo[o] = Cons(Do("swap", o, <<old, new>>), s)
    BY <1>2, <2>1 DEF SwapList
  <2> QED BY <2>2, SwapDone
<1>4. Working(o, todo'[o], 0, 0, 0)
  BY <1>3, Acquires DEF Working
<1> QED BY <1>3, <1>4 DEF Worked

-----------------------------------------------------------------------------
(* The lists of an acquire, from its end. *)
LEMMA Lengths ==
    ASSUME NEW o \in Operators, NEW n \in Sizes, NEW get \in Int, NEW g \in Int, NEW b \in Sizes \cup {0}
    PROVE  /\ KeptBytes(Cons(Do("reserve", QueryOf[o], get), GotList(o, n, get, b))) = b
           /\ KeptBytes(FetchedList(o, n, get, g, b)) = b
           /\ -FetchedList(o, n, get, g, b)[2].n = get
<1>1. /\ GotList(o, n, get, b) \in Lists /\ AddedList(o, n, get, b) \in Lists
      /\ Do("reserve", QueryOf[o], get) \in Entry /\ Do("add", QueryOf[o], -get) \in Entry
      /\ Do("add", QueryOf[o], g) \in Entry /\ Do("add", QueryOf[o], -get).n = -get
  BY GotLists
<1>2. GotList(o, n, get, b) # <<>> /\ KeptBytes(GotList(o, n, get, b)) = b
  BY KeptOf
<1>3. KeptBytes(Cons(Do("reserve", QueryOf[o], get), GotList(o, n, get, b))) = b
  BY ONLY <1>1, <1>2, KeptIs
<1>4. AddedList(o, n, get, b) # <<>> /\ AddedList(o, n, get, b)[1] = Do("add", QueryOf[o], -get)
  BY ONLY <1>1, ListIs DEF AddedList
<1>5. KeptBytes(AddedList(o, n, get, b)) = b
  BY ONLY <1>1, <1>2, KeptIs DEF AddedList
<1>6. KeptBytes(FetchedList(o, n, get, g, b)) = b /\ FetchedList(o, n, get, g, b)[2] = AddedList(o, n, get, b)[1]
  BY ONLY <1>1, <1>4, <1>5, KeptIs DEF FetchedList
<1>7. -(-get) = get
  OBVIOUS
<1>8. FetchedList(o, n, get, g, b)[2].n = -get
  BY ONLY <1>1, <1>4, <1>6
<1> QED BY ONLY <1>3, <1>6, <1>7, <1>8

(* The call ends without a debt. *)
LEMMA EndsWell ==
    ASSUME NEW o \in Operators, NEW x, NEW y, NEW x1 \in Int, NEW y1 \in Int, x1 = 0, y1 = 0,
           Typed', todo'[o] = <<>>, Balanced(o, x, y, 0, x1, y1, 0)
    PROVE  Worked(o, x, y, 0)
<1>1. <<>> \in Follow(o)
  BY FollowIs
<1>2. Working(o, <<>>, 0, 0, 0)
  BY <1>1 DEF Working
<1>3. Balanced(o, x, y, 0, 0, 0, 0)
  OBVIOUS
<1> QED BY <1>2, <1>3 DEF Worked

LEMMA StillAsks ==
    ASSUME NEW o \in Operators, NEW x, NEW y, NEW x1 \in Int, NEW y1 \in Int,
           NEW n \in Sizes, NEW get \in Nat, NEW g \in Int, NEW b \in Sizes \cup {0},
           Typed', Asks(o, n, get, g, b, todo'[o], x1, y1), Balanced(o, x, y, 0, x1, y1, 0)
    PROVE  Worked(o, x, y, 0)
<1>1. Asking(o, todo'[o], x1, y1)
  BY DEF Asking
<1>2. Working(o, todo'[o], x1, y1, 0)
  BY <1>1 DEF Working
<1>3. 0 \in Int
  OBVIOUS
<1> QED BY <1>2, <1>3 DEF Worked

LEMMA AskingSteps ==
    ASSUME Typed, NEW o \in Operators, NEW x \in Int, NEW y \in Int, Asking(o, todo[o], x, y), Step(o)
    PROVE  Worked(o, x, y, 0)
<1>0. PICK q : q = QueryOf[o] /\ q # Global /\ q \in {QueryOf[o], Global}
  BY TrackersAre
<1>1. PICK n \in Sizes, get \in Nat, g \in Int, b \in Sizes \cup {0} : Asks(o, n, get, g, b, todo[o], x, y)
  BY DEF Asking
<1>2. PICK neg \in Int : neg = -get /\ get \in Int
  OBVIOUS
<1>3. 0 \in Int /\ Global \in {QueryOf[o], Global}
  OBVIOUS
<1>4. PICK L1, L2, L3, L6 \in Lists :
         /\ L1 = GotList(o, n, get, b) /\ L2 = AddedList(o, n, get, b) /\ L3 = FetchedList(o, n, get, g, b)
         /\ L6 = Cons(Do("reserve", q, get), L1)
  BY <1>0, <1>2, GotLists
<1>5. CASE todo[o] = L1 /\ x = -get /\ y = 0
  <2>1. PICK s \in Lists : s = Kept(o, b)
    BY <1>2, GotLists
  <2>2. todo[o] = Cons(Do("got", o, <<n, get>>), s)
    BY <1>4, <1>5, <2>1 DEF GotList
  <2>a. KeptBytes(todo[o]) = b
    BY <1>2, <1>4, <1>5, KeptOf
  <2>3. Typed' /\ todo'[o] = <<>> /\ Balanced(o, x, y, 0, x + get, y, 0)
    BY <1>2, <1>3, <2>2, <2>a, GotDone
  <2>4. x + get \in Int /\ x + get = 0
    BY <1>5
  <2> QED BY <1>5, <2>3, <2>4, EndsWell
<1>6. CASE todo[o] = L2 /\ x = -get /\ y = get
  <2>1. todo[o] = Cons(Do("add", QueryOf[o], neg), L1)
    BY <1>2, <1>4, <1>6 DEF AddedList
  <2>2. Typed' /\ todo'[o] = L1 /\ Balanced(o, x, y, 0, x, y + neg, 0)
    BY <1>3, <2>1, AddDone
  <2>3. y + neg = 0 /\ y + neg \in Int
    BY <1>2, <1>6
  <2>4. Asks(o, n, get, g, b, todo'[o], x, y + neg)
    BY <1>4, <1>6, <2>2, <2>3 DEF Asks
  <2> QED BY <2>2, <2>3, <2>4, StillAsks
<1>7. CASE todo[o] = L3 /\ x = -get /\ y = get - g
  <2>1. todo[o] = Cons(Do("add", QueryOf[o], g), L2)
    BY <1>4, <1>7 DEF FetchedList
  <2>2. Typed' /\ todo'[o] = L2 /\ Balanced(o, x, y, 0, x, y + g, 0)
    BY <1>3, <2>1, AddDone
  <2>3. y + g = get /\ y + g \in Int
    BY <1>7
  <2>4. Asks(o, n, get, g, b, todo'[o], x, y + g)
    BY <1>4, <1>7, <2>2, <2>3 DEF Asks
  <2> QED BY <2>2, <2>3, <2>4, StillAsks
<1>8. CASE todo[o] = Cons(Do("alloc", Global, g), L3) /\ x = -get /\ y = get
  <2>2. /\ Typed' /\ (todo'[o] = L3 \/ todo'[o] = Cons(Do("throw", Global, g), L3))
        /\ Balanced(o, x, y, 0, x, y - g, 0)
    BY <1>3, <1>8, AllocDone
  <2>3. y - g = get - g /\ y - g \in Int
    BY <1>8
  <2>4. Asks(o, n, get, g, b, todo'[o], x, y - g)
    BY <1>4, <1>8, <2>2, <2>3 DEF Asks
  <2> QED BY <2>2, <2>3, <2>4, StillAsks
<1>9. CASE todo[o] = Cons(Do("throw", Global, g), L3) /\ x = -get /\ y = get - g
  <2>1. KeptBytes(L3) = b /\ -L3[2].n = get
    BY <1>2, <1>4, Lengths
  <2>2. Typed' /\ todo'[o] = <<>> /\ Balanced(o, x, y, 0, x + get, y + (g - get), 0)
    BY <1>2, <1>3, <1>9, <2>1, ThrowDone
  <2>3. x + get \in Int /\ x + get = 0 /\ y + (g - get) = 0 /\ y + (g - get) \in Int
    BY <1>9
  <2> QED BY <2>2, <2>3, EndsWell
<1>10. CASE todo[o] = L6 /\ x = -get /\ y = get
  <2>1. todo[o] = Cons(Do("reserve", QueryOf[o], get), L1)
    BY <1>0, <1>4, <1>10
  <2>2. /\ Typed' /\ Balanced(o, x, y, 0, x, y, 0)
        /\ \/ todo'[o] = Cons(Do("add", QueryOf[o], -get), L1)
           \/ \E h \in Int : todo'[o] = Cons(Do("alloc", Global, h), Cons(Do("add", QueryOf[o], h),
                                             Cons(Do("add", QueryOf[o], -get), L1)))
    BY <1>2, <2>1, ReserveDone
  <2>3. CASE todo'[o] = Cons(Do("add", QueryOf[o], -get), L1)
    <3>1. todo'[o] = AddedList(o, n, get, b)
      BY <1>4, <2>3 DEF AddedList
    <3>2. Asks(o, n, get, g, b, todo'[o], x, y)
      BY <1>10, <3>1 DEF Asks
    <3> QED BY <2>2, <3>2, StillAsks
  <2>4. CASE \E h \in Int : todo'[o] = Cons(Do("alloc", Global, h), Cons(Do("add", QueryOf[o], h),
                                            Cons(Do("add", QueryOf[o], -get), L1)))
    <3>1. PICK h \in Int : todo'[o] = Cons(Do("alloc", Global, h), Cons(Do("add", QueryOf[o], h),
                                           Cons(Do("add", QueryOf[o], -get), L1)))
      BY <2>4
    <3>2. todo'[o] = Cons(Do("alloc", Global, h), FetchedList(o, n, get, h, b))
      BY <1>4, <3>1 DEF AddedList, FetchedList
    <3>3. Asks(o, n, get, h, b, todo'[o], x, y)
      BY <1>10, <3>2 DEF Asks
    <3> QED BY <2>2, <3>3, StillAsks
  <2> QED BY <2>2, <2>3, <2>4
<1>11. CASE todo[o] = Cons(Do("alloc", q, get), L6) /\ x = 0 /\ y = 0
  <2>2. /\ Typed' /\ (todo'[o] = L6 \/ todo'[o] = Cons(Do("throw", q, get), L6))
        /\ Balanced(o, x, y, 0, x - get, y + get, 0)
    BY <1>0, <1>2, <1>3, <1>11, AllocDone
  <2>3. x - get = -get /\ x - get \in Int /\ y + get = get /\ y + get \in Int
    BY <1>11
  <2>4. Asks(o, n, get, g, b, todo'[o], x - get, y + get)
    BY <1>0, <1>4, <2>2, <2>3 DEF Asks
  <2> QED BY <2>2, <2>3, <2>4, StillAsks
<1>12. CASE todo[o] = Cons(Do("throw", q, get), L6) /\ x = -get /\ y = get
  <2>1. KeptBytes(L6) = b
    BY <1>0, <1>2, <1>4, Lengths
  <2>2. Typed' /\ todo'[o] = <<>> /\ Balanced(o, x, y, 0, x + get, y - get, 0)
    BY <1>0, <1>2, <1>3, <1>12, <2>1, ThrowDone
  <2>3. x + get \in Int /\ x + get = 0 /\ y - get = 0 /\ y - get \in Int
    BY <1>12
  <2> QED BY <2>2, <2>3, EndsWell
<1> QED BY <1>0, <1>1, <1>4, <1>5, <1>6, <1>7, <1>8, <1>9, <1>10, <1>11, <1>12 DEF Asks

-----------------------------------------------------------------------------
Left(o, x, y) ==
    /\ Typed'
    /\ \E x1, y1 \in Int : /\ Balanced(o, x, y, 0, x1, y1, 0)
                           /\ Leaving(o, todo'[o], amount'[o], reservation'[o], x1, y1, 0)

LEMMA GoneLists ==
    ASSUME NEW o \in Operators
    PROVE  /\ GoneList(o) \in Lists /\ GoneList(o) # <<>>
           /\ \A m \in Int : Cons(Do("give", QueryOf[o], m), GoneList(o)) \in Lists
<1>1. PICK e \in Entry : e = Do("gone", o, 0)
  <2>1. 0 \in Int
    OBVIOUS
  <2> QED BY <2>1, Entries
<1>2. GoneList(o) \in Lists /\ GoneList(o) # <<>>
  BY <1>1, OneIs DEF GoneList
<1>3. \A m \in Int : Do("give", QueryOf[o], m) \in Entry
  BY Entries
<1> QED BY <1>2, <1>3, ListIs

LEMMA EndingSteps ==
    ASSUME Typed, NEW o \in Operators, NEW x \in Int, Ending(o, todo[o], amount[o] + reservation[o], x), Step(o)
    PROVE  Left(o, x, 0)
<1>0. 0 \in Int
  OBVIOUS
<1>1. PICK A, R \in Int : A = amount[o] /\ R = reservation[o]
  BY TrackersAre DEF Typed
<1>2. PICK t \in Int : t = A + R
  OBVIOUS
<1>a. Ending(o, todo[o], t, x)
  BY <1>1, <1>2
<1>3. CASE todo[o] = GoneList(o) /\ x = t
  <2>1. PICK s \in Lists : s = <<>>
    BY NoList
  <2>2. todo[o] = Cons(Do("gone", o, 0), s)
    BY <1>3, <2>1 DEF GoneList
  <2>3. /\ Typed' /\ todo'[o] = s /\ amount'[o] = 0 /\ reservation'[o] = 0
        /\ Balanced(o, x, 0, 0, x - (amount[o] + reservation[o]), 0, 0)
    BY <1>0, <2>2, GoneDone
  <2>4. x - (A + R) = 0
    BY <1>2, <1>3
  <2>5. Balanced(o, x, 0, 0, 0, 0, 0)
    BY <1>1, <2>3, <2>4
  <2>6. Leaving(o, todo'[o], amount'[o], reservation'[o], 0, 0, 0)
    BY <2>1, <2>3 DEF Leaving
  <2> QED BY <1>0, <2>3, <2>5, <2>6 DEF Left
<1>4. ASSUME NEW m \in Int, NEW w \in Lists, todo[o] = Cons(Do("give", QueryOf[o], m), w), Ending(o, w, t, x + m)
      PROVE  Left(o, x, 0)
  <2>1. /\ Typed' /\ amount'[o] = amount[o] /\ reservation'[o] = reservation[o]
        /\ Balanced(o, x, 0, 0, x, m, 0) /\ Frees(o, w, m, todo'[o], m)
    BY <1>0, <1>4, GiveDone
  <2>2. Ending(o, w, amount'[o] + reservation'[o], x + m)
    BY <1>1, <1>2, <1>4, <2>1
  <2>3. Leaving(o, todo'[o], amount'[o], reservation'[o], x, m, 0)
    BY <2>1, <2>2 DEF Leaving
  <2> QED BY <2>1, <2>3 DEF Left
<1>5. CASE \E m \in Int : todo[o] = Cons(Do("give", QueryOf[o], m), GoneList(o)) /\ x = t - m
  <2>1. PICK m \in Int : todo[o] = Cons(Do("give", QueryOf[o], m), GoneList(o)) /\ x = t - m
    BY <1>5
  <2>2. x + m = t
    BY <2>1
  <2>3. Ending(o, GoneList(o), t, x + m)
    BY <2>2 DEF Ending
  <2> QED BY <1>4, <2>1, <2>3, GoneLists
<1>6. CASE \E m1, m2 \in Int :
             /\ todo[o] = Cons(Do("give", QueryOf[o], m1), Cons(Do("give", QueryOf[o], m2), GoneList(o)))
             /\ x = t - m1 - m2
  <2>1. PICK m1, m2 \in Int :
             /\ todo[o] = Cons(Do("give", QueryOf[o], m1), Cons(Do("give", QueryOf[o], m2), GoneList(o)))
             /\ x = t - m1 - m2
    BY <1>6
  <2>2. x + m1 = t - m2
    BY <2>1
  <2>3. Ending(o, Cons(Do("give", QueryOf[o], m2), GoneList(o)), t, x + m1)
    BY <2>2 DEF Ending
  <2> QED BY <1>4, <2>1, <2>3, GoneLists
<1> QED BY <1>a, <1>3, <1>5, <1>6 DEF Ending

LEMMA LeavingSteps ==
    ASSUME Typed, NEW o \in Operators, NEW x \in Int, NEW y \in Int, NEW z \in Int,
           Leaving(o, todo[o], amount[o], reservation[o], x, y, z), Step(o)
    PROVE  z = 0 /\ Left(o, x, y)
<1>1. todo[o] # <<>>
  BY DEF Step
<1>2. CASE Ending(o, todo[o], amount[o] + reservation[o], x) /\ y = 0 /\ z = 0
  BY <1>2, EndingSteps
<1>3. CASE \E w \in Lists, m \in Int :
             Ending(o, w, amount[o] + reservation[o], x + m) /\ Frees(o, w, m, todo[o], y) /\ z = 0
  <2>1. PICK w \in Lists, m \in Int :
             Ending(o, w, amount[o] + reservation[o], x + m) /\ Frees(o, w, m, todo[o], y) /\ z = 0
    BY <1>3
  <2>2. Frees(o, w, m, todo[o], y) /\ 0 \in Int
    BY <2>1
  <2>3. /\ Typed' /\ amount'[o] = amount[o] /\ reservation'[o] = reservation[o]
        /\ \/ todo'[o] = w /\ Balanced(o, x, y, 0, x + m, 0, 0)
           \/ \E y1 \in Int : Frees(o, w, m, todo'[o], y1) /\ Balanced(o, x, y, 0, x, y1, 0)
    BY <2>2, FreesSteps
  <2>4. Ending(o, w, amount'[o] + reservation'[o], x + m)
    BY <2>1, <2>3
  <2>5. CASE todo'[o] = w /\ Balanced(o, x, y, 0, x + m, 0, 0)
    <3>1. Leaving(o, todo'[o], amount'[o], reservation'[o], x + m, 0, 0)
      BY <2>4, <2>5 DEF Leaving
    <3>2. x + m \in Int
      OBVIOUS
    <3> QED BY <2>1, <2>2, <2>3, <2>5, <3>1, <3>2 DEF Left
  <2>6. CASE \E y1 \in Int : Frees(o, w, m, todo'[o], y1) /\ Balanced(o, x, y, 0, x, y1, 0)
    <3>1. PICK y1 \in Int : Frees(o, w, m, todo'[o], y1) /\ Balanced(o, x, y, 0, x, y1, 0)
      BY <2>6
    <3>2. Leaving(o, todo'[o], amount'[o], reservation'[o], x, y1, 0)
      BY <2>4, <3>1 DEF Leaving
    <3> QED BY <2>1, <2>3, <3>1, <3>2 DEF Left
  <2> QED BY <2>3, <2>5, <2>6
<1> QED BY <1>1, <1>2, <1>3 DEF Leaving

LEMMA WorkingSteps ==
    ASSUME Typed, NEW o \in Operators, NEW x \in Int, NEW y \in Int, NEW z \in Int,
           Working(o, todo[o], x, y, z), Step(o)
    PROVE  Worked(o, x, y, z)
<1>1. CASE todo[o] \in Follow(o) /\ x = 0 /\ y = 0 /\ z = 0
  BY <1>1, FollowSteps
<1>2. CASE Asking(o, todo[o], x, y) /\ z = 0
  BY <1>2, AskingSteps
<1>3. CASE Returning(o, todo[o], x, z) /\ y = 0
  BY <1>3, ReturningSteps
<1>4. CASE \E w \in Lists, m \in Int : Returning(o, w, x + m, z) /\ Frees(o, w, m, todo[o], y)
  BY <1>4, GivingSteps
<1> QED BY <1>1, <1>2, <1>3, <1>4 DEF Working

(* A step of a call keeps the stage of its operator, and books what it moves. *)
Advanced(o, x, y, z) ==
    \E x1, y1, z1 \in Int :
        /\ Balanced(o, x, y, z, x1, y1, z1)
        /\ IF o \in alive THEN Working(o, todo'[o], x1, y1, z1)
                          ELSE Leaving(o, todo'[o], amount'[o], reservation'[o], x1, y1, z1)

LEMMA StageSteps ==
    ASSUME Typed, NEW o \in Operators, NEW x \in Int, NEW y \in Int, NEW z \in Int, Stage(o, x, y, z), Step(o)
    PROVE  /\ Typed' /\ alive' = alive
           /\ \A p \in Operators : p # o => todo'[p] = todo[p]
           /\ Advanced(o, x, y, z)
<1>1. alive' = alive
  BY DEF Step
<1>2. \A p \in Operators : p # o => todo'[p] = todo[p]
  <2>1. Does(o, Head(todo[o]), Tail(todo[o]))
    BY Zenon DEF Step, Does
  <2> QED BY <2>1, OthersKeep
<1>3. CASE o \in alive
  <2>1. Worked(o, x, y, z)
    BY <1>3, WorkingSteps DEF Stage
  <2> QED BY <1>1, <1>2, <1>3, <2>1 DEF Worked, Advanced
<1>4. CASE o \notin alive
  <2>1. z = 0 /\ Left(o, x, y)
    BY <1>4, LeavingSteps DEF Stage
  <2>2. PICK x1, y1 \in Int : /\ Balanced(o, x, y, z, x1, y1, z)
                              /\ Leaving(o, todo'[o], amount'[o], reservation'[o], x1, y1, z)
    BY <2>1 DEF Left
  <2>3. Typed'
    BY <2>1 DEF Left
  <2> QED BY <1>1, <1>2, <1>4, <2>2, <2>3 DEF Advanced
<1> QED BY <1>3, <1>4

-----------------------------------------------------------------------------
(* The inductive invariant: the trackers of a query that is gone are idle  *)
(* and its reservation is given back, and there are debts, one triple for  *)
(* each operator, that close the books and are those of its stage.         *)
Dead == \A q \in Queries : q \notin alive =>
            reservation[q] = 0 /\ \A o \in Of(q) : o \notin alive /\ todo[o] = <<>>

Booking(x, y, z) ==
    /\ Books(amount, reservation, leaked, unbooked, live, x, y, z)
    /\ \A o \in Operators : Stage(o, x[o], y[o], z[o])

Owing == \E x, y, z \in [Operators -> Int] : Booking(x, y, z)

Signs == \A q \in Queries : Signed(missed[q], unbooked[q])

TrackerInv == Typed /\ Dead /\ Owing /\ Signs

(* f and f1 differ at o only. *)
Apart(o, f, f1) == \A p \in Operators : p # o => f1[p] = f[p]

LEMMA BooksKept ==
    ASSUME Typed, Typed', NEW o \in Operators,
           NEW x \in [Operators -> Int], NEW y \in [Operators -> Int], NEW z \in [Operators -> Int],
           Books(amount, reservation, leaked, unbooked, live, x, y, z),
           NEW x1 \in [Operators -> Int], NEW y1 \in [Operators -> Int], NEW z1 \in [Operators -> Int],
           Apart(o, x, x1), Apart(o, y, y1), Apart(o, z, z1),
           Balanced(o, x[o], y[o], z[o], x1[o], y1[o], z1[o])
    PROVE  Books(amount', reservation', leaked', unbooked', live', x1, y1, z1)
<1>0. PICK qo : qo = QueryOf[o] /\ qo \in Queries
  BY TrackersAre
<1>1. PICK am, re \in [Trackers -> Int], lk, ub \in [Queries -> Int], lv \in [Queries -> [Sizes -> Int]] :
         am = amount /\ re = reservation /\ lk = leaked /\ ub = unbooked /\ lv = live
  BY Zenon DEF Typed
<1>2. PICK am1, re1 \in [Trackers -> Int], lk1, ub1 \in [Queries -> Int], lv1 \in [Queries -> [Sizes -> Int]] :
         am1 = amount' /\ re1 = reservation' /\ lk1 = leaked' /\ ub1 = unbooked' /\ lv1 = live'
  BY Zenon DEF Typed
<1>3. /\ \A p \in Operators : p # o => am1[p] = am[p] /\ re1[p] = re[p]
      /\ \A p \in Queries : p # qo => /\ am1[p] = am[p] /\ re1[p] = re[p] /\ lk1[p] = lk[p] /\ ub1[p] = ub[p]
                                     /\ Bytes(lv1[p]) = Bytes(lv[p])
  BY <1>0, <1>1, <1>2 DEF Balanced, Elsewhere
<1>4. /\ am1[qo] + x1[o] - lk1[qo] - am1[o] - re1[o] = am[qo] + x[o] - lk[qo] - am[o] - re[o]
      /\ am1[Global] + y1[o] - am1[qo] - re1[qo] + lk1[qo] = am[Global] + y[o] - am[qo] - re[qo] + lk[qo]
      /\ Bytes(lv1[qo]) + z1[o] - am1[o] - ub1[qo] = Bytes(lv[qo]) + z[o] - am[o] - ub[qo]
  BY <1>0, <1>1, <1>2 DEF Balanced
<1>5. Bytes(lv[qo]) \in Int /\ Bytes(lv1[qo]) \in Int /\ \A p \in Queries : Bytes(lv[p]) \in Int
  <2>1. ASSUME NEW f \in [Sizes -> Int] PROVE Bytes(f) \in Int
    <3>1. Changes(f, f, Sizes, 0, 0)
      BY DEF Changes
    <3>2. 0 \in Int /\ 0 \in {-1, 0, 1}
      OBVIOUS
    <3> QED BY ONLY <3>1, <3>2, f \in [Sizes -> Int], BytesChange
  <2> QED BY <1>0, <2>1
<1>6. qo \in Trackers /\ o \in Trackers /\ Global \in Trackers /\ Operators \subseteq Trackers /\ Queries \subseteq Trackers
  BY <1>0, TrackersAre
<1>7. PICK A, Q, G, R, S, L, U, B \in Int :
         /\ A = am[o] /\ Q = am[qo] /\ G = am[Global] /\ R = re[o] /\ S = re[qo]
         /\ L = lk[qo] /\ U = ub[qo] /\ B = Bytes(lv[qo])
  BY <1>0, <1>5, <1>6, Zenon
<1>8. PICK A1, Q1, G1, R1, S1, L1, U1, B1 \in Int :
         /\ A1 = am1[o] /\ Q1 = am1[qo] /\ G1 = am1[Global] /\ R1 = re1[o] /\ S1 = re1[qo]
         /\ L1 = lk1[qo] /\ U1 = ub1[qo] /\ B1 = Bytes(lv1[qo])
  BY <1>0, <1>5, <1>6, Zenon
<1>9. PICK X, Y, Z, X1, Y1, Z1 \in Int : X = x[o] /\ Y = y[o] /\ Z = z[o] /\ X1 = x1[o] /\ Y1 = y1[o] /\ Z1 = z1[o]
  BY Zenon
<1>10. /\ Q1 + X1 - L1 - A1 - R1 = Q + X - L - A - R
       /\ G1 + Y1 - Q1 - S1 + L1 = G + Y - Q - S + L
       /\ B1 + Z1 - A1 - U1 = B + Z - A - U
  BY <1>4, <1>7, <1>8, <1>9
<1>11. PICK ao, aq, aG, ro, rq, l, u, b \in Int :
         /\ ao = A1 - A /\ aq = Q1 - Q /\ aG = G1 - G /\ ro = R1 - R /\ rq = S1 - S /\ l = L1 - L
         /\ u = U1 - U /\ b = B1 - B
  <2>1. /\ A1 - A \in Int /\ Q1 - Q \in Int /\ G1 - G \in Int /\ R1 - R \in Int /\ S1 - S \in Int
        /\ L1 - L \in Int /\ U1 - U \in Int /\ B1 - B \in Int
    OBVIOUS
  <2> QED BY <2>1, Zenon
<1>12. PICK dx, dy, dz \in Int : dx = X1 - X /\ dy = Y1 - Y /\ dz = Z1 - Z
  OBVIOUS
<1>13. aq + dx = l + ao + ro /\ aG + dy = aq + rq - l /\ b + dz = ao + u
  BY <1>10, <1>11, <1>12
<1>14. /\ am1[o] = am[o] + ao /\ am1[qo] = am[qo] + aq /\ am1[Global] = am[Global] + aG
       /\ re1[o] = re[o] + ro /\ re1[qo] = re[qo] + rq /\ lk1[qo] = lk[qo] + l /\ ub1[qo] = ub[qo] + u
       /\ Bytes(lv1[qo]) = Bytes(lv[qo]) + b
       /\ x1[o] = x[o] + dx /\ y1[o] = y[o] + dy /\ z1[o] = z[o] + dz
  <2>1. /\ A1 = A + ao /\ Q1 = Q + aq /\ G1 = G + aG /\ R1 = R + ro /\ S1 = S + rq /\ L1 = L + l
        /\ U1 = U + u /\ B1 = B + b /\ X1 = X + dx /\ Y1 = Y + dy /\ Z1 = Z + dz
    BY <1>11, <1>12
  <2> QED BY <1>7, <1>8, <1>9, <2>1
<1>15. /\ Changes(am, am1, Operators, o, ao) /\ Changes(am, am1, Queries, qo, aq)
       /\ Changes(re, re1, Operators, o, ro) /\ Changes(re, re1, Queries, qo, rq)
       /\ Changes(lk, lk1, Queries, qo, l) /\ Changes(ub, ub1, Queries, qo, u)
  BY <1>3, <1>14 DEF Changes
<1>16. /\ Changes(x, x1, Operators, o, dx) /\ Changes(y, y1, Operators, o, dy) /\ Changes(z, z1, Operators, o, dz)
  BY <1>14 DEF Changes, Apart
<1>17. \A p \in Queries : /\ Bytes(lv[p]) \in Int
                          /\ p = qo => Bytes(lv1[p]) = Bytes(lv[p]) + b
                          /\ p # qo => Bytes(lv1[p]) = Bytes(lv[p])
  BY <1>3, <1>5, <1>14
<1>18. Books(am, re, lk, ub, lv, x, y, z)
  BY <1>1
<1>c. qo \in Queries /\ Queries \subseteq Trackers /\ Operators \subseteq Trackers /\ Global \in Trackers
      /\ IsFiniteSet(Queries) /\ IsFiniteSet(Operators)
  BY <1>0, TrackerAssumption DEF Trackers
<1>d. ASSUME NEW q \in Queries
      PROVE  /\ am1[q] + Sum(x1, Of(q)) = lk1[q] + Sum(am1, Of(q)) + Sum(re1, Of(q))
             /\ Bytes(lv1[q]) + Sum(z1, Of(q)) = Sum(am1, Of(q)) + ub1[q]
  <2>1. PICK T : T = Of(q) /\ T \subseteq Operators /\ IsFiniteSet(T) /\ (o \in T <=> q = qo)
    BY <1>0, OfIs
  <2>2. /\ Ints(am, T) /\ Ints(re, T) /\ Ints(x, T) /\ Ints(z, T)
        /\ Changes(am, am1, T, o, ao) /\ Changes(re, re1, T, o, ro) /\ Changes(x, x1, T, o, dx)
        /\ Changes(z, z1, T, o, dz)
    BY <1>c, <1>15, <1>16, <2>1 DEF Changes, Ints
  <2>3. /\ Sum(am, T) \in Int /\ (o \in T => Sum(am1, T) = Sum(am, T) + ao) /\ (o \notin T => Sum(am1, T) = Sum(am, T))
    BY ONLY <2>1, <2>2, ao \in Int, ChangesSum
  <2>4. /\ Sum(re, T) \in Int /\ (o \in T => Sum(re1, T) = Sum(re, T) + ro) /\ (o \notin T => Sum(re1, T) = Sum(re, T))
    BY ONLY <2>1, <2>2, ro \in Int, ChangesSum
  <2>5. /\ Sum(x, T) \in Int /\ (o \in T => Sum(x1, T) = Sum(x, T) + dx) /\ (o \notin T => Sum(x1, T) = Sum(x, T))
    BY ONLY <2>1, <2>2, dx \in Int, ChangesSum
  <2>6. /\ Sum(z, T) \in Int /\ (o \in T => Sum(z1, T) = Sum(z, T) + dz) /\ (o \notin T => Sum(z1, T) = Sum(z, T))
    BY ONLY <2>1, <2>2, dz \in Int, ChangesSum
  <2>7. /\ am[q] + Sum(x, T) = lk[q] + Sum(am, T) + Sum(re, T)
        /\ Bytes(lv[q]) + Sum(z, T) = Sum(am, T) + ub[q]
    BY <1>18, <2>1 DEF Books
  <2>8. /\ am[q] \in Int /\ lk[q] \in Int /\ ub[q] \in Int /\ Bytes(lv[q]) \in Int
        /\ am1[q] = IF q = qo THEN am[q] + aq ELSE am[q]
        /\ lk1[q] = IF q = qo THEN lk[q] + l ELSE lk[q]
        /\ ub1[q] = IF q = qo THEN ub[q] + u ELSE ub[q]
        /\ q = qo => Bytes(lv1[q]) = Bytes(lv[q]) + b
        /\ q # qo => Bytes(lv1[q]) = Bytes(lv[q])
    BY <1>c, <1>15, <1>17 DEF Changes
  <2>9. CASE q = qo
    <3>0. am1[q] = am[q] + aq /\ lk1[q] = lk[q] + l /\ ub1[q] = ub[q] + u /\ Bytes(lv1[q]) = Bytes(lv[q]) + b
          /\ o \in T
      BY ONLY <2>1, <2>8, <2>9
    <3>1. am1[q] + Sum(x1, T) = lk1[q] + Sum(am1, T) + Sum(re1, T)
      <4>1. PICK A0, X0, L0, P0, R0 \in Int : A0 = am[q] /\ X0 = Sum(x, T) /\ L0 = lk[q] /\ P0 = Sum(am, T) /\ R0 = Sum(re, T)
        BY <2>3, <2>4, <2>5, <2>8
      <4>2. A0 + X0 = L0 + P0 + R0
        BY <2>7, <4>1
      <4>3. (A0 + aq) + (X0 + dx) = (L0 + l) + (P0 + ao) + (R0 + ro)
        BY ONLY <4>2, A0 \in Int, X0 \in Int, L0 \in Int, P0 \in Int, R0 \in Int, <1>13,
                aq \in Int, dx \in Int, l \in Int, ao \in Int, ro \in Int
      <4> QED BY ONLY <2>3, <2>4, <2>5, <3>0, <4>1, <4>3
    <3>2. Bytes(lv1[q]) + Sum(z1, T) = Sum(am1, T) + ub1[q]
      <4>1. PICK B0, Z0, P0, U0 \in Int : B0 = Bytes(lv[q]) /\ Z0 = Sum(z, T) /\ P0 = Sum(am, T) /\ U0 = ub[q]
        BY <2>3, <2>6, <2>8
      <4>2. B0 + Z0 = P0 + U0
        BY <2>7, <4>1
      <4>3. (B0 + b) + (Z0 + dz) = (P0 + ao) + (U0 + u)
        BY ONLY <4>2, B0 \in Int, Z0 \in Int, P0 \in Int, U0 \in Int, <1>13,
                b \in Int, dz \in Int, u \in Int, ao \in Int
      <4> QED BY ONLY <2>3, <2>6, <3>0, <4>1, <4>3
    <3> QED BY <2>1, <3>1, <3>2
  <2>10. CASE q # qo
    BY <2>1, <2>3, <2>4, <2>5, <2>6, <2>7, <2>8, <2>10
  <2> QED BY <2>9, <2>10
<1>e. am1[Global] + Sum(y1, Operators) = Sum(am1, Queries) + Sum(re1, Queries) - Sum(lk1, Queries)
  <2>1. Ints(am, Queries) /\ Ints(re, Queries) /\ Ints(lk, Queries) /\ Ints(y, Operators)
    BY <1>c DEF Ints
  <2>2. Sum(am, Queries) \in Int /\ Sum(am1, Queries) = Sum(am, Queries) + aq
    BY ONLY <1>c, <2>1, aq \in Int, <1>15, ChangesSum
  <2>3. Sum(re, Queries) \in Int /\ Sum(re1, Queries) = Sum(re, Queries) + rq
    BY ONLY <1>c, <2>1, rq \in Int, <1>15, ChangesSum
  <2>4. Sum(lk, Queries) \in Int /\ Sum(lk1, Queries) = Sum(lk, Queries) + l
    BY ONLY <1>c, <2>1, l \in Int, <1>15, ChangesSum
  <2>5. Sum(y, Operators) \in Int /\ Sum(y1, Operators) = Sum(y, Operators) + dy
    BY ONLY <1>c, <2>1, dy \in Int, o \in Operators, <1>16, ChangesSum
  <2>6. am[Global] + Sum(y, Operators) = Sum(am, Queries) + Sum(re, Queries) - Sum(lk, Queries)
        /\ am[Global] \in Int
    BY <1>c, <1>18 DEF Books
  <2>7. PICK A0, Y0, P0, R0, L0 \in Int : /\ A0 = am[Global] /\ Y0 = Sum(y, Operators) /\ P0 = Sum(am, Queries)
                                   /\ R0 = Sum(re, Queries) /\ L0 = Sum(lk, Queries)
    BY <2>2, <2>3, <2>4, <2>5, <2>6
  <2>8. A0 + Y0 = P0 + R0 - L0
    BY <2>6, <2>7
  <2>9. (A0 + aG) + (Y0 + dy) = (P0 + aq) + (R0 + rq) - (L0 + l)
    BY ONLY <2>8, A0 \in Int, Y0 \in Int, P0 \in Int, R0 \in Int, L0 \in Int, <1>13,
            aG \in Int, dy \in Int, aq \in Int, rq \in Int, l \in Int
  <2> QED BY ONLY <2>2, <2>3, <2>4, <2>5, <2>7, <2>9, <1>14
<1>f. Books(am1, re1, lk1, ub1, lv1, x1, y1, z1)
  BY <1>d, <1>e DEF Books
<1> QED BY <1>2, <1>f

-----------------------------------------------------------------------------
(* A step of operator o: what it owes changes, and the rest stays. *)
Moved(o, x, y, z) ==
    \E x1, y1, z1 \in Int : Balanced(o, x, y, z, x1, y1, z1) /\ Stage(o, x1, y1, z1)'

LEMMA Advances ==
    ASSUME TrackerInv, NEW o \in Operators, QueryOf[o] \in alive, Typed',
           \A p \in Operators : p # o => (p \in alive' <=> p \in alive) /\ todo'[p] = todo[p],
           \A q \in Queries : q \in alive' <=> q \in alive,
           \A x, y, z \in Int : Stage(o, x, y, z) => Moved(o, x, y, z)
    PROVE  TrackerInv'
<1>0. Typed /\ Dead /\ Owing
  BY DEF TrackerInv
<1>1. PICK x, y, z \in [Operators -> Int] : Booking(x, y, z)
  BY <1>0 DEF Owing
<1>2. /\ Books(amount, reservation, leaked, unbooked, live, x, y, z)
      /\ \A p \in Operators : Stage(p, x[p], y[p], z[p])
  BY <1>1 DEF Booking
<1>3. PICK X, Y, Z \in Int : X = x[o] /\ Y = y[o] /\ Z = z[o]
  OBVIOUS
<1>4. PICK X1, Y1, Z1 \in Int : Balanced(o, X, Y, Z, X1, Y1, Z1) /\ Stage(o, X1, Y1, Z1)'
  BY <1>2, <1>3 DEF Moved
<1>a. ASSUME NEW f \in [Operators -> Int], NEW d \in Int
      PROVE  \E g \in [Operators -> Int] : g[o] = d /\ \A p \in Operators : p # o => g[p] = f[p]
  <2>1. [f EXCEPT ![o] = d] \in [Operators -> Int]
    OBVIOUS
  <2> QED BY <2>1
<1>b. PICK x1 \in [Operators -> Int] : x1[o] = X1 /\ \A p \in Operators : p # o => x1[p] = x[p]
  BY <1>a
<1>c. PICK y1 \in [Operators -> Int] : y1[o] = Y1 /\ \A p \in Operators : p # o => y1[p] = y[p]
  BY <1>a
<1>d. PICK z1 \in [Operators -> Int] : z1[o] = Z1 /\ \A p \in Operators : p # o => z1[p] = z[p]
  BY <1>a
<1>e. x1[o] = X1 /\ y1[o] = Y1 /\ z1[o] = Z1
  BY <1>b, <1>c, <1>d
<1>5. \A p \in Operators : p # o => x1[p] = x[p] /\ y1[p] = y[p] /\ z1[p] = z[p]
  BY <1>b, <1>c, <1>d
<1>6. Balanced(o, x[o], y[o], z[o], x1[o], y1[o], z1[o])
  BY <1>3, <1>4, <1>e
<1>7. Books(amount', reservation', leaked', unbooked', live', x1, y1, z1)
  <2>1. Books(amount, reservation, leaked, unbooked, live, x, y, z)
    BY <1>2
  <2>3. Apart(o, x, x1) /\ Apart(o, y, y1) /\ Apart(o, z, z1)
    BY <1>5 DEF Apart
  <2>2. Typed
    BY <1>0
  <2> QED BY ONLY <2>3, <1>6, <2>1, <2>2, Typed', o \in Operators,
               x \in [Operators -> Int], y \in [Operators -> Int], z \in [Operators -> Int],
               x1 \in [Operators -> Int], y1 \in [Operators -> Int], z1 \in [Operators -> Int], BooksKept
<1>8. Elsewhere(o, QueryOf[o])
  BY <1>4 DEF Balanced
<1>9. ASSUME NEW p \in Operators PROVE Stage(p, x1[p], y1[p], z1[p])'
  <2>1. CASE p = o
    BY <1>4, <1>e, <2>1
  <2>2. CASE p # o
    <3>1. amount'[p] = amount[p] /\ reservation'[p] = reservation[p] /\ todo'[p] = todo[p] /\ (p \in alive' <=> p \in alive)
      BY <1>8, <2>2 DEF Elsewhere
    <3>2. Stage(p, x1[p], y1[p], z1[p])
      BY <1>2, <1>5, <2>2
    <3> QED BY <3>1, <3>2 DEF Stage
  <2> QED BY <2>1, <2>2
<1>10. Owing'
  <2>1. Booking(x1, y1, z1)'
    BY <1>7, <1>9 DEF Booking
  <2> QED BY <2>1 DEF Owing
<1>11. Dead'
  <2>1. ASSUME NEW q \in Queries, q \notin alive'
        PROVE  reservation'[q] = 0 /\ \A p \in Of(q) : p \notin alive' /\ todo'[p] = <<>>
    <3>1. q \notin alive /\ q # QueryOf[o]
      BY <2>1
    <3>2. reservation[q] = 0 /\ \A p \in Of(q) : p \notin alive /\ todo[p] = <<>>
      BY <1>0, <3>1 DEF Dead
    <3>3. reservation'[q] = reservation[q]
      BY <1>8, <3>1 DEF Elsewhere
    <3>4. \A p \in Of(q) : p \in Operators /\ p # o
      BY <3>1 DEF Of
    <3> QED BY <3>2, <3>3, <3>4
  <2> QED BY <2>1 DEF Dead
<1>12. Signs'
  <2>1. Signs
    BY DEF TrackerInv
  <2> QED BY <1>8, <2>1 DEF Signs, Elsewhere
<1> QED BY <1>10, <1>11, <1>12 DEF TrackerInv

LEMMA QueryAlive ==
    ASSUME Dead, NEW o \in Operators, o \in alive \/ todo[o] # <<>>
    PROVE  QueryOf[o] \in alive
<1>1. QueryOf[o] \in Queries /\ o \in Of(QueryOf[o])
  BY TrackersAre DEF Of
<1> QED BY <1>1 DEF Dead

LEMMA StepAdvances ==
    ASSUME TrackerInv, NEW o \in Operators, Step(o)
    PROVE  TrackerInv'
<1>0. Typed /\ Dead /\ Owing
  BY DEF TrackerInv
<1>1. PICK x0, y0, z0 \in Int : Stage(o, x0, y0, z0)
  BY <1>0 DEF Owing, Booking
<1>2. todo[o] # <<>>
  BY DEF Step
<1>3. /\ Typed' /\ alive' = alive /\ \A p \in Operators : p # o => todo'[p] = todo[p]
  BY <1>0, <1>1, StageSteps
<1>4. ASSUME NEW x \in Int, NEW y \in Int, NEW z \in Int, Stage(o, x, y, z) PROVE Moved(o, x, y, z)
  <2>1. Advanced(o, x, y, z)
    BY <1>0, <1>4, StageSteps
  <2> QED BY <1>3, <2>1 DEF Advanced, Moved, Stage
<1>5. QueryOf[o] \in alive
  BY <1>0, <1>2, QueryAlive
<1> QED BY <1>3, <1>4, <1>5, Advances

(* Between calls nothing is owed. *)
LEMMA NeverEmpty ==
    ASSUME NEW o \in Operators
    PROVE  /\ \A x, y : ~Asking(o, <<>>, x, y)
           /\ \A x, z : ~Returning(o, <<>>, x, z)
           /\ \A t, x : ~Ending(o, <<>>, t, x)
           /\ \A w \in Lists, m \in Int : \A y : ~Frees(o, w, m, <<>>, y)
<1>0. PICK nil : nil = <<>>
  OBVIOUS
<1>a. \A e \in Entry, s \in Lists : Cons(e, s) # nil /\ Cons(e, s) \in Lists
  BY <1>0, ListIs
<1>1. ASSUME NEW x, NEW y, Asking(o, nil, x, y) PROVE FALSE
  <2>1. PICK n \in Sizes, get \in Nat, g \in Int, b \in Sizes \cup {0} : Asks(o, n, get, g, b, nil, x, y)
    BY <1>1 DEF Asking
  <2>2. get \in Int
    OBVIOUS
  <2>3. /\ Do("got", o, <<n, get>>) \in Entry /\ Kept(o, b) \in Lists /\ GotList(o, n, get, b) \in Lists
        /\ Do("add", QueryOf[o], -get) \in Entry /\ AddedList(o, n, get, b) \in Lists
        /\ Do("add", QueryOf[o], g) \in Entry /\ Do("alloc", Global, g) \in Entry
        /\ Do("throw", Global, g) \in Entry /\ FetchedList(o, n, get, g, b) \in Lists
        /\ Do("reserve", QueryOf[o], get) \in Entry /\ Do("alloc", QueryOf[o], get) \in Entry
        /\ Do("throw", QueryOf[o], get) \in Entry
        /\ Cons(Do("reserve", QueryOf[o], get), GotList(o, n, get, b)) \in Lists
    BY <2>2, GotLists
  <2>4. GotList(o, n, get, b) # nil /\ AddedList(o, n, get, b) # nil /\ FetchedList(o, n, get, g, b) # nil
    BY <1>a, <2>3 DEF GotList, AddedList, FetchedList
  <2> QED BY <1>a, <2>1, <2>3, <2>4 DEF Asks
<1>2. ASSUME NEW x, NEW z, Returning(o, nil, x, z) PROVE FALSE
  <2>1. PICK k \in Nat, n \in Sizes, release \in Int, w \in Follow(o) :
           nil = Cat(Repeat(GiveBack(o), k), Cons(Do("freed", o, <<n, release>>), w))
    BY <1>2 DEF Returning
  <2>2. PICK f : f = Cons(Do("freed", o, <<n, release>>), w) /\ f \in Lists /\ f # nil
    <3>1. PICK i \in Int : i = n
      BY TrackersAre
    <3>2. Do("freed", o, <<i, release>>) \in Entry
      BY Entries
    <3> QED BY <1>a, <3>1, <3>2, FollowIs
  <2>3. CASE k = 0
    <3>1. Cat(Repeat(GiveBack(o), 0), f) = f
      BY <2>2, GiveBacks
    <3> QED BY <2>1, <2>2, <2>3, <3>1
  <2>4. CASE k # 0
    <3>1. PICK j \in Nat : k = j + 1
      <4>1. k - 1 \in Nat /\ k = (k - 1) + 1
        BY <2>4
      <4> QED BY <4>1
    <3>2. /\ GiveBack(o) \in Entry /\ Cat(Repeat(GiveBack(o), j), f) \in Lists
          /\ Cat(Repeat(GiveBack(o), k), f) = Cons(GiveBack(o), Cat(Repeat(GiveBack(o), j), f))
      BY <2>2, <3>1, GiveBacks
    <3> QED BY <1>a, <2>1, <2>2, <3>2
  <2> QED BY <2>3, <2>4
<1>3. ASSUME NEW t, NEW x, Ending(o, nil, t, x) PROVE FALSE
  <2>1. \A m \in Int : Do("give", QueryOf[o], m) \in Entry
    BY Entries
  <2> QED BY <1>0, <1>a, <1>3, <2>1, GoneLists DEF Ending
<1>4. ASSUME NEW w \in Lists, NEW m \in Int, NEW y, Frees(o, w, m, nil, y) PROVE FALSE
  <2>1. PICK k \in Int : \/ nil = Cons(Do("free", QueryOf[o], m), w)
                         \/ nil = Cons(Do("add", QueryOf[o], -k), Cons(Do("free", QueryOf[o], m), w))
                         \/ nil = Cons(Do("free", Global, k), Cons(Do("add", QueryOf[o], -k), Cons(Do("free", QueryOf[o], m), w)))
    BY <1>4 DEF Frees
  <2>2. PICK j \in Int : j = -k
    OBVIOUS
  <2>3. /\ Do("free", QueryOf[o], m) \in Entry /\ Do("add", QueryOf[o], j) \in Entry /\ Do("free", Global, k) \in Entry
    BY Entries
  <2> QED BY <1>a, <2>1, <2>2, <2>3
<1> QED BY <1>0, <1>1, <1>2, <1>3, <1>4

LEMMA IdleIs ==
    ASSUME NEW o \in Operators, NEW x \in Int, NEW y \in Int, NEW z \in Int, Stage(o, x, y, z), todo[o] = <<>>
    PROVE  /\ x = 0 /\ y = 0 /\ z = 0
           /\ o \notin alive => amount[o] = 0 /\ reservation[o] = 0
<1>1. CASE o \in alive
  <2>1. Working(o, <<>>, x, y, z)
    BY <1>1 DEF Stage
  <2> QED BY <1>1, <2>1, NeverEmpty DEF Working
<1>2. CASE o \notin alive
  <2>1. Leaving(o, <<>>, amount[o], reservation[o], x, y, z)
    BY <1>2 DEF Stage
  <2> QED BY <2>1, NeverEmpty DEF Leaving
<1> QED BY <1>1, <1>2

-----------------------------------------------------------------------------
(* The calls. *)
LEMMA CallStarts ==
    ASSUME TrackerInv, NEW o \in Operators, o \in alive, todo[o] = <<>>, Typed',
           alive' = alive \/ alive' = alive \ {o}, NEW L, todo' = [todo EXCEPT ![o] = L],
           Moved(o, 0, 0, 0)
    PROVE  TrackerInv'
<1>0. Typed /\ Dead
  BY DEF TrackerInv
<1>1. \A p \in Operators : p # o => (p \in alive' <=> p \in alive) /\ todo'[p] = todo[p]
  BY <1>0 DEF Typed
<1>2. \A q \in Queries : q \in alive' <=> q \in alive
  BY TrackersAre
<1>3. QueryOf[o] \in alive
  BY <1>0, QueryAlive
<1>4. ASSUME NEW x \in Int, NEW y \in Int, NEW z \in Int, Stage(o, x, y, z) PROVE Moved(o, x, y, z)
  <2>1. x = 0 /\ y = 0 /\ z = 0
    BY <1>4, IdleIs
  <2> QED BY <2>1
<1> QED BY <1>1, <1>2, <1>3, <1>4, Advances

LEMMA AllocateBooks ==
    ASSUME TrackerInv, NEW o \in Operators, NEW n \in Sizes, Allocate(o, n)
    PROVE  TrackerInv'
<1>0. Typed
  BY DEF TrackerInv
<1>1. /\ o \in alive /\ todo[o] = <<>> /\ todo' = [todo EXCEPT ![o] = OperatorAcquire(o, n)]
      /\ UNCHANGED <<amount, reservation, live, alive, leaked, unbooked, missed>>
  BY DEF Allocate, Call
<1>2. Typed'
  BY <1>0, <1>1 DEF Typed
<1>3. Balanced(o, 0, 0, 0, 0, 0, 0)
  BY <1>0, <1>1, NothingMoves
<1>4. todo'[o] = OperatorAcquire(o, n)
  BY <1>0, <1>1, Updated
<1>5. Working(o, todo'[o], 0, 0, 0)
  BY <1>0, <1>4, Acquires DEF Working
<1>6. Stage(o, 0, 0, 0)'
  BY <1>1, <1>5 DEF Stage
<1>7. Moved(o, 0, 0, 0)
  BY <1>3, <1>6 DEF Moved
<1> QED BY <1>1, <1>2, <1>7, CallStarts

(* A block leaves the code of the query. *)
LEMMA BlockLeaves ==
    ASSUME TrackerInv, NEW o \in Operators, NEW n \in Sizes, o \in alive, todo[o] = <<>>,
           live' = [live EXCEPT ![QueryOf[o]][n] = @ - 1], UNCHANGED <<amount, reservation, alive, leaked, unbooked, missed>>,
           NEW L, todo' = [todo EXCEPT ![o] = L], Returning(o, L, 0, n)
    PROVE  TrackerInv'
<1>0. Typed
  BY DEF TrackerInv
<1>1. PICK q \in Queries : q = QueryOf[o]
  BY TrackersAre
<1>2. live' = [live EXCEPT ![q][n] = @ + (-1)]
  <2>1. live[q][n] \in Int /\ \A i \in Int : i - 1 = i + (-1)
    BY <1>0 DEF Typed
  <2> QED BY <1>1, <2>1
<1>3. PICK k \in Int : k = n /\ n * (-1) = -k
  <2>1. n \in Int
    BY TrackersAre
  <2> QED BY <2>1
<1>4. /\ live' \in [Queries -> [Sizes -> Int]]
      /\ \A p \in Queries : /\ Bytes(live[p]) \in Int
                            /\ p = q => Bytes(live'[p]) = Bytes(live[p]) + n * (-1)
                            /\ p # q => Bytes(live'[p]) = Bytes(live[p])
  <2>1. -1 \in {-1, 1}
    OBVIOUS
  <2> QED BY <1>0, <1>2, <2>1, LiveChange
<1>5. Typed'
  BY <1>0, <1>4 DEF Typed
<1>6. Elsewhere(o, q)
  BY <1>4 DEF Elsewhere
<1>7. Balanced(o, 0, 0, 0, 0, 0, k)
  <2>1. PICK A, U, B \in Int : A = amount[o] /\ U = unbooked[q] /\ B = Bytes(live[q])
    BY <1>0, <1>4, TrackersAre DEF Typed
  <2>2. Bytes(live'[q]) = B + -k
    BY <1>3, <1>4, <2>1
  <2>3. (B + -k) + k - A - U = B + 0 - A - U
    OBVIOUS
  <2> QED BY <1>1, <1>6, <2>1, <2>2, <2>3 DEF Balanced
<1>8. todo'[o] = L
  BY <1>0, Updated
<1>9. Working(o, todo'[o], 0, 0, k)
  BY <1>3, <1>8 DEF Working
<1>10. Stage(o, 0, 0, k)'
  BY <1>9 DEF Stage
<1>11. Moved(o, 0, 0, 0)
  BY <1>7, <1>10 DEF Moved
<1> QED BY <1>5, <1>11, CallStarts

LEMMA DeallocateBooks ==
    ASSUME TrackerInv, NEW o \in Operators, NEW n \in Sizes, Deallocate(o, n)
    PROVE  TrackerInv'
<1>1. /\ o \in alive /\ todo[o] = <<>> /\ todo' = [todo EXCEPT ![o] = OperatorRelease(o, n)]
      /\ live' = [live EXCEPT ![QueryOf[o]][n] = @ - 1]
      /\ UNCHANGED <<amount, reservation, alive, leaked, unbooked, missed>>
  BY DEF Deallocate, Call
<1>2. Returning(o, OperatorRelease(o, n), 0, n)
  BY Releases DEF TrackerInv
<1> QED BY <1>1, <1>2, BlockLeaves

LEMMA ReallocateBooks ==
    ASSUME TrackerInv, NEW o \in Operators, NEW old \in Sizes, NEW new \in Sizes, Reallocate(o, old, new)
    PROVE  TrackerInv'
<1>1. /\ o \in alive /\ todo[o] = <<>>
      /\ todo' = [todo EXCEPT ![o] = Cat(OperatorRelease(o, old), <<Do("swap", o, <<old, new>>)>>)]
      /\ live' = [live EXCEPT ![QueryOf[o]][old] = @ - 1]
      /\ UNCHANGED <<amount, reservation, alive, leaked, unbooked, missed>>
  BY DEF Reallocate, Call, Cat
<1>2. <<Do("swap", o, <<old, new>>)>> = SwapList(o, old, new)
  <2>1. PICK i, j \in Int : i = old /\ j = new
    BY TrackersAre
  <2>2. PICK e : e = Do("swap", o, <<i, j>>) /\ e \in Entry
    BY Entries
  <2>3. <<e>> = Cons(e, <<>>)
    BY <2>2, Listed, NoList DEF Lists
  <2> QED BY <2>1, <2>2, <2>3 DEF SwapList
<1>3. Returning(o, Cat(OperatorRelease(o, old), SwapList(o, old, new)), 0, old)
  BY Releases, FollowIs DEF TrackerInv
<1> QED BY <1>1, <1>2, <1>3, BlockLeaves

LEMMA DestroyOperatorBooks ==
    ASSUME TrackerInv, NEW o \in Operators, DestroyOperator(o)
    PROVE  TrackerInv'
<1>0. Typed
  BY DEF TrackerInv
<1>1. PICK a, r \in Int : a = amount[o] /\ r = reservation[o]
  BY <1>0, TrackersAre DEF Typed
<1>2. PICK e, f, g \in Entry : e = Do("give", QueryOf[o], r) /\ f = Do("give", QueryOf[o], a) /\ g = Do("gone", o, 0)
  <2>1. 0 \in Int
    OBVIOUS
  <2> QED BY <2>1, Entries
<1>3. PICK nil, se, sf, sg \in Lists : /\ nil = <<>> /\ se = <<e>> /\ sf = <<f>> /\ sg = <<g>>
                                       /\ sg = GoneList(o)
  <2>1. <<e>> = Cons(e, <<>>) /\ <<f>> = Cons(f, <<>>) /\ <<g>> = Cons(g, <<>>)
    BY Listed, NoList DEF Lists
  <2>2. Cons(e, <<>>) \in Lists /\ Cons(f, <<>>) \in Lists /\ Cons(g, <<>>) \in Lists
    BY OneIs
  <2>3. Cons(g, <<>>) = GoneList(o)
    BY <1>2 DEF GoneList
  <2> QED BY <2>1, <2>2, <2>3, NoList, Zenon
<1>4. PICK L : L = Cat(Cat(IF r # 0 THEN se ELSE nil, IF a # 0 THEN sf ELSE nil), sg)
  OBVIOUS
<1>5. /\ o \in alive /\ todo[o] = <<>> /\ alive' = alive \ {o} /\ todo' = [todo EXCEPT ![o] = L]
      /\ UNCHANGED <<amount, reservation, live, leaked, unbooked, missed>>
  BY <1>1, <1>2, <1>3, <1>4 DEF DestroyOperator, Cat
<1>6. \A s \in Lists : Cat(nil, s) = s /\ Cat(se, s) = Cons(e, s) /\ Cat(sf, s) = Cons(f, s)
  <2>1. ASSUME NEW s \in Lists PROVE Cat(nil, s) = s
    <3>1. s \in Seq(Entry)
      BY DEF Lists
    <3> QED BY <1>3, <3>1 DEF Cat
  <2> QED BY <1>3, <2>1 DEF Cat, Cons
<1>7. \A s, t \in Lists : Cat(Cat(s, t), sg) = Cat(s, Cat(t, sg)) /\ Cat(t, sg) \in Lists
  <2>1. \A s, t, u \in Seq(Entry) : (s \o t) \o u = s \o (t \o u) /\ t \o u \in Seq(Entry)
    BY JoinsAssociate, JoinIs
  <2> QED BY <2>1 DEF Cat, Lists
<1>8. Ending(o, L, a + r, 0)
  <2>1. CASE r # 0 /\ a # 0
    <3>1. L = Cons(e, Cons(f, sg))
      BY <1>4, <1>6, <1>7, <2>1
    <3>2. 0 = (a + r) - r - a
      OBVIOUS
    <3> QED BY <1>2, <1>3, <3>1, <3>2 DEF Ending
  <2>2. CASE r # 0 /\ a = 0
    <3>1. L = Cons(e, sg)
      BY <1>4, <1>6, <1>7, <2>2
    <3>2. 0 = (a + r) - r
      BY <2>2
    <3> QED BY <1>2, <1>3, <3>1, <3>2 DEF Ending
  <2>3. CASE r = 0 /\ a # 0
    <3>1. L = Cons(f, sg)
      BY <1>4, <1>6, <1>7, <2>3
    <3>2. 0 = (a + r) - a
      BY <2>3
    <3> QED BY <1>2, <1>3, <3>1, <3>2 DEF Ending
  <2>4. CASE r = 0 /\ a = 0
    <3>1. L = sg
      BY <1>4, <1>6, <1>7, <2>4
    <3>2. 0 = a + r
      BY <2>4
    <3> QED BY <1>3, <3>1, <3>2 DEF Ending
  <2> QED BY <2>1, <2>2, <2>3, <2>4
<1>9. Typed'
  BY <1>0, <1>5 DEF Typed
<1>10. Balanced(o, 0, 0, 0, 0, 0, 0)
  BY <1>0, <1>5, NothingMoves
<1>11. todo'[o] = L
  BY <1>0, <1>5, Updated
<1>12. Leaving(o, todo'[o], amount'[o], reservation'[o], 0, 0, 0)
  BY <1>1, <1>5, <1>8, <1>11 DEF Leaving
<1>13. Stage(o, 0, 0, 0)'
  BY <1>5, <1>12 DEF Stage
<1>14. Moved(o, 0, 0, 0)
  BY <1>10, <1>13 DEF Moved
<1> QED BY <1>5, <1>9, <1>14, CallStarts

-----------------------------------------------------------------------------
LEMMA SameSum ==
    ASSUME NEW S, IsFiniteSet(S), NEW f, Ints(f, S), NEW g, \A t \in S : g[t] = f[t]
    PROVE  Sum(g, S) = Sum(f, S) /\ Sum(f, S) \in Int
<1>1. PICK y : y \notin S
  <2>1. {t \in S : t \notin t} \notin S
    OBVIOUS
  <2> QED BY <2>1
<1>2. 0 \in Int /\ Changes(f, g, S, y, 0)
  BY <1>1 DEF Changes
<1> QED BY <1>1, <1>2, ChangesSum

LEMMA DestroyQueryBooks ==
    ASSUME TrackerInv, NEW q \in Queries, DestroyQuery(q)
    PROVE  TrackerInv'
<1>0. Typed /\ Dead /\ Owing
  BY DEF TrackerInv
<1>1. /\ q \in alive /\ \A o \in Operators : QueryOf[o] = q => o \notin alive /\ todo[o] = <<>>
      /\ alive' = alive \ {q}
      /\ amount' = [amount EXCEPT ![Global] = @ - reservation[q]]
      /\ reservation' = [reservation EXCEPT ![q] = 0]
      /\ UNCHANGED <<todo, live, leaked, unbooked, missed>>
  BY DEF DestroyQuery
<1>2. /\ Queries \subseteq Trackers /\ Operators \subseteq Trackers /\ Global \in Trackers
      /\ Global \notin Queries /\ Global \notin Operators /\ Queries \cap Operators = {}
      /\ IsFiniteSet(Queries) /\ IsFiniteSet(Operators)
  BY TrackerAssumption DEF Trackers
<1>3. PICK r, G \in Int : r = reservation[q] /\ G = amount[Global]
  BY <1>0, <1>2 DEF Typed
<1>4. /\ amount'[Global] = G - r
      /\ \A t \in Trackers : t # Global => amount'[t] = amount[t]
      /\ \A t \in Trackers : t # q => reservation'[t] = reservation[t]
      /\ reservation'[q] = 0
  BY <1>0, <1>1, <1>2, <1>3 DEF Typed
<1>5. Typed'
  <2>1. amount' \in [Trackers -> Int] /\ reservation' \in [Trackers -> Int]
    <3>1. G - r \in Int
      OBVIOUS
    <3>2. amount' = [amount EXCEPT ![Global] = G - r]
      BY <1>1, <1>3
    <3> QED BY <1>0, <1>1, <1>2, <3>1, <3>2 DEF Typed
  <2> QED BY <1>0, <1>1, <2>1 DEF Typed
<1>6. PICK x, y, z \in [Operators -> Int] : Booking(x, y, z)
  BY <1>0 DEF Owing
<1>7. /\ Books(amount, reservation, leaked, unbooked, live, x, y, z)
      /\ \A p \in Operators : Stage(p, x[p], y[p], z[p])
  BY <1>6 DEF Booking
<1>8. ASSUME NEW p \in Queries
      PROVE  /\ amount'[p] + Sum(x, Of(p)) = leaked'[p] + Sum(amount', Of(p)) + Sum(reservation', Of(p))
             /\ Bytes(live'[p]) + Sum(z, Of(p)) = Sum(amount', Of(p)) + unbooked'[p]
  <2>1. PICK S : S = Of(p) /\ S \subseteq Operators /\ IsFiniteSet(S)
    BY OfIs
  <2>2. Ints(amount, S) /\ Ints(reservation, S)
    BY <1>0, <1>2, <2>1 DEF Ints, Typed
  <2>3. \A t \in S : amount'[t] = amount[t] /\ reservation'[t] = reservation[t]
    BY <1>2, <1>4, <2>1
  <2>4. Sum(amount', S) = Sum(amount, S)
    BY <2>1, <2>2, <2>3, SameSum
  <2>5. Sum(reservation', S) = Sum(reservation, S)
    BY <2>1, <2>2, <2>3, SameSum
  <2>6. amount'[p] = amount[p] /\ leaked' = leaked /\ unbooked' = unbooked /\ live' = live
    BY <1>1, <1>2, <1>4
  <2>7. /\ amount[p] + Sum(x, S) = leaked[p] + Sum(amount, S) + Sum(reservation, S)
        /\ Bytes(live[p]) + Sum(z, S) = Sum(amount, S) + unbooked[p]
    BY <1>7, <2>1 DEF Books
  <2> QED BY <2>1, <2>4, <2>5, <2>6, <2>7
<1>9. amount'[Global] + Sum(y, Operators) = Sum(amount', Queries) + Sum(reservation', Queries) - Sum(leaked', Queries)
  <2>1. Ints(amount, Queries) /\ Ints(reservation, Queries) /\ Ints(leaked, Queries) /\ Ints(y, Operators)
    BY <1>0, <1>2 DEF Ints, Typed
  <2>2. Sum(amount', Queries) = Sum(amount, Queries) /\ Sum(amount, Queries) \in Int
    <3>1. \A t \in Queries : amount'[t] = amount[t]
      BY <1>2, <1>4
    <3> QED BY <1>2, <2>1, <3>1, SameSum
  <2>3. PICK d \in Int : d = -r
    OBVIOUS
  <2>4. Sum(reservation', Queries) = Sum(reservation, Queries) + d /\ Sum(reservation, Queries) \in Int
    <3>1. Changes(reservation, reservation', Queries, q, d)
      <4>1. r + d = 0
        BY <2>3
      <4> QED BY <1>2, <1>3, <1>4, <4>1 DEF Changes
    <3> QED BY <1>2, <2>1, <3>1, ChangesSum
  <2>5. Sum(leaked, Queries) \in Int /\ Sum(y, Operators) \in Int
    <3>1. Sum(leaked, Queries) \in Int
      BY <1>2, <2>1, SameSum
    <3>2. Sum(y, Operators) \in Int
      BY <1>2, <2>1, SameSum
    <3> QED BY <3>1, <3>2
  <2>6. PICK Y, P, R, L \in Int : /\ Y = Sum(y, Operators) /\ P = Sum(amount, Queries)
                                /\ R = Sum(reservation, Queries) /\ L = Sum(leaked, Queries)
    BY <2>2, <2>4, <2>5
  <2>7. G + Y = P + R - L
    BY <1>3, <1>7, <2>6 DEF Books
  <2>8. (G - r) + Y = P + (R + d) - L
    BY <2>3, <2>7
  <2> QED BY <1>1, <1>4, <2>2, <2>4, <2>6, <2>8
<1>10. Owing'
  <2>1. Books(amount', reservation', leaked', unbooked', live', x, y, z)
    BY <1>8, <1>9 DEF Books
  <2>2. ASSUME NEW p \in Operators PROVE Stage(p, x[p], y[p], z[p])'
    <3>1. /\ amount'[p] = amount[p] /\ reservation'[p] = reservation[p] /\ todo'[p] = todo[p]
          /\ (p \in alive' <=> p \in alive)
      BY <1>1, <1>2, <1>4
    <3> QED BY <1>7, <3>1 DEF Stage
  <2>3. Booking(x, y, z)'
    BY <2>1, <2>2 DEF Booking
  <2> QED BY <2>3 DEF Owing
<1>11. Dead'
  <2>1. ASSUME NEW p \in Queries, p \notin alive'
        PROVE  reservation'[p] = 0 /\ \A o \in Of(p) : o \notin alive' /\ todo'[o] = <<>>
    <3>1. CASE p = q
      BY <1>1, <1>4, <3>1 DEF Of
    <3>2. CASE p # q
      <4>1. p \notin alive
        BY <1>1, <2>1, <3>2
      <4>2. reservation[p] = 0 /\ \A o \in Of(p) : o \notin alive /\ todo[o] = <<>>
        BY <1>0, <4>1 DEF Dead
      <4> QED BY <1>1, <1>2, <1>4, <3>2, <4>2
    <3> QED BY <3>1, <3>2
  <2> QED BY <2>1 DEF Dead
<1>12. Signs'
  BY <1>1 DEF TrackerInv, Signs
<1> QED BY <1>5, <1>10, <1>11, <1>12 DEF TrackerInv

LEMMA TrackerStart == Init => TrackerInv
<1> SUFFICES ASSUME Init PROVE TrackerInv
  OBVIOUS
<1>1. Typed
  BY DEF Init, Typed
<1>2. Dead
  BY DEF Init, Dead, Trackers
<1>3. PICK x \in [Operators -> Int] : \A o \in Operators : x[o] = 0
  <2>1. [o \in Operators |-> 0] \in [Operators -> Int]
    OBVIOUS
  <2> QED BY <2>1
<1>4. Books(amount, reservation, leaked, unbooked, live, x, x, x)
  <2>1. /\ \A t \in Trackers : amount[t] = 0 /\ reservation[t] = 0
        /\ \A q \in Queries : leaked[q] = 0 /\ unbooked[q] = 0 /\ \A n \in Sizes : live[q][n] = 0
    BY DEF Init
  <2> QED BY <1>1, <1>3, <2>1, ZeroBooks DEF Typed
<1>5. ASSUME NEW o \in Operators PROVE Stage(o, x[o], x[o], x[o])
  <2>1. o \in alive /\ todo[o] = <<>>
    BY DEF Init, Trackers
  <2>2. <<>> \in Follow(o)
    BY FollowIs
  <2> QED BY <1>3, <2>1, <2>2 DEF Stage, Working
<1>6. Booking(x, x, x)
  BY <1>4, <1>5 DEF Booking
<1>7. Signs
  BY DEF Init, Signs, Signed
<1> QED BY <1>1, <1>2, <1>6, <1>7 DEF TrackerInv, Owing

LEMMA TrackerNext == TrackerInv /\ [Next]_vars => TrackerInv'
<1> SUFFICES ASSUME TrackerInv, [Next]_vars PROVE TrackerInv'
  OBVIOUS
<1>1. CASE UNCHANGED vars
  BY <1>1 DEF vars, TrackerInv, Typed, Dead, Owing, Booking, Stage, Signs
<1>2. ASSUME NEW o \in Operators, Step(o) PROVE TrackerInv'
  BY <1>2, StepAdvances
<1>3. ASSUME NEW o \in Operators, DestroyOperator(o) PROVE TrackerInv'
  BY <1>3, DestroyOperatorBooks
<1>4. ASSUME NEW o \in Operators, NEW n \in Sizes, Allocate(o, n) PROVE TrackerInv'
  BY <1>4, AllocateBooks
<1>5. ASSUME NEW o \in Operators, NEW n \in Sizes, Deallocate(o, n) PROVE TrackerInv'
  BY <1>5, DeallocateBooks
<1>6. ASSUME NEW o \in Operators, NEW n1 \in Sizes, NEW n2 \in Sizes, Reallocate(o, n1, n2) PROVE TrackerInv'
  BY <1>6, ReallocateBooks
<1>7. ASSUME NEW q \in Queries, DestroyQuery(q) PROVE TrackerInv'
  BY <1>7, DestroyQueryBooks
<1> QED BY <1>1, <1>2, <1>3, <1>4, <1>5, <1>6, <1>7, Zenon DEF Next

(* Between calls nothing is owed, so that the layers agree. *)
LEMMA QuietSums ==
    ASSUME Typed, NEW x \in [Operators -> Int], NEW y \in [Operators -> Int], NEW z \in [Operators -> Int],
           Booking(x, y, z), NEW q \in Queries, Quiet(q)
    PROVE  /\ amount[q] = leaked[q] + Sum(amount, Of(q)) + Sum(reservation, Of(q))
           /\ Bytes(live[q]) = Sum(amount, Of(q)) + unbooked[q]
           /\ \A o \in Of(q) : y[o] = 0
           /\ (\A o \in Of(q) : o \notin alive) => amount[q] = leaked[q]
<1>1. PICK S : S = Of(q) /\ S \subseteq Operators /\ IsFiniteSet(S)
  BY OfIs
<1>2. ASSUME NEW o \in S
      PROVE  /\ x[o] = 0 /\ y[o] = 0 /\ z[o] = 0
             /\ o \notin alive => amount[o] = 0 /\ reservation[o] = 0
  <2>1. o \in Operators /\ todo[o] = <<>> /\ Stage(o, x[o], y[o], z[o])
    BY <1>1 DEF Quiet, Booking
  <2>2. x[o] \in Int /\ y[o] \in Int /\ z[o] \in Int
    BY <2>1
  <2> QED BY <2>1, <2>2, IdleIs
<1>3. Sum(x, S) = 0 /\ Sum(z, S) = 0
  BY <1>1, <1>2, SumZero
<1>4. /\ amount[q] + Sum(x, S) = leaked[q] + Sum(amount, S) + Sum(reservation, S)
      /\ Bytes(live[q]) + Sum(z, S) = Sum(amount, S) + unbooked[q]
  BY <1>1 DEF Booking, Books
<1>5. amount[q] \in Int /\ Bytes(live[q]) \in Int /\ leaked[q] \in Int
  BY BytesInt DEF Typed, Trackers
<1>6. /\ amount[q] = leaked[q] + Sum(amount, S) + Sum(reservation, S)
      /\ Bytes(live[q]) = Sum(amount, S) + unbooked[q]
  BY <1>3, <1>4, <1>5
<1>7. ASSUME \A o \in S : o \notin alive PROVE amount[q] = leaked[q]
  <2>1. Sum(amount, S) = 0
    BY <1>1, <1>2, <1>7, SumZero
  <2>2. Sum(reservation, S) = 0
    BY <1>1, <1>2, <1>7, SumZero
  <2> QED BY <1>5, <1>6, <2>1, <2>2
<1> QED BY <1>1, <1>2, <1>6, <1>7

LEMMA TrackersAgree == TrackerInv => LayersAgree /\ BlocksCounted
<1> SUFFICES ASSUME TrackerInv PROVE LayersAgree /\ BlocksCounted
  OBVIOUS
<1>0. Typed /\ Dead /\ Owing
  BY DEF TrackerInv
<1>1. PICK x, y, z \in [Operators -> Int] : Booking(x, y, z)
  BY <1>0 DEF Owing
<1>2. /\ IsFiniteSet(Operators) /\ IsFiniteSet(Queries) /\ Queries \subseteq Trackers /\ Global \in Trackers
      /\ Global \notin Queries \cup Operators
      /\ \A o \in Operators : QueryOf[o] \in Queries /\ o \in Of(QueryOf[o])
  BY TrackerAssumption DEF Trackers, Of
<1>3. ASSUME NEW q \in Queries, Quiet(q)
      PROVE  /\ amount[q] = leaked[q] + Sum(amount, Of(q)) + Sum(reservation, Of(q))
             /\ LiveBytes(q) = Sum(amount, Of(q)) + unbooked[q]
             /\ \A o \in Of(q) : y[o] = 0
             /\ (\A o \in Of(q) : o \notin alive) => amount[q] = leaked[q]
  BY <1>0, <1>1, <1>3, QuietSums DEF LiveBytes, Bytes
<1>4. ASSUME \A q \in Queries : Quiet(q)
      PROVE  amount[Global] = Sum(amount, Queries) + Sum(reservation, Queries) - Sum(leaked, Queries)
  <2>1. \A o \in Operators : y[o] = 0
    BY <1>2, <1>3, <1>4
  <2>2. Sum(y, Operators) = 0
    BY <1>2, <2>1, SumZero
  <2>3. amount[Global] + Sum(y, Operators) = Sum(amount, Queries) + Sum(reservation, Queries) - Sum(leaked, Queries)
    BY <1>1 DEF Booking, Books
  <2>4. amount[Global] \in Int
    BY <1>0, <1>2 DEF Typed
  <2> QED BY <2>2, <2>3, <2>4
<1>5. ASSUME alive = {Global} PROVE amount[Global] = 0
  <2>1. ASSUME NEW q \in Queries
        PROVE  q \notin alive /\ reservation[q] = 0 /\ Quiet(q) /\ \A o \in Of(q) : o \notin alive
    <3>1. q \notin alive
      BY <1>2, <1>5
    <3> QED BY <1>0, <3>1 DEF Dead, Quiet
  <2>2. \A q \in Queries : amount[q] = leaked[q]
    BY <1>3, <2>1
  <2>3. Ints(leaked, Queries) /\ Ints(amount, Queries)
    BY <1>0, <1>2 DEF Ints, Typed
  <2>4. Sum(amount, Queries) = Sum(leaked, Queries) /\ Sum(leaked, Queries) \in Int
    BY <1>2, <2>2, <2>3, SameSum
  <2>5. Sum(reservation, Queries) = 0
    BY <1>2, <2>1, SumZero
  <2>6. amount[Global] = Sum(amount, Queries) + Sum(reservation, Queries) - Sum(leaked, Queries)
    BY <1>4, <2>1
  <2> QED BY <2>4, <2>5, <2>6
<1>6. LayersAgree
  BY <1>3, <1>4, <1>5 DEF LayersAgree
<1>7. BlocksCounted
  <2>1. ASSUME NEW q \in Queries, Quiet(q)
        PROVE  /\ missed[q] \subseteq {"kept"} => Sum(amount, Of(q)) <= LiveBytes(q)
               /\ missed[q] \subseteq {"charged"} => LiveBytes(q) <= Sum(amount, Of(q))
    <3>1. Signed(missed[q], unbooked[q])
      BY DEF TrackerInv, Signs
    <3>2. IsFiniteSet(Of(q)) /\ Ints(amount, Of(q))
      BY <1>0, OfIs, TrackerAssumption DEF Ints, Typed, Trackers
    <3>3. PICK A, U \in Int : A = Sum(amount, Of(q)) /\ U = unbooked[q]
      <4>1. Sum(amount, Of(q)) \in Int
        BY <3>2, SameSum
      <4>2. unbooked[q] \in Int
        BY <1>0 DEF Typed
      <4> QED BY <4>1, <4>2
    <3>4. LiveBytes(q) = A + U
      BY <1>3, <2>1, <3>3
    <3>5. (U >= 0 => A <= A + U) /\ (U <= 0 => A + U <= A)
      OBVIOUS
    <3> QED BY <3>1, <3>3, <3>4, <3>5 DEF Signed
  <2> QED BY <2>1 DEF BlocksCounted
<1> QED BY <1>6, <1>7

(* The inductive invariant of the trackers: whatever the operators of the  *)
(* queries interleave, refuse or leave behind, the books close up to what  *)
(* the operators in a call owe (MemoryTracker.h, Allocator.h).             *)
THEOREM TrackerInvariant == Spec => []TrackerInv
  BY TrackerStart, TrackerNext, PTL DEF Spec

(* For every tree of queries and operators, every limit, reservation and   *)
(* number of calls: between calls a query counts what its operators hold   *)
(* or keep in reserve, Global what the queries hold or keep in reserve,    *)
(* and nothing stays charged to Global once every query is gone            *)
(* (MemoryTracker.h:35-47, 75-92, 165-175).                                *)
THEOREM LayersMeet == Spec => []LayersAgree
  BY TrackerInvariant, TrackersAgree, PTL

(* For the same instances: between calls the operators of a query count    *)
(* the blocks that its code holds as long as no call failed.  Refused      *)
(* reallocations alone never make them count too much, allocations without *)
(* memory alone never too little (Allocator.h:24-48, Memory.h:73-83).      *)
THEOREM BlocksMeet == Spec => []BlocksCounted
  BY TrackerInvariant, TrackersAgree, PTL
=============================================================================
