---------------------------- MODULE EdgeMapProofs -----------------------------
(***************************************************************************)
(* Proofs about edgeMap and the breadth-first search, for every graph,     *)
(* filter and pool, and every order of the tasks.                          *)
(***************************************************************************)
EXTENDS EdgeMap, FiniteSetTheorems, WellFoundedInduction, TLAPS

(* The vertices that one more edge reaches. *)
Step(X) == X \cup {d \in Node : \E s \in X : <<s, d>> \in Out \cap Passes}
-----------------------------------------------------------------------------
(* A set of naturals has a least member: induction, without a predicate.   *)
LEMMA LeastNat ==
    ASSUME NEW T, T \subseteq Nat, T # {}
    PROVE  \E x \in T : \A y \in T : x <= y
<1> DEFINE R == {ss \in Nat \X Nat : ss[1] < ss[2]}
<1>1. IsWellFoundedOn(R, Nat)
  BY NatLessThanWellFounded, Zenon DEF OpToRel
<1>2. \A x, y \in Nat : y < x => <<y, x>> \in R
  OBVIOUS
<1> HIDE DEF R
<1>3. PICK x \in T : \A y \in T : ~ (<<y, x>> \in R)
  BY <1>1, WFMin, Zenon
<1>4. \A y \in T : ~(y < x)
  BY <1>2, <1>3, Zenon
<1> QED BY <1>3, <1>4

(* What holds at 0, and at n + 1 when it holds at n, holds at all naturals.*)
LEMMA Induction ==
    ASSUME NEW T, 0 \in T, \A n \in Nat : n \in T => n + 1 \in T
    PROVE  Nat \subseteq T
<1> SUFFICES ASSUME Nat \ T # {} PROVE FALSE
  OBVIOUS
<1>1. PICK x \in Nat \ T : \A y \in Nat \ T : x <= y
  BY LeastNat
<1>2. x # 0 /\ x - 1 \in Nat /\ x - 1 \in T /\ x = (x - 1) + 1
  BY <1>1
<1> QED BY <1>1, <1>2

(* g is the reference up to n. *)
Approx(g, n) ==
    /\ g[0] = {srcId}
    /\ \A k \in 0 .. (n - 1) : g[k + 1] = Step(g[k])

LEMMA ApproxUnique ==
    ASSUME NEW n \in Nat, NEW m \in Nat, m <= n, NEW g, NEW h, Approx(g, n), Approx(h, m)
    PROVE  g[m] = h[m]
<1> DEFINE T == {k \in Nat : k <= m => g[k] = h[k]}
<1>1. 0 \in T
  BY DEF Approx
<1>2. ASSUME NEW k \in Nat, k \in T PROVE k + 1 \in T
  <2>1. CASE k + 1 <= m
    <3>1. g[k] = h[k] /\ k \in 0 .. (n - 1) /\ k \in 0 .. (m - 1)
      BY <1>2, <2>1
    <3>2. g[k + 1] = Step(g[k]) /\ h[k + 1] = Step(h[k])
      BY <3>1 DEF Approx
    <3>3. g[k + 1] = h[k + 1]
      BY <3>1, <3>2
    <3> QED BY <3>3
  <2> QED BY <2>1
<1> HIDE DEF T
<1>3. m \in T
  BY <1>1, <1>2, Induction
<1> QED BY <1>3 DEF T

LEMMA ApproxExists ==
    ASSUME NEW n \in Nat
    PROVE  \E g : Approx(g, n)
<1> DEFINE T == {k \in Nat : \E g : Approx(g, k)}
<1>1. 0 \in T
  <2>1. Approx([i \in {0} |-> {srcId}], 0)
    BY DEF Approx
  <2> QED BY <2>1
<1>2. ASSUME NEW k \in Nat, k \in T PROVE k + 1 \in T
  <2>1. PICK g : Approx(g, k)
    BY <1>2
  <2> DEFINE h == [i \in 0 .. (k + 1) |-> IF i = k + 1 THEN Step(g[k]) ELSE g[i]]
  <2>2. h[0] = {srcId}
    BY <2>1 DEF Approx
  <2>3. ASSUME NEW i \in 0 .. ((k + 1) - 1) PROVE h[i + 1] = Step(h[i])
    <3>1. CASE i = k
      BY <3>1
    <3>2. CASE i # k
      BY <2>1, <3>2 DEF Approx
    <3> QED BY <3>1, <3>2
  <2>4. Approx(h, k + 1)
    BY <2>2, <2>3 DEF Approx
  <2> QED BY <2>4
<1> HIDE DEF T
<1>3. n \in T
  BY <1>1, <1>2, Induction
<1> QED BY <1>3 DEF T

(* The reference is what its recursive definition says. *)
LEMMA BallIs ==
    /\ Ball[0] = {srcId}
    /\ \A k \in Nat : Ball[k + 1] = Step(Ball[k])
<1> DEFINE Ap(n) == CHOOSE g : Approx(g, n)
           f == [n \in Nat |-> Ap(n)[n]]
           Rec(B) == B = [k \in Nat |-> IF k = 0 THEN {srcId} ELSE Step(B[k - 1])]
<1>1. \A n \in Nat : Approx(Ap(n), n)
  BY ApproxExists
<1>2. f[0] = {srcId}
  BY <1>1 DEF Approx
<1>3. ASSUME NEW k \in Nat PROVE f[k + 1] = Step(f[k])
  <2>1. Approx(Ap(k + 1), k + 1) /\ Approx(Ap(k), k)
    BY <1>1
  <2> HIDE DEF Ap
  <2>2. Ap(k + 1)[k + 1] = Step(Ap(k + 1)[k])
    BY <2>1 DEF Approx
  <2>3. Ap(k + 1)[k] = Ap(k)[k]
    BY <2>1, ApproxUnique
  <2> QED BY <2>2, <2>3
<1>4. f = [n \in Nat |-> f[n]]
  OBVIOUS
<1> HIDE DEF f
<1>5. Rec(f)
  <2>1. \A k \in Nat : f[k] = IF k = 0 THEN {srcId} ELSE Step(f[k - 1])
    <3> TAKE k \in Nat
    <3>1. k # 0 => k - 1 \in Nat /\ (k - 1) + 1 = k
      OBVIOUS
    <3>2. k # 0 => f[k] = Step(f[k - 1])
      BY <1>3, <3>1
    <3> QED BY <1>2, <3>2
  <2> QED BY <1>4, <2>1
<1>6. Ball = CHOOSE B : Rec(B)
  BY DEF Ball, Step
<1> HIDE DEF Rec
<1>7. Rec(Ball)
  BY <1>5, <1>6, Zenon
<1>8. Ball = [k \in Nat |-> IF k = 0 THEN {srcId} ELSE Step(Ball[k - 1])]
  BY <1>7 DEF Rec
<1>9. ASSUME NEW k \in Nat PROVE Ball[k + 1] = Step(Ball[k])
  <2>1. Ball[k + 1] = IF k + 1 = 0 THEN {srcId} ELSE Step(Ball[(k + 1) - 1])
    BY <1>8
  <2>2. k + 1 # 0 /\ (k + 1) - 1 = k
    OBVIOUS
  <2> QED BY <2>1, <2>2
<1> QED BY <1>8, <1>9

-----------------------------------------------------------------------------
(* The edges of the call under way that pass the filter. *)
Passing == {e \in Out \cap Passes : e[1] \in u}

TypeOK ==
    /\ search \in BOOLEAN
    /\ srcId \in Node
    /\ distance \in [Node -> Int]
    /\ u \subseteq Node
    /\ pc \in {"loop", "sparse", "dense", "done"}
    /\ pairs \subseteq Out
    /\ verts \subseteq Node

(* What a call under way still has to do, and what it has done. *)
CallInv ==
    /\ pc \in {"loop", "done"} => pairs = {} /\ verts = {} /\ tested = {}
    /\ pc = "sparse" => verts = {} /\ \A e \in pairs : e[1] \in u
    /\ pc = "dense" => pairs = {}
    /\ tested \subseteq Passing
    /\ pc \in {"sparse", "dense"} =>
          /\ applied \subseteq Passing
          /\ res = {e[2] : e \in applied}

(* Nothing of a call without condition is passed over. *)
OneCallInv ==
    /\ pc = "sparse" => Passing \subseteq pairs \cup tested \cup applied
    /\ pc = "dense" =>
          \A e \in Passing : e[2] \in verts \/ \E x \in tested \cup applied : x[2] = e[2]

(* The frontier of the search is at distance k, and the distances up to k  *)
(* are right.                                                              *)
Level(k) ==
    /\ u = {v \in Node : distance[v] = k}
    /\ \A j \in 0 .. k : \A v \in Node : v \in Ball[j] <=> distance[v] \in 0 .. j

(* The call that looks for the next level: a vertex it recorded has        *)
(* distance k + 1, and a vertex it has yet to give a distance is still to  *)
(* be tested or to be applied.                                             *)
Search(k) ==
    /\ pc = "loop" => Level(k) /\ \A v \in Node : distance[v] \in -1 .. k
    /\ pc \in {"sparse", "dense"} =>
          /\ Level(k)
          /\ \A v \in Node : distance[v] \in -1 .. (k + 1)
          /\ \A e \in tested : distance[e[2]] \in {-1, k + 1}
          /\ res = {v \in Node : distance[v] = k + 1}
    /\ pc = "sparse" =>
          \A e \in Passing : distance[e[2]] = -1 => e \in pairs \cup tested
    /\ pc = "dense" =>
          \A e \in Passing : distance[e[2]] = -1 =>
              e[2] \in verts \/ \E x \in tested : x[2] = e[2]
    /\ pc = "done" => u = {} /\ Level(k) /\ \A v \in Node : distance[v] \in -1 .. k

SearchInv ==
    /\ TypeOK
    /\ CallInv
    /\ ~search => OneCallInv
    /\ search => \E k \in Nat : Search(k)
-----------------------------------------------------------------------------
LEMMA CallInit == Init => TypeOK /\ CallInv
  BY DEF Init, TypeOK, CallInv

LEMMA CallNext == TypeOK /\ CallInv /\ [Next]_vars => TypeOK' /\ CallInv'
<1> SUFFICES ASSUME TypeOK, CallInv, [Next]_vars PROVE TypeOK' /\ CallInv'
  OBVIOUS
<1> USE MapAssumption
<1>1. CASE StartSparse
  BY <1>1 DEF StartSparse, TypeOK, CallInv, Passing
<1>2. CASE StartDense
  BY <1>2 DEF StartDense, TypeOK, CallInv, Passing
<1>3. CASE Stop
  BY <1>3 DEF Stop, TypeOK, CallInv, Passing
<1>4. CASE Return
  <2>1. res \subseteq Node
    BY <1>4 DEF Return, Returning, CallInv, Passing
  <2> QED BY <1>4, <2>1 DEF Return, Returning, TypeOK, CallInv, Passing
<1>5. ASSUME NEW s \in Node, NEW d \in Node, TestSparse(s, d) PROVE TypeOK' /\ CallInv'
  <2>1. Passing' = Passing
    BY <1>5 DEF TestSparse, Passing
  <2>2. tested' \subseteq Passing
    <3>1. <<s, d>> \in Out /\ s \in u
      BY <1>5 DEF TestSparse, TypeOK, CallInv
    <3> QED BY <1>5, <3>1 DEF TestSparse, CallInv, Passing
  <2> QED BY <1>5, <2>1, <2>2 DEF TestSparse, TypeOK, CallInv
<1>6. ASSUME NEW s \in Node, NEW d \in Node, TestDense(s, d) PROVE TypeOK' /\ CallInv'
  <2>1. Passing' = Passing
    BY <1>6 DEF TestDense, Passing
  <2>2. tested' \subseteq Passing
    BY <1>6 DEF TestDense, CallInv, Passing, Candidates, InNbrs
  <2> QED BY <1>6, <2>1, <2>2 DEF TestDense, TypeOK, CallInv
<1>7. ASSUME NEW s \in Node, NEW d \in Node, Apply(s, d) PROVE TypeOK' /\ CallInv'
  <2>1. Passing' = Passing /\ <<s, d>> \in Passing /\ pc \in {"sparse", "dense"}
    BY <1>7 DEF Apply, Passing, CallInv, TypeOK
  <2>2. distance' \in [Node -> Int]
    BY <1>7 DEF Apply, M, TypeOK
  <2>3. res' = {e[2] : e \in applied'}
    BY <1>7, <2>1 DEF Apply, CallInv
  <2> QED BY <1>7, <2>1, <2>2, <2>3 DEF Apply, TypeOK, CallInv
<1>8. ASSUME NEW v \in Node, SkipDense(v) PROVE TypeOK' /\ CallInv'
  BY <1>8 DEF SkipDense, TypeOK, CallInv, Passing
<1>9. CASE UNCHANGED vars
  BY <1>9 DEF vars, TypeOK, CallInv, Passing
<1> QED BY <1>1, <1>2, <1>3, <1>4, <1>5, <1>6, <1>7, <1>8, <1>9 DEF Next

(* One call without condition, sparse or dense. *)
LEMMA OneCallNext ==
    TypeOK /\ CallInv /\ ~search /\ OneCallInv /\ [Next]_vars => OneCallInv' /\ ~search'
<1> SUFFICES ASSUME TypeOK, CallInv, ~search, OneCallInv, [Next]_vars
             PROVE  OneCallInv' /\ ~search'
  OBVIOUS
<1> USE MapAssumption
<1>1. CASE StartSparse
  BY <1>1 DEF StartSparse, OneCallInv, CallInv, Passing
<1>2. CASE StartDense
  BY <1>2 DEF StartDense, OneCallInv, CallInv, Passing
<1>3. CASE Stop
  BY <1>3 DEF Stop, OneCallInv
<1>4. CASE Return
  BY <1>4 DEF Return, OneCallInv
<1>5. ASSUME NEW s \in Node, NEW d \in Node, TestSparse(s, d) PROVE OneCallInv' /\ ~search'
  <2>1. Passing' = Passing /\ (<<s, d>> \in Passing => <<s, d>> \in tested')
    BY <1>5 DEF TestSparse, Passing, C
  <2> QED BY <1>5, <2>1 DEF TestSparse, OneCallInv
<1>6. ASSUME NEW s \in Node, NEW d \in Node, TestDense(s, d) PROVE OneCallInv' /\ ~search'
  <2>1. Passing' = Passing
    BY <1>6 DEF TestDense, Passing
  <2>2. /\ pc = "dense" /\ pc' = "dense" /\ verts' = verts \ {d} /\ applied' = applied
        /\ tested' = tested \cup {<<s, d>>} /\ search' = search
    BY <1>6 DEF TestDense
  <2>3. ASSUME NEW e \in Passing
        PROVE  e[2] \in verts' \/ \E x \in tested' \cup applied' : x[2] = e[2]
    <3>1. CASE e[2] = d
      <4>1. <<s, d>> \in tested' \cup applied' /\ <<s, d>>[2] = d
        BY <2>2
      <4> QED BY <3>1, <4>1
    <3>2. CASE e[2] # d
      BY <2>2, <3>2 DEF OneCallInv
    <3> QED BY <3>1, <3>2
  <2> QED BY <2>1, <2>2, <2>3 DEF OneCallInv
<1>7. ASSUME NEW s \in Node, NEW d \in Node, Apply(s, d) PROVE OneCallInv' /\ ~search'
  <2>1. Passing' = Passing /\ tested' \cup applied' = tested \cup applied
    BY <1>7 DEF Apply, Passing
  <2>2. pc' = pc /\ search' = search /\ verts' = verts /\ pairs' = pairs
    BY <1>7 DEF Apply
  <2>3. pairs' \cup tested' \cup applied' = pairs \cup tested \cup applied
    BY <2>1, <2>2
  <2> QED BY <2>1, <2>2, <2>3 DEF OneCallInv
<1>8. ASSUME NEW v \in Node, SkipDense(v) PROVE OneCallInv' /\ ~search'
  <2>1. Passing' = Passing /\ \A e \in Passing : e[2] # v
    <3>1. ASSUME NEW e \in Passing, e[2] = v PROVE e[1] \in Candidates(v)
      <4>1. e[1] \in Node /\ e = <<e[1], v>> /\ e \in Out /\ e \in Passes /\ e[1] \in u
        BY <3>1 DEF Passing
      <4> QED BY <4>1 DEF Candidates, InNbrs
    <3> QED BY <1>8, <3>1 DEF SkipDense, C, Passing
  <2>2. /\ pc' = pc /\ pc = "dense" /\ search' = search /\ verts' = verts \ {v}
        /\ tested' = tested /\ applied' = applied
    BY <1>8 DEF SkipDense
  <2> QED BY <2>1, <2>2 DEF OneCallInv
<1>9. CASE UNCHANGED vars
  BY <1>9 DEF vars, OneCallInv, Passing
<1> QED BY <1>1, <1>2, <1>3, <1>4, <1>5, <1>6, <1>7, <1>8, <1>9 DEF Next

LEMMA OneCallRight == TypeOK /\ CallInv /\ (~search => OneCallInv) => TargetsRight
<1> SUFFICES ASSUME TypeOK, CallInv, ~search, OneCallInv, Returning
             PROVE  /\ res = {e[2] : e \in Passing}
                    /\ applied \subseteq Passing
                    /\ res = {e[2] : e \in applied}
  BY DEF TargetsRight, Passing
<1>1. applied \subseteq Passing /\ res = {e[2] : e \in applied}
  BY DEF CallInv, Returning
<1>2. \A e \in Passing : \E x \in applied : x[2] = e[2]
  BY DEF OneCallInv, Returning
<1> QED BY <1>1, <1>2
-----------------------------------------------------------------------------
LEMMA SearchInit == Init /\ search => Search(0)
<1> SUFFICES ASSUME Init, search PROVE Search(0)
  OBVIOUS
<1>1. \A v \in Node : distance[v] = 0 <=> v = srcId
  BY DEF Init
<1>2. u = {v \in Node : distance[v] = 0}
  BY <1>1 DEF Init
<1>3. \A j \in 0 .. 0 : \A v \in Node : v \in Ball[j] <=> distance[v] \in 0 .. j
  <2>1. \A j \in 0 .. 0 : j = 0
    OBVIOUS
  <2>2. \A v \in Node : v \in Ball[0] <=> distance[v] \in 0 .. 0
    BY <1>1, BallIs DEF Init
  <2> QED BY <2>1, <2>2
<1>4. \A v \in Node : distance[v] \in -1 .. 0
  BY DEF Init
<1> QED BY <1>2, <1>3, <1>4 DEF Init, Search, Level

(* A step of the tasks does not touch the levels that are complete. *)
LEMMA LevelKept ==
    ASSUME NEW k \in Nat, Level(k), srcId' = srcId, u' = u,
           distance \in [Node -> Int], distance' \in [Node -> Int],
           \A v \in Node : distance'[v] = distance[v]
                             \/ (distance[v] = -1 /\ distance'[v] = k + 1)
    PROVE  Level(k)'
<1>1. Ball' = Ball
  BY DEF Ball
<1>2. \A j \in 0 .. k : \A v \in Node : distance'[v] \in 0 .. j <=> distance[v] \in 0 .. j
  OBVIOUS
<1>3. \A v \in Node : distance'[v] = k <=> distance[v] = k
  OBVIOUS
<1> QED BY <1>1, <1>2, <1>3 DEF Level

LEMMA LevelSame ==
    ASSUME NEW k, UNCHANGED <<srcId, u, distance>>
    PROVE  Level(k)' = Level(k)
<1>1. Ball' = Ball
  BY DEF Ball
<1> QED BY <1>1 DEF Level

(* A call that is complete has found all of the next level. *)
LEMMA NextLevel ==
    ASSUME NEW k \in Nat, TypeOK, CallInv, Search(k), Returning
    PROVE  \A v \in Node : v \in Ball[k + 1] <=> distance[v] \in 0 .. (k + 1)
<1> SUFFICES ASSUME NEW v \in Node
             PROVE  v \in Ball[k + 1] <=> distance[v] \in 0 .. (k + 1)
  OBVIOUS
<1>1. /\ Level(k) /\ distance[v] \in -1 .. (k + 1)
      /\ res = {x \in Node : distance[x] = k + 1} /\ res = {e[2] : e \in applied}
      /\ applied \subseteq Passing
      /\ \A e \in Passing : distance[e[2]] # -1
  BY DEF Search, Returning, CallInv
<1>2. Ball[k + 1] = Step(Ball[k]) /\ \A i \in 0 .. k : Ball[i + 1] = Step(Ball[i])
  BY BallIs
<1>3. ASSUME v \in Ball[k + 1] PROVE distance[v] \in 0 .. (k + 1)
  <2>1. CASE v \in Ball[k]
    BY <1>1, <2>1 DEF Level
  <2>2. CASE \E s \in Ball[k] : <<s, v>> \in Out \cap Passes
    <3>1. PICK s \in Ball[k] : <<s, v>> \in Out \cap Passes
      BY <2>2
    <3>2. s \in Node /\ distance[s] \in 0 .. k
      BY <1>1, <3>1, MapAssumption DEF Level
    <3>3. CASE distance[s] = k
      <4>1. <<s, v>> \in Passing /\ <<s, v>>[2] = v
        BY <1>1, <3>1, <3>2, <3>3 DEF Level, Passing
      <4>2. distance[v] # -1
        BY <1>1, <4>1
      <4> QED BY <1>1, <4>2
    <3>4. CASE distance[s] # k
      <4> DEFINE i == distance[s]
      <4>1. i \in 0 .. k /\ i + 1 \in 0 .. k /\ s \in Ball[i]
        BY <1>1, <3>2, <3>4 DEF Level
      <4>2. v \in Ball[i + 1]
        BY <1>2, <3>1, <4>1 DEF Step
      <4>3. distance[v] \in 0 .. (i + 1)
        BY <1>1, <4>1, <4>2 DEF Level
      <4> QED BY <4>1, <4>3
    <3> QED BY <3>3, <3>4
  <2> QED BY <1>2, <1>3, <2>1, <2>2 DEF Step
<1>4. ASSUME distance[v] \in 0 .. (k + 1) PROVE v \in Ball[k + 1]
  <2>1. CASE distance[v] \in 0 .. k
    BY <1>1, <1>2, <2>1 DEF Level, Step
  <2>2. CASE distance[v] = k + 1
    <3>1. PICK e \in Passing : e[2] = v
      BY <1>1, <2>2
    <3>2. e \in Out \cap Passes /\ e = <<e[1], v>> /\ e[1] \in Node /\ e[1] \in u
      BY <3>1, MapAssumption DEF Passing
    <3>3. distance[e[1]] = k
      BY <1>1, <3>2 DEF Level
    <3>4. e[1] \in Ball[k]
      BY <1>1, <3>2, <3>3 DEF Level
    <3> QED BY <1>2, <3>2, <3>4 DEF Step
  <2> QED BY <1>4, <2>1, <2>2
<1> QED BY <1>3, <1>4

LEMMA SearchNext ==
    ASSUME TypeOK, CallInv, TypeOK', search, NEW k \in Nat, Search(k), [Next]_vars
    PROVE  search' /\ (Search(k)' \/ Search(k + 1)')
<1> USE MapAssumption
<1>1. CASE StartSparse
  <2>1. Level(k)'
    BY <1>1, LevelSame DEF StartSparse, Search
  <2>2. Passing' = Passing /\ Passing \subseteq pairs'
    BY <1>1 DEF StartSparse, Passing
  <2> QED BY <1>1, <2>1, <2>2 DEF StartSparse, CallInv, Search
<1>2. CASE StartDense
  <2>1. Level(k)'
    BY <1>2, LevelSame DEF StartDense, Search
  <2>2. Passing' = Passing /\ \A e \in Passing : e[2] \in verts'
    BY <1>2 DEF StartDense, Passing
  <2> QED BY <1>2, <2>1, <2>2 DEF StartDense, CallInv, Search
<1>3. CASE Stop
  <2>1. Level(k)'
    BY <1>3, LevelSame DEF Stop, Search
  <2> QED BY <1>3, <2>1 DEF Stop, Search
<1>4. CASE Return
  <2>1. /\ srcId' = srcId /\ distance' = distance /\ pc' = "loop" /\ u' = res /\ search' = search
        /\ pc \in {"sparse", "dense"}
    BY <1>4 DEF Return, Returning
  <2>2. Ball' = Ball
    BY <2>1 DEF Ball
  <2>3. \A v \in Node : v \in Ball[k + 1] <=> distance[v] \in 0 .. (k + 1)
    BY <1>4, NextLevel DEF Return
  <2>4. Level(k) /\ \A v \in Node : distance[v] \in -1 .. (k + 1)
    BY <2>1 DEF Search
  <2>5. Level(k + 1)'
    <3>1. u' = {v \in Node : distance[v] = k + 1}
      BY <2>1 DEF Search
    <3>2. \A j \in 0 .. (k + 1) : \A v \in Node : v \in Ball[j] <=> distance[v] \in 0 .. j
      BY <2>3, <2>4 DEF Level
    <3> QED BY <2>1, <2>2, <3>1, <3>2 DEF Level
  <2>6. Search(k + 1)'
    BY <2>1, <2>4, <2>5 DEF Search
  <2> QED BY <2>1, <2>6
<1>5. ASSUME NEW s \in Node, NEW d \in Node, TestSparse(s, d) PROVE search' /\ Search(k)'
  <2>1. /\ pc = "sparse" /\ pc' = "sparse" /\ distance' = distance /\ search' = search
        /\ res' = res /\ Passing' = Passing /\ pairs' = pairs \ {<<s, d>>}
        /\ tested' = IF <<s, d>> \in Passes /\ distance[d] = -1 THEN tested \cup {<<s, d>>}
                     ELSE tested
    BY <1>5 DEF TestSparse, Passing, C
  <2>2. Level(k)'
    BY <1>5, LevelSame DEF TestSparse, Search
  <2>3. \A e \in tested' : distance[e[2]] \in {-1, k + 1}
    BY <2>1 DEF Search
  <2>4. \A e \in Passing : distance[e[2]] = -1 => e \in pairs' \cup tested'
    BY <2>1 DEF Search, Passing
  <2> QED BY <2>1, <2>2, <2>3, <2>4 DEF Search
<1>6. ASSUME NEW s \in Node, NEW d \in Node, TestDense(s, d) PROVE search' /\ Search(k)'
  <2>1. /\ pc = "dense" /\ pc' = "dense" /\ distance' = distance /\ search' = search
        /\ res' = res /\ Passing' = Passing /\ verts' = verts \ {d}
        /\ tested' = tested \cup {<<s, d>>} /\ distance[d] = -1
    BY <1>6 DEF TestDense, Passing, C
  <2>2. Level(k)'
    BY <1>6, LevelSame DEF TestDense, Search
  <2>3. \A e \in tested' : distance[e[2]] \in {-1, k + 1}
    BY <2>1 DEF Search
  <2>4. ASSUME NEW e \in Passing, distance[e[2]] = -1
        PROVE  e[2] \in verts' \/ \E x \in tested' : x[2] = e[2]
    <3>1. CASE e[2] = d
      <4>1. <<s, d>> \in tested' /\ <<s, d>>[2] = d
        BY <2>1
      <4> QED BY <3>1, <4>1
    <3>2. CASE e[2] # d
      BY <2>1, <2>4, <3>2 DEF Search
    <3> QED BY <3>1, <3>2
  <2> QED BY <2>1, <2>2, <2>3, <2>4 DEF Search
<1>7. ASSUME NEW s \in Node, NEW d \in Node, Apply(s, d) PROVE search' /\ Search(k)'
  <2>1. /\ <<s, d>> \in tested /\ <<s, d>> \in Passing /\ pc \in {"sparse", "dense"}
        /\ pc' = pc /\ search' = search /\ Passing' = Passing /\ srcId' = srcId /\ u' = u
        /\ pairs' = pairs /\ verts' = verts /\ tested' = tested \ {<<s, d>>}
        /\ res' = res \cup {d}
    BY <1>7 DEF Apply, CallInv, TypeOK, Passing
  <2>2. Level(k) /\ distance[s] = k /\ distance[d] \in {-1, k + 1}
    <3>1. Level(k) /\ \A e \in tested : distance[e[2]] \in {-1, k + 1}
      BY <2>1 DEF Search
    <3>2. s \in u
      BY <2>1 DEF Passing
    <3> QED BY <2>1, <3>1, <3>2 DEF Level
  <2>3. distance'[d] = k + 1 /\ \A v \in Node \ {d} : distance'[v] = distance[v]
    BY <1>7, <2>2 DEF Apply, M, TypeOK
  <2>4. Level(k)'
    <3>1. \A v \in Node : distance'[v] = distance[v]
                             \/ (distance[v] = -1 /\ distance'[v] = k + 1)
      BY <2>2, <2>3
    <3>2. distance \in [Node -> Int] /\ distance' \in [Node -> Int]
      BY DEF TypeOK
    <3> QED BY <2>1, <2>2, <3>1, <3>2, LevelKept
  <2>5. \A v \in Node : distance'[v] \in -1 .. (k + 1)
    BY <2>1, <2>3 DEF Search
  <2>6. \A e \in tested' : distance'[e[2]] \in {-1, k + 1}
    <3>1. \A e \in tested : e[2] \in Node /\ distance[e[2]] \in {-1, k + 1}
      BY <2>1 DEF Search, CallInv, Passing
    <3> QED BY <2>1, <2>3, <3>1
  <2>7. res' = {v \in Node : distance'[v] = k + 1}
    BY <2>1, <2>3 DEF Search
  <2>8. ASSUME NEW e \in Passing, distance'[e[2]] = -1
        PROVE  e # <<s, d>> /\ e[2] # d /\ distance[e[2]] = -1
    <3>1. e[2] \in Node
      BY <2>8 DEF Passing
    <3>2. e[2] # d
      BY <2>3, <2>8
    <3> QED BY <2>3, <2>8, <3>1, <3>2
  <2>9. pc = "sparse" =>
            \A e \in Passing : distance'[e[2]] = -1 => e \in pairs' \cup tested'
    BY <2>1, <2>8 DEF Search
  <2>10. pc = "dense" =>
            \A e \in Passing : distance'[e[2]] = -1 =>
                e[2] \in verts' \/ \E x \in tested' : x[2] = e[2]
    <3> SUFFICES ASSUME pc = "dense", NEW e \in Passing, distance'[e[2]] = -1, e[2] \notin verts
                 PROVE  \E x \in tested' : x[2] = e[2]
      BY <2>1
    <3>1. PICK x \in tested : x[2] = e[2]
      BY <2>8 DEF Search
    <3>2. x # <<s, d>>
      BY <2>8, <3>1
    <3> QED BY <2>1, <3>1, <3>2
  <2> QED BY <2>1, <2>4, <2>5, <2>6, <2>7, <2>9, <2>10 DEF Search
<1>8. ASSUME NEW v \in Node, SkipDense(v) PROVE search' /\ Search(k)'
  <2>1. /\ pc = "dense" /\ pc' = "dense" /\ distance' = distance /\ search' = search
        /\ res' = res /\ Passing' = Passing /\ verts' = verts \ {v} /\ tested' = tested
    BY <1>8 DEF SkipDense, Passing
  <2>2. Level(k)'
    BY <1>8, LevelSame DEF SkipDense, Search
  <2>3. ASSUME NEW e \in Passing, distance[e[2]] = -1 PROVE e[2] # v
    <3>1. ASSUME e[2] = v PROVE e[1] \in Candidates(v)
      <4>1. e[1] \in Node /\ e = <<e[1], v>> /\ e \in Out /\ e \in Passes /\ e[1] \in u
        BY <3>1 DEF Passing
      <4> QED BY <4>1 DEF Candidates, InNbrs
    <3> QED BY <1>8, <2>3, <3>1 DEF SkipDense, C
  <2> QED BY <2>1, <2>2, <2>3 DEF Search
<1>9. CASE UNCHANGED vars
  <2>1. Level(k) => Level(k)'
    BY <1>9, LevelSame DEF vars
  <2> QED BY <1>9, <2>1 DEF vars, Search, Passing
<1> QED BY <1>1, <1>2, <1>3, <1>4, <1>5, <1>6, <1>7, <1>8, <1>9 DEF Next

(* When the frontier is empty, what has a distance is closed under edges,  *)
(* so the source reaches nothing else.                                     *)
LEMMA SearchRight ==
    ASSUME TypeOK, NEW k \in Nat, Search(k)
    PROVE  DistancesRight
<1> SUFFICES ASSUME pc = "done"
             PROVE  \A v \in Node :
                      /\ distance[v] = -1 => v \notin Ball[Cardinality(Node)]
                      /\ distance[v] = 0 => v = srcId
                      /\ distance[v] > 0 => v \in Ball[distance[v]] \ Ball[distance[v] - 1]
  BY DEF DistancesRight
<1>1. u = {} /\ Level(k) /\ \A v \in Node : distance[v] \in -1 .. k /\ distance[v] # k
  BY DEF Search, Level
<1> DEFINE S == {v \in Node : distance[v] # -1}
           T == {n \in Nat : Ball[n] \subseteq S}
<1>2. 0 \in T
  BY <1>1, BallIs DEF Level, TypeOK
<1>3. ASSUME NEW n \in Nat, n \in T PROVE n + 1 \in T
  <2> SUFFICES ASSUME NEW s \in S, NEW d \in Node, <<s, d>> \in Out \cap Passes
               PROVE  distance[d] # -1
    <3>1. Ball[n + 1] = Step(Ball[n]) /\ Ball[n] \subseteq S
      BY <1>3, BallIs
    <3>2. (\A s \in S, d \in Node : <<s, d>> \in Out \cap Passes => d \in S)
             => Step(Ball[n]) \subseteq S
      BY <3>1 DEF Step
    <3> QED BY <3>1, <3>2
  <2> DEFINE i == distance[s]
  <2>1. i \in 0 .. k /\ i + 1 \in 0 .. k /\ s \in Ball[i]
    BY <1>1 DEF Level
  <2>2. d \in Ball[i + 1]
    BY <2>1, BallIs DEF Step
  <2>3. distance[d] \in 0 .. (i + 1)
    BY <1>1, <2>1, <2>2 DEF Level
  <2> QED BY <2>1, <2>3
<1> HIDE DEF T
<1>4. Cardinality(Node) \in T
  BY <1>2, <1>3, Induction, FS_CardinalityType, MapAssumption
<1>5. Ball[Cardinality(Node)] \subseteq S
  BY <1>4 DEF T
<1>6. ASSUME NEW v \in Node, distance[v] = 0 PROVE v = srcId
  BY <1>1, <1>6, BallIs DEF Level
<1>7. ASSUME NEW v \in Node, distance[v] > 0
      PROVE  v \in Ball[distance[v]] \ Ball[distance[v] - 1]
  <2>1. distance[v] \in 0 .. k /\ distance[v] - 1 \in 0 .. k
    BY <1>1, <1>7
  <2> QED BY <1>1, <2>1 DEF Level
<1> QED BY <1>5, <1>6, <1>7

LEMMA SearchCorrect == Spec => []SearchInv
<1>1. Init => SearchInv
  BY CallInit, SearchInit DEF SearchInv, Init, OneCallInv
<1>2. SearchInv /\ [Next]_vars => SearchInv'
  <2> SUFFICES ASSUME SearchInv, [Next]_vars PROVE SearchInv'
    OBVIOUS
  <2>1. TypeOK /\ CallInv /\ TypeOK' /\ CallInv'
    BY CallNext DEF SearchInv
  <2>2. CASE search
    <3>1. PICK k \in Nat : Search(k)
      BY <2>2 DEF SearchInv
    <3>2. search' /\ (Search(k)' \/ Search(k + 1)')
      BY <2>1, <2>2, <3>1, SearchNext
    <3> QED BY <2>1, <3>2 DEF SearchInv
  <2>3. CASE ~search
    BY <2>1, <2>3, OneCallNext DEF SearchInv
  <2> QED BY <2>2, <2>3
<1> QED BY <1>1, <1>2, PTL DEF Spec

(* One call of edgeMap finds the targets of the frontier's filtered edges, *)
(* in its sparse and in its dense form (edgeMapSparse, edgeMapDense).      *)
THEOREM CallFindsTargets == Spec => []TargetsRight
<1>1. SearchInv => TargetsRight
  BY OneCallRight DEF SearchInv
<1> QED BY <1>1, SearchCorrect, PTL

(* The breadth-first search that edgeMap drives calculates the distance of *)
(* every vertex, however its calls are cut into tasks and the tasks race.  *)
THEOREM SearchFindsDistances == Spec => []DistancesRight
<1>1. SearchInv => DistancesRight
  BY SearchRight DEF SearchInv, DistancesRight
<1> QED BY <1>1, SearchCorrect, PTL
=============================================================================
