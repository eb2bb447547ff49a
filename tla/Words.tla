-------------------------------- MODULE Words --------------------------------
(***************************************************************************)
(* The signed integers of the states of an algorithm: two's complement,    *)
(* with the width as a parameter, and the operations on them.              *)
(***************************************************************************)
EXTENDS Integers

CONSTANT Half       \* 2^63 for int64_t

ASSUME HalfAssumption == Half \in Nat \ {0}

Word == -Half .. (Half - 1)

(* Mutant: the result of write instead of writeMax. *)
LargerIsWrite(a, b) == b

(* The comparison of writeMax: a is the value in place, b the new one. *)
Larger(a, b) == IF a > b THEN a ELSE b

(* Mutant: an addition with no width. *)
WrapAddUnbounded(a, b) == a + b

(* Addition of two words: what the machine's add leaves on overflow. *)
WrapAdd(a, b) ==
    LET sum == a + b IN
    IF sum >= Half THEN sum - 2 * Half
    ELSE IF sum < -Half THEN sum + 2 * Half
    ELSE sum
=============================================================================
