-------------------------- MODULE MCTopoPropagation --------------------------
(***************************************************************************)
(* Instances of TopoPropagation for TLC: three connectivity nodes in a     *)
(* row, b1 between c1 and c2 and b2 between c2 and c3, so that c2 is       *)
(* raised by two switches at once; and two nodes joined by two switches in *)
(* parallel, the smallest network in which two tasks raise one node.       *)
(***************************************************************************)
EXTENDS TopoPropagation

CONSTANTS c1, c2, c3, b1, b2

RowCN == {c1, c2, c3}
PairCN == {c1, c2}
Switches == {b1, b2}
RowConnected == {<<c1, b1>>, <<c2, b1>>, <<c2, b2>>, <<c3, b2>>}
PairConnected == {<<c1, b1>>, <<c2, b1>>, <<c1, b2>>, <<c2, b2>>}

(* -1 is what a CN has that no device seeded. *)
MixedSeeds == {-1, 0, 3}
OneIdSeeds == {-1, 3}
=============================================================================
