------------------------------ MODULE MCEdgeMap ------------------------------
(***************************************************************************)
(* Five vertices.  With kThresholdParam 2 a frontier of three is dense and *)
(* one of one or two is sparse, and n1 has so many neighbours that they    *)
(* are handled by tasks of their own.  The edge filter drops n4 -> n2.     *)
(***************************************************************************)
EXTENDS EdgeMap

CONSTANTS n1, n2, n3, n4, n5

Five == {n1, n2, n3, n4, n5}
Edges == {<<n1, n2>>, <<n1, n3>>, <<n1, n4>>, <<n2, n5>>, <<n3, n5>>,
          <<n4, n2>>, <<n5, n1>>, <<n5, n3>>}
Filtered == (Five \X Five) \ {<<n4, n2>>}
=============================================================================
