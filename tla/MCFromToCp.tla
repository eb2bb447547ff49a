----------------------------- MODULE MCFromToCp ------------------------------
(***************************************************************************)
(* A station for TLC.  Compensator s1 joins c1 and c2 and also touches c3, *)
(* s2 has one side at c2 only, s3 is out of service.  Line l1 is stored in *)
(* both directions, l2 once; one transformer of each kind.                 *)
(* In the memory graph two compensators measure at one CN; the breaker and *)
(* the disconnectors lead to two line ends and a bus.  n1 is the source of *)
(* its topo_aclinedot edge, as the procedure inserts them, n2 the target,  *)
(* which two parallel edges join to a1.                                    *)
(***************************************************************************)
EXTENDS FromToCp, TLC

OpenCNs == {"c1", "c2", "c3"}
Comp(i, j, off) == [iNd |-> i, jNd |-> j, off |-> off]
Compensators == ("s1" :> Comp(1, 2, 0)) @@ ("s2" :> Comp(2, 9, 0)) @@ ("s3" :> Comp(1, 2, 1))
CNids == ("c1" :> 1) @@ ("c2" :> 2) @@ ("c3" :> 3)
AtCompensator == {<<"c1", "s1">>, <<"c2", "s1">>, <<"c3", "s1">>, <<"c2", "s2">>, <<"c3", "s2">>, <<"c1", "s3">>}
Ends == ("e1" :> "c1") @@ ("e2" :> "c2") @@ ("e3" :> "c3") @@ ("x1" :> "c1") @@ ("x2" :> "c2") @@ ("y1" :> "c1") @@ ("y3" :> "c3")
Line(i, s, t, r) == [src |-> s, dst |-> t, id |-> i, r |-> r]
Lines == {Line("l1", "e1", "e2", -3), Line("l1", "e2", "e1", -3), Line("l2", "e3", "e2", 2)}
Tx2s == {[src |-> "x1", dst |-> "x2", off |-> 0, r |-> -2], [src |-> "x2", dst |-> "x1", off |-> 1, r |-> -2]}
Neutrals == {[src |-> "y1", mid |-> 7, off |-> 1, r |-> 4], [src |-> "y3", mid |-> 7, off |-> 2, r |-> -4]}

V == {"n1", "n2", "p1", "p2", "k1", "k2", "b1", "d1", "a1", "a2", "u1"}
LabelsOf ==
    [v \in V |-> CASE v \in {"n1", "n2"} -> {"TopoND"} [] v \in {"p1", "p2"} -> {"C_P"}
                   [] v \in {"k1", "k2"} -> {"CN"} [] v \in {"a1", "a2"} -> {"ACline_dot"}
                   [] v = "u1" -> {"BUS"} [] OTHER -> {}]
NthL(no, label, src, dst) == [no |-> no, label |-> label, src |-> src, dst |-> dst]
L(label, src, dst) == NthL(0, label, src, dst)
Links ==
    {L("topo_compensatorP", "n1", "p1"), L("topo_compensatorP", "n2", "p2"),
     L("connected_Compensator_P_CN", "p1", "k1"), L("connected_Compensator_P_CN", "p2", "k1"),
     L("connected_Breaker_CN", "k1", "b1"), L("connected_Breaker_CN", "b1", "k2"),
     L("connected_Disconnector_CN", "k1", "d1"), L("connected_Disconnector_CN", "d1", "k2"),
     L("aclinedot_cn", "a1", "k2"), L("aclinedot_aclinedot", "a1", "a2"),
     L("aclinedot_aclinedot_reverse", "a2", "a1"),
     L("topo_aclinedot", "n1", "a1"), L("topo_aclinedot", "a2", "n2"), L("topo_aclinedot", "a1", "n2"),
     NthL(1, "topo_aclinedot", "a1", "n2"),
     L("connected_Bus_CN", "u1", "k2"), L("topo_bus", "n1", "u1"), L("topo_connect", "n1", "n2")}
IdValues == {-1, 0, 3, 5, 11}   \* 11 does not fit the int
Min64 == -1000000
Measured == ("p1" :> 500) @@ ("p2" :> -5)
=============================================================================
