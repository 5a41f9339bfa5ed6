---------------------------- MODULE MCIterators ----------------------------
(* Instances of IteratorProps for TLC. *)
EXTENDS IteratorProps

FourSlots == {<<1, 1>>, <<2, 1>>, <<2, 2>>, <<3, 1>>}
TwoMemtables == {1, 2}
OneTable == {3}
BothKinds == {"Value", "Deletion"}
LatestAndOne == {0, 1}
Own(k, kind) == [key |-> k, seq |-> 3, kind |-> kind]
SomeChains == {{}, {Own(1, "Deletion"), Own(3, "Value")},  {Own(2, "Value"), Own(3, "Deletion")}}
=============================================================================
