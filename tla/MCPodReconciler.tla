--------------------------- MODULE MCPodReconciler ---------------------------
(* Instances of PodReconciler: pods, pools and the annotations users write. *)
EXTENDS PodReconciler, TLC

CONSTANT Namespaces  \* of pods

(* The reconcilers run the same code, and compare namespaces only. *)
Symmetry == Permutations(Workers) \cup Permutations(Namespaces)

Ann(enable, kind, items, ports) ==
  [enable |-> enable, kind |-> kind, items |-> items, ports |-> ports]

(* Pods of the same name, one in each namespace. *)
SamePods == {<<n, "u">> : n \in Namespaces}
TwoPools == {"p", "q"}
OnePool == {"p"}

OneItem == {Ann(TRUE, "items", <<"p">>, "x")}
BothItems == {Ann(TRUE, "items", <<"p", "", "q", "p">>, "x")}

(* Containers declare y, annotations name x. *)
DeclaredPort == {"y"}

(* The pod stays managed, with good annotations or ones that do not parse. *)
GoodAndBad == BothItems \cup {Ann(TRUE, "malformed", << >>, "absent")}

(* Allocation is switched off for a pod that had it. *)
GoneAnnotation == OneItem \cup {Ann(FALSE, "items", <<"p">>, "x")}
=============================================================================
