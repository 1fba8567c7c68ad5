----------------------- MODULE MCNetworkPoolReconciler -----------------------
(* Instances of NetworkPoolReconciler: a pool with two versions that       *)
(* differ in load balancers, range and prewarming, an allocation of it and *)
(* one with the label of a pool that is not there.                         *)
EXTENDS NetworkPoolReconciler

V(lbs, max, enabled) ==
  [spec    |-> [lbs |-> lbs, min |-> 1, max |-> max, excluded |-> << >>],
   prewarm |-> [enabled |-> enabled, bufferSize |-> 1]]

VersionsOf ==
  [p |-> {V(<<"x", "y">>, 3, FALSE), V(<<"y">>, 2, TRUE)}, q |-> {}]

B(lb, port) == [podPort |-> 80, lb |-> lb, lbPort |-> port]

ObjectOf == [u |-> [label |-> "p", bindings |-> <<B("x", 1), B("x", 2)>>],
             z |-> [label |-> "q", bindings |-> <<B("y", 2)>>]]
=============================================================================
