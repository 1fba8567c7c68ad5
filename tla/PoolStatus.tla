----------------------------- MODULE PoolStatus -----------------------------
(***************************************************************************)
(* The pure part of the pool reconciler: the status of one load balancer   *)
(* of a pool, computed from the pool's specification, its prewarm          *)
(* configuration [enabled, bufferSize] and a list of its allocations (see  *)
(* PortSelection for spec and list).                                       *)
(***************************************************************************)
EXTENDS PortSelection

(* bufferSize is any int32: the CRD gives it no minimum. *)
PrewarmedCount(prewarm) == IF prewarm.enabled THEN prewarm.bufferSize ELSE 0

(* What the configuration takes off the ports that are left, and what a    *)
(* negative bufferSize adds to them.                                       *)
Reserve(prewarm)   == IF PrewarmedCount(prewarm) > 0 THEN PrewarmedCount(prewarm) ELSE 0
Inflation(prewarm) == IF PrewarmedCount(prewarm) < 0 THEN -PrewarmedCount(prewarm) ELSE 0

(* Faulty variant: the excluded ports are reported as available. *)
availablePortsExcludedToo(spec, prewarm, lb, list) ==
  LET n == (spec.max - spec.min + 1) - getLBPortUsage(list, lb) - PrewarmedCount(prewarm)
  IN  IF n < 0 THEN 0 ELSE n

TotalPorts(spec) == Int32(Int32(Int32(spec.max - spec.min) + 1) - Len(spec.excluded))

availablePorts(spec, prewarm, lb, list) ==
  LET n == Int32(Int32(TotalPorts(spec) - getLBPortUsage(list, lb)) - PrewarmedCount(prewarm))
  IN  IF n < 0 THEN 0 ELSE n

(* Phase and IsSynced are the same in every status and left out. *)
calculateLBStatus(spec, prewarm, lb, list) ==
  [allocations |-> [k \in {b[1] : b \in BindingsOn(list, lb)} |-> list[k]],
   total       |-> TotalPorts(spec),
   allocated   |-> getLBPortUsage(list, lb),
   prewarmed   |-> PrewarmedCount(prewarm),
   available   |-> availablePorts(spec, prewarm, lb, list)]
=============================================================================
