---------------------------- MODULE PortSelection ----------------------------
(***************************************************************************)
(* The pure part of pkg/allocator: given the specification of a network    *)
(* pool and the list of its allocations, which load balancer is chosen and *)
(* which of its ports are handed out.                                      *)
(*                                                                         *)
(*   spec  a pool specification, [lbs, min, max, excluded]: the sequence   *)
(*         of load-balancer ids, the port range and the sequence (as in    *)
(*         the YAML: it may repeat ports or leave the range) of excluded   *)
(*         ports;                                                          *)
(*   list  a function from allocation keys to objects with a field         *)
(*         bindings, a sequence of [podPort, lb, lbPort].                  *)
(*                                                                         *)
(* A Go call that may return an error is a set: its result, or {} for the  *)
(* error.  Indexes of load balancers are 1-based here, 0-based in Go.      *)
(***************************************************************************)
EXTENDS Integers, Sequences, FiniteSets

CONSTANT MaxInt  \* the largest int32; a run may use a narrower machine integer

ASSUME MaxIntAssumption == MaxInt \in Nat

-----------------------------------------------------------------------------
(* One int32 operation wraps around at most once. *)
Int32(x) ==
  IF x > MaxInt THEN x - 2 * (MaxInt + 1)
  ELSE IF x < -(MaxInt + 1) THEN x + 2 * (MaxInt + 1)
  ELSE x

(* The positions <<key, i>> of all bindings, and of those on one load      *)
(* balancer.                                                               *)
Positions(list) == UNION {{k} \X DOMAIN list[k].bindings : k \in DOMAIN list}

(* Faulty variant: the first binding of every allocation is skipped. *)
BindingsOnAfterFirst(list, lb) ==
  {b \in Positions(list) : b[2] > 1 /\ list[b[1]].bindings[b[2]].lb = lb}

BindingsOn(list, lb) ==
  {b \in Positions(list) : list[b[1]].bindings[b[2]].lb = lb}

getLBPortUsage(list, lb) == Cardinality(BindingsOn(list, lb))

GetAllocatedPortsByLB(list, lb) ==
  {list[b[1]].bindings[b[2]].lbPort : b \in BindingsOn(list, lb)}

(* Faulty variant: the map of ports is made anew for every allocation. *)
HasPortConflictsWithin(list) ==
  \E k \in DOMAIN list :
    LET bs == list[k].bindings
    IN  Cardinality({bs[i].lbPort : i \in DOMAIN bs}) < Len(bs)

(* A port is met a second time: there are fewer ports than bindings.  The  *)
(* load balancer plays no part.                                            *)
HasPortConflicts(list) ==
  Cardinality({list[b[1]].bindings[b[2]].lbPort : b \in Positions(list)})
    < Cardinality(Positions(list))

FindAllocationsByLBPort(list, port) ==
  {k \in DOMAIN list : \E i \in DOMAIN list[k].bindings : list[k].bindings[i].lbPort = port}

ExcludedPorts(spec) == {spec.excluded[i] : i \in DOMAIN spec.excluded}

(* Faulty variant: the excluded ports are counted as available. *)
hasAvailablePortsExcludedToo(spec, list, lb, portCount) ==
  (spec.max - spec.min + 1) - getLBPortUsage(list, lb) >= portCount

(* The check is arithmetic: it subtracts the length of the excluded list   *)
(* and the number of bindings, not the ports they really take away.        *)
hasAvailablePorts(spec, list, lb, portCount) ==
  LET totalPorts == Int32(Int32(Int32(spec.max - spec.min) + 1)
                            - Len(spec.excluded))
  IN  Int32(totalPorts - getLBPortUsage(list, lb)) >= portCount

(* The exact number the check approximates in int32: the size of the range *)
(* less the excluded entries and the bindings.  It is negative for an      *)
(* inverted range.                                                         *)
PortsLeft(spec, list, lb) ==
  (spec.max - spec.min + 1) - Len(spec.excluded) - getLBPortUsage(list, lb)

(* Faulty variants: the last port of the range is left out; ports that are *)
(* already bound are handed out.                                           *)
freePortsShortRange(spec, list, lb) ==
  (spec.min .. spec.max - 1)
    \ (GetAllocatedPortsByLB(list, lb) \cup ExcludedPorts(spec))

freePortsWithBound(spec, list, lb) == (spec.min .. spec.max) \ ExcludedPorts(spec)

(* The ports the scan of findAvailablePorts may return. *)
freePorts(spec, list, lb) ==
  (spec.min .. spec.max)
    \ (GetAllocatedPortsByLB(list, lb) \cup ExcludedPorts(spec))

(* The count lowest free ports in ascending order: the i-th port handed    *)
(* out has i - 1 free ports below it.                                      *)
findAvailablePorts(spec, list, lb, count) ==
  LET free == freePorts(spec, list, lb)
      Lowest(i) == CHOOSE x \in free : Cardinality({p \in free : p < x}) = i - 1
  IN  IF count > 0 /\ Cardinality(free) >= count
      THEN {[i \in 1 .. count |-> Lowest(i)]}
      ELSE {}

(* The loop of findAvailablePorts as it is written, port++ that wraps      *)
(* around included: its variables, its condition and its body.             *)
scanStart(spec) == [port |-> spec.min, found |-> << >>]

scanning(spec, count, state) == state.port <= spec.max /\ Len(state.found) < count

scanPort(taken, state) ==
  [port  |-> Int32(state.port + 1),
   found |-> IF state.port \in taken THEN state.found ELSE Append(state.found, state.port)]

(* The variables of the loop after m iterations, or at its end. *)
scanLoop(spec, taken, count) ==
  LET After[m \in Nat] ==
        IF m = 0 THEN scanStart(spec)
        ELSE LET state == After[m - 1]
             IN  IF scanning(spec, count, state) THEN scanPort(taken, state) ELSE state
  IN  After

-----------------------------------------------------------------------------
(* First load balancer with room, starting at position cur (0-based). *)
selectRoundRobin(spec, list, portCount, cur) ==
  LET n         == Len(spec.lbs)
      At(i)     == ((cur + i) % n) + 1
      Usable(i) == hasAvailablePorts(spec, list, spec.lbs[At(i)], portCount)
  IN  {At(i) : i \in {j \in 0 .. n - 1 :
                        Usable(j) /\ \A h \in 0 .. j - 1 : ~Usable(h)}}

(* Faulty variant: the first load balancer with room. *)
selectFirstUsable(spec, list, portCount) ==
  LET usable == {i \in DOMAIN spec.lbs : hasAvailablePorts(spec, list, spec.lbs[i], portCount)}
  IN  {i \in usable : \A j \in usable : i <= j}

(* The load balancer with room that has the fewest bindings, the first of  *)
(* them in the order of the specification.                                 *)
selectLeastUsed(spec, list, portCount) ==
  LET Usage(i) == getLBPortUsage(list, spec.lbs[i])
      usable   == {i \in DOMAIN spec.lbs :
                     /\ Usage(i) < MaxInt
                     /\ hasAvailablePorts(spec, list, spec.lbs[i], portCount)}
  IN  {i \in usable : \A j \in usable : \/ Usage(i) < Usage(j)
                                        \/ Usage(i) = Usage(j) /\ i <= j}

(* Every strategy but "least-used" is round robin. *)
SelectLoadBalancer(strategy, spec, list, portCount, cur) ==
  IF strategy = "least-used"
  THEN selectLeastUsed(spec, list, portCount)
  ELSE selectRoundRobin(spec, list, portCount, cur)

(* Faulty variants: the index does not move; it runs past the last load    *)
(* balancer.                                                               *)
nextIndexStays(strategy, spec, selected, cur) == cur

nextIndexUnwrapped(strategy, spec, selected, cur) ==
  IF strategy = "least-used" \/ selected = {} THEN cur ELSE CHOOSE i \in selected : TRUE

(* Position at which the next round-robin selection starts. *)
nextIndex(strategy, spec, selected, cur) ==
  IF strategy = "least-used" \/ selected = {}
  THEN cur
  ELSE (CHOOSE i \in selected : TRUE) % Len(spec.lbs)
=============================================================================
