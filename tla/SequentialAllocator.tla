------------------------- MODULE SequentialAllocator -------------------------
(***************************************************************************)
(* One caller of pkg/allocator and one pool: every call runs to its end    *)
(* before the next one.  What is left is the arithmetic of the port range, *)
(* the scan for free ports, the two strategies and the round-robin index,  *)
(* over every history of grants, of calls that fail once the index has     *)
(* moved, of releases, edits of the pool specification and restarts.       *)
(***************************************************************************)
EXTENDS PoolStatus

CONSTANTS
  Specs,      \* the specifications the pool may have
  Slots,      \* names of allocations: bounds how many exist at once
  Counts,     \* numbers of ports a pod may ask for
  Strategy,   \* "round-robin", "least-used" or anything else
  Prewarms,   \* prewarm configurations a pool may have
  MaxEdits    \* bound on the number of edits of the specification

LBs == UNION {{s.lbs[i] : i \in DOMAIN s.lbs} : s \in Specs}

(* The fields of a specification are int32. *)
ASSUME SpecsAssumption ==
  \A s \in Specs : /\ s.lbs \in Seq(LBs)
                   /\ s.min \in -(MaxInt + 1) .. MaxInt
                   /\ s.max \in -(MaxInt + 1) .. MaxInt
                   /\ s.excluded \in Seq(Int)

(* A request without ports is answered without a selection. *)
ASSUME CountsAssumption == Counts \subseteq Nat \ {0} /\ MaxEdits \in Nat

VARIABLES
  spec,       \* current specification of the pool
  list,       \* the pool's allocations, a function on the slots in use
  cur,        \* roundRobinIndex of the pool
  skipped,    \* history: per load balancer, selections it was passed over by
  edits       \* edits made so far

vars == <<spec, list, cur, skipped, edits>>

Init == /\ spec \in Specs
        /\ list = <<>>
        /\ cur = 0
        /\ skipped = [lb \in LBs |-> 0]
        /\ edits = 0

(* History of passed-over load balancers: a round-robin selection for n    *)
(* ports went to another one although lb had room.                         *)
PassedOver(n, chosen) ==
  [lb \in LBs |->
     IF /\ Strategy # "least-used"
        /\ lb \in {spec.lbs[i] : i \in DOMAIN spec.lbs} \ {chosen}
        /\ hasAvailablePorts(spec, list, lb, n)
     THEN skipped[lb] + 1
     ELSE 0]

(* AllocatePort for a new pod that asks for n ports.  A call that finds no *)
(* load balancer with room changes nothing.                                *)
Grant(k, n) ==
  LET selected == SelectLoadBalancer(Strategy, spec, list, n, cur)
  IN  /\ k \notin DOMAIN list
      /\ cur' = nextIndex(Strategy, spec, selected, cur)
      /\ \E i \in selected : \E ports \in findAvailablePorts(spec, list, spec.lbs[i], n) :
           /\ list' = [j \in DOMAIN list \cup {k} |->
                         IF j \in DOMAIN list THEN list[j]
                         ELSE [bindings |-> [b \in 1 .. n |->
                                 [podPort |-> b, lb |-> spec.lbs[i], lbPort |-> ports[b]]]]]
           /\ skipped' = PassedOver(n, spec.lbs[i])
      /\ UNCHANGED <<spec, edits>>

(* AllocatePort fails behind SelectLoadBalancer, in the scan or in the     *)
(* Create: the index has moved, the load balancer selected had its turn.   *)
GrantFails(n) ==
  LET selected == SelectLoadBalancer(Strategy, spec, list, n, cur)
  IN  /\ cur' = nextIndex(Strategy, spec, selected, cur)
      /\ \E i \in selected : skipped' = PassedOver(n, spec.lbs[i])
      /\ UNCHANGED <<spec, list, edits>>

(* A new process starts with an empty map of indexes. *)
Restart == /\ cur' = 0
           /\ skipped' = [lb \in LBs |-> 0]
           /\ UNCHANGED <<spec, list, edits>>

Release(k) == /\ k \in DOMAIN list
              /\ list' = [j \in DOMAIN list \ {k} |-> list[j]]
              /\ UNCHANGED <<spec, cur, skipped, edits>>

(* The pool is edited: its allocations stay, wherever their ports are now. *)
EditPool(s) == /\ edits < MaxEdits
               /\ spec' = s
               /\ edits' = edits + 1
               /\ skipped' = [lb \in LBs |-> 0]
               /\ UNCHANGED <<list, cur>>

Next == \/ \E k \in Slots : \/ \E n \in Counts : Grant(k, n)
                            \/ Release(k)
        \/ \E n \in Counts : GrantFails(n)
        \/ Restart
        \/ \E s \in Specs : EditPool(s)

Spec == Init /\ [][Next]_vars

-----------------------------------------------------------------------------
(* A load balancer that passes hasAvailablePorts has the ports: whatever   *)
(* the exclusions, the ports left over from older specifications and the   *)
(* int32 arithmetic, findAvailablePorts does not fail after it.  The one   *)
(* exception is a number of ports left that is below the smallest int32    *)
(* and wraps around to a positive one: an inverted range of two billion    *)
(* ports, which nothing in the CRD forbids, passes the check.              *)
SelectedLBServes ==
  \A n \in Counts : \A j \in DOMAIN spec.lbs :
    hasAvailablePorts(spec, list, spec.lbs[j], n)
      => \/ findAvailablePorts(spec, list, spec.lbs[j], n) # {}
         \/ PortsLeft(spec, list, spec.lbs[j]) < -(MaxInt + 1)

(* Wherever the scan can be called (the load balancer passed the           *)
(* arithmetic check, with the exception of SelectedLBServes, or the range  *)
(* ends before the largest int32) the loop of findAvailablePorts ends      *)
(* after no more iterations than the range has ports and returns the n     *)
(* lowest free ports of the range, or fails when there are fewer: it never *)
(* runs on into wrapped-around port numbers.                               *)
ScanStaysInRange ==
  \A n \in Counts : \A j \in DOMAIN spec.lbs :
    LET lb    == spec.lbs[j]
        taken == GetAllocatedPortsByLB(list, lb) \cup ExcludedPorts(spec)
        end   == scanLoop(spec, taken, n)[Cardinality(spec.min .. spec.max)]
    IN  (\/ spec.max < MaxInt
         \/ hasAvailablePorts(spec, list, lb, n) /\ PortsLeft(spec, list, lb) >= -(MaxInt + 1))
          => /\ ~scanning(spec, n, end)
             /\ findAvailablePorts(spec, list, lb, n)
                  = IF Len(end.found) = n THEN {end.found} ELSE {}

(* The pool's status promises what the allocator keeps, but for two things *)
(* the property names: as many ports as AvailableCount reports for a load  *)
(* balancer can be allocated on it, in one request even, less the ports a  *)
(* negative bufferSize adds to the report, unless the number of ports left *)
(* is below the smallest int32 and wraps around.  The two counts are       *)
(* computed independently, the one in the pool reconciler, the other by    *)
(* the scan.                                                               *)
AvailableIsServable ==
  \A prewarm \in Prewarms : \A j \in DOMAIN spec.lbs :
    LET lb       == spec.lbs[j]
        servable == calculateLBStatus(spec, prewarm, lb, list).available - Inflation(prewarm)
    IN  servable > 0
          => \/ findAvailablePorts(spec, list, lb, servable) # {}
             \/ PortsLeft(spec, list, lb) - Reserve(prewarm) < -(MaxInt + 1)

(* Whatever else happened to the pool, no port of a load balancer is in    *)
(* two bindings of the list that the next allocation will count.           *)
UsageIsExact ==
  \A lb \in LBs : getLBPortUsage(list, lb) = Cardinality(GetAllocatedPortsByLB(list, lb))

(* Round robin starves no load balancer: since the last restart or edit of *)
(* the pool, one that has room for every request that comes was passed     *)
(* over by fewer selections in a row than the pool has load balancers,     *)
(* whether the calls went on to succeed or to fail.                        *)
RoundRobinStarvesNone ==
  Strategy # "least-used" =>
    \A i \in DOMAIN spec.lbs : skipped[spec.lbs[i]] < Len(spec.lbs)

(* Types; the round-robin index, which outlives edits of the pool, is the  *)
(* position of a load balancer in some version of it.                      *)
TypeOK == /\ spec \in Specs
          /\ DOMAIN list \subseteq Slots
          /\ cur = 0 \/ \E s \in Specs : cur \in 0 .. Len(s.lbs) - 1
          /\ edits \in 0 .. MaxEdits

=============================================================================
