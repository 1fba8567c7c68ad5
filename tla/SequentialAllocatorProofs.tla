---------------------- MODULE SequentialAllocatorProofs ----------------------
(***************************************************************************)
(* Proofs about SequentialAllocator, for every history of grants, failing  *)
(* calls, releases, edits of the pool and restarts, every set of           *)
(* specifications and every strategy.                                      *)
(***************************************************************************)
EXTENDS SequentialAllocator, PortSelectionProofs

(* The binding at a position of a list.                                    *)
BindingAt(l, b) == l[b[1]].bindings[b[2]]

(* The list is finite, every port in it comes from a version of the pool,  *)
(* and none is bound twice on a load balancer.                             *)
ListFinite == IsFiniteSet(Positions(list))

ListExclusive ==
  \A b, c \in Positions(list) :
    (/\ BindingAt(list, b).lb = BindingAt(list, c).lb
     /\ BindingAt(list, b).lbPort = BindingAt(list, c).lbPort) => b = c

ListFromSpecs ==
  \A b \in Positions(list) : \E s \in Specs : BindingAt(list, b).lbPort \in s.min .. s.max

ListInv == TypeOK /\ ListFinite /\ ListExclusive /\ ListFromSpecs

(* Positions are pairs of a key and an index.                              *)
LEMMA PositionsDef ==
  ASSUME NEW l, NEW b
  PROVE  b \in Positions(l) <=> \E k \in DOMAIN l : \E i \in DOMAIN l[k].bindings : b = <<k, i>>
BY DEF Positions

(* The index and the specification have their types.                       *)
LEMMA SpecType ==
  ASSUME TypeOK
  PROVE  /\ cur \in Int
         /\ spec \in Specs /\ spec.lbs \in Seq(LBs)
         /\ spec.min \in Int /\ spec.max \in Int /\ spec.excluded \in Seq(Int)
<1>1. spec \in Specs
  BY DEF TypeOK
<1>2. spec.lbs \in Seq(LBs) /\ spec.min \in Int /\ spec.max \in Int /\ spec.excluded \in Seq(Int)
  BY <1>1, SpecsAssumption, MaxIntAssumption
<1>3. cur \in Int
  BY SpecsAssumption DEF TypeOK
<1> QED BY <1>1, <1>2, <1>3

(* What a grant adds to the list.                                          *)
LEMMA GrantStep ==
  ASSUME TypeOK, NEW k \in Slots, NEW n \in Counts, Grant(k, n)
  PROVE  \E i \in SelectLoadBalancer(Strategy, spec, list, n, cur) :
           /\ i \in DOMAIN spec.lbs
           /\ \E ports \in [1 .. n -> freePorts(spec, list, spec.lbs[i])] :
                /\ \A x, y \in 1 .. n : ports[x] = ports[y] => x = y
                /\ list' = [j \in DOMAIN list \cup {k} |->
                         IF j \in DOMAIN list THEN list[j]
                         ELSE [bindings |-> [b \in 1 .. n |->
                                 [podPort |-> b, lb |-> spec.lbs[i], lbPort |-> ports[b]]]]]
           /\ skipped' = PassedOver(n, spec.lbs[i])
<1>1. PICK i \in SelectLoadBalancer(Strategy, spec, list, n, cur) :
        /\ \E ports \in findAvailablePorts(spec, list, spec.lbs[i], n) :
             list' = [j \in DOMAIN list \cup {k} |->
                         IF j \in DOMAIN list THEN list[j]
                         ELSE [bindings |-> [b \in 1 .. n |->
                                 [podPort |-> b, lb |-> spec.lbs[i], lbPort |-> ports[b]]]]]
        /\ skipped' = PassedOver(n, spec.lbs[i])
  BY DEF Grant
<1>2. i \in DOMAIN spec.lbs
  BY SpecType, SelectInDomain
<1>3. PICK ports \in findAvailablePorts(spec, list, spec.lbs[i], n) :
             list' = [j \in DOMAIN list \cup {k} |->
                         IF j \in DOMAIN list THEN list[j]
                         ELSE [bindings |-> [b \in 1 .. n |->
                                 [podPort |-> b, lb |-> spec.lbs[i], lbPort |-> ports[b]]]]]
  BY <1>1
<1>4. n \in Nat
  BY CountsAssumption
<1>5. /\ ports \in [1 .. n -> freePorts(spec, list, spec.lbs[i])]
      /\ \A x, y \in 1 .. n : ports[x] = ports[y] => x = y
  BY <1>4, SpecType, FoundPorts
<1> QED BY <1>1, <1>2, <1>3, <1>5

(* A grant adds bindings at new positions, on ports that were free.        *)
LEMMA GrantKeeps ==
  ASSUME ListInv, NEW k \in Slots, NEW n \in Counts, Grant(k, n)
  PROVE  ListFinite' /\ ListExclusive' /\ ListFromSpecs'
<1>0. TypeOK /\ k \notin DOMAIN list /\ n \in Nat
  BY CountsAssumption DEF ListInv, Grant
<1>1. PICK i \in DOMAIN spec.lbs :
        \E ports \in [1 .. n -> freePorts(spec, list, spec.lbs[i])] :
                /\ \A x, y \in 1 .. n : ports[x] = ports[y] => x = y
                /\ list' = [j \in DOMAIN list \cup {k} |->
                         IF j \in DOMAIN list THEN list[j]
                         ELSE [bindings |-> [b \in 1 .. n |->
                                 [podPort |-> b, lb |-> spec.lbs[i], lbPort |-> ports[b]]]]]
  BY <1>0, GrantStep
<1> DEFINE lb == spec.lbs[i]
           free == freePorts(spec, list, lb)
<1>2. PICK ports \in [1 .. n -> free] :
                /\ \A x, y \in 1 .. n : ports[x] = ports[y] => x = y
                /\ list' = [j \in DOMAIN list \cup {k} |->
                         IF j \in DOMAIN list THEN list[j]
                         ELSE [bindings |-> [b \in 1 .. n |->
                                 [podPort |-> b, lb |-> lb, lbPort |-> ports[b]]]]]
  BY <1>1
<1> DEFINE new == [b \in 1 .. n |-> [podPort |-> b, lb |-> lb, lbPort |-> ports[b]]]
<1>3. /\ DOMAIN list' = DOMAIN list \cup {k}
      /\ \A j \in DOMAIN list : list'[j] = list[j]
      /\ list'[k].bindings = new
  BY <1>0, <1>2
<1>4. DOMAIN new = 1 .. n /\ \A x \in 1 .. n : new[x].lb = lb /\ new[x].lbPort = ports[x]
  OBVIOUS
<1> HIDE DEF new, lb, free
<1>5. \A b : b \in Positions(list') <=> (b \in Positions(list) \/ \E x \in 1 .. n : b = <<k, x>>)
  <2> TAKE b
  <2>1. ASSUME b \in Positions(list')
        PROVE  b \in Positions(list) \/ \E x \in 1 .. n : b = <<k, x>>
    <3>1. PICK j \in DOMAIN list' : \E x \in DOMAIN list'[j].bindings : b = <<j, x>>
      BY <2>1, PositionsDef
    <3>2. CASE j = k
      BY <1>3, <1>4, <3>1, <3>2
    <3>3. CASE j # k
      <4>1. j \in DOMAIN list /\ list'[j] = list[j]
        BY <1>3, <3>3
      <4> QED BY <3>1, <4>1, PositionsDef
    <3> QED BY <3>2, <3>3
  <2>2. ASSUME b \in Positions(list) PROVE b \in Positions(list')
    <3>1. PICK j \in DOMAIN list : \E x \in DOMAIN list[j].bindings : b = <<j, x>>
      BY <2>2, PositionsDef
    <3>2. j \in DOMAIN list' /\ list'[j] = list[j]
      BY <1>3
    <3> QED BY <3>1, <3>2, PositionsDef
  <2>3. ASSUME NEW x \in 1 .. n PROVE <<k, x>> \in Positions(list')
    <3>1. k \in DOMAIN list' /\ x \in DOMAIN list'[k].bindings
      BY <1>3, <1>4
    <3> QED BY <3>1, PositionsDef
  <2> QED BY <2>1, <2>2, <2>3
<1>6. \A b \in Positions(list) : BindingAt(list', b) = BindingAt(list, b) /\ b[1] # k
  BY <1>0, <1>3, PositionsDef DEF BindingAt
<1>7. \A x \in 1 .. n : /\ BindingAt(list', <<k, x>>).lb = lb
                        /\ BindingAt(list', <<k, x>>).lbPort = ports[x]
                        /\ ports[x] \in free
  BY <1>3, <1>4 DEF BindingAt
<1>8. \A b \in Positions(list), x \in 1 .. n :
        ~(BindingAt(list, b).lb = lb /\ BindingAt(list, b).lbPort = ports[x])
  <2> SUFFICES ASSUME NEW b \in Positions(list), NEW x \in 1 .. n, BindingAt(list, b).lb = lb
               PROVE  BindingAt(list, b).lbPort # ports[x]
    OBVIOUS
  <2>1. b \in BindingsOn(list, lb)
    BY DEF BindingsOn, BindingAt
  <2>2. BindingAt(list, b).lbPort \in GetAllocatedPortsByLB(list, lb)
    BY <2>1 DEF GetAllocatedPortsByLB, BindingAt
  <2> QED BY <2>2, <1>7 DEF freePorts, free
<1>9. ListFinite'
  <2>1. Positions(list') = Positions(list) \cup ({k} \X (1 .. n))
    BY <1>5
  <2>2. IsFiniteSet({k}) /\ IsFiniteSet(1 .. n)
    <3>1. IsFiniteSet({k})
      BY FS_Singleton
    <3>2. 1 \in Int /\ n \in Int
      BY <1>0
    <3> QED BY <3>1, <3>2, FS_Interval
  <2>3. IsFiniteSet({k} \X (1 .. n))
    BY <2>2, FS_Product
  <2>4. IsFiniteSet(Positions(list))
    BY DEF ListInv, ListFinite
  <2>5. IsFiniteSet(Positions(list) \cup ({k} \X (1 .. n)))
    BY <2>3, <2>4, FS_Union
  <2> QED BY <2>1, <2>5 DEF ListFinite
<1>10. ListExclusive'
  <2> SUFFICES ASSUME NEW b \in Positions(list'), NEW c \in Positions(list'),
                      BindingAt(list', b).lb = BindingAt(list', c).lb,
                      BindingAt(list', b).lbPort = BindingAt(list', c).lbPort
               PROVE  b = c
    BY DEF ListExclusive
  <2>1. CASE b \in Positions(list) /\ c \in Positions(list)
    BY <1>6, <2>1 DEF ListInv, ListExclusive
  <2>2. CASE b \in Positions(list) /\ c \notin Positions(list)
    BY <1>5, <1>6, <1>7, <1>8, <2>2
  <2>3. CASE b \notin Positions(list) /\ c \in Positions(list)
    BY <1>5, <1>6, <1>7, <1>8, <2>3
  <2>4. CASE b \notin Positions(list) /\ c \notin Positions(list)
    <3>1. PICK x \in 1 .. n : b = <<k, x>>
      BY <1>5, <2>4
    <3>2. PICK y \in 1 .. n : c = <<k, y>>
      BY <1>5, <2>4
    <3> QED BY <1>2, <1>7, <3>1, <3>2
  <2> QED BY <2>1, <2>2, <2>3, <2>4
<1>11. ListFromSpecs'
  <2>1. spec \in Specs /\ \A x \in 1 .. n : ports[x] \in spec.min .. spec.max
    BY <1>0, <1>7 DEF TypeOK, freePorts, free
  <2> SUFFICES ASSUME NEW b \in Positions(list')
               PROVE  \E s \in Specs : BindingAt(list', b).lbPort \in s.min .. s.max
    BY DEF ListFromSpecs
  <2>2. CASE b \in Positions(list)
    BY <1>6, <2>2 DEF ListInv, ListFromSpecs
  <2>3. CASE b \notin Positions(list)
    BY <1>5, <1>7, <2>1, <2>3
  <2> QED BY <2>2, <2>3
<1> QED BY <1>9, <1>10, <1>11

(* A release takes positions away and leaves the others.                   *)
LEMMA ReleaseKeeps ==
  ASSUME ListInv, NEW k \in Slots, Release(k)
  PROVE  ListFinite' /\ ListExclusive' /\ ListFromSpecs'
<1>1. DOMAIN list' = DOMAIN list \ {k} /\ \A j \in DOMAIN list' : list'[j] = list[j]
  BY DEF Release
<1>2. \A b \in Positions(list') : b \in Positions(list) /\ BindingAt(list', b) = BindingAt(list, b)
  BY <1>1, PositionsDef DEF BindingAt
<1>3. ListFinite'
  <2>1. Positions(list') \in SUBSET Positions(list)
    BY <1>2
  <2> QED BY <2>1, FS_Subset DEF ListInv, ListFinite
<1> QED BY <1>2, <1>3 DEF ListInv, ListExclusive, ListFromSpecs

(* Types are kept.                                                         *)
LEMMA TypeNext == TypeOK /\ [Next]_vars => TypeOK'
<1> SUFFICES ASSUME TypeOK, [Next]_vars PROVE TypeOK'
  OBVIOUS
<1>1. ASSUME NEW k \in Slots, NEW n \in Counts, Grant(k, n) PROVE TypeOK'
  <2> DEFINE selected == SelectLoadBalancer(Strategy, spec, list, n, cur)
  <2>1. selected \in SUBSET DOMAIN spec.lbs
    BY SpecType, SelectInDomain
  <2>2. cur' = nextIndex(Strategy, spec, selected, cur) /\ UNCHANGED <<spec, edits>>
    BY <1>1 DEF Grant
  <2> HIDE DEF selected
  <2>3. cur' = cur \/ cur' \in 0 .. Len(spec.lbs) - 1
    BY <2>1, <2>2, SpecType, NextIndexType
  <2>4. DOMAIN list' \subseteq Slots
    <3>1. DOMAIN list' = DOMAIN list \cup {k}
      BY <1>1 DEF Grant
    <3> QED BY <3>1 DEF TypeOK
  <2> QED BY <2>2, <2>3, <2>4 DEF TypeOK
<1>2. ASSUME NEW k \in Slots, Release(k) PROVE TypeOK'
  BY <1>2 DEF Release, TypeOK
<1>3. ASSUME NEW s \in Specs, EditPool(s) PROVE TypeOK'
  BY <1>3, CountsAssumption DEF EditPool, TypeOK
<1>4. ASSUME NEW n \in Counts, GrantFails(n) PROVE TypeOK'
  <2> DEFINE selected == SelectLoadBalancer(Strategy, spec, list, n, cur)
  <2>1. selected \in SUBSET DOMAIN spec.lbs
    BY SpecType, SelectInDomain
  <2>2. cur' = nextIndex(Strategy, spec, selected, cur) /\ UNCHANGED <<spec, list, edits>>
    BY <1>4 DEF GrantFails
  <2> HIDE DEF selected
  <2>3. cur' = cur \/ cur' \in 0 .. Len(spec.lbs) - 1
    BY <2>1, <2>2, SpecType, NextIndexType
  <2> QED BY <2>2, <2>3 DEF TypeOK
<1>5. CASE Restart
  BY <1>5 DEF Restart, TypeOK
<1>6. CASE UNCHANGED vars
  BY <1>6 DEF vars, TypeOK
<1> QED BY <1>1, <1>2, <1>3, <1>4, <1>5, <1>6 DEF Next

(* The invariant of the list is inductive.                                 *)
LEMMA ListInductive == Spec => []ListInv
<1>1. Init => ListInv
  <2> SUFFICES ASSUME Init PROVE ListInv
    OBVIOUS
  <2>1. Positions(list) = {}
    BY DEF Init, Positions
  <2>2. TypeOK
    BY CountsAssumption DEF Init, TypeOK
  <2> QED BY <2>1, <2>2, FS_EmptySet DEF ListInv, ListFinite, ListExclusive, ListFromSpecs
<1>2. ListInv /\ [Next]_vars => ListInv'
  <2> SUFFICES ASSUME ListInv, [Next]_vars PROVE ListFinite' /\ ListExclusive' /\ ListFromSpecs'
    BY TypeNext DEF ListInv
  <2>1. CASE UNCHANGED list
    BY <2>1 DEF ListInv, ListFinite, ListExclusive, ListFromSpecs
  <2> QED BY <2>1, GrantKeeps, ReleaseKeeps DEF Next, GrantFails, Restart, EditPool, vars
<1> QED BY <1>1, <1>2, PTL DEF Spec

(* SequentialAllocator never leaves its types: the round-robin index is    *)
(* the position of a load balancer in some version of the pool.            *)
THEOREM SequentialTypes == Spec => []TypeOK
<1>1. ListInv => TypeOK
  BY DEF ListInv
<1> QED BY <1>1, ListInductive, PTL

-----------------------------------------------------------------------------
(* Usage                                                                   *)

(* Bindings on a load balancer and ports taken on it are in bijection.     *)
LEMMA UsageExact ==
  ASSUME ListInv, NEW lb
  PROVE  /\ IsFiniteSet(BindingsOn(list, lb))
         /\ getLBPortUsage(list, lb) = Cardinality(GetAllocatedPortsByLB(list, lb))
         /\ IsFiniteSet(GetAllocatedPortsByLB(list, lb))
<1> DEFINE on == BindingsOn(list, lb)
           taken == GetAllocatedPortsByLB(list, lb)
           f == [b \in on |-> BindingAt(list, b).lbPort]
<1>1. on \in SUBSET Positions(list)
  BY DEF BindingsOn
<1>2. IsFiniteSet(on)
  BY <1>1, FS_Subset DEF ListInv, ListFinite
<1>3. \A b, c \in on : f[b] = f[c] => b = c
  <2> SUFFICES ASSUME NEW b \in on, NEW c \in on, f[b] = f[c] PROVE b = c
    OBVIOUS
  <2>1. BindingAt(list, b).lb = lb /\ BindingAt(list, c).lb = lb
    BY DEF BindingsOn, BindingAt
  <2> QED BY <1>1, <2>1 DEF ListInv, ListExclusive
<1>4. taken = {f[b] : b \in on}
  BY DEF GetAllocatedPortsByLB, BindingAt
<1>5. f \in Surjection(on, taken)
  BY <1>4 DEF Surjection
<1>6. f \in Injection(on, taken)
  BY <1>3, <1>5 DEF Injection, IsInjective, Surjection
<1> HIDE DEF on, taken, f
<1>7. IsFiniteSet(taken) /\ Cardinality(taken) = Cardinality(on)
  BY <1>2, <1>5, <1>6, FS_Surjection
<1> QED BY <1>2, <1>7 DEF on, taken, getLBPortUsage

(* The number of bindings that hasAvailablePorts and the status subtract   *)
(* is the number of ports taken: no port of a load balancer is counted     *)
(* twice, after any history of grants, releases and edits.                 *)
THEOREM ExactUsage == Spec => []UsageIsExact
<1>1. ListInv => UsageIsExact
  BY UsageExact DEF UsageIsExact
<1> QED BY <1>1, ListInductive, PTL

-----------------------------------------------------------------------------
(* Round robin                                                             *)

(* A number is determined by quotient and remainder.                       *)
LEMMA ModUnique ==
  ASSUME NEW q \in Int, NEW r \in Int, NEW n \in Nat, n > 0, 0 <= r, r < n
  PROVE  (n * q + r) % n = r
OBVIOUS

(* Quotient and remainder make up a number.                                *)
LEMMA DivMod ==
  ASSUME NEW a \in Int, NEW n \in Nat, n > 0
  PROVE  /\ a \div n \in Int /\ a % n \in Int /\ 0 <= a % n /\ a % n < n
         /\ a = n * (a \div n) + (a % n)
OBVIOUS

(* Remainders may be taken early.                                          *)
LEMMA ModAdd ==
  ASSUME NEW a \in Int, NEW b \in Int, NEW n \in Nat, n > 0
  PROVE  ((a % n) + b) % n = (a + b) % n
<1> DEFINE r == a % n
           q == a \div n
           r2 == (r + b) % n
           q2 == (r + b) \div n
<1>1. r \in Int /\ q \in Int /\ a = n * q + r
  BY DivMod
<1> HIDE DEF r, q
<1>2. r + b \in Int
  BY <1>1
<1>3. r2 \in Int /\ q2 \in Int /\ 0 <= r2 /\ r2 < n /\ r + b = n * q2 + r2
  BY <1>2, DivMod
<1> HIDE DEF r2, q2
<1>4. a + b = n * (q + q2) + r2
  <2>1. a + b = n * q + (n * q2 + r2)
    BY <1>1, <1>3
  <2>2. n * q + n * q2 = n * (q + q2)
    BY <1>1, <1>3
  <2>3. n * q \in Int /\ n * q2 \in Int
    BY <1>1, <1>3
  <2> QED BY <1>3, <2>1, <2>2, <2>3
<1>5. q + q2 \in Int
  BY <1>1, <1>3
<1>6. (n * (q + q2) + r2) % n = r2
  BY <1>3, <1>5, ModUnique
<1> QED BY <1>4, <1>6 DEF r2, r

(* A full turn changes no remainder.                                       *)
LEMMA ModTurn ==
  ASSUME NEW a \in Int, NEW n \in Nat, n > 0
  PROVE  (a + n) % n = a % n
<1> DEFINE r == a % n
           q == a \div n
<1>1. r \in Int /\ q \in Int /\ 0 <= r /\ r < n /\ a = n * q + r
  BY DivMod
<1> HIDE DEF r, q
<1>2. a + n = n * (q + 1) + r
  BY <1>1
<1>3. (n * (q + 1) + r) % n = r
  BY <1>1, ModUnique
<1> QED BY <1>2, <1>3 DEF r

(* The load balancer at a distance from the index, as selectRoundRobin     *)
(* visits them.                                                            *)
Visited(c, h) == ((c + h) % Len(spec.lbs)) + 1

(* Every load balancer is visited.                                         *)
LEMMA AllVisited ==
  ASSUME TypeOK, NEW i \in DOMAIN spec.lbs
  PROVE  \E h \in 0 .. Len(spec.lbs) - 1 : Visited(cur, h) = i
<1> DEFINE n == Len(spec.lbs)
           h == (i - 1 - cur) % n
<1>1. n \in Nat /\ n > 0 /\ i \in 1 .. n /\ cur \in Int
  BY SpecType
<1> HIDE DEF n
<1>2. i - 1 - cur \in Int /\ i - 1 \in Int /\ 0 <= i - 1 /\ i - 1 < n
  BY <1>1
<1>3. h \in 0 .. n - 1
  BY <1>1, <1>2, Remainder
<1>4. (h + cur) % n = ((i - 1 - cur) + cur) % n
  BY <1>1, <1>2, ModAdd
<1>5. (i - 1) % n = i - 1
  BY <1>1, <1>2
<1> HIDE DEF h
<1>6. h + cur = cur + h /\ (i - 1 - cur) + cur = i - 1
  BY <1>1, <1>3
<1>7. (cur + h) % n = i - 1
  BY <1>4, <1>5, <1>6
<1>8. Visited(cur, h) = i
  BY <1>1, <1>7 DEF Visited, n
<1> QED BY <1>3, <1>8 DEF n

(* A load balancer that was passed over is the nearer to its turn.         *)
TurnComes ==
  /\ skipped \in [LBs -> Nat]
  /\ Strategy # "least-used" =>
       \A h \in 0 .. Len(spec.lbs) - 1 :
         skipped[spec.lbs[Visited(cur, h)]] + h <= Len(spec.lbs) - 1

(* What a call that selects a load balancer does to the index and to the   *)
(* history, whether it goes on to succeed or to fail.                      *)
Turn(n) ==
  LET selected == SelectLoadBalancer(Strategy, spec, list, n, cur)
  IN  /\ cur' = nextIndex(Strategy, spec, selected, cur)
      /\ \E i \in selected : skipped' = PassedOver(n, spec.lbs[i])
      /\ spec' = spec

LEMMA CallsTurn ==
  ASSUME TypeOK, NEW n \in Counts, GrantFails(n) \/ \E k \in Slots : Grant(k, n)
  PROVE  Turn(n)
<1>1. CASE GrantFails(n)
  BY <1>1 DEF GrantFails, Turn
<1>2. ASSUME NEW k \in Slots, Grant(k, n) PROVE Turn(n)
  BY <1>2, GrantStep DEF Grant, Turn
<1> QED BY <1>1, <1>2

(* A round-robin turn stops at the first load balancer with room, and the  *)
(* next one starts behind it.                                              *)
LEMMA RoundRobinStep ==
  ASSUME TypeOK, Strategy # "least-used", NEW n \in Counts, Turn(n)
  PROVE  \E j \in 0 .. Len(spec.lbs) - 1 :
           /\ \A h \in 0 .. j - 1 :
                ~hasAvailablePorts(spec, list, spec.lbs[Visited(cur, h)], n)
           /\ skipped' = PassedOver(n, spec.lbs[Visited(cur, j)])
           /\ cur' = (cur + j + 1) % Len(spec.lbs)
<1> DEFINE m == Len(spec.lbs)
           Usable(h) == hasAvailablePorts(spec, list, spec.lbs[Visited(cur, h)], n)
           First(j) == Usable(j) /\ \A h \in 0 .. j - 1 : ~Usable(h)
           selected == SelectLoadBalancer(Strategy, spec, list, n, cur)
<1>0. m \in Nat /\ cur \in Int
  BY SpecType
<1>1. selected = {Visited(cur, j) : j \in {h \in 0 .. m - 1 : First(h)}}
  BY DEF SelectLoadBalancer, selectRoundRobin, Visited
<1>2. PICK i \in selected : skipped' = PassedOver(n, spec.lbs[i])
  BY DEF Turn
<1>3. PICK j \in 0 .. m - 1 : First(j) /\ i = Visited(cur, j)
  BY <1>1, <1>2
<1>4. \A h \in 0 .. m - 1 : First(h) => h = j
  BY <1>0, <1>3
<1>5. selected = {i}
  BY <1>1, <1>3, <1>4
<1>6. cur' = i % m
  <2>1. cur' = nextIndex(Strategy, spec, selected, cur)
    BY DEF Turn
  <2> HIDE DEF selected
  <2>2. (CHOOSE x \in {i} : TRUE) = i
    OBVIOUS
  <2> QED BY <1>5, <2>1, <2>2 DEF nextIndex
<1>7. i % m = (cur + j + 1) % m
  <2>1. m > 0 /\ cur + j \in Int /\ 1 \in Int
    BY <1>0, <1>3
  <2>2. i = ((cur + j) % m) + 1
    BY <1>3 DEF Visited
  <2> HIDE DEF m
  <2>3. (((cur + j) % m) + 1) % m = (cur + j + 1) % m
    BY <1>0, <2>1, ModAdd
  <2> QED BY <2>2, <2>3
<1> QED BY <1>2, <1>3, <1>6, <1>7

(* A call brings every load balancer it passes over nearer to its turn.    *)
LEMMA CallTurn ==
  ASSUME TypeOK, TurnComes, NEW n \in Counts, Turn(n)
  PROVE  TurnComes'
<1>1. skipped' \in [LBs -> Nat] /\ \A lb \in LBs : skipped'[lb] <= skipped[lb] + 1
  <2>1. PICK chosen : skipped' = PassedOver(n, chosen)
    BY DEF Turn
  <2> QED BY <2>1 DEF PassedOver, TurnComes
<1> SUFFICES ASSUME Strategy # "least-used", NEW d \in 0 .. Len(spec.lbs) - 1
             PROVE  skipped'[spec.lbs[Visited(cur', d)]] + d <= Len(spec.lbs) - 1
  BY <1>1 DEF TurnComes, Visited, Turn
<1> DEFINE m == Len(spec.lbs)
           At(h) == spec.lbs[Visited(cur, h)]
<1>2. PICK j \in 0 .. m - 1 :
           /\ \A h \in 0 .. j - 1 : ~hasAvailablePorts(spec, list, At(h), n)
           /\ skipped' = PassedOver(n, At(j))
           /\ cur' = (cur + j + 1) % m
  BY RoundRobinStep
<1>0. m \in Nat /\ m > 0 /\ cur \in Int /\ d \in Int /\ j \in Int /\ spec.lbs \in Seq(LBs)
  BY <1>2, SpecType
<1>3. ASSUME NEW h \in 0 .. m - 1 PROVE At(h) \in LBs
  <2>1. cur + h \in Int
    BY <1>0
  <2> DEFINE r == (cur + h) % m
  <2>2. r \in 0 .. m - 1
    BY <1>0, <2>1, Remainder
  <2>3. Visited(cur, h) = r + 1
    BY DEF Visited
  <2> HIDE DEF r, m
  <2>4. Visited(cur, h) \in 1 .. m
    BY <1>0, <2>2, <2>3
  <2> QED BY <1>0, <2>4 DEF m
<1>4. (cur' + d) % m = (cur + (j + 1 + d)) % m
  <2>1. cur + j + 1 \in Int
    BY <1>0
  <2> HIDE DEF m
  <2>2. (((cur + j + 1) % m) + d) % m = (cur + j + 1 + d) % m
    BY <1>0, <2>1, ModAdd
  <2>3. cur + j + 1 + d = cur + (j + 1 + d)
    BY <1>0
  <2> QED BY <1>2, <2>2, <2>3
<1>5. CASE j + 1 + d <= m - 1
  <2>1. j + 1 + d \in 0 .. m - 1
    BY <1>0, <1>2, <1>5
  <2>2. spec.lbs[Visited(cur', d)] = At(j + 1 + d)
    BY <1>4 DEF Visited
  <2>3. skipped[At(j + 1 + d)] + (j + 1 + d) <= m - 1
    BY <2>1 DEF TurnComes
  <2>4. At(j + 1 + d) \in LBs
    BY <1>3, <2>1
  <2> HIDE DEF m, At
  <2>5. /\ skipped[At(j + 1 + d)] \in Nat /\ skipped'[At(j + 1 + d)] \in Nat
        /\ skipped'[At(j + 1 + d)] <= skipped[At(j + 1 + d)] + 1
    BY <1>1, <2>4 DEF TurnComes
  <2>6. skipped'[At(j + 1 + d)] + d <= m - 1
    BY <1>0, <1>2, <2>3, <2>5
  <2> QED BY <2>2, <2>6 DEF m
<1>6. CASE j + 1 + d > m - 1
  <2> DEFINE h == j + 1 + d - m
  <2>1. h \in 0 .. j /\ h \in 0 .. m - 1 /\ h \in Int
    BY <1>0, <1>2, <1>6
  <2>2. (cur + (j + 1 + d)) % m = (cur + h) % m
    <3>1. cur + h \in Int /\ cur + (j + 1 + d) = (cur + h) + m
      BY <1>0
    <3> HIDE DEF h, m
    <3>2. ((cur + h) + m) % m = (cur + h) % m
      BY <1>0, <3>1, ModTurn
    <3> QED BY <3>1, <3>2
  <2> HIDE DEF h
  <2>3. spec.lbs[Visited(cur', d)] = At(h)
    BY <1>4, <2>2 DEF Visited
  <2>4. h = j \/ ~hasAvailablePorts(spec, list, At(h), n)
    BY <1>0, <1>2, <2>1
  <2>5. At(h) \in LBs
    BY <1>3, <2>1
  <2> HIDE DEF At
  <2>6. skipped'[At(h)] = 0
    BY <1>2, <2>4, <2>5 DEF PassedOver
  <2> QED BY <1>0, <2>3, <2>6
<1> QED BY <1>0, <1>2, <1>5, <1>6

(* Round robin starves no load balancer: one that has room for every       *)
(* request is passed over by fewer selections in a row than the pool has   *)
(* load balancers, calls that fail after the selection included.  Its      *)
(* distance from the index shrinks with every call that passes it over.    *)
THEOREM NoStarvation == Spec => []RoundRobinStarvesNone
<1> DEFINE Inv == TypeOK /\ TurnComes
<1>0. ASSUME TypeOK, skipped = [lb \in LBs |-> 0] PROVE TurnComes
  <2> SUFFICES ASSUME NEW h \in 0 .. Len(spec.lbs) - 1
               PROVE  skipped[spec.lbs[Visited(cur, h)]] + h <= Len(spec.lbs) - 1
    BY <1>0 DEF TurnComes
  <2>1. Len(spec.lbs) \in Nat /\ Len(spec.lbs) > 0 /\ cur + h \in Int /\ spec.lbs \in Seq(LBs)
    BY <1>0, SpecType
  <2>2. (cur + h) % Len(spec.lbs) \in 0 .. Len(spec.lbs) - 1
    BY <2>1, Remainder
  <2>3. Visited(cur, h) \in 1 .. Len(spec.lbs)
    BY <2>1, <2>2 DEF Visited
  <2>4. spec.lbs[Visited(cur, h)] \in LBs
    BY <2>1, <2>3
  <2> QED BY <1>0, <2>1, <2>4
<1>0a. TypeOK /\ skipped = [lb \in LBs |-> 0] => TurnComes
  BY <1>0
<1>1. Init => Inv
  BY <1>0a, CountsAssumption DEF Init, TypeOK
<1>2. Inv /\ [Next]_vars => Inv'
  <2> SUFFICES ASSUME Inv, [Next]_vars PROVE TurnComes'
    BY TypeNext
  <2>1. ASSUME NEW n \in Counts, GrantFails(n) \/ \E k \in Slots : Grant(k, n)
        PROVE  TurnComes'
    BY <2>1, CallsTurn, CallTurn
  <2>2. CASE UNCHANGED <<spec, cur, skipped>>
    BY <2>2 DEF TurnComes, Visited
  <2>3. CASE Restart \/ \E s \in Specs : EditPool(s)
    <3>1. TypeOK' /\ (skipped = [lb \in LBs |-> 0])'
      BY <2>3, TypeNext DEF EditPool, Restart
    <3> QED BY <1>0a, <3>1, PTL
  <2> QED BY <2>1, <2>2, <2>3 DEF Next, Release, vars
<1>3. Inv => RoundRobinStarvesNone
  <2> SUFFICES ASSUME Inv, Strategy # "least-used", NEW i \in DOMAIN spec.lbs
               PROVE  skipped[spec.lbs[i]] < Len(spec.lbs)
    BY DEF RoundRobinStarvesNone
  <2>1. PICK h \in 0 .. Len(spec.lbs) - 1 : Visited(cur, h) = i
    BY AllVisited
  <2>2. skipped[spec.lbs[i]] + h <= Len(spec.lbs) - 1
    BY <2>1 DEF TurnComes
  <2>3. skipped[spec.lbs[i]] \in Nat /\ Len(spec.lbs) \in Nat
    BY SpecType DEF TurnComes
  <2> QED BY <2>1, <2>2, <2>3
<1> QED BY <1>1, <1>2, <1>3, PTL DEF Spec

-----------------------------------------------------------------------------
(* Promises kept                                                           *)

(* In every reachable state the arithmetic is about int32 fields and a     *)
(* finite number of bindings.                                              *)
LEMMA ListInInt32 ==
  ASSUME ListInv, NEW lb
  PROVE  InInt32(spec, list, lb)
<1>1. TypeOK /\ spec \in Specs
  BY DEF ListInv, TypeOK
<1> QED BY <1>1, SpecsAssumption, UsageExact DEF InInt32, Int32Range

(* The exact number of ports left is an integer.                           *)
LEMMA LeftIsInt ==
  ASSUME ListInv, NEW lb
  PROVE  PortsLeft(spec, list, lb) \in Int /\ -(MaxInt + 1) \in Int
<1> DEFINE L == Len(spec.excluded)
           U == getLBPortUsage(list, lb)
<1>1. spec.min \in Int /\ spec.max \in Int /\ L \in Nat /\ U \in Nat /\ MaxInt \in Nat
  BY ListInInt32, InInt32Facts, MaxIntAssumption
<1>2. PortsLeft(spec, list, lb) = (spec.max - spec.min + 1) - L - U
  BY DEF PortsLeft
<1> HIDE DEF L, U
<1> QED BY <1>1, <1>2

(* After a successful hasAvailablePorts the scan does not fail, in any     *)
(* reachable state of any pool, unless the number of ports left is below   *)
(* the smallest int32.                                                     *)
THEOREM SelectedServes == Spec => []SelectedLBServes
<1>1. ListInv => SelectedLBServes
  <2> SUFFICES ASSUME ListInv, NEW n \in Counts, NEW j \in DOMAIN spec.lbs,
                      hasAvailablePorts(spec, list, spec.lbs[j], n),
                      ~(PortsLeft(spec, list, spec.lbs[j]) < -(MaxInt + 1))
               PROVE  findAvailablePorts(spec, list, spec.lbs[j], n) # {}
    BY DEF SelectedLBServes
  <2>1. n \in Nat /\ n > 0
    BY CountsAssumption
  <2>2. PICK lb : lb = spec.lbs[j]
    OBVIOUS
  <2>3. /\ InInt32(spec, list, lb) /\ hasAvailablePorts(spec, list, lb, n)
        /\ PortsLeft(spec, list, lb) >= -(MaxInt + 1)
    BY <2>2, ListInInt32, LeftIsInt
  <2>4. \E ports \in [1 .. n -> freePorts(spec, list, lb)] :
           /\ findAvailablePorts(spec, list, lb, n) = {ports}
           /\ \A x, y \in 1 .. n : x < y => ports[x] < ports[y]
    BY <2>1, <2>3, CheckKeepsPromise
  <2> QED BY <2>2, <2>4
<1> QED BY <1>1, ListInductive, PTL

(* As many ports as the status reports available for a load balancer, less *)
(* those a negative bufferSize adds, can be allocated on it in one         *)
(* request, in any reachable state of any pool and for every bufferSize an *)
(* int32 holds, unless the number of ports left is below the smallest      *)
(* int32.                                                                  *)
THEOREM AvailableServes ==
  (\A prewarm \in Prewarms : PrewarmedCount(prewarm) \in Int32Range)
    => (Spec => []AvailableIsServable)
<1> SUFFICES ASSUME \A prewarm \in Prewarms : PrewarmedCount(prewarm) \in Int32Range
             PROVE  Spec => []AvailableIsServable
  OBVIOUS
<1>1. ListInv => AvailableIsServable
  <2> SUFFICES ASSUME ListInv, NEW prewarm \in Prewarms, NEW j \in DOMAIN spec.lbs,
                      NEW lb, lb = spec.lbs[j], NEW n,
                      n = calculateLBStatus(spec, prewarm, lb, list).available
                            - Inflation(prewarm),
                      n > 0,
                      ~(PortsLeft(spec, list, lb) - Reserve(prewarm) < -(MaxInt + 1))
               PROVE  findAvailablePorts(spec, list, lb, n) # {}
    BY DEF AvailableIsServable
  <2>1. /\ InInt32(spec, list, lb)
        /\ PrewarmedCount(prewarm) \in Int32Range /\ PrewarmedCount(prewarm) \in Int
    <3>1. Int32Range \subseteq Int
      BY MaxIntAssumption DEF Int32Range
    <3> QED BY <3>1, ListInInt32
  <2>2. PortsLeft(spec, list, lb) - Reserve(prewarm) >= -(MaxInt + 1)
    <3>1. Reserve(prewarm) \in Int
      BY <2>1 DEF Reserve
    <3> QED BY <3>1, LeftIsInt
  <2>3. n = availablePorts(spec, prewarm, lb, list) - Inflation(prewarm)
    BY DEF calculateLBStatus
  <2>4. \E ports \in [1 .. n -> freePorts(spec, list, lb)] :
           /\ findAvailablePorts(spec, list, lb, n) = {ports}
           /\ \A x, y \in 1 .. n : x < y => ports[x] < ports[y]
    BY <2>1, <2>2, <2>3, AvailableServed
  <2> QED BY <2>4
<1> QED BY <1>1, ListInductive, PTL

(* In every reachable state the loop of findAvailablePorts, run for a load *)
(* balancer that passed the check or on a range that ends below the        *)
(* largest int32, ends within the range and returns the lowest free ports: *)
(* port++ never carries it on into wrapped-around numbers.                 *)
THEOREM ScanInRange == Spec => []ScanStaysInRange
<1>1. ListInv => ScanStaysInRange
  <2> SUFFICES ASSUME ListInv, NEW n \in Counts, NEW j \in DOMAIN spec.lbs, NEW lb, lb = spec.lbs[j],
                      \/ spec.max < MaxInt
                      \/ /\ hasAvailablePorts(spec, list, lb, n)
                         /\ PortsLeft(spec, list, lb) >= -(MaxInt + 1),
                      NEW end,
                      end = scanLoop(spec, GetAllocatedPortsByLB(list, lb) \cup ExcludedPorts(spec), n)
                              [Cardinality(spec.min .. spec.max)]
               PROVE  /\ ~scanning(spec, n, end)
                      /\ findAvailablePorts(spec, list, lb, n)
                           = IF Len(end.found) = n THEN {end.found} ELSE {}
    BY DEF ScanStaysInRange
  <2>1. n \in Nat /\ n > 0
    BY CountsAssumption
  <2>2. spec.min \in Int32Range /\ spec.max \in Int32Range
    BY SpecsAssumption DEF ListInv, TypeOK, Int32Range
  <2>3. spec.max < MaxInt \/ n <= Cardinality(freePorts(spec, list, lb))
    <3> SUFFICES ASSUME hasAvailablePorts(spec, list, lb, n),
                        PortsLeft(spec, list, lb) >= -(MaxInt + 1)
                 PROVE  n <= Cardinality(freePorts(spec, list, lb))
      OBVIOUS
    <3>1. InInt32(spec, list, lb)
      BY ListInInt32
    <3>2. findAvailablePorts(spec, list, lb, n) # {}
      <4>1. \E ports \in [1 .. n -> freePorts(spec, list, lb)] :
              /\ findAvailablePorts(spec, list, lb, n) = {ports}
              /\ \A x, y \in 1 .. n : x < y => ports[x] < ports[y]
        BY <2>1, <3>1, CheckKeepsPromise
      <4> QED BY <4>1
    <3>3. Cardinality(freePorts(spec, list, lb)) >= n
      BY <3>2 DEF findAvailablePorts
    <3>4. Cardinality(freePorts(spec, list, lb)) \in Nat
      BY <2>2, FreeType, FS_CardinalityType, MaxIntAssumption DEF Int32Range
    <3> QED BY <2>1, <3>3, <3>4
  <2> QED BY <2>1, <2>2, <2>3, ScanComputes
<1> QED BY <1>1, ListInductive, PTL
=============================================================================
