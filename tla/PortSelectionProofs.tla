------------------------- MODULE PortSelectionProofs -------------------------
(***************************************************************************)
(* Facts about the operators of PortSelection and PoolStatus, for every    *)
(* specification and every list: what the arithmetic of hasAvailablePorts  *)
(* and of the status promises, the scan of findAvailablePorts delivers,    *)
(* and the loop the scan is written as computes the ports it stands for.   *)
(***************************************************************************)
EXTENDS PoolStatus, FiniteSetTheorems, TLAPS

-----------------------------------------------------------------------------
(* Ranks: the i-th smallest element of a finite set of integers exists.    *)

(* A set of integers that is bounded below has a smallest element.         *)
LEMMA Least ==
  ASSUME NEW S \in SUBSET Int, NEW lo \in Int, \A x \in S : lo <= x, S # {}
  PROVE  \E x \in S : \A y \in S : x <= y
<1> DEFINE T == {x - lo : x \in S}
           R == OpToRel(<, Nat)
<1>0. \A x \in S : x \in Int /\ x - lo \in Nat
  OBVIOUS
<1>1. T \subseteq Nat /\ T # {}
  BY <1>0
<1>2. PICK m \in T : \A y \in T : ~(<<y, m>> \in R)
  <2> HIDE DEF T, R
  <2>1. IsWellFoundedOn(R, Nat)
    BY NatLessThanWellFounded DEF R
  <2> QED BY <1>1, <2>1, WFMin
<1>3. \A y \in T : m <= y
  <2> SUFFICES ASSUME NEW y \in T PROVE m <= y
    OBVIOUS
  <2>1. m \in Nat /\ y \in Nat
    BY <1>1
  <2>2. <<y, m>> \in R <=> y < m
    BY <2>1 DEF OpToRel
  <2> HIDE DEF R
  <2>3. ~(y < m)
    BY <1>2, <2>2
  <2> QED BY <2>1, <2>3
<1>4. PICK x \in S : m = x - lo
  BY <1>2
<1>5. ASSUME NEW y \in S PROVE x <= y
  <2>1. y - lo \in T
    OBVIOUS
  <2>2. m <= y - lo
    BY <1>3, <2>1
  <2> HIDE DEF T
  <2> QED BY <1>0, <1>4, <2>2
<1> QED BY <1>5

(* Every rank below the cardinality is taken: the successor of the element *)
(* of rank r - 1 has rank r.                                               *)
LEMMA EveryRank ==
  ASSUME NEW S \in SUBSET Int, IsFiniteSet(S), NEW lo \in Int, \A x \in S : lo <= x,
         NEW r \in Nat, r < Cardinality(S)
  PROVE  \E x \in S : Cardinality({p \in S : p < x}) = r
<1> DEFINE Rank(x) == Cardinality({p \in S : p < x})
           Missing == {s \in Nat : s < Cardinality(S) /\ \A x \in S : Rank(x) # s}
<1>0. Cardinality(S) \in Nat
  BY FS_CardinalityType
<1>i. \A x \in S : x \in Int
  OBVIOUS
<1>1. SUFFICES ASSUME Missing # {} PROVE FALSE
  OBVIOUS
<1>2. PICK m \in Missing : \A s \in Missing : m <= s
  <2>1. Missing \in SUBSET Int /\ 0 \in Int /\ \A s \in Missing : 0 <= s
    OBVIOUS
  <2> HIDE DEF Missing
  <2> QED BY <1>1, <2>1, Least
<1>3. m \in Nat /\ m < Cardinality(S) /\ \A x \in S : Rank(x) # m
  BY <1>2
<1>4. m # 0
  <2> SUFFICES ASSUME m = 0 PROVE FALSE
    OBVIOUS
  <2>1. S # {}
    BY <1>3, FS_EmptySet
  <2>2. PICK x \in S : \A y \in S : x <= y
    BY <2>1, Least
  <2>3. {p \in S : p < x} = {}
    <3> SUFFICES ASSUME NEW p \in S, p < x PROVE FALSE
      OBVIOUS
    <3>1. x <= p /\ x \in Int /\ p \in Int
      BY <1>i, <2>2
    <3> QED BY <3>1
  <2>4. Rank(x) = 0
    BY <2>3, FS_EmptySet
  <2> QED BY <1>3, <2>4
<1>5. m - 1 \in Nat /\ m - 1 < Cardinality(S) /\ m - 1 \notin Missing
  <2>1. m - 1 \in Nat /\ ~(m <= m - 1)
    BY <1>3, <1>4
  <2>2. m - 1 < Cardinality(S)
    BY <1>0, <1>3, <1>4
  <2> HIDE DEF Missing
  <2> QED BY <1>2, <2>1, <2>2
<1>6. PICK x \in S : Rank(x) = m - 1
  BY <1>5
<1> DEFINE below == {p \in S : p < x}
           above == {p \in S : p > x}
<1>7. IsFiniteSet(below) /\ x \notin below
  BY FS_Subset
<1>8. IsFiniteSet(below \cup {x}) /\ Cardinality(below \cup {x}) = m
  <2>1. Cardinality(below \cup {x}) = Cardinality(below) + 1 /\ IsFiniteSet(below \cup {x})
    BY <1>7, FS_AddElement
  <2>2. Cardinality(below) = m - 1
    BY <1>6
  <2> HIDE DEF below
  <2> QED BY <1>3, <2>1, <2>2
<1>9. above # {}
  <2> SUFFICES ASSUME above = {} PROVE FALSE
    OBVIOUS
  <2>0. \A y \in S : y \in below \cup {x}
    BY <1>i
  <2>1. S = below \cup {x}
    BY <2>0
  <2> HIDE DEF below
  <2> QED BY <1>0, <1>3, <1>8, <2>1
<1>10. PICK y \in above : \A z \in above : y <= z
  <2>1. above \in SUBSET Int /\ \A z \in above : lo <= z
    OBVIOUS
  <2> HIDE DEF above
  <2> QED BY <1>9, <2>1, Least
<1>11. {p \in S : p < y} = below \cup {x}
  <2>1. ASSUME NEW p \in S PROVE p < y <=> p \in below \cup {x}
    <3>1. p \in Int /\ x \in Int /\ y \in Int /\ x < y
      BY <1>i, <1>10
    <3>2. p > x => y <= p
      BY <1>10
    <3> QED BY <3>1, <3>2
  <2> QED BY <2>1
<1>12. y \in S /\ Rank(y) = m
  BY <1>8, <1>10, <1>11
<1> QED BY <1>3, <1>12

-----------------------------------------------------------------------------
(* Cardinalities of the sets the operators count.                          *)

(* An image by a function is no larger.                                    *)
LEMMA ImageSize ==
  ASSUME NEW S, IsFiniteSet(S), NEW f, DOMAIN f = S
  PROVE  /\ IsFiniteSet({f[x] : x \in S})
         /\ Cardinality({f[x] : x \in S}) <= Cardinality(S)
<1> DEFINE T == {f[x] : x \in S}
           g == [x \in S |-> f[x]]
<1>1. g \in Surjection(S, T)
  BY DEF Surjection
<1> HIDE DEF T, g
<1>2. IsFiniteSet(T) /\ Cardinality(T) <= Cardinality(S)
  BY <1>1, FS_Surjection
<1> QED BY <1>2 DEF T

(* The excluded ports are at most as many as the list has entries.         *)
LEMMA ExcludedSize ==
  ASSUME NEW spec, spec.excluded \in Seq(Int)
  PROVE  /\ IsFiniteSet(ExcludedPorts(spec))
         /\ Cardinality(ExcludedPorts(spec)) <= Len(spec.excluded)
<1> DEFINE e == spec.excluded
<1>1. DOMAIN e = 1 .. Len(e) /\ Len(e) \in Nat
  OBVIOUS
<1>2. IsFiniteSet(1 .. Len(e)) /\ Cardinality(1 .. Len(e)) = Len(e)
  BY <1>1, FS_Interval
<1>3. ExcludedPorts(spec) = {e[i] : i \in 1 .. Len(e)}
  BY <1>1 DEF ExcludedPorts
<1> HIDE DEF e
<1>4. /\ IsFiniteSet({e[i] : i \in 1 .. Len(e)})
      /\ Cardinality({e[i] : i \in 1 .. Len(e)}) <= Cardinality(1 .. Len(e))
  BY <1>1, <1>2, ImageSize
<1> QED BY <1>2, <1>3, <1>4 DEF e

(* The ports of a load balancer that are taken are at most as many as the  *)
(* bindings getLBPortUsage counts.                                         *)
LEMMA AllocatedSize ==
  ASSUME NEW list, NEW lb, IsFiniteSet(BindingsOn(list, lb))
  PROVE  /\ IsFiniteSet(GetAllocatedPortsByLB(list, lb))
         /\ Cardinality(GetAllocatedPortsByLB(list, lb)) <= getLBPortUsage(list, lb)
         /\ getLBPortUsage(list, lb) \in Nat
<1> DEFINE on == BindingsOn(list, lb)
           f == [b \in on |-> list[b[1]].bindings[b[2]].lbPort]
<1>1. GetAllocatedPortsByLB(list, lb) = {f[b] : b \in on}
  BY DEF GetAllocatedPortsByLB
<1>2. DOMAIN f = on
  OBVIOUS
<1> HIDE DEF f
<1>3. IsFiniteSet({f[b] : b \in on}) /\ Cardinality({f[b] : b \in on}) <= Cardinality(on)
  BY <1>2, ImageSize
<1>4. Cardinality(on) \in Nat
  BY FS_CardinalityType
<1> QED BY <1>1, <1>3, <1>4 DEF getLBPortUsage

(* No fewer ports are free than the arithmetic without overflow says.      *)
LEMMA FreeSize ==
  ASSUME NEW spec, NEW list, NEW lb, IsFiniteSet(BindingsOn(list, lb)),
         spec.min \in Int, spec.max \in Int, spec.excluded \in Seq(Int), spec.min <= spec.max
  PROVE  /\ IsFiniteSet(freePorts(spec, list, lb))
         /\ Cardinality(freePorts(spec, list, lb)) \in Nat
         /\ Cardinality(freePorts(spec, list, lb))
              >= (spec.max - spec.min + 1) - Len(spec.excluded) - getLBPortUsage(list, lb)
<1> DEFINE range == spec.min .. spec.max
           A == GetAllocatedPortsByLB(list, lb)
           E == ExcludedPorts(spec)
           taken == A \cup E
<1>1. IsFiniteSet(range) /\ Cardinality(range) = spec.max - spec.min + 1
  BY FS_Interval
<1>2. IsFiniteSet(A) /\ Cardinality(A) <= getLBPortUsage(list, lb) /\ Cardinality(A) \in Nat
      /\ getLBPortUsage(list, lb) \in Nat
  BY AllocatedSize, FS_CardinalityType
<1>3. IsFiniteSet(E) /\ Cardinality(E) <= Len(spec.excluded) /\ Cardinality(E) \in Nat
      /\ Len(spec.excluded) \in Nat
  BY ExcludedSize, FS_CardinalityType
<1> HIDE DEF range, A, E
<1>4. IsFiniteSet(taken) /\ Cardinality(taken) \in Nat
      /\ Cardinality(taken) <= Cardinality(A) + Cardinality(E)
  <2>1. IsFiniteSet(A \cap E) /\ Cardinality(A \cap E) \in Nat
    BY <1>2, FS_Subset, FS_CardinalityType
  <2>2. /\ IsFiniteSet(A \cup E)
        /\ Cardinality(A \cup E) = Cardinality(A) + Cardinality(E) - Cardinality(A \cap E)
    BY <1>2, <1>3, FS_Union
  <2>3. Cardinality(A \cup E) \in Nat
    BY <2>2, FS_CardinalityType
  <2> QED BY <1>2, <1>3, <2>1, <2>2, <2>3
<1> HIDE DEF taken
<1>5. Cardinality(range \cap taken) \in Nat /\ Cardinality(range \cap taken) <= Cardinality(taken)
  <2>1. range \cap taken \in SUBSET taken
    OBVIOUS
  <2> QED BY <1>4, <2>1, FS_Subset, FS_CardinalityType
<1>6. IsFiniteSet(range \ taken)
      /\ Cardinality(range \ taken) = Cardinality(range) - Cardinality(range \cap taken)
  BY <1>1, FS_Difference
<1>7. freePorts(spec, list, lb) = range \ taken
  BY DEF freePorts, range, A, E, taken
<1>8. Cardinality(range \ taken) \in Nat
  BY <1>6, FS_CardinalityType
<1> QED BY <1>1, <1>2, <1>3, <1>4, <1>5, <1>6, <1>7, <1>8

(* The free ports are a finite set of integers with a lower bound.         *)
LEMMA FreeType ==
  ASSUME NEW spec, NEW list, NEW lb, spec.min \in Int, spec.max \in Int
  PROVE  /\ freePorts(spec, list, lb) \in SUBSET Int
         /\ IsFiniteSet(freePorts(spec, list, lb))
         /\ \A x \in freePorts(spec, list, lb) : spec.min <= x
<1>1. freePorts(spec, list, lb) \in SUBSET (spec.min .. spec.max)
  BY DEF freePorts
<1>2. IsFiniteSet(spec.min .. spec.max)
  BY FS_Interval
<1>3. IsFiniteSet(freePorts(spec, list, lb))
  BY <1>1, <1>2, FS_Subset
<1> QED BY <1>1, <1>3

(* The scan returns free ports in ascending order, one for each requested  *)
(* port, and none of the free ports it skips is lower.                     *)
LEMMA FoundPorts ==
  ASSUME NEW spec, NEW list, NEW lb, NEW n \in Nat, spec.min \in Int, spec.max \in Int,
         NEW ports \in findAvailablePorts(spec, list, lb, n)
  PROVE  /\ ports \in [1 .. n -> freePorts(spec, list, lb)]
         /\ \A i, j \in 1 .. n : ports[i] = ports[j] => i = j
         /\ \A i, j \in 1 .. n : i < j => ports[i] < ports[j]
<1> DEFINE free == freePorts(spec, list, lb)
           Below(x) == {p \in free : p < x}
           Rank(x) == Cardinality(Below(x))
           Lowest(i) == CHOOSE x \in free : Rank(x) = i - 1
<1>1. n > 0 /\ n <= Cardinality(free) /\ ports = [i \in 1 .. n |-> Lowest(i)]
  BY DEF findAvailablePorts
<1>2. free \in SUBSET Int /\ IsFiniteSet(free) /\ \A x \in free : spec.min <= x
  BY FreeType
<1>3. ASSUME NEW i \in 1 .. n PROVE \E x \in free : Rank(x) = i - 1
  <2>1. Cardinality(free) \in Nat
    BY <1>2, FS_CardinalityType
  <2>2. i - 1 \in Nat /\ i - 1 < Cardinality(free)
    BY <1>1, <2>1
  <2> HIDE DEF free
  <2> QED BY <1>2, <2>2, EveryRank
<1> HIDE DEF free
<1>4. \A i \in 1 .. n : ports[i] \in free /\ Rank(ports[i]) = i - 1
  BY <1>1, <1>3
<1>5. ports \in [1 .. n -> free]
  BY <1>1, <1>4
<1>6. ASSUME NEW i \in 1 .. n, NEW j \in 1 .. n, i < j
      PROVE  ports[i] < ports[j]
  <2>i. \A x \in free : x \in Int
    BY <1>2
  <2>j. ports[i] \in Int /\ ports[j] \in Int
    BY <1>4, <2>i
  <2>0. SUFFICES ASSUME ports[j] <= ports[i] PROVE FALSE
    BY <2>j
  <2>1. Below(ports[j]) \in SUBSET Below(ports[i])
    <3> SUFFICES ASSUME NEW p \in free, p < ports[j] PROVE p < ports[i]
      OBVIOUS
    <3> QED BY <2>i, <2>j, <2>0
  <2>2. IsFiniteSet(Below(ports[i]))
    BY <1>2, FS_Subset
  <2> HIDE DEF Below
  <2>3. Rank(ports[j]) <= Rank(ports[i])
    BY <2>1, <2>2, FS_Subset
  <2>4. j - 1 <= i - 1
    BY <1>4, <2>3
  <2> QED BY <1>6, <2>4
<1>7. ASSUME NEW i \in 1 .. n, NEW j \in 1 .. n, ports[i] = ports[j]
      PROVE  i = j
  <2>1. i - 1 = j - 1
    BY <1>4, <1>7
  <2> QED BY <2>1
<1> QED BY <1>5, <1>6, <1>7 DEF free

(* With enough free ports the scan succeeds.                               *)
LEMMA ScanServes ==
  ASSUME NEW spec, NEW list, NEW lb, NEW n \in Nat, n > 0, spec.min \in Int, spec.max \in Int,
         n <= Cardinality(freePorts(spec, list, lb))
  PROVE  \E ports \in [1 .. n -> freePorts(spec, list, lb)] :
           /\ findAvailablePorts(spec, list, lb, n) = {ports}
           /\ \A i, j \in 1 .. n : i < j => ports[i] < ports[j]
<1>1. PICK ports : findAvailablePorts(spec, list, lb, n) = {ports}
  BY DEF findAvailablePorts
<1> QED BY <1>1, FoundPorts

(* A port bound on a load balancer in the list is not free on it.          *)
LEMMA BoundNotFree ==
  ASSUME NEW spec, NEW list, NEW k \in DOMAIN list,
         NEW i \in DOMAIN list[k].bindings
  PROVE  list[k].bindings[i].lbPort \notin freePorts(spec, list, list[k].bindings[i].lb)
<1> DEFINE b == list[k].bindings[i]
<1>1. <<k, i>> \in BindingsOn(list, b.lb)
  BY DEF BindingsOn, Positions
<1>2. b.lbPort \in GetAllocatedPortsByLB(list, b.lb)
  BY <1>1 DEF GetAllocatedPortsByLB
<1> QED BY <1>2 DEF freePorts

-----------------------------------------------------------------------------
(* The choice of the load balancer                                         *)

(* A remainder is smaller than its divisor.                                *)
LEMMA Remainder ==
  ASSUME NEW a \in Int, NEW n \in Nat, n > 0
  PROVE  a % n \in 0 .. n - 1
OBVIOUS

(* A selection names a load balancer of the pool.                          *)
LEMMA SelectInDomain ==
  ASSUME NEW strategy, NEW S, NEW spec, spec.lbs \in Seq(S), NEW list, NEW n, NEW cur \in Int
  PROVE  SelectLoadBalancer(strategy, spec, list, n, cur) \subseteq DOMAIN spec.lbs
<1>1. selectLeastUsed(spec, list, n) \subseteq DOMAIN spec.lbs
  BY DEF selectLeastUsed
<1>2. selectRoundRobin(spec, list, n, cur) \subseteq DOMAIN spec.lbs
  <2>1. \A i \in 0 .. Len(spec.lbs) - 1 :
          ((cur + i) % Len(spec.lbs)) + 1 \in 1 .. Len(spec.lbs)
    <3> SUFFICES ASSUME NEW i \in 0 .. Len(spec.lbs) - 1
                 PROVE  ((cur + i) % Len(spec.lbs)) + 1 \in 1 .. Len(spec.lbs)
      OBVIOUS
    <3> DEFINE m == (cur + i) % Len(spec.lbs)
    <3>1. cur + i \in Int /\ Len(spec.lbs) \in Nat /\ Len(spec.lbs) > 0
      OBVIOUS
    <3>2. m \in 0 .. Len(spec.lbs) - 1
      BY <3>1, Remainder
    <3> HIDE DEF m
    <3>3. m + 1 \in 1 .. Len(spec.lbs)
      BY <3>1, <3>2
    <3> QED BY <3>3 DEF m
  <2>2. DOMAIN spec.lbs = 1 .. Len(spec.lbs)
    OBVIOUS
  <2> QED BY <2>1, <2>2 DEF selectRoundRobin
<1> QED BY <1>1, <1>2 DEF SelectLoadBalancer

(* The index moves to the position of a load balancer of the pool, or not. *)
LEMMA NextIndexType ==
  ASSUME NEW strategy, NEW S, NEW spec, spec.lbs \in Seq(S), NEW cur \in Int,
         NEW selected \in SUBSET DOMAIN spec.lbs
  PROVE  \/ nextIndex(strategy, spec, selected, cur) = cur
         \/ nextIndex(strategy, spec, selected, cur) \in 0 .. Len(spec.lbs) - 1
<1>1. CASE strategy = "least-used" \/ selected = {}
  BY <1>1 DEF nextIndex
<1>2. CASE ~(strategy = "least-used" \/ selected = {})
  <2> DEFINE c == CHOOSE i \in selected : TRUE
             n == Len(spec.lbs)
  <2>1. c \in DOMAIN spec.lbs
    BY <1>2
  <2>2. c \in Int /\ n \in Nat /\ n > 0
    BY <2>1
  <2> HIDE DEF c, n
  <2>3. c % n \in 0 .. n - 1
    BY <2>2, Remainder
  <2> QED BY <1>2, <2>3 DEF nextIndex, c, n
<1> QED BY <1>1, <1>2

-----------------------------------------------------------------------------
(* A specification of int32 fields and a finite number of bindings.        *)
Int32Range == -(MaxInt + 1) .. MaxInt

InInt32(spec, list, lb) ==
  /\ spec.min \in Int32Range /\ spec.max \in Int32Range
  /\ spec.excluded \in Seq(Int)
  /\ IsFiniteSet(BindingsOn(list, lb))

(* The size of the range and the two numbers the arithmetic subtracts.     *)
LEMMA InInt32Facts ==
  ASSUME NEW spec, NEW list, NEW lb, InInt32(spec, list, lb)
  PROVE  /\ spec.min \in Int /\ spec.max \in Int
         /\ spec.max - spec.min \in Int /\ spec.max - spec.min <= 2 * MaxInt + 1
         /\ spec.excluded \in Seq(Int) /\ Len(spec.excluded) \in Nat
         /\ IsFiniteSet(BindingsOn(list, lb)) /\ getLBPortUsage(list, lb) \in Nat
<1>1. /\ spec.min \in Int32Range /\ spec.max \in Int32Range
      /\ spec.excluded \in Seq(Int)
      /\ IsFiniteSet(BindingsOn(list, lb))
  BY DEF InInt32
<1>2. getLBPortUsage(list, lb) \in Nat
  BY <1>1, AllocatedSize
<1>3. Len(spec.excluded) \in Nat
  BY <1>1
<1>4. /\ spec.min \in Int /\ spec.max \in Int
      /\ spec.max - spec.min \in Int /\ spec.max - spec.min <= 2 * MaxInt + 1
  BY <1>1, MaxIntAssumption DEF Int32Range
<1> QED BY <1>1, <1>2, <1>3, <1>4

(* The int32 that stands for a number of ports: one too large for an int32 *)
(* wraps around and becomes negative.                                      *)
Machine(e) == IF e <= MaxInt THEN e ELSE e - 2 * (MaxInt + 1)

(* The arithmetic stands for the exact one as long as the exact one does   *)
(* not fall below the smallest int32: for the size of the range,           *)
LEMMA MachineSize ==
  ASSUME NEW D \in Int, D <= 2 * MaxInt + 1, D + 1 >= -(MaxInt + 1)
  PROVE  Int32(Int32(D) + 1) = Machine(D + 1)
BY MaxIntAssumption DEF Int32, Machine

(* and for every number that is taken off it.                              *)
LEMMA MachineStep ==
  ASSUME NEW e \in Int, e <= 2 * (MaxInt + 1), NEW b \in Nat, e - b >= -(MaxInt + 1)
  PROVE  Int32(Machine(e) - b) = Machine(e - b)
BY MaxIntAssumption DEF Int32, Machine

(* What the arithmetic of hasAvailablePorts and calculateLBStatus computes.*)
LEMMA LeftIsMachine ==
  ASSUME NEW D \in Int, NEW L \in Nat, NEW U \in Nat,
         D <= 2 * MaxInt + 1, D + 1 - L - U >= -(MaxInt + 1)
  PROVE  Int32(Int32(Int32(Int32(D) + 1) - L) - U) = Machine(D + 1 - L - U)
<1>1. MaxInt \in Nat
  BY MaxIntAssumption
<1>2. Int32(Int32(D) + 1) = Machine(D + 1)
  BY <1>1, MachineSize
<1>3. Int32(Machine(D + 1) - L) = Machine(D + 1 - L)
  BY <1>1, MachineStep
<1>4. Int32(Machine(D + 1 - L) - U) = Machine(D + 1 - L - U)
  BY <1>1, MachineStep
<1> QED BY <1>2, <1>3, <1>4

(* The scan finds at least the exact number of ports that are left.        *)
LEMMA LeftIsFree ==
  ASSUME NEW spec, NEW list, NEW lb, InInt32(spec, list, lb),
         NEW n \in Nat, n > 0, n <= PortsLeft(spec, list, lb)
  PROVE  \E ports \in [1 .. n -> freePorts(spec, list, lb)] :
           /\ findAvailablePorts(spec, list, lb, n) = {ports}
           /\ \A i, j \in 1 .. n : i < j => ports[i] < ports[j]
<1> DEFINE free == freePorts(spec, list, lb)
           left == PortsLeft(spec, list, lb)
<1>1. /\ spec.min \in Int /\ spec.max \in Int
      /\ spec.excluded \in Seq(Int) /\ IsFiniteSet(BindingsOn(list, lb))
      /\ Len(spec.excluded) \in Nat /\ getLBPortUsage(list, lb) \in Nat
  BY InInt32Facts
<1>2. left = (spec.max - spec.min + 1) - Len(spec.excluded) - getLBPortUsage(list, lb)
  BY DEF PortsLeft
<1>3. spec.min <= spec.max /\ left \in Int
  <2> DEFINE L == Len(spec.excluded)
             U == getLBPortUsage(list, lb)
  <2>1. L \in Nat /\ U \in Nat /\ left = (spec.max - spec.min + 1) - L - U /\ n <= left
    BY <1>1, <1>2
  <2> HIDE DEF L, U, left
  <2> QED BY <1>1, <2>1
<1>4. IsFiniteSet(free) /\ Cardinality(free) \in Nat /\ Cardinality(free) >= left
  BY <1>1, <1>2, <1>3, FreeSize
<1> HIDE DEF free, left
<1>5. n <= Cardinality(free)
  BY <1>3, <1>4 DEF left
<1> QED BY <1>1, <1>5, ScanServes DEF free

(* A load balancer that passes hasAvailablePorts has the ports, whatever   *)
(* range, exclusions (repeated, outside the range, already bound) and      *)
(* list: after a successful check findAvailablePorts does not fail, and    *)
(* returns as many free ports as requested, in ascending order.  The only  *)
(* exception is a number of ports left that is below the smallest int32.   *)
THEOREM CheckKeepsPromise ==
  ASSUME NEW spec, NEW list, NEW lb, NEW n \in Nat, n > 0,
         InInt32(spec, list, lb), PortsLeft(spec, list, lb) >= -(MaxInt + 1),
         hasAvailablePorts(spec, list, lb, n)
  PROVE  \E ports \in [1 .. n -> freePorts(spec, list, lb)] :
           /\ findAvailablePorts(spec, list, lb, n) = {ports}
           /\ \A i, j \in 1 .. n : i < j => ports[i] < ports[j]
<1> DEFINE L == Len(spec.excluded)
           U == getLBPortUsage(list, lb)
           D == spec.max - spec.min
           e == (D + 1) - L - U
<1>1. Int32(Int32(Int32(Int32(D) + 1) - L) - U) >= n
  BY DEF hasAvailablePorts
<1>2. PortsLeft(spec, list, lb) = e
  BY DEF PortsLeft
<1>3. D \in Int /\ D <= 2 * MaxInt + 1 /\ L \in Nat /\ U \in Nat
  BY InInt32Facts
<1> HIDE DEF L, U, D
<1>4. e \in Int /\ e >= -(MaxInt + 1)
  BY <1>2, <1>3
<1>5. Machine(e) >= n
  BY <1>1, <1>3, <1>4, LeftIsMachine
<1> HIDE DEF e
<1>6. e <= 2 * (MaxInt + 1)
  BY <1>3, MaxIntAssumption DEF e
<1>7. n <= e
  BY <1>4, <1>5, <1>6, MaxIntAssumption DEF Machine
<1> QED BY <1>2, <1>7, LeftIsFree

(* What the buffer of a configuration makes of the number of ports left.   *)
LEMMA BufferArithmetic ==
  ASSUME NEW e \in Int, e <= 2 * (MaxInt + 1), NEW W \in Int32Range,
         NEW more \in Nat, more = (IF W < 0 THEN -W ELSE 0),
         NEW less \in Nat, less = (IF W > 0 THEN W ELSE 0), e - less >= -(MaxInt + 1),
         NEW n, n = (IF Int32(Machine(e) - W) < 0 THEN 0 ELSE Int32(Machine(e) - W)),
         n - more > 0
  PROVE  n - more \in Nat /\ n - more <= e
BY MaxIntAssumption DEF Int32, Machine, Int32Range

(* As many ports as availablePorts counts, less those a negative buffer    *)
(* adds, the scan finds.                                                   *)
LEMMA AvailableServed ==
  ASSUME NEW spec, NEW list, NEW lb, NEW prewarm, InInt32(spec, list, lb),
         PrewarmedCount(prewarm) \in Int32Range,
         PortsLeft(spec, list, lb) - Reserve(prewarm) >= -(MaxInt + 1),
         NEW n, n = availablePorts(spec, prewarm, lb, list) - Inflation(prewarm), n > 0
  PROVE  /\ n \in Nat
         /\ \E ports \in [1 .. n -> freePorts(spec, list, lb)] :
              /\ findAvailablePorts(spec, list, lb, n) = {ports}
              /\ \A i, j \in 1 .. n : i < j => ports[i] < ports[j]
<1> DEFINE L == Len(spec.excluded)
           U == getLBPortUsage(list, lb)
           W == PrewarmedCount(prewarm)
           D == spec.max - spec.min
           e == (D + 1) - L - U
           left == Int32(Int32(Int32(Int32(D) + 1) - L) - U)
           more == Inflation(prewarm)
           less == Reserve(prewarm)
           a == availablePorts(spec, prewarm, lb, list)
<1>1. a = IF Int32(left - W) < 0 THEN 0 ELSE Int32(left - W)
  BY DEF availablePorts, TotalPorts
<1>2. PortsLeft(spec, list, lb) = e
  BY DEF PortsLeft
<1>3. /\ D \in Int /\ D <= 2 * MaxInt + 1 /\ L \in Nat /\ U \in Nat
      /\ W \in Int32Range /\ W \in Int /\ MaxInt \in Nat
  <2>1. Int32Range \subseteq Int
    BY MaxIntAssumption DEF Int32Range
  <2> QED BY <2>1, InInt32Facts, MaxIntAssumption
<1>4. /\ more = (IF W < 0 THEN -W ELSE 0) /\ less = (IF W > 0 THEN W ELSE 0)
      /\ e - less >= -(MaxInt + 1) /\ n = a - more
  BY <1>2 DEF Inflation, Reserve
<1> HIDE DEF L, U, W, D, more, less, a
<1>5. more \in Nat /\ less \in Nat
  BY <1>3, <1>4
<1>6. e \in Int /\ e >= -(MaxInt + 1) /\ e <= 2 * (MaxInt + 1)
  BY <1>3, <1>4, <1>5
<1>7. left = Machine(e)
  BY <1>3, <1>6, LeftIsMachine
<1> HIDE DEF e, left
<1>8. n \in Nat /\ n <= e
  BY <1>1, <1>3, <1>4, <1>5, <1>6, <1>7, BufferArithmetic
<1> QED BY <1>2, <1>8, LeftIsFree

(* The status promises what the allocator keeps, for every bufferSize an   *)
(* int32 can hold: a request for as many ports as calculateLBStatus        *)
(* reports available, less those a negative buffer adds, succeeds on that  *)
(* load balancer, unless the exact number is below the smallest int32.     *)
THEOREM StatusKeepsPromise ==
  ASSUME NEW spec, NEW list, NEW lb, NEW prewarm, InInt32(spec, list, lb),
         PrewarmedCount(prewarm) \in Int32Range,
         PortsLeft(spec, list, lb) - Reserve(prewarm) >= -(MaxInt + 1),
         NEW n, n = calculateLBStatus(spec, prewarm, lb, list).available - Inflation(prewarm), n > 0
  PROVE  /\ n \in Nat
         /\ \E ports \in [1 .. n -> freePorts(spec, list, lb)] :
              /\ findAvailablePorts(spec, list, lb, n) = {ports}
              /\ \A i, j \in 1 .. n : i < j => ports[i] < ports[j]
<1>1. n = availablePorts(spec, prewarm, lb, list) - Inflation(prewarm)
  BY DEF calculateLBStatus
<1> QED BY <1>1, AvailableServed

-----------------------------------------------------------------------------
(* The loop of findAvailablePorts *)

(* One turn of the loop.                                                   *)
scanTurn(spec, taken, count, state) ==
  IF scanning(spec, count, state) THEN scanPort(taken, state) ELSE state

(* The variables of the loop after 0, 1, ..., k turns.                     *)
scanRun(spec, taken, count, f, k) ==
  /\ f[0] = scanStart(spec)
  /\ \A m \in 1 .. k : f[m] = scanTurn(spec, taken, count, f[m - 1])

(* A set of naturals has a smallest element.                               *)
LEMMA LeastNat ==
  ASSUME NEW S, S \subseteq Nat, S # {}
  PROVE  \E x \in S : \A y \in S : x <= y
<1>1. S \in SUBSET Int /\ 0 \in Int /\ \A x \in S : 0 <= x
  OBVIOUS
<1> QED BY <1>1, Least

(* The loop is well defined: its variables after m turns exist.            *)
LEMMA ScanRuns ==
  ASSUME NEW spec, NEW taken, NEW count, NEW K \in Nat
  PROVE  \E f : scanRun(spec, taken, count, f, K)
<1> DEFINE Run(f, k) == scanRun(spec, taken, count, f, k)
           Without == {k \in Nat : ~\E f : Run(f, k)}
<1> SUFFICES Without = {}
  OBVIOUS
<1>1. SUFFICES ASSUME Without # {} PROVE FALSE
  OBVIOUS
<1>2. Without \subseteq Nat
  OBVIOUS
<1> HIDE DEF Without
<1>3. PICK k \in Without : \A j \in Without : k <= j
  BY <1>1, <1>2, LeastNat
<1>4. k \in Nat /\ ~\E f : Run(f, k)
  BY <1>3 DEF Without
<1>5. CASE k = 0
  <2> DEFINE f == [i \in {0} |-> scanStart(spec)]
  <2>1. Run(f, k)
    BY <1>5 DEF scanRun
  <2> QED BY <1>4, <2>1
<1>6. CASE k # 0
  <2>1. k - 1 \in Nat /\ k - 1 \notin Without
    BY <1>3, <1>4, <1>6
  <2>2. PICK f : Run(f, k - 1)
    BY <2>1 DEF Without
  <2> DEFINE g == [i \in 0 .. k |-> IF i = k THEN scanTurn(spec, taken, count, f[k - 1]) ELSE f[i]]
  <2>3. /\ g[k] = scanTurn(spec, taken, count, f[k - 1])
        /\ \A i \in 0 .. k - 1 : g[i] = f[i]
    BY <1>4
  <2>4. g[0] = scanStart(spec)
    BY <1>4, <1>6, <2>2, <2>3 DEF scanRun
  <2>5. ASSUME NEW m \in 1 .. k PROVE g[m] = scanTurn(spec, taken, count, g[m - 1])
    <3>1. m - 1 \in 0 .. k - 1 /\ g[m - 1] = f[m - 1]
      BY <1>4, <2>3
    <3> HIDE DEF g
    <3>2. CASE m = k
      BY <2>3, <3>1, <3>2
    <3>3. CASE m # k
      <4>1. m \in 1 .. k - 1 /\ m \in 0 .. k - 1
        BY <1>4, <3>3
      <4> QED BY <2>2, <2>3, <3>1, <4>1 DEF scanRun
    <3> QED BY <3>2, <3>3
  <2> HIDE DEF g
  <2>6. Run(g, k)
    BY <2>4, <2>5 DEF scanRun
  <2> QED BY <1>4, <2>6
<1> QED BY <1>5, <1>6

(* Two runs of the loop agree.                                             *)
LEMMA ScanUnique ==
  ASSUME NEW spec, NEW taken, NEW count, NEW K \in Nat, NEW L \in Nat, NEW f, NEW g,
         scanRun(spec, taken, count, f, K), scanRun(spec, taken, count, g, L),
         NEW m \in Nat, m <= K, m <= L
  PROVE  f[m] = g[m]
<1> DEFINE Differ == {k \in Nat : k <= K /\ k <= L /\ f[k] # g[k]}
<1>1. SUFFICES ASSUME Differ # {} PROVE FALSE
  OBVIOUS
<1>2. Differ \subseteq Nat
  OBVIOUS
<1> HIDE DEF Differ
<1>3. PICK k \in Differ : \A j \in Differ : k <= j
  BY <1>1, <1>2, LeastNat
<1>4. k \in Nat /\ k <= K /\ k <= L /\ f[k] # g[k]
  BY <1>3 DEF Differ
<1>5. k # 0
  BY <1>4 DEF scanRun
<1>6. k - 1 \in Nat /\ k - 1 <= K /\ k - 1 <= L /\ k - 1 \notin Differ
  BY <1>3, <1>4, <1>5
<1>7. f[k - 1] = g[k - 1]
  BY <1>6 DEF Differ
<1>8. k \in 1 .. K /\ k \in 1 .. L
  BY <1>4, <1>5
<1> QED BY <1>4, <1>7, <1>8 DEF scanRun

(* The recursive definition of scanLoop has a solution.                    *)
LEMMA ScanDefined ==
  ASSUME NEW spec, NEW taken, NEW count
  PROVE  /\ scanLoop(spec, taken, count)[0] = scanStart(spec)
         /\ \A m \in Nat \ {0} :
              scanLoop(spec, taken, count)[m]
                = scanTurn(spec, taken, count, scanLoop(spec, taken, count)[m - 1])
<1> DEFINE Run(f, k) == scanRun(spec, taken, count, f, k)
           run(k) == CHOOSE f : Run(f, k)
           Solves(f) == f = [m \in Nat |-> IF m = 0 THEN scanStart(spec)
                                           ELSE scanTurn(spec, taken, count, f[m - 1])]
           all == [m \in Nat |-> run(m)[m]]
<1>1. ASSUME NEW k \in Nat PROVE Run(run(k), k)
  <2>1. \E f : Run(f, k)
    BY ScanRuns
  <2> HIDE DEF Run
  <2> QED BY <2>1
<1>2. \A m \in Nat : all[m] = run(m)[m]
  OBVIOUS
<1> HIDE DEF run
<1>3. all[0] = scanStart(spec)
  BY <1>1, <1>2 DEF scanRun
<1>4. ASSUME NEW m \in Nat, m # 0
      PROVE  all[m] = scanTurn(spec, taken, count, all[m - 1])
  <2>1. m - 1 \in Nat /\ m \in 1 .. m /\ m - 1 <= m /\ m - 1 <= m - 1
    BY <1>4
  <2>2. Run(run(m), m) /\ Run(run(m - 1), m - 1)
    BY <1>1, <2>1
  <2>3. run(m)[m - 1] = run(m - 1)[m - 1]
    BY <2>1, <2>2, ScanUnique
  <2>4. run(m)[m] = scanTurn(spec, taken, count, run(m)[m - 1])
    BY <2>1, <2>2 DEF scanRun
  <2> HIDE DEF all
  <2>5. all[m] = run(m)[m] /\ all[m - 1] = run(m - 1)[m - 1]
    BY <1>2, <2>1
  <2> QED BY <2>3, <2>4, <2>5
<1>5. Solves(all)
  <2> DEFINE rhs == [m \in Nat |-> IF m = 0 THEN scanStart(spec)
                                   ELSE scanTurn(spec, taken, count, all[m - 1])]
  <2>1. \A m \in Nat : all[m] = rhs[m]
    BY <1>3, <1>4
  <2>2. DOMAIN all = Nat /\ DOMAIN rhs = Nat /\ all = [m \in Nat |-> all[m]] /\ rhs = [m \in Nat |-> rhs[m]]
    OBVIOUS
  <2> HIDE DEF all, rhs
  <2>3. all = rhs
    BY <2>1, <2>2
  <2> QED BY <2>3 DEF rhs
<1> HIDE DEF all
<1>6. Solves(scanLoop(spec, taken, count))
  <2>1. scanLoop(spec, taken, count) = CHOOSE f : Solves(f)
    BY DEF scanLoop, scanTurn
  <2> HIDE DEF Solves
  <2> QED BY <1>5, <2>1
<1>7. PICK f : f = scanLoop(spec, taken, count)
  OBVIOUS
<1>8. Solves(f)
  BY <1>6, <1>7
<1>9. f[0] = scanStart(spec) /\ \A m \in Nat \ {0} : f[m] = scanTurn(spec, taken, count, f[m - 1])
  BY <1>8
<1> QED BY <1>7, <1>9

(* The loop invariant: the ports found so far are the lowest free ones in  *)
(* order, and as long as some are missing the loop has looked at exactly   *)
(* the first m ports of the range.                                         *)
ScanInv(spec, free, count, m, state) ==
  /\ state.found \in Seq(Int) /\ Len(state.found) <= count
  /\ \A i \in 1 .. Len(state.found) :
       state.found[i] \in free /\ Cardinality({p \in free : p < state.found[i]}) = i - 1
  /\ Len(state.found) < count =>
       /\ state.port = Int32(spec.min + m)
       /\ Len(state.found) = Cardinality({p \in free : p < spec.min + m})

(* A port within the range of int32 is not wrapped around.                 *)
LEMMA NoWrap == \A x \in Int32Range : Int32(x) = x
BY MaxIntAssumption DEF Int32, Int32Range

(* One turn of the loop, in the range, keeps the invariant.                *)
LEMMA ScanTurnInv ==
  ASSUME NEW spec, spec.min \in Int32Range, spec.max \in Int32Range,
         NEW taken, NEW free, free = (spec.min .. spec.max) \ taken,
         NEW count \in Nat, NEW m \in Nat, spec.min + m <= spec.max,
         NEW state, ScanInv(spec, free, count, m, state)
  PROVE  ScanInv(spec, free, count, m + 1, scanTurn(spec, taken, count, state))
<1> DEFINE found == state.found
           L == Len(found)
           port == spec.min + m
           Below(x) == {p \in free : p < x}
<1>0. /\ spec.min \in Int /\ spec.max \in Int /\ port \in Int /\ port \in Int32Range
      /\ \A p \in free : p \in Int
      /\ IsFiniteSet(free)
  <2>1. spec.min \in Int /\ spec.max \in Int /\ port \in Int /\ port \in Int32Range
    BY MaxIntAssumption DEF Int32Range
  <2>2. free \subseteq spec.min .. spec.max /\ IsFiniteSet(spec.min .. spec.max)
    BY <2>1, FS_Interval
  <2>3. IsFiniteSet(free)
    BY <2>2, FS_Subset
  <2> QED BY <2>1, <2>2, <2>3
<1>1. /\ found \in Seq(Int) /\ L \in Nat /\ L <= count
      /\ \A i \in 1 .. L : found[i] \in free /\ Cardinality(Below(found[i])) = i - 1
      /\ L < count => state.port = port /\ L = Cardinality(Below(port))
  BY <1>0, NoWrap DEF ScanInv
<1>2. CASE ~(L < count)
  <2>1. scanTurn(spec, taken, count, state) = state
    BY <1>2 DEF scanTurn, scanning
  <2> QED BY <1>1, <1>2, <2>1 DEF ScanInv
<1>3. CASE L < count /\ port \in taken
  <2>1. scanTurn(spec, taken, count, state) = [port |-> Int32(port + 1), found |-> found]
    BY <1>1, <1>3 DEF scanTurn, scanning, scanPort
  <2>2. Below(port + 1) = Below(port)
    <3>1. port \notin free
      BY <1>3
    <3> QED BY <1>0, <3>1
  <2>3. spec.min + (m + 1) = port + 1
    BY <1>0
  <2>4. PICK next : next = scanTurn(spec, taken, count, state)
    OBVIOUS
  <2>5. next.port = Int32(port + 1) /\ next.found = found
    BY <2>1, <2>4
  <2>6. ScanInv(spec, free, count, m + 1, next)
    <3> HIDE DEF port
    <3> QED BY <1>1, <1>3, <2>2, <2>3, <2>5 DEF ScanInv
  <2> QED BY <2>4, <2>6
<1>4. CASE L < count /\ port \notin taken
  <2> DEFINE longer == Append(found, port)
  <2>1. scanTurn(spec, taken, count, state) = [port |-> Int32(port + 1), found |-> longer]
    BY <1>1, <1>4 DEF scanTurn, scanning, scanPort
  <2>2. port \in free
    BY <1>0, <1>4
  <2>3. Below(port + 1) = Below(port) \cup {port} /\ port \notin Below(port)
    BY <1>0, <2>2
  <2>4. spec.min + (m + 1) = port + 1
    BY <1>0
  <2> HIDE DEF port
  <2>5. /\ longer \in Seq(Int) /\ Len(longer) = L + 1
        /\ \A i \in 1 .. L : longer[i] = found[i]
        /\ longer[L + 1] = port
    BY <1>0, <1>1
  <2>6. Cardinality(Below(port + 1)) = L + 1
    <3>1. IsFiniteSet(Below(port))
      BY <1>0, FS_Subset
    <3>2. Cardinality(Below(port) \cup {port}) = Cardinality(Below(port)) + 1
      <4> HIDE DEF Below
      <4> QED BY <2>3, <3>1, FS_AddElement
    <3> HIDE DEF Below
    <3> QED BY <1>1, <1>4, <2>3, <3>2
  <2> HIDE DEF longer
  <2>7. ASSUME NEW i \in 1 .. L + 1
        PROVE  longer[i] \in free /\ Cardinality(Below(longer[i])) = i - 1
    <3>1. CASE i = L + 1
      <4>1. longer[i] = port /\ i - 1 = L /\ L = Cardinality(Below(port))
        BY <1>1, <1>4, <2>5, <3>1
      <4> QED BY <2>2, <4>1
    <3>2. CASE i # L + 1
      <4>1. i \in 1 .. L
        BY <1>1, <3>2
      <4> QED BY <1>1, <2>5, <4>1
    <3> QED BY <3>1, <3>2
  <2>8. L + 1 <= count
    BY <1>1, <1>4
  <2>9. PICK next : next = scanTurn(spec, taken, count, state)
    OBVIOUS
  <2>10. next.port = Int32(port + 1) /\ next.found = longer
    BY <2>1, <2>9
  <2>11. ScanInv(spec, free, count, m + 1, next)
    BY <2>4, <2>5, <2>6, <2>7, <2>8, <2>10 DEF ScanInv
  <2> QED BY <2>9, <2>11
<1> QED BY <1>2, <1>3, <1>4

(* The invariant holds from the start to the last port of the range.       *)
LEMMA ScanLoopInv ==
  ASSUME NEW spec, spec.min \in Int32Range, spec.max \in Int32Range,
         NEW taken, NEW free, free = (spec.min .. spec.max) \ taken,
         NEW count \in Nat, NEW k \in Nat, k = 0 \/ spec.min + k <= spec.max + 1
  PROVE  ScanInv(spec, free, count, k, scanLoop(spec, taken, count)[k])
<1>1. PICK f : f = scanLoop(spec, taken, count)
  OBVIOUS
<1>2. /\ f[0] = scanStart(spec)
      /\ \A m \in Nat \ {0} : f[m] = scanTurn(spec, taken, count, f[m - 1])
  BY <1>1, ScanDefined
<1>t. spec.min \in Int /\ spec.max \in Int
  BY MaxIntAssumption DEF Int32Range
<1> DEFINE Bad == {m \in Nat : m <= k /\ ~ScanInv(spec, free, count, m, f[m])}
<1>3. SUFFICES ASSUME Bad # {} PROVE FALSE
  <2>1. ASSUME k \notin Bad PROVE ScanInv(spec, free, count, k, f[k])
    BY <2>1
  <2> HIDE DEF Bad
  <2> QED BY <1>1, <2>1
<1>4. Bad \subseteq Nat
  OBVIOUS
<1> HIDE DEF Bad
<1>5. PICK m \in Bad : \A j \in Bad : m <= j
  BY <1>3, <1>4, LeastNat
<1>6. m \in Nat /\ m <= k /\ ~ScanInv(spec, free, count, m, f[m])
  BY <1>5 DEF Bad
<1>7. CASE m = 0
  <2>1. scanStart(spec).found = << >> /\ scanStart(spec).port = spec.min
    BY DEF scanStart
  <2>2. Int32(spec.min + 0) = spec.min
    BY <1>t, NoWrap
  <2>3. {p \in free : p < spec.min + 0} = {}
    BY <1>t
  <2>4. << >> \in Seq(Int) /\ Len(<< >>) = 0
    OBVIOUS
  <2>5. ScanInv(spec, free, count, 0, scanStart(spec))
    <3>1. PICK start : start = scanStart(spec)
      OBVIOUS
    <3>2. start.found = << >> /\ start.port = spec.min /\ Len(start.found) = 0
      BY <2>1, <2>4, <3>1
    <3>3. 1 .. Len(start.found) = {}
      BY <3>2
    <3>4. Cardinality({p \in free : p < spec.min + 0}) = 0
      BY <2>3, FS_EmptySet
    <3>5. ScanInv(spec, free, count, 0, start)
      BY <2>2, <2>4, <3>2, <3>3, <3>4 DEF ScanInv
    <3> QED BY <3>1, <3>5
  <2> QED BY <1>2, <1>6, <1>7, <2>5
<1>8. CASE m # 0
  <2>1. m - 1 \in Nat /\ m - 1 \notin Bad /\ m - 1 <= k /\ spec.min + (m - 1) <= spec.max
    BY <1>t, <1>5, <1>6, <1>8
  <2>2. ScanInv(spec, free, count, m - 1, f[m - 1])
    BY <2>1 DEF Bad
  <2>3. ScanInv(spec, free, count, (m - 1) + 1, scanTurn(spec, taken, count, f[m - 1]))
    BY <2>1, <2>2, ScanTurnInv
  <2>4. (m - 1) + 1 = m /\ f[m] = scanTurn(spec, taken, count, f[m - 1])
    BY <1>2, <1>6, <1>8
  <2> QED BY <1>6, <2>3, <2>4
<1> QED BY <1>7, <1>8

(* Of two elements of a finite set of integers the smaller has the lower   *)
(* rank.                                                                   *)
LEMMA RankGrows ==
  ASSUME NEW S \in SUBSET Int, IsFiniteSet(S), NEW x \in S, NEW y \in Int, x < y
  PROVE  /\ Cardinality({p \in S : p < x}) \in Nat /\ Cardinality({p \in S : p < y}) \in Nat
         /\ Cardinality({p \in S : p < x}) < Cardinality({p \in S : p < y})
         /\ Cardinality({p \in S : p < x}) < Cardinality(S)
<1> DEFINE A == {p \in S : p < x}
           B == {p \in S : p < y}
<1>0. x \in Int /\ \A p \in S : p \in Int
  OBVIOUS
<1>1. A \subseteq S /\ B \subseteq S /\ x \notin A /\ A \cup {x} \subseteq B /\ A \cup {x} \subseteq S
  <2>1. x \notin A /\ x \in B
    BY <1>0
  <2>2. A \subseteq B
    <3> SUFFICES ASSUME NEW p \in S, p < x PROVE p < y
      OBVIOUS
    <3> QED BY <1>0
  <2> QED BY <2>1, <2>2
<1> HIDE DEF A, B
<1>2. IsFiniteSet(A) /\ IsFiniteSet(B)
  BY <1>1, FS_Subset
<1>3. Cardinality(A) \in Nat /\ Cardinality(B) \in Nat /\ Cardinality(S) \in Nat
  BY <1>2, FS_CardinalityType
<1>4. Cardinality(A \cup {x}) = Cardinality(A) + 1
  BY <1>1, <1>2, FS_AddElement
<1>5. Cardinality(A \cup {x}) <= Cardinality(B) /\ Cardinality(A \cup {x}) <= Cardinality(S)
  BY <1>1, <1>2, FS_Subset
<1> QED BY <1>3, <1>4, <1>5 DEF A, B

(* The loop of findAvailablePorts computes what findAvailablePorts says:   *)
(* when the range ends below the largest int32, or the range has the ports *)
(* asked for, the loop ends within the range, with the lowest free ports   *)
(* if there are enough and with too few otherwise.  A port++ that wraps    *)
(* around is never followed by another iteration.                          *)
THEOREM ScanComputes ==
  ASSUME NEW spec, spec.min \in Int32Range, spec.max \in Int32Range,
         NEW list, NEW lb, NEW n \in Nat, n > 0,
         spec.max < MaxInt \/ n <= Cardinality(freePorts(spec, list, lb)),
         NEW end,
         end = scanLoop(spec, GetAllocatedPortsByLB(list, lb) \cup ExcludedPorts(spec), n)
                 [Cardinality(spec.min .. spec.max)]
  PROVE  /\ ~scanning(spec, n, end)
         /\ findAvailablePorts(spec, list, lb, n) = IF Len(end.found) = n THEN {end.found} ELSE {}
<1> DEFINE free == freePorts(spec, list, lb)
           taken == GetAllocatedPortsByLB(list, lb) \cup ExcludedPorts(spec)
           K == Cardinality(spec.min .. spec.max)
           found == end.found
           L == Len(found)
           Rank(x) == Cardinality({p \in free : p < x})
<1>0. /\ spec.min \in Int /\ spec.max \in Int
      /\ spec.min <= spec.max => spec.min + K = spec.max + 1
      /\ spec.min > spec.max => K = 0
      /\ K \in Nat
  <2>1. spec.min \in Int /\ spec.max \in Int
    BY MaxIntAssumption DEF Int32Range
  <2>2. K = IF spec.min > spec.max THEN 0 ELSE spec.max - spec.min + 1
    BY <2>1, FS_Interval
  <2> HIDE DEF K
  <2> QED BY <2>1, <2>2
<1>1. free = (spec.min .. spec.max) \ taken
  BY DEF freePorts
<1>2. free \in SUBSET Int /\ IsFiniteSet(free) /\ Cardinality(free) \in Nat
  BY <1>0, FreeType, FS_CardinalityType
<1> HIDE DEF taken, K
<1>3. ScanInv(spec, free, n, K, end)
  <2>1. end = scanLoop(spec, taken, n)[K]
    BY DEF taken, K
  <2>2. K = 0 \/ spec.min + K <= spec.max + 1
    BY <1>0
  <2> HIDE DEF free
  <2> QED BY <1>0, <1>1, <2>1, <2>2, ScanLoopInv
<1>4. {p \in free : p < spec.min + K} = free
  BY <1>0, <1>1
<1>5. /\ found \in Seq(Int) /\ L \in Nat /\ L <= n
      /\ \A i \in 1 .. L : found[i] \in free /\ Rank(found[i]) = i - 1
      /\ L < n => end.port = Int32(spec.min + K) /\ L = Cardinality(free)
  <2> HIDE DEF free
  <2>1. found \in Seq(Int) /\ L <= n
    BY <1>3 DEF ScanInv
  <2>2. L \in Nat
    BY <2>1
  <2>3. \A i \in 1 .. L : found[i] \in free /\ Rank(found[i]) = i - 1
    BY <1>3 DEF ScanInv
  <2>4. L < n => end.port = Int32(spec.min + K) /\ L = Cardinality(free)
    BY <1>3, <1>4 DEF ScanInv
  <2> QED BY <2>1, <2>2, <2>3, <2>4
<1> HIDE DEF free
<1>6. ~scanning(spec, n, end)
  <2> SUFFICES ASSUME end.port <= spec.max, L < n PROVE FALSE
    BY DEF scanning
  <2>1. spec.max < MaxInt /\ end.port = Int32(spec.min + K)
    BY <1>2, <1>5 DEF free
  <2>2. spec.min + K \in Int32Range /\ spec.min + K > spec.max
    BY <1>0, <2>1, MaxIntAssumption DEF Int32Range
  <2> QED BY <1>0, <2>1, <2>2, NoWrap
<1>7. CASE L < n
  <2>1. ~(Cardinality(free) >= n) /\ L # n
    BY <1>2, <1>5, <1>7
  <2>2. findAvailablePorts(spec, list, lb, n) = {}
    BY <2>1 DEF findAvailablePorts, free
  <2> QED BY <1>6, <2>1, <2>2
<1>8. CASE L = n
  <2> DEFINE Lowest(i) == CHOOSE x \in free : Rank(x) = i - 1
  <2>1. Cardinality(free) >= n
    <3>1. found[n] \in free /\ Rank(found[n]) = n - 1
      <4>1. n \in 1 .. L
        BY <1>8
      <4> HIDE DEF L, Rank, found
      <4> QED BY <1>5, <4>1
    <3>2. found[n] \in Int /\ found[n] + 1 \in Int /\ found[n] < found[n] + 1
      <4>1. found[n] \in Int
        BY <1>2, <3>1
      <4> HIDE DEF found
      <4> QED BY <4>1
    <3>3. Rank(found[n]) < Cardinality(free)
      BY <1>2, <3>1, <3>2, RankGrows
    <3> QED BY <1>2, <3>1, <3>3
  <2>2. ASSUME NEW i \in 1 .. n PROVE Lowest(i) = found[i]
    <3>1. found[i] \in free /\ Rank(found[i]) = i - 1
      BY <1>5, <1>8
    <3>2. ASSUME NEW x \in free, Rank(x) = i - 1 PROVE x = found[i]
      <4>1. x \in Int /\ found[i] \in Int
        BY <1>2, <3>1
      <4>2. ~(x < found[i])
        <5> SUFFICES ASSUME x < found[i] PROVE FALSE
          OBVIOUS
        <5>1. Rank(x) \in Nat /\ Rank(x) < Rank(found[i])
          BY <1>2, <4>1, RankGrows
        <5> QED BY <3>1, <3>2, <5>1
      <4>3. ~(found[i] < x)
        <5> SUFFICES ASSUME found[i] < x PROVE FALSE
          OBVIOUS
        <5>1. Rank(x) \in Nat /\ Rank(found[i]) < Rank(x)
          BY <1>2, <3>1, <4>1, RankGrows
        <5> QED BY <3>1, <3>2, <5>1
      <4> QED BY <4>1, <4>2, <4>3
    <3> HIDE DEF Rank, found
    <3> QED BY <3>1, <3>2
  <2>3. findAvailablePorts(spec, list, lb, n) = {[i \in 1 .. n |-> Lowest(i)]}
    BY <2>1 DEF findAvailablePorts, free
  <2> HIDE DEF Lowest
  <2>4. [i \in 1 .. n |-> Lowest(i)] = found
    <3>1. found \in Seq(Int) /\ Len(found) = n
      BY <1>5, <1>8
    <3> HIDE DEF found
    <3>2. found = [i \in 1 .. n |-> found[i]]
      BY <3>1
    <3> QED BY <2>2, <3>2
  <2> QED BY <1>6, <1>8, <2>3, <2>4
<1>9. L < n \/ L = n
  <2> HIDE DEF L
  <2> QED BY <1>5
<1> QED BY <1>7, <1>8, <1>9
=============================================================================
