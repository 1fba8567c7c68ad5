--------------------------- MODULE LeastUsedProofs ---------------------------
(***************************************************************************)
(* The "least-used" strategy of PoolAllocator: the choice made from the    *)
(* list is still right when the object is created.                         *)
(***************************************************************************)
EXTENDS SharingProofs

(* Nobody but the allocator's callers touches the pools and allocations:   *)
(* no edit of a pool, no deletion by another client, no finalizer that     *)
(* ends.  Crashes, failing calls and retries remain.                       *)
Undisturbed ==
  UNCHANGED pools /\ \A k \in Keys : ~ExternalDelete(k) /\ ~FinalizerDone(k)

(* The load balancer of bs has the fewest bindings among those of pool p   *)
(* with room for as many ports.                                            *)
LeastUsed(p, bs) ==
  LET list == Labelled(allocs, p)
  IN  \A n \in DOMAIN pools[p].lbs :
        hasAvailablePorts(pools[p], list, pools[p].lbs[n], Len(bs))
          => getLBPortUsage(list, bs[1].lb) <= getLBPortUsage(list, pools[p].lbs[n])

SeenCurrent == \A w \in Workers : pc[w] = "list" => seen[w] = pools[req[w].pool]

DraftLeast ==
  \A w \in Workers : (pc[w] \in {"exists", "create"} /\ draft[w].bindings # << >>)
                        => LeastUsed(draft[w].pool, draft[w].bindings)

(* The choice stays right because the mutex keeps everyone else from the   *)
(* pool's list: MutexInv, and VerifiedInv for the releases of other pools. *)
LeastInv ==
  /\ TypeOK /\ MutexInv /\ VerifiedInv /\ DraftPool
  /\ IsFiniteSet(Stored)
  /\ SeenCurrent /\ DraftLeast

-----------------------------------------------------------------------------
(* The usage of a load balancer is a number.                               *)
LEMMA UsageType ==
  ASSUME TypeOK, IsFiniteSet(Stored), NEW p, NEW lb
  PROVE  getLBPortUsage(Labelled(allocs, p), lb) \in Nat
<1> DEFINE list == Labelled(allocs, p)
<1>1. IsFiniteSet(Positions(list))
  BY PositionsFinite
<1>2. BindingsOn(list, lb) \subseteq Positions(list)
  BY DEF BindingsOn
<1> HIDE DEF list
<1>3. IsFiniteSet(BindingsOn(list, lb))
  BY <1>1, <1>2, FS_Subset
<1> QED BY <1>3, FS_CardinalityType DEF getLBPortUsage, list

(* The steps that change an allocation.                                    *)
LEMMA AllocsStep ==
  ASSUME [Next]_vars, Undisturbed,
         \A w \in Workers : ~CreateSucceeds(w) /\ ~DeleteAllocation(w)
  PROVE  UNCHANGED allocs
<1>1. ASSUME NEW w \in Workers, Call(w) \/ Lock(w) \/ Work(w) PROVE UNCHANGED allocs
  BY <1>1 DEF Call, CallAllocate, CallRelease, Lock, Work, checkForDuplicateAllocation,
              FetchPool, ListAndSelect, GetExisting, CreateFails, CreateConflicts, ReadFails,
              GetForRelease, Unlock, store
<1>2. CASE Environment
  BY <1>2 DEF Undisturbed, Environment, ChangePool, DeliverPool, DeliverWatch, Crash, store
<1>3. CASE UNCHANGED vars
  BY <1>3 DEF vars, store
<1> QED BY <1>1, <1>2, <1>3 DEF Next

(* A step at one key, before and after which the object there is not of    *)
(* pool p, leaves the list of p as it is.                                  *)
LEMMA OtherPoolsList ==
  ASSUME NEW p, NEW key \in Keys,
         \A k \in Keys \ {key} : allocs'[k] = allocs[k],
         allocs[key] = None \/ allocs[key].pool # p,
         allocs'[key] = None \/ allocs'[key].pool # p
  PROVE  Labelled(allocs, p)' = Labelled(allocs, p)
<1> DEFINE D == {j \in Keys : allocs[j] # None /\ allocs[j].pool = p}
           E == {j \in Keys : allocs'[j] # None /\ allocs'[j].pool = p}
<1>1. \A j \in Keys : j \in D <=> j \in E
  OBVIOUS
<1>2. D = E /\ \A k \in D : allocs'[k] = allocs[k]
  BY <1>1
<1>3. [k \in D |-> allocs[k]] = [k \in E |-> allocs'[k]]
  BY <1>2
<1> QED BY <1>3 DEF Labelled

(* Between its list and its Create a worker sees no change of the list:    *)
(* others work on other pools.                                             *)
LEMMA ListKept ==
  ASSUME OneProcess, LeastInv, [Next]_vars, Undisturbed,
         NEW v \in Workers, pc[v] \in {"exists", "create"}, pc'[v] \in {"exists", "create"}
  PROVE  Labelled(allocs, req[v].pool)' = Labelled(allocs, req[v].pool)
<1> DEFINE p == req[v].pool
<1>0. /\ TypeOK /\ MutexInv /\ VerifiedInv /\ DraftPool
      /\ pc \in [Workers -> PcValues] /\ allocs \in [Keys -> PortAllocation \cup {None}]
  BY DEF LeastInv, TypeOK, CallsOK, StoreOK
<1>p. p' = p
  <2>1. ~ListAndSelect(v)
    BY DEF ListAndSelect
  <2> QED BY <1>0, <2>1, DraftKept
<1>1. ASSUME NEW w \in Workers, CreateSucceeds(w)
      PROVE  Labelled(allocs, p)' = Labelled(allocs, p)
  <2>1. w # v
    BY <1>0, <1>1, Created
  <2>2. draft[w].pool = req[w].pool
    BY <1>0, <1>1, Created DEF DraftPool
  <2>3. req[w].pool # p
    BY <1>0, <1>1, <2>1, Created, OnePerPool DEF Holding
  <2> DEFINE key == CreateKey(req[w])
  <2>4. /\ key \in Keys /\ allocs[key] = None /\ allocs'[key] = draft[w]
        /\ \A k \in Keys \ {key} : allocs'[k] = allocs[k]
    BY <1>0, <1>1, Created
  <2> HIDE DEF key, p
  <2>5. Labelled(allocs, p)' = Labelled(allocs, p)
    BY <1>p, <2>2, <2>3, <2>4, OtherPoolsList
  <2> QED BY <2>5
<1>2. ASSUME NEW w \in Workers, DeleteAllocation(w)
      PROVE  Labelled(allocs, p)' = Labelled(allocs, p)
  <2>1. pc[w] = "delete" /\ pc'[w] = "unlock" /\ w # v
    BY <1>0, <1>2 DEF DeleteAllocation, Step
  <2> DEFINE key == ReleaseKey(req[w])
  <2>2. req[w].pool # p
    BY <1>0, <2>1, OnePerPool DEF Holding
  <2>3. key \in Keys
    BY <1>0, <2>1, InCall, KeyTypes
  <2>4. allocs[key] = None \/ (allocs[key] \in PortAllocation /\ allocs[key].pool = req[w].pool)
    BY <1>0, <2>1, <2>3 DEF VerifiedInv, Verified, Owns
  <2>5. Delete(key) \/ UNCHANGED store
    BY <1>2 DEF DeleteAllocation
  <2> HIDE DEF key, p
  <2>6. \/ allocs' = allocs
        \/ allocs' = [allocs EXCEPT ![key] = None]
        \/ /\ allocs[key] # None
           /\ allocs' = [allocs EXCEPT ![key] = [allocs[key] EXCEPT !.deleting = TRUE]]
    BY <2>5 DEF Delete, Write, store
  <2>7. /\ \A k \in Keys \ {key} : allocs'[k] = allocs[k]
        /\ allocs'[key] = None \/ allocs'[key].pool # p
    <3> DEFINE marked == [allocs[key] EXCEPT !.deleting = TRUE]
    <3>1. allocs[key] # None => marked.pool = allocs[key].pool
      BY <2>4 DEF PortAllocation
    <3> HIDE DEF marked
    <3>2. \/ allocs' = allocs \/ allocs' = [allocs EXCEPT ![key] = None]
          \/ allocs[key] # None /\ allocs' = [allocs EXCEPT ![key] = marked]
      BY <2>6 DEF marked
    <3> QED BY <1>0, <2>2, <2>3, <2>4, <3>1, <3>2
  <2>8. Labelled(allocs, p)' = Labelled(allocs, p)
    BY <1>p, <2>2, <2>3, <2>4, <2>7, OtherPoolsList
  <2> QED BY <2>8
<1>3. CASE UNCHANGED allocs
  BY <1>p, <1>3 DEF Labelled
<1> QED BY <1>1, <1>2, <1>3, AllocsStep

-----------------------------------------------------------------------------
(* What selectLeastUsed returns has no more bindings than any load         *)
(* balancer with room, also when it skips those with MaxInt and more.      *)
LEMMA LeastSelected ==
  ASSUME NEW spec, NEW list, NEW n, NEW i \in selectLeastUsed(spec, list, n),
         \A j \in DOMAIN spec.lbs : getLBPortUsage(list, spec.lbs[j]) \in Nat,
         NEW j \in DOMAIN spec.lbs, hasAvailablePorts(spec, list, spec.lbs[j], n)
  PROVE  getLBPortUsage(list, spec.lbs[i]) <= getLBPortUsage(list, spec.lbs[j])
<1> DEFINE Usage(m) == getLBPortUsage(list, spec.lbs[m])
           usable == {m \in DOMAIN spec.lbs :
                        Usage(m) < MaxInt /\ hasAvailablePorts(spec, list, spec.lbs[m], n)}
<1>1. i \in usable /\ \A m \in usable : Usage(i) < Usage(m) \/ Usage(i) = Usage(m)
  BY DEF selectLeastUsed
<1>2. Usage(i) \in Nat /\ Usage(j) \in Nat /\ Usage(i) < MaxInt
  BY <1>1
<1>3. CASE Usage(j) < MaxInt
  <2>1. j \in usable
    BY <1>3
  <2>2. Usage(i) < Usage(j) \/ Usage(i) = Usage(j)
    BY <1>1, <2>1
  <2> HIDE DEF Usage
  <2>3. Usage(i) <= Usage(j)
    BY <1>2, <2>2
  <2> QED BY <2>3 DEF Usage
<1>4. CASE ~(Usage(j) < MaxInt)
  <2> HIDE DEF Usage
  <2>1. Usage(i) <= Usage(j)
    BY <1>2, <1>4, MaxIntAssumption
  <2> QED BY <2>1 DEF Usage
<1> QED BY <1>3, <1>4

(* ListAndSelect drafts bindings on a load balancer that is least used in  *)
(* the list it reads.                                                      *)
LEMMA LeastDrafted ==
  ASSUME ~CachedReads, Strategy = "least-used", LeastInv, NEW w \in Workers, ListAndSelect(w),
         pc'[w] = "exists", draft'[w].bindings # << >>
  PROVE  LeastUsed(req[w].pool, draft'[w].bindings)
<1> DEFINE r    == req[w]
           spec == seen[w]
           n    == Len(r.ports)
           list == Labelled(allocs, r.pool)
           selected == IF n = 0 THEN {} ELSE selectLeastUsed(spec, list, n)
           candidates == IF n = 0 THEN {<< >>}
                         ELSE UNION {{PortBindings(r, spec.lbs[i], ports) :
                                ports \in findAvailablePorts(spec, list, spec.lbs[i], n)} :
                                i \in selected}
<1>0. /\ TypeOK /\ IsFiniteSet(Stored) /\ SeenCurrent
      /\ pc \in [Workers -> PcValues] /\ draft \in [Workers -> PortAllocation \cup {None}]
  BY DEF LeastInv, TypeOK, CallsOK
<1>1. pc[w] = "list" /\ r \in Requests /\ spec = pools[r.pool]
  <2>1. pc[w] = "list"
    BY DEF ListAndSelect
  <2> QED BY <1>0, <2>1, InCall DEF SeenCurrent
<1>2. n \in Nat /\ DOMAIN r.ports = 1 .. n
  <2>1. r.ports \in Seq(PodPort)
    BY <1>1, RequestsAssumption
  <2> HIDE DEF r
  <2> QED BY <2>1
<1>3. PICK bs \in candidates : draft' = [draft EXCEPT ![w] = NewAllocation(r, bs)]
  <2> DEFINE shown == Labelled(View(w), r.pool)
             chosen == IF n = 0 THEN {}
                       ELSE SelectLoadBalancer(Strategy, spec, shown, n, rrIndex[Process[w]][r.pool])
             drafts == IF n = 0 THEN {<< >>}
                       ELSE UNION {{PortBindings(r, spec.lbs[i], ports) :
                              ports \in findAvailablePorts(spec, shown, spec.lbs[i], n)} :
                              i \in chosen}
  <2>1. \/ \E bs \in drafts : draft' = [draft EXCEPT ![w] = NewAllocation(r, bs)]
        \/ pc' = [pc EXCEPT ![w] = "unlock"]
    BY DEF ListAndSelect, Step
  <2>2. shown = list /\ chosen = selected
    BY DEF View, SelectLoadBalancer
  <2>3. drafts = candidates
    <3> HIDE DEF shown, chosen, list, selected, spec, r, n
    <3> QED BY <2>2
  <2> HIDE DEF candidates, drafts, r
  <2> QED BY <1>0, <2>1, <2>3
<1>4. draft'[w].bindings = bs
  BY <1>0, <1>3 DEF NewAllocation
<1>5. n # 0
  BY <1>4
<1>6. PICK i \in selectLeastUsed(spec, list, n) : \E ports : bs = PortBindings(r, spec.lbs[i], ports)
  BY <1>5
<1>7. Len(bs) = n /\ bs[1].lb = spec.lbs[i]
  <2>1. PICK ports : bs = PortBindings(r, spec.lbs[i], ports)
    BY <1>6
  <2>2. bs = [m \in 1 .. n |-> [podPort |-> r.ports[m], lb |-> spec.lbs[i], lbPort |-> ports[m]]]
    BY <2>1 DEF PortBindings
  <2> HIDE DEF n, r, spec
  <2>3. bs[1].lb = spec.lbs[i]
    BY <1>2, <1>5, <2>2
  <2>4. Len(bs) = n
    BY <1>2, <2>2
  <2> QED BY <2>3, <2>4
<1>8. \A lb : getLBPortUsage(list, lb) \in Nat
  BY <1>0, UsageType
<1> HIDE DEF n, list, spec, candidates, selected
<1>9. ASSUME NEW j \in DOMAIN spec.lbs, hasAvailablePorts(spec, list, spec.lbs[j], n)
      PROVE  getLBPortUsage(list, spec.lbs[i]) <= getLBPortUsage(list, spec.lbs[j])
  BY <1>6, <1>8, <1>9, LeastSelected
<1> QED BY <1>1, <1>4, <1>7, <1>9 DEF LeastUsed, list

(* The pool a worker fetched is still the pool when it selects.            *)
LEMMA SeenCurrentNext ==
  ASSUME ~CachedReads, LeastInv, [Next]_vars, Undisturbed
  PROVE  SeenCurrent'
<1> SUFFICES ASSUME NEW v \in Workers, pc'[v] = "list" PROVE seen'[v] = pools'[req'[v].pool]
  BY DEF SeenCurrent
<1>0. /\ TypeOK /\ SeenCurrent /\ pools' = pools
      /\ pc \in [Workers -> PcValues] /\ seen \in [Workers -> PoolSpec \cup {None}]
  BY DEF LeastInv, TypeOK, CallsOK, Undisturbed
<1>1. CASE FetchPool(v)
  BY <1>0, <1>1 DEF FetchPool, Step, PoolView
<1>2. CASE ~FetchPool(v)
  BY <1>0, <1>2, SeenKept DEF SeenCurrent
<1> QED BY <1>1, <1>2

(* A choice that was right stays right while its worker holds the mutex.   *)
LEMMA DraftLeastNext ==
  ASSUME ~CachedReads, OneProcess, Strategy = "least-used", LeastInv, [Next]_vars, Undisturbed
  PROVE  DraftLeast'
<1> SUFFICES ASSUME NEW v \in Workers, pc'[v] \in {"exists", "create"}, draft'[v].bindings # << >>
             PROVE  LeastUsed(draft[v].pool, draft[v].bindings)'
  BY DEF DraftLeast
<1>0. TypeOK /\ DraftPool /\ DraftLeast /\ pools' = pools
  BY DEF LeastInv, Undisturbed
<1>1. draft'[v].pool = req'[v].pool
  <2>1. DraftPool'
    BY <1>0, DraftPoolNext
  <2> QED BY <2>1 DEF DraftPool
<1>2. CASE ListAndSelect(v)
  <2>1. allocs' = allocs /\ req' = req
    BY <1>2 DEF ListAndSelect, store
  <2>2. pc'[v] = "exists"
    BY <1>0, <1>2, ListStep DEF TypeOK, CallsOK
  <2>3. LeastUsed(req[v].pool, draft'[v].bindings)
    BY <1>2, <2>2, LeastDrafted
  <2>4. Labelled(allocs, req[v].pool)' = Labelled(allocs, req[v].pool)
    BY <2>1 DEF Labelled
  <2> QED BY <1>0, <1>1, <2>1, <2>3, <2>4 DEF LeastUsed
<1>3. CASE ~ListAndSelect(v)
  <2>1. pc[v] \in {"exists", "create"} /\ draft'[v] = draft[v] /\ req'[v] = req[v]
    BY <1>0, <1>3, DraftKept
  <2>2. LeastUsed(draft[v].pool, draft[v].bindings) /\ draft[v].pool = req[v].pool
    BY <1>0, <2>1 DEF DraftLeast, DraftPool
  <2>3. Labelled(allocs, req[v].pool)' = Labelled(allocs, req[v].pool)
    BY <2>1, ListKept
  <2> QED BY <1>0, <2>1, <2>2, <2>3 DEF LeastUsed
<1> QED BY <1>2, <1>3

(* A Create stores a draft, and only a Create adds an object.              *)
LEMMA GrantStep ==
  ASSUME LeastInv, [Next]_vars, NEW k \in Keys,
         allocs[k] = None, allocs'[k] # None, allocs'[k].bindings # << >>
  PROVE  LeastUsed(allocs'[k].pool, allocs'[k].bindings)
<1>0. TypeOK /\ DraftLeast /\ allocs \in [Keys -> PortAllocation \cup {None}]
  BY DEF LeastInv, TypeOK, StoreOK
<1>1. PICK w \in Workers : CreateSucceeds(w)
  <2>1. ~NothingNew
    BY DEF NothingNew
  <2> QED BY <1>0, <2>1, OnlyCreateAdds
<1>2. k = CreateKey(req[w]) /\ allocs'[k] = draft[w] /\ pc[w] = "create"
  BY <1>0, <1>1, Created
<1> QED BY <1>0, <1>2 DEF DraftLeast

(* With the "least-used" strategy, direct reads, one manager and no two    *)
(* pools that share an object name, every allocation is created on a load  *)
(* balancer that at that very moment has the fewest bindings of those with *)
(* room.  Other callers allocate and release at the same time, creates     *)
(* fail and are retried, the manager crashes; the mutex keeps the usage    *)
(* that AllocatePort counted valid from its List to its Create as long as  *)
(* nobody edits the pools or deletes allocations behind its back.          *)
THEOREM LeastUsedGranted ==
  ~CachedReads /\ OneProcess /\ NoAlias /\ Strategy = "least-used"
    => (Spec /\ [][Undisturbed]_vars => GrantToLeastUsed)
<1> SUFFICES ASSUME ~CachedReads, OneProcess, NoAlias, Strategy = "least-used"
             PROVE  Spec /\ [][Undisturbed]_vars => GrantToLeastUsed
  OBVIOUS
<1> DEFINE Granted == \A k \in Keys :
             (allocs[k] = None /\ allocs'[k] # None /\ allocs'[k].bindings # << >>)
               => LeastUsed(allocs'[k].pool, allocs'[k].bindings)
<1>1. Init => LeastInv
  <2> SUFFICES ASSUME Init PROVE LeastInv
    OBVIOUS
  <2>1. TypeOK /\ MutexInv
    BY TypeInit, MutexInit
  <2>2. VerifiedInv /\ DraftPool /\ SeenCurrent /\ DraftLeast
    BY DEF Init, VerifiedInv, DraftPool, SeenCurrent, DraftLeast
  <2>3. Stored = {}
    BY DEF Init, Stored
  <2> QED BY <2>1, <2>2, <2>3, FS_EmptySet DEF LeastInv
<1>2. LeastInv /\ [Next]_vars /\ [Undisturbed]_vars => LeastInv'
  <2>1. ASSUME LeastInv, [Next]_vars, Undisturbed PROVE LeastInv'
    BY <2>1, TypeNext, MutexNext, VerifiedNext, DraftPoolNext, StoredNext, SeenCurrentNext,
       DraftLeastNext DEF LeastInv
  <2>2. ASSUME LeastInv, UNCHANGED vars PROVE LeastInv'
    <3>1. UNCHANGED <<allocs, pools, pc, req, seen, draft>>
      BY <2>2 DEF vars, store, poolVars, callVars
    <3>2. TypeOK' /\ MutexInv' /\ VerifiedInv' /\ DraftPool' /\ IsFiniteSet(Stored')
      BY <2>2, TypeNext, MutexNext, VerifiedNext, DraftPoolNext, StoredNext DEF LeastInv
    <3>3. SeenCurrent'
      BY <2>2, <3>1 DEF LeastInv, SeenCurrent
    <3>4. DraftLeast'
      BY <2>2, <3>1 DEF LeastInv, DraftLeast, LeastUsed, Labelled
    <3> QED BY <3>2, <3>3, <3>4 DEF LeastInv
  <2> QED BY <2>1, <2>2
<1>3. LeastInv /\ [Next]_vars => [Granted]_vars
  BY GrantStep
<1> HIDE DEF Granted
<1>4. Spec /\ [][Undisturbed]_vars => [][Granted]_vars
  BY <1>1, <1>2, <1>3, PTL DEF Spec
<1> QED BY <1>4 DEF GrantToLeastUsed, Granted, LeastUsed
=============================================================================
