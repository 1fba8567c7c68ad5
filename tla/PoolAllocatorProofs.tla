------------------------ MODULE PoolAllocatorProofs ------------------------
(***************************************************************************)
(* Proofs about PoolAllocator, for any number of workers, pools, load      *)
(* balancers, requests, failures and environment steps.                    *)
(***************************************************************************)
EXTENDS PoolAllocator, PortSelectionProofs

(* What tryAllocatePort drafts: bindings on one load balancer of the       *)
(* fetched pool, on distinct ports it admits, none of them bound by the    *)
(* allocations that were listed.                                           *)
LEMMA NewBindings ==
  ASSUME NEW r \in Requests, NEW spec \in PoolSpec, NEW list,
         NEW x \in DOMAIN spec.lbs,
         NEW ports \in findAvailablePorts(spec, list, spec.lbs[x], Len(r.ports))
  PROVE  /\ PortBindings(r, spec.lbs[x], ports) \in Seq(Binding)
         /\ Distinct(PortBindings(r, spec.lbs[x], ports))
         /\ AdmittedBy(spec, PortBindings(r, spec.lbs[x], ports))
         /\ \A k \in DOMAIN list :
              Disjoint(list[k].bindings, PortBindings(r, spec.lbs[x], ports))
<1> DEFINE n  == Len(r.ports)
           lb == spec.lbs[x]
           bs == PortBindings(r, lb, ports)
           free == freePorts(spec, list, lb)
<1>1. r.ports \in Seq(PodPort) /\ n \in Nat
  BY RequestsAssumption
<1>2. /\ ports \in [1 .. n -> free]
      /\ \A i, j \in 1 .. n : ports[i] = ports[j] => i = j
  <2>1. spec.min \in Int /\ spec.max \in Int
    BY DEF PoolSpec
  <2> QED BY <1>1, <2>1, FoundPorts
<1>3. lb \in LBs
  BY DEF PoolSpec
<1>4. free \subseteq (spec.min .. spec.max) \ ExcludedPorts(spec)
  BY DEF freePorts
<1>5. /\ spec.min \in Int /\ spec.max \in Int
      /\ free \subseteq Int
  BY <1>4 DEF PoolSpec
<1>6. /\ DOMAIN bs = 1 .. n
      /\ \A i \in 1 .. n : bs[i] = [podPort |-> r.ports[i], lb |-> lb, lbPort |-> ports[i]]
      /\ \A i \in 1 .. n : bs[i].lb = lb /\ bs[i].lbPort = ports[i]
  BY DEF PortBindings
<1>7. \A i \in 1 .. n : r.ports[i] \in PodPort
  BY <1>1
<1> HIDE DEF bs, lb, free, n
<1>8. bs \in Seq(Binding)
  <2>1. ASSUME NEW i \in 1 .. n PROVE bs[i] \in Binding
    <3>1. ports[i] \in Int
      BY <1>2, <1>5
    <3>2. bs[i] = [podPort |-> r.ports[i], lb |-> lb, lbPort |-> ports[i]]
      BY <1>6
    <3> QED BY <1>7, <1>3, <3>1, <3>2 DEF Binding
  <2>2. bs = [i \in 1 .. n |-> bs[i]]
    BY <1>6 DEF bs, PortBindings
  <2> QED BY <1>1, <2>1, <2>2
<1>9. Distinct(bs)
  BY <1>2, <1>6 DEF Distinct, SameSlot
<1>10. AdmittedBy(spec, bs)
  BY <1>2, <1>4, <1>6 DEF AdmittedBy, lb
<1>11. ASSUME NEW k \in DOMAIN list, NEW i \in DOMAIN list[k].bindings,
              NEW j \in DOMAIN bs, SameSlot(list[k].bindings[i], bs[j])
       PROVE  FALSE
  <2>1. list[k].bindings[i].lb = lb /\ list[k].bindings[i].lbPort = ports[j]
    BY <1>6, <1>11 DEF SameSlot
  <2>2. ports[j] \in free
    BY <1>2, <1>6
  <2> QED BY <2>1, <2>2, BoundNotFree DEF free
<1> QED BY <1>8, <1>9, <1>10, <1>11 DEF Disjoint, bs, lb

(* A call in progress: the parts of TypeOK that depend on the step.        *)
LEMMA InCall ==
  ASSUME TypeOK, NEW w \in Workers
  PROVE  /\ pc[w] # "idle" => req[w] \in Requests
         /\ pc[w] = "list" => seen[w] \in PoolSpec
         /\ pc[w] \in {"exists", "create"} => draft[w] \in PortAllocation
<1>1. InCallOK(w)
  BY DEF TypeOK, CallsOK
<1> QED BY <1>1 DEF InCallOK

(* What a step of ListAndSelect can do.                                    *)
LEMMA ListStep ==
  ASSUME TypeOK, NEW w \in Workers, ListAndSelect(w)
  PROVE  /\ rrIndex' \in [Processes -> [Pools -> Int]]
         /\ \/ \E bs \in Seq(Binding) :
                 /\ pc' = [pc EXCEPT ![w] = "exists"]
                 /\ draft' = [draft EXCEPT ![w] = NewAllocation(req[w], bs)]
                 /\ Distinct(bs)
                 /\ bs # << >> => AdmittedBy(seen[w], bs)
                 /\ \A k \in Keys : (View(w)[k] # None /\ View(w)[k].pool = req[w].pool)
                                      => Disjoint(View(w)[k].bindings, bs)
            \/ pc' = [pc EXCEPT ![w] = "unlock"] /\ draft' = draft
<1> DEFINE r    == req[w]
           spec == seen[w]
           n    == Len(r.ports)
           list == Labelled(View(w), r.pool)
           selected == IF n = 0 THEN {}
                       ELSE SelectLoadBalancer(Strategy, spec, list, n, rrIndex[Process[w]][r.pool])
           candidates == IF n = 0 THEN {<< >>}
                         ELSE UNION {{PortBindings(r, spec.lbs[i], ports) :
                                ports \in findAvailablePorts(spec, list, spec.lbs[i], n)} :
                                i \in selected}
<1>1. /\ pc[w] = "list"
      /\ rrIndex' = [rrIndex EXCEPT ![Process[w]][r.pool] = nextIndex(Strategy, spec, selected, @)]
      /\ \/ \E bindings \in candidates :
              /\ Step(w, "list", "exists")
              /\ draft' = [draft EXCEPT ![w] = NewAllocation(r, bindings)]
         \/ /\ candidates = {}
            /\ Step(w, "list", "unlock")
            /\ UNCHANGED draft
  BY DEF ListAndSelect
<1>2. r \in Requests /\ spec \in PoolSpec
  <2>1. pc[w] = "list"
    BY <1>1
  <2> QED BY <2>1, InCall
<1>3. r.pool \in Pools /\ rrIndex[Process[w]][r.pool] \in Int
  BY <1>2, RequestsAssumption DEF TypeOK, PoolsOK, Processes
<1>4. selected \subseteq DOMAIN spec.lbs
  <2>1. SelectLoadBalancer(Strategy, spec, list, n, rrIndex[Process[w]][r.pool]) \subseteq DOMAIN spec.lbs
    <3>1. spec.lbs \in Seq(LBs)
      BY <1>2 DEF PoolSpec
    <3> HIDE DEF spec, list, n
    <3> QED BY <1>3, <3>1, SelectInDomain
  <2> QED BY <2>1
<1>5. rrIndex' \in [Processes -> [Pools -> Int]]
  <2>1. nextIndex(Strategy, spec, selected, rrIndex[Process[w]][r.pool]) \in Int
    <3>1. spec.lbs \in Seq(LBs)
      BY <1>2 DEF PoolSpec
    <3> DEFINE next == nextIndex(Strategy, spec, selected, rrIndex[Process[w]][r.pool])
    <3> HIDE DEF selected, spec
    <3>2. next = rrIndex[Process[w]][r.pool] \/ next \in 0 .. Len(spec.lbs) - 1
      BY <1>3, <1>4, <3>1, NextIndexType
    <3> HIDE DEF next
    <3>3. next \in Int
      BY <1>3, <3>1, <3>2
    <3> QED BY <3>3 DEF next
  <2> HIDE DEF r, spec, selected
  <2> QED BY <1>1, <1>3, <2>1 DEF TypeOK, PoolsOK
<1>6. ASSUME NEW bs \in candidates
      PROVE  /\ bs \in Seq(Binding)
             /\ Distinct(bs)
             /\ bs # << >> => AdmittedBy(spec, bs)
             /\ \A k \in DOMAIN list : Disjoint(list[k].bindings, bs)
  <2>1. CASE n = 0
    <3>1. bs = << >>
      BY <2>1
    <3> QED BY <3>1 DEF Distinct, Disjoint
  <2>2. CASE n # 0
    <3>1. PICK i \in selected : \E ports \in findAvailablePorts(spec, list, spec.lbs[i], n) :
            bs = PortBindings(r, spec.lbs[i], ports)
      BY <2>2
    <3>2. PICK ports \in findAvailablePorts(spec, list, spec.lbs[i], n) :
            bs = PortBindings(r, spec.lbs[i], ports)
      BY <3>1
    <3>3. i \in DOMAIN spec.lbs
      BY <1>4
    <3> HIDE DEF r, spec, list, selected, candidates
    <3> QED BY <1>2, <3>2, <3>3, NewBindings
  <2> QED BY <2>1, <2>2
<1>7. \A k \in Keys : (View(w)[k] # None /\ View(w)[k].pool = r.pool)
                        => k \in DOMAIN list /\ list[k] = View(w)[k]
  BY DEF Labelled
<1> HIDE DEF r, spec, n, list, selected, candidates
<1>8. CASE candidates = {} /\ Step(w, "list", "unlock") /\ UNCHANGED draft
  BY <1>5, <1>8 DEF Step
<1>9. CASE \E bindings \in candidates :
             /\ Step(w, "list", "exists")
             /\ draft' = [draft EXCEPT ![w] = NewAllocation(r, bindings)]
  <2>1. PICK bs \in candidates :
             /\ Step(w, "list", "exists")
             /\ draft' = [draft EXCEPT ![w] = NewAllocation(r, bs)]
    BY <1>9
  <2>2. \A k \in Keys : (View(w)[k] # None /\ View(w)[k].pool = r.pool)
                         => Disjoint(View(w)[k].bindings, bs)
    BY <1>6, <1>7
  <2> QED BY <1>5, <1>6, <2>1, <2>2 DEF Step, r, spec
<1> QED BY <1>1, <1>8, <1>9

-----------------------------------------------------------------------------
(* Type correctness *)

(* The API server's store keeps its type under a write.                    *)
LEMMA WriteType ==
  ASSUME StoreOK, NEW k \in Keys, NEW object \in PortAllocation \cup {None},
         Write(k, object)
  PROVE  StoreOK'
<1>1. allocs' \in [Keys -> PortAllocation \cup {None}]
  BY DEF StoreOK, Write
<1>2. watch' \in [Processes -> Seq(Keys \X (PortAllocation \cup {None}))]
  <2> DEFINE Event == Keys \X (PortAllocation \cup {None})
  <2>1. <<k, object>> \in Event /\ watch \in [Processes -> Seq(Event)]
    BY DEF StoreOK
  <2>2. watch' \in {watch, [i \in Processes |-> Append(watch[i], <<k, object>>)]}
    BY DEF Write
  <2> HIDE DEF Event
  <2>3. [i \in Processes |-> Append(watch[i], <<k, object>>)] \in [Processes -> Seq(Event)]
    BY <2>1
  <2>4. watch' \in [Processes -> Seq(Event)]
    BY <2>1, <2>2, <2>3
  <2> QED BY <2>4 DEF Event
<1> QED BY <1>1, <1>2 DEF StoreOK, Write

(* ... and under a delete, which may only mark the object.                 *)
LEMMA DeleteType ==
  ASSUME StoreOK, NEW k \in Keys, Delete(k)
  PROVE  StoreOK'
<1>1. CASE allocs[k] = None \/ allocs[k].deleting
  BY <1>1 DEF Delete, StoreOK, store
<1>2. CASE ~(allocs[k] = None \/ allocs[k].deleting)
  <2> DEFINE marked == [allocs[k] EXCEPT !.deleting = TRUE]
  <2>1. allocs[k] \in PortAllocation
    BY <1>2 DEF StoreOK
  <2>2. marked \in PortAllocation
    BY <2>1 DEF PortAllocation
  <2>3. PICK object \in {marked, None} : Write(k, object)
    BY <1>2 DEF Delete
  <2> QED BY <2>2, <2>3, WriteType
<1> QED BY <1>1, <1>2

(* A step of a call that changes nothing but its program counter.          *)
LEMMA PcType ==
  ASSUME CallsOK, NEW w \in Workers, NEW to \in PcValues \ {"list"},
         pc[w] # "idle",
         pc' = [pc EXCEPT ![w] = to],
         to \in {"exists", "create"} => pc[w] \in {"exists", "create"},
         UNCHANGED <<mutex, callVars>>
  PROVE  CallsOK'
<1>1. pc' \in [Workers -> PcValues]
  BY DEF CallsOK
<1>2. ASSUME NEW v \in Workers PROVE InCallOK(v)'
  <2>1. InCallOK(v) /\ pc \in [Workers -> PcValues]
    BY DEF CallsOK
  <2>2. CASE v = w
    BY <2>1, <2>2 DEF InCallOK, callVars
  <2>3. CASE v # w
    BY <2>1, <2>3 DEF InCallOK, callVars
  <2> QED BY <2>2, <2>3
<1> QED BY <1>1, <1>2 DEF CallsOK, callVars

(* Every request has its object keys and its mutex.                        *)
LEMMA KeyTypes ==
  ASSUME NEW r \in Requests
  PROVE  /\ CreateKey(r) \in Keys /\ ReleaseKey(r) \in Keys
         /\ MutexKey(r) \in MutexKeys
         /\ r.pool \in Pools
BY RequestsAssumption DEF Keys, MutexKeys

(* The initial states are well typed.                                      *)
LEMMA TypeInit == Init => TypeOK
<1> SUFFICES ASSUME Init PROVE TypeOK
  OBVIOUS
<1>1. StoreOK
  BY DEF Init, StoreOK
<1>2. PoolsOK
  <2>1. ASSUME NEW p \in Pools PROVE pools[p] \in PoolSpec
    BY PoolSpecsAssumption DEF Init
  <2>2. pools \in [Pools -> PoolSpec \cup {None}]
    BY <2>1 DEF Init
  <2> QED BY <2>2 DEF Init, PoolsOK
<1>3. CallsOK
  <2>1. \A w \in Workers : InCallOK(w)
    BY DEF Init, InCallOK
  <2> QED BY <2>1 DEF Init, CallsOK, PcValues
<1>4. CountersOK
  BY BoundsAssumption DEF Init, CountersOK
<1> QED BY <1>1, <1>2, <1>3, <1>4 DEF TypeOK

(* Every step of the callers and of the environment keeps all types.       *)
LEMMA TypeNext == TypeOK /\ [Next]_vars => TypeOK'
<1> SUFFICES ASSUME TypeOK, [Next]_vars PROVE TypeOK'
  OBVIOUS
<1>0. StoreOK /\ PoolsOK /\ CallsOK /\ CountersOK
  BY DEF TypeOK
<1>1. ASSUME NEW w \in Workers, NEW r \in Requests, CallAllocate(w, r) \/ CallRelease(w, r)
      PROVE  TypeOK'
  <2>1. StoreOK' /\ PoolsOK' /\ CountersOK'
    BY <1>0, <1>1 DEF CallAllocate, CallRelease, StoreOK, PoolsOK, CountersOK, store, poolVars
  <2>2. /\ pc' \in [Workers -> PcValues]
        /\ req' \in [Workers -> Requests \cup {None}]
    BY <1>0, <1>1 DEF CallAllocate, CallRelease, CallsOK, Step, PcValues
  <2>3. ASSUME NEW v \in Workers PROVE InCallOK(v)'
    <3>1. InCallOK(v)
      BY <1>0 DEF CallsOK
    <3> QED BY <1>0, <1>1, <3>1 DEF CallAllocate, CallRelease, CallsOK, InCallOK, Step
  <2>4. CallsOK'
    BY <1>0, <1>1, <2>2, <2>3 DEF CallAllocate, CallRelease, CallsOK
  <2> QED BY <2>1, <2>4 DEF TypeOK
<1>2. ASSUME NEW w \in Workers, Lock(w) PROVE TypeOK'
  <2>1. StoreOK' /\ PoolsOK' /\ CountersOK'
    BY <1>0, <1>2 DEF Lock, StoreOK, PoolsOK, CountersOK, store, poolVars
  <2>2. pc[w] # "idle"
    BY <1>2 DEF Lock, Step
  <2>3. PoolMutex(w) \in Processes \X MutexKeys
    BY <2>2, InCall, KeyTypes DEF PoolMutex, Processes
  <2>4. mutex' \in [Processes \X MutexKeys -> Workers \cup {None}]
    BY <1>0, <1>2, <2>3 DEF Lock, Acquire, CallsOK
  <2>5. pc' \in [Workers -> PcValues] /\ tries' \in [Workers -> Int]
    BY <1>0, <1>2 DEF Lock, Step, CallsOK, PcValues
  <2>6. ASSUME NEW v \in Workers PROVE InCallOK(v)'
    <3>1. InCallOK(v)
      BY <1>0 DEF CallsOK
    <3> QED BY <1>0, <1>2, <3>1 DEF Lock, CallsOK, InCallOK, Step
  <2>7. CallsOK'
    BY <1>0, <1>2, <2>4, <2>5, <2>6 DEF Lock, CallsOK
  <2> QED BY <2>1, <2>7 DEF TypeOK
<1>3. ASSUME NEW w \in Workers, Unlock(w) PROVE TypeOK'
  <2>1. StoreOK' /\ PoolsOK' /\ CountersOK'
    BY <1>0, <1>3 DEF Unlock, StoreOK, PoolsOK, CountersOK, store, poolVars
  <2>2. pc[w] # "idle"
    BY <1>3 DEF Unlock, Step
  <2>3. PoolMutex(w) \in Processes \X MutexKeys
    BY <2>2, InCall, KeyTypes DEF PoolMutex, Processes
  <2>4. mutex' \in [Processes \X MutexKeys -> Workers \cup {None}]
    BY <1>0, <1>3, <2>3 DEF Unlock, CallsOK
  <2>5. /\ pc' \in [Workers -> PcValues] /\ tries' \in [Workers -> Int]
        /\ req' \in [Workers -> Requests \cup {None}]
        /\ seen' \in [Workers -> PoolSpec \cup {None}]
        /\ draft' \in [Workers -> PortAllocation \cup {None}]
    BY <1>0, <1>3 DEF Unlock, Step, CallsOK, PcValues
  <2>6. ASSUME NEW v \in Workers PROVE InCallOK(v)'
    <3>1. InCallOK(v)
      BY <1>0 DEF CallsOK
    <3> QED BY <1>0, <1>3, <3>1 DEF Unlock, CallsOK, InCallOK, Step
  <2>7. CallsOK'
    BY <2>4, <2>5, <2>6 DEF CallsOK
  <2> QED BY <2>1, <2>7 DEF TypeOK
<1>4. ASSUME NEW w \in Workers,
             checkForDuplicateAllocation(w) \/ GetExisting(w) \/ GetForRelease(w) \/ ReadFails(w)
      PROVE  TypeOK'
  <2>1. StoreOK' /\ PoolsOK'
    BY <1>0, <1>4 DEF checkForDuplicateAllocation, GetExisting, GetForRelease, ReadFails,
                      StoreOK, PoolsOK, store, poolVars
  <2>2. CountersOK'
    BY <1>0, <1>4, BoundsAssumption
    DEF checkForDuplicateAllocation, GetExisting, GetForRelease, ReadFails, CountersOK, Fault
  <2>3. /\ pc[w] \in {"dup", "fetch", "list", "exists", "get"}
        /\ \/ pc' = [pc EXCEPT ![w] = "unlock"]
           \/ pc' = [pc EXCEPT ![w] = "fetch"]
           \/ pc' = [pc EXCEPT ![w] = "delete"]
           \/ pc' = [pc EXCEPT ![w] = "create"] /\ pc[w] = "exists"
    BY <1>4 DEF checkForDuplicateAllocation, GetExisting, GetForRelease, ReadFails, Step
  <2>4. UNCHANGED <<mutex, callVars>>
    BY <1>4 DEF checkForDuplicateAllocation, GetExisting, GetForRelease, ReadFails
  <2>5. CallsOK'
    <3>1. CASE pc' = [pc EXCEPT ![w] = "unlock"]
      BY <1>0, <2>3, <2>4, <3>1, PcType DEF PcValues
    <3>2. CASE pc' = [pc EXCEPT ![w] = "fetch"]
      BY <1>0, <2>3, <2>4, <3>2, PcType DEF PcValues
    <3>3. CASE pc' = [pc EXCEPT ![w] = "delete"]
      BY <1>0, <2>3, <2>4, <3>3, PcType DEF PcValues
    <3>4. CASE pc' = [pc EXCEPT ![w] = "create"] /\ pc[w] = "exists"
      BY <1>0, <2>4, <3>4, PcType DEF PcValues
    <3> QED BY <2>3, <3>1, <3>2, <3>3, <3>4
  <2> QED BY <2>1, <2>2, <2>5 DEF TypeOK
<1>5. ASSUME NEW w \in Workers,
             CreateSucceeds(w) \/ CreateFails(w) \/ DeleteAllocation(w)
      PROVE  TypeOK'
  <2>1. /\ pc[w] \in {"create", "delete"}
        /\ pc' = [pc EXCEPT ![w] = "unlock"]
        /\ UNCHANGED <<mutex, callVars>>
    BY <1>5 DEF CreateSucceeds, CreateFails, DeleteAllocation, Step
  <2>2. CallsOK'
    BY <1>0, <2>1, PcType DEF PcValues
  <2>3. req[w] \in Requests
    BY <2>1, InCall
  <2>4. StoreOK'
    <3>1. CASE CreateSucceeds(w)
      <4>1. draft[w] \in PortAllocation
        BY <3>1, InCall DEF CreateSucceeds, Step
      <4> QED BY <1>0, <2>3, <3>1, <4>1, KeyTypes, WriteType DEF CreateSucceeds
    <3>2. CASE CreateFails(w)
      BY <1>0, <3>2 DEF CreateFails, StoreOK, store
    <3>3. CASE DeleteAllocation(w)
      <4>1. CASE Delete(ReleaseKey(req[w]))
        BY <1>0, <2>3, <4>1, KeyTypes, DeleteType
      <4>2. CASE UNCHANGED store
        BY <1>0, <4>2 DEF StoreOK, store
      <4> QED BY <3>3, <4>1, <4>2 DEF DeleteAllocation
    <3> QED BY <1>5, <3>1, <3>2, <3>3
  <2>5. PoolsOK'
    BY <1>0, <1>5 DEF CreateSucceeds, CreateFails, DeleteAllocation, PoolsOK, poolVars
  <2>6. CountersOK'
    BY <1>0, <1>5, BoundsAssumption
    DEF CreateSucceeds, CreateFails, DeleteAllocation, CountersOK, Fault
  <2> QED BY <2>2, <2>4, <2>5, <2>6 DEF TypeOK
<1>6. ASSUME NEW w \in Workers, CreateConflicts(w) PROVE TypeOK'
  <2>1. StoreOK' /\ PoolsOK' /\ CountersOK'
    BY <1>0, <1>6, BoundsAssumption
    DEF CreateConflicts, Fault, StoreOK, PoolsOK, CountersOK, store, poolVars
  <2>2. /\ pc' \in [Workers -> PcValues] /\ tries' \in [Workers -> Int]
        /\ seen' \in [Workers -> PoolSpec \cup {None}]
        /\ draft' \in [Workers -> PortAllocation \cup {None}]
    BY <1>0, <1>6 DEF CreateConflicts, Step, CallsOK, PcValues
  <2>3. ASSUME NEW v \in Workers PROVE InCallOK(v)'
    <3>1. InCallOK(v)
      BY <1>0 DEF CallsOK
    <3> QED BY <1>0, <1>6, <3>1 DEF CreateConflicts, CallsOK, InCallOK, Step
  <2>4. CallsOK'
    BY <1>0, <1>6, <2>2, <2>3 DEF CreateConflicts, CallsOK
  <2> QED BY <2>1, <2>4 DEF TypeOK
<1>7. ASSUME NEW w \in Workers, FetchPool(w) PROVE TypeOK'
  <2>1. StoreOK' /\ PoolsOK' /\ CountersOK'
    BY <1>0, <1>7 DEF FetchPool, StoreOK, PoolsOK, CountersOK, store, poolVars
  <2>2. req[w] \in Requests
    BY <1>7, InCall DEF FetchPool, Step
  <2>3. PoolView(w)[req[w].pool] \in PoolSpec \cup {None}
    BY <1>0, <2>2, KeyTypes DEF PoolView, PoolsOK, Processes
  <2>4. /\ pc' \in [Workers -> PcValues]
        /\ seen' \in [Workers -> PoolSpec \cup {None}]
        /\ pc'[w] = "list" => seen'[w] \in PoolSpec
        /\ pc'[w] \in {"list", "unlock"}
    BY <1>0, <1>7, <2>3 DEF FetchPool, Step, CallsOK, PcValues
  <2>5. ASSUME NEW v \in Workers PROVE InCallOK(v)'
    <3>1. InCallOK(v)
      BY <1>0 DEF CallsOK
    <3>2. CASE v = w
      BY <1>7, <2>2, <2>4, <3>2 DEF FetchPool, InCallOK
    <3>3. CASE v # w
      BY <1>0, <1>7, <3>1, <3>3 DEF FetchPool, CallsOK, InCallOK, Step
    <3> QED BY <3>2, <3>3
  <2>6. CallsOK'
    BY <1>0, <1>7, <2>4, <2>5 DEF FetchPool, CallsOK
  <2> QED BY <2>1, <2>6 DEF TypeOK
<1>8. ASSUME NEW w \in Workers, ListAndSelect(w) PROVE TypeOK'
  <2>1. StoreOK' /\ CountersOK'
    BY <1>0, <1>8 DEF ListAndSelect, StoreOK, CountersOK, store
  <2>2. PoolsOK'
    BY <1>0, <1>8, ListStep DEF ListAndSelect, PoolsOK, poolVars
  <2>3. pc[w] = "list" /\ UNCHANGED <<mutex, req, seen, tries>>
    BY <1>8 DEF ListAndSelect
  <2>4. req[w] \in Requests
    BY <2>3, InCall
  <2>5. CASE pc' = [pc EXCEPT ![w] = "unlock"] /\ draft' = draft
    BY <1>0, <2>1, <2>2, <2>3, <2>5, PcType DEF TypeOK, PcValues, callVars
  <2>6. ASSUME NEW bs \in Seq(Binding),
               pc' = [pc EXCEPT ![w] = "exists"],
               draft' = [draft EXCEPT ![w] = NewAllocation(req[w], bs)]
        PROVE  TypeOK'
    <3>1. NewAllocation(req[w], bs) \in PortAllocation
      BY <2>4, RequestsAssumption DEF NewAllocation, PortAllocation
    <3>2. /\ pc' \in [Workers -> PcValues]
          /\ draft' \in [Workers -> PortAllocation \cup {None}]
          /\ pc'[w] = "exists" /\ draft'[w] \in PortAllocation
      BY <1>0, <2>6, <3>1 DEF CallsOK, PcValues
    <3>3. ASSUME NEW v \in Workers PROVE InCallOK(v)'
      <4>1. InCallOK(v)
        BY <1>0 DEF CallsOK
      <4>2. CASE v = w
        BY <2>3, <2>4, <3>2, <4>2 DEF InCallOK
      <4>3. CASE v # w
        BY <1>0, <2>3, <2>6, <4>1, <4>3 DEF CallsOK, InCallOK
      <4> QED BY <4>2, <4>3
    <3> QED BY <1>0, <2>1, <2>2, <2>3, <3>2, <3>3 DEF TypeOK, CallsOK
  <2> QED BY <1>8, <2>5, <2>6, ListStep
<1>9. ASSUME NEW p \in Pools, NEW s \in PoolSpecs[p] \cup {None}, ChangePool(p, s)
      PROVE  TypeOK'
  <2>1. s \in PoolSpec \cup {None}
    BY PoolSpecsAssumption
  <2>2. PoolsOK'
    BY <1>0, <1>9, <2>1 DEF ChangePool, PoolsOK
  <2>3. StoreOK' /\ CountersOK'
    BY <1>0, <1>9, BoundsAssumption DEF ChangePool, EnvStep, StoreOK, CountersOK, store
  <2>4. CallsOK'
    BY <1>0, <1>9 DEF ChangePool, CallsOK, InCallOK, callVars
  <2> QED BY <2>2, <2>3, <2>4 DEF TypeOK
<1>10. ASSUME NEW k \in Keys, ExternalDelete(k) \/ FinalizerDone(k) PROVE TypeOK'
  <2>1. StoreOK'
    BY <1>0, <1>10, DeleteType, WriteType DEF ExternalDelete, FinalizerDone
  <2>2. PoolsOK' /\ CountersOK'
    BY <1>0, <1>10, BoundsAssumption
    DEF ExternalDelete, FinalizerDone, EnvStep, PoolsOK, CountersOK, poolVars
  <2>3. CallsOK'
    BY <1>0, <1>10 DEF ExternalDelete, FinalizerDone, CallsOK, InCallOK, callVars
  <2> QED BY <2>1, <2>2, <2>3 DEF TypeOK
<1>11. ASSUME NEW i \in Processes, DeliverWatch(i) PROVE TypeOK'
  <2> DEFINE Event == Keys \X (PortAllocation \cup {None})
             Next1 == [cache[i] EXCEPT ![watch[i][1][1]] = watch[i][1][2]]
  <2>1. watch \in [Processes -> Seq(Event)] /\ watch[i] \in Seq(Event) /\ watch[i] # << >>
    BY <1>0, <1>11 DEF DeliverWatch, StoreOK
  <2>2. watch[i][1] \in Event /\ Tail(watch[i]) \in Seq(Event)
    <3> HIDE DEF Event
    <3> QED BY <2>1
  <2>3. watch[i][1][1] \in Keys /\ watch[i][1][2] \in PortAllocation \cup {None}
    BY <2>2
  <2>4. Next1 \in [Keys -> PortAllocation \cup {None}]
    BY <1>0, <2>3 DEF StoreOK
  <2>5. StoreOK'
    <3>1. cache' = [cache EXCEPT ![i] = Next1] /\ watch' = [watch EXCEPT ![i] = Tail(@)]
      BY <1>11 DEF DeliverWatch
    <3> HIDE DEF Next1
    <3>2. cache' \in [Processes -> [Keys -> PortAllocation \cup {None}]]
      BY <1>0, <2>4, <3>1 DEF StoreOK
    <3>3. watch' \in [Processes -> Seq(Event)]
      <4> HIDE DEF Event
      <4> QED BY <2>1, <2>2, <3>1
    <3> QED BY <1>0, <1>11, <3>2, <3>3 DEF DeliverWatch, StoreOK
  <2>6. PoolsOK' /\ CountersOK'
    BY <1>0, <1>11 DEF DeliverWatch, PoolsOK, CountersOK, poolVars
  <2>7. CallsOK'
    BY <1>0, <1>11 DEF DeliverWatch, CallsOK, InCallOK, callVars
  <2> QED BY <2>5, <2>6, <2>7 DEF TypeOK
<1>12. ASSUME NEW i \in Processes, NEW p \in Pools, DeliverPool(i, p) PROVE TypeOK'
  <2>1. PoolsOK'
    BY <1>0, <1>12 DEF DeliverPool, PoolsOK
  <2>2. StoreOK' /\ CountersOK'
    BY <1>0, <1>12 DEF DeliverPool, StoreOK, CountersOK, store
  <2>3. CallsOK'
    BY <1>0, <1>12 DEF DeliverPool, CallsOK, InCallOK, callVars
  <2> QED BY <2>1, <2>2, <2>3 DEF TypeOK
<1>13. ASSUME NEW i \in Processes, Crash(i) PROVE TypeOK'
  <2>1. StoreOK'
    BY <1>0, <1>13 DEF Crash, StoreOK
  <2>2. PoolsOK'
    BY <1>0, <1>13 DEF Crash, PoolsOK
  <2>3. CountersOK'
    BY <1>0, <1>13, BoundsAssumption DEF Crash, EnvStep, CountersOK
  <2>4. ASSUME NEW w \in Workers PROVE InCallOK(w)'
    <3>1. InCallOK(w)
      BY <1>0 DEF CallsOK
    <3> QED BY <1>13, <3>1 DEF Crash, Reset, InCallOK
  <2>5. /\ pc' \in [Workers -> PcValues]
        /\ req' \in [Workers -> Requests \cup {None}]
        /\ seen' \in [Workers -> PoolSpec \cup {None}]
        /\ draft' \in [Workers -> PortAllocation \cup {None}]
        /\ tries' \in [Workers -> Int]
    BY <1>0, <1>13 DEF Crash, Reset, CallsOK, PcValues
  <2>6. mutex' \in [Processes \X MutexKeys -> Workers \cup {None}]
    BY <1>0, <1>13 DEF Crash, CallsOK
  <2>7. CallsOK'
    BY <2>4, <2>5, <2>6 DEF CallsOK
  <2> QED BY <2>1, <2>2, <2>3, <2>7 DEF TypeOK
<1>14. ASSUME UNCHANGED vars PROVE TypeOK'
  <2>1. StoreOK' /\ PoolsOK' /\ CountersOK'
    BY <1>0, <1>14 DEF vars, store, poolVars, StoreOK, PoolsOK, CountersOK
  <2>2. CallsOK'
    BY <1>0, <1>14 DEF vars, callVars, CallsOK, InCallOK
  <2> QED BY <2>1, <2>2 DEF TypeOK
<1> QED
  BY <1>1, <1>2, <1>3, <1>4, <1>5, <1>6, <1>7, <1>8, <1>9, <1>10, <1>11, <1>12, <1>13, <1>14
  DEF Next, Call, Work, Environment

(* In every reachable state all variables have their types: calls never    *)
(* run without arguments, select without a fetched pool or create without  *)
(* a drafted object.                                                       *)
THEOREM TypeCorrect == Spec => []TypeOK
BY TypeInit, TypeNext, PTL DEF Spec

-----------------------------------------------------------------------------
(* Mutual exclusion *)

(* A pool mutex has one holder: two workers of a process never work on the *)
(* same pool.                                                              *)
LEMMA OnePerProcess ==
  ASSUME TypeOK, MutexInv, NEW v \in Workers, NEW w \in Workers, Process[v] = Process[w],
         pc[v] \in Holding, pc[w] \in Holding, req[v].pool = req[w].pool
  PROVE  v = w
<1>1. req[v] \in Requests /\ req[w] \in Requests
  BY InCall DEF Holding
<1>2. MutexKey(req[v]) = MutexKey(req[w])
  BY <1>1, CallerNamespace DEF MutexKey
<1>3. PoolMutex(v) = PoolMutex(w)
  BY <1>2 DEF PoolMutex
<1> QED BY <1>3 DEF MutexInv

(* ... and with a single manager no two workers at all.                    *)
LEMMA OnePerPool ==
  ASSUME OneProcess, TypeOK, MutexInv, NEW v \in Workers, NEW w \in Workers,
         pc[v] \in Holding, pc[w] \in Holding, req[v].pool = req[w].pool
  PROVE  v = w
BY OnePerProcess DEF OneProcess

(* No worker is inside a call at first.                                    *)
LEMMA MutexInit == Init => MutexInv
BY DEF Init, MutexInv, Holding

(* Lock, Unlock and Crash are the only steps that touch a mutex, and the   *)
(* steps in between leave it with its holder.                              *)
LEMMA MutexNext == TypeOK /\ MutexInv /\ [Next]_vars => MutexInv'
<1> SUFFICES ASSUME TypeOK, MutexInv, [Next]_vars,
                    NEW v \in Workers, pc'[v] \in Holding
             PROVE  mutex'[PoolMutex(v)'] = v
  BY DEF MutexInv
<1>0. /\ pc \in [Workers -> PcValues] /\ req \in [Workers -> Requests \cup {None}]
      /\ mutex \in [Processes \X MutexKeys -> Workers \cup {None}]
  BY DEF TypeOK, CallsOK
<1>i. pc[v] \in Holding => mutex[PoolMutex(v)] = v
  BY DEF MutexInv
<1>k. req'[v] = req[v] => PoolMutex(v)' = PoolMutex(v)
  BY DEF PoolMutex, MutexKey
<1>1. ASSUME NEW w \in Workers, Call(w) PROVE mutex'[PoolMutex(v)'] = v
  BY <1>0, <1>i, <1>k, <1>1 DEF Call, CallAllocate, CallRelease, Step, Holding
<1>2. ASSUME NEW w \in Workers, Lock(w) PROVE mutex'[PoolMutex(v)'] = v
  <2>1. PoolMutex(w) \in Processes \X MutexKeys
    BY <1>2, InCall, KeyTypes DEF Lock, Step, PoolMutex, Processes
  <2>2. CASE v = w
    BY <1>0, <1>2, <1>k, <2>1, <2>2 DEF Lock, Acquire
  <2>3. CASE v # w
    <3>1. pc[v] \in Holding
      BY <1>0, <1>2, <2>3 DEF Lock, Step
    <3>2. PoolMutex(v) # PoolMutex(w)
      BY <1>2, <1>i, <3>1, NoneAssumption DEF Lock, Acquire
    <3> QED BY <1>0, <1>2, <1>i, <1>k, <3>1, <3>2 DEF Lock, Acquire
  <2> QED BY <2>2, <2>3
<1>3. ASSUME NEW w \in Workers, Unlock(w) PROVE mutex'[PoolMutex(v)'] = v
  <2>1. v # w /\ pc[v] \in Holding
    BY <1>0, <1>3 DEF Unlock, Step, Holding
  <2>2. mutex[PoolMutex(w)] = w
    BY <1>3 DEF Unlock, Step, MutexInv, Holding
  <2>3. PoolMutex(v) # PoolMutex(w)
    BY <1>i, <2>1, <2>2
  <2> QED BY <1>0, <1>3, <1>i, <1>k, <2>1, <2>3 DEF Unlock
<1>4. ASSUME NEW w \in Workers, Work(w), ~Unlock(w) PROVE mutex'[PoolMutex(v)'] = v
  <2>1. UNCHANGED <<mutex, req>>
    BY <1>4 DEF Work, checkForDuplicateAllocation, FetchPool, ListAndSelect, GetExisting,
                CreateSucceeds, CreateFails, CreateConflicts, ReadFails, GetForRelease,
                DeleteAllocation, callVars
  <2>2. pc[w] \in Holding /\ \E to \in PcValues : pc' = [pc EXCEPT ![w] = to]
    BY <1>4 DEF Work, checkForDuplicateAllocation, FetchPool, ListAndSelect, GetExisting,
                CreateSucceeds, CreateFails, CreateConflicts, ReadFails, GetForRelease,
                DeleteAllocation, Step, Holding, PcValues
  <2>3. pc[v] \in Holding
    BY <1>0, <2>2
  <2> QED BY <1>i, <1>k, <2>1, <2>3
<1>5. ASSUME Environment PROVE mutex'[PoolMutex(v)'] = v
  <2>1. ASSUME NEW i \in Processes, Crash(i) PROVE mutex'[PoolMutex(v)'] = v
    <3>1. Process[v] # i /\ pc[v] \in Holding /\ req'[v] = req[v]
      BY <2>1 DEF Crash, Reset, Holding
    <3>2. PoolMutex(v) \in Processes \X MutexKeys /\ PoolMutex(v)' = PoolMutex(v)
      BY <1>k, <3>1, InCall, KeyTypes DEF PoolMutex, Processes, Holding
    <3>3. PoolMutex(v)[1] # i
      BY <3>1 DEF PoolMutex
    <3> QED BY <1>i, <2>1, <3>1, <3>2, <3>3 DEF Crash
  <2>2. CASE ~\E i \in Processes : Crash(i)
    <3>1. UNCHANGED <<mutex, pc, req>>
      BY <1>5, <2>2 DEF Environment, ChangePool, DeliverPool, ExternalDelete, FinalizerDone,
                        DeliverWatch, callVars
    <3> QED BY <1>i, <1>k, <3>1
  <2> QED BY <2>1, <2>2
<1>6. CASE UNCHANGED vars
  BY <1>i, <1>k, <1>6 DEF vars, callVars
<1> QED BY <1>1, <1>2, <1>3, <1>4, <1>5, <1>6 DEF Next

-----------------------------------------------------------------------------
(* No port of a pool is bound twice *)

(* A step that only takes objects away or marks them.                      *)
NothingNew ==
  \A k \in Keys : allocs'[k] # None =>
    /\ allocs[k] # None
    /\ allocs'[k].pool = allocs[k].pool
    /\ allocs'[k].podName = allocs[k].podName
    /\ allocs'[k].podNs = allocs[k].podNs
    /\ allocs'[k].bindings = allocs[k].bindings

(* A delete adds no object and changes no binding.                         *)
LEMMA DeleteNothingNew ==
  ASSUME StoreOK, NEW k \in Keys, Delete(k) \/ Write(k, None)
  PROVE  NothingNew
<1>1. CASE allocs' = allocs
  BY <1>1 DEF NothingNew
<1>2. CASE allocs' = [allocs EXCEPT ![k] = None]
  BY <1>2 DEF NothingNew, StoreOK
<1>3. CASE allocs[k] # None /\ allocs' = [allocs EXCEPT ![k] = [allocs[k] EXCEPT !.deleting = TRUE]]
  <2> DEFINE marked == [allocs[k] EXCEPT !.deleting = TRUE]
  <2>1. allocs[k] \in PortAllocation
    BY <1>3 DEF StoreOK
  <2>2. /\ marked.pool = allocs[k].pool /\ marked.bindings = allocs[k].bindings
        /\ marked.podName = allocs[k].podName /\ marked.podNs = allocs[k].podNs
    BY <2>1 DEF PortAllocation
  <2> HIDE DEF marked
  <2>3. allocs' = [allocs EXCEPT ![k] = marked]
    BY <1>3 DEF marked
  <2>4. ASSUME NEW j \in Keys, allocs'[j] # None
        PROVE  /\ allocs[j] # None
               /\ allocs'[j].pool = allocs[j].pool
               /\ allocs'[j].podName = allocs[j].podName
               /\ allocs'[j].podNs = allocs[j].podNs
               /\ allocs'[j].bindings = allocs[j].bindings
    <3>1. CASE j = k
      BY <1>3, <2>2, <2>3, <3>1 DEF StoreOK
    <3>2. CASE j # k
      BY <2>3, <2>4, <3>2 DEF StoreOK
    <3> QED BY <3>1, <3>2
  <2> QED BY <2>4 DEF NothingNew
<1>4. CASE Delete(k) /\ ~(allocs[k] = None \/ allocs[k].deleting)
  <2>1. Write(k, IF OtherFinalizers THEN [allocs[k] EXCEPT !.deleting = TRUE] ELSE None)
    BY <1>4 DEF Delete
  <2>2. CASE OtherFinalizers
    BY <1>3, <1>4, <2>1, <2>2 DEF Write
  <2>3. CASE ~OtherFinalizers
    BY <1>2, <2>1, <2>3 DEF Write
  <2> QED BY <2>2, <2>3
<1>5. CASE Delete(k) /\ (allocs[k] = None \/ allocs[k].deleting)
  BY <1>1, <1>5 DEF Delete, store
<1>6. CASE Write(k, None)
  BY <1>2, <1>6 DEF Write
<1> QED BY <1>4, <1>5, <1>6

(* Only a successful Create adds an object.                                *)
LEMMA OnlyCreateAdds ==
  ASSUME TypeOK, [Next]_vars, \A w \in Workers : ~CreateSucceeds(w)
  PROVE  NothingNew
<1>0. StoreOK
  BY DEF TypeOK
<1>1. ASSUME UNCHANGED allocs PROVE NothingNew
  BY <1>1 DEF NothingNew
<1>2. ASSUME NEW w \in Workers, DeleteAllocation(w) PROVE NothingNew
  <2>1. ReleaseKey(req[w]) \in Keys
    BY <1>2, InCall, KeyTypes DEF DeleteAllocation, Step
  <2> QED BY <1>0, <1>1, <1>2, <2>1, DeleteNothingNew DEF DeleteAllocation, store
<1>3. ASSUME NEW k \in Keys, ExternalDelete(k) \/ FinalizerDone(k) PROVE NothingNew
  BY <1>0, <1>3, DeleteNothingNew DEF ExternalDelete, FinalizerDone
<1>4. ASSUME NEW w \in Workers, Call(w) \/ Lock(w) PROVE NothingNew
  BY <1>1, <1>4 DEF Call, CallAllocate, CallRelease, Lock, store
<1>5. ASSUME NEW w \in Workers, Work(w), ~DeleteAllocation(w) PROVE NothingNew
  <2>1. UNCHANGED allocs
    BY <1>5 DEF Work, checkForDuplicateAllocation, FetchPool, ListAndSelect, GetExisting,
                CreateFails, CreateConflicts, ReadFails, GetForRelease, Unlock, store
  <2> QED BY <1>1, <2>1
<1>6. ASSUME (\E i \in Processes : DeliverWatch(i) \/ Crash(i) \/ \E p \in Pools : DeliverPool(i, p))
               \/ (\E p \in Pools : \E s \in PoolSpecs[p] \cup {None} : ChangePool(p, s))
      PROVE  NothingNew
  BY <1>1, <1>6 DEF DeliverWatch, Crash, DeliverPool, ChangePool, store
<1>7. CASE UNCHANGED vars
  BY <1>1, <1>7 DEF vars, store
<1> QED BY <1>2, <1>3, <1>4, <1>5, <1>6, <1>7 DEF Next, Environment

(* A worker that has a draft in hand and did not just make it kept it.     *)
LEMMA DraftKept ==
  ASSUME TypeOK, [Next]_vars, NEW v \in Workers,
         pc'[v] \in {"exists", "create"}, ~ListAndSelect(v)
  PROVE  /\ pc[v] \in {"exists", "create"}
         /\ draft'[v] = draft[v]
         /\ req'[v] = req[v]
<1> DEFINE Kept == /\ pc[v] \in {"exists", "create"}
                   /\ draft'[v] = draft[v]
                   /\ req'[v] = req[v]
<1>0. /\ pc \in [Workers -> PcValues] /\ req \in [Workers -> Requests \cup {None}]
      /\ draft \in [Workers -> PortAllocation \cup {None}]
  BY DEF TypeOK, CallsOK
<1>1. ASSUME NEW w \in Workers, Call(w) \/ Lock(w) \/ Unlock(w) PROVE Kept
  BY <1>0, <1>1 DEF Call, CallAllocate, CallRelease, Lock, Unlock, Step
<1>2. ASSUME NEW w \in Workers,
             \/ checkForDuplicateAllocation(w) \/ FetchPool(w) \/ GetExisting(w)
             \/ CreateSucceeds(w) \/ CreateFails(w) \/ ReadFails(w)
             \/ GetForRelease(w) \/ DeleteAllocation(w)
      PROVE  Kept
  BY <1>0, <1>2 DEF checkForDuplicateAllocation, FetchPool, GetExisting, CreateSucceeds,
                    CreateFails, ReadFails, GetForRelease, DeleteAllocation, Step, callVars
<1>3. ASSUME NEW w \in Workers, CreateConflicts(w) PROVE Kept
  BY <1>0, <1>3 DEF CreateConflicts, Step
<1>4. ASSUME NEW w \in Workers, ListAndSelect(w) PROVE Kept
  <2>1. v # w
    BY <1>4
  <2> QED BY <1>0, <1>4, <2>1, ListStep DEF ListAndSelect
<1>5. ASSUME Environment PROVE Kept
  <2>1. CASE \E i \in Processes : Crash(i)
    BY <2>1 DEF Crash, Reset
  <2>2. CASE ~\E i \in Processes : Crash(i)
    BY <1>5, <2>2 DEF Environment, ChangePool, DeliverPool, ExternalDelete, FinalizerDone,
                      DeliverWatch, callVars
  <2> QED BY <2>1, <2>2
<1>6. CASE UNCHANGED vars
  BY <1>6 DEF vars, callVars
<1> QED BY <1>1, <1>2, <1>3, <1>4, <1>5, <1>6 DEF Next, Work

(* The object of a successful Create is the only change of the store.      *)
LEMMA Created ==
  ASSUME TypeOK, NEW w \in Workers, CreateSucceeds(w)
  PROVE  /\ CreateKey(req[w]) \in Keys
         /\ allocs[CreateKey(req[w])] = None
         /\ draft[w] \in PortAllocation /\ draft[w] # None
         /\ allocs' = [allocs EXCEPT ![CreateKey(req[w])] = draft[w]]
         /\ pc[w] = "create" /\ pc' = [pc EXCEPT ![w] = "unlock"]
         /\ UNCHANGED <<draft, req>>
<1>1. pc[w] = "create"
  BY DEF CreateSucceeds, Step
<1>2. req[w] \in Requests /\ draft[w] \in PortAllocation
  BY <1>1, InCall
<1> QED BY <1>1, <1>2, KeyTypes, NoneAssumption DEF CreateSucceeds, Step, Creatable, Write, callVars

(* A draft stays free of conflicts until it is created: nobody else adds   *)
(* an object to its pool while its worker holds the mutex.                 *)
LEMMA DraftNext ==
  ASSUME ~CachedReads, OneProcess, IInv, [Next]_vars
  PROVE  DraftInv'
<1> SUFFICES ASSUME NEW v \in Workers, pc'[v] \in {"exists", "create"}
             PROVE  DraftOK(v)'
  BY DEF DraftInv
<1>0. TypeOK /\ MutexInv /\ DraftInv /\ StoreOK
  BY DEF IInv, TypeOK
<1>1. CASE ListAndSelect(v)
  <2>1. UNCHANGED <<allocs, req>>
    BY <1>1 DEF ListAndSelect, store
  <2>2. View(v) = allocs
    BY DEF View
  <2>3. pc \in [Workers -> PcValues] /\ draft \in [Workers -> PortAllocation \cup {None}]
    BY <1>0 DEF TypeOK, CallsOK
  <2>4. PICK bs \in Seq(Binding) :
          /\ draft' = [draft EXCEPT ![v] = NewAllocation(req[v], bs)]
          /\ Distinct(bs)
          /\ \A k \in Keys : (allocs[k] # None /\ allocs[k].pool = req[v].pool)
                              => Disjoint(allocs[k].bindings, bs)
    BY <1>0, <1>1, <2>2, <2>3, ListStep
  <2>5. draft'[v].pool = req[v].pool /\ draft'[v].bindings = bs
    BY <2>3, <2>4 DEF NewAllocation
  <2> QED BY <2>1, <2>4, <2>5 DEF DraftOK
<1>2. CASE ~ListAndSelect(v)
  <2>1. /\ pc[v] \in {"exists", "create"}
        /\ draft'[v] = draft[v] /\ req'[v] = req[v]
    BY <1>0, <1>2, DraftKept
  <2>2. DraftOK(v)
    BY <1>0, <2>1 DEF DraftInv
  <2>3. CASE NothingNew
    BY <2>1, <2>2, <2>3 DEF DraftOK, NothingNew
  <2>4. ASSUME NEW w \in Workers, CreateSucceeds(w) PROVE DraftOK(v)'
    <3>1. w # v
      BY <1>0, <2>4, Created DEF TypeOK, CallsOK
    <3>2. DraftOK(w)
      BY <1>0, <2>4, Created DEF DraftInv
    <3>3. req[v].pool # req[w].pool
      BY <1>0, <2>1, <2>4, <3>1, Created, OnePerPool DEF Holding
    <3>4. ASSUME NEW k \in Keys, allocs'[k] # None, allocs'[k].pool = draft[v].pool
          PROVE  allocs'[k] = allocs[k]
      <4>1. CASE k = CreateKey(req[w])
        <5>1. allocs'[k] = draft[w]
          BY <1>0, <2>4, <4>1, Created DEF StoreOK
        <5> QED BY <2>2, <3>2, <3>3, <3>4, <5>1 DEF DraftOK
      <4>2. CASE k # CreateKey(req[w])
        BY <1>0, <2>4, <4>2, Created DEF StoreOK
      <4> QED BY <4>1, <4>2
    <3> QED BY <2>1, <2>2, <3>4 DEF DraftOK
  <2> QED BY <1>0, <2>3, <2>4, OnlyCreateAdds
<1> QED BY <1>1, <1>2

(* Only a Create could introduce a conflict, and it adds a draft that has  *)
(* none.                                                                   *)
LEMMA ConflictNext ==
  ASSUME IInv, [Next]_vars
  PROVE  NoPortConflictInPool'
<1>0. TypeOK /\ DraftInv /\ NoPortConflictInPool /\ StoreOK
  BY DEF IInv, TypeOK
<1>1. CASE NothingNew
  BY <1>0, <1>1 DEF NothingNew, NoPortConflictInPool
<1>2. ASSUME NEW w \in Workers, CreateSucceeds(w) PROVE NoPortConflictInPool'
  <2> DEFINE key == CreateKey(req[w])
             bs  == draft[w].bindings
  <2>1. /\ key \in Keys /\ draft[w] # None /\ draft[w] \in PortAllocation
        /\ allocs'[key] = draft[w]
        /\ \A k \in Keys \ {key} : allocs'[k] = allocs[k]
    BY <1>0, <1>2, Created DEF StoreOK
  <2>2. DraftOK(w)
    BY <1>0, <1>2, Created DEF DraftInv
  <2> HIDE DEF key
  <2>3. ASSUME NEW k \in Keys, allocs'[k] # None
        PROVE  Distinct(allocs'[k].bindings)
    BY <1>0, <2>1, <2>2, <2>3 DEF DraftOK, NoPortConflictInPool
  <2>4. ASSUME NEW k \in Keys, NEW j \in Keys \ {k},
               allocs'[k] # None, allocs'[j] # None, allocs'[j].pool = allocs'[k].pool
        PROVE  Disjoint(allocs'[j].bindings, allocs'[k].bindings)
    <3>1. CASE k = key
      BY <2>1, <2>2, <2>4, <3>1 DEF DraftOK
    <3>2. CASE j = key
      <4>1. Disjoint(allocs[k].bindings, bs)
        BY <2>1, <2>2, <2>4, <3>2 DEF DraftOK
      <4> QED BY <2>1, <2>4, <3>2, <4>1 DEF Disjoint, SameSlot
    <3>3. CASE k # key /\ j # key
      BY <1>0, <2>1, <2>4, <3>3 DEF NoPortConflictInPool
    <3> QED BY <3>1, <3>2, <3>3
  <2> QED BY <2>3, <2>4 DEF NoPortConflictInPool
<1> QED BY <1>0, <1>1, <1>2, OnlyCreateAdds

(* IInv is inductive when reads are direct and one manager is at work.     *)
THEOREM Inductive == ~CachedReads /\ OneProcess => (Spec => []IInv)
<1> SUFFICES ASSUME ~CachedReads, OneProcess PROVE Spec => []IInv
  OBVIOUS
<1>1. Init => IInv
  <2> SUFFICES ASSUME Init PROVE DraftInv /\ NoPortConflictInPool
    BY TypeInit, MutexInit DEF IInv
  <2> QED BY DEF Init, DraftInv, NoPortConflictInPool
<1>2. IInv /\ [Next]_vars => IInv'
  BY TypeNext, MutexNext, DraftNext, ConflictNext DEF IInv
<1> QED BY <1>1, <1>2, PTL DEF Spec

(* With direct reads, and all workers in one manager process, the per-pool *)
(* mutex does what its comment says: in every reachable state no port of a *)
(* load balancer is bound twice in a pool, for any number of workers,      *)
(* requests, failures, crashes, deletions and edits.                       *)
THEOREM NoConflict == ~CachedReads /\ OneProcess => (Spec => []NoPortConflictInPool)
<1>1. IInv => NoPortConflictInPool
  BY DEF IInv
<1> QED BY <1>1, Inductive, PTL

-----------------------------------------------------------------------------
(* The bindings of an allocation come from one version of its pool *)

(* Pools, and the informer's copies of them, only take known versions.     *)
LEMMA PoolsKnownNext ==
  ASSUME TypeOK, PoolsKnown, [Next]_vars
  PROVE  PoolsKnown'
<1>0. /\ pools \in [Pools -> PoolSpec \cup {None}]
      /\ poolCache \in [Processes -> [Pools -> PoolSpec \cup {None}]]
  BY DEF TypeOK, PoolsOK
<1>1. ASSUME UNCHANGED poolVars PROVE PoolsKnown'
  BY <1>1 DEF PoolsKnown, poolVars
<1>2. ASSUME NEW p \in Pools, NEW s \in PoolSpecs[p] \cup {None}, ChangePool(p, s)
      PROVE  PoolsKnown'
  BY <1>0, <1>2 DEF PoolsKnown, ChangePool
<1>3. ASSUME NEW i \in Processes, NEW p \in Pools, DeliverPool(i, p) PROVE PoolsKnown'
  BY <1>0, <1>3 DEF PoolsKnown, DeliverPool
<1>4. ASSUME NEW i \in Processes, Crash(i) PROVE PoolsKnown'
  BY <1>0, <1>4 DEF PoolsKnown, Crash
<1>5. ASSUME NEW w \in Workers, Call(w) \/ Lock(w) \/ Work(w) PROVE PoolsKnown'
  <2>1. UNCHANGED poolVars
    BY <1>5 DEF Call, CallAllocate, CallRelease, Lock, Work, checkForDuplicateAllocation,
                FetchPool, ListAndSelect, GetExisting, CreateSucceeds, CreateFails,
                CreateConflicts, ReadFails, GetForRelease, DeleteAllocation, Unlock
  <2> QED BY <1>1, <2>1
<1>6. ASSUME NEW k \in Keys, ExternalDelete(k) \/ FinalizerDone(k) PROVE PoolsKnown'
  BY <1>1, <1>6 DEF ExternalDelete, FinalizerDone
<1>7. ASSUME NEW i \in Processes, DeliverWatch(i) PROVE PoolsKnown'
  BY <1>1, <1>7 DEF DeliverWatch
<1>8. CASE UNCHANGED vars
  BY <1>1, <1>8 DEF vars
<1> QED BY <1>2, <1>3, <1>4, <1>5, <1>6, <1>7, <1>8 DEF Next, Environment

(* A worker about to select that did not just fetch the pool kept what it  *)
(* fetched.                                                                *)
LEMMA SeenKept ==
  ASSUME TypeOK, [Next]_vars, NEW v \in Workers, pc'[v] = "list", ~FetchPool(v)
  PROVE  pc[v] = "list" /\ seen'[v] = seen[v] /\ req'[v] = req[v]
<1> DEFINE Kept == pc[v] = "list" /\ seen'[v] = seen[v] /\ req'[v] = req[v]
<1>0. /\ pc \in [Workers -> PcValues] /\ req \in [Workers -> Requests \cup {None}]
      /\ seen \in [Workers -> PoolSpec \cup {None}]
  BY DEF TypeOK, CallsOK
<1>1. ASSUME NEW w \in Workers, Call(w) \/ Lock(w) \/ Unlock(w) PROVE Kept
  BY <1>0, <1>1 DEF Call, CallAllocate, CallRelease, Lock, Unlock, Step
<1>2. ASSUME NEW w \in Workers,
             \/ checkForDuplicateAllocation(w) \/ GetExisting(w)
             \/ CreateSucceeds(w) \/ CreateFails(w) \/ ReadFails(w)
             \/ GetForRelease(w) \/ DeleteAllocation(w)
      PROVE  Kept
  BY <1>0, <1>2 DEF checkForDuplicateAllocation, GetExisting, CreateSucceeds,
                    CreateFails, ReadFails, GetForRelease, DeleteAllocation, Step, callVars
<1>3. ASSUME NEW w \in Workers, CreateConflicts(w) PROVE Kept
  BY <1>0, <1>3 DEF CreateConflicts, Step
<1>4. ASSUME NEW w \in Workers, FetchPool(w) PROVE Kept
  <2>1. v # w
    BY <1>4
  <2> QED BY <1>0, <1>4, <2>1 DEF FetchPool, Step
<1>5. ASSUME NEW w \in Workers, ListAndSelect(w) PROVE Kept
  <2>1. UNCHANGED <<req, seen>>
    BY <1>5 DEF ListAndSelect
  <2> QED BY <1>0, <1>5, <2>1, ListStep
<1>6. ASSUME Environment PROVE Kept
  <2>1. CASE \E i \in Processes : Crash(i)
    BY <2>1 DEF Crash, Reset
  <2>2. CASE ~\E i \in Processes : Crash(i)
    BY <1>6, <2>2 DEF Environment, ChangePool, DeliverPool, ExternalDelete, FinalizerDone,
                      DeliverWatch, callVars
  <2> QED BY <2>1, <2>2
<1>7. CASE UNCHANGED vars
  BY <1>7 DEF vars, callVars
<1> QED BY <1>1, <1>2, <1>3, <1>4, <1>5, <1>6, <1>7 DEF Next, Work

(* What a worker has fetched is a version of the pool it asked for, even   *)
(* when the pool has changed since.                                        *)
LEMMA SeenKnownNext ==
  ASSUME TypeOK, PoolsKnown, SeenKnown, [Next]_vars
  PROVE  SeenKnown'
<1> SUFFICES ASSUME NEW v \in Workers, pc'[v] = "list"
             PROVE  seen'[v] \in PoolSpecs[req'[v].pool]
  BY DEF SeenKnown
<1>1. CASE FetchPool(v)
  <2>0. pc \in [Workers -> PcValues] /\ seen \in [Workers -> PoolSpec \cup {None}]
    BY DEF TypeOK, CallsOK
  <2>1. pc[v] = "fetch" /\ req' = req
    BY <1>1 DEF FetchPool, Step
  <2>2. req[v] \in Requests
    BY <2>1, InCall
  <2>3. req[v].pool \in Pools
    BY <2>2, RequestsAssumption
  <2>4. PoolView(v)[req[v].pool] # None /\ seen'[v] = PoolView(v)[req[v].pool]
    BY <1>1, <2>0 DEF FetchPool, Step
  <2>5. PoolView(v)[req[v].pool] \in PoolSpecs[req[v].pool] \cup {None}
    BY <2>3 DEF PoolsKnown, PoolView, Processes
  <2> QED BY <2>1, <2>4, <2>5
<1>2. CASE ~FetchPool(v)
  BY <1>2, SeenKept DEF SeenKnown
<1> QED BY <1>1, <1>2

(* What a worker drafts is admitted by the version it fetched.             *)
LEMMA DraftKnownNext ==
  ASSUME TypeOK, SeenKnown, DraftKnown, [Next]_vars
  PROVE  DraftKnown'
<1> SUFFICES ASSUME NEW v \in Workers, pc'[v] \in {"exists", "create"}
             PROVE  FromOneSpec(draft'[v])
  BY DEF DraftKnown
<1>1. CASE ListAndSelect(v)
  <2>1. pc[v] = "list"
    BY <1>1 DEF ListAndSelect
  <2>2. pc \in [Workers -> PcValues] /\ draft \in [Workers -> PortAllocation \cup {None}]
    BY DEF TypeOK, CallsOK
  <2>3. PICK bs \in Seq(Binding) :
          /\ draft' = [draft EXCEPT ![v] = NewAllocation(req[v], bs)]
          /\ bs # << >> => AdmittedBy(seen[v], bs)
    BY <1>1, <2>2, ListStep
  <2>4. draft'[v].pool = req[v].pool /\ draft'[v].bindings = bs
    BY <2>2, <2>3 DEF NewAllocation
  <2>5. seen[v] \in PoolSpecs[req[v].pool]
    BY <2>1 DEF SeenKnown
  <2> QED BY <2>3, <2>4, <2>5 DEF FromOneSpec
<1>2. CASE ~ListAndSelect(v)
  BY <1>2, DraftKept DEF DraftKnown
<1> QED BY <1>1, <1>2

(* A Create stores what was drafted; no other step changes bindings.       *)
LEMMA FromOneSpecNext ==
  ASSUME TypeOK, DraftKnown, BindingsFromOneSpec, [Next]_vars
  PROVE  BindingsFromOneSpec'
<1>1. CASE NothingNew
  BY <1>1 DEF NothingNew, BindingsFromOneSpec, FromOneSpec
<1>2. ASSUME NEW w \in Workers, CreateSucceeds(w) PROVE BindingsFromOneSpec'
  <2>1. /\ allocs'[CreateKey(req[w])] = draft[w]
        /\ \A k \in Keys \ {CreateKey(req[w])} : allocs'[k] = allocs[k]
    BY <1>2, Created DEF TypeOK, StoreOK
  <2>2. FromOneSpec(draft[w])
    BY <1>2, Created DEF DraftKnown
  <2> QED BY <2>1, <2>2 DEF BindingsFromOneSpec
<1> QED BY <1>1, <1>2, OnlyCreateAdds

(* However a pool is edited, deleted or created again while AllocatePort   *)
(* runs, and however old the caches are that it reads, the bindings of an  *)
(* allocation lie on one load balancer and on admitted ports of a single   *)
(* version of its pool.                                                    *)
THEOREM SingleVersion == Spec => []BindingsFromOneSpec
<1>1. Init => SpecInv
  <2> SUFFICES ASSUME Init PROVE PoolsKnown /\ SeenKnown /\ DraftKnown /\ BindingsFromOneSpec
    BY TypeInit DEF SpecInv
  <2>1. PoolsKnown
    BY DEF Init, PoolsKnown
  <2> QED BY <2>1 DEF Init, SeenKnown, DraftKnown, BindingsFromOneSpec
<1>2. SpecInv /\ [Next]_vars => SpecInv'
  BY TypeNext, PoolsKnownNext, SeenKnownNext, DraftKnownNext, FromOneSpecNext DEF SpecInv
<1>3. SpecInv => BindingsFromOneSpec
  BY DEF SpecInv
<1> QED BY <1>1, <1>2, <1>3, PTL DEF Spec

-----------------------------------------------------------------------------
(* ReleasePort deletes what it verified *)

(* A worker about to delete that did not just verify is still in the same  *)
(* call.                                                                   *)
LEMMA DeletePending ==
  ASSUME TypeOK, [Next]_vars, NEW v \in Workers, pc'[v] = "delete", ~GetForRelease(v)
  PROVE  pc[v] = "delete" /\ req'[v] = req[v]
<1> DEFINE Kept == pc[v] = "delete" /\ req'[v] = req[v]
<1>0. pc \in [Workers -> PcValues] /\ req \in [Workers -> Requests \cup {None}]
  BY DEF TypeOK, CallsOK
<1>1. ASSUME NEW w \in Workers, Call(w) \/ Lock(w) \/ Unlock(w) PROVE Kept
  BY <1>0, <1>1 DEF Call, CallAllocate, CallRelease, Lock, Unlock, Step
<1>2. ASSUME NEW w \in Workers,
             \/ checkForDuplicateAllocation(w) \/ FetchPool(w) \/ GetExisting(w)
             \/ CreateSucceeds(w) \/ CreateFails(w) \/ ReadFails(w) \/ DeleteAllocation(w)
      PROVE  Kept
  BY <1>0, <1>2 DEF checkForDuplicateAllocation, FetchPool, GetExisting, CreateSucceeds,
                    CreateFails, ReadFails, DeleteAllocation, Step, callVars
<1>3. ASSUME NEW w \in Workers, CreateConflicts(w) PROVE Kept
  BY <1>0, <1>3 DEF CreateConflicts, Step
<1>4. ASSUME NEW w \in Workers, GetForRelease(w) PROVE Kept
  <2>1. v # w
    BY <1>4
  <2> QED BY <1>0, <1>4, <2>1 DEF GetForRelease, Step, callVars
<1>5. ASSUME NEW w \in Workers, ListAndSelect(w) PROVE Kept
  <2>1. UNCHANGED req
    BY <1>5 DEF ListAndSelect
  <2> QED BY <1>0, <1>5, <2>1, ListStep
<1>6. ASSUME Environment PROVE Kept
  <2>1. CASE \E i \in Processes : Crash(i)
    BY <2>1 DEF Crash, Reset
  <2>2. CASE ~\E i \in Processes : Crash(i)
    BY <1>6, <2>2 DEF Environment, ChangePool, DeliverPool, ExternalDelete, FinalizerDone,
                      DeliverWatch, callVars
  <2> QED BY <2>1, <2>2
<1>7. CASE UNCHANGED vars
  BY <1>7 DEF vars, callVars
<1> QED BY <1>1, <1>2, <1>3, <1>4, <1>5, <1>6, <1>7 DEF Next, Work

(* Two requests with a common object key are for the same pool.            *)
LEMMA KeyPool ==
  ASSUME NoAlias, NEW r \in Requests, NEW s \in Requests, CreateKey(r) = ReleaseKey(s)
  PROVE  r.pool = s.pool
BY DEF NoAlias, CreateKey, ReleaseKey

(* Between Get and Delete the worker holds the mutex of the only pool that *)
(* could put another object under the key.                                 *)
LEMMA VerifiedNext ==
  ASSUME ~CachedReads, OneProcess, NoAlias, TypeOK, MutexInv, VerifiedInv, [Next]_vars
  PROVE  VerifiedInv'
<1> SUFFICES ASSUME NEW v \in Workers, pc'[v] = "delete" PROVE Verified(v)'
  BY DEF VerifiedInv
<1>1. CASE GetForRelease(v)
  <2>1. UNCHANGED <<allocs, req>>
    BY <1>1 DEF GetForRelease, store, callVars
  <2>2. pc \in [Workers -> PcValues]
    BY DEF TypeOK, CallsOK
  <2>3. Owns(req[v], allocs[ReleaseKey(req[v])])
    BY <1>1, <2>2 DEF GetForRelease, Step, View
  <2> QED BY <2>1, <2>3 DEF Verified, Owns, ReleaseKey, AllocationName
<1>2. CASE ~GetForRelease(v)
  <2> DEFINE key == ReleaseKey(req[v])
  <2>1. pc[v] = "delete" /\ req'[v] = req[v]
    BY <1>2, DeletePending
  <2>2. req[v] \in Requests /\ key \in Keys
    BY <2>1, InCall, KeyTypes
  <2>3. allocs[key] = None \/ Owns(req[v], allocs[key])
    BY <2>1 DEF VerifiedInv, Verified
  <2>4. ReleaseKey(req[v])' = key
    BY <2>1 DEF ReleaseKey, AllocationName
  <2> HIDE DEF key
  <2>5. CASE NothingNew
    <3>1. allocs'[key] = None \/ Owns(req[v], allocs'[key])
      BY <2>2, <2>3, <2>5 DEF NothingNew, Owns
    <3> QED BY <2>1, <2>4, <3>1 DEF Verified, Owns
  <2>6. ASSUME NEW w \in Workers, CreateSucceeds(w) PROVE Verified(v)'
    <3>1. pc[w] = "create" /\ req[w] \in Requests
      BY <2>6, Created, InCall
    <3>2. w # v
      BY <2>1, <3>1
    <3>3. req[w].pool # req[v].pool
      BY <2>1, <3>1, <3>2, OnePerPool DEF Holding
    <3>4. CreateKey(req[w]) # key
      BY <2>2, <3>1, <3>3, KeyPool DEF key
    <3>5. allocs'[key] = allocs[key]
      BY <2>2, <2>6, <3>4, Created DEF TypeOK, StoreOK
    <3> QED BY <2>1, <2>3, <2>4, <3>5 DEF Verified, Owns
  <2> QED BY <2>5, <2>6, OnlyCreateAdds
<1> QED BY <1>1, <1>2

(* Only the Delete of a worker takes it from "delete" to "unlock", and it  *)
(* touches no key but its own.                                             *)
LEMMA ReleaseStep ==
  ASSUME TypeOK, VerifiedInv, [Next]_vars, NEW w \in Workers, NEW k \in Keys,
         pc[w] = "delete", pc'[w] = "unlock", allocs'[k] # allocs[k]
  PROVE  Owns(req[w], allocs[k])
<1>0. /\ pc \in [Workers -> PcValues]
      /\ allocs \in [Keys -> PortAllocation \cup {None}]
  BY DEF TypeOK, CallsOK, StoreOK
<1>1. DeleteAllocation(w)
  <2> SUFFICES ASSUME ~DeleteAllocation(w) PROVE FALSE
    OBVIOUS
  <2>1. ASSUME NEW v \in Workers, Call(v) \/ Lock(v) \/ Unlock(v) PROVE FALSE
    BY <1>0, <2>1 DEF Call, CallAllocate, CallRelease, Lock, Unlock, Step
  <2>2. ASSUME NEW v \in Workers,
               \/ checkForDuplicateAllocation(v) \/ FetchPool(v) \/ GetExisting(v)
               \/ CreateSucceeds(v) \/ CreateFails(v) \/ CreateConflicts(v)
               \/ ReadFails(v) \/ GetForRelease(v) \/ DeleteAllocation(v)
        PROVE  FALSE
    BY <1>0, <2>2 DEF checkForDuplicateAllocation, FetchPool, GetExisting, CreateSucceeds,
                CreateFails, CreateConflicts, ReadFails, GetForRelease, DeleteAllocation, Step
  <2>3. ASSUME NEW v \in Workers, ListAndSelect(v) PROVE FALSE
    <3>1. pc[v] = "list"
      BY <2>3 DEF ListAndSelect
    <3>2. v # w
      BY <3>1
    <3>3. \/ pc' = [pc EXCEPT ![v] = "exists"]
          \/ pc' = [pc EXCEPT ![v] = "unlock"]
      BY <2>3, ListStep
    <3> QED BY <1>0, <3>2, <3>3
  <2>4. ASSUME Environment PROVE FALSE
    <3>1. CASE \E i \in Processes : Crash(i)
      BY <3>1 DEF Crash, Reset
    <3>2. CASE ~\E i \in Processes : Crash(i)
      BY <2>4, <3>2 DEF Environment, ChangePool, DeliverPool, ExternalDelete, FinalizerDone,
                        DeliverWatch
    <3> QED BY <3>1, <3>2
  <2>5. CASE UNCHANGED vars
    BY <2>5 DEF vars
  <2> QED BY <2>1, <2>2, <2>3, <2>4, <2>5 DEF Next, Work
<1>2. Delete(ReleaseKey(req[w]))
  BY <1>1 DEF DeleteAllocation, store
<1>3. ReleaseKey(req[w]) \in Keys
  BY InCall, KeyTypes
<1>4. k = ReleaseKey(req[w]) /\ allocs[k] # None
  BY <1>0, <1>2, <1>3 DEF Delete, Write, store
<1> QED BY <1>4 DEF VerifiedInv, Verified

(* With direct reads, one manager and no two pools that share an object    *)
(* name, ReleasePort deletes no allocation but one of the pod and pool it  *)
(* was called for, although other callers and clients act between its Get  *)
(* and its Delete.                                                         *)
THEOREM OwnRelease == ~CachedReads /\ OneProcess /\ NoAlias => (Spec => ReleaseOwnOnly)
<1> SUFFICES ASSUME ~CachedReads, OneProcess, NoAlias PROVE Spec => ReleaseOwnOnly
  OBVIOUS
<1> DEFINE Inv == TypeOK /\ MutexInv /\ VerifiedInv
           Own == \A w \in Workers : \A k \in Keys :
                    (pc[w] = "delete" /\ pc'[w] = "unlock" /\ allocs'[k] # allocs[k])
                      => Owns(req[w], allocs[k])
<1>1. Init => Inv
  <2> SUFFICES ASSUME Init PROVE VerifiedInv
    BY TypeInit, MutexInit
  <2> QED BY DEF Init, VerifiedInv
<1>2. Inv /\ [Next]_vars => Inv'
  BY TypeNext, MutexNext, VerifiedNext
<1>3. Inv /\ [Next]_vars => [Own]_vars
  BY ReleaseStep
<1> HIDE DEF Inv, Own
<1>4. Spec => [][Own]_vars
  BY <1>1, <1>2, <1>3, PTL DEF Spec
<1> QED BY <1>4 DEF ReleaseOwnOnly, Own
=============================================================================
