---------------------------- MODULE PoolAllocator ----------------------------
(***************************************************************************)
(* pkg/allocator: concurrent callers of AllocatePort and ReleasePort, the  *)
(* per-pool mutexes and round-robin indexes they share, and the API server *)
(* that keeps the PortAllocation objects.                                  *)
(*                                                                         *)
(* Every call to the API server is one step, so other callers and the      *)
(* environment (edits of pools, deletions by other clients, a crash of the *)
(* controller process) may act between any two of them.  Mutexes, indexes  *)
(* and caches belong to a process: with leader election off, the default,  *)
(* several managers may be at work.                                        *)
(*                                                                         *)
(* Names of pools and pods are sequences of dash-free segments, so that    *)
(* the object name fmt.Sprintf("%s-%s", pool, pod) is a concatenation and  *)
(* "a-b" + "c" is the same name as "a" + "b-c".                            *)
(***************************************************************************)
EXTENDS PortSelection

CONSTANTS
  Workers,               \* goroutines that call the allocator
  Process,               \* for each of them the manager process it runs in
  Requests,              \* calls they may make: [pool, ns, pod, podNs, ports]
  Pools,                 \* names of network pools
  LBs,                   \* ids of load balancers
  PoolSpecs,             \* for each pool the specifications it may be given
  Strategy,              \* load-balancing strategy
  MaxAttempts,           \* retry.DefaultRetry.Steps
  PoolNamespace,         \* namespace of the pool objects, "" when cluster-scoped
  AllocationsNamespaced, \* the API server refuses an allocation without namespace
  CachedReads,           \* reads come from the manager's informer cache
  OtherFinalizers,       \* other controllers put finalizers on allocations
  MaxFaults,             \* bound on failing API calls
  MaxEnv,                \* bound on edits, foreign deletions and crashes
  MaxLag,                \* bound on watch events on their way to the cache
  None                   \* no object, no holder, no request

AllocationName(r) == r.pool \o r.pod
CreateKey(r)  == <<PoolNamespace, AllocationName(r)>>
ReleaseKey(r) == <<r.ns, AllocationName(r)>>
MutexKey(r)   == <<r.ns, r.pool>>

Keys == {CreateKey(r) : r \in Requests} \cup {ReleaseKey(r) : r \in Requests}
MutexKeys == {MutexKey(r) : r \in Requests}
Processes == {Process[w] : w \in Workers}
Segments == STRING
PodPort == Int
Binding == [podPort : PodPort, lb : LBs, lbPort : Int]
PoolSpec == [lbs : Seq(LBs), min : Int, max : Int, excluded : Seq(Int)]
PortAllocation == [pool     : Pools,
                   podName  : Seq(Segments),
                   podNs    : STRING,
                   bindings : Seq(Binding),
                   deleting : BOOLEAN]

ASSUME RequestsAssumption ==
  Requests \subseteq [pool : Pools, ns : STRING, pod : Seq(Segments),
                      podNs : STRING, ports : Seq(PodPort)]

ASSUME PoolSpecsAssumption == PoolSpecs \in [Pools -> SUBSET PoolSpec]

ASSUME NoneAssumption ==
  None \notin Workers /\ None \notin PortAllocation /\ None \notin PoolSpec

ASSUME BoundsAssumption ==
  MaxAttempts \in Nat /\ MaxFaults \in Nat /\ MaxEnv \in Nat /\ MaxLag \in Nat

(* Managers are finitely many, and so are the goroutines of each           *)
(* (MaxConcurrentReconciles).                                              *)
ASSUME WorkersAssumption == IsFiniteSet(Workers)

(* Callers agree on the namespace they pass for a pool: the pod controller *)
(* always passes "", the tests the namespace the pool lives in.            *)
ASSUME CallerNamespace ==
  \A r, s \in Requests : r.pool = s.pool => r.ns = s.ns

VARIABLES
  allocs,    \* PortAllocation objects of the API server
  cache,     \* the copy of them in the informer of each process
  watch,     \* changes that informer has not seen yet, <<key, object>> in order
  pools,     \* specifications of the pools, None for a pool that is not there
  poolCache, \* the informer's copy of them, by process
  rrIndex,   \* roundRobinIndex of each process
  mutex,     \* holder of each pool mutex <<process, key>>
  pc,        \* next step of each worker
  req,       \* arguments of its call
  seen,      \* pool specification it fetched
  draft,     \* allocation object it is about to create
  tries,     \* attempts of RetryOnConflict it has begun
  faults,    \* failed API calls so far
  envs       \* steps of the environment so far

store == <<allocs, cache, watch>>
poolVars == <<pools, poolCache>>
callVars == <<req, seen, draft, tries>>
vars == <<store, poolVars, rrIndex, mutex, pc, callVars, faults, envs>>

-----------------------------------------------------------------------------
Init ==
  /\ allocs = [k \in Keys |-> None]
  /\ cache = [i \in Processes |-> allocs]
  /\ watch = [i \in Processes |-> << >>]
  /\ pools \in {f \in [Pools -> UNION {PoolSpecs[p] : p \in Pools}] :
                  \A p \in Pools : f[p] \in PoolSpecs[p]}
  /\ poolCache = [i \in Processes |-> pools]
  /\ rrIndex = [i \in Processes |-> [p \in Pools |-> 0]]
  /\ mutex = [m \in Processes \X MutexKeys |-> None]
  /\ pc = [w \in Workers |-> "idle"]
  /\ req = [w \in Workers |-> None]
  /\ seen = [w \in Workers |-> None]
  /\ draft = [w \in Workers |-> None]
  /\ tries = [w \in Workers |-> 0]
  /\ faults = 0
  /\ envs = 0

View(w) == IF CachedReads THEN cache[Process[w]] ELSE allocs
PoolView(w) == IF CachedReads THEN poolCache[Process[w]] ELSE pools

(* Faulty variant: ports of objects that are being deleted count as free. *)
LabelledLive(objects, p) ==
  [k \in {j \in Keys : objects[j] # None /\ objects[j].pool = p /\ ~objects[j].deleting} |->
     objects[k]]

(* List with MatchingLabels{pool}. *)
Labelled(objects, p) ==
  [k \in {j \in Keys : objects[j] # None /\ objects[j].pool = p} |-> objects[k]]

(* A write at the API server; with caches the change is on its way to all. *)
Write(k, object) ==
  /\ allocs' = [allocs EXCEPT ![k] = object]
  /\ IF CachedReads
     THEN /\ \A i \in Processes : Len(watch[i]) < MaxLag
          /\ watch' = [i \in Processes |-> Append(watch[i], <<k, object>>)]
     ELSE UNCHANGED watch
  /\ UNCHANGED cache

(* Delete at the API server: an object with finalizers is only marked. *)
Delete(k) ==
  IF allocs[k] = None \/ allocs[k].deleting
  THEN UNCHANGED store
  ELSE Write(k, IF OtherFinalizers THEN [allocs[k] EXCEPT !.deleting = TRUE] ELSE None)

Step(w, from, to) == pc[w] = from /\ pc' = [pc EXCEPT ![w] = to]

(* The API server, or the way to it, fails this call. *)
Fault == faults < MaxFaults /\ faults' = faults + 1

-----------------------------------------------------------------------------
(* AllocatePort and ReleasePort are called. *)
CallAllocate(w, r) ==
  /\ Step(w, "idle", "allocLock")
  /\ req' = [req EXCEPT ![w] = r]
  /\ UNCHANGED <<store, poolVars, rrIndex, mutex, seen, draft, tries, faults, envs>>

CallRelease(w, r) ==
  /\ Step(w, "idle", "releaseLock")
  /\ req' = [req EXCEPT ![w] = r]
  /\ UNCHANGED <<store, poolVars, rrIndex, mutex, seen, draft, tries, faults, envs>>

(* getPoolMutex: the mutex of the pool, in the process of the worker. *)
PoolMutex(w) == <<Process[w], MutexKey(req[w])>>

(* Faulty variant: the mutex is taken from its holder. *)
AcquireHeld(w) == mutex' = [mutex EXCEPT ![PoolMutex(w)] = w]

Acquire(w) ==
  /\ mutex[PoolMutex(w)] = None
  /\ mutex' = [mutex EXCEPT ![PoolMutex(w)] = w]

(* Faulty variant: ReleasePort works without the mutex. *)
LockAllocateOnly(w) ==
  /\ \/ Step(w, "allocLock", "dup") /\ Acquire(w)
     \/ Step(w, "releaseLock", "get") /\ UNCHANGED mutex
  /\ tries' = [tries EXCEPT ![w] = 1]
  /\ UNCHANGED <<store, poolVars, rrIndex, req, seen, draft, faults, envs>>

(* poolMutex.Lock() *)
Lock(w) ==
  /\ \/ Step(w, "allocLock", "dup")
     \/ Step(w, "releaseLock", "get")
  /\ Acquire(w)
  /\ tries' = [tries EXCEPT ![w] = 1]
  /\ UNCHANGED <<store, poolVars, rrIndex, req, seen, draft, faults, envs>>

(* Faulty variant: an attempt that made no object returns with the mutex. *)
UnlockForgotten(w) ==
  /\ Step(w, "unlock", "idle")
  /\ mutex' = IF draft[w] = None THEN mutex ELSE [mutex EXCEPT ![PoolMutex(w)] = None]
  /\ req' = [req EXCEPT ![w] = None]
  /\ seen' = [seen EXCEPT ![w] = None]
  /\ draft' = [draft EXCEPT ![w] = None]
  /\ tries' = [tries EXCEPT ![w] = 0]
  /\ UNCHANGED <<store, poolVars, rrIndex, faults, envs>>

(* The deferred poolMutex.Unlock() and the return of the call. *)
Unlock(w) ==
  /\ Step(w, "unlock", "idle")
  /\ mutex' = [mutex EXCEPT ![PoolMutex(w)] = None]
  /\ req' = [req EXCEPT ![w] = None]
  /\ seen' = [seen EXCEPT ![w] = None]
  /\ draft' = [draft EXCEPT ![w] = None]
  /\ tries' = [tries EXCEPT ![w] = 0]
  /\ UNCHANGED <<store, poolVars, rrIndex, faults, envs>>

-----------------------------------------------------------------------------
(* checkForDuplicateAllocation: an allocation for this pod in this pool,   *)
(* being deleted or not, ends the call with an error.                      *)
Owns(r, object) ==
  object.pool = r.pool /\ object.podName = r.pod /\ object.podNs = r.podNs

checkForDuplicateAllocation(w) ==
  LET r == req[w]
      duplicate == \E k \in Keys : View(w)[k] # None /\ Owns(r, View(w)[k])
  IN  /\ Step(w, "dup", IF duplicate THEN "unlock" ELSE "fetch")
      /\ UNCHANGED <<store, poolVars, rrIndex, mutex, callVars, faults, envs>>

(* Faulty variant: a pool that is not there goes unnoticed. *)
FetchPoolUnchecked(w) ==
  /\ Step(w, "fetch", "list")
  /\ seen' = [seen EXCEPT ![w] = PoolView(w)[req[w].pool]]
  /\ UNCHANGED <<store, poolVars, rrIndex, mutex, req, draft, tries, faults, envs>>

(* getPoolAndAllocations, first half: the pool is looked up in the         *)
(* namespace of the pod.                                                   *)
FetchPool(w) ==
  LET r == req[w]
      found == PoolView(w)[r.pool] # None /\ PoolNamespace \in {"", r.podNs}
  IN  /\ Step(w, "fetch", IF found THEN "list" ELSE "unlock")
      /\ seen' = [seen EXCEPT ![w] = IF found THEN PoolView(w)[r.pool] ELSE None]
      /\ UNCHANGED <<store, poolVars, rrIndex, mutex, req, draft, tries, faults, envs>>

NewAllocation(r, bindings) ==
  [pool |-> r.pool, podName |-> r.pod, podNs |-> r.podNs,
   bindings |-> bindings, deleting |-> FALSE]

PortBindings(r, lb, ports) ==
  [i \in 1 .. Len(r.ports) |-> [podPort |-> r.ports[i], lb |-> lb, lbPort |-> ports[i]]]

(* Faulty variant: the pool is read again between the choice of the load   *)
(* balancer and that of the ports.                                         *)
ListAndSelectReread(w) ==
  LET r    == req[w]
      list == Labelled(View(w), r.pool)
      n    == Len(r.ports)
  IN  /\ Step(w, "list", "exists")
      /\ PoolView(w)[r.pool] # None
      /\ \E i \in SelectLoadBalancer(Strategy, seen[w], list, n, rrIndex[Process[w]][r.pool]) :
           \E ports \in findAvailablePorts(PoolView(w)[r.pool], list, seen[w].lbs[i], n) :
             draft' = [draft EXCEPT ![w] =
                         NewAllocation(r, PortBindings(r, seen[w].lbs[i], ports))]
      /\ UNCHANGED <<store, poolVars, rrIndex, mutex, req, seen, tries, faults, envs>>

(* getPoolAndAllocations, second half, and the rest of tryAllocatePort:    *)
(* the list, the choice of load balancer and ports, the new object.  The   *)
(* round-robin index moves as soon as a load balancer is selected.         *)
ListAndSelect(w) ==
  LET r    == req[w]
      spec == seen[w]
      n    == Len(r.ports)
      list == Labelled(View(w), r.pool)
      selected == IF n = 0 THEN {}
                  ELSE SelectLoadBalancer(Strategy, spec, list, n, rrIndex[Process[w]][r.pool])
      candidates == IF n = 0 THEN {<< >>}
                    ELSE UNION {{PortBindings(r, spec.lbs[i], ports) :
                                   ports \in findAvailablePorts(spec, list, spec.lbs[i], n)} :
                                i \in selected}
  IN  /\ pc[w] = "list"
      /\ rrIndex' = [rrIndex EXCEPT ![Process[w]][r.pool] = nextIndex(Strategy, spec, selected, @)]
      /\ \/ \E bindings \in candidates :
              /\ Step(w, "list", "exists")
              /\ draft' = [draft EXCEPT ![w] = NewAllocation(r, bindings)]
         \/ /\ candidates = {}
            /\ Step(w, "list", "unlock")
            /\ UNCHANGED draft
      /\ UNCHANGED <<store, poolVars, mutex, req, seen, tries, faults, envs>>

(* createAllocation, first half: an object of that name ends the call. *)
GetExisting(w) ==
  /\ Step(w, "exists", IF View(w)[CreateKey(req[w])] = None THEN "create" ELSE "unlock")
  /\ UNCHANGED <<store, poolVars, rrIndex, mutex, callVars, faults, envs>>

(* createAllocation, second half.  An API server that requires a namespace *)
(* refuses the object of a cluster-scoped pool, and any API server refuses *)
(* a second object of the same key.                                        *)
Creatable(k) == allocs[k] = None /\ ~(AllocationsNamespaced /\ PoolNamespace = "")

CreateSucceeds(w) ==
  /\ Step(w, "create", "unlock")
  /\ Creatable(CreateKey(req[w]))
  /\ Write(CreateKey(req[w]), draft[w])
  /\ UNCHANGED <<poolVars, rrIndex, mutex, callVars, faults, envs>>

CreateFails(w) ==
  /\ Step(w, "create", "unlock")
  /\ \/ ~Creatable(CreateKey(req[w])) /\ UNCHANGED faults
     \/ Fault
  /\ UNCHANGED <<store, poolVars, rrIndex, mutex, callVars, envs>>

(* A Conflict error (an admission quota under contention returns one for a *)
(* create): RetryOnConflict starts over while attempts are left.           *)
CreateConflicts(w) ==
  /\ Fault
  /\ \/ /\ tries[w] < MaxAttempts
        /\ Step(w, "create", "dup")
        /\ tries' = [tries EXCEPT ![w] = @ + 1]
        /\ seen' = [seen EXCEPT ![w] = None]
        /\ draft' = [draft EXCEPT ![w] = None]
     \/ /\ tries[w] >= MaxAttempts
        /\ Step(w, "create", "unlock")
        /\ UNCHANGED <<tries, seen, draft>>
  /\ UNCHANGED <<store, poolVars, rrIndex, mutex, req, envs>>

(* A Get or List that fails ends the call with an error. *)
ReadFails(w) ==
  /\ pc[w] \in {"dup", "fetch", "list", "exists", "get"}
  /\ pc' = [pc EXCEPT ![w] = "unlock"]
  /\ Fault
  /\ UNCHANGED <<store, poolVars, rrIndex, mutex, callVars, envs>>

-----------------------------------------------------------------------------
(* Faulty variant: the owner of the object is not verified. *)
GetForReleaseUnverified(w) ==
  /\ Step(w, "get", IF View(w)[ReleaseKey(req[w])] = None THEN "unlock" ELSE "delete")
  /\ UNCHANGED <<store, poolVars, rrIndex, mutex, callVars, faults, envs>>

(* ReleasePort up to its Delete: the object must exist, belong to the pod  *)
(* and to the pool, and not be on its way out already.                     *)
GetForRelease(w) ==
  LET r == req[w]
      object == View(w)[ReleaseKey(r)]
      verified == object # None /\ Owns(r, object) /\ ~object.deleting
  IN  /\ Step(w, "get", IF verified THEN "delete" ELSE "unlock")
      /\ UNCHANGED <<store, poolVars, rrIndex, mutex, callVars, faults, envs>>

(* The Delete of ReleasePort goes by key alone. *)
DeleteAllocation(w) ==
  /\ Step(w, "delete", "unlock")
  /\ \/ Delete(ReleaseKey(req[w])) /\ UNCHANGED faults
     \/ Fault /\ UNCHANGED store
  /\ UNCHANGED <<poolVars, rrIndex, mutex, callVars, envs>>

-----------------------------------------------------------------------------
(* The environment. *)
EnvStep == envs < MaxEnv /\ envs' = envs + 1

(* The pool is edited, deleted or created again. *)
ChangePool(p, s) ==
  /\ EnvStep
  /\ pools' = [pools EXCEPT ![p] = s]
  /\ UNCHANGED <<store, poolCache, rrIndex, mutex, pc, callVars, faults>>

(* Another client deletes an allocation. *)
ExternalDelete(k) ==
  /\ EnvStep
  /\ allocs[k] # None
  /\ Delete(k)
  /\ UNCHANGED <<poolVars, rrIndex, mutex, pc, callVars, faults>>

(* The last finalizer of an object that is being deleted is removed. *)
FinalizerDone(k) ==
  /\ allocs[k] # None /\ allocs[k].deleting
  /\ Write(k, None)
  /\ UNCHANGED <<poolVars, rrIndex, mutex, pc, callVars, faults, envs>>

(* The informers of a process receive the next change. *)
DeliverWatch(i) ==
  /\ watch[i] # <<>>
  /\ cache' = [cache EXCEPT ![i] = [@ EXCEPT ![watch[i][1][1]] = watch[i][1][2]]]
  /\ watch' = [watch EXCEPT ![i] = Tail(@)]
  /\ UNCHANGED <<allocs, poolVars, rrIndex, mutex, pc, callVars, faults, envs>>

DeliverPool(i, p) ==
  /\ CachedReads
  /\ poolCache[i][p] # pools[p]
  /\ poolCache' = [poolCache EXCEPT ![i] = [@ EXCEPT ![p] = pools[p]]]
  /\ UNCHANGED <<store, pools, rrIndex, mutex, pc, callVars, faults, envs>>

(* What the workers of process i had in hand. *)
Reset(i, f, initial) == [w \in Workers |-> IF Process[w] = i THEN initial ELSE f[w]]

(* A process dies and starts again: its calls, mutexes and indexes are     *)
(* gone, its caches are filled anew.                                       *)
Crash(i) ==
  /\ EnvStep
  /\ cache' = [cache EXCEPT ![i] = IF CachedReads THEN allocs ELSE @]
  /\ watch' = [watch EXCEPT ![i] = << >>]
  /\ poolCache' = [poolCache EXCEPT ![i] = IF CachedReads THEN pools ELSE @]
  /\ rrIndex' = [rrIndex EXCEPT ![i] = [p \in Pools |-> 0]]
  /\ mutex' = [m \in Processes \X MutexKeys |-> IF m[1] = i THEN None ELSE mutex[m]]
  /\ pc' = Reset(i, pc, "idle")
  /\ req' = Reset(i, req, None)
  /\ seen' = Reset(i, seen, None)
  /\ draft' = Reset(i, draft, None)
  /\ tries' = Reset(i, tries, 0)
  /\ UNCHANGED <<allocs, pools, faults>>

-----------------------------------------------------------------------------
Call(w) == \E r \in Requests : CallAllocate(w, r) \/ CallRelease(w, r)

(* The steps of a call once it holds the mutex. *)
Work(w) ==
  \/ checkForDuplicateAllocation(w) \/ FetchPool(w) \/ ListAndSelect(w)
  \/ GetExisting(w) \/ CreateSucceeds(w) \/ CreateFails(w) \/ CreateConflicts(w)
  \/ ReadFails(w)
  \/ GetForRelease(w) \/ DeleteAllocation(w)
  \/ Unlock(w)

Environment ==
  \/ \E p \in Pools : \/ \E s \in PoolSpecs[p] \cup {None} : ChangePool(p, s)
                      \/ \E i \in Processes : DeliverPool(i, p)
  \/ \E k \in Keys : ExternalDelete(k) \/ FinalizerDone(k)
  \/ \E i \in Processes : DeliverWatch(i) \/ Crash(i)

Next == \/ \E w \in Workers : Call(w) \/ Lock(w) \/ Work(w)
        \/ Environment

Spec == Init /\ [][Next]_vars

(* Goroutines are scheduled and API calls return; a Go mutex hands itself  *)
(* to a waiter that has waited long enough (starvation mode); informers    *)
(* catch up.  Nothing is assumed of the callers or the environment.        *)
Fairness ==
  /\ \A w \in Workers : WF_vars(Work(w)) /\ SF_vars(Lock(w))
  /\ \A i \in Processes : WF_vars(DeliverWatch(i))

FairSpec == Spec /\ Fairness

-----------------------------------------------------------------------------
PcValues == {"idle", "allocLock", "dup", "fetch", "list", "exists", "create",
             "releaseLock", "get", "delete", "unlock"}

InCallOK(w) ==
  /\ pc[w] # "idle" => req[w] \in Requests
  /\ pc[w] = "list" => seen[w] \in PoolSpec
  /\ pc[w] \in {"exists", "create"} => draft[w] \in PortAllocation

StoreOK ==
  /\ allocs \in [Keys -> PortAllocation \cup {None}]
  /\ cache \in [Processes -> [Keys -> PortAllocation \cup {None}]]
  /\ watch \in [Processes -> Seq(Keys \X (PortAllocation \cup {None}))]

PoolsOK ==
  /\ pools \in [Pools -> PoolSpec \cup {None}]
  /\ poolCache \in [Processes -> [Pools -> PoolSpec \cup {None}]]
  /\ rrIndex \in [Processes -> [Pools -> Int]]

CallsOK ==
  /\ mutex \in [Processes \X MutexKeys -> Workers \cup {None}]
  /\ pc \in [Workers -> PcValues]
  /\ req \in [Workers -> Requests \cup {None}]
  /\ seen \in [Workers -> PoolSpec \cup {None}]
  /\ draft \in [Workers -> PortAllocation \cup {None}]
  /\ tries \in [Workers -> Int]
  /\ \A w \in Workers : InCallOK(w)

CountersOK == faults \in 0 .. MaxFaults /\ envs \in 0 .. MaxEnv

(* Types of all variables; a call in progress has its arguments, the pool  *)
(* it fetched when it selects, and an object when it creates one.          *)
TypeOK == StoreOK /\ PoolsOK /\ CallsOK /\ CountersOK

-----------------------------------------------------------------------------
(* Ownership of ports *)

SameSlot(b, c) == b.lb = c.lb /\ b.lbPort = c.lbPort

Disjoint(bs, cs) == \A i \in DOMAIN bs, j \in DOMAIN cs : ~SameSlot(bs[i], cs[j])

Distinct(bs) == \A i, j \in DOMAIN bs : SameSlot(bs[i], bs[j]) => i = j

(* The per-pool locks "prevent conflicts" (PoolAllocator.poolMutexes): no  *)
(* port of a load balancer is bound twice among the allocations of a pool, *)
(* within one of them or between two, whatever the callers, failed and     *)
(* retried creates, crashes, deletions and edits of the pool.              *)
NoPortConflictInPool ==
  \A k \in Keys : allocs[k] # None =>
    /\ Distinct(allocs[k].bindings)
    /\ \A j \in Keys \ {k} :
         (allocs[j] # None /\ allocs[j].pool = allocs[k].pool)
           => Disjoint(allocs[j].bindings, allocs[k].bindings)

(* The allocations of pool p that bind a port of load balancer lb. *)
Binds(object, lb, port) ==
  \E i \in DOMAIN object.bindings :
    object.bindings[i].lb = lb /\ object.bindings[i].lbPort = port

Sharers(p, lb, port) ==
  {k \in Keys : allocs[k] # None /\ allocs[k].pool = p /\ Binds(allocs[k], lb, port)}

BoundPorts == UNION {{allocs[k].bindings[i].lbPort : i \in DOMAIN allocs[k].bindings} :
                     k \in {j \in Keys : allocs[j] # None}}

(* The mutexes exclude the workers of one process, the list shows what was *)
(* bound before it.  Several managers at once, and caches that trail by up *)
(* to MaxLag events, can give a port away again, but no oftener than this: *)
(* one allocation for each manager that chose it at the same time, and one *)
(* for each event that was still under way.                                *)
SharersBounded ==
  \A p \in Pools, lb \in LBs : \A port \in BoundPorts :
    Cardinality(Sharers(p, lb, port))
      <= Cardinality(Processes) + (IF CachedReads THEN MaxLag ELSE 0)

(* When it happens the queries of PortAllocationList tell: a port of a     *)
(* load balancer that two allocations of a pool bind makes                 *)
(* HasPortConflicts true, and FindAllocationsByLBPort names them both.     *)
ConflictsReported ==
  \A p \in Pools, lb \in LBs : \A port \in BoundPorts :
    LET list == Labelled(allocs, p)
        sharers == Sharers(p, lb, port)
    IN  Cardinality(sharers) > 1 =>
          HasPortConflicts(list) /\ sharers \subseteq FindAllocationsByLBPort(list, port)

(* One load balancer of the version s, ports of its range that it does not *)
(* exclude.                                                                *)
AdmittedBy(s, bs) ==
  \E n \in DOMAIN s.lbs : \A i \in DOMAIN bs :
    /\ bs[i].lb = s.lbs[n]
    /\ bs[i].lbPort \in (s.min .. s.max) \ ExcludedPorts(s)

FromOneSpec(object) ==
  object.bindings # << >> =>
    \E s \in PoolSpecs[object.pool] : AdmittedBy(s, object.bindings)

(* The bindings of an allocation come from a single version of its pool,   *)
(* even when the pool is edited between the steps of AllocatePort.         *)
BindingsFromOneSpec == \A k \in Keys : allocs[k] # None => FromOneSpec(allocs[k])

(* ReleasePort deletes an allocation of the pod and the pool it was called *)
(* for and no other, although it deletes by name some time after it        *)
(* verified the object.                                                    *)
ReleaseOwnOnly ==
  [][\A w \in Workers : \A k \in Keys :
       (pc[w] = "delete" /\ pc'[w] = "unlock" /\ allocs'[k] # allocs[k])
         => Owns(req[w], allocs[k])]_vars

(* With the "least-used" strategy a new allocation goes to a load balancer *)
(* that, at the moment of the Create, has the fewest bindings among those  *)
(* with room (a pool that is not edited meanwhile, no foreign deletions).  *)
GrantToLeastUsed ==
  [][\A k \in Keys :
       (allocs[k] = None /\ allocs'[k] # None /\ allocs'[k].bindings # << >>)
       => LET bs   == allocs'[k].bindings
              p    == allocs'[k].pool
              list == Labelled(allocs, p)
          IN  \A n \in DOMAIN pools[p].lbs :
                hasAvailablePorts(pools[p], list, pools[p].lbs[n], Len(bs))
                  => getLBPortUsage(list, bs[1].lb)
                       <= getLBPortUsage(list, pools[p].lbs[n])]_vars

(* Every call returns: the mutex of a pool cannot be lost or deadlocked,   *)
(* no retry goes on forever.                                               *)
CallReturns == \A w \in Workers : pc[w] # "idle" ~> pc[w] = "idle"

-----------------------------------------------------------------------------
(* The allocator implements the ledger.  The mutex and the list are per    *)
(* pool, so a slot is a port of a load balancer as a pool hands it out;    *)
(* the slots held under a key are the bindings of the object of that key.  *)

SlotsOf(k) ==
  IF allocs[k] = None THEN {}
  ELSE {<<allocs[k].pool, b.lb, b.lbPort>> :
          b \in {allocs[k].bindings[i] : i \in DOMAIN allocs[k].bindings}}

Ledger == INSTANCE PortLedger WITH
  Holders <- Keys,
  Slots   <- Pools \X LBs \X Int,
  held    <- [k \in Keys |-> SlotsOf(k)]

(* AllocatePort and ReleasePort change the ownership of ports only by      *)
(* granting free ports of a pool to a new allocation, all at once, or by   *)
(* giving back all the ports of one; nothing changes hands in between.     *)
ImplementsLedger == Ledger!Spec

-----------------------------------------------------------------------------
(* The strengthening of NoPortConflictInPool that the steps preserve.      *)

Holding == {"dup", "fetch", "list", "exists", "create", "get", "delete", "unlock"}

(* All workers run in one manager: the pool mutexes exclude them. *)
OneProcess == \A v, w \in Workers : Process[v] = Process[w]

(* A worker between Lock and Unlock holds the mutex of its pool. *)
MutexInv ==
  \A w \in Workers : pc[w] \in Holding => mutex[PoolMutex(w)] = w

(* The object a worker is about to create binds distinct ports, none of    *)
(* which an allocation of the same pool has.                               *)
DraftOK(w) ==
  /\ draft[w].pool = req[w].pool
  /\ Distinct(draft[w].bindings)
  /\ \A k \in Keys : (allocs[k] # None /\ allocs[k].pool = draft[w].pool)
       => Disjoint(allocs[k].bindings, draft[w].bindings)

DraftInv == \A w \in Workers : pc[w] \in {"exists", "create"} => DraftOK(w)

IInv == TypeOK /\ MutexInv /\ DraftInv /\ NoPortConflictInPool

-----------------------------------------------------------------------------
(* The strengthening of ReleaseOwnOnly.                                    *)

(* No two pools make objects of the same name, as "a" with pod "b-c" and   *)
(* "a-b" with pod "c" would.                                               *)
NoAlias ==
  \A r, s \in Requests : AllocationName(r) = AllocationName(s) => r.pool = s.pool

(* What ReleasePort has verified stays true until it deletes, or the       *)
(* object is gone.                                                         *)
Verified(w) ==
  LET object == allocs[ReleaseKey(req[w])]
  IN  object = None \/ Owns(req[w], object)

VerifiedInv == \A w \in Workers : pc[w] = "delete" => Verified(w)

-----------------------------------------------------------------------------
(* The strengthening of BindingsFromOneSpec: what is fetched, cached and   *)
(* drafted stems from the versions of the pool.                            *)

PoolsKnown ==
  \A p \in Pools : /\ pools[p] \in PoolSpecs[p] \cup {None}
                   /\ \A i \in Processes : poolCache[i][p] \in PoolSpecs[p] \cup {None}

SeenKnown == \A w \in Workers : pc[w] = "list" => seen[w] \in PoolSpecs[req[w].pool]

DraftKnown == \A w \in Workers : pc[w] \in {"exists", "create"} => FromOneSpec(draft[w])

SpecInv == TypeOK /\ PoolsKnown /\ SeenKnown /\ DraftKnown /\ BindingsFromOneSpec
=============================================================================
