---------------------------- MODULE SharingProofs ----------------------------
(***************************************************************************)
(* What remains true of PoolAllocator with several managers and with reads *)
(* from caches: how often a port can be given away again, and that the     *)
(* queries of PortAllocationList report it.                                *)
(***************************************************************************)
EXTENDS PoolAllocatorProofs

Stored == {k \in Keys : allocs[k] # None}

(* The managers in which a worker is about to create an object of pool p   *)
(* that binds a port of load balancer lb.                                  *)
Choosers(p, lb, port) ==
  {Process[w] : w \in {v \in Workers : /\ pc[v] \in {"exists", "create"}
                                       /\ draft[v].pool = p
                                       /\ Binds(draft[v], lb, port)}}

Bound == Cardinality(Processes) + (IF CachedReads THEN MaxLag ELSE 0)

(* A manager that is about to bind the port counts as if it already had.   *)
ShareBounded ==
  \A p \in Pools, lb \in LBs, port \in Int :
    Cardinality(Sharers(p, lb, port)) + Cardinality(Choosers(p, lb, port)) <= Bound

DraftPool == \A w \in Workers : pc[w] \in {"exists", "create"} => draft[w].pool = req[w].pool

(* The last event under way for a key. *)
LastEvent(i, n) ==
  \A m \in DOMAIN watch[i] : m > n => watch[i][m][1] # watch[i][n][1]

(* The cache of a process differs from the API server only in keys that    *)
(* have an event under way, and the last such event brings the difference. *)
CacheOf(i) ==
  /\ Len(watch[i]) <= MaxLag
  /\ \A k \in Keys : \/ cache[i][k] = allocs[k]
                     \/ \E n \in DOMAIN watch[i] : watch[i][n][1] = k
  /\ \A n \in DOMAIN watch[i] : LastEvent(i, n) => watch[i][n][2] = allocs[watch[i][n][1]]

CacheInv == \A i \in Processes : CacheOf(i)

ShareInv ==
  /\ TypeOK /\ MutexInv /\ DraftPool
  /\ IsFiniteSet(Stored)
  /\ CachedReads => CacheInv
  /\ ShareBounded

-----------------------------------------------------------------------------
(* Finite sets *)

(* There are finitely many managers.                                       *)
LEMMA ManagersFinite == IsFiniteSet(Processes) /\ Cardinality(Processes) \in Nat
<1> DEFINE f == [w \in Workers |-> Process[w]]
<1>1. Processes = {f[w] : w \in Workers} /\ DOMAIN f = Workers
  BY DEF Processes
<1> HIDE DEF f
<1>2. IsFiniteSet({f[w] : w \in Workers})
  BY <1>1, ImageSize, WorkersAssumption
<1> QED BY <1>1, <1>2, FS_CardinalityType

(* The bound is a number.                                                  *)
LEMMA BoundType == Bound \in Nat /\ Cardinality(Processes) <= Bound
BY ManagersFinite, BoundsAssumption DEF Bound

(* Sharers and choosers are finite, and at most all managers choose.       *)
LEMMA SharersType ==
  ASSUME IsFiniteSet(Stored), NEW p, NEW lb, NEW port
  PROVE  /\ IsFiniteSet(Sharers(p, lb, port)) /\ Cardinality(Sharers(p, lb, port)) \in Nat
         /\ IsFiniteSet(Choosers(p, lb, port)) /\ Cardinality(Choosers(p, lb, port)) \in Nat
         /\ Cardinality(Choosers(p, lb, port)) <= Cardinality(Processes)
<1>1. Sharers(p, lb, port) \subseteq Stored /\ Choosers(p, lb, port) \subseteq Processes
  BY DEF Sharers, Stored, Choosers, Processes
<1>2. IsFiniteSet(Sharers(p, lb, port))
  BY <1>1, FS_Subset
<1>3. IsFiniteSet(Choosers(p, lb, port)) /\ Cardinality(Choosers(p, lb, port)) <= Cardinality(Processes)
  BY <1>1, ManagersFinite, FS_Subset
<1> QED BY <1>2, <1>3, FS_CardinalityType

(* The API server never holds more than finitely many objects: only a      *)
(* Create adds one.                                                        *)
LEMMA StoredNext ==
  ASSUME TypeOK, IsFiniteSet(Stored), [Next]_vars
  PROVE  IsFiniteSet(Stored')
<1>1. CASE NothingNew
  <2>1. Stored' \subseteq Stored
    BY <1>1 DEF NothingNew, Stored
  <2> QED BY <2>1, FS_Subset
<1>2. ASSUME NEW w \in Workers, CreateSucceeds(w) PROVE IsFiniteSet(Stored')
  <2> DEFINE key == CreateKey(req[w])
  <2>1. allocs' = [allocs EXCEPT ![key] = draft[w]]
    BY <1>2, Created
  <2>2. Stored' \subseteq Stored \cup {key}
    BY <2>1 DEF Stored, TypeOK, StoreOK
  <2>3. IsFiniteSet(Stored \cup {key})
    BY FS_AddElement
  <2> QED BY <2>2, <2>3, FS_Subset
<1> QED BY <1>1, <1>2, OnlyCreateAdds

-----------------------------------------------------------------------------
(* The caches *)

(* What a step may do to the API server and the caches.                    *)
LEMMA WatchStep ==
  ASSUME TypeOK, [Next]_vars
  PROVE  \/ UNCHANGED store
         \/ \E k \in Keys : \E object : Write(k, object)
         \/ \E i \in Processes : DeliverWatch(i) \/ Crash(i)
<1> DEFINE Goal == \/ UNCHANGED store
                   \/ \E k \in Keys : \E object : Write(k, object)
                   \/ \E i \in Processes : DeliverWatch(i) \/ Crash(i)
<1>1. ASSUME NEW k \in Keys, Delete(k) PROVE Goal
  BY <1>1 DEF Delete
<1>2. ASSUME NEW w \in Workers, DeleteAllocation(w) PROVE Goal
  <2>1. ReleaseKey(req[w]) \in Keys
    BY <1>2, InCall, KeyTypes DEF DeleteAllocation, Step
  <2>2. Delete(ReleaseKey(req[w])) \/ UNCHANGED store
    BY <1>2 DEF DeleteAllocation
  <2> QED BY <1>1, <2>1, <2>2
<1>3. ASSUME NEW w \in Workers, CreateSucceeds(w) PROVE Goal
  <2>1. CreateKey(req[w]) \in Keys /\ Write(CreateKey(req[w]), draft[w])
    BY <1>3, Created DEF CreateSucceeds
  <2> QED BY <2>1
<1>4. ASSUME NEW w \in Workers, Call(w) \/ Lock(w) PROVE Goal
  BY <1>4 DEF Call, CallAllocate, CallRelease, Lock
<1>5. ASSUME NEW w \in Workers, Work(w), ~DeleteAllocation(w), ~CreateSucceeds(w) PROVE Goal
  BY <1>5 DEF Work, checkForDuplicateAllocation, FetchPool, ListAndSelect, GetExisting,
              CreateFails, CreateConflicts, ReadFails, GetForRelease, Unlock
<1>6. ASSUME Environment PROVE Goal
  <2>1. ASSUME NEW k \in Keys, ExternalDelete(k) \/ FinalizerDone(k) PROVE Goal
    BY <1>1, <2>1 DEF ExternalDelete, FinalizerDone
  <2>2. ASSUME NEW p \in Pools, \/ \E s \in PoolSpecs[p] \cup {None} : ChangePool(p, s)
                                \/ \E i \in Processes : DeliverPool(i, p)
        PROVE  Goal
    BY <2>2 DEF ChangePool, DeliverPool
  <2> QED BY <1>6, <2>1, <2>2 DEF Environment
<1>7. CASE UNCHANGED vars
  BY <1>7 DEF vars
<1> QED BY <1>2, <1>3, <1>4, <1>5, <1>6, <1>7 DEF Next

(* Every write is announced to every cache, the caches apply what they are *)
(* told in order, and one that starts again starts from the API server.    *)
LEMMA CacheNext ==
  ASSUME CachedReads, TypeOK, CacheInv, [Next]_vars
  PROVE  CacheInv'
<1> DEFINE Event == Keys \X (PortAllocation \cup {None})
<1>0. /\ allocs \in [Keys -> PortAllocation \cup {None}]
      /\ cache \in [Processes -> [Keys -> PortAllocation \cup {None}]]
      /\ watch \in [Processes -> Seq(Event)]
  BY DEF TypeOK, StoreOK
<1> SUFFICES ASSUME NEW i \in Processes PROVE CacheOf(i)'
  BY DEF CacheInv
<1> HIDE DEF Event
<1>i. CacheOf(i)
  BY DEF CacheInv
<1> DEFINE q == watch[i]
<1>q. q \in Seq(Event) /\ Len(q) \in Nat /\ DOMAIN q = 1 .. Len(q)
  BY <1>0
<1>1. CASE UNCHANGED <<allocs, cache[i], watch[i]>>
  BY <1>1, <1>i DEF CacheOf, LastEvent
<1>2. ASSUME NEW k \in Keys, NEW object, Write(k, object) PROVE CacheOf(i)'
  <2>1. /\ Len(q) < MaxLag /\ watch'[i] = Append(q, <<k, object>>)
        /\ cache' = cache /\ allocs' = [allocs EXCEPT ![k] = object]
    BY <1>0, <1>2 DEF Write
  <2> DEFINE r == Append(q, <<k, object>>)
  <2>2. /\ Len(r) = Len(q) + 1 /\ DOMAIN r = 1 .. Len(q) + 1
        /\ \A n \in 1 .. Len(q) : r[n] = q[n]
        /\ r[Len(q) + 1] = <<k, object>>
    BY <1>q
  <2> HIDE DEF r
  <2>3. Len(r) <= MaxLag
    BY <1>q, <2>1, <2>2, BoundsAssumption
  <2>4. ASSUME NEW j \in Keys
        PROVE  cache'[i][j] = allocs'[j] \/ \E n \in DOMAIN r : r[n][1] = j
    <3>1. CASE j = k
      <4>1. Len(q) + 1 \in DOMAIN r /\ r[Len(q) + 1][1] = j
        BY <1>q, <2>2, <3>1
      <4> QED BY <4>1
    <3>2. CASE j # k
      <4>1. allocs'[j] = allocs[j] /\ cache'[i][j] = cache[i][j]
        BY <1>0, <2>1, <3>2
      <4>2. \A n \in DOMAIN q : n \in DOMAIN r /\ r[n] = q[n]
        BY <1>q, <2>2
      <4> QED BY <1>i, <4>1, <4>2 DEF CacheOf
    <3> QED BY <3>1, <3>2
  <2>5. ASSUME NEW n \in DOMAIN r, \A m \in DOMAIN r : m > n => r[m][1] # r[n][1]
        PROVE  r[n][2] = allocs'[r[n][1]]
    <3>1. CASE n = Len(q) + 1
      BY <1>0, <2>1, <2>2, <3>1
    <3>2. CASE n # Len(q) + 1
      <4>1. n \in DOMAIN q /\ r[n] = q[n] /\ n < Len(q) + 1 /\ Len(q) + 1 \in DOMAIN r
        BY <1>q, <2>2, <3>2
      <4>2. q[n][1] # k
        BY <1>q, <2>2, <2>5, <4>1
      <4>3. \A m \in DOMAIN q : m > n => q[m][1] # q[n][1]
        BY <1>q, <2>2, <2>5, <4>1
      <4>4. q[n][2] = allocs[q[n][1]]
        BY <1>i, <4>1, <4>3 DEF CacheOf, LastEvent
      <4> QED BY <1>0, <2>1, <4>1, <4>2, <4>4
    <3> QED BY <3>1, <3>2
  <2>6. watch'[i] = r
    BY <2>1 DEF r
  <2> QED BY <2>3, <2>4, <2>5, <2>6 DEF CacheOf, LastEvent
<1>3. ASSUME DeliverWatch(i) PROVE CacheOf(i)'
  <2> DEFINE r == Tail(q)
             key == q[1][1]
  <2>0. q # << >>
    BY <1>3 DEF DeliverWatch
  <2>1. /\ watch'[i] = r /\ allocs' = allocs
        /\ cache'[i] = [cache[i] EXCEPT ![key] = q[1][2]]
    BY <1>0, <1>3 DEF DeliverWatch
  <2>2. /\ Len(q) > 0 /\ Len(r) = Len(q) - 1 /\ DOMAIN r = 1 .. Len(q) - 1
        /\ \A n \in 1 .. Len(q) - 1 : r[n] = q[n + 1]
    BY <1>q, <2>0
  <2> HIDE DEF r
  <2>3. Len(r) <= MaxLag
    <3>1. Len(q) <= MaxLag
      BY <1>i DEF CacheOf
    <3> QED BY <1>q, <2>2, <3>1, BoundsAssumption
  <2>4. ASSUME NEW j \in Keys, \A n \in DOMAIN r : r[n][1] # j
        PROVE  cache'[i][j] = allocs'[j]
    <3>1. \A n \in DOMAIN q : n # 1 => n - 1 \in DOMAIN r /\ r[n - 1] = q[n]
      BY <1>q, <2>2
    <3>2. \A n \in DOMAIN q : n # 1 => q[n][1] # j
      BY <2>4, <3>1
    <3>3. CASE j = key
      <4>1. cache'[i][j] = q[1][2]
        BY <1>0, <2>1, <3>3
      <4>2. 1 \in DOMAIN q
        BY <1>q, <2>2
      <4>3. \A m \in DOMAIN q : m > 1 => q[m][1] # q[1][1]
        BY <1>q, <3>2, <3>3
      <4>4. q[1][2] = allocs[q[1][1]]
        BY <1>i, <4>2, <4>3 DEF CacheOf, LastEvent
      <4> QED BY <2>1, <3>3, <4>1, <4>4
    <3>4. CASE j # key
      <4>1. cache'[i][j] = cache[i][j]
        BY <1>0, <2>1, <3>4
      <4>2. \A n \in DOMAIN q : q[n][1] # j
        BY <3>2, <3>4
      <4> QED BY <1>i, <2>1, <4>1, <4>2 DEF CacheOf
    <3> QED BY <3>3, <3>4
  <2>5. ASSUME NEW n \in DOMAIN r, \A m \in DOMAIN r : m > n => r[m][1] # r[n][1]
        PROVE  r[n][2] = allocs'[r[n][1]]
    <3>1. n + 1 \in DOMAIN q /\ r[n] = q[n + 1]
      BY <1>q, <2>2
    <3>2. ASSUME NEW m \in DOMAIN q, m > n + 1 PROVE q[m][1] # q[n + 1][1]
      <4>1. m - 1 \in DOMAIN r /\ m - 1 > n /\ r[m - 1] = q[m]
        BY <1>q, <2>2, <3>2
      <4> QED BY <2>5, <3>1, <4>1
    <3>3. q[n + 1][2] = allocs[q[n + 1][1]]
      BY <1>i, <3>1, <3>2 DEF CacheOf, LastEvent
    <3> QED BY <2>1, <3>1, <3>3
  <2> QED BY <2>1, <2>3, <2>4, <2>5 DEF CacheOf, LastEvent
<1>4. ASSUME Crash(i) PROVE CacheOf(i)'
  <2>1. watch'[i] = << >> /\ cache'[i] = allocs /\ allocs' = allocs
    BY <1>0, <1>4 DEF Crash
  <2>2. Len(<< >>) <= MaxLag /\ DOMAIN << >> = {}
    BY BoundsAssumption
  <2> QED BY <2>1, <2>2 DEF CacheOf
<1>5. ASSUME NEW j \in Processes, j # i, DeliverWatch(j) \/ Crash(j) PROVE CacheOf(i)'
  <2>1. UNCHANGED <<allocs, cache[i], watch[i]>>
    BY <1>0, <1>5 DEF DeliverWatch, Crash
  <2> QED BY <1>1, <2>1
<1>6. CASE UNCHANGED store
  BY <1>1, <1>6 DEF store
<1> QED BY <1>2, <1>3, <1>4, <1>5, <1>6, WatchStep

(* A cache shows all but at most MaxLag keys as they are.                  *)
LEMMA StaleKeys ==
  ASSUME TypeOK, CacheInv, NEW i \in Processes
  PROVE  /\ IsFiniteSet({k \in Keys : cache[i][k] # allocs[k]})
         /\ Cardinality({k \in Keys : cache[i][k] # allocs[k]}) <= MaxLag
<1> DEFINE Event == Keys \X (PortAllocation \cup {None})
           q == watch[i]
           stale == {k \in Keys : cache[i][k] # allocs[k]}
           f == [n \in 1 .. Len(q) |-> q[n][1]]
           pending == {f[n] : n \in 1 .. Len(q)}
<1>1. q \in Seq(Event)
  BY DEF TypeOK, StoreOK
<1>2. Len(q) \in Nat /\ DOMAIN q = 1 .. Len(q)
  BY <1>1
<1>3. CacheOf(i)
  BY DEF CacheInv
<1>4. stale \subseteq pending
  BY <1>2, <1>3 DEF CacheOf
<1>5. IsFiniteSet(1 .. Len(q)) /\ Cardinality(1 .. Len(q)) = Len(q)
  BY <1>2, FS_Interval
<1>6. DOMAIN f = 1 .. Len(q)
  OBVIOUS
<1>7. Len(q) <= MaxLag
  BY <1>3 DEF CacheOf
<1> HIDE DEF f, q, stale
<1>8. IsFiniteSet(pending) /\ Cardinality(pending) <= Len(q)
  BY <1>5, <1>6, ImageSize
<1> HIDE DEF pending
<1>9. IsFiniteSet(stale) /\ Cardinality(stale) <= Cardinality(pending)
  BY <1>4, <1>8, FS_Subset
<1>10. Cardinality(stale) \in Nat /\ Cardinality(pending) \in Nat
  BY <1>8, <1>9, FS_CardinalityType
<1>11. Cardinality(stale) <= MaxLag
  BY <1>2, <1>7, <1>8, <1>9, <1>10, BoundsAssumption
<1> QED BY <1>9, <1>11 DEF stale

-----------------------------------------------------------------------------
(* How often a port can be given away *)

(* A draft is for the pool of the call.                                    *)
LEMMA DraftPoolNext ==
  ASSUME TypeOK, DraftPool, [Next]_vars
  PROVE  DraftPool'
<1> SUFFICES ASSUME NEW v \in Workers, pc'[v] \in {"exists", "create"}
             PROVE  draft'[v].pool = req'[v].pool
  BY DEF DraftPool
<1>1. CASE ListAndSelect(v)
  <2>1. req' = req
    BY <1>1 DEF ListAndSelect
  <2>2. pc \in [Workers -> PcValues] /\ draft \in [Workers -> PortAllocation \cup {None}]
    BY DEF TypeOK, CallsOK
  <2>3. PICK bs \in Seq(Binding) : draft' = [draft EXCEPT ![v] = NewAllocation(req[v], bs)]
    BY <1>1, <2>2, ListStep
  <2> QED BY <2>1, <2>2, <2>3 DEF NewAllocation
<1>2. CASE ~ListAndSelect(v)
  BY <1>2, DraftKept DEF DraftPool
<1> QED BY <1>1, <1>2

(* At the moment a worker chooses a port, the allocations that have it are *)
(* those its view does not show: none with direct reads, at most one for   *)
(* each event under way with a cache.                                      *)
LEMMA ChosenUnseen ==
  ASSUME TypeOK, IsFiniteSet(Stored), CachedReads => CacheInv,
         NEW w \in Workers, NEW p, NEW lb, NEW port,
         \A k \in Keys : (View(w)[k] # None /\ View(w)[k].pool = p)
                            => ~Binds(View(w)[k], lb, port)
  PROVE  Cardinality(Sharers(p, lb, port)) + Cardinality(Processes) <= Bound
<1>1. CASE ~CachedReads
  <2>1. Sharers(p, lb, port) = {}
    BY <1>1 DEF View, Sharers
  <2>2. Cardinality(Sharers(p, lb, port)) = 0
    BY <2>1, FS_EmptySet
  <2> QED BY <2>2, BoundType, ManagersFinite
<1>2. CASE CachedReads
  <2> DEFINE i == Process[w]
             stale == {k \in Keys : cache[i][k] # allocs[k]}
  <2>1. i \in Processes
    BY DEF Processes
  <2>2. Sharers(p, lb, port) \subseteq stale
    BY <1>2 DEF View, Sharers
  <2> HIDE DEF i
  <2>3. IsFiniteSet(stale) /\ Cardinality(stale) <= MaxLag
    BY <1>2, <2>1, StaleKeys
  <2> HIDE DEF stale
  <2>4. Cardinality(Sharers(p, lb, port)) <= Cardinality(stale)
    BY <2>2, <2>3, FS_Subset
  <2>5. Cardinality(stale) \in Nat /\ Cardinality(Sharers(p, lb, port)) \in Nat
    BY <2>3, FS_CardinalityType, SharersType
  <2>6. Cardinality(Sharers(p, lb, port)) <= MaxLag
    BY <2>3, <2>4, <2>5, BoundsAssumption
  <2> QED BY <1>2, <2>5, <2>6, ManagersFinite, BoundsAssumption DEF Bound
<1> QED BY <1>1, <1>2

(* A step with which no worker chooses the port adds no chooser.           *)
LEMMA ChoosersKept ==
  ASSUME TypeOK, [Next]_vars, NEW p, NEW lb, NEW port,
         \A w \in Workers : ListAndSelect(w) =>
           ~(pc'[w] = "exists" /\ draft'[w].pool = p /\ Binds(draft'[w], lb, port))
  PROVE  Choosers(p, lb, port)' \subseteq Choosers(p, lb, port)
<1> SUFFICES ASSUME NEW v \in Workers, pc'[v] \in {"exists", "create"},
                    draft'[v].pool = p, Binds(draft'[v], lb, port)
             PROVE  Process[v] \in Choosers(p, lb, port)
  BY DEF Choosers, Binds
<1>1. CASE ListAndSelect(v)
  <2>1. pc'[v] = "exists"
    <3>1. pc \in [Workers -> PcValues]
      BY DEF TypeOK, CallsOK
    <3> QED BY <1>1, <3>1, ListStep
  <2> QED BY <1>1, <2>1
<1>2. CASE ~ListAndSelect(v)
  <2>1. pc[v] \in {"exists", "create"} /\ draft'[v] = draft[v]
    BY <1>2, DraftKept
  <2> QED BY <2>1 DEF Choosers
<1> QED BY <1>1, <1>2

(* A Create turns one chooser into one sharer: no other worker of its      *)
(* process works on the pool.                                              *)
LEMMA CreateTrades ==
  ASSUME TypeOK, MutexInv, DraftPool, IsFiniteSet(Stored), [Next]_vars,
         NEW w \in Workers, CreateSucceeds(w), NEW p, NEW lb, NEW port,
         draft[w].pool = p, Binds(draft[w], lb, port)
  PROVE  Cardinality(Sharers(p, lb, port)') + Cardinality(Choosers(p, lb, port)')
           <= Cardinality(Sharers(p, lb, port)) + Cardinality(Choosers(p, lb, port))
<1> DEFINE key == CreateKey(req[w])
           sharers == Sharers(p, lb, port)
           choosers == Choosers(p, lb, port)
<1>1. /\ pc[w] = "create" /\ pc' = [pc EXCEPT ![w] = "unlock"]
      /\ allocs' = [allocs EXCEPT ![key] = draft[w]]
      /\ draft' = draft
  BY Created
<1>0. /\ pc \in [Workers -> PcValues] /\ allocs \in [Keys -> PortAllocation \cup {None}]
  BY DEF TypeOK, CallsOK, StoreOK
<1>2. sharers' \subseteq sharers \cup {key}
  <2> SUFFICES ASSUME NEW k \in Keys, k # key, k \in sharers' PROVE k \in sharers
    BY DEF Sharers
  <2>1. allocs'[k] = allocs[k]
    BY <1>0, <1>1
  <2> QED BY <2>1 DEF Sharers, Binds
<1>3. Process[w] \in choosers
  BY <1>1 DEF Choosers
<1>4. choosers' \subseteq choosers \ {Process[w]}
  <2> SUFFICES ASSUME NEW v \in Workers, pc'[v] \in {"exists", "create"},
                      draft'[v].pool = p, Binds(draft'[v], lb, port)
               PROVE  Process[v] \in choosers \ {Process[w]}
    BY DEF Choosers, Binds
  <2>1. v # w /\ pc[v] \in {"exists", "create"} /\ draft[v] = draft'[v]
    BY <1>0, <1>1
  <2>2. Process[v] \in choosers
    BY <2>1 DEF Choosers
  <2>3. req[v].pool = req[w].pool
    BY <1>1, <2>1 DEF DraftPool
  <2>4. Process[v] # Process[w]
    BY <1>1, <2>1, <2>3, OnePerProcess DEF Holding
  <2> QED BY <2>2, <2>4
<1>5. /\ IsFiniteSet(sharers) /\ Cardinality(sharers) \in Nat
      /\ IsFiniteSet(choosers) /\ Cardinality(choosers) \in Nat
  BY SharersType
<1> DEFINE s == sharers'
           c == choosers'
<1>6. s \subseteq sharers \cup {key} /\ c \subseteq choosers \ {Process[w]}
  BY <1>2, <1>4
<1> HIDE DEF sharers, choosers, s, c, key
<1>7. /\ IsFiniteSet(sharers \cup {key})
      /\ Cardinality(sharers \cup {key}) <= Cardinality(sharers) + 1
      /\ Cardinality(sharers \cup {key}) \in Nat
  <2>1. /\ IsFiniteSet(sharers \cup {key})
        /\ Cardinality(sharers \cup {key}) \in {Cardinality(sharers), Cardinality(sharers) + 1}
    BY <1>5, FS_AddElement
  <2> QED BY <1>5, <2>1
<1>8. /\ IsFiniteSet(choosers \ {Process[w]})
      /\ Cardinality(choosers \ {Process[w]}) = Cardinality(choosers) - 1
  BY <1>3, <1>5, FS_RemoveElement
<1>9. /\ Cardinality(s) <= Cardinality(sharers \cup {key})
      /\ Cardinality(c) <= Cardinality(choosers \ {Process[w]})
      /\ IsFiniteSet(s) /\ IsFiniteSet(c)
  BY <1>6, <1>7, <1>8, FS_Subset
<1>10. Cardinality(s) \in Nat /\ Cardinality(c) \in Nat
  BY <1>9, FS_CardinalityType
<1>11. Cardinality(s) + Cardinality(c) <= Cardinality(sharers) + Cardinality(choosers)
  BY <1>5, <1>7, <1>8, <1>9, <1>10
<1> QED BY <1>11 DEF s, c, sharers, choosers

(* A step that neither chooses the port nor creates an object with it      *)
(* leaves no more sharers.                                                 *)
LEMMA SharersKept ==
  ASSUME TypeOK, [Next]_vars, NEW p, NEW lb, NEW port,
         \A w \in Workers : CreateSucceeds(w)
                               => ~(draft[w].pool = p /\ Binds(draft[w], lb, port))
  PROVE  Sharers(p, lb, port)' \subseteq Sharers(p, lb, port)
<1> SUFFICES ASSUME NEW k \in Keys, allocs'[k] # None, allocs'[k].pool = p,
                    Binds(allocs'[k], lb, port)
             PROVE  k \in Sharers(p, lb, port)
  BY DEF Sharers, Binds
<1>1. CASE NothingNew
  BY <1>1 DEF NothingNew, Sharers, Binds
<1>2. ASSUME NEW w \in Workers, CreateSucceeds(w) PROVE k \in Sharers(p, lb, port)
  <2>1. allocs' = [allocs EXCEPT ![CreateKey(req[w])] = draft[w]]
    BY <1>2, Created
  <2>2. k # CreateKey(req[w])
    BY <1>2, <2>1 DEF TypeOK, StoreOK
  <2>3. allocs'[k] = allocs[k]
    BY <2>1, <2>2 DEF TypeOK, StoreOK
  <2> QED BY <2>3 DEF Sharers
<1> QED BY <1>1, <1>2, OnlyCreateAdds

(* No step takes a port beyond the bound.                                  *)
LEMMA ShareNext ==
  ASSUME ShareInv, [Next]_vars
  PROVE  ShareBounded'
<1>0. /\ TypeOK /\ MutexInv /\ DraftPool /\ IsFiniteSet(Stored)
      /\ (CachedReads => CacheInv) /\ ShareBounded
  BY DEF ShareInv
<1> SUFFICES ASSUME NEW p \in Pools, NEW lb \in LBs, NEW port \in Int
             PROVE  Cardinality(Sharers(p, lb, port)') + Cardinality(Choosers(p, lb, port)') <= Bound
  BY DEF ShareBounded, Bound
<1> DEFINE sharers == Sharers(p, lb, port)
           choosers == Choosers(p, lb, port)
           s == sharers'
           c == choosers'
<1>1. /\ IsFiniteSet(sharers) /\ Cardinality(sharers) \in Nat
      /\ IsFiniteSet(choosers) /\ Cardinality(choosers) \in Nat
      /\ Bound \in Nat /\ Cardinality(Processes) \in Nat
      /\ Cardinality(sharers) + Cardinality(choosers) <= Bound
  BY <1>0, SharersType, BoundType, ManagersFinite DEF ShareBounded
<1>2. /\ IsFiniteSet(s) /\ Cardinality(s) \in Nat
      /\ IsFiniteSet(c) /\ Cardinality(c) \in Nat
      /\ Cardinality(c) <= Cardinality(Processes)
  <2>1. s \subseteq Stored' /\ c \subseteq Processes
    BY DEF Sharers, Stored, Choosers, Processes
  <2>2. IsFiniteSet(Stored')
    BY <1>0, StoredNext
  <2> HIDE DEF s, c
  <2>3. IsFiniteSet(s) /\ IsFiniteSet(c) /\ Cardinality(c) <= Cardinality(Processes)
    BY <2>1, <2>2, ManagersFinite, FS_Subset
  <2> QED BY <2>3, FS_CardinalityType
<1>3. ASSUME NEW w \in Workers, ListAndSelect(w), pc'[w] = "exists",
             draft'[w].pool = p, Binds(draft'[w], lb, port)
      PROVE  Cardinality(s) + Cardinality(c) <= Bound
  <2>1. pc \in [Workers -> PcValues] /\ draft \in [Workers -> PortAllocation \cup {None}]
    BY <1>0 DEF TypeOK, CallsOK
  <2>2. PICK bs \in Seq(Binding) :
          /\ draft' = [draft EXCEPT ![w] = NewAllocation(req[w], bs)]
          /\ \A k \in Keys : (View(w)[k] # None /\ View(w)[k].pool = req[w].pool)
                               => Disjoint(View(w)[k].bindings, bs)
    BY <1>0, <1>3, <2>1, ListStep
  <2>3. draft'[w].pool = req[w].pool /\ draft'[w].bindings = bs
    BY <2>1, <2>2 DEF NewAllocation
  <2>4. \A k \in Keys : (View(w)[k] # None /\ View(w)[k].pool = p)
                            => ~Binds(View(w)[k], lb, port)
    BY <1>3, <2>2, <2>3 DEF Disjoint, SameSlot, Binds
  <2>5. Cardinality(sharers) + Cardinality(Processes) <= Bound
    BY <1>0, <2>4, ChosenUnseen
  <2>6. s = sharers
    <3>1. allocs' = allocs
      BY <1>3 DEF ListAndSelect, store
    <3> QED BY <3>1 DEF Sharers, Binds
  <2> HIDE DEF s, c, sharers
  <2> QED BY <1>1, <1>2, <2>5, <2>6
<1>4. ASSUME NEW w \in Workers, CreateSucceeds(w), draft[w].pool = p, Binds(draft[w], lb, port)
      PROVE  Cardinality(s) + Cardinality(c) <= Bound
  <2>1. Cardinality(s) + Cardinality(c) <= Cardinality(sharers) + Cardinality(choosers)
    BY <1>0, <1>4, CreateTrades
  <2> HIDE DEF s, c, sharers, choosers
  <2> QED BY <1>1, <1>2, <2>1
<1>5. ASSUME \A w \in Workers : ListAndSelect(w) =>
               ~(pc'[w] = "exists" /\ draft'[w].pool = p /\ Binds(draft'[w], lb, port)),
             \A w \in Workers : CreateSucceeds(w)
                               => ~(draft[w].pool = p /\ Binds(draft[w], lb, port))
      PROVE  Cardinality(s) + Cardinality(c) <= Bound
  <2>1. s \subseteq sharers /\ c \subseteq choosers
    BY <1>0, <1>5, SharersKept, ChoosersKept
  <2> HIDE DEF s, c, sharers, choosers
  <2>2. Cardinality(s) <= Cardinality(sharers) /\ Cardinality(c) <= Cardinality(choosers)
    BY <1>1, <2>1, FS_Subset
  <2> QED BY <1>1, <1>2, <2>2
<1> QED BY <1>3, <1>4, <1>5

(* The bound holds with all it rests on.                                   *)
LEMMA ShareInductive == Spec => []ShareInv
<1>1. Init => ShareInv
  <2> SUFFICES ASSUME Init PROVE ShareInv
    OBVIOUS
  <2>1. TypeOK /\ MutexInv /\ DraftPool
    BY TypeInit, MutexInit DEF Init, DraftPool
  <2>2. Stored = {}
    BY DEF Init, Stored
  <2>3. IsFiniteSet(Stored)
    BY <2>2, FS_EmptySet
  <2>4. CacheInv
    <3>1. Len(<< >>) <= MaxLag /\ DOMAIN << >> = {}
      BY BoundsAssumption
    <3> QED BY <3>1 DEF Init, CacheInv, CacheOf
  <2>5. ShareBounded
    <3> SUFFICES ASSUME NEW p \in Pools, NEW lb \in LBs, NEW port \in Int
                 PROVE  Cardinality(Sharers(p, lb, port)) + Cardinality(Choosers(p, lb, port)) <= Bound
      BY DEF ShareBounded
    <3>1. Sharers(p, lb, port) = {} /\ Choosers(p, lb, port) = {}
      BY DEF Init, Sharers, Choosers
    <3>2. Cardinality(Sharers(p, lb, port)) = 0 /\ Cardinality(Choosers(p, lb, port)) = 0
      BY <3>1, FS_EmptySet
    <3> QED BY <3>2, BoundType
  <2> QED BY <2>1, <2>3, <2>4, <2>5 DEF ShareInv
<1>2. ShareInv /\ [Next]_vars => ShareInv'
  <2> SUFFICES ASSUME ShareInv, [Next]_vars PROVE ShareInv'
    OBVIOUS
  <2>1. TypeOK /\ MutexInv /\ DraftPool /\ IsFiniteSet(Stored) /\ (CachedReads => CacheInv)
    BY DEF ShareInv
  <2>2. TypeOK' /\ MutexInv' /\ DraftPool' /\ IsFiniteSet(Stored)'
    BY <2>1, TypeNext, MutexNext, DraftPoolNext, StoredNext
  <2>3. CachedReads => CacheInv'
    BY <2>1, CacheNext
  <2>4. ShareBounded'
    BY ShareNext
  <2> QED BY <2>2, <2>3, <2>4 DEF ShareInv
<1> QED BY <1>1, <1>2, PTL DEF Spec

(* Bound ports are numbers.                                                *)
LEMMA BoundPortsType == TypeOK => BoundPorts \subseteq Int
<1> SUFFICES ASSUME TypeOK, NEW k \in Keys, allocs[k] # None,
                    NEW i \in DOMAIN allocs[k].bindings
             PROVE  allocs[k].bindings[i].lbPort \in Int
  BY DEF BoundPorts
<1>1. allocs[k] \in PortAllocation
  BY DEF TypeOK, StoreOK
<1>2. allocs[k].bindings \in Seq(Binding)
  BY <1>1 DEF PortAllocation
<1>3. allocs[k].bindings[i] \in Binding
  BY <1>2
<1> QED BY <1>3 DEF Binding

(* However many managers allocate from a pool at the same time, and        *)
(* however the events of their caches are delayed (up to MaxLag of them),  *)
(* no port is given to more allocations than there are managers and        *)
(* delayed events: PoolAllocator's mutexes and lists confine the damage    *)
(* they cannot prevent.                                                    *)
THEOREM BoundedSharing == Spec => []SharersBounded
<1>1. ShareInv => SharersBounded
  <2> SUFFICES ASSUME ShareInv, NEW p \in Pools, NEW lb \in LBs, NEW port \in BoundPorts
               PROVE  Cardinality(Sharers(p, lb, port)) <= Bound
    BY DEF SharersBounded, Bound
  <2>1. port \in Int
    BY BoundPortsType DEF ShareInv
  <2>2. Cardinality(Sharers(p, lb, port)) + Cardinality(Choosers(p, lb, port)) <= Bound
    BY <2>1 DEF ShareInv, ShareBounded
  <2>3. /\ Cardinality(Sharers(p, lb, port)) \in Nat
        /\ Cardinality(Choosers(p, lb, port)) \in Nat
    BY SharersType DEF ShareInv
  <2> QED BY <2>2, <2>3, BoundType
<1> QED BY <1>1, ShareInductive, PTL

-----------------------------------------------------------------------------
(* The queries report what is shared *)

(* The bindings of the allocations of a pool are finitely many.            *)
LEMMA PositionsFinite ==
  ASSUME TypeOK, IsFiniteSet(Stored), NEW p
  PROVE  IsFiniteSet(Positions(Labelled(allocs, p)))
<1> DEFINE list == Labelled(allocs, p)
           f == [k \in DOMAIN list |-> {k} \X DOMAIN list[k].bindings]
           parts == {f[k] : k \in DOMAIN list}
<1>1. /\ DOMAIN list \subseteq Stored
      /\ \A k \in DOMAIN list : list[k] \in PortAllocation
  BY DEF Labelled, Stored, TypeOK, StoreOK
<1>2. IsFiniteSet(DOMAIN list)
  <2> HIDE DEF list
  <2> QED BY <1>1, FS_Subset
<1>3. Positions(list) = UNION parts
  BY DEF Positions
<1>4. DOMAIN f = DOMAIN list
  OBVIOUS
<1>5. ASSUME NEW k \in DOMAIN list PROVE IsFiniteSet(f[k])
  <2>1. list[k] \in PortAllocation
    BY <1>1
  <2> HIDE DEF list
  <2>2. list[k].bindings \in Seq(Binding)
    BY <2>1 DEF PortAllocation
  <2>3. DOMAIN list[k].bindings = 1 .. Len(list[k].bindings) /\ Len(list[k].bindings) \in Nat
    BY <2>2
  <2>4. IsFiniteSet(DOMAIN list[k].bindings)
    BY <2>3, FS_Interval
  <2>5. IsFiniteSet({k})
    BY FS_Singleton
  <2>6. IsFiniteSet({k} \X DOMAIN list[k].bindings)
    BY <2>4, <2>5, FS_Product
  <2> QED BY <2>6
<1> HIDE DEF f, list
<1>6. IsFiniteSet(parts)
  BY <1>2, <1>4, ImageSize
<1>7. \A T \in parts : IsFiniteSet(T)
  BY <1>5
<1> HIDE DEF parts
<1>8. IsFiniteSet(UNION parts)
  BY <1>6, <1>7, FS_UNION
<1> QED BY <1>3, <1>8 DEF list

(* A set with more than one element has two.                               *)
LEMMA TwoElements ==
  ASSUME NEW S, IsFiniteSet(S), Cardinality(S) > 1
  PROVE  \E x, y \in S : x # y
<1> SUFFICES ASSUME \A x, y \in S : x = y PROVE FALSE
  OBVIOUS
<1>1. S # {}
  BY FS_EmptySet
<1>2. PICK x \in S : TRUE
  BY <1>1
<1>3. S = {x}
  BY <1>2
<1> QED BY <1>3, FS_Singleton

(* Two bindings of a list on the same port make HasPortConflicts true.     *)
LEMMA ConflictSeen ==
  ASSUME NEW list, IsFiniteSet(Positions(list)),
         NEW a \in Positions(list), NEW b \in Positions(list), a # b,
         list[a[1]].bindings[a[2]].lbPort = list[b[1]].bindings[b[2]].lbPort
  PROVE  HasPortConflicts(list)
<1> DEFINE P == Positions(list)
           Q == {list[x[1]].bindings[x[2]].lbPort : x \in P}
           f == [x \in P |-> list[x[1]].bindings[x[2]].lbPort]
<1>1. f \in Surjection(P, Q)
  BY DEF Surjection
<1>2. f \notin Injection(P, Q)
  BY DEF Injection, IsInjective
<1>d. HasPortConflicts(list) <=> Cardinality(Q) < Cardinality(P)
  BY DEF HasPortConflicts
<1>3. IsFiniteSet(P)
  OBVIOUS
<1> HIDE DEF f, P, Q
<1>4. IsFiniteSet(Q) /\ Cardinality(Q) <= Cardinality(P) /\ Cardinality(Q) # Cardinality(P)
  BY <1>1, <1>2, <1>3, FS_Surjection
<1>5. Cardinality(Q) \in Nat /\ Cardinality(P) \in Nat
  BY <1>3, <1>4, FS_CardinalityType
<1> QED BY <1>4, <1>5, <1>d

(* A port of a load balancer that two allocations of a pool bind, with     *)
(* several managers or stale caches, never goes unnoticed by the queries   *)
(* of PortAllocationList: HasPortConflicts is true of the list of the pool *)
(* and FindAllocationsByLBPort returns every allocation that shares it.    *)
THEOREM SharingReported == Spec => []ConflictsReported
<1>1. ShareInv => ConflictsReported
  <2> SUFFICES ASSUME ShareInv, NEW p \in Pools, NEW lb \in LBs, NEW port \in BoundPorts,
                      Cardinality(Sharers(p, lb, port)) > 1
               PROVE  /\ HasPortConflicts(Labelled(allocs, p))
                      /\ Sharers(p, lb, port) \subseteq FindAllocationsByLBPort(Labelled(allocs, p), port)
    BY DEF ConflictsReported
  <2> DEFINE list == Labelled(allocs, p)
             sharers == Sharers(p, lb, port)
  <2>1. TypeOK /\ IsFiniteSet(Stored)
    BY DEF ShareInv
  <2>2. /\ DOMAIN list = {k \in Keys : allocs[k] # None /\ allocs[k].pool = p}
        /\ \A k \in DOMAIN list : list[k] = allocs[k]
    BY DEF Labelled
  <2>3. \A k \in sharers : k \in DOMAIN list /\ Binds(list[k], lb, port)
    BY <2>2 DEF Sharers
  <2>4. PICK j \in sharers, k \in sharers : j # k
    <3>1. IsFiniteSet(sharers)
      BY <2>1, SharersType
    <3> HIDE DEF sharers
    <3> QED BY <3>1, TwoElements DEF sharers
  <2>5. IsFiniteSet(Positions(list))
    BY <2>1, PositionsFinite
  <2> HIDE DEF list, sharers
  <2>6. PICK m \in DOMAIN list[j].bindings : list[j].bindings[m].lbPort = port
    BY <2>3 DEF Binds
  <2>7. PICK n \in DOMAIN list[k].bindings : list[k].bindings[n].lbPort = port
    BY <2>3 DEF Binds
  <2> DEFINE a == <<j, m>>
             b == <<k, n>>
  <2>8. a \in Positions(list) /\ b \in Positions(list) /\ a # b
    BY <2>3, <2>4, <2>6, <2>7 DEF Positions
  <2>9. list[a[1]].bindings[a[2]].lbPort = list[b[1]].bindings[b[2]].lbPort
    BY <2>6, <2>7
  <2> HIDE DEF a, b
  <2>10. HasPortConflicts(list)
    BY <2>5, <2>8, <2>9, ConflictSeen
  <2>11. sharers \subseteq FindAllocationsByLBPort(list, port)
    BY <2>3 DEF FindAllocationsByLBPort, Binds
  <2> QED BY <2>10, <2>11 DEF list, sharers
<1> QED BY <1>1, ShareInductive, PTL
=============================================================================
