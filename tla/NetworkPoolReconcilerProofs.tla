--------------------- MODULE NetworkPoolReconcilerProofs ---------------------
(***************************************************************************)
(* Proofs about NetworkPoolReconciler: its types, and that a status it     *)
(* writes is one snapshot, never older than the one it replaces.           *)
(***************************************************************************)
EXTENDS NetworkPoolReconciler, TLAPS

(* The inductive invariant.  To TypeOK it adds the shape of the revisions  *)
(* and of the pools at the server, in the cache and in hand, and that the  *)
(* list of a reconcile is as recent as the status it will replace.         *)
Revision == [AllocKeys -> {Objects[k] : k \in AllocKeys} \cup {None}]

IsPool(o) == o = [version |-> o.version, status |-> o.status, synced |-> o.synced]

LogOK == log \in Seq(Revision) /\ fresh \in BOOLEAN

CopiesOK ==
  /\ \A p \in Pools : /\ pools[p] # None => IsPool(pools[p])
                      /\ poolCache[p] # None => IsPool(poolCache[p])
  /\ latest # None => IsPool(latest)

ListRecent == pc \in {"get", "update"} => asOf[key] <= listAt

Inv == TypeOK /\ LogOK /\ CopiesOK /\ ListRecent

(* The bookkeeping of TypeOK for the reconciler itself.                    *)
WorkOK ==
  /\ listAt \in 1 .. cacheAt
  /\ pc \in {"idle", "list", "get", "update"}
  /\ IF pc = "idle" THEN key = None ELSE key \in Pools
  /\ pc = "update" <=> latest # None
  /\ tries \in 0 .. MaxAttempts
  /\ fresh => pc = "update" /\ latest = pools[key]

-----------------------------------------------------------------------------
(* The initial states satisfy the invariant.                               *)
LEMMA InvInit == Init => Inv
<1> SUFFICES ASSUME Init PROVE Inv
  OBVIOUS
<1>1. log \in Seq(Revision) /\ Len(log) = 1
  <2>1. [k \in AllocKeys |-> None] \in Revision
    BY DEF Revision
  <2> QED BY <2>1 DEF Init
<1>2. TypeOK
  BY <1>1, StatusBounds DEF Init, TypeOK, Revisions
<1>3. CopiesOK
  <2>1. ASSUME NEW p \in Pools, pools[p] # None PROVE IsPool(pools[p])
    <3>1. PICK v \in UNION {PoolVersions[q] : q \in Pools} : pools[p] = NewPool(v)
      BY <2>1 DEF Init
    <3> QED BY <3>1 DEF NewPool, IsPool
  <2> QED BY <2>1 DEF Init, CopiesOK
<1> QED BY <1>1, <1>2, <1>3 DEF Init, Inv, LogOK, ListRecent

(* Finish leaves an idle reconciler, and only pools in queue and timers.   *)
LEMMA FinishType ==
  ASSUME Inv, pc # "idle", NEW failed \in BOOLEAN, Finish(failed),
         UNCHANGED <<log, cacheAt, poolCache>>,
         DOMAIN pools' = Pools, behind' \subseteq Pools,
         \A p \in Pools \ behind' : poolCache[p] = pools'[p],
         asOf' \in [Pools -> 1 .. cacheAt],
         \A p \in Pools : pools'[p] # None => IsPool(pools'[p])
  PROVE  Inv'
<1>0. TypeOK /\ LogOK /\ CopiesOK
  BY DEF Inv
<1>1. key \in Pools /\ 1 \in 1 .. cacheAt /\ 0 \in 0 .. MaxAttempts
  BY <1>0, StatusBounds DEF TypeOK, Revisions
<1>2. queue' \subseteq Pools /\ timers' \subseteq Pools
  BY <1>0, <1>1 DEF Finish, TypeOK
<1>3. TypeOK'
  BY <1>0, <1>1, <1>2 DEF Finish, TypeOK, Revisions
<1>4. LogOK' /\ CopiesOK' /\ ListRecent'
  BY <1>0 DEF Finish, LogOK, CopiesOK, ListRecent
<1> QED BY <1>3, <1>4 DEF Inv

(* A Finish that leaves the pools alone.                                   *)
LEMMA FinishKeeps ==
  ASSUME Inv, pc # "idle", NEW failed \in BOOLEAN, Finish(failed),
         UNCHANGED <<allocVars, poolVars>>
  PROVE  Inv'
<1>1. TypeOK /\ CopiesOK
  BY DEF Inv
<1>2. /\ DOMAIN pools' = Pools /\ behind' \subseteq Pools
      /\ \A p \in Pools \ behind' : poolCache[p] = pools'[p]
      /\ asOf' \in [Pools -> 1 .. cacheAt]
      /\ \A p \in Pools : pools'[p] # None => IsPool(pools'[p])
  BY <1>1 DEF TypeOK, CopiesOK, poolVars
<1> QED BY <1>2, FinishType DEF allocVars, poolVars

(* Before its first write a reconcile reads: pool, list, pool again.       *)
LEMMA ReadsKeep ==
  ASSUME Inv, (\E p \in Pools : Reconcile(p)) \/ ListAllocations \/ GetLatest
  PROVE  Inv'
<1>0. TypeOK /\ LogOK /\ CopiesOK /\ ListRecent
  BY DEF Inv
<1>1. ASSUME NEW p \in Pools, Reconcile(p) PROVE Inv'
  <2>1. UNCHANGED <<log, cacheAt, pools, poolCache, behind, asOf, timers, listAt, latest, fresh, tries>>
    BY <1>1 DEF Reconcile, allocVars, poolVars
  <2>2. /\ queue' \subseteq Pools
        /\ (pc' = "list" /\ key' = p) \/ (pc' = "idle" /\ key' = key)
        /\ pc = "idle"
    BY <1>0, <1>1 DEF Reconcile, TypeOK
  <2>3. TypeOK'
    BY <1>0, <2>1, <2>2 DEF TypeOK, Revisions
  <2> QED BY <1>0, <2>1, <2>2, <2>3 DEF Inv, LogOK, CopiesOK, ListRecent
<1>2. CASE ListAllocations
  <2>1. CASE pc' = "get"
    <3>1. /\ UNCHANGED <<log, cacheAt, pools, poolCache, behind, asOf, timers, queue, key, latest, fresh>>
          /\ pc = "list" /\ listAt' = cacheAt /\ tries' = 1
      BY <1>2, <2>1 DEF ListAllocations, Finish, allocVars, poolVars
    <3>2. cacheAt \in 1 .. cacheAt /\ 1 \in 0 .. MaxAttempts /\ key \in Pools
      BY <1>0, <3>1, StatusBounds DEF TypeOK, Revisions
    <3>3. TypeOK'
      BY <1>0, <2>1, <3>1, <3>2 DEF TypeOK, Revisions
    <3>4. asOf[key] <= cacheAt
      BY <1>0, <3>2 DEF TypeOK, Revisions
    <3> QED BY <1>0, <3>1, <3>3, <3>4 DEF Inv, LogOK, CopiesOK, ListRecent
  <2>2. CASE pc' # "get"
    BY <1>2, <2>2, FinishKeeps DEF ListAllocations
  <2> QED BY <2>1, <2>2
<1>3. CASE GetLatest
  <2>1. CASE pc' = "update"
    <3>1. /\ UNCHANGED <<log, cacheAt, pools, poolCache, behind, asOf, timers, queue, key, listAt, tries>>
          /\ pc = "get" /\ latest' = poolCache[key] /\ poolCache[key] # None
          /\ fresh' = (key \notin behind)
      BY <1>3, <2>1 DEF GetLatest, Finish, allocVars, poolVars
    <3>2. key \in Pools /\ (fresh' => latest' = pools[key]) /\ fresh' \in BOOLEAN
      BY <1>0, <3>1 DEF TypeOK
    <3>3. TypeOK'
      BY <1>0, <2>1, <3>1, <3>2 DEF TypeOK, Revisions
    <3> QED BY <1>0, <3>1, <3>2, <3>3 DEF Inv, LogOK, CopiesOK, ListRecent
  <2>2. CASE pc' # "update"
    BY <1>3, <2>2, FinishKeeps DEF GetLatest
  <2> QED BY <2>1, <2>2
<1> QED BY <1>1, <1>2, <1>3

-----------------------------------------------------------------------------
(* What a successful update leaves: the pool of the moment with a status   *)
(* that shows it together with the listed revision.                        *)
LEMMA Written ==
  ASSUME Inv, pc = "update", pools[key] # None, ~Conflict, StatusWritten(key)
  PROVE  /\ key \in Pools /\ listAt \in 1 .. cacheAt
         /\ IsPool(pools'[key])
         /\ pools'[key].version = pools[key].version
         /\ \A p \in Pools \ {key} : pools'[p] = pools[p]
         /\ DOMAIN pools' = Pools
         /\ behind' \subseteq Pools
         /\ \A p \in Pools \ behind' : poolCache[p] = pools'[p]
         /\ asOf' = [asOf EXCEPT ![key] = listAt]
         /\ asOf[key] <= listAt
         /\ Shows(pools'[key], listAt, key)
<1>0. TypeOK /\ CopiesOK /\ ListRecent
  BY DEF Inv
<1>1. key \in Pools /\ latest = pools[key] /\ IsPool(latest)
  BY <1>0 DEF TypeOK, CopiesOK, Conflict
<1> DEFINE st == NewStatus(key)
           object == [latest EXCEPT !.status = st, !.synced = TRUE]
<1>2. object = [version |-> latest.version, status |-> st, synced |-> TRUE]
  <2> HIDE DEF st
  <2>1. PICK r : r = latest
    OBVIOUS
  <2>2. r = [version |-> r.version, status |-> r.status, synced |-> r.synced]
    BY <1>1, <2>1 DEF IsPool
  <2>3. PICK q : q = [r EXCEPT !.status = st]
    OBVIOUS
  <2>4. q = [version |-> r.version, status |-> st, synced |-> r.synced]
    BY <2>2, <2>3
  <2>5. q = [version |-> q.version, status |-> q.status, synced |-> q.synced]
        /\ q.version = r.version /\ q.status = st
    BY <2>4
  <2>6. \A t : [q EXCEPT !.synced = t] = [version |-> q.version, status |-> q.status, synced |-> t]
    BY <2>5
  <2>7. [q EXCEPT !.synced = TRUE] = [version |-> q.version, status |-> q.status, synced |-> TRUE]
    BY <2>6, Zenon
  <2> QED BY <2>1, <2>3, <2>5, <2>7, Zenon
<1>3. /\ IsPool(object) /\ object.version = latest.version /\ object.status = st
  <2> HIDE DEF st, object
  <2> QED BY <1>2 DEF IsPool
<1>4. pools' = [pools EXCEPT ![key] = object]
  BY DEF StatusWritten
<1>5. pools'[key] = object
  <2> HIDE DEF object
  <2> QED BY <1>0, <1>1, <1>4 DEF TypeOK
<1>6. DOMAIN pools' = Pools /\ \A p \in Pools \ {key} : pools'[p] = pools[p]
  <2> HIDE DEF object
  <2> QED BY <1>0, <1>1, <1>4 DEF TypeOK
<1>7. /\ behind' \subseteq Pools
      /\ \A p \in Pools \ behind' : poolCache[p] = pools'[p]
  <2>1. (object = pools[key] /\ behind' = behind) \/ behind' = behind \cup {key}
    BY DEF StatusWritten
  <2> HIDE DEF object
  <2> QED BY <1>0, <1>1, <1>5, <1>6, <2>1 DEF TypeOK
<1>8. Shows(object, listAt, key)
  <2> SUFFICES ASSUME NEW lb \in LBsOf(latest.version)
               PROVE  /\ lb \in DOMAIN st
                      /\ st[lb] = calculateLBStatus(latest.version.spec, latest.version.prewarm,
                                                    lb, Labelled(log[listAt], key))
    BY <1>3 DEF Shows
  <2> QED BY DEF NewStatus
<1>9. /\ asOf' = [asOf EXCEPT ![key] = listAt] /\ asOf[key] <= listAt
      /\ listAt \in 1 .. cacheAt
  BY <1>0 DEF StatusWritten, ListRecent, TypeOK
<1> HIDE DEF object
<1> QED BY <1>1, <1>3, <1>5, <1>6, <1>7, <1>8, <1>9

(* The update, its conflicts and its failures.                             *)
LEMMA UpdateKeeps ==
  ASSUME Inv, UpdateStatus
  PROVE  Inv'
<1>0. TypeOK /\ LogOK /\ CopiesOK /\ ListRecent
  BY DEF Inv
<1>1. CASE pools[key] # None /\ ~Conflict /\ StatusWritten(key) /\ (Finish(FALSE) \/ Finish(TRUE))
  <2>1. pc = "update" /\ UNCHANGED <<log, cacheAt, poolCache>>
    BY <1>1 DEF UpdateStatus, StatusWritten, allocVars
  <2>2. asOf' \in [Pools -> 1 .. cacheAt]
    BY <1>0, <1>1, <2>1, Written DEF TypeOK
  <2>3. \A p \in Pools : pools'[p] # None => IsPool(pools'[p])
    BY <1>0, <1>1, <2>1, Written DEF CopiesOK
  <2> QED BY <1>1, <2>1, <2>2, <2>3, Written, FinishType
<1>2. CASE /\ Conflict /\ AttemptsLeft
           /\ pc' = "get" /\ tries' = tries + 1 /\ latest' = None
           /\ UNCHANGED <<poolVars, queue, timers, key, listAt, fresh, faults>>
  <2>1. pc = "update" /\ UNCHANGED <<log, cacheAt>> /\ fresh = FALSE
    BY <1>0, <1>2 DEF UpdateStatus, allocVars, Conflict, LogOK
  <2>2. tries' \in 0 .. MaxAttempts
    BY <1>0, <1>2, StatusBounds DEF TypeOK, AttemptsLeft
  <2>3. TypeOK'
    BY <1>0, <1>2, <2>1, <2>2 DEF TypeOK, Revisions, poolVars
  <2> QED BY <1>0, <1>2, <2>1, <2>3 DEF Inv, LogOK, CopiesOK, ListRecent, poolVars
<1>3. CASE Finish(TRUE) /\ UNCHANGED <<allocVars, poolVars>>
  <2>1. pc # "idle"
    BY DEF UpdateStatus
  <2> QED BY <1>3, <2>1, FinishKeeps
<1> QED BY <1>1, <1>2, <1>3 DEF UpdateStatus

(* Timers, watches and allocations come and go beside the reconciler.      *)
LEMMA EventsKeep ==
  ASSUME Inv,
         \/ \E p \in Pools : RequeueAfter(p) \/ DeliverPool(p)
         \/ DeliverAllocation
         \/ \E k \in AllocKeys : ChangeAllocation(k)
         \/ UNCHANGED vars
  PROVE  Inv'
<1>0. TypeOK /\ LogOK /\ CopiesOK /\ ListRecent
  BY DEF Inv
<1>1. ASSUME NEW p \in Pools, RequeueAfter(p) PROVE Inv'
  BY <1>0, <1>1
     DEF RequeueAfter, Inv, TypeOK, LogOK, CopiesOK, ListRecent, Revisions, allocVars, poolVars, work
<1>2. ASSUME NEW p \in Pools, DeliverPool(p) PROVE Inv'
  <2>1. /\ DOMAIN poolCache' = Pools /\ poolCache'[p] = pools[p]
        /\ \A q \in Pools \ {p} : poolCache'[q] = poolCache[q]
    BY <1>0, <1>2 DEF DeliverPool, TypeOK
  <2>2. TypeOK'
    BY <1>0, <1>2, <2>1 DEF DeliverPool, TypeOK, Revisions, allocVars, work
  <2>3. CopiesOK'
    BY <1>0, <1>2, <2>1 DEF DeliverPool, CopiesOK, work
  <2> QED BY <1>0, <1>2, <2>2, <2>3 DEF DeliverPool, Inv, LogOK, ListRecent, allocVars, work
<1>3. CASE DeliverAllocation
  <2>1. /\ queue' \subseteq Pools /\ cacheAt' = cacheAt + 1 /\ cacheAt < Len(log)
        /\ UNCHANGED <<log, pools, poolCache, behind, asOf, timers, pc, key, listAt, latest, fresh, tries>>
    BY <1>0, <1>3 DEF DeliverAllocation, TypeOK, mapPortAllocationToPool, poolVars, work
  <2>2. cacheAt' \in Revisions' /\ listAt \in 1 .. cacheAt' /\ asOf \in [Pools -> 1 .. cacheAt']
    BY <1>0, <2>1 DEF TypeOK, LogOK, Revisions
  <2>3. TypeOK'
    BY <1>0, <2>1, <2>2 DEF TypeOK
  <2> QED BY <1>0, <2>1, <2>3 DEF Inv, LogOK, CopiesOK, ListRecent
<1>4. ASSUME NEW k \in AllocKeys, ChangeAllocation(k) PROVE Inv'
  <2>1. UNCHANGED <<cacheAt, pools, poolCache, behind, asOf, queue, timers,
                    pc, key, listAt, latest, fresh, tries>>
    BY <1>4 DEF ChangeAllocation, poolVars, work
  <2>2. PICK r : log' = Append(log, r) /\ r = [Current EXCEPT ![k] = IF @ = None THEN Objects[k] ELSE None]
    BY <1>4 DEF ChangeAllocation
  <2>3. Current \in Revision
    BY <1>0 DEF TypeOK, LogOK, Revisions, Current
  <2>4. r \in Revision
    BY <2>2, <2>3 DEF Revision
  <2>5. log' \in Seq(Revision) /\ Len(log') = Len(log) + 1
    BY <1>0, <2>2, <2>4 DEF LogOK
  <2>6. TypeOK'
    BY <1>0, <2>1, <2>5 DEF TypeOK, LogOK, Revisions
  <2> QED BY <1>0, <2>1, <2>5, <2>6 DEF Inv, LogOK, CopiesOK, ListRecent
<1>5. CASE UNCHANGED vars
  BY <1>0, <1>5
     DEF vars, Inv, TypeOK, LogOK, CopiesOK, ListRecent, Revisions, allocVars, poolVars, work
<1> QED BY <1>1, <1>2, <1>3, <1>4, <1>5

(* An edit of a pool outdates the copy in hand.                            *)
LEMMA EditKeeps ==
  ASSUME Inv, NEW p \in Pools, NEW object, EditPool(p, object),
         object = None \/ IsPool(object),
         asOf' = asOf \/ asOf' = [asOf EXCEPT ![p] = 1]
  PROVE  Inv'
<1>0. TypeOK /\ LogOK /\ CopiesOK /\ ListRecent
  BY DEF Inv
<1>1. UNCHANGED <<log, cacheAt, poolCache, queue, timers, pc, key, listAt, latest, tries>>
  BY DEF EditPool, allocVars
<1>2. /\ DOMAIN pools' = Pools /\ pools'[p] = object
      /\ \A q \in Pools \ {p} : pools'[q] = pools[q]
      /\ behind' = behind \cup {p}
  BY <1>0 DEF EditPool, WritePool, TypeOK
<1>3. /\ fresh' \in BOOLEAN
      /\ fresh' => fresh /\ key # p
  BY DEF EditPool, WritePool
<1>4. /\ asOf' \in [Pools -> 1 .. cacheAt]
      /\ \A q \in Pools : asOf'[q] <= asOf[q]
  BY <1>0 DEF TypeOK, Revisions
<1>5. TypeOK'
  BY <1>0, <1>1, <1>2, <1>3, <1>4 DEF TypeOK, Revisions
<1>6. LogOK' /\ CopiesOK'
  BY <1>0, <1>1, <1>2, <1>3 DEF LogOK, CopiesOK
<1>7. ListRecent'
  <2> SUFFICES ASSUME pc \in {"get", "update"} PROVE asOf'[key] <= listAt
    BY <1>1 DEF ListRecent
  <2>1. key \in Pools /\ asOf[key] \in Int /\ asOf'[key] \in Int /\ listAt \in Int
    BY <1>0, <1>4 DEF TypeOK, Revisions
  <2> QED BY <1>0, <1>4, <2>1 DEF ListRecent
<1> QED BY <1>5, <1>6, <1>7 DEF Inv

(* Edits and restarts keep the invariant.                                  *)
LEMMA EnvironmentKeeps ==
  ASSUME Inv, (\E p \in Pools : ChangePool(p)) \/ Crash
  PROVE  Inv'
<1>0. TypeOK /\ LogOK /\ CopiesOK /\ ListRecent
  BY DEF Inv
<1>1. ASSUME NEW p \in Pools, ChangePool(p) PROVE Inv'
  <2>1. ASSUME pools[p] # None, NEW v \in PoolVersions[p],
               EditPool(p, [pools[p] EXCEPT !.version = v]), UNCHANGED asOf
        PROVE  Inv'
    <3>1. IsPool(pools[p])
      BY <1>0, <2>1 DEF CopiesOK
    <3>2. [pools[p] EXCEPT !.version = v] = [version |-> v, status |-> pools[p].status, synced |-> pools[p].synced]
      BY <3>1 DEF IsPool
    <3>3. IsPool([version |-> v, status |-> pools[p].status, synced |-> pools[p].synced])
      BY DEF IsPool
    <3> QED BY <2>1, <3>2, <3>3, EditKeeps
  <2>2. ASSUME EditPool(p, None), UNCHANGED asOf PROVE Inv'
    BY <2>2, EditKeeps
  <2>3. ASSUME NEW v \in PoolVersions[p], EditPool(p, NewPool(v)), asOf' = [asOf EXCEPT ![p] = 1]
        PROVE  Inv'
    <3>1. IsPool(NewPool(v))
      BY DEF IsPool, NewPool
    <3> QED BY <2>3, <3>1, EditKeeps
  <2> QED BY <1>1, <2>1, <2>2, <2>3 DEF ChangePool
<1>2. CASE Crash
  <2>1. Len(log) \in Revisions /\ 1 \in 1 .. Len(log) /\ asOf \in [Pools -> 1 .. Len(log)]
        /\ 0 \in 0 .. MaxAttempts
    BY <1>0, StatusBounds DEF TypeOK, LogOK, Revisions
  <2>2. TypeOK'
    BY <1>0, <1>2, <2>1 DEF Crash, TypeOK, Revisions
  <2> QED BY <1>0, <1>2, <2>2 DEF Crash, Inv, LogOK, CopiesOK, ListRecent
<1> QED BY <1>1, <1>2

(* Every step preserves the invariant.                                     *)
LEMMA InvNext == Inv /\ [Next]_vars => Inv'
BY ReadsKeep, UpdateKeeps, EventsKeep, EnvironmentKeeps DEF Next, Work

(* Only the update changes a pool while the reconciler comes to rest, and  *)
(* what it writes is a snapshot.                                           *)
LEMMA SnapshotStep ==
  ASSUME Inv, [Next]_vars, NEW p \in Pools, pc = "update", pc' = "idle", pools'[p] # pools[p]
  PROVE  /\ pools'[p].version = pools[p].version
         /\ asOf'[p] >= asOf[p]
         /\ Shows(pools'[p], asOf'[p], p)
<1>0. TypeOK
  BY DEF Inv
<1>1. UpdateStatus
  <2>1. ~(\E q \in Pools : Reconcile(q) \/ RequeueAfter(q) \/ DeliverPool(q))
    BY DEF Reconcile, RequeueAfter, DeliverPool, poolVars, work
  <2>2. ~(\E q \in Pools : ChangePool(q))
    BY DEF ChangePool, EditPool
  <2>3. ~ListAllocations /\ ~GetLatest /\ ~DeliverAllocation /\ ~Crash
        /\ ~(\E k \in AllocKeys : ChangeAllocation(k)) /\ ~UNCHANGED vars
    BY DEF ListAllocations, GetLatest, DeliverAllocation, Crash, ChangeAllocation, vars, poolVars, work
  <2> QED BY <2>1, <2>2, <2>3 DEF Next, Work
<1>2. pools[key] # None /\ ~Conflict /\ StatusWritten(key)
  BY <1>1 DEF UpdateStatus, poolVars
<1>3. p = key
  BY <1>2, Written
<1>4. asOf'[p] = listAt
  BY <1>0, <1>2, <1>3, Written DEF TypeOK
<1>5. asOf[key] \in Int /\ listAt \in Int
  BY <1>0, <1>2, Written DEF TypeOK, Revisions
<1> QED BY <1>2, <1>3, <1>4, <1>5, Written

-----------------------------------------------------------------------------
(* NetworkPoolReconciler never leaves its types: a reconciler at work has  *)
(* a pool, one about to update has an object in hand, a copy it takes for  *)
(* current is the server's version, and lists and statuses are of          *)
(* revisions the cache has reached.                                        *)
THEOREM StatusTypes == Spec => []TypeOK
<1>1. Inv => TypeOK
  BY DEF Inv
<1> QED BY <1>1, InvInit, InvNext, PTL DEF Spec

(* A status that updatePoolStatus writes is never a mixture and never goes *)
(* back: it shows the specification of that moment together with one       *)
(* revision of the allocations, no older than the one it replaces, for     *)
(* every number of pools, allocations, attempts, edits and restarts.       *)
THEOREM SnapshotStatus == Spec => StatusIsSnapshot
<1> DEFINE Snapshot == \A p \in Pools :
             (pc = "update" /\ pc' = "idle" /\ pools'[p] # pools[p])
               => /\ pools'[p].version = pools[p].version
                  /\ asOf'[p] >= asOf[p]
                  /\ Shows(pools'[p], asOf'[p], p)
<1>1. Inv /\ [Next]_vars => [Snapshot]_vars
  BY SnapshotStep
<1> QED BY <1>1, InvInit, InvNext, PTL DEF Spec, StatusIsSnapshot
=============================================================================
