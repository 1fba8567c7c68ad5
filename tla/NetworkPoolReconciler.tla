------------------------ MODULE NetworkPoolReconciler ------------------------
(***************************************************************************)
(* internal/controller/apollonetworkpool_controller.go: one reconciler     *)
(* (MaxConcurrentReconciles is not set) that writes into the status of     *)
(* every pool how many ports of each load balancer are allocated.          *)
(*                                                                         *)
(* It reads allocations and pools from informer caches.  The collection of *)
(* allocations is kept as the history of its revisions at the API server;  *)
(* the cache is at one of them, and so is the list a reconcile works with. *)
(* For pools it is enough to know whether a copy is still the server's     *)
(* version: an update of an outdated one is refused as a conflict.         *)
(*                                                                         *)
(* A status carries the time of its last update in whole seconds.  Nobody  *)
(* reads it; all it does is to make an update that changes nothing else a  *)
(* change, and so an event, when the second is another one.                *)
(***************************************************************************)
EXTENDS PoolStatus

CONSTANTS
  Pools,           \* names of network pools
  PoolVersions,    \* for each pool what users may write into it: [spec, prewarm]
  AllocKeys,       \* keys of allocations
  Objects,         \* for each key the object made under it: [label, bindings]
  MaxAttempts,     \* retry.DefaultRetry.Steps
  MaxChanges,      \* bound on creations and deletions of allocations
  MaxEdits,        \* bound on creations, edits and deletions of pools
  MaxFaults,       \* bound on failing calls and restarts of the process
  None             \* no object

ASSUME StatusBounds ==
  MaxAttempts \in Nat \ {0} /\ MaxChanges \in Nat /\ MaxEdits \in Nat /\ MaxFaults \in Nat

VARIABLES
  log,        \* revisions of the collection of allocations, the last is current
  cacheAt,    \* revision the allocation informer has reached
  pools,      \* pools of the API server: [version, status, synced]
  poolCache,  \* the informer's copy
  behind,     \* pools whose copy is not the server's version any more
  queue,      \* pools to reconcile
  timers,     \* pools with a RequeueAfter that has not expired
  pc,         \* next step of the reconciler
  key,        \* pool it reconciles
  listAt,     \* revision of the list it works with
  latest,     \* the pool as it read it last
  fresh,      \* latest is still the server's version
  tries,      \* attempts of RetryOnConflict it has begun
  asOf,       \* history: the revision the status of each pool shows
  edits,      \* changes of pools so far
  faults      \* failed calls and restarts so far

allocVars == <<log, cacheAt>>
poolVars == <<pools, poolCache, behind, asOf>>
work == <<pc, key, listAt, latest, fresh, tries>>
counters == <<edits, faults>>
vars == <<allocVars, poolVars, queue, timers, work, counters>>

-----------------------------------------------------------------------------
NewPool(version) == [version |-> version, status |-> << >>, synced |-> FALSE]

Init ==
  /\ log = << [k \in AllocKeys |-> None] >>
  /\ cacheAt = 1
  /\ pools \in [Pools -> {None} \cup {NewPool(v) : v \in UNION {PoolVersions[p] : p \in Pools}}]
  /\ \A p \in Pools : pools[p] # None => pools[p].version \in PoolVersions[p]
  /\ poolCache = pools
  /\ behind = {}
  /\ queue = {p \in Pools : pools[p] # None}
  /\ timers = {}
  /\ pc = "idle" /\ key = None /\ listAt = 1 /\ latest = None /\ fresh = FALSE /\ tries = 0
  /\ asOf = [p \in Pools |-> 1]
  /\ edits = 0 /\ faults = 0

(* List with MatchingLabels{pool} at a revision. *)
Labelled(objects, p) ==
  [k \in {j \in AllocKeys : objects[j] # None /\ objects[j].label = p} |-> objects[k]]

LBsOf(version) == {version.spec.lbs[i] : i \in DOMAIN version.spec.lbs}

Fault == faults < MaxFaults /\ faults' = faults + 1

(* The pool p is written at the API server. *)
WritePool(p, object) ==
  /\ pools' = [pools EXCEPT ![p] = object]
  /\ behind' = behind \cup {p}
  /\ fresh' = (fresh /\ key # p)

-----------------------------------------------------------------------------
(* Reconcile ends: an error queues the pool again, success sets a timer.   *)
Finish(failed) ==
  /\ pc' = "idle" /\ key' = None /\ listAt' = 1 /\ latest' = None /\ fresh' = FALSE /\ tries' = 0
  /\ queue' = IF failed THEN queue \cup {key} ELSE queue
  /\ timers' = IF failed THEN timers ELSE timers \cup {key}

(* The pool is taken from the queue and looked up; one that is gone is     *)
(* left alone, a failing Get queues it again.                              *)
Reconcile(p) ==
  /\ pc = "idle" /\ p \in queue
  /\ \/ /\ queue' = queue \ {p}
        /\ \/ /\ poolCache[p] # None
              /\ pc' = "list" /\ key' = p
           \/ poolCache[p] = None /\ UNCHANGED <<pc, key>>
        /\ UNCHANGED faults
     \/ Fault /\ UNCHANGED <<queue, pc, key>>
  /\ UNCHANGED <<allocVars, poolVars, timers, listAt, latest, fresh, tries, edits>>

(* updatePoolStatus lists the allocations once, before the retry loop. *)
ListAllocations ==
  /\ pc = "list"
  /\ \/ /\ pc' = "get" /\ listAt' = cacheAt /\ tries' = 1
        /\ UNCHANGED <<queue, timers, key, latest, fresh, faults>>
     \/ Fault /\ Finish(TRUE)
  /\ UNCHANGED <<allocVars, poolVars, edits>>

(* One attempt of the retry loop begins by reading the pool again; one     *)
(* that is gone by now is an error.                                        *)
GetLatest ==
  /\ pc = "get"
  /\ \/ /\ poolCache[key] # None
        /\ pc' = "update" /\ latest' = poolCache[key] /\ fresh' = (key \notin behind)
        /\ UNCHANGED <<queue, timers, key, listAt, tries, faults>>
     \/ poolCache[key] = None /\ Finish(TRUE) /\ UNCHANGED faults
     \/ Fault /\ Finish(TRUE)
  /\ UNCHANGED <<allocVars, poolVars, edits>>

(* Faulty variant: a load balancer without allocations keeps its entry. *)
NewStatusKeepsEmptied(p) ==
  LET list == Labelled(log[listAt], p)
      v == latest.version
      lbs == {lb \in LBsOf(v) : lb \notin DOMAIN latest.status \/ getLBPortUsage(list, lb) > 0}
  IN  [lb \in DOMAIN latest.status \cup lbs |->
         IF lb \in lbs THEN calculateLBStatus(v.spec, v.prewarm, lb, list) ELSE latest.status[lb]]

(* The entries of the specification's load balancers are computed anew,    *)
(* other entries of the map stay.                                          *)
NewStatus(p) ==
  LET list == Labelled(log[listAt], p)
      v == latest.version
  IN  [lb \in DOMAIN latest.status \cup LBsOf(v) |->
         IF lb \in LBsOf(v) THEN calculateLBStatus(v.spec, v.prewarm, lb, list)
         ELSE latest.status[lb]]

(* The entries get metav1.Now(): an update that is otherwise the same is   *)
(* no change in the second of the last one, or if there are no entries.    *)
StatusWritten(p) ==
  LET object == [latest EXCEPT !.status = NewStatus(p), !.synced = TRUE]
  IN  /\ pools' = [pools EXCEPT ![p] = object]
      /\ \/ object = pools[p] /\ UNCHANGED behind
         \/ (object # pools[p] \/ LBsOf(latest.version) # {}) /\ behind' = behind \cup {p}
      /\ asOf' = [asOf EXCEPT ![p] = listAt]
      /\ UNCHANGED poolCache

(* The API server refuses an update that is based on another version. *)
Conflict == pools[key] # None /\ ~fresh

(* Faulty variant: one attempt too many. *)
AttemptsLeftOneMore == tries <= MaxAttempts

AttemptsLeft == tries < MaxAttempts

(* Status().Update, and what RetryOnConflict makes of its answer.          *)
UpdateStatus ==
  /\ pc = "update"
  /\ \/ /\ pools[key] # None /\ ~Conflict
        /\ StatusWritten(key)
        /\ \/ Finish(FALSE) /\ UNCHANGED faults
           \/ Finish(TRUE) /\ Fault             \* the answer is lost
     \/ /\ Conflict /\ AttemptsLeft
        /\ pc' = "get" /\ tries' = tries + 1 /\ latest' = None
        /\ UNCHANGED <<poolVars, queue, timers, key, listAt, fresh, faults>>
     \/ /\ \/ pools[key] = None /\ UNCHANGED faults
           \/ Conflict /\ ~AttemptsLeft /\ UNCHANGED faults
           \/ Fault
        /\ Finish(TRUE)
        /\ UNCHANGED poolVars
  /\ UNCHANGED <<allocVars, edits>>

(* Ten minutes after a success. *)
RequeueAfter(p) ==
  /\ p \in timers
  /\ timers' = timers \ {p}
  /\ queue' = queue \cup {p}
  /\ UNCHANGED <<allocVars, poolVars, work, counters>>

-----------------------------------------------------------------------------
(* Watches *)

(* Faulty variant: deleted allocations wake nobody. *)
mapCreatedAllocationToPool(old, new) ==
  {o.label : o \in {new} \ {None}} \cap Pools

(* mapPortAllocationToPool, for the object before and after the event; an  *)
(* allocation without the label wakes nobody.                              *)
mapPortAllocationToPool(old, new) ==
  {o.label : o \in {old, new} \ {None}} \cap Pools

(* The allocation informer moves to the next revision. *)
DeliverAllocation ==
  /\ cacheAt < Len(log)
  /\ cacheAt' = cacheAt + 1
  /\ queue' = queue \cup UNION {mapPortAllocationToPool(log[cacheAt][k], log[cacheAt + 1][k]) :
                                  k \in {j \in AllocKeys : log[cacheAt][j] # log[cacheAt + 1][j]}}
  /\ UNCHANGED <<log, poolVars, timers, work, counters>>

(* The pool informer catches up; its own status updates wake the           *)
(* reconciler as well.                                                     *)
DeliverPool(p) ==
  /\ p \in behind
  /\ behind' = behind \ {p}
  /\ poolCache' = [poolCache EXCEPT ![p] = pools[p]]
  /\ queue' = queue \cup {p}
  /\ UNCHANGED <<allocVars, pools, asOf, timers, work, counters>>

-----------------------------------------------------------------------------
(* The environment *)

Current == log[Len(log)]

(* The allocator creates or deletes an allocation. *)
ChangeAllocation(k) ==
  /\ Len(log) <= MaxChanges
  /\ log' = Append(log, [Current EXCEPT ![k] = IF @ = None THEN Objects[k] ELSE None])
  /\ UNCHANGED <<cacheAt, poolVars, queue, timers, work, counters>>

EditPool(p, object) ==
  /\ edits < MaxEdits
  /\ edits' = edits + 1
  /\ WritePool(p, object)
  /\ UNCHANGED <<allocVars, poolCache, queue, timers, pc, key, listAt, latest, tries, faults>>

(* Users edit, delete and create pools. *)
ChangePool(p) ==
  \/ /\ pools[p] # None
     /\ \E v \in PoolVersions[p] \ {pools[p].version} :
          EditPool(p, [pools[p] EXCEPT !.version = v])
     /\ UNCHANGED asOf
  \/ /\ pools[p] # None
     /\ EditPool(p, None)
     /\ UNCHANGED asOf
  \/ /\ pools[p] = None
     /\ \E v \in PoolVersions[p] : EditPool(p, NewPool(v))
     /\ asOf' = [asOf EXCEPT ![p] = 1]

(* The process restarts: the caches are filled anew, everything is queued. *)
Crash ==
  /\ Fault
  /\ cacheAt' = Len(log)
  /\ poolCache' = pools
  /\ behind' = {}
  /\ queue' = {p \in Pools : pools[p] # None}
  /\ timers' = {}
  /\ pc' = "idle" /\ key' = None /\ listAt' = 1 /\ latest' = None /\ fresh' = FALSE /\ tries' = 0
  /\ UNCHANGED <<log, pools, asOf, edits>>

-----------------------------------------------------------------------------
Work == ListAllocations \/ GetLatest \/ UpdateStatus

Next ==
  \/ Work
  \/ \E p \in Pools : Reconcile(p) \/ RequeueAfter(p) \/ DeliverPool(p) \/ ChangePool(p)
  \/ DeliverAllocation
  \/ \E k \in AllocKeys : ChangeAllocation(k)
  \/ Crash

Spec == Init /\ [][Next]_vars

(* The reconciler runs, the work queue hands out every pool it holds       *)
(* sooner or later, informers catch up.  Nothing is assumed of the timer:  *)
(* events alone must do.                                                   *)
Fairness ==
  /\ WF_vars(Work)
  /\ WF_vars(DeliverAllocation)
  /\ \A p \in Pools : SF_vars(Reconcile(p)) /\ WF_vars(DeliverPool(p))

FairSpec == Spec /\ Fairness

-----------------------------------------------------------------------------
Revisions == 1 .. Len(log)

(* Types; the reconciler has a pool while it works and an object in hand   *)
(* when it updates; every copy is of a revision that exists.               *)
TypeOK ==
  /\ DOMAIN pools = Pools /\ DOMAIN poolCache = Pools
  /\ behind \subseteq Pools /\ queue \subseteq Pools /\ timers \subseteq Pools
  /\ \A p \in Pools \ behind : poolCache[p] = pools[p]
  /\ cacheAt \in Revisions /\ listAt \in 1 .. cacheAt
  /\ asOf \in [Pools -> 1 .. cacheAt]
  /\ pc \in {"idle", "list", "get", "update"}
  /\ IF pc = "idle" THEN key = None ELSE key \in Pools
  /\ pc = "update" <=> latest # None
  /\ tries \in 0 .. MaxAttempts
  /\ fresh => pc = "update" /\ latest = pools[key]

(* A status is never a mixture: what a write shows for the load balancers  *)
(* of the pool is the specification of that moment together with one       *)
(* revision of the allocations, and never an older one than the status it  *)
(* replaces, although list and pool are read apart, both from caches, and  *)
(* the pool may be edited or replaced in between.                          *)
Shows(object, revision, p) ==
  \A lb \in LBsOf(object.version) :
    /\ lb \in DOMAIN object.status
    /\ object.status[lb] = calculateLBStatus(object.version.spec, object.version.prewarm, lb,
                                             Labelled(log[revision], p))

StatusIsSnapshot ==
  [][\A p \in Pools :
       (pc = "update" /\ pc' = "idle" /\ pools'[p] # pools[p])
         => /\ pools'[p].version = pools[p].version
            /\ asOf'[p] >= asOf[p]
            /\ Shows(pools'[p], asOf'[p], p)]_vars

(* Once pools and allocations rest, every status shows them and does not   *)
(* change back, however the caches lag, updates conflict, calls fail and   *)
(* the reconciler wakes itself with the time stamps it writes, and without *)
(* the help of the ten-minute timer.                                       *)
StatusConverges ==
  \A p \in Pools : <>[](pools[p] # None => Shows(pools[p], Len(log), p))
=============================================================================
