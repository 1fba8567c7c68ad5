# apollo-network-controller: TLA+ models and proofs

The controller gives pods ports on load balancers. A user lists load balancers
and a port range in an `ApolloNetworkPool`; a pod that carries the controller's
annotations gets one `PortAllocation` object per pool it names, and loses it
when it is deleted. This directory models the parts that decide who gets which
port and when it is given back.

## Inventory

| Part | Source | State | Operations | Interacts with |
|---|---|---|---|---|
| Port selection | `pkg/allocator/allocate.go`, `lb.go` | none (pure), the round-robin index | count usage, check availability, scan for free ports, choose a load balancer | called by the pool allocator |
| Pool allocator | `pkg/allocator/core.go`, `allocate.go`, `release.go` | a mutex and a round-robin index per pool, in memory; `PortAllocation` objects at the API server | `AllocatePort`, `ReleasePort` | API server (Get, List, Create, Delete), concurrent callers |
| Pod reconciler | `internal/controller/pod_controller.go` | finalizers on pods; nothing in memory | `Reconcile` with a deletion and an allocation handler, ten at a time | pod informer and work queue, pool allocator, merge patches of pods |
| Pod cache transform | same file, `cmd/main.go` | the informer's reduced pods | `PodTransform` | feeds the pod reconciler |
| Network pool reconciler | `internal/controller/apollonetworkpool_controller.go` | `status` of the pools | recompute the status from the allocations, requeue after ten minutes | watches pools and allocations |
| List queries | `api/v1/port_allocation_types.go` | none | `GetAllocatedPortsByLB`, `HasPortConflicts`, `FindAllocationsByLBPort`, ... | the first is used by the allocator |
| Entry point | `cmd/main.go` | none | leader election (off by default), cache options, wiring of the reconcilers | decides how many processes run, what the caches hold, which allocator a reconciler has |
| Generated code, manifests | `zz_generated.deepcopy.go`, `config/` | none | | |

What is hard here: all synchronisation is a mutex inside one process, of which
there may be several, while the truth is objects at an API server that is read through caches; every call may
fail, or succeed and lose its answer; the process may die between two calls;
pods, pools and allocations change under the feet of a running call; keys are
names, and names are used again.

What makes the parts correct:

* *selection*: what the arithmetic check promises the scan delivers; the scan
  stays in the range; no load balancer with room is starved;
* *allocator*: no port of a load balancer has two owners; a release takes only
  what belongs to its pod; every call returns; bindings fit one version of the
  pool;
* *pod reconciler*: a live pod ends up with its ports and the finalizer; the
  finalizer goes only after the ports; nothing is leaked, nobody else's ports or
  finalizers are touched, a deletion is never blocked;
* *cache transform*: the reduced pod still carries what the handlers read;
* *pool reconciler*: a status never mixes revisions, never goes back, converges
  to the allocations, and, as long as the buffer is not negative and no number
  wraps, promises no port that the allocator cannot give;
* *queries*: a port that is bound twice is reported.

`PROJECT.json` lists the hazards one by one with the properties that watch them.

## Modules

| Module | Contents |
|---|---|
| `PortSelection` | the pure functions, as operators on a pool specification and a list of allocations |
| `PortSelectionProofs` | theorems about those functions, and the lemmas on ranks and counts they rest on |
| `SequentialAllocator`, `MCSequentialAllocator` | one caller, any history of grants, releases and edits: selection and arithmetic |
| `SequentialAllocatorProofs` | theorems about `SequentialAllocator` |
| `PortLedger` | abstract specification: holders are granted free slots at once and keep them until all are revoked |
| `PoolAllocator`, `MCPoolAllocator` | concurrent calls of `AllocatePort` and `ReleasePort`, API server, caches, crashes |
| `PoolAllocatorProofs` | theorems about `PoolAllocator`: types, conflicts, versions, releases |
| `LedgerRefinement` | the theorem that `PoolAllocator` implements `PortLedger` |
| `SharingProofs` | theorems about several managers and stale caches |
| `LeastUsedProofs` | the theorem about the "least-used" strategy |
| `PodReconciler`, `MCPodReconciler` | the pod controller; a call of the allocator is one step |
| `PodReconcilerProofs` | theorems about `PodReconciler` |
| `PoolStatus` | the status of one load balancer, as an operator; `SequentialAllocator` checks it against the allocator |
| `NetworkPoolReconciler`, `MCNetworkPoolReconciler` | the pool controller, its caches, retries and watches |
| `NetworkPoolReconcilerProofs` | theorems about `NetworkPoolReconciler` |

`PodReconciler` uses what `PoolAllocator` shows of the two calls: each either
takes effect at once on one object or not at all (`ImplementsLedger`), and an
error may be returned in both cases.

Definitions whose comment begins with "Faulty variant" are wrong on purpose:
each is a plausible mistake in the definition below it, and replacing that
definition by it breaks the property named with it in `PROJECT.json`.

### PortSelection

A Go call that returns an error or a value is a set, empty for the error.
`Int32` wraps each operation; `MaxInt` is a constant so that small instances
reach the wrap-around. The scan of `findAvailablePorts` is written as "the
`count` lowest free ports": the i-th port it returns is the free port with i - 1
free ports below it. `scanLoop` is the loop as written, one iteration after the
other with `port++` wrapping, and `ScanStaysInRange` compares the two. The list
queries are here too, on the same lists. `PortsLeft` is the number of ports left
in exact arithmetic; it serves to state where the int32 result differs from it.

### SequentialAllocator

One caller and one pool: `list` the allocations, `cur` the round-robin index,
`spec` the pool. `Grant` is a call of `AllocatePort` that succeeds; `GrantFails`
one that fails after `SelectLoadBalancer` has moved the index (any error of the
scan or of the Create, which leaves nothing behind); `Restart` a new process with an empty map of
indexes; `Release` and `EditPool` as the names say. `skipped` is a history variable: how
often in a row each load balancer with room was passed over since the last edit
or restart.

### PoolAllocator

| State | Code |
|---|---|
| `allocs`, `pools` | objects at the API server |
| `cache`, `watch`, `poolCache` | informer caches and the events on their way, for each manager process; used when `CachedReads` |
| `mutex`, `rrIndex` | `poolMutexes` (key namespace/pool), `roundRobinIndex`, for each process |
| `pc`, `req`, `seen`, `draft`, `tries` | a call: next step, arguments, fetched pool, object to create, attempts |
| `faults`, `envs` | counters that bound failures and environment steps |

Each API call is a step of its own: `checkForDuplicateAllocation` (List),
`FetchPool` (Get), `ListAndSelect` (List and the pure rest of
`tryAllocatePort`), `GetExisting` (Get), `CreateSucceeds` / `CreateFails` /
`CreateConflicts` (Create), `GetForRelease` (Get), `DeleteAllocation` (Delete).
A Create or Delete that lands while its answer is lost is the same step as one
that succeeds: both end the call. A conflict restarts the attempt while
`tries < MaxAttempts` (`retry.DefaultRetry`). Names are sequences of dash-free
segments, which makes `Sprintf("%s-%s")` a concatenation with its ambiguity.
`Process` says which manager a worker belongs to: one for all of them with
leader election, several without it. A crash concerns one process.
`CallerNamespace` states that all callers pass the same namespace for a pool, as
the pod controller (always `""`) and the tests do; the mutex depends on it.

External behaviour, modelled from its use: the API server (a key is unique, an
object with finalizers is only marked by a Delete, a namespaced kind needs a
namespace), informers (events in order, late), restarts.

### PodReconciler

`pods` and `podCache` are the API server's pods and the informer's copy, which
`PodTransform` has reduced: `rest` stands for all that it discards, `spec` for
the ports that containers declare. An allocation records the ports it was made
for. `queue` the work queue; each worker has the pod it read (`view`), the pools its
loop still has to visit (`todo`) and whether one succeeded (`got`). Actions
follow the handlers: `Reconcile` / `Skip` / `Unparsable` (entry, early returns),
`ReleaseNext` and `removeFinalizer` (deletion), `CheckNext`, `AllocateNext`,
`GiveUp`, `ensureFinalizer` (allocation); `GetFails` is a failing read of the
pod, which only queues the key again. `MergePatch` is the diff that
`client.MergeFrom` computes between the copy that was read and the modified one,
for every field of the reduced pod, finalizers as one list, and what the API
server makes of it: the differing fields are written over the pod of that name,
which may be another one by then. The API server refuses a new finalizer on a pod
that is being deleted. `Resync` is the informer's periodic resync (ten hours by
default, not configured here). An annotation is abstracted to whether it is
present, parses, and which items it lists; blank and repeated items are kept so
that the cleaning in `parseNetworkPools` matters (the result lists the positions
that are kept, in order). With `AllocatorWired` false
the reconciler is what `cmd/main.go` builds, one without an allocator: a call of
it panics, controller-runtime recovers and queues the key again. `Allocatable`
abstracts from `PoolAllocator`: a call fails because of a fault, or because the
object cannot be created; pools that are missing or full, which would fail for
as long as they are, do not occur, so `PortsEnsured` is about pods whose pools
have room.

### NetworkPoolReconciler

| State | Code |
|---|---|
| `log`, `cacheAt` | revisions of the collection of allocations at the API server; the one the informer has reached |
| `pools`, `poolCache`, `behind` | pools, the informer's copy, the pools whose copy is outdated |
| `queue`, `timers` | work queue; `RequeueAfter` that has not expired |
| `pc`, `key`, `listAt`, `latest`, `fresh`, `tries` | the one reconcile under way: step, pool, revision it listed, `latestPool`, whether that is still the server's version, attempts |
| `asOf` | history: the revision the status of each pool shows |

`Reconcile` (Get), `ListAllocations` (List), `GetLatest` (Get inside
`RetryOnConflict`), `UpdateStatus` (Status().Update) are the API calls; each may
fail, an update may also land and lose its answer. `DeliverAllocation` wakes the
pools that `mapPortAllocationToPool` names, `DeliverPool` wakes the pool itself,
also after the reconciler's own update. A version of a pool is not stored: an
update conflicts exactly when the pool was written since the copy was current,
which `behind` and `fresh` record. `LastUpdated` has a resolution of one second:
`StatusWritten` lets an update that changes nothing else be a new version or
not. A status is a function on load balancers, and entries of load balancers
that left the specification stay in it, as in the code.

## Runs

Passing runs:

| Run | Shows | Bounds and why |
|---|---|---|
| `selection` | a load balancer that passes the check has the ports; the scan never wraps; the status reports no port the allocator cannot give, but for the two exceptions below; round robin starves none; usage counts are exact; the index stays in some version of the pool | `MaxInt` = 7 with ranges that touch, span or miss the limits, one inverted by one and one by fourteen (its size wraps to a positive number), exclusions repeated and out of range, `bufferSize` -8, -2, 1 and 7: every branch of the arithmetic wraps. Up to three load balancers, three allocations of one or two ports, any number of failing calls and restarts, one edit: full, partly full, freed and stranded constellations, and a list that shrinks under the index |
| `alloc_direct` | no conflict in a pool, one version, own releases only, the inductive invariant, the ledger | two workers, three requests (equal pod names in two namespaces, no ports, two ports), two versions of the pool, one fault, two environment steps, finalizers that linger |
| `alloc_least_used` | least used still holds at the Create; calls return; a release takes only its own object although names coincide | two pools that share two load balancers, named so that one pod of each gets the same object name, three requests; two faults with `MaxAttempts` = 2 exhaust the retries; nobody else deletes |
| `alloc_cached` | a port has at most as many owners as there are managers and events under way; the queries report all of them | two managers with a worker each, caches that trail by one event, four pods for a pool of one port: the bound of three owners is reached, and it is not the number of pods that keeps it |
| `pod_direct` | finalizer after ports; nothing is taken from a successor or another namespace; the ports asked for; the finalizer is taken only from the pod that was read, and only once it is being deleted | two pods of one name, in two namespaces or in succession, two pools, annotated and declared ports that differ, another controller's finalizer, a crash (what makes a release repeat), no failing call |
| `pod_ensured` | ports, finalizer and deletion come about | cached reads, two pools, annotations edited to a malformed value and back at any time, a fault, a crash, a successor. One pod key, and so one worker: the queue gives a key to one at a time |
| `pool_status` | a status is one revision with one specification, never an older one, and converges | a pool with two versions that differ in load balancers, range and prewarming, two changes among an allocation of it and one of another pool, two edits (also deletion and recreation), a fault or a restart, two attempts: retries run out, list and pool drift apart, an entry becomes empty |

Runs that end in a violation, each a disagreement between the code and what it
says of itself (details under `findings`):

| Run | Property | What happens |
|---|---|---|
| `alloc_cached_conflict` | `NoPortConflictInPool` | with the cached client two allocations get the same port in spite of the mutex |
| `pod_leak` | `NoLeak` | a pod deleted between Create and finalizer leaks its allocation |
| `pod_stuck` | `DeletionCompletes` | annotations removed under the finalizer block the deletion for ever |
| `pod_shipped` | `PortsEnsured` | the reconciler is built without an allocator: every reconcile panics. With one, and the shipped CRDs, every Create would lack its namespace (the run with `AllocatorWired` true is violated too) |
| `pod_finalizers` | `OtherFinalizerKept` | the merge patch drops another controller's finalizer |

Limits of the code that the models contain and no run is devoted to:

* Mutex and list are per pool, so two pools that reference one load balancer
  with overlapping ranges may hand out the same port of it. The properties are
  therefore stated per pool.
* Pool `a` with pod `b-c` and pool `a-b` with pod `c` share an object name; after
  a foreign deletion a release may then delete the other pod's object. This is
  why `OwnRelease` assumes `NoAlias`.
* The availability check may refuse a load balancer that has ports (exclusions
  repeated or outside the range are subtracted all the same); only the other
  direction, `SelectedLBServes`, holds.
* Without leader election, which is the default, two managers may give a port to
  two pods; `SharersBounded` says how far this goes.
* `HasPortConflicts` does not look at the load balancer: equal ports of two load
  balancers count as a conflict. Only the other direction, that it misses none,
  is a property.
* Status entries of load balancers that left the specification of a pool stay
  with the counts they had, and `StatusConverges` speaks of the others.
* A pool's status may wake its own reconciler without end, once a second at
  most, since it carries a time stamp. It converges all the same.
* The controller tests expect a requeue after five minutes, the code asks for
  ten; `StatusConverges` needs neither.
* A range whose `min` exceeds its `max` by more than 2^31 + 1 passes the availability
  check, since the int32 difference wraps to a positive number, and the scan then
  finds nothing; the CRD does not validate the order. `SelectedLBServes`,
  `ScanStaysInRange` and `AvailableIsServable` except exactly the case that the
  number of ports left is below the smallest int32.
* `bufferSize` is an int32 without a minimum. A negative one makes
  `AvailableCount` exceed what the allocator can give, by the size of the buffer
  (`Inflation`); `AvailableIsServable` says that nothing else does.
* The object of an allocation is named after pool and pod, not after the pod's
  namespace, and all objects of a pool are in one namespace: of two pods of one
  name in two namespaces that use the same pool the second never gets ports while the first has them.
  `pod_ensured`, which checks `PortsEnsured`, therefore has one namespace;
  `pod_direct` has two.
* A deletion that works from a copy of a predecessor patches by name: on a live
  successor it may drop, or put back, the finalizer of another controller, the
  list being sent as a whole. It never takes our own from it
  (`LiveKeepsFinalizer`). The run `pod_finalizers` shows the same of the patch
  that adds the finalizer.
* A release that fails is logged and the finalizer goes all the same, by
  intention; the allocation stays. `FinalizerGuardsPorts` and `NoLeak` are
  checked with calls that do not fail.
* With cached reads the reconcile of a pod's successor may find the deleted
  allocation of its predecessor and report success.

`CHECK_DEADLOCK FALSE` is used in the selection run (when slots and edits are
used up a pool may be full), in the pod runs (when no pods are left to create
nothing need happen) and in the pool run (a pool that was deleted is quiet).
Workers, managers and namespaces are symmetric in the safety runs; no liveness
property is checked under symmetry.

### Fairness

`PoolAllocator`: weak fairness of every worker's steps inside a call (goroutines
run, API calls have timeouts and return), strong fairness of `Lock` (Go's mutex
goes into starvation mode and hands itself to the longest waiter), weak fairness
of watch delivery. `PodReconciler`: weak fairness of a worker's steps, strong
fairness of handing a queued key to some worker (the work queue is a queue; a
key may be blocked while a worker has it), weak fairness of the informers, the
resync, the kubelet and the other controller's removal of its finalizer.
`NetworkPoolReconciler`: weak fairness of the reconciler's steps and of both
informers, strong fairness of taking a queued pool (the one worker may be busy
with another); none of the ten-minute timer. Nothing
is assumed of users, failures or crashes; failures are bounded in number, which
is the assumption "calls fail only finitely often".

`PortsEnsured` in `pod_ensured` rests on `Resync` when a successor has adopted
the cached allocation of its predecessor, or a pool failed and the others did
not: nothing else need look at the pod again.

## Proofs

The theorems hold for all constants that meet the assumptions named in the
modules: the types of requests, specifications, annotations and bounds, `None`
no object, finitely many workers, `CallerNamespace`, and that a pod is known by
its namespace and name. Further hypotheses are written in the statement, and
each is needed: a run or a limit listed above is the counterexample without it.

**Selection.** `CheckKeepsPromise` and `StatusKeepsPromise` are about the
operators alone. The check is arithmetic on int32 and subtracts the *length* of
the exclusion list and the *number* of bindings; the scan removes *sets* of
ports. Ranges, exclusions and bindings are any int32 values, `min` above `max`
included, and `bufferSize` is any int32 (`InInt32`, `Int32Range`). The argument:
whatever wraps on the way, the result is the exact number of ports left up to a
multiple of 2^32 (`Machine`, `MachineStep`, `LeftIsMachine`). That number is at
most 2^32, where the result is 0, so a positive result means that the exact
number is at least as large, unless that is below the smallest int32: the one hypothesis of the two
theorems, and the exception the properties name. A negative buffer is subtracted
from the report (`Inflation`, `BufferArithmetic`). The sets removed have at most
as many members as were subtracted (`LeftIsFree`); a set of n integers has a member of every rank below n
(`EveryRank`), so the ports the scan names exist. `ScanComputes` is about the
loop itself: it ends within the range with exactly these ports. `scanLoop` is a
recursive function, and the prover has no induction to offer, so each of the two
inductions is an argument about a least counterexample (`LeastNat`). The first
shows that the recursion defines a function at all: finite runs of the loop exist
(`ScanRuns`) and agree with each other (`ScanUnique`), which makes the function
that collects their last states the one `CHOOSE` picks (`ScanDefined`). The
second is the loop invariant `ScanInv`: what was found after m turns are free
ports, the i-th with i - 1 free ports below it, and as long as there are too few
they are all the free ports below `min + m`. The only `port++` that can wrap is
the last one, and then the range has the ports asked for (`ScanComputes` assumes
that, or a range that ends earlier; the check guarantees it). Over any history:

* `SequentialTypes`, `ExactUsage`: `ListInv` says that the bindings of the list
  are pairwise different per load balancer and lie in versions of the pool; it
  is inductive because a grant takes free ports (`GrantKeeps`), and it makes the
  number of bindings a number of ports.
* `SelectedServes`, `AvailableServes`: the promises above in every reachable
  state, with the exceptions that the properties name and no others.
  `SelectedServes` has no hypothesis; `AvailableServes` assumes that the prewarmed
  number is an int32, which is its Go type.
* `ScanInRange`, without hypothesis: the loop computes what `findAvailablePorts` says in every
  reachable state, after the check or for a range that ends before the largest
  int32.
* `NoStarvation`: `TurnComes`, that the times a load balancer was passed over
  and its distance from the index stay together below the number of load
  balancers, is inductive, also under calls that move the index and fail, and
  under restarts, which begin a new count.

**Allocator.**

* `TypeCorrect`: `Spec => []TypeOK`, with cached reads and without.
* `Inductive`, `NoConflict`: with direct reads and one manager process
  (`OneProcess`), `Spec => []NoPortConflictInPool`. The property alone is not
  inductive: a Create preserves it only if the drafted object is still free of
  conflicts. `IInv` adds `DraftInv` (drafts in hand do not conflict with the
  stored allocations of their pool) and `MutexInv` (a worker between Lock and
  Unlock holds its pool's mutex). The list that a draft was made from is current
  when reads are direct (`NewBindings`, `ListStep`); afterwards only a Create
  adds bindings (`OnlyCreateAdds`), and a Create in the same pool would need the
  same mutex (`OnePerPool`). `alloc_cached_conflict` is the counterexample
  without `~CachedReads`; workers of two processes hold mutexes of their own.
* `SingleVersion`: `Spec => []BindingsFromOneSpec`, also with cached reads;
  `SpecInv` follows the specification from the pool and its cached copy
  (`PoolsKnown`) over what was fetched (`SeenKnown`) and drafted (`DraftKnown`)
  to what is stored.
* `OwnRelease`: with direct reads, one process and `NoAlias`, `Spec => ReleaseOwnOnly`;
  `VerifiedInv` says that what was verified is still true, or the object gone,
  when the Delete comes. Without `NoAlias` the statement is false.
* `Refinement`: under the hypotheses of `NoConflict`, `Spec => ImplementsLedger`.
  A Create is a grant, and its ports are free by `DraftInv`; the removal of an
  object is a revocation; a Delete that only marks an object with finalizers, and
  every other step, leaves the ledger alone (`StoreStep`).
* `BoundedSharing`, `SharingReported`: without any hypothesis. What bounds the
  owners of a port is that each owner was chosen by a process that did not see
  the others: `ShareInv` counts, for each port, the stored owners together with
  the drafts about to become owners (`ShareBounded`), and `CacheInv` says that a
  cache with the events on their way to it is what is stored. A process lists and
  drafts under one mutex (`OnePerProcess`), and what its list lacks of the stored
  objects is on its way, which is at most `MaxLag` events.
* `LeastUsedGranted`: with direct reads, one process, `NoAlias` and the
  "least-used" strategy, `Spec /\ [][Undisturbed]_vars => GrantToLeastUsed`. The
  choice is made at the List, the promise is about the Create, and in between
  others work in the pool. `LeastInv` says that a fetched pool is current
  (`SeenCurrent`) and a draft is on a load balancer that is least used *now*
  (`DraftLeast`). It is inductive because what the pool's list says does not
  change while a worker has a draft in it (`ListKept`): a Create or a Delete in
  the pool takes the mutex, and a call of another pool does not touch an object
  of this one (`VerifiedInv`). `Undisturbed` rules out what the mutex cannot see:
  edits of pools, and allocations deleted by users or gone with the last
  finalizer of another controller. In the run `alloc_least_used` none of these
  can happen, so there every behaviour is undisturbed; an external deletion
  between List and Create can make another load balancer the least used.

**Pod reconciler.**

* `PodTypes`: includes that a worker in one of its loops has a pool to visit.
* `CopiesSound`: `Spec => []PodInv`, with cached reads, failures and restarts.
  `Exclusive` is the work queue's promise. `CopyInv` says of every copy of a pod,
  in the cache or in hand, that the pod now under that name is the same or a
  later one, that a deletion it shows is for good, that no allocation of the key
  was made for a later pod, and that a copy which asks for a clean-up does not
  meet a later pod with our finalizer. The last part is the delicate one: the
  patch that adds the finalizer must come from a worker that has seen the
  successor, and a copy older than that is held neither by the cache nor, by
  `Exclusive`, by another worker (`WorkerInv`). Each step is looked at from one
  key (`StepAt`): the pod of the key is patched, changed from outside, delivered
  to the cache, allocated for, or left alone.
* `LiveKeeps`: `Spec => LiveKeepsFinalizer`, without hypotheses. `PatchEffect` says
  what a merge patch does to the pod under the key, `FinalizerTaken` that only
  `removeFinalizer` can take our finalizer from a pod that stays, and its copy
  shows a deletion and our finalizer; by `CopyInv` such a copy never meets a later
  pod that has the finalizer, so the pod is the one that was read, and its
  deletion is for good.
* `NotNewer`: with direct reads, `Spec => ReleaseNotNewer`: what `ReleaseNext`
  deletes is owned by the key, hence no newer than `view`.
* `RequestedPorts`: with annotations that stay, `Spec => PortsAsRequested`.
  `AgreeInv`: copies agree on annotations and declared ports with the pod of
  their uid; a uid is never used again.
* `GuardedPorts`: with direct reads, no failing calls and annotations that stay,
  `Spec => FinalizerGuardsPorts`. `ReleasedInv`: the pools that the deletion loop
  has left behind are released; nobody else allocates for the key meanwhile
  (`Exclusive`). Only `removeFinalizer` takes the finalizer from a pod; the pod is
  the one in hand (`CopyInv`), names the same pools (`AgreeInv`), and the loop is
  over.
* `LeakNeedsRace`: under the hypotheses of `GuardedPorts`,
  `Spec /\ [][DeletionsWait]_vars => []NoLeak`, where `DeletionsWait` says that
  nobody deletes a pod which waits for its ports or the finalizer. `NoLeak` fails
  in `pod_leak`; the theorem says that with these hypotheses the race shown there
  is the only way to leak. `HeldInv` says more than `NoLeak`: every allocation has
  a pod that names its pool and, once it is on its way out, bears the finalizer.
  For an allocation to begin so, the copy it is made from must show the pod that
  is there, which is `LiveInv`: a copy that still looks alive is of the present
  pod, and the finalizer has not been taken from it. The finalizer goes only by a
  worker that has seen the deletion, and then the cache has seen it as well
  (`CacheKnows`). The same configuration as in `pod_direct`, with more kinds of
  annotations, was explored with TLC for `LiveInv` and `HeldInv` beforehand.

**Pool reconciler.** `StatusTypes` and `SnapshotStatus`. `TypeOK`
contains that a copy which is `fresh` is the server's version of the pool, so an
update that does not conflict carries the current specification; `Inv` adds
`ListRecent`, that the revision a reconcile has listed is no older than the one
its pool shows, which makes the statuses of a pool monotone, and the shape of
the objects in `log`, in the cache and in hand.

Only model-checked: the liveness properties `CallReturns`, `PortsEnsured`,
`FinalizerEnsured`, `DeletionCompletes`, `StatusConverges` (fairness and ENABLED
are beyond the prover). Every invariant and every action property of a passing
run is stated by a theorem.

## Not modelled

* List queries that filter by a field or a phase: no code calls them, and no code
  sets a phase after the first.
* Writes that land after the process that sent them is gone.
* `Status` of a new allocation: the API server drops it on create and no code
  reads it.
* Prewarmed ports beyond their number: the code only subtracts `bufferSize`.
* The bodies of `AllocatePort` and `ReleasePort` inside `PodReconciler`, and the
  allocator inside `NetworkPoolReconciler`, whose allocations change at any time.
* Flags, TLS, metrics, health probes, generated deep copies, manifests.

## Plan

1. Done: `PortSelection`, `SequentialAllocator`, `PortLedger`, `PoolAllocator`
   with several processes, `PodReconciler` with the cache transform and the
   missing allocator, `PoolStatus`, `NetworkPoolReconciler`, the queries about
   conflicts; the proofs above.
2. Left: an abstract specification of the pod's life cycle that `PodReconciler`
   implements under the hypotheses of `LeakNeedsRace`.
