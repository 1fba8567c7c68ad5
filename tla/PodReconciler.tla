---------------------------- MODULE PodReconciler ----------------------------
(***************************************************************************)
(* internal/controller/pod_controller.go: concurrent reconcilers that give *)
(* annotated pods an allocation in each of their network pools, put a      *)
(* finalizer on the pod, and release the allocations when the pod is being *)
(* deleted.                                                                *)
(*                                                                         *)
(* The reconcilers read pods (and, with CachedReads, allocations) from     *)
(* informer caches that follow the API server with a delay, and take keys  *)
(* from a work queue that never hands a key to two of them at once.        *)
(* AllocatePort and ReleasePort are single steps here: PoolAllocator is    *)
(* their detailed model.  An allocation is known by pool and pod name, as  *)
(* its object name is; pods of the same name in two namespaces share it.   *)
(***************************************************************************)
EXTENDS Integers, Sequences, FiniteSets, SequencesExt

CONSTANTS
  Workers,               \* the MaxConcurrentReconciles goroutines
  PodKeys,               \* <<namespace, name>> of pods
  Pools,                 \* names of network pools
  Annotations,           \* what users write: [enable, kind, items, ports]
  Declared,              \* ports that containers of pods may declare
  MaxPods,               \* bound on pods created
  AllocatorWired,        \* the reconciler was given an allocator
  AllocationsNamespaced, \* the API server refuses an allocation without namespace
  CachedReads,           \* allocations are read from the informer cache
  AnnotationsChange,     \* users edit the annotations of existing pods
  OtherFinalizer,        \* another controller puts a finalizer on pods
  MaxFaults,             \* bound on failing calls
  MaxCrashes,            \* bound on restarts of the process
  None                   \* no object

Apollo == "apollo"
Other == "other"
Blank == ""

Annotation == [enable : BOOLEAN, kind : {"absent", "malformed", "items"},
               items : Seq(Pools \cup {Blank}), ports : STRING]
Pod == [uid : 1 .. MaxPods, ann : Annotation, spec : Declared, rest : {"rest", None},
        deleting : BOOLEAN, fin : SUBSET {Apollo, Other}]
Allocation == [ns : {k[1] : k \in PodKeys}, uid : 1 .. MaxPods, ports : STRING]

ASSUME UsersAssumption == Annotations \subseteq Annotation /\ Declared \subseteq STRING

ASSUME BoundsAssumption == MaxPods \in Nat /\ MaxFaults \in Nat /\ MaxCrashes \in Nat

(* A pod is known by its namespace and its name. *)
ASSUME PodKeysAssumption ==
  \A j, k \in PodKeys : j[1] = k[1] /\ j[2] = k[2] => j = k

ASSUME NoneAssumption == None \notin PodKeys /\ None \notin Pod /\ None \notin Allocation

VARIABLES
  pods,       \* pods of the API server: [uid, ann, spec, rest, deleting, fin]
  podCache,   \* the informer's copy
  allocs,     \* allocations of the API server: [ns, uid, ports] by <<pool, pod name>>
  allocCache, \* the informer's copy
  queue,      \* keys to reconcile
  pc,         \* next step of each worker
  key,        \* pod it reconciles
  view,       \* the pod as it read it
  todo,       \* pools its loop still has to visit
  got,        \* its loop has found or made an allocation
  births,     \* pods created so far
  faults,     \* failed calls so far
  crashes     \* restarts so far

cluster == <<pods, births>>
store == <<allocs, allocCache>>
local == <<pc, key, view, todo, got>>
vars == <<cluster, podCache, store, queue, local, faults, crashes>>

AllocKeys == Pools \X {k[2] : k \in PodKeys}
AllocKey(p, k) == <<p, k[2]>>

-----------------------------------------------------------------------------
(* Annotations *)

(* An annotation value is absent, malformed JSON, or a list of items, each *)
(* a pool name or blank once trimmed.                                      *)
shouldManagePod(pod) == pod.ann.enable /\ pod.ann.kind # "absent"

(* Blank items are dropped, repeated ones kept once in the order of first  *)
(* appearance; << >> is the error.                                         *)
parseNetworkPools(pod) ==
  LET items  == pod.ann.items
      kept   == {i \in DOMAIN items : items[i] # Blank /\ \A j \in 1 .. i - 1 : items[j] # items[i]}
      Nth(n) == CHOOSE i \in kept : Cardinality({j \in kept : j < i}) = n - 1
  IN  IF pod.ann.kind # "items" THEN << >>
      ELSE [n \in 1 .. Cardinality(kept) |-> items[Nth(n)]]

(* The container-ports annotation, when there is one, must be JSON, and    *)
(* goes before the ports that the containers declare.                      *)
parseContainerPorts(pod) ==
  IF pod.ann.ports = "absent" THEN pod.spec ELSE pod.ann.ports

PortsParse(pod) == parseContainerPorts(pod) # "malformed"

(* Faulty variant: the cache keeps the two annotations that make a pod     *)
(* managed, and not the one that names its ports.                          *)
PodTransformTwoKeys(pod) ==
  IF pod = None THEN None ELSE [pod EXCEPT !.rest = None, !.ann.ports = "absent"]

(* The cache keeps uid, finalizers, deletion, the annotations above and    *)
(* the ports of the containers; "rest" is all that it discards.            *)
PodTransform(pod) == IF pod = None THEN None ELSE [pod EXCEPT !.rest = None]

-----------------------------------------------------------------------------
Init ==
  /\ pods = [k \in PodKeys |-> None]
  /\ podCache = pods
  /\ allocs = [a \in AllocKeys |-> None]
  /\ allocCache = allocs
  /\ queue = {}
  /\ pc = [w \in Workers |-> "idle"]
  /\ key = [w \in Workers |-> None]
  /\ view = [w \in Workers |-> None]
  /\ todo = [w \in Workers |-> << >>]
  /\ got = [w \in Workers |-> FALSE]
  /\ births = 0
  /\ faults = 0
  /\ crashes = 0

AllocView == IF CachedReads THEN allocCache ELSE allocs

Fault == faults < MaxFaults /\ faults' = faults + 1

Goto(w, step) == pc' = [pc EXCEPT ![w] = step]

(* Faulty variant: the key is not given back to the queue. *)
FinishKeepsKey(w, failed) ==
  /\ Goto(w, "idle")
  /\ view' = [view EXCEPT ![w] = None]
  /\ todo' = [todo EXCEPT ![w] = << >>]
  /\ got' = [got EXCEPT ![w] = FALSE]
  /\ queue' = IF failed THEN queue \cup {key[w]} ELSE queue
  /\ UNCHANGED key

(* The reconcile ends; one that returns an error is queued again. *)
Finish(w, failed) ==
  /\ Goto(w, "idle")
  /\ key' = [key EXCEPT ![w] = None]
  /\ view' = [view EXCEPT ![w] = None]
  /\ todo' = [todo EXCEPT ![w] = << >>]
  /\ got' = [got EXCEPT ![w] = FALSE]
  /\ queue' = IF failed THEN queue \cup {key[w]} ELSE queue

-----------------------------------------------------------------------------
(* The work queue never hands a key to two workers at once. *)
Free(k) == \A w \in Workers : key[w] # k

Available(w, k) == pc[w] = "idle" /\ k \in queue /\ Free(k)

(* Faulty variant: an annotation that cannot be parsed fails the deletion. *)
DeletionRouteFails(pod) ==
  IF Apollo \notin pod.fin THEN "done"
  ELSE IF parseNetworkPools(pod) = << >> THEN "fail" ELSE "release"

(* Reconcile: the key is taken from the queue, the pod read from the       *)
(* cache, and one of the two handlers entered.                             *)
DeletionRoute(pod) ==
  CASE Apollo \notin pod.fin -> "done"
    [] Apollo \in pod.fin /\ parseNetworkPools(pod) = << >> -> "unpatch"
    [] Apollo \in pod.fin /\ parseNetworkPools(pod) # << >> -> "release"

(* Faulty variant: a pod with the finalizer is taken to have its ports. *)
AllocationRouteOnce(pod) ==
  IF Apollo \in pod.fin THEN "done"
  ELSE IF parseNetworkPools(pod) = << >> \/ ~PortsParse(pod) THEN "fail" ELSE "check"

AllocationRoute(pod) ==
  IF parseNetworkPools(pod) = << >> \/ ~PortsParse(pod) THEN "fail" ELSE "check"

(* Faulty variant: a pod with the finalizer is taken to be on its way out. *)
RouteByFinalizer(pod) ==
  IF pod = None \/ ~shouldManagePod(pod) THEN "done"
  ELSE IF Apollo \in pod.fin THEN DeletionRoute(pod) ELSE AllocationRoute(pod)

Route(pod) ==
  IF pod = None \/ ~shouldManagePod(pod) THEN "done"
  ELSE IF pod.deleting THEN DeletionRoute(pod) ELSE AllocationRoute(pod)

Skip(w, k) ==
  /\ Available(w, k)
  /\ Route(podCache[k]) = "done"
  /\ queue' = queue \ {k}
  /\ UNCHANGED <<cluster, podCache, store, local, faults, crashes>>

(* The pod cannot be read: the error queues the key again. *)
GetFails(w, k) ==
  /\ Available(w, k)
  /\ Fault
  /\ UNCHANGED <<cluster, podCache, store, queue, local, crashes>>

(* An annotation that cannot be parsed: the error queues the key again. *)
Unparsable(w, k) ==
  /\ Available(w, k)
  /\ Route(podCache[k]) = "fail"
  /\ UNCHANGED vars

Reconcile(w, k) ==
  /\ Available(w, k)
  /\ Route(podCache[k]) \in {"unpatch", "release", "check"}
  /\ Goto(w, Route(podCache[k]))
  /\ queue' = queue \ {k}
  /\ key' = [key EXCEPT ![w] = k]
  /\ view' = [view EXCEPT ![w] = podCache[k]]
  /\ todo' = [todo EXCEPT ![w] = parseNetworkPools(podCache[k])]
  /\ UNCHANGED <<cluster, podCache, store, got, faults, crashes>>

-----------------------------------------------------------------------------
(* handlePodDeletion *)

(* Faulty variant: the namespace of the pod is not compared. *)
ReleasableAnyNamespace(objects, a, k) == objects[a] # None

(* ReleasePort: the object must be there, for a pod of that namespace. *)
Releasable(objects, a, k) == objects[a] # None /\ objects[a].ns = k[1]

(* A call of an allocator that is nil panics; controller-runtime recovers  *)
(* and queues the key again.                                               *)
Panics(w) == ~AllocatorWired /\ Finish(w, TRUE) /\ UNCHANGED <<allocs, faults>>

(* Faulty variant: the loop ends after the first pool. *)
ReleaseFirst(w) ==
  LET a == AllocKey(Head(todo[w]), key[w])
  IN  /\ pc[w] = "release"
      /\ allocs' = IF Releasable(AllocView, a, key[w]) THEN [allocs EXCEPT ![a] = None] ELSE allocs
      /\ Goto(w, "unpatch")
      /\ UNCHANGED <<cluster, podCache, allocCache, queue, key, view, todo, got, faults, crashes>>

(* One turn of the loop: whatever ReleasePort returns, the next pool is    *)
(* next, and after the last one the finalizer goes.                        *)
ReleaseNext(w) ==
  LET a == AllocKey(Head(todo[w]), key[w])
  IN  /\ pc[w] = "release"
      /\ \/ Panics(w)
         \/ /\ AllocatorWired
            /\ \/ /\ allocs' = IF Releasable(AllocView, a, key[w])
                               THEN [allocs EXCEPT ![a] = None] ELSE allocs
                  /\ UNCHANGED faults
               \/ Fault /\ UNCHANGED allocs
            /\ todo' = [todo EXCEPT ![w] = Tail(@)]
            /\ Goto(w, IF Len(todo[w]) = 1 THEN "unpatch" ELSE "release")
            /\ UNCHANGED <<queue, key, view, got>>
      /\ UNCHANGED <<cluster, podCache, allocCache, crashes>>

(* client.MergeFrom: the patch holds the fields in which the modified pod  *)
(* differs from the copy that was read, metadata.finalizers as a whole     *)
(* list, and neither version nor uid; the API server writes them over the  *)
(* pod it has by then.                                                     *)
MergePatch(original, modified, pod) ==
  [f \in DOMAIN pod |-> IF modified[f] # original[f] THEN modified[f] ELSE pod[f]]

(* The API server lets nobody add a finalizer to a pod that is being       *)
(* deleted.                                                                *)
Patchable(k, patched) ==
  pods[k] # None /\ (pods[k].deleting => patched.fin \subseteq pods[k].fin)

Patch(w, modified) ==
  LET k == key[w]
      patched == MergePatch(view[w], modified, pods[k])
  IN  \/ /\ Patchable(k, patched)
         /\ pods' = [pods EXCEPT ![k] = patched]
         /\ \/ Finish(w, FALSE) /\ UNCHANGED faults
            \/ Finish(w, TRUE) /\ Fault          \* the answer is lost
      \/ /\ \/ ~Patchable(k, patched) /\ UNCHANGED faults
            \/ Fault
         /\ Finish(w, TRUE)
         /\ UNCHANGED pods

(* The pod that was read has the finalizer: handlePodDeletion looked, and  *)
(* the early return for one without it is not taken.                       *)
removeFinalizer(w) ==
  /\ pc[w] = "unpatch"
  /\ Apollo \in view[w].fin
  /\ Patch(w, [view[w] EXCEPT !.fin = @ \ {Apollo}])
  /\ UNCHANGED <<births, podCache, store, crashes>>

-----------------------------------------------------------------------------
(* handlePodAllocation *)

(* findExistingAllocation *)
Exists(p, k) ==
  LET a == AllocView[AllocKey(p, k)] IN a # None /\ a.ns = k[1]

(* Faulty variant: a pod that has all its allocations is left as it is,   *)
(* with or without the finalizer.                                          *)
CheckThenSkip(w) ==
  LET found == \A p \in ToSet(todo[w]) : Exists(p, key[w])
  IN  /\ pc[w] = "check"
      /\ IF found THEN Finish(w, FALSE)
         ELSE Goto(w, "alloc") /\ UNCHANGED <<queue, key, view, todo, got>>
      /\ UNCHANGED <<cluster, podCache, store, faults, crashes>>

(* First loop: are there allocations in all pools already?  The first     *)
(* pool without one ends it, and the second loop starts over.              *)
CheckNext(w) ==
  LET found == Exists(Head(todo[w]), key[w])
      last == Len(todo[w]) = 1
  IN  /\ pc[w] = "check"
      /\ \/ /\ Goto(w, IF ~found THEN "alloc" ELSE IF last THEN "patch" ELSE "check")
            /\ todo' = [todo EXCEPT ![w] = IF found THEN Tail(@) ELSE parseNetworkPools(view[w])]
            /\ UNCHANGED <<queue, key, view, got, faults>>
         \/ Fault /\ Finish(w, TRUE)
      /\ UNCHANGED <<cluster, podCache, store, crashes>>

(* AllocatePort: no object of that name, neither in the view nor at the    *)
(* API server, and a namespace if the API server wants one.                *)
Allocatable(a) ==
  AllocView[a] = None /\ allocs[a] = None /\ ~AllocationsNamespaced

(* The next step once the loop has visited its last pool. *)
AfterPool(w, success) ==
  /\ got' = [got EXCEPT ![w] = @ \/ success]
  /\ todo' = [todo EXCEPT ![w] = Tail(@)]
  /\ Goto(w, IF Len(todo[w]) > 1 THEN "alloc"
             ELSE IF got[w] \/ success THEN "patch" ELSE "giveUp")

(* One turn of the second loop.  A failure is remembered only if no pool   *)
(* succeeds.                                                               *)
AllocateNext(w) ==
  LET p == Head(todo[w])
      a == AllocKey(p, key[w])
      object == [ns |-> key[w][1], uid |-> view[w].uid, ports |-> parseContainerPorts(view[w])]
  IN  /\ pc[w] = "alloc"
      /\ \/ ~Exists(p, key[w]) /\ Panics(w)
         \/ /\ \/ /\ Exists(p, key[w])
                  /\ AfterPool(w, TRUE)
                  /\ UNCHANGED <<allocs, faults>>
               \/ /\ AllocatorWired /\ ~Exists(p, key[w]) /\ Allocatable(a)
                  /\ allocs' = [allocs EXCEPT ![a] = object]
                  /\ \/ AfterPool(w, TRUE) /\ UNCHANGED faults
                     \/ AfterPool(w, FALSE) /\ Fault        \* the answer is lost
               \/ /\ \/ /\ AllocatorWired /\ ~Exists(p, key[w]) /\ ~Allocatable(a)
                        /\ UNCHANGED faults
                     \/ Fault
                  /\ AfterPool(w, FALSE)
                  /\ UNCHANGED allocs
            /\ UNCHANGED <<queue, key, view>>
      /\ UNCHANGED <<cluster, podCache, allocCache, crashes>>

(* All allocations failed: the error queues the pod again. *)
GiveUp(w) ==
  /\ pc[w] = "giveUp"
  /\ Finish(w, TRUE)
  /\ UNCHANGED <<cluster, podCache, store, faults, crashes>>

(* Nothing to do when the pod, as it was read, has the finalizer. *)
ensureFinalizer(w) ==
  /\ pc[w] = "patch"
  /\ \/ Apollo \in view[w].fin /\ Finish(w, FALSE) /\ UNCHANGED <<pods, faults>>
     \/ Apollo \notin view[w].fin /\ Patch(w, [view[w] EXCEPT !.fin = @ \cup {Apollo}])
  /\ UNCHANGED <<births, podCache, store, crashes>>

-----------------------------------------------------------------------------
(* The environment *)

CreatePod(k, ann, spec) ==
  /\ pods[k] = None /\ births < MaxPods
  /\ births' = births + 1
  /\ pods' = [pods EXCEPT ![k] =
       [uid |-> births', ann |-> ann, spec |-> spec, rest |-> "rest",
        deleting |-> FALSE, fin |-> {}]]
  /\ UNCHANGED <<podCache, store, queue, local, faults, crashes>>

DeletePod(k) ==
  /\ pods[k] # None /\ ~pods[k].deleting
  /\ pods' = [pods EXCEPT ![k].deleting = TRUE]
  /\ UNCHANGED <<births, podCache, store, queue, local, faults, crashes>>

Annotate(k, ann) ==
  /\ AnnotationsChange
  /\ pods[k] # None /\ pods[k].ann # ann
  /\ pods' = [pods EXCEPT ![k].ann = ann]
  /\ UNCHANGED <<births, podCache, store, queue, local, faults, crashes>>

(* Another controller adds its finalizer to a live pod, and removes it     *)
(* from one that is on its way out.                                        *)
OtherAdds(k) ==
  /\ OtherFinalizer
  /\ pods[k] # None /\ ~pods[k].deleting /\ Other \notin pods[k].fin
  /\ pods' = [pods EXCEPT ![k].fin = @ \cup {Other}]
  /\ UNCHANGED <<births, podCache, store, queue, local, faults, crashes>>

OtherDone(k) ==
  /\ pods[k] # None /\ pods[k].deleting /\ Other \in pods[k].fin
  /\ pods' = [pods EXCEPT ![k].fin = @ \ {Other}]
  /\ UNCHANGED <<births, podCache, store, queue, local, faults, crashes>>

(* The kubelet is done and no finalizer is left: the pod object goes. *)
PodGone(k) ==
  /\ pods[k] # None /\ pods[k].deleting /\ pods[k].fin = {}
  /\ pods' = [pods EXCEPT ![k] = None]
  /\ UNCHANGED <<births, podCache, store, queue, local, faults, crashes>>

(* The pod informer catches up; every event queues the key. *)
DeliverPod(k) ==
  /\ podCache[k] # PodTransform(pods[k])
  /\ podCache' = [podCache EXCEPT ![k] = PodTransform(pods[k])]
  /\ queue' = queue \cup {k}
  /\ UNCHANGED <<cluster, store, local, faults, crashes>>

(* The allocation informer catches up; nobody is woken. *)
DeliverAlloc(a) ==
  /\ CachedReads /\ allocCache[a] # allocs[a]
  /\ allocCache' = [allocCache EXCEPT ![a] = allocs[a]]
  /\ UNCHANGED <<cluster, podCache, allocs, queue, local, faults, crashes>>

(* The informer resyncs (every ten hours unless configured): the pods it   *)
(* knows are queued once more.                                             *)
Resync(k) ==
  /\ podCache[k] # None /\ k \notin queue
  /\ queue' = queue \cup {k}
  /\ UNCHANGED <<cluster, podCache, store, local, faults, crashes>>

(* The process restarts: the caches are listed anew and every pod queued. *)
Crash ==
  /\ crashes < MaxCrashes
  /\ crashes' = crashes + 1
  /\ podCache' = [k \in PodKeys |-> PodTransform(pods[k])]
  /\ allocCache' = IF CachedReads THEN allocs ELSE allocCache
  /\ queue' = {k \in PodKeys : pods[k] # None}
  /\ pc' = [w \in Workers |-> "idle"]
  /\ key' = [w \in Workers |-> None]
  /\ view' = [w \in Workers |-> None]
  /\ todo' = [w \in Workers |-> << >>]
  /\ got' = [w \in Workers |-> FALSE]
  /\ UNCHANGED <<cluster, allocs, faults>>

-----------------------------------------------------------------------------
Work(w) ==
  \/ ReleaseNext(w) \/ removeFinalizer(w)
  \/ CheckNext(w) \/ AllocateNext(w) \/ GiveUp(w) \/ ensureFinalizer(w)

Dequeue(w, k) == Skip(w, k) \/ GetFails(w, k) \/ Unparsable(w, k) \/ Reconcile(w, k)

Users ==
  \E k \in PodKeys :
    \/ \E ann \in Annotations : Annotate(k, ann) \/ \E spec \in Declared : CreatePod(k, ann, spec)
    \/ DeletePod(k)
    \/ OtherAdds(k)

Next ==
  \/ \E w \in Workers : Work(w) \/ \E k \in PodKeys : Dequeue(w, k)
  \/ Users
  \/ \E k \in PodKeys : OtherDone(k) \/ PodGone(k) \/ DeliverPod(k) \/ Resync(k)
  \/ \E a \in AllocKeys : DeliverAlloc(a)
  \/ Crash

Spec == Init /\ [][Next]_vars

(* Workers run, the queue hands out every key it holds sooner or later,    *)
(* informers catch up and resync, the kubelet and the other controller     *)
(* finish their part.  Nothing is assumed of users or of crashes.          *)
Fairness ==
  /\ \A w \in Workers : WF_vars(Work(w))
  /\ \A k \in PodKeys : /\ SF_vars(\E w \in Workers : Dequeue(w, k))
                        /\ WF_vars(OtherDone(k))
                        /\ WF_vars(PodGone(k))
                        /\ WF_vars(DeliverPod(k))
                        /\ WF_vars(Resync(k))
  /\ \A a \in AllocKeys : WF_vars(DeliverAlloc(a))

FairSpec == Spec /\ Fairness

-----------------------------------------------------------------------------
PcValues == {"idle", "release", "unpatch", "check", "alloc", "giveUp", "patch"}

(* A worker has a key and a pod in hand exactly while it reconciles, and a *)
(* pool to visit in each of the loops.                                     *)
InHandOK(w) ==
  /\ IF pc[w] = "idle" THEN key[w] = None /\ view[w] = None
     ELSE key[w] \in PodKeys /\ view[w] \in Pod
  /\ pc[w] \in {"release", "check", "alloc"} => todo[w] # << >>
  /\ pc[w] = "check" => parseNetworkPools(view[w]) # << >>

ClusterOK ==
  /\ pods \in [PodKeys -> Pod \cup {None}]
  /\ podCache \in [PodKeys -> Pod \cup {None}]
  /\ births \in 0 .. MaxPods

StoreOK ==
  /\ allocs \in [AllocKeys -> Allocation \cup {None}]
  /\ allocCache \in [AllocKeys -> Allocation \cup {None}]

LocalOK ==
  /\ queue \subseteq PodKeys
  /\ pc \in [Workers -> PcValues]
  /\ key \in [Workers -> PodKeys \cup {None}]
  /\ view \in [Workers -> Pod \cup {None}]
  /\ todo \in [Workers -> Seq(Pools)]
  /\ got \in [Workers -> BOOLEAN]
  /\ \A w \in Workers : InHandOK(w)

CountersOK == faults \in 0 .. MaxFaults /\ crashes \in 0 .. MaxCrashes

(* Types of all variables, and what a worker has in hand.                  *)
TypeOK == ClusterOK /\ StoreOK /\ LocalOK /\ CountersOK

Owned(p, k) == allocs[AllocKey(p, k)] # None /\ allocs[AllocKey(p, k)].ns = k[1]

(* A reconcile that works from an outdated copy of a pod never takes the   *)
(* ports of its successor of the same name, nor those of a pod of the same *)
(* name in another namespace: what it releases was allocated for the pod   *)
(* it read or for an earlier one.                                          *)
ReleaseNotNewer ==
  [][\A w \in Workers : \A a \in AllocKeys :
       (/\ pc[w] = "release" /\ todo'[w] = Tail(todo[w])
        /\ allocs[a] # None /\ allocs'[a] = None)
         => allocs[a].uid <= view[w].uid /\ allocs[a].ns = key[w][1]]_vars

(* "Uses finalizer to ensure proper cleanup": when the finalizer leaves a  *)
(* pod (or the pod leaves with it) no allocation is left in the pools the  *)
(* pod names.  Stated for direct reads, calls that do not fail, fixed      *)
(* annotations: the handler removes the finalizer whatever ReleasePort     *)
(* answered, and from the annotations as they are then.                    *)
FinalizerGuardsPorts ==
  [][\A k \in PodKeys :
       (/\ pods[k] # None /\ Apollo \in pods[k].fin
        /\ (IF pods'[k] = None THEN TRUE ELSE Apollo \notin pods'[k].fin))
         => \A p \in ToSet(parseNetworkPools(pods[k])) : ~Owned(p, k)]_vars

(* Allocations are made from a reduced and perhaps outdated copy of a pod, *)
(* and still for the ports that this very pod asks for, annotation first.  *)
(* Stated for fixed annotations.                                           *)
PortsAsRequested ==
  [][\A a \in AllocKeys : \A k \in PodKeys :
       (/\ allocs[a] = None /\ allocs'[a] # None
        /\ pods[k] # None /\ pods[k].uid = allocs'[a].uid)
         => allocs'[a].ports = parseContainerPorts(pods[k])]_vars

(* The finalizer never leaves a live pod, whatever outdated copy of the    *)
(* pod or of a predecessor of the same name a deletion works from: the     *)
(* patch that removes it names no uid, and would hit the successor.  It is *)
(* taken only off the pod that was read, once that one is being deleted.   *)
LiveKeepsFinalizer ==
  [][\A k \in PodKeys :
       (/\ pods[k] # None /\ pods'[k] # None
        /\ Apollo \in pods[k].fin /\ Apollo \notin pods'[k].fin)
         => /\ pods[k].deleting
            /\ \E w \in Workers : key[w] = k /\ view[w].uid = pods[k].uid]_vars

(* Once a pod is gone, the controller knows it and has nothing queued for  *)
(* it, none of its allocations is left.                                    *)
NoLeak ==
  \A k \in PodKeys :
    (pods[k] = None /\ podCache[k] = None /\ k \notin queue /\ Free(k))
      => \A p \in Pools : ~Owned(p, k)

(* The finalizer never keeps a pod from going: "Remove finalizer even if   *)
(* we can't parse pools to avoid blocking deletion".                       *)
DeletionCompletes ==
  \A k \in PodKeys : (pods[k] # None /\ pods[k].deleting) ~> (pods[k] = None)

(* "Pod is active, ensure ports are allocated and finalizer is set": a     *)
(* live pod with good annotations does not lack an allocation for ever.    *)
Wanting(k) ==
  /\ pods[k] # None /\ ~pods[k].deleting
  /\ shouldManagePod(pods[k]) /\ PortsParse(pods[k])
  /\ \E p \in ToSet(parseNetworkPools(pods[k])) : ~Owned(p, k)

PortsEnsured == \A k \in PodKeys : Wanting(k) ~> ~Wanting(k)

(* A live pod that has its ports does not stay without the finalizer that  *)
(* protects them.                                                          *)
Unprotected(k) ==
  /\ pods[k] # None /\ ~pods[k].deleting /\ Apollo \notin pods[k].fin
  /\ shouldManagePod(pods[k]) /\ PortsParse(pods[k])
  /\ parseNetworkPools(pods[k]) # << >>

FinalizerEnsured == \A k \in PodKeys : Unprotected(k) ~> ~Unprotected(k)

(* "removes our finalizer", "adds our finalizer": the finalizer of another *)
(* controller stays on a live pod.                                         *)
OtherFinalizerKept ==
  [][\A k \in PodKeys :
       (/\ pods[k] # None /\ pods'[k] # None
        /\ ~pods[k].deleting /\ Other \in pods[k].fin)
         => Other \in pods'[k].fin]_vars
=============================================================================
