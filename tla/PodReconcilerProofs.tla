------------------------- MODULE PodReconcilerProofs -------------------------
(***************************************************************************)
(* Proofs about PodReconciler, for any number of workers, pods, pools,     *)
(* annotations, failures and restarts.                                     *)
(***************************************************************************)
EXTENDS PodReconciler, PortSelectionProofs

Releasing == {"release", "unpatch"}
Allocating == {"check", "alloc", "giveUp", "patch"}

(* The work queue: a key is in one pair of hands at a time. *)
Exclusive ==
  \A v, w \in Workers : key[v] # None /\ key[v] = key[w] => v = w

(* What is known of a copy c of the pod of key k, however old it is: the   *)
(* pod that is there now is the same or a later one; a deletion that the   *)
(* copy shows is for good; when the copy shows a deletion with our         *)
(* finalizer still to be removed, no later pod has got the finalizer yet;  *)
(* and no allocation of the key was made for a later pod.                  *)
CopyOK(c, k) ==
  /\ c.uid <= births
  /\ pods[k] # None =>
       /\ c.uid <= pods[k].uid
       /\ (c.deleting /\ c.uid = pods[k].uid) => pods[k].deleting
       /\ (c.deleting /\ Apollo \in c.fin /\ Apollo \in pods[k].fin) => c.uid = pods[k].uid
  /\ \A p \in Pools : Owned(p, k) => allocs[AllocKey(p, k)].uid <= c.uid

(* The pod of key k is there, the one that c shows, and has the finalizer. *)
Protected(c, k) == pods[k] # None /\ pods[k].uid = c.uid /\ Apollo \in pods[k].fin

KeyInv(k) ==
  /\ \A p \in Pools : Owned(p, k) => allocs[AllocKey(p, k)].uid <= births
  /\ pods[k] # None => CopyOK(pods[k], k)
  /\ podCache[k] # None =>
       /\ CopyOK(podCache[k], k)
       /\ (~podCache[k].deleting /\ Apollo \in podCache[k].fin) => Protected(podCache[k], k)

(* What a worker has in hand is no newer than the cache, and as long as it *)
(* is at work nobody else moves the finalizer.                             *)
WorkerInv(w) ==
  LET k == key[w]
      c == podCache[k]
  IN  /\ CopyOK(view[w], k)
      /\ c # None => view[w].uid <= c.uid
      /\ pc[w] \in Releasing =>
           /\ view[w].deleting /\ Apollo \in view[w].fin
           /\ (c # None /\ Apollo \in c.fin) => c.uid = view[w].uid /\ c.deleting
      /\ (pc[w] \in Allocating /\ c # None /\ Apollo \in c.fin) => Protected(c, k)

CopyInv ==
  /\ \A k \in PodKeys : KeyInv(k)
  /\ \A w \in Workers : pc[w] # "idle" => WorkerInv(w)

(* Copies of a pod agree with it on annotations and declared ports. *)
Agrees(c) ==
  \A k \in PodKeys : (pods[k] # None /\ pods[k].uid = c.uid)
                        => pods[k].ann = c.ann /\ pods[k].spec = c.spec

AgreeInv ==
  /\ \A k \in PodKeys : /\ pods[k] # None => Agrees(pods[k])
                        /\ podCache[k] # None => Agrees(podCache[k])
  /\ \A w \in Workers : pc[w] # "idle" => Agrees(view[w])

(* The pools that the loop of handlePodDeletion has visited are released. *)
ReleasedInv ==
  \A w \in Workers :
    /\ pc[w] = "unpatch" => todo[w] = << >>
    /\ pc[w] \in Releasing =>
         \A p \in ToSet(parseNetworkPools(view[w])) \ ToSet(todo[w]) : ~Owned(p, key[w])

PodInv == Exclusive /\ CopyInv

-----------------------------------------------------------------------------
(* Operators *)

(* parseNetworkPools returns names of pools.                               *)
LEMMA ParseType ==
  ASSUME NEW pod \in Pod
  PROVE  parseNetworkPools(pod) \in Seq(Pools)
<1> DEFINE items == pod.ann.items
           kept == {i \in DOMAIN items : items[i] # Blank /\ \A j \in 1 .. i - 1 : items[j] # items[i]}
           Nth(n) == CHOOSE i \in kept : Cardinality({j \in kept : j < i}) = n - 1
<1>e. parseNetworkPools(pod) = IF pod.ann.kind # "items" THEN << >>
                               ELSE [n \in 1 .. Cardinality(kept) |-> items[Nth(n)]]
  BY DEF parseNetworkPools
<1>1. items \in Seq(Pools \cup {Blank})
  BY DEF Pod, Annotation
<1> HIDE DEF items
<1>2. DOMAIN items = 1 .. Len(items) /\ Len(items) \in Nat
  BY <1>1
<1>3. \A i \in kept : i \in 1 .. Len(items) /\ i \in Int /\ 1 <= i /\ items[i] \in Pools
  BY <1>1, <1>2
<1> HIDE DEF kept
<1>4. kept \in SUBSET Int /\ kept \in SUBSET (1 .. Len(items)) /\ \A i \in kept : 1 <= i
  BY <1>2, <1>3
<1>5. IsFiniteSet(kept) /\ Cardinality(kept) \in Nat
  <2>1. IsFiniteSet(1 .. Len(items))
    BY <1>2, FS_Interval
  <2> QED BY <1>4, <2>1, FS_Subset, FS_CardinalityType
<1>6. ASSUME NEW n \in 1 .. Cardinality(kept) PROVE items[Nth(n)] \in Pools
  <2>1. n - 1 \in Nat /\ n - 1 < Cardinality(kept) /\ 1 \in Int
    BY <1>5
  <2>2. \E i \in kept : Cardinality({j \in kept : j < i}) = n - 1
    <3> HIDE DEF Nth
    <3> QED BY <1>4, <1>5, <2>1, EveryRank
  <2>3. Nth(n) \in kept
    BY <2>2
  <2> QED BY <1>3, <2>3
<1> HIDE DEF Nth
<1>7. [n \in 1 .. Cardinality(kept) |-> items[Nth(n)]] \in Seq(Pools)
  BY <1>5, <1>6
<1> QED BY <1>7, <1>e

(* The cache keeps of a pod all that the reconciler asks it for.           *)
LEMMA TransformKeeps ==
  ASSUME NEW pod \in Pod \cup {None}
  PROVE  /\ PodTransform(pod) \in Pod \cup {None}
         /\ PodTransform(pod) = None <=> pod = None
         /\ pod # None => /\ PodTransform(pod).uid = pod.uid
                          /\ PodTransform(pod).ann = pod.ann
                          /\ PodTransform(pod).spec = pod.spec
                          /\ PodTransform(pod).deleting = pod.deleting
                          /\ PodTransform(pod).fin = pod.fin
<1>1. CASE pod = None
  BY <1>1 DEF PodTransform
<1>2. CASE pod # None
  <2> DEFINE copy == [pod EXCEPT !.rest = None]
  <2>1. PodTransform(pod) = copy
    BY <1>2 DEF PodTransform
  <2>2. pod \in Pod
    BY <1>2
  <2>3. /\ copy \in Pod
        /\ copy.uid = pod.uid /\ copy.ann = pod.ann /\ copy.spec = pod.spec
        /\ copy.deleting = pod.deleting /\ copy.fin = pod.fin
    BY <2>2 DEF Pod
  <2> HIDE DEF copy
  <2> QED BY <1>2, <2>1, <2>2, <2>3, NoneAssumption
<1> QED BY <1>1, <1>2

(* The ports that are asked of the allocator are strings as users write.   *)
LEMMA PortsType ==
  ASSUME NEW pod \in Pod
  PROVE  parseContainerPorts(pod) \in STRING
BY UsersAssumption DEF parseContainerPorts, Pod, Annotation

-----------------------------------------------------------------------------
(* Type correctness *)

(* What a worker holds.                                                    *)
LEMMA InHand ==
  ASSUME TypeOK, NEW w \in Workers
  PROVE  /\ pc[w] # "idle" => key[w] \in PodKeys /\ view[w] \in Pod
         /\ pc[w] = "idle" => key[w] = None /\ view[w] = None
         /\ pc[w] = "check" => parseNetworkPools(view[w]) # << >>
         /\ pc[w] \in {"release", "check", "alloc"} =>
              /\ todo[w] # << >>
              /\ Head(todo[w]) \in Pools /\ Tail(todo[w]) \in Seq(Pools)
              /\ Len(todo[w]) \in Nat /\ Len(todo[w]) > 0
              /\ Len(todo[w]) # 1 => Tail(todo[w]) # << >>
<1>1. InHandOK(w) /\ todo[w] \in Seq(Pools)
  BY DEF TypeOK, LocalOK
<1>2. ASSUME NEW s \in Seq(Pools), s # << >>
      PROVE  /\ Head(s) \in Pools /\ Tail(s) \in Seq(Pools)
             /\ Len(s) \in Nat /\ Len(s) > 0 /\ (Len(s) # 1 => Tail(s) # << >>)
  <2>1. Len(s) \in Nat /\ Len(s) > 0
    BY <1>2
  <2>2. Tail(s) \in Seq(Pools) /\ Len(Tail(s)) = Len(s) - 1
    BY <1>2
  <2> QED BY <1>2, <2>1, <2>2
<1> QED BY <1>1, <1>2 DEF InHandOK

(* The end of a reconcile leaves the worker with empty hands.              *)
LEMMA FinishType ==
  ASSUME LocalOK, NEW w \in Workers, key[w] \in PodKeys, NEW failed \in BOOLEAN,
         Finish(w, failed)
  PROVE  LocalOK'
<1>1. /\ queue' \subseteq PodKeys
      /\ pc' \in [Workers -> PcValues]
      /\ key' \in [Workers -> PodKeys \cup {None}]
      /\ view' \in [Workers -> Pod \cup {None}]
      /\ todo' \in [Workers -> Seq(Pools)]
      /\ got' \in [Workers -> BOOLEAN]
  BY DEF LocalOK, Finish, Goto, PcValues
<1>2. ASSUME NEW v \in Workers PROVE InHandOK(v)'
  <2>1. InHandOK(v)
    BY DEF LocalOK
  <2> QED BY <2>1 DEF LocalOK, InHandOK, Finish, Goto
<1> QED BY <1>1, <1>2 DEF LocalOK

(* A step of a worker within its reconcile.                                *)
LEMMA StepType ==
  ASSUME LocalOK, NEW w \in Workers, pc[w] # "idle", NEW to \in PcValues \ {"idle"},
         NEW s \in Seq(Pools), to \in {"release", "check", "alloc"} => s # << >>,
         to = "check" => pc[w] = "check",
         NEW b \in BOOLEAN,
         pc' = [pc EXCEPT ![w] = to],
         todo' = [todo EXCEPT ![w] = s],
         got' = [got EXCEPT ![w] = b],
         UNCHANGED <<queue, key, view>>
  PROVE  LocalOK'
<1>1. /\ pc' \in [Workers -> PcValues]
      /\ todo' \in [Workers -> Seq(Pools)]
      /\ got' \in [Workers -> BOOLEAN]
  BY DEF LocalOK
<1>2. ASSUME NEW v \in Workers PROVE InHandOK(v)'
  <2>1. InHandOK(v)
    BY DEF LocalOK
  <2> QED BY <2>1 DEF LocalOK, InHandOK
<1> QED BY <1>1, <1>2 DEF LocalOK

(* The initial state is well typed.                                        *)
LEMMA TypeInit == Init => TypeOK
<1> SUFFICES ASSUME Init PROVE TypeOK
  OBVIOUS
<1>1. \A w \in Workers : InHandOK(w)
  BY DEF Init, InHandOK
<1> QED BY <1>1, BoundsAssumption
        DEF Init, TypeOK, ClusterOK, StoreOK, LocalOK, CountersOK, PcValues

(* The fields of a pod.                                                    *)
LEMMA PodDomain ==
  ASSUME NEW pod \in Pod
  PROVE  /\ DOMAIN pod = {"uid", "ann", "spec", "rest", "deleting", "fin"}
         /\ pod = [f \in DOMAIN pod |-> pod[f]]
BY DEF Pod

(* The diff between a copy and the copy with other finalizers is the list  *)
(* of finalizers: nothing else of the pod is written.                      *)
LEMMA MergedPod ==
  ASSUME NEW original \in Pod, NEW pod \in Pod, NEW fin, fin # original.fin
  PROVE  MergePatch(original, [original EXCEPT !.fin = fin], pod) = [pod EXCEPT !.fin = fin]
<1> DEFINE modified == [original EXCEPT !.fin = fin]
           fields == {"uid", "ann", "spec", "rest", "deleting", "fin"}
<1>1. DOMAIN pod = fields /\ DOMAIN original = fields /\ pod = [f \in fields |-> pod[f]]
  BY PodDomain
<1>2. \A f \in fields : modified[f] = IF f = "fin" THEN fin ELSE original[f]
  BY <1>1
<1>3. [pod EXCEPT !.fin = fin] = [f \in fields |-> IF f = "fin" THEN fin ELSE pod[f]]
  BY <1>1
<1>4. MergePatch(original, modified, pod)
        = [f \in fields |-> IF modified[f] # original[f] THEN modified[f] ELSE pod[f]]
  BY <1>1 DEF MergePatch
<1> HIDE DEF modified
<1>5. \A f \in fields : (IF modified[f] # original[f] THEN modified[f] ELSE pod[f])
                        = (IF f = "fin" THEN fin ELSE pod[f])
  BY <1>2
<1>6. MergePatch(original, modified, pod)
        = [f \in fields |-> IF f = "fin" THEN fin ELSE pod[f]]
  BY <1>4, <1>5
<1> QED BY <1>3, <1>6, Zenon DEF modified

(* What a patch does, whether it succeeds or not.                          *)
LEMMA PatchEffect ==
  ASSUME NEW w, NEW modified, Patch(w, modified)
  PROVE  /\ \E failed \in BOOLEAN : Finish(w, failed)
         /\ \/ pods' = pods
            \/ LET patched == MergePatch(view[w], modified, pods[key[w]])
               IN  Patchable(key[w], patched) /\ pods' = [pods EXCEPT ![key[w]] = patched]
         /\ faults' = faults \/ Fault
BY DEF Patch

(* What the two steps that patch do: they write the finalizers, as the     *)
(* worker computed them from the pod that it read.                         *)
LEMMA FinalizerPatch ==
  ASSUME TypeOK, NEW w \in Workers, removeFinalizer(w) \/ ensureFinalizer(w)
  PROVE  /\ \E failed \in BOOLEAN : Finish(w, failed)
         /\ faults' = faults \/ Fault
         /\ \/ pods' = pods
            \/ /\ pods[key[w]] # None
               /\ \E fin \in SUBSET {Apollo, Other} :
                    /\ \/ pc[w] = "unpatch" /\ Apollo \notin fin
                       \/ pc[w] = "patch" /\ Apollo \in fin
                    /\ pods' = [pods EXCEPT ![key[w]].fin = fin]
<1>1. pc[w] # "idle"
  BY DEF removeFinalizer, ensureFinalizer
<1>2. key[w] \in PodKeys /\ view[w] \in Pod
  BY <1>1, InHand
<1>3. view[w].fin \in SUBSET {Apollo, Other}
  BY <1>2 DEF Pod
<1>4. ASSUME NEW fin \in SUBSET {Apollo, Other}, fin # view[w].fin,
             Patch(w, [view[w] EXCEPT !.fin = fin])
      PROVE  /\ \E failed \in BOOLEAN : Finish(w, failed)
             /\ faults' = faults \/ Fault
             /\ \/ pods' = pods
                \/ pods[key[w]] # None /\ pods' = [pods EXCEPT ![key[w]].fin = fin]
  <2> DEFINE modified == [view[w] EXCEPT !.fin = fin]
             patched == MergePatch(view[w], modified, pods[key[w]])
  <2>1. /\ \E failed \in BOOLEAN : Finish(w, failed)
        /\ faults' = faults \/ Fault
        /\ \/ pods' = pods
           \/ Patchable(key[w], patched) /\ pods' = [pods EXCEPT ![key[w]] = patched]
    <3> HIDE DEF modified
    <3> QED BY <1>4, PatchEffect DEF modified
  <2>2. ASSUME pods[key[w]] # None PROVE patched = [pods[key[w]] EXCEPT !.fin = fin]
    <3>1. pods[key[w]] \in Pod
      BY <1>2, <2>2 DEF TypeOK, ClusterOK
    <3>2. \A o, q \in Pod : fin # o.fin =>
            MergePatch(o, [o EXCEPT !.fin = fin], q) = [q EXCEPT !.fin = fin]
      BY MergedPod
    <3> QED BY <1>2, <1>4, <3>1, <3>2, Zenon
  <2> HIDE DEF patched
  <2> QED BY <2>1, <2>2 DEF Patchable
<1>5. CASE removeFinalizer(w)
  <2> DEFINE fin == view[w].fin \ {Apollo}
  <2>1. /\ pc[w] = "unpatch" /\ Apollo \in view[w].fin
        /\ Patch(w, [view[w] EXCEPT !.fin = fin])
    BY <1>5 DEF removeFinalizer
  <2>2. fin \in SUBSET {Apollo, Other} /\ fin # view[w].fin /\ Apollo \notin fin
    BY <1>3, <2>1
  <2> HIDE DEF fin
  <2> QED BY <1>4, <2>1, <2>2
<1>6. CASE ensureFinalizer(w)
  <2> DEFINE fin == view[w].fin \cup {Apollo}
  <2>1. CASE Apollo \in view[w].fin
    BY <1>6, <2>1 DEF ensureFinalizer
  <2>2. CASE Apollo \notin view[w].fin
    <3>1. pc[w] = "patch" /\ Patch(w, [view[w] EXCEPT !.fin = fin])
      BY <1>6, <2>2 DEF ensureFinalizer
    <3>2. fin \in SUBSET {Apollo, Other} /\ fin # view[w].fin /\ Apollo \in fin
      BY <1>3, <2>2
    <3> HIDE DEF fin
    <3> QED BY <1>4, <3>1, <3>2
  <2> QED BY <2>1, <2>2
<1> QED BY <1>5, <1>6

(* A failed call is counted.                                               *)
LEMMA FaultType ==
  ASSUME CountersOK, UNCHANGED faults \/ Fault, UNCHANGED crashes
  PROVE  CountersOK'
BY BoundsAssumption DEF CountersOK, Fault

(* A pod keeps its type when one of its fields is written.                 *)
LEMMA PodFields ==
  ASSUME NEW pod \in Pod
  PROVE  /\ \A f \in SUBSET {Apollo, Other} :
              /\ [pod EXCEPT !.fin = f] \in Pod
              /\ [pod EXCEPT !.fin = f].uid = pod.uid
              /\ [pod EXCEPT !.fin = f].ann = pod.ann
              /\ [pod EXCEPT !.fin = f].spec = pod.spec
              /\ [pod EXCEPT !.fin = f].deleting = pod.deleting
              /\ [pod EXCEPT !.fin = f].fin = f
         /\ /\ [pod EXCEPT !.deleting = TRUE] \in Pod
            /\ [pod EXCEPT !.deleting = TRUE].uid = pod.uid
            /\ [pod EXCEPT !.deleting = TRUE].ann = pod.ann
            /\ [pod EXCEPT !.deleting = TRUE].spec = pod.spec
            /\ [pod EXCEPT !.deleting = TRUE].deleting
            /\ [pod EXCEPT !.deleting = TRUE].fin = pod.fin
         /\ \A a \in Annotation :
              /\ [pod EXCEPT !.ann = a] \in Pod
              /\ [pod EXCEPT !.ann = a].uid = pod.uid
              /\ [pod EXCEPT !.ann = a].spec = pod.spec
              /\ [pod EXCEPT !.ann = a].deleting = pod.deleting
              /\ [pod EXCEPT !.ann = a].fin = pod.fin
<1>1. pod.deleting \in BOOLEAN /\ pod.fin \in SUBSET {Apollo, Other}
  BY DEF Pod
<1>2. \A f \in SUBSET {Apollo, Other} : [pod EXCEPT !.fin = f] \in Pod
  BY DEF Pod
<1>3. [pod EXCEPT !.deleting = TRUE] \in Pod
  BY DEF Pod
<1>4. \A a \in Annotation : [pod EXCEPT !.ann = a] \in Pod
  BY DEF Pod
<1>5. \A f : /\ [pod EXCEPT !.fin = f].uid = pod.uid
             /\ [pod EXCEPT !.fin = f].ann = pod.ann
             /\ [pod EXCEPT !.fin = f].spec = pod.spec
             /\ [pod EXCEPT !.fin = f].deleting = pod.deleting
             /\ [pod EXCEPT !.fin = f].fin = f
  BY DEF Pod
<1>6. \A d : /\ [pod EXCEPT !.deleting = d].uid = pod.uid
             /\ [pod EXCEPT !.deleting = d].ann = pod.ann
             /\ [pod EXCEPT !.deleting = d].spec = pod.spec
             /\ [pod EXCEPT !.deleting = d].fin = pod.fin
             /\ [pod EXCEPT !.deleting = d].deleting = d
  BY DEF Pod
<1>7. \A a : /\ [pod EXCEPT !.ann = a].uid = pod.uid
             /\ [pod EXCEPT !.ann = a].spec = pod.spec
             /\ [pod EXCEPT !.ann = a].deleting = pod.deleting
             /\ [pod EXCEPT !.ann = a].fin = pod.fin
  BY DEF Pod
<1>8. [pod EXCEPT !.deleting = TRUE].deleting = TRUE
  BY <1>6, Zenon
<1> QED BY <1>2, <1>3, <1>4, <1>5, <1>6, <1>7, <1>8, Zenon

(* Steps of handlePodDeletion and of handlePodAllocation.                  *)
LEMMA WorkType ==
  ASSUME TypeOK, NEW w \in Workers, Work(w)
  PROVE  TypeOK'
<1>0. ClusterOK /\ StoreOK /\ LocalOK /\ CountersOK
  BY DEF TypeOK
<1>w. pc[w] # "idle"
  BY DEF Work, ReleaseNext, removeFinalizer, CheckNext, AllocateNext, GiveUp, ensureFinalizer
<1>h. key[w] \in PodKeys /\ view[w] \in Pod /\ todo[w] \in Seq(Pools) /\ got[w] \in BOOLEAN
  BY <1>0, <1>w, InHand DEF LocalOK
<1>f. \A failed \in BOOLEAN : Finish(w, failed) => LocalOK'
  BY <1>0, <1>h, FinishType
<1>a. \A p \in Pools : AllocKey(p, key[w]) \in AllocKeys
  BY <1>h DEF AllocKey, AllocKeys
<1>1. ASSUME ReleaseNext(w) PROVE TypeOK'
  <2>1. pc[w] = "release"
    BY <1>1 DEF ReleaseNext
  <2>2. /\ todo[w] # << >> /\ Head(todo[w]) \in Pools /\ Tail(todo[w]) \in Seq(Pools)
        /\ (Len(todo[w]) # 1 => Tail(todo[w]) # << >>)
    BY <2>1, InHand
  <2>3. StoreOK' /\ ClusterOK'
    BY <1>0, <1>1, <1>a, <2>2 DEF ReleaseNext, Panics, StoreOK, ClusterOK, cluster
  <2>4. CountersOK'
    BY <1>0, <1>1, FaultType DEF ReleaseNext, Panics
  <2>5. LocalOK'
    <3>1. CASE Panics(w)
      BY <1>f, <3>1 DEF Panics
    <3>2. CASE ~Panics(w)
      <4> DEFINE to == IF Len(todo[w]) = 1 THEN "unpatch" ELSE "release"
      <4>1. /\ pc' = [pc EXCEPT ![w] = to]
            /\ todo' = [todo EXCEPT ![w] = Tail(todo[w])]
            /\ UNCHANGED <<queue, key, view, got>>
        BY <1>1, <3>2 DEF ReleaseNext, Goto
      <4>2. got' = [got EXCEPT ![w] = got[w]]
        BY <1>0, <4>1 DEF LocalOK
      <4>3. /\ to \in PcValues \ {"idle"} /\ to # "check"
            /\ (to \in {"release", "check", "alloc"} => Tail(todo[w]) # << >>)
        BY <2>2 DEF PcValues
      <4> HIDE DEF to
      <4> QED BY <1>0, <1>w, <1>h, <2>2, <4>1, <4>2, <4>3, StepType
    <3> QED BY <3>1, <3>2
  <2> QED BY <2>3, <2>4, <2>5 DEF TypeOK
<1>2. ASSUME removeFinalizer(w) \/ ensureFinalizer(w) PROVE TypeOK'
  <2>3. UNCHANGED <<births, podCache, store, crashes>>
    BY <1>2 DEF removeFinalizer, ensureFinalizer
  <2>4. LocalOK'
    BY <1>2, <1>f, FinalizerPatch
  <2>5. CountersOK'
    BY <1>0, <1>2, <2>3, FinalizerPatch, FaultType
  <2>6. pods' \in [PodKeys -> Pod \cup {None}]
    <3>1. CASE pods' = pods
      BY <1>0, <3>1 DEF ClusterOK
    <3>2. ASSUME NEW fin \in SUBSET {Apollo, Other}, pods[key[w]] # None,
                 pods' = [pods EXCEPT ![key[w]].fin = fin]
          PROVE  pods' \in [PodKeys -> Pod \cup {None}]
      <4>1. pods[key[w]] \in Pod
        BY <1>0, <1>h, <3>2 DEF ClusterOK
      <4>2. [pods[key[w]] EXCEPT !.fin = fin] \in Pod
        BY <4>1, PodFields
      <4> QED BY <1>0, <3>2, <4>2 DEF ClusterOK
    <3> QED BY <1>2, <3>1, <3>2, FinalizerPatch
  <2> QED BY <1>0, <2>3, <2>4, <2>5, <2>6 DEF TypeOK, ClusterOK, StoreOK, store
<1>3. ASSUME CheckNext(w) PROVE TypeOK'
  <2>1. pc[w] = "check"
    BY <1>3 DEF CheckNext
  <2>2. /\ todo[w] # << >> /\ Tail(todo[w]) \in Seq(Pools)
        /\ (Len(todo[w]) # 1 => Tail(todo[w]) # << >>)
    BY <2>1, InHand
  <2>3. StoreOK' /\ ClusterOK'
    BY <1>0, <1>3 DEF CheckNext, StoreOK, ClusterOK, cluster, store
  <2>4. CountersOK'
    BY <1>0, <1>3, FaultType DEF CheckNext
  <2>5. LocalOK'
    <3>1. CASE \E failed \in BOOLEAN : Finish(w, failed)
      BY <1>f, <3>1
    <3>2. CASE ~\E failed \in BOOLEAN : Finish(w, failed)
      <4> DEFINE found == Exists(Head(todo[w]), key[w])
                 to == IF ~found THEN "alloc" ELSE IF Len(todo[w]) = 1 THEN "patch" ELSE "check"
                 s == IF found THEN Tail(todo[w]) ELSE parseNetworkPools(view[w])
      <4>1. /\ pc' = [pc EXCEPT ![w] = to]
            /\ todo' = [todo EXCEPT ![w] = s]
            /\ UNCHANGED <<queue, key, view, got>>
        BY <1>3, <3>2 DEF CheckNext, Goto
      <4>2. got' = [got EXCEPT ![w] = got[w]]
        BY <1>0, <4>1 DEF LocalOK
      <4>3. parseNetworkPools(view[w]) \in Seq(Pools) /\ parseNetworkPools(view[w]) # << >>
        BY <1>h, <2>1, InHand, ParseType
      <4>4. /\ to \in PcValues \ {"idle"} /\ s \in Seq(Pools)
            /\ (to \in {"release", "check", "alloc"} => s # << >>)
        BY <2>2, <4>3 DEF PcValues
      <4> HIDE DEF to, s
      <4> QED BY <1>0, <1>w, <1>h, <2>1, <4>1, <4>2, <4>4, StepType
    <3> QED BY <3>1, <3>2
  <2> QED BY <2>3, <2>4, <2>5 DEF TypeOK
<1>4. ASSUME AllocateNext(w) PROVE TypeOK'
  <2> DEFINE a == AllocKey(Head(todo[w]), key[w])
             object == [ns |-> key[w][1], uid |-> view[w].uid, ports |-> parseContainerPorts(view[w])]
  <2>1. pc[w] = "alloc"
    BY <1>4 DEF AllocateNext
  <2>2. /\ todo[w] # << >> /\ Head(todo[w]) \in Pools /\ Tail(todo[w]) \in Seq(Pools)
        /\ Len(todo[w]) \in Nat /\ Len(todo[w]) > 0
        /\ (Len(todo[w]) # 1 => Tail(todo[w]) # << >>)
    BY <2>1, InHand
  <2>3. object \in Allocation
    <3>1. view[w].uid \in 1 .. MaxPods /\ parseContainerPorts(view[w]) \in STRING
      BY <1>h, PortsType DEF Pod
    <3> QED BY <1>h, <3>1 DEF Allocation
  <2>4. ClusterOK' /\ allocCache' = allocCache
    BY <1>0, <1>4 DEF AllocateNext, ClusterOK, cluster
  <2>5. allocs' = allocs \/ allocs' = [allocs EXCEPT ![a] = object]
    BY <1>4 DEF AllocateNext, Panics
  <2>6. StoreOK'
    <3>1. a \in AllocKeys
      BY <1>a, <2>2
    <3> HIDE DEF a, object
    <3> QED BY <1>0, <2>3, <2>4, <2>5, <3>1 DEF StoreOK
  <2>7. CountersOK'
    BY <1>0, <1>4, FaultType DEF AllocateNext, Panics
  <2>9. Len(todo[w]) > 1 => Tail(todo[w]) # << >>
    <3> DEFINE n == Len(todo[w])
               t == Tail(todo[w])
    <3>1. n \in Nat /\ (n # 1 => t # << >>)
      BY <2>2
    <3> HIDE DEF n, t
    <3>2. n > 1 => t # << >>
      BY <3>1
    <3> QED BY <3>2 DEF n, t
  <2>8. LocalOK'
    <3>1. CASE Panics(w)
      BY <1>f, <3>1 DEF Panics
    <3>2. ASSUME NEW success \in BOOLEAN, AfterPool(w, success), UNCHANGED <<queue, key, view>>
          PROVE  LocalOK'
      <4> DEFINE to == IF Len(todo[w]) > 1 THEN "alloc"
                       ELSE IF got[w] \/ success THEN "patch" ELSE "giveUp"
                 b == got[w] \/ success
      <4>1. /\ pc' = [pc EXCEPT ![w] = to]
            /\ todo' = [todo EXCEPT ![w] = Tail(todo[w])]
            /\ got' = [got EXCEPT ![w] = b]
        BY <3>2 DEF AfterPool, Goto
      <4>2. to \in PcValues \ {"idle"} /\ to # "check" /\ b \in BOOLEAN
        BY DEF PcValues
      <4>3. to \in {"release", "check", "alloc"} => Tail(todo[w]) # << >>
        <5>1. Len(todo[w]) > 1 => Tail(todo[w]) # << >>
          BY <2>9, Zenon
        <5>2. ~(Len(todo[w]) > 1) => to \in {"patch", "giveUp"}
          OBVIOUS
        <5> QED BY <5>1, <5>2
      <4> HIDE DEF to, b
      <4> QED BY <1>0, <1>w, <1>h, <2>2, <3>2, <4>1, <4>2, <4>3, StepType
    <3>3. \/ Panics(w)
          \/ \E success \in BOOLEAN : AfterPool(w, success) /\ UNCHANGED <<queue, key, view>>
      BY <1>4 DEF AllocateNext
    <3> QED BY <3>1, <3>2, <3>3
  <2> QED BY <2>4, <2>6, <2>7, <2>8 DEF TypeOK
<1>5. ASSUME GiveUp(w) PROVE TypeOK'
  BY <1>0, <1>5, <1>f DEF GiveUp, TypeOK, ClusterOK, StoreOK, CountersOK, cluster, store
<1> QED BY <1>1, <1>2, <1>3, <1>4, <1>5 DEF Work

(* A key is taken from the queue.                                          *)
LEMMA DequeueType ==
  ASSUME TypeOK, NEW w \in Workers, NEW k \in PodKeys, Dequeue(w, k)
  PROVE  TypeOK'
<1>0. ClusterOK /\ StoreOK /\ LocalOK /\ CountersOK
  BY DEF TypeOK
<1>1. CASE Skip(w, k) \/ Unparsable(w, k)
  <2>1. UNCHANGED <<cluster, podCache, store, local, faults, crashes>> /\ queue' \subseteq queue
    BY <1>1 DEF Skip, Unparsable, vars
  <2>2. \A v \in Workers : InHandOK(v)'
    BY <1>0, <2>1 DEF LocalOK, InHandOK, local
  <2> QED BY <1>0, <2>1, <2>2
          DEF TypeOK, ClusterOK, StoreOK, LocalOK, CountersOK, cluster, store, local
<1>g. CASE GetFails(w, k)
  <2>1. UNCHANGED <<cluster, podCache, store, queue, local, crashes>> /\ Fault
    BY <1>g DEF GetFails
  <2>2. \A v \in Workers : InHandOK(v)'
    BY <1>0, <2>1 DEF LocalOK, InHandOK, local
  <2>3. CountersOK'
    BY <1>0, <2>1, FaultType
  <2> QED BY <1>0, <2>1, <2>2, <2>3
          DEF TypeOK, ClusterOK, StoreOK, LocalOK, cluster, store, local
<1>2. CASE Reconcile(w, k)
  <2> DEFINE c == podCache[k]
  <2>1. c \in Pod
    <3>1. c # None
      BY <1>2 DEF Reconcile, Route
    <3> QED BY <1>0, <3>1 DEF ClusterOK
  <2>2. /\ pc' = [pc EXCEPT ![w] = Route(c)]
        /\ Route(c) \in {"unpatch", "release", "check"}
        /\ queue' = queue \ {k}
        /\ key' = [key EXCEPT ![w] = k]
        /\ view' = [view EXCEPT ![w] = c]
        /\ todo' = [todo EXCEPT ![w] = parseNetworkPools(c)]
        /\ UNCHANGED <<cluster, podCache, store, got, faults, crashes>>
    BY <1>2 DEF Reconcile, Goto
  <2>3. parseNetworkPools(c) \in Seq(Pools)
    BY <2>1, ParseType
  <2>4. Route(c) \in {"release", "check"} => parseNetworkPools(c) # << >>
    BY DEF Route, DeletionRoute, AllocationRoute
  <2> HIDE DEF c
  <2>5. /\ pc' \in [Workers -> PcValues]
        /\ key' \in [Workers -> PodKeys \cup {None}]
        /\ view' \in [Workers -> Pod \cup {None}]
        /\ todo' \in [Workers -> Seq(Pools)]
    BY <1>0, <2>1, <2>2, <2>3 DEF LocalOK, PcValues
  <2>6. ASSUME NEW v \in Workers PROVE InHandOK(v)'
    <3>1. InHandOK(v)
      BY <1>0 DEF LocalOK
    <3> QED BY <1>0, <2>1, <2>2, <2>4, <3>1 DEF LocalOK, InHandOK
  <2> QED BY <1>0, <2>2, <2>5, <2>6
          DEF TypeOK, ClusterOK, StoreOK, LocalOK, CountersOK, cluster, store
<1> QED BY <1>1, <1>g, <1>2 DEF Dequeue

(* What the environment does to the pods of the API server: one is born,   *)
(* goes, or is edited without touching our finalizer.                      *)
Born(k) ==
  /\ pods[k] = None /\ births < MaxPods /\ births' = births + 1
  /\ \E pod \in Pod : /\ pod.uid = births' /\ pod.fin = {} /\ ~pod.deleting
                      /\ pods' = [pods EXCEPT ![k] = pod]

Gone(k) ==
  /\ pods[k] # None /\ pods[k].deleting /\ Apollo \notin pods[k].fin
  /\ pods' = [pods EXCEPT ![k] = None] /\ births' = births

Edited(k) ==
  /\ pods[k] # None /\ births' = births
  /\ \E pod \in Pod : /\ pod.uid = pods[k].uid /\ pod.spec = pods[k].spec
                      /\ ~AnnotationsChange => pod.ann = pods[k].ann
                      /\ pods[k].deleting => pod.deleting
                      /\ pod.deleting => pods[k].deleting \/ DeletePod(k)
                      /\ Apollo \in pod.fin <=> Apollo \in pods[k].fin
                      /\ pods' = [pods EXCEPT ![k] = pod]

(* Each step of users, of the other controller and of the kubelet is one   *)
(* of these three.                                                         *)
LEMMA ClusterStep ==
  ASSUME TypeOK, NEW k \in PodKeys,
         \/ \E ann \in Annotations : Annotate(k, ann) \/ \E spec \in Declared : CreatePod(k, ann, spec)
         \/ DeletePod(k) \/ OtherAdds(k) \/ OtherDone(k) \/ PodGone(k)
  PROVE  /\ Born(k) \/ Gone(k) \/ Edited(k)
         /\ UNCHANGED <<podCache, store, queue, local, faults, crashes>>
<1>0. pods \in [PodKeys -> Pod \cup {None}] /\ births \in 0 .. MaxPods
  BY DEF TypeOK, ClusterOK
<1>p. pods[k] # None => pods[k] \in Pod
  BY <1>0
<1>1. ASSUME NEW ann \in Annotations, NEW spec \in Declared, CreatePod(k, ann, spec)
      PROVE  Born(k)
  <2> DEFINE pod == [uid |-> births', ann |-> ann, spec |-> spec, rest |-> "rest",
                     deleting |-> FALSE, fin |-> {}]
  <2>1. pod \in Pod /\ pod.uid = births' /\ pod.fin = {} /\ ~pod.deleting
    BY <1>0, <1>1, UsersAssumption, BoundsAssumption DEF CreatePod, Pod
  <2> HIDE DEF pod
  <2>2. /\ pods' = [pods EXCEPT ![k] = pod] /\ pods[k] = None
        /\ births < MaxPods /\ births' = births + 1
    BY <1>1 DEF CreatePod, pod
  <2> QED BY <2>1, <2>2 DEF Born
<1>2. ASSUME NEW ann \in Annotations, Annotate(k, ann) PROVE Edited(k)
  <2> DEFINE pod == [pods[k] EXCEPT !.ann = ann]
  <2>1. /\ pod \in Pod /\ pod.uid = pods[k].uid /\ pod.spec = pods[k].spec
        /\ pod.deleting = pods[k].deleting /\ pod.fin = pods[k].fin
    BY <1>2, <1>p, UsersAssumption, PodFields DEF Annotate
  <2>2. /\ AnnotationsChange /\ pods[k] # None /\ births' = births
        /\ pods' = [pods EXCEPT ![k] = pod]
    BY <1>2 DEF Annotate
  <2> HIDE DEF pod
  <2> QED BY <2>1, <2>2 DEF Edited
<1>3. ASSUME DeletePod(k) PROVE Edited(k)
  <2> DEFINE pod == [pods[k] EXCEPT !.deleting = TRUE]
  <2>1. /\ pod \in Pod /\ pod.uid = pods[k].uid /\ pod.spec = pods[k].spec
        /\ pod.ann = pods[k].ann /\ pod.deleting /\ pod.fin = pods[k].fin
    BY <1>3, <1>p, PodFields DEF DeletePod
  <2>2. /\ pods[k] # None /\ births' = births
        /\ pods' = [pods EXCEPT ![k] = pod]
    BY <1>3 DEF DeletePod
  <2> HIDE DEF pod
  <2> QED BY <1>3, <2>1, <2>2 DEF Edited
<1>4. ASSUME OtherAdds(k) \/ OtherDone(k) PROVE Edited(k)
  <2>1. PICK fin \in {pods[k].fin \cup {Other}, pods[k].fin \ {Other}} :
          pods' = [pods EXCEPT ![k].fin = fin]
    BY <1>4 DEF OtherAdds, OtherDone
  <2> DEFINE pod == [pods[k] EXCEPT !.fin = fin]
  <2>2. pods[k] # None /\ births' = births /\ pods' = [pods EXCEPT ![k] = pod]
    BY <1>4, <2>1 DEF OtherAdds, OtherDone
  <2>3. pods[k].fin \in SUBSET {Apollo, Other}
    BY <1>p, <2>2 DEF Pod
  <2>4. fin \in SUBSET {Apollo, Other} /\ (Apollo \in fin <=> Apollo \in pods[k].fin)
    BY <2>1, <2>3 DEF Apollo, Other
  <2>5. /\ pod \in Pod /\ pod.uid = pods[k].uid /\ pod.spec = pods[k].spec
        /\ pod.ann = pods[k].ann /\ pod.deleting = pods[k].deleting /\ pod.fin = fin
    BY <1>p, <2>2, <2>4, PodFields
  <2> HIDE DEF pod
  <2> QED BY <2>2, <2>4, <2>5 DEF Edited
<1>5. ASSUME PodGone(k) PROVE Gone(k)
  BY <1>5 DEF PodGone, Gone
<1>6. UNCHANGED <<podCache, store, queue, local, faults, crashes>>
  BY DEF CreatePod, Annotate, DeletePod, OtherAdds, OtherDone, PodGone
<1> QED BY <1>1, <1>2, <1>3, <1>4, <1>5, <1>6

(* Every step, as the proofs look at it.                                   *)
LEMMA StepCases ==
  ASSUME TypeOK, [Next]_vars
  PROVE  \/ \E w \in Workers : Work(w)
         \/ \E w \in Workers, k \in PodKeys : Dequeue(w, k)
         \/ /\ \E k \in PodKeys : Born(k) \/ Gone(k) \/ Edited(k)
            /\ UNCHANGED <<podCache, store, queue, local, faults, crashes>>
         \/ \E k \in PodKeys : DeliverPod(k)
         \/ /\ UNCHANGED <<cluster, podCache, allocs, local, faults, crashes>>
            /\ queue' \in SUBSET PodKeys
            /\ allocCache' \in [AllocKeys -> Allocation \cup {None}]
         \/ Crash
<1> DEFINE Quiet == /\ UNCHANGED <<cluster, podCache, allocs, local, faults, crashes>>
                    /\ queue' \in SUBSET PodKeys
                    /\ allocCache' \in [AllocKeys -> Allocation \cup {None}]
           Env == /\ \E k \in PodKeys : Born(k) \/ Gone(k) \/ Edited(k)
                  /\ UNCHANGED <<podCache, store, queue, local, faults, crashes>>
<1>0. /\ queue \in SUBSET PodKeys /\ allocs \in [AllocKeys -> Allocation \cup {None}]
      /\ allocCache \in [AllocKeys -> Allocation \cup {None}]
  BY DEF TypeOK, LocalOK, StoreOK
<1>1. CASE UNCHANGED vars
  BY <1>0, <1>1 DEF vars, store
<1>2. ASSUME NEW a \in AllocKeys, DeliverAlloc(a) PROVE Quiet
  BY <1>0, <1>2 DEF DeliverAlloc
<1>3. ASSUME NEW k \in PodKeys, Resync(k) PROVE Quiet
  BY <1>0, <1>3 DEF Resync, store
<1>4. ASSUME NEW k \in PodKeys,
             \/ \E ann \in Annotations : Annotate(k, ann) \/ \E spec \in Declared : CreatePod(k, ann, spec)
             \/ DeletePod(k) \/ OtherAdds(k) \/ OtherDone(k) \/ PodGone(k)
      PROVE  Env
  BY <1>4, ClusterStep
<1> HIDE DEF Env
<1>5. CASE Users
  BY <1>4, <1>5 DEF Users, Env
<1> QED BY <1>1, <1>2, <1>3, <1>4, <1>5 DEF Next, Env

(* Every step of the reconcilers and of their environment keeps all types. *)
LEMMA TypeNext == TypeOK /\ [Next]_vars => TypeOK'
<1> SUFFICES ASSUME TypeOK, [Next]_vars PROVE TypeOK'
  OBVIOUS
<1>0. ClusterOK /\ StoreOK /\ LocalOK /\ CountersOK
  BY DEF TypeOK
<1>l. UNCHANGED local => \A w \in Workers : InHandOK(w)'
  BY <1>0 DEF LocalOK, InHandOK, local
<1>1. ASSUME NEW w \in Workers, Work(w) PROVE TypeOK'
  BY <1>1, WorkType
<1>2. ASSUME NEW w \in Workers, NEW k \in PodKeys, Dequeue(w, k) PROVE TypeOK'
  BY <1>2, DequeueType
<1>3. ASSUME NEW k \in PodKeys, Born(k) \/ Gone(k) \/ Edited(k),
             UNCHANGED <<podCache, store, queue, local, faults, crashes>>
      PROVE  TypeOK'
  <2>1. births' \in 0 .. MaxPods
    BY <1>0, <1>3, BoundsAssumption DEF Born, Gone, Edited, ClusterOK
  <2>2. PICK pod \in Pod \cup {None} : pods' = [pods EXCEPT ![k] = pod]
    <3>1. CASE Born(k)
      BY <3>1, Zenon DEF Born
    <3>2. CASE Gone(k)
      BY <3>2, Zenon DEF Gone
    <3>3. CASE Edited(k)
      <4>1. PICK pod \in Pod : pods' = [pods EXCEPT ![k] = pod]
        BY <3>3 DEF Edited
      <4> QED BY <4>1
    <3> QED BY <1>3, <3>1, <3>2, <3>3
  <2>3. ClusterOK'
    BY <1>0, <1>3, <2>1, <2>2 DEF ClusterOK
  <2> QED BY <1>0, <1>3, <1>l, <2>3 DEF TypeOK, StoreOK, LocalOK, CountersOK, store, local
<1>4. ASSUME NEW k \in PodKeys, DeliverPod(k) PROVE TypeOK'
  <2>1. PodTransform(pods[k]) \in Pod \cup {None}
    BY <1>0, TransformKeeps DEF ClusterOK
  <2>2. ClusterOK'
    BY <1>0, <1>4, <2>1 DEF DeliverPod, ClusterOK, cluster
  <2>3. LocalOK'
    BY <1>0, <1>4, <1>l DEF DeliverPod, LocalOK, local
  <2> QED BY <1>0, <1>4, <2>2, <2>3 DEF DeliverPod, TypeOK, StoreOK, CountersOK, store
<1>5. ASSUME UNCHANGED <<cluster, podCache, allocs, local, faults, crashes>>,
             queue' \in SUBSET PodKeys, allocCache' \in [AllocKeys -> Allocation \cup {None}]
      PROVE  TypeOK'
  BY <1>0, <1>5, <1>l DEF TypeOK, ClusterOK, StoreOK, LocalOK, CountersOK, cluster, local
<1>6. ASSUME Crash PROVE TypeOK'
  <2>1. \A k \in PodKeys : PodTransform(pods[k]) \in Pod \cup {None}
    BY <1>0, TransformKeeps DEF ClusterOK
  <2>2. ClusterOK'
    BY <1>0, <1>6, <2>1 DEF Crash, ClusterOK, cluster
  <2>3. LocalOK'
    <3>1. \A w \in Workers : InHandOK(w)'
      BY <1>6 DEF Crash, InHandOK
    <3> QED BY <1>6, <3>1 DEF Crash, LocalOK, PcValues
  <2> QED BY <1>0, <1>6, <2>2, <2>3, BoundsAssumption DEF Crash, TypeOK, StoreOK, CountersOK
<1> QED BY <1>1, <1>2, <1>3, <1>4, <1>5, <1>6, StepCases

(* All variables keep their types, and a reconciler in one of its loops    *)
(* always has a pool to visit: Head and Tail are never applied to an empty *)
(* list, whatever annotations, failures and restarts it meets.             *)
THEOREM PodTypes == Spec => []TypeOK
<1> QED BY TypeInit, TypeNext, PTL DEF Spec

-----------------------------------------------------------------------------
(* What a step does to one key and to one worker *)

(* The worker w patches the finalizers of the pod of its key, k.           *)
PatchedBy(w, k) ==
  /\ key[w] = k /\ pods[k] # None /\ pods'[k] \in Pod
  /\ pods'[k].uid = pods[k].uid /\ pods'[k].deleting = pods[k].deleting
  /\ pods'[k].ann = pods[k].ann /\ pods'[k].spec = pods[k].spec
  /\ \/ pc[w] = "unpatch" /\ Apollo \notin pods'[k].fin
     \/ pc[w] = "patch" /\ Apollo \in pods'[k].fin
  /\ pc'[w] = "idle"
  /\ UNCHANGED <<births, podCache, allocs>>

(* The environment changes the pod of key k.                               *)
ChangedAt(k) ==
  /\ UNCHANGED <<podCache, allocs, key, view, pc, todo>>
  /\ \/ /\ pods[k] = None /\ births' = births + 1 /\ pods'[k] \in Pod
        /\ pods'[k].uid = births' /\ pods'[k].fin = {} /\ ~pods'[k].deleting
     \/ /\ pods[k] # None /\ births' = births
        /\ pods[k].deleting /\ Apollo \notin pods[k].fin /\ pods'[k] = None
     \/ /\ pods[k] # None /\ births' = births /\ pods'[k] \in Pod
        /\ pods'[k].uid = pods[k].uid /\ pods'[k].spec = pods[k].spec
        /\ ~AnnotationsChange => pods'[k].ann = pods[k].ann
        /\ pods[k].deleting => pods'[k].deleting
        /\ pods'[k].deleting => pods[k].deleting \/ DeletePod(k)
        /\ Apollo \in pods'[k].fin <=> Apollo \in pods[k].fin

(* A pod changes by the patch of a worker on its key, or by a step of the  *)
(* environment that leaves our finalizer alone.                            *)
LEMMA PodsStep ==
  ASSUME TypeOK, [Next]_vars, NEW k \in PodKeys
  PROVE  \/ pods'[k] = pods[k] /\ births' \in {births, births + 1}
         \/ ChangedAt(k)
         \/ \E w \in Workers : PatchedBy(w, k)
<1> DEFINE Goal == \/ pods'[k] = pods[k] /\ births' \in {births, births + 1}
                   \/ ChangedAt(k)
                   \/ \E w \in Workers : PatchedBy(w, k)
<1>0. pods \in [PodKeys -> Pod \cup {None}] /\ pc \in [Workers -> PcValues]
  BY DEF TypeOK, ClusterOK, LocalOK
<1>1. ASSUME NEW w \in Workers, Work(w) PROVE Goal
  <2>1. CASE ~(removeFinalizer(w) \/ ensureFinalizer(w))
    BY <1>1, <2>1 DEF Work, ReleaseNext, CheckNext, AllocateNext, GiveUp, cluster
  <2>2. ASSUME removeFinalizer(w) \/ ensureFinalizer(w), pods' # pods, key[w] = k PROVE Goal
    <3>2. pods[k] # None /\ \E failed \in BOOLEAN : Finish(w, failed)
      BY <2>2, FinalizerPatch
    <3>3. PICK fin \in SUBSET {Apollo, Other} :
            /\ \/ pc[w] = "unpatch" /\ Apollo \notin fin
               \/ pc[w] = "patch" /\ Apollo \in fin
            /\ pods' = [pods EXCEPT ![k].fin = fin]
      BY <2>2, FinalizerPatch
    <3>4. /\ pods[k] # None /\ pods' = [pods EXCEPT ![k].fin = fin]
          /\ \E failed \in BOOLEAN : Finish(w, failed)
      BY <3>2, <3>3
    <3>5. pods[k] \in Pod /\ pods'[k] = [pods[k] EXCEPT !.fin = fin]
      BY <1>0, <3>4
    <3>6. /\ pods'[k] \in Pod /\ pods'[k].fin = fin
          /\ pods'[k].uid = pods[k].uid /\ pods'[k].deleting = pods[k].deleting
          /\ pods'[k].ann = pods[k].ann /\ pods'[k].spec = pods[k].spec
      <4> DEFINE q == [pods[k] EXCEPT !.fin = fin]
      <4>1. /\ q \in Pod /\ q.fin = fin
            /\ q.uid = pods[k].uid /\ q.deleting = pods[k].deleting
            /\ q.ann = pods[k].ann /\ q.spec = pods[k].spec
        BY <3>5, PodFields, Zenon
      <4>2. pods'[k] = q
        BY <3>5
      <4> HIDE DEF q
      <4> QED BY <4>1, <4>2
    <3>7. pc'[w] = "idle"
      BY <1>0, <3>4 DEF Finish, Goto
    <3>8. UNCHANGED <<births, podCache, allocs>>
      BY <2>2 DEF removeFinalizer, ensureFinalizer, store
    <3> QED BY <2>2, <3>3, <3>4, <3>6, <3>7, <3>8 DEF PatchedBy
  <2>3. ASSUME removeFinalizer(w) \/ ensureFinalizer(w), pods' = pods \/ key[w] # k PROVE Goal
    <3>1. pods'[k] = pods[k]
      <4>1. \/ pods' = pods
            \/ \E fin : pods' = [pods EXCEPT ![key[w]].fin = fin]
        BY <2>3, FinalizerPatch
      <4> QED BY <1>0, <2>3, <4>1
    <3> QED BY <2>3, <3>1 DEF removeFinalizer, ensureFinalizer
  <2> QED BY <2>1, <2>2, <2>3
<1>2. ASSUME NEW w \in Workers, NEW j \in PodKeys, Dequeue(w, j) PROVE Goal
  BY <1>2 DEF Dequeue, Skip, GetFails, Unparsable, Reconcile, vars, cluster
<1>3. ASSUME NEW j \in PodKeys, Born(j) \/ Gone(j) \/ Edited(j),
             UNCHANGED <<podCache, store, queue, local, faults, crashes>>
      PROVE  Goal
  <2>1. UNCHANGED <<podCache, allocs, key, view, pc, todo>>
    BY <1>3 DEF store, local
  <2>2. CASE j # k
    <3>1. pods'[k] = pods[k]
      BY <1>0, <1>3, <2>2 DEF Born, Gone, Edited
    <3>2. births' \in {births, births + 1}
      BY <1>3 DEF Born, Gone, Edited
    <3> QED BY <3>1, <3>2
  <2>3. CASE j = k /\ Born(k)
    <3>1. PICK pod \in Pod : /\ pod.uid = births' /\ pod.fin = {} /\ ~pod.deleting
                             /\ pods' = [pods EXCEPT ![k] = pod]
      BY <2>3 DEF Born
    <3>2. pods'[k] = pod
      BY <1>0, <3>1
    <3> QED BY <2>1, <2>3, <3>1, <3>2 DEF Born, ChangedAt
  <2>4. CASE j = k /\ Gone(k)
    BY <1>0, <2>1, <2>4 DEF Gone, ChangedAt
  <2>5. CASE j = k /\ Edited(k)
    <3>1. PICK pod \in Pod : /\ pod.uid = pods[k].uid /\ pod.spec = pods[k].spec
                             /\ ~AnnotationsChange => pod.ann = pods[k].ann
                             /\ pods[k].deleting => pod.deleting
                             /\ pod.deleting => pods[k].deleting \/ DeletePod(k)
                             /\ Apollo \in pod.fin <=> Apollo \in pods[k].fin
                             /\ pods' = [pods EXCEPT ![k] = pod]
      BY <2>5 DEF Edited
    <3>2. pods'[k] = pod
      BY <1>0, <3>1
    <3> QED BY <2>1, <2>5, <3>1, <3>2 DEF Edited, ChangedAt
  <2> QED BY <1>3, <2>2, <2>3, <2>4, <2>5
<1>4. CASE UNCHANGED cluster
  BY <1>4 DEF cluster
<1> QED BY <1>1, <1>2, <1>3, <1>4, StepCases DEF DeliverPod, Crash

(* A worker takes a key, ends its reconcile, or goes on with what it has.  *)
LEMMA WorkerStep ==
  ASSUME TypeOK, [Next]_vars, NEW v \in Workers, pc'[v] # "idle",
         \A k \in PodKeys : ~Reconcile(v, k)
  PROVE  /\ pc[v] # "idle" /\ key'[v] = key[v] /\ view'[v] = view[v]
         /\ pc'[v] \in Releasing => pc[v] \in Releasing
         /\ pc'[v] \in Allocating => pc[v] \in Allocating
<1> DEFINE Goal == /\ pc[v] # "idle" /\ key'[v] = key[v] /\ view'[v] = view[v]
                   /\ pc'[v] \in Releasing => pc[v] \in Releasing
                   /\ pc'[v] \in Allocating => pc[v] \in Allocating
<1>0. /\ pc \in [Workers -> PcValues] /\ key \in [Workers -> PodKeys \cup {None}]
      /\ view \in [Workers -> Pod \cup {None}]
  BY DEF TypeOK, LocalOK
<1>f. ASSUME NEW w \in Workers, NEW failed, Finish(w, failed) PROVE Goal
  BY <1>0, <1>f DEF Finish, Goto
<1>g. ASSUME NEW w \in Workers, NEW to, pc' = [pc EXCEPT ![w] = to], UNCHANGED <<key, view>>,
             \/ pc[w] = "release" /\ to \in Releasing
             \/ pc[w] \in Allocating /\ to \in Allocating
      PROVE  Goal
  BY <1>0, <1>g DEF Releasing, Allocating
<1>1. ASSUME NEW w \in Workers, Work(w) PROVE Goal
  <2>1. CASE ReleaseNext(w)
    <3>1. \/ \E failed : Finish(w, failed)
          \/ \E to : /\ pc[w] = "release" /\ to \in Releasing
                     /\ pc' = [pc EXCEPT ![w] = to] /\ UNCHANGED <<key, view>>
      BY <2>1 DEF ReleaseNext, Panics, Goto, Releasing
    <3> QED BY <1>f, <1>g, <3>1
  <2>2. CASE removeFinalizer(w) \/ ensureFinalizer(w) \/ GiveUp(w)
    BY <1>f, <2>2, FinalizerPatch DEF GiveUp
  <2>3. CASE CheckNext(w)
    <3>1. \/ \E failed : Finish(w, failed)
          \/ \E to : /\ pc[w] \in Allocating /\ to \in Allocating
                     /\ pc' = [pc EXCEPT ![w] = to] /\ UNCHANGED <<key, view>>
      BY <2>3 DEF CheckNext, Goto, Allocating
    <3> QED BY <1>f, <1>g, <3>1
  <2>4. CASE AllocateNext(w)
    <3>1. \/ \E failed : Finish(w, failed)
          \/ /\ pc[w] = "alloc" /\ UNCHANGED <<key, view>>
             /\ \E success \in BOOLEAN : AfterPool(w, success)
      BY <2>4 DEF AllocateNext, Panics
    <3>2. ASSUME NEW success \in BOOLEAN, AfterPool(w, success)
          PROVE  \E to \in {"alloc", "patch", "giveUp"} : pc' = [pc EXCEPT ![w] = to]
      BY <3>2 DEF AfterPool, Goto
    <3> QED BY <1>f, <1>g, <3>1, <3>2 DEF Allocating
  <2> QED BY <1>1, <2>1, <2>2, <2>3, <2>4 DEF Work
<1>2. ASSUME NEW w \in Workers, NEW k \in PodKeys, Dequeue(w, k) PROVE Goal
  <2>1. CASE Reconcile(w, k)
    <3>1. w # v
      BY <2>1
    <3> QED BY <1>0, <2>1, <3>1 DEF Reconcile, Goto
  <2>2. CASE ~Reconcile(w, k)
    BY <1>2, <2>2 DEF Dequeue, Skip, GetFails, Unparsable, vars, local
  <2> QED BY <2>1, <2>2
<1>3. CASE UNCHANGED local
  BY <1>3 DEF local
<1>4. CASE Crash
  BY <1>4 DEF Crash
<1> QED BY <1>1, <1>2, <1>3, <1>4, StepCases DEF DeliverPod

(* Reconcile reads the cache and changes nothing else; the route it takes  *)
(* tells what it has read.                                                 *)
LEMMA Taken ==
  ASSUME TypeOK, NEW w \in Workers, NEW k \in PodKeys, Reconcile(w, k)
  PROVE  /\ podCache[k] \in Pod /\ podCache[k] # None
         /\ Free(k)
         /\ key' = [key EXCEPT ![w] = k] /\ key'[w] = k
         /\ view'[w] = podCache[k]
         /\ todo'[w] = parseNetworkPools(podCache[k])
         /\ UNCHANGED <<pods, births, podCache, allocs>>
         /\ pc'[w] \in {"unpatch", "release", "check"}
         /\ pc'[w] \in Releasing => podCache[k].deleting /\ Apollo \in podCache[k].fin
         /\ pc'[w] \in Allocating => ~podCache[k].deleting
         /\ pc'[w] = "unpatch" => parseNetworkPools(podCache[k]) = << >>
<1>0. /\ pc \in [Workers -> PcValues] /\ key \in [Workers -> PodKeys \cup {None}]
      /\ view \in [Workers -> Pod \cup {None}] /\ todo \in [Workers -> Seq(Pools)]
      /\ podCache \in [PodKeys -> Pod \cup {None}]
  BY DEF TypeOK, LocalOK, ClusterOK
<1>1. /\ Route(podCache[k]) \in {"unpatch", "release", "check"} /\ Free(k)
      /\ pc'[w] = Route(podCache[k])
      /\ key' = [key EXCEPT ![w] = k] /\ key'[w] = k
      /\ view'[w] = podCache[k]
      /\ todo'[w] = parseNetworkPools(podCache[k])
      /\ UNCHANGED <<pods, births, podCache, allocs>>
  BY <1>0 DEF Reconcile, Available, Goto, cluster, store
<1>2. podCache[k] # None
  BY <1>1 DEF Route
<1>3. CASE podCache[k].deleting
  BY <1>0, <1>1, <1>2, <1>3 DEF Route, DeletionRoute, Releasing, Allocating
<1>4. CASE ~podCache[k].deleting
  BY <1>0, <1>1, <1>2, <1>4 DEF Route, AllocationRoute, Releasing, Allocating
<1> QED BY <1>0, <1>1, <1>2, <1>3, <1>4

(* The allocations of the pod of key k are among those it had.             *)
NoneNew(k) ==
  \A p \in Pools :
    Owned(p, k)' => Owned(p, k) /\ allocs'[AllocKey(p, k)] = allocs[AllocKey(p, k)]

(* The informer catches up with the pod of key k. *)
RefreshedAt(k) ==
  /\ podCache'[k] = PodTransform(pods[k])
  /\ UNCHANGED <<pods, births, allocs>>

(* The worker w allocates for the pod of its key, k, as it has read it.    *)
AllocatedBy(w, k) ==
  /\ pc[w] = "alloc" /\ key[w] = k
  /\ \A p \in Pools :
       Owned(p, k)' => \/ Owned(p, k) /\ allocs'[AllocKey(p, k)] = allocs[AllocKey(p, k)]
                       \/ allocs'[AllocKey(p, k)].uid = view[w].uid /\ p = Head(todo[w])
  /\ UNCHANGED <<pods, births, podCache>>

(* Nothing is done to the key k, except that allocations may be released. *)
QuietAt(k) ==
  /\ pods'[k] = pods[k] /\ podCache'[k] = podCache[k]
  /\ births' \in {births, births + 1}
  /\ NoneNew(k)

(* An allocation is made only for the pod of the worker's own key: a pod   *)
(* of that name in another namespace does not come to own it.              *)
LEMMA AllocStep ==
  ASSUME TypeOK, NEW w \in Workers, AllocateNext(w), NEW k \in PodKeys
  PROVE  QuietAt(k) \/ AllocatedBy(w, k)
<1> DEFINE q == Head(todo[w])
           a == AllocKey(q, key[w])
           object == [ns |-> key[w][1], uid |-> view[w].uid, ports |-> parseContainerPorts(view[w])]
<1>0. allocs \in [AllocKeys -> Allocation \cup {None}]
  BY DEF TypeOK, StoreOK
<1>1. pc[w] = "alloc" /\ UNCHANGED <<pods, births, podCache>>
  BY DEF AllocateNext, cluster
<1>2. key[w] \in PodKeys
  BY <1>1, InHand
<1>3. CASE allocs' = allocs
  BY <1>1, <1>3 DEF QuietAt, NoneNew, Owned
<1>4. CASE allocs' # allocs
  <2>1. allocs' = [allocs EXCEPT ![a] = object]
    BY <1>4 DEF AllocateNext, Panics
  <2>2. object.ns = key[w][1] /\ object.uid = view[w].uid
    OBVIOUS
  <2> HIDE DEF object
  <2>3. ASSUME NEW p \in Pools, Owned(p, k)',
               ~(Owned(p, k) /\ allocs'[AllocKey(p, k)] = allocs[AllocKey(p, k)])
        PROVE  key[w] = k /\ allocs'[AllocKey(p, k)].uid = view[w].uid /\ p = Head(todo[w])
    <3>1. AllocKey(p, k) \in AllocKeys
      BY DEF AllocKey, AllocKeys
    <3>2. AllocKey(p, k) = a
      <4> HIDE DEF a
      <4> QED BY <1>0, <2>1, <2>3, <3>1 DEF Owned
    <3>3. allocs'[AllocKey(p, k)] = object
      <4> HIDE DEF a
      <4> QED BY <1>0, <2>1, <3>1, <3>2
    <3>4. key[w][2] = k[2] /\ p = Head(todo[w])
      BY <3>2 DEF AllocKey
    <3>5. key[w][1] = k[1]
      BY <2>2, <2>3, <3>3 DEF Owned
    <3> QED BY <1>2, <2>2, <3>3, <3>4, <3>5, PodKeysAssumption
  <2>4. CASE key[w] = k
    BY <1>1, <2>3, <2>4 DEF AllocatedBy
  <2>5. CASE key[w] # k
    BY <1>1, <2>3, <2>5 DEF QuietAt, NoneNew
  <2> QED BY <2>4, <2>5
<1> QED BY <1>3, <1>4

(* What any step does to one key.                                          *)
LEMMA StepAt ==
  ASSUME TypeOK, [Next]_vars, NEW k \in PodKeys
  PROVE  \/ QuietAt(k) \/ ChangedAt(k) \/ RefreshedAt(k)
         \/ \E w \in Workers : PatchedBy(w, k) \/ AllocatedBy(w, k)
<1> DEFINE Goal == \/ QuietAt(k) \/ ChangedAt(k) \/ RefreshedAt(k)
                   \/ \E w \in Workers : PatchedBy(w, k) \/ AllocatedBy(w, k)
<1>0. /\ allocs \in [AllocKeys -> Allocation \cup {None}]
      /\ podCache \in [PodKeys -> Pod \cup {None}]
  BY DEF TypeOK, StoreOK, ClusterOK
<1>p. \/ pods'[k] = pods[k] /\ births' \in {births, births + 1}
      \/ ChangedAt(k)
      \/ \E w \in Workers : PatchedBy(w, k)
  BY PodsStep
<1>q. ASSUME UNCHANGED <<podCache, allocs>> PROVE Goal
  BY <1>p, <1>q DEF QuietAt, NoneNew, Owned
<1>1. ASSUME NEW w \in Workers, Work(w) PROVE Goal
  <2>1. CASE AllocateNext(w)
    BY <2>1, AllocStep
  <2>2. CASE ReleaseNext(w)
    <3>1. UNCHANGED <<pods, births, podCache>>
      BY <2>2 DEF ReleaseNext, cluster
    <3>2. allocs' = allocs \/ \E a : allocs' = [allocs EXCEPT ![a] = None]
      BY <2>2 DEF ReleaseNext, Panics
    <3>3. NoneNew(k)
      <4> SUFFICES ASSUME NEW p \in Pools, Owned(p, k)'
                   PROVE  Owned(p, k) /\ allocs'[AllocKey(p, k)] = allocs[AllocKey(p, k)]
        BY DEF NoneNew
      <4>1. AllocKey(p, k) \in AllocKeys
        BY DEF AllocKey, AllocKeys
      <4>2. allocs'[AllocKey(p, k)] = allocs[AllocKey(p, k)]
        BY <1>0, <3>2, <4>1 DEF Owned
      <4> QED BY <4>2 DEF Owned
    <3> QED BY <3>1, <3>3 DEF QuietAt
  <2>3. CASE removeFinalizer(w) \/ CheckNext(w) \/ GiveUp(w) \/ ensureFinalizer(w)
    BY <1>q, <2>3 DEF removeFinalizer, CheckNext, GiveUp, ensureFinalizer, store
  <2> QED BY <1>1, <2>1, <2>2, <2>3 DEF Work
<1>2. ASSUME NEW w \in Workers, NEW j \in PodKeys, Dequeue(w, j) PROVE Goal
  BY <1>2, <1>q DEF Dequeue, Skip, GetFails, Unparsable, Reconcile, vars, store
<1>3. ASSUME NEW j \in PodKeys, DeliverPod(j) PROVE Goal
  <2>1. UNCHANGED <<pods, births, allocs>> /\ podCache' = [podCache EXCEPT ![j] = PodTransform(pods[j])]
    BY <1>3 DEF DeliverPod, cluster, store
  <2>2. CASE j = k
    BY <1>0, <2>1, <2>2 DEF RefreshedAt
  <2>3. CASE j # k
    BY <1>0, <2>1, <2>3 DEF QuietAt, NoneNew, Owned
  <2> QED BY <2>2, <2>3
<1>4. ASSUME Crash PROVE Goal
  BY <1>4 DEF Crash, RefreshedAt, cluster
<1> QED BY <1>1, <1>2, <1>3, <1>4, <1>q, StepCases DEF store

-----------------------------------------------------------------------------
(* Outdated copies *)

(* Numbers that stand for pods.                                            *)
LEMMA Uids ==
  ASSUME TypeOK
  PROVE  /\ births \in Int
         /\ \A c \in Pod : c.uid \in Int
         /\ \A k \in PodKeys : /\ pods[k] # None => pods[k] \in Pod /\ pods[k].uid \in Int
                               /\ podCache[k] # None => podCache[k] \in Pod /\ podCache[k].uid \in Int
         /\ \A p \in Pools, k \in PodKeys : Owned(p, k) => allocs[AllocKey(p, k)].uid \in Int
<1>1. births \in Int
  BY BoundsAssumption DEF TypeOK, ClusterOK
<1>2. \A c \in Pod : c.uid \in Int
  BY BoundsAssumption DEF Pod
<1>3. \A k \in PodKeys : /\ pods[k] # None => pods[k] \in Pod
                         /\ podCache[k] # None => podCache[k] \in Pod
  BY DEF TypeOK, ClusterOK
<1>4. ASSUME NEW p \in Pools, NEW k \in PodKeys, Owned(p, k)
      PROVE  allocs[AllocKey(p, k)].uid \in Int
  <2>1. AllocKey(p, k) \in AllocKeys
    BY DEF AllocKey, AllocKeys
  <2>2. allocs[AllocKey(p, k)] \in Allocation
    BY <1>4, <2>1 DEF Owned, TypeOK, StoreOK
  <2> QED BY <2>2, BoundsAssumption DEF Allocation
<1> QED BY <1>1, <1>2, <1>3, <1>4

(* What is known of a copy stays known, if the worker that allocates for   *)
(* its key holds no newer one, and the one that adds the finalizer holds   *)
(* the same pod.                                                           *)
LEMMA CopyKept ==
  ASSUME TypeOK, TypeOK', [Next]_vars, NEW k \in PodKeys, NEW c \in Pod, CopyOK(c, k),
         \A w \in Workers : AllocatedBy(w, k) => view[w] \in Pod /\ view[w].uid <= c.uid,
         \A w \in Workers :
           (PatchedBy(w, k) /\ pc[w] = "patch" /\ c.deleting /\ Apollo \in c.fin)
             => c.uid = pods[k].uid
  PROVE  CopyOK(c, k)'
<1>0. c.uid \in Int /\ births \in Int /\ births' \in Int
  BY Uids, BoundsAssumption DEF TypeOK, ClusterOK
<1>p. pods[k] # None => pods[k].uid \in Int
  BY Uids
<1>c. /\ c.uid <= births
      /\ pods[k] # None =>
           /\ c.uid <= pods[k].uid
           /\ (c.deleting /\ c.uid = pods[k].uid) => pods[k].deleting
           /\ (c.deleting /\ Apollo \in c.fin /\ Apollo \in pods[k].fin) => c.uid = pods[k].uid
  BY DEF CopyOK
<1>a. \A p \in Pools : Owned(p, k) => allocs[AllocKey(p, k)].uid <= c.uid
  BY DEF CopyOK
<1> DEFINE PodPart == pods'[k] # None =>
               /\ c.uid <= pods'[k].uid
               /\ (c.deleting /\ c.uid = pods'[k].uid) => pods'[k].deleting
               /\ (c.deleting /\ Apollo \in c.fin /\ Apollo \in pods'[k].fin) => c.uid = pods'[k].uid
           AllocPart == \A p \in Pools : Owned(p, k)' => allocs'[AllocKey(p, k)].uid <= c.uid
<1>1. CASE QuietAt(k)
  <2>1. c.uid <= births' /\ PodPart
    BY <1>0, <1>c, <1>1 DEF QuietAt
  <2>2. AllocPart
    BY <1>a, <1>1 DEF QuietAt, NoneNew
  <2> QED BY <2>1, <2>2 DEF CopyOK
<1>2. CASE ChangedAt(k)
  <2>1. AllocPart
    BY <1>a, <1>2 DEF ChangedAt, Owned
  <2>2. c.uid <= births'
    BY <1>0, <1>c, <1>2 DEF ChangedAt
  <2>3. PodPart
    <3>1. ASSUME births' = births + 1, pods'[k].uid = births', pods'[k].fin = {} PROVE PodPart
      BY <1>0, <1>c, <3>1
    <3>2. ASSUME pods[k] # None, pods'[k].uid = pods[k].uid, pods[k].deleting => pods'[k].deleting,
                 Apollo \in pods'[k].fin <=> Apollo \in pods[k].fin
          PROVE  PodPart
      BY <1>c, <3>2
    <3> QED BY <1>2, <3>1, <3>2 DEF ChangedAt
  <2> QED BY <2>1, <2>2, <2>3 DEF CopyOK
<1>3. CASE RefreshedAt(k)
  <2>1. AllocPart
    BY <1>a, <1>3 DEF RefreshedAt, Owned
  <2> QED BY <1>c, <1>3, <2>1 DEF RefreshedAt, CopyOK
<1>4. ASSUME NEW w \in Workers, PatchedBy(w, k) PROVE CopyOK(c, k)'
  <2>1. AllocPart
    BY <1>a, <1>4 DEF PatchedBy, Owned
  <2>2. births' = births /\ PodPart
    BY <1>c, <1>4 DEF PatchedBy
  <2> QED BY <1>c, <2>1, <2>2 DEF CopyOK
<1>5. ASSUME NEW w \in Workers, AllocatedBy(w, k) PROVE CopyOK(c, k)'
  <2>1. view[w] \in Pod /\ view[w].uid <= c.uid
    BY <1>5
  <2>2. AllocPart
    BY <1>a, <1>5, <2>1 DEF AllocatedBy
  <2> QED BY <1>c, <1>5, <2>2 DEF AllocatedBy, CopyOK
<1> QED BY <1>1, <1>2, <1>3, <1>4, <1>5, StepAt

(* Our finalizer stays on a pod whose worker is not about to remove it.    *)
LEMMA ProtectedKept ==
  ASSUME TypeOK, [Next]_vars, NEW k \in PodKeys, NEW c, Protected(c, k),
         \A w \in Workers : ~(PatchedBy(w, k) /\ pc[w] = "unpatch")
  PROVE  Protected(c, k)'
<1>n. pods'[k] \in Pod => pods'[k] # None
  BY NoneAssumption
<1>1. CASE QuietAt(k) \/ RefreshedAt(k)
  BY <1>1 DEF QuietAt, RefreshedAt, Protected
<1>2. CASE ChangedAt(k)
  BY <1>2, <1>n DEF ChangedAt, Protected
<1>3. ASSUME NEW w \in Workers, PatchedBy(w, k) PROVE Protected(c, k)'
  BY <1>3, <1>n DEF PatchedBy, Protected
<1>4. ASSUME NEW w \in Workers, AllocatedBy(w, k) PROVE Protected(c, k)'
  BY <1>4 DEF AllocatedBy, Protected
<1> QED BY <1>1, <1>2, <1>3, <1>4, StepAt

(* The worker of a key, by its invariant.                                  *)
LEMMA AtWork ==
  ASSUME TypeOK, CopyInv, NEW w \in Workers, pc[w] # "idle"
  PROVE  key[w] \in PodKeys /\ key[w] # None /\ view[w] \in Pod /\ WorkerInv(w)
<1>1. key[w] \in PodKeys /\ view[w] \in Pod
  BY InHand
<1> QED BY <1>1, NoneAssumption DEF CopyInv

(* What is known of the pod of a key and of the informer's copy of it.     *)
LEMMA KeyNext ==
  ASSUME TypeOK, TypeOK', Exclusive, CopyInv, [Next]_vars, NEW k \in PodKeys
  PROVE  KeyInv(k)'
<1>0. KeyInv(k) /\ births \in Int /\ births' \in Int
  BY Uids, BoundsAssumption DEF CopyInv, TypeOK, ClusterOK
<1>w. ASSUME NEW w \in Workers, AllocatedBy(w, k) \/ PatchedBy(w, k)
      PROVE  /\ pc[w] # "idle" /\ key[w] = k /\ view[w] \in Pod /\ view[w].uid \in Int
             /\ WorkerInv(w) /\ CopyOK(view[w], k)
             /\ podCache[k] # None => view[w].uid <= podCache[k].uid
  <2>1. pc[w] # "idle" /\ key[w] = k
    BY <1>w DEF AllocatedBy, PatchedBy
  <2>2. view[w] \in Pod /\ WorkerInv(w)
    BY <2>1, AtWork
  <2> QED BY <2>1, <2>2, Uids DEF WorkerInv
<1>1. \A p \in Pools : Owned(p, k)' => allocs'[AllocKey(p, k)].uid <= births'
  <2> SUFFICES ASSUME NEW p \in Pools, Owned(p, k)'
               PROVE  allocs'[AllocKey(p, k)].uid <= births'
    OBVIOUS
  <2>a. Owned(p, k) => allocs[AllocKey(p, k)].uid <= births /\ allocs[AllocKey(p, k)].uid \in Int
    BY <1>0, Uids DEF KeyInv
  <2>1. CASE QuietAt(k)
    BY <1>0, <2>1, <2>a DEF QuietAt, NoneNew
  <2>2. CASE ChangedAt(k)
    BY <1>0, <2>2, <2>a DEF ChangedAt, Owned
  <2>3. CASE RefreshedAt(k)
    BY <1>0, <2>3, <2>a DEF RefreshedAt, Owned
  <2>4. ASSUME NEW w \in Workers, PatchedBy(w, k) PROVE allocs'[AllocKey(p, k)].uid <= births'
    BY <1>0, <2>4, <2>a DEF PatchedBy, Owned
  <2>5. ASSUME NEW w \in Workers, AllocatedBy(w, k) PROVE allocs'[AllocKey(p, k)].uid <= births'
    <3>1. view[w].uid <= births
      BY <1>w, <2>5 DEF CopyOK
    <3> QED BY <1>0, <2>5, <2>a, <3>1 DEF AllocatedBy
  <2> QED BY <2>1, <2>2, <2>3, <2>4, <2>5, StepAt
<1>2. ASSUME pods'[k] # None PROVE CopyOK(pods[k], k)'
  <2>1. pods'[k] \in Pod /\ pods'[k].uid \in Int
    BY <1>2, BoundsAssumption DEF TypeOK, ClusterOK, Pod
  <2>2. SUFFICES /\ pods'[k].uid <= births'
                 /\ \A p \in Pools : Owned(p, k)' => allocs'[AllocKey(p, k)].uid <= pods'[k].uid
    BY <2>1, <2>2 DEF CopyOK
  <2>3. ASSUME ChangedAt(k), pods[k] = None
        PROVE  /\ pods'[k].uid <= births'
               /\ \A p \in Pools : Owned(p, k)' => allocs'[AllocKey(p, k)].uid <= pods'[k].uid
    <3>1. pods'[k].uid = births'
      BY <2>3 DEF ChangedAt
    <3> QED BY <1>0, <1>1, <3>1
  <2>4. ASSUME pods[k] # None, pods'[k].uid = pods[k].uid
        PROVE  /\ pods'[k].uid <= births'
               /\ \A p \in Pools : Owned(p, k)' => allocs'[AllocKey(p, k)].uid <= pods'[k].uid
    <3>1. PICK c \in Pod : c = pods[k]
      BY <2>4, Uids
    <3>2. CopyOK(c, k)
      BY <1>0, <2>4, <3>1 DEF KeyInv
    <3>3. \A w \in Workers : AllocatedBy(w, k) => view[w] \in Pod /\ view[w].uid <= c.uid
      BY <1>w, <2>4, <3>1 DEF CopyOK
    <3>4. CopyOK(c, k)'
      BY <3>1, <3>2, <3>3, CopyKept
    <3> QED BY <2>4, <3>1, <3>4 DEF CopyOK
  <2> QED BY <1>2, <2>3, <2>4, StepAt
          DEF QuietAt, ChangedAt, RefreshedAt, PatchedBy, AllocatedBy
<1>3. ASSUME podCache'[k] # None, podCache'[k] = podCache[k]
      PROVE  /\ CopyOK(podCache[k], k)'
             /\ (~podCache'[k].deleting /\ Apollo \in podCache'[k].fin) => Protected(podCache[k], k)'
  <2>1. PICK c \in Pod : c = podCache[k] /\ c = podCache'[k]
    BY <1>3, Uids
  <2>2. CopyOK(c, k) /\ (~c.deleting /\ Apollo \in c.fin => Protected(c, k))
    BY <1>0, <1>3, <2>1 DEF KeyInv
  <2>3. \A w \in Workers : AllocatedBy(w, k) => view[w] \in Pod /\ view[w].uid <= c.uid
    BY <1>w, <1>3, <2>1
  <2>4. ASSUME NEW w \in Workers, PatchedBy(w, k), pc[w] = "patch", Apollo \in c.fin
        PROVE  c.uid = pods[k].uid
    <3>1. WorkerInv(w) /\ key[w] = k
      BY <1>w, <2>4
    <3> QED BY <1>3, <2>1, <2>4, <3>1 DEF WorkerInv, Allocating, Protected
  <2>5. ASSUME NEW w \in Workers, PatchedBy(w, k), pc[w] = "unpatch", Apollo \in c.fin
        PROVE  c.deleting
    <3>1. WorkerInv(w) /\ key[w] = k
      BY <1>w, <2>5
    <3> QED BY <1>3, <2>1, <2>5, <3>1 DEF WorkerInv, Releasing
  <2>6. CopyOK(c, k)'
    BY <2>2, <2>3, <2>4, CopyKept
  <2>7. (~c.deleting /\ Apollo \in c.fin) => Protected(c, k)'
    BY <2>2, <2>5, ProtectedKept
  <2>8. CopyOK(podCache[k], k)'
    BY <2>1, <2>6 DEF CopyOK
  <2>9. Protected(c, k)' => Protected(podCache[k], k)'
    BY <2>1 DEF Protected
  <2> QED BY <2>1, <2>7, <2>8, <2>9
<1>4. ASSUME podCache'[k] # None, RefreshedAt(k)
      PROVE  /\ CopyOK(podCache[k], k)'
             /\ (~podCache'[k].deleting /\ Apollo \in podCache'[k].fin) => Protected(podCache[k], k)'
  <2>1. pods[k] \in Pod \cup {None}
    BY DEF TypeOK, ClusterOK
  <2>2. /\ pods[k] # None
        /\ podCache'[k].uid = pods[k].uid /\ podCache'[k].fin = pods[k].fin
        /\ podCache'[k].deleting = pods[k].deleting
    BY <1>4, <2>1, TransformKeeps DEF RefreshedAt
  <2>3. CopyOK(pods[k], k)' /\ pods' = pods
    BY <1>2, <1>4, <2>2 DEF RefreshedAt
  <2>4. CopyOK(podCache[k], k)'
    BY <2>2, <2>3 DEF CopyOK
  <2>5. Apollo \in podCache'[k].fin => Protected(podCache[k], k)'
    BY <2>2, <2>3 DEF Protected
  <2> QED BY <2>4, <2>5
<1>5. RefreshedAt(k) \/ podCache'[k] = podCache[k]
  BY StepAt DEF QuietAt, ChangedAt, RefreshedAt, PatchedBy, AllocatedBy
<1> QED BY <1>1, <1>2, <1>3, <1>4, <1>5 DEF KeyInv

(* What a worker has just taken from the queue, and what it goes on with.  *)
LEMMA WorkerNext ==
  ASSUME TypeOK, TypeOK', Exclusive, CopyInv, [Next]_vars, NEW v \in Workers, pc'[v] # "idle"
  PROVE  WorkerInv(v)'
<1>1. ASSUME NEW k \in PodKeys, Reconcile(v, k) PROVE WorkerInv(v)'
  <2>1. PICK c \in Pod : c = podCache[k] /\ c # None
    BY <1>1, Taken
  <2>2. /\ key'[v] = k /\ view'[v] = c /\ podCache'[k] = c
        /\ UNCHANGED <<pods, births, podCache, allocs>>
        /\ pc'[v] \in Releasing => c.deleting /\ Apollo \in c.fin
        /\ pc'[v] \in Allocating => ~c.deleting
    BY <1>1, <2>1, Taken
  <2>3. CopyOK(c, k) /\ (~c.deleting /\ Apollo \in c.fin => Protected(c, k))
    BY <2>1 DEF CopyInv, KeyInv
  <2>4. CopyOK(c, k)' /\ (Protected(c, k) => Protected(c, k)')
    BY <2>2, <2>3 DEF CopyOK, Protected, Owned
  <2>5. c.uid <= c.uid
    BY Uids
  <2> QED BY <2>2, <2>3, <2>4, <2>5 DEF WorkerInv, CopyOK, Protected
<1>2. ASSUME \A k \in PodKeys : ~Reconcile(v, k) PROVE WorkerInv(v)'
  <2>1. /\ pc[v] # "idle" /\ key'[v] = key[v] /\ view'[v] = view[v]
        /\ pc'[v] \in Releasing => pc[v] \in Releasing
        /\ pc'[v] \in Allocating => pc[v] \in Allocating
    BY <1>2, WorkerStep
  <2>2. key[v] \in PodKeys /\ key[v] # None /\ view[v] \in Pod /\ WorkerInv(v)
    BY <2>1, AtWork
  <2>3. PICK k \in PodKeys, d \in Pod : k = key[v] /\ d = view[v]
    BY <2>2
  <2>4. /\ k # None /\ CopyOK(d, k)
        /\ podCache[k] # None => d.uid <= podCache[k].uid
        /\ pc[v] \in Releasing =>
             /\ d.deleting /\ Apollo \in d.fin
             /\ (podCache[k] # None /\ Apollo \in podCache[k].fin)
                  => podCache[k].uid = d.uid /\ podCache[k].deleting
        /\ (pc[v] \in Allocating /\ podCache[k] # None /\ Apollo \in podCache[k].fin)
             => Protected(podCache[k], k)
    BY <2>2, <2>3 DEF WorkerInv
  <2>5. \A w \in Workers : key[w] = k => w = v
    BY <2>2, <2>3 DEF Exclusive
  <2>6. \A w \in Workers : ~PatchedBy(w, k)
    BY <2>5 DEF PatchedBy
  <2>7. \A w \in Workers : AllocatedBy(w, k) => view[w] \in Pod /\ view[w].uid <= d.uid
    <3>1. d.uid <= d.uid
      BY Uids
    <3> QED BY <2>3, <2>5, <3>1 DEF AllocatedBy
  <2>8. CopyOK(d, k)'
    BY <2>4, <2>6, <2>7, CopyKept
  <2>9. CASE podCache'[k] = podCache[k]
    <3>1. \A c : Protected(c, k) => Protected(c, k)'
      BY <2>6, ProtectedKept
    <3>2. PICK c : c = podCache[k] /\ c = podCache'[k]
      BY <2>9
    <3>3. pc'[v] \in Allocating /\ c # None /\ Apollo \in c.fin => Protected(c, k)'
      BY <2>1, <2>4, <3>1, <3>2 DEF Protected
    <3> QED BY <2>1, <2>3, <2>4, <2>8, <3>2, <3>3 DEF WorkerInv, CopyOK, Protected
  <2>10. CASE RefreshedAt(k)
    <3>1. pods[k] \in Pod \cup {None}
      BY DEF TypeOK, ClusterOK
    <3>2. /\ podCache'[k] = None <=> pods[k] = None
          /\ pods[k] # None => /\ podCache'[k].uid = pods[k].uid /\ podCache'[k].fin = pods[k].fin
                               /\ podCache'[k].deleting = pods[k].deleting
          /\ pods' = pods
      BY <2>10, <3>1, TransformKeeps DEF RefreshedAt
    <3>3. podCache'[k] # None => d.uid <= podCache'[k].uid
      BY <2>4, <3>2 DEF CopyOK
    <3>4. ASSUME pc'[v] \in Releasing
          PROVE  /\ d.deleting /\ Apollo \in d.fin
                 /\ (podCache'[k] # None /\ Apollo \in podCache'[k].fin)
                      => podCache'[k].uid = d.uid /\ podCache'[k].deleting
      BY <2>1, <2>4, <3>2, <3>4 DEF CopyOK
    <3>5. (podCache'[k] # None /\ Apollo \in podCache'[k].fin) => Protected(podCache[k], k)'
      BY <3>2 DEF Protected
    <3> QED BY <2>1, <2>3, <2>8, <3>3, <3>4, <3>5 DEF WorkerInv, CopyOK, Protected
  <2>11. RefreshedAt(k) \/ podCache'[k] = podCache[k]
    BY StepAt DEF QuietAt, ChangedAt, RefreshedAt, PatchedBy, AllocatedBy
  <2> QED BY <2>9, <2>10, <2>11
<1> QED BY <1>1, <1>2

(* The queue hands out a key that nobody holds.                            *)
LEMMA ExclusiveNext ==
  ASSUME TypeOK, TypeOK', Exclusive, [Next]_vars
  PROVE  Exclusive'
<1> SUFFICES ASSUME NEW v \in Workers, NEW u \in Workers, key'[v] # None, key'[v] = key'[u]
             PROVE  v = u
  BY DEF Exclusive
<1>0. key \in [Workers -> PodKeys \cup {None}]
  BY DEF TypeOK, LocalOK
<1>1. pc'[v] # "idle" /\ pc'[u] # "idle"
  BY DEF TypeOK, LocalOK, InHandOK
<1>2. ASSUME NEW w \in Workers, NEW k \in PodKeys, Reconcile(w, k) PROVE v = u
  BY <1>0, <1>2 DEF Reconcile, Available, Free, Exclusive
<1>3. ASSUME \A w \in Workers, k \in PodKeys : ~Reconcile(w, k) PROVE v = u
  <2>1. key'[v] = key[v] /\ key'[u] = key[u]
    BY <1>1, <1>3, WorkerStep
  <2> QED BY <2>1 DEF Exclusive
<1> QED BY <1>2, <1>3

(* At first nobody holds a copy.                                           *)
LEMMA PodInvInit == Init => PodInv
<1> SUFFICES ASSUME Init PROVE PodInv
  OBVIOUS
<1>1. \A p \in Pools, k \in PodKeys : AllocKey(p, k) \in AllocKeys
  BY DEF AllocKey, AllocKeys
<1>2. \A p \in Pools, k \in PodKeys : ~Owned(p, k)
  BY <1>1 DEF Init, Owned
<1>3. \A k \in PodKeys : KeyInv(k)
  BY <1>2 DEF Init, KeyInv
<1>4. \A w \in Workers : pc[w] = "idle" /\ key[w] = None
  BY DEF Init
<1> QED BY <1>3, <1>4 DEF PodInv, Exclusive, CopyInv

(* Every step keeps what is known of the copies.                           *)
LEMMA PodInvNext == TypeOK /\ TypeOK' /\ PodInv /\ [Next]_vars => PodInv'
<1> SUFFICES ASSUME TypeOK, TypeOK', PodInv, [Next]_vars PROVE PodInv'
  OBVIOUS
<1>1. Exclusive /\ CopyInv
  BY DEF PodInv
<1>2. Exclusive'
  BY <1>1, ExclusiveNext
<1>3. \A k \in PodKeys : KeyInv(k)'
  BY <1>1, KeyNext
<1>4. \A w \in Workers : pc'[w] # "idle" => WorkerInv(w)'
  BY <1>1, WorkerNext
<1> QED BY <1>2, <1>3, <1>4 DEF PodInv, CopyInv

(* However outdated the copy of a pod is that the informer or a reconciler *)
(* holds: no allocation of the pod's key was made for a later pod, and a   *)
(* copy that asks for a clean-up never meets a later pod that already      *)
(* bears the finalizer.  The work queue gives no key to two reconcilers.   *)
THEOREM CopiesSound == Spec => []PodInv
<1> QED BY TypeInit, TypeNext, PodInvInit, PodInvNext, PTL DEF Spec

(* An allocation goes only by a turn of the loop of handlePodDeletion.     *)
LEMMA ReleasedBy ==
  ASSUME TypeOK, [Next]_vars, NEW a \in AllocKeys, allocs[a] # None, allocs'[a] = None
  PROVE  \E v \in Workers : /\ pc[v] = "release"
                            /\ a = AllocKey(Head(todo[v]), key[v])
                            /\ Releasable(AllocView, a, key[v])
                            /\ todo' = [todo EXCEPT ![v] = Tail(todo[v])]
<1>0. allocs \in [AllocKeys -> Allocation \cup {None}]
  BY DEF TypeOK, StoreOK
<1>1. ASSUME NEW v \in Workers, ReleaseNext(v)
      PROVE  /\ pc[v] = "release"
             /\ a = AllocKey(Head(todo[v]), key[v])
             /\ Releasable(AllocView, a, key[v])
             /\ todo' = [todo EXCEPT ![v] = Tail(todo[v])]
  <2> DEFINE b == AllocKey(Head(todo[v]), key[v])
  <2>1. allocs' # allocs
    OBVIOUS
  <2>2. /\ pc[v] = "release" /\ Releasable(AllocView, b, key[v])
        /\ allocs' = [allocs EXCEPT ![b] = None]
        /\ todo' = [todo EXCEPT ![v] = Tail(todo[v])]
    BY <1>1, <2>1 DEF ReleaseNext, Panics
  <2> HIDE DEF b
  <2>3. a = b
    BY <1>0, <2>2
  <2> QED BY <2>2, <2>3 DEF b
<1>2. ASSUME NEW v \in Workers, AllocateNext(v) PROVE FALSE
  <2> DEFINE b == AllocKey(Head(todo[v]), key[v])
  <2>1. allocs' # allocs
    OBVIOUS
  <2>2. PICK object : allocs' = [allocs EXCEPT ![b] = object] /\ allocs[b] = None
    BY <1>2, <2>1 DEF AllocateNext, Panics, Allocatable
  <2> HIDE DEF b
  <2> QED BY <1>0, <2>2
<1>3. ASSUME NEW v \in Workers, Work(v), ~ReleaseNext(v), ~AllocateNext(v) PROVE FALSE
  BY <1>3 DEF Work, removeFinalizer, CheckNext, GiveUp, ensureFinalizer, store
<1>4. ASSUME NEW v \in Workers, NEW k \in PodKeys, Dequeue(v, k) PROVE FALSE
  BY <1>4 DEF Dequeue, Skip, GetFails, Unparsable, Reconcile, vars, store
<1>5. allocs' # allocs
  OBVIOUS
<1> QED BY <1>1, <1>2, <1>3, <1>4, <1>5, StepCases DEF DeliverPod, Crash, store

(* What handlePodDeletion releases, reading allocations from the API       *)
(* server, is its own.                                                     *)
LEMMA ReleaseOwn ==
  ASSUME TypeOK, PodInv, ~CachedReads, [Next]_vars, NEW w \in Workers, NEW a \in AllocKeys,
         pc[w] = "release", todo'[w] = Tail(todo[w]), allocs[a] # None, allocs'[a] = None
  PROVE  allocs[a].uid <= view[w].uid /\ allocs[a].ns = key[w][1]
<1>0. todo \in [Workers -> Seq(Pools)]
  BY DEF TypeOK, LocalOK
<1>1. PICK v \in Workers : /\ pc[v] = "release"
                           /\ a = AllocKey(Head(todo[v]), key[v])
                           /\ Releasable(AllocView, a, key[v])
                           /\ todo' = [todo EXCEPT ![v] = Tail(todo[v])]
  BY ReleasedBy
<1>2. Head(todo[w]) \in Pools /\ todo[w] \in Seq(Pools) /\ todo[w] # << >>
  BY <1>0, InHand
<1>3. Tail(todo[w]) # todo[w]
  <2>1. Len(Tail(todo[w])) = Len(todo[w]) - 1 /\ Len(todo[w]) \in Nat
    BY <1>2
  <2>2. Len(Tail(todo[w])) # Len(todo[w])
    BY <2>1
  <2> QED BY <2>2
<1>4. v = w
  BY <1>0, <1>1, <1>3
<1>5. WorkerInv(w)
  BY AtWork DEF PodInv
<1>6. Owned(Head(todo[w]), key[w])
  BY <1>1, <1>4 DEF Releasable, AllocView, Owned
<1>7. allocs[a].uid <= view[w].uid
  BY <1>1, <1>2, <1>4, <1>5, <1>6 DEF WorkerInv, CopyOK
<1> QED BY <1>1, <1>4, <1>6, <1>7 DEF Owned

(* A reconcile that works from an outdated copy of a pod never takes the   *)
(* ports of its successor of the same name: for any number of reconcilers, *)
(* recreations, failing calls and restarts, provided allocations are read  *)
(* from the API server.                                                    *)
THEOREM NotNewer == ~CachedReads => (Spec => ReleaseNotNewer)
<1> SUFFICES ASSUME ~CachedReads PROVE Spec => ReleaseNotNewer
  OBVIOUS
<1> DEFINE Own == \A w \in Workers : \A a \in AllocKeys :
                    (/\ pc[w] = "release" /\ todo'[w] = Tail(todo[w])
                     /\ allocs[a] # None /\ allocs'[a] = None)
                       => allocs[a].uid <= view[w].uid /\ allocs[a].ns = key[w][1]
<1>1. TypeOK /\ PodInv /\ [Next]_vars => [Own]_vars
  BY ReleaseOwn
<1> HIDE DEF Own
<1>2. Spec => [][Own]_vars
  BY <1>1, TypeInit, TypeNext, PodInvInit, PodInvNext, PTL DEF Spec
<1> QED BY <1>2 DEF ReleaseNotNewer, Own

-----------------------------------------------------------------------------
(* Fixed annotations: copies show what the pod asks for *)

(* A copy in hand or in the cache is of a pod that was born.               *)
LEMMA CopiesBorn ==
  ASSUME TypeOK, PodInv
  PROVE  /\ \A k \in PodKeys : /\ pods[k] # None => pods[k] \in Pod /\ pods[k].uid <= births
                               /\ podCache[k] # None => podCache[k] \in Pod /\ podCache[k].uid <= births
         /\ \A w \in Workers : pc[w] # "idle" => view[w] \in Pod /\ view[w].uid <= births
<1>1. ASSUME NEW k \in PodKeys
      PROVE  /\ pods[k] # None => pods[k] \in Pod /\ pods[k].uid <= births
             /\ podCache[k] # None => podCache[k] \in Pod /\ podCache[k].uid <= births
  BY Uids DEF PodInv, CopyInv, KeyInv, CopyOK
<1>2. ASSUME NEW w \in Workers, pc[w] # "idle" PROVE view[w] \in Pod /\ view[w].uid <= births
  BY <1>2, AtWork DEF PodInv, WorkerInv, CopyOK
<1> QED BY <1>1, <1>2

(* A copy of a pod that was born goes on agreeing with it.                 *)
LEMMA AgreesKept ==
  ASSUME TypeOK, [Next]_vars, ~AnnotationsChange, NEW c \in Pod, c.uid <= births, Agrees(c)
  PROVE  Agrees(c)'
<1> SUFFICES ASSUME NEW k \in PodKeys, pods'[k] # None, pods'[k].uid = c.uid
             PROVE  pods'[k].ann = c.ann /\ pods'[k].spec = c.spec
  BY DEF Agrees
<1>0. c.uid \in Int /\ births \in Int
  BY Uids
<1>1. (pods[k] # None /\ pods[k].uid = c.uid) => pods[k].ann = c.ann /\ pods[k].spec = c.spec
  BY DEF Agrees
<1>2. /\ pods[k] # None
      /\ pods'[k].uid = pods[k].uid /\ pods'[k].ann = pods[k].ann /\ pods'[k].spec = pods[k].spec
  BY <1>0, StepAt DEF QuietAt, ChangedAt, RefreshedAt, PatchedBy, AllocatedBy
<1> QED BY <1>1, <1>2

(* A step changes at most one pod.                                         *)
LEMMA OnePod ==
  ASSUME TypeOK, [Next]_vars, NEW j \in PodKeys, NEW k \in PodKeys, j # k, pods'[k] # pods[k]
  PROVE  pods'[j] = pods[j]
<1>0. pods \in [PodKeys -> Pod \cup {None}]
  BY DEF TypeOK, ClusterOK
<1>1. ASSUME NEW x, NEW q, pods' = [pods EXCEPT ![x] = q] PROVE pods'[j] = pods[j]
  BY <1>0, <1>1
<1>2. ASSUME NEW w \in Workers, Work(w) PROVE pods'[j] = pods[j]
  <2>1. CASE removeFinalizer(w) \/ ensureFinalizer(w)
    <3>1. \/ pods' = pods
          \/ \E fin : pods' = [pods EXCEPT ![key[w]] = [pods[key[w]] EXCEPT !.fin = fin]]
      BY <2>1, FinalizerPatch
    <3> QED BY <1>1, <3>1
  <2>2. CASE ~(removeFinalizer(w) \/ ensureFinalizer(w))
    BY <1>2, <2>2 DEF Work, ReleaseNext, CheckNext, AllocateNext, GiveUp, cluster
  <2> QED BY <2>1, <2>2
<1>3. ASSUME NEW w \in Workers, NEW i \in PodKeys, Dequeue(w, i) PROVE pods'[j] = pods[j]
  BY <1>3 DEF Dequeue, Skip, GetFails, Unparsable, Reconcile, vars, cluster
<1>4. ASSUME NEW i \in PodKeys, Born(i) \/ Gone(i) \/ Edited(i) PROVE pods'[j] = pods[j]
  <2>1. \E q : pods' = [pods EXCEPT ![i] = q]
    BY <1>4 DEF Born, Gone, Edited
  <2> QED BY <1>1, <2>1
<1> QED BY <1>2, <1>3, <1>4, StepCases DEF DeliverPod, Crash, cluster

(* A new pod is the only one of its number.                                *)
LEMMA AgreeNext ==
  ASSUME ~AnnotationsChange, TypeOK, TypeOK', PodInv, AgreeInv, [Next]_vars
  PROVE  AgreeInv'
<1>b. /\ births \in Int
      /\ \A k \in PodKeys : /\ pods[k] # None => pods[k] \in Pod /\ pods[k].uid <= births
                            /\ podCache[k] # None => podCache[k] \in Pod /\ podCache[k].uid <= births
      /\ \A w \in Workers : pc[w] # "idle" => view[w] \in Pod /\ view[w].uid <= births
  BY CopiesBorn, Uids
<1>k. \A c \in Pod : c.uid <= births /\ Agrees(c) => Agrees(c)'
  BY AgreesKept
<1>1. ASSUME NEW k \in PodKeys, pods'[k] # None PROVE Agrees(pods[k])'
  <2>1. ASSUME pods[k] # None, pods'[k].uid = pods[k].uid, pods'[k].ann = pods[k].ann,
               pods'[k].spec = pods[k].spec
        PROVE  Agrees(pods[k])'
    <3>1. PICK c \in Pod : c = pods[k]
      BY <1>b, <2>1
    <3>2. Agrees(c)'
      BY <1>b, <1>k, <2>1, <3>1 DEF AgreeInv, Agrees
    <3> QED BY <2>1, <3>1, <3>2 DEF Agrees
  <2>2. ASSUME ChangedAt(k), pods[k] = None PROVE Agrees(pods[k])'
    <3>1. births' = births + 1 /\ pods'[k].uid = births'
      BY <1>1, <2>2 DEF ChangedAt
    <3> SUFFICES ASSUME NEW j \in PodKeys, pods'[j] # None, pods'[j].uid = pods'[k].uid
                 PROVE  pods'[j].ann = pods'[k].ann /\ pods'[j].spec = pods'[k].spec
      BY DEF Agrees
    <3>2. CASE j = k
      BY <3>2
    <3>3. CASE j # k
      <4>1. pods'[j] = pods[j]
        BY <1>1, <2>2, <3>3, OnePod
      <4>2. pods[j].uid <= births /\ pods[j].uid = births + 1 /\ pods[j].uid \in Int
        BY <1>b, <3>1, <4>1, Uids
      <4> QED BY <1>b, <4>2
    <3> QED BY <3>2, <3>3
  <2>3. \/ ChangedAt(k) /\ pods[k] = None
        \/ /\ pods[k] # None /\ pods'[k].uid = pods[k].uid /\ pods'[k].ann = pods[k].ann
           /\ pods'[k].spec = pods[k].spec
    BY <1>1, StepAt DEF QuietAt, ChangedAt, RefreshedAt, PatchedBy, AllocatedBy
  <2> QED BY <2>1, <2>2, <2>3
<1>2. ASSUME NEW k \in PodKeys, podCache'[k] # None PROVE Agrees(podCache[k])'
  <2>1. CASE podCache'[k] = podCache[k]
    <3>1. PICK c \in Pod : c = podCache[k] /\ c = podCache'[k]
      BY <1>2, <1>b, <2>1
    <3>2. podCache[k] # None /\ c.uid <= births
      BY <1>2, <1>b, <2>1, <3>1
    <3>3. Agrees(c)
      BY <3>1, <3>2 DEF AgreeInv
    <3>4. Agrees(c)'
      BY <1>k, <3>2, <3>3
    <3> QED BY <3>1, <3>4 DEF Agrees
  <2>2. CASE RefreshedAt(k)
    <3>1. pods[k] \in Pod \cup {None}
      BY DEF TypeOK, ClusterOK
    <3>2. /\ pods[k] # None /\ pods' = pods
          /\ podCache'[k].uid = pods[k].uid /\ podCache'[k].ann = pods[k].ann
          /\ podCache'[k].spec = pods[k].spec
      BY <1>2, <2>2, <3>1, TransformKeeps DEF RefreshedAt
    <3>3. Agrees(pods[k])'
      BY <1>1, <3>2
    <3> QED BY <3>2, <3>3 DEF Agrees
  <2>3. RefreshedAt(k) \/ podCache'[k] = podCache[k]
    BY StepAt DEF QuietAt, ChangedAt, RefreshedAt, PatchedBy, AllocatedBy
  <2> QED BY <2>1, <2>2, <2>3
<1>3. ASSUME NEW w \in Workers, pc'[w] # "idle" PROVE Agrees(view[w])'
  <2>1. ASSUME NEW k \in PodKeys, Reconcile(w, k) PROVE Agrees(view[w])'
    <3>1. /\ podCache'[k] # None /\ view'[w] = podCache'[k]
      BY <2>1, Taken
    <3>2. Agrees(podCache[k])'
      BY <1>2, <3>1
    <3> QED BY <3>1, <3>2 DEF Agrees
  <2>2. ASSUME \A k \in PodKeys : ~Reconcile(w, k) PROVE Agrees(view[w])'
    <3>1. pc[w] # "idle" /\ view'[w] = view[w]
      BY <1>3, <2>2, WorkerStep
    <3>2. PICK c \in Pod : c = view[w] /\ c = view'[w]
      BY <1>b, <3>1
    <3>3. Agrees(c)'
      BY <1>b, <1>k, <3>1, <3>2 DEF AgreeInv, Agrees
    <3> QED BY <3>2, <3>3 DEF Agrees
  <2> QED BY <2>1, <2>2
<1> QED BY <1>1, <1>2, <1>3 DEF AgreeInv

(* At first there is no copy to agree.                                     *)
LEMMA AgreeInit == Init => AgreeInv
BY DEF Init, AgreeInv

(* An allocation is made from a copy that agrees with the pod it is of.    *)
LEMMA AllocatesRequested ==
  ASSUME TypeOK, AgreeInv, [Next]_vars, NEW a \in AllocKeys, NEW k \in PodKeys,
         allocs[a] = None, allocs'[a] # None, pods[k] # None, pods[k].uid = allocs'[a].uid
  PROVE  allocs'[a].ports = parseContainerPorts(pods[k])
<1>0. allocs \in [AllocKeys -> Allocation \cup {None}]
  BY DEF TypeOK, StoreOK
<1>5. allocs' # allocs
  OBVIOUS
<1>1. ASSUME NEW w \in Workers, AllocateNext(w)
      PROVE  allocs'[a].ports = parseContainerPorts(pods[k])
  <2> DEFINE b == AllocKey(Head(todo[w]), key[w])
             object == [ns |-> key[w][1], uid |-> view[w].uid, ports |-> parseContainerPorts(view[w])]
  <2>1. pc[w] = "alloc" /\ allocs' = [allocs EXCEPT ![b] = object]
    BY <1>1, <1>5 DEF AllocateNext, Panics
  <2>2. object.uid = view[w].uid /\ object.ports = parseContainerPorts(view[w])
    OBVIOUS
  <2> HIDE DEF b, object
  <2>3. allocs'[a] = object
    BY <1>0, <2>1
  <2>4. Agrees(view[w])
    BY <2>1 DEF AgreeInv
  <2>5. pods[k].ann = view[w].ann /\ pods[k].spec = view[w].spec
    BY <2>2, <2>3, <2>4 DEF Agrees
  <2> QED BY <2>2, <2>3, <2>5 DEF parseContainerPorts
<1>2. ASSUME NEW w \in Workers, ReleaseNext(w) PROVE FALSE
  <2> DEFINE b == AllocKey(Head(todo[w]), key[w])
  <2>1. allocs' = [allocs EXCEPT ![b] = None]
    BY <1>2, <1>5 DEF ReleaseNext, Panics
  <2> HIDE DEF b
  <2> QED BY <1>0, <2>1
<1>3. ASSUME NEW w \in Workers, Work(w), ~ReleaseNext(w), ~AllocateNext(w) PROVE FALSE
  BY <1>3 DEF Work, removeFinalizer, CheckNext, GiveUp, ensureFinalizer, store
<1>4. ASSUME NEW w \in Workers, NEW j \in PodKeys, Dequeue(w, j) PROVE FALSE
  BY <1>4 DEF Dequeue, Skip, GetFails, Unparsable, Reconcile, vars, store
<1> QED BY <1>1, <1>2, <1>3, <1>4, <1>5, StepCases DEF DeliverPod, Crash, store

(* Allocations are made from reduced and perhaps outdated copies of pods,  *)
(* and still for the ports that the pod they are recorded for asks for,    *)
(* its annotation before its containers: for any number of pods that come  *)
(* and go under a name, provided users do not edit annotations.            *)
THEOREM RequestedPorts == ~AnnotationsChange => (Spec => PortsAsRequested)
<1> SUFFICES ASSUME ~AnnotationsChange PROVE Spec => PortsAsRequested
  OBVIOUS
<1> DEFINE Asked == \A a \in AllocKeys : \A k \in PodKeys :
                      (/\ allocs[a] = None /\ allocs'[a] # None
                       /\ pods[k] # None /\ pods[k].uid = allocs'[a].uid)
                         => allocs'[a].ports = parseContainerPorts(pods[k])
<1>1. TypeOK /\ AgreeInv /\ [Next]_vars => [Asked]_vars
  BY AllocatesRequested
<1>2. TypeOK /\ TypeOK' /\ PodInv /\ AgreeInv /\ [Next]_vars => AgreeInv'
  BY AgreeNext
<1> HIDE DEF Asked
<1>3. Spec => [][Asked]_vars
  BY <1>1, <1>2, TypeInit, TypeNext, PodInvInit, PodInvNext, AgreeInit, PTL DEF Spec
<1> QED BY <1>3 DEF PortsAsRequested, Asked

-----------------------------------------------------------------------------
(* Direct reads, calls that do not fail: what was visited is released *)

(* A turn of the loop of handlePodDeletion that reaches the allocator.     *)
ReleaseTurn(w) ==
  LET a == AllocKey(Head(todo[w]), key[w])
  IN  /\ pc[w] = "release"
      /\ \/ Fault
         \/ allocs' = IF Releasable(AllocView, a, key[w]) THEN [allocs EXCEPT ![a] = None] ELSE allocs
      /\ todo'[w] = Tail(todo[w])
      /\ pc'[w] = IF Len(todo[w]) = 1 THEN "unpatch" ELSE "release"

(* A worker in handlePodDeletion stays where it is or takes such a turn.   *)
LEMMA ReleaseStep ==
  ASSUME TypeOK, [Next]_vars, NEW v \in Workers, pc'[v] \in Releasing,
         \A k \in PodKeys : ~Reconcile(v, k)
  PROVE  ReleaseTurn(v) \/ (pc'[v] = pc[v] /\ todo'[v] = todo[v])
<1> DEFINE Goal == ReleaseTurn(v) \/ (pc'[v] = pc[v] /\ todo'[v] = todo[v])
<1>0. pc \in [Workers -> PcValues] /\ todo \in [Workers -> Seq(Pools)]
  BY DEF TypeOK, LocalOK
<1>k. pc[v] \in Releasing /\ pc[v] # "idle" /\ pc'[v] # "idle"
  BY WorkerStep DEF Releasing
<1>o. ASSUME NEW w \in Workers, w # v, NEW x, NEW s, pc' = [pc EXCEPT ![w] = x],
             todo' = [todo EXCEPT ![w] = s]
      PROVE  Goal
  BY <1>0, <1>o
<1>f. ASSUME NEW w \in Workers, NEW failed, Finish(w, failed) PROVE Goal
  <2>1. w # v
    BY <1>0, <1>k, <1>f DEF Finish, Goto
  <2> QED BY <1>f, <1>o, <2>1 DEF Finish, Goto
<1>1. ASSUME NEW w \in Workers, Work(w) PROVE Goal
  <2>1. CASE ReleaseNext(w)
    <3>1. CASE Panics(w)
      BY <1>f, <3>1 DEF Panics
    <3>2. CASE ~Panics(w)
      <4> DEFINE a == AllocKey(Head(todo[w]), key[w])
                 to == IF Len(todo[w]) = 1 THEN "unpatch" ELSE "release"
      <4>1. /\ pc[w] = "release"
            /\ \/ Fault
               \/ allocs' = IF Releasable(AllocView, a, key[w]) THEN [allocs EXCEPT ![a] = None] ELSE allocs
            /\ todo' = [todo EXCEPT ![w] = Tail(todo[w])]
            /\ pc' = [pc EXCEPT ![w] = to]
        BY <2>1, <3>2 DEF ReleaseNext, Goto
      <4>2. CASE w = v
        <5>1. todo'[v] = Tail(todo[v]) /\ pc'[v] = to
          BY <1>0, <4>1, <4>2
        <5> QED BY <4>1, <4>2, <5>1 DEF ReleaseTurn
      <4>3. CASE w # v
        <5> HIDE DEF a, to
        <5> QED BY <1>o, <4>1, <4>3
      <4> QED BY <4>2, <4>3
    <3> QED BY <3>1, <3>2
  <2>2. CASE removeFinalizer(w) \/ ensureFinalizer(w) \/ GiveUp(w)
    BY <1>f, <2>2, FinalizerPatch DEF GiveUp
  <2>3. CASE CheckNext(w) \/ AllocateNext(w)
    <3>1. w # v
      BY <1>k, <2>3 DEF CheckNext, AllocateNext, Releasing
    <3>2. \/ \E failed : Finish(w, failed)
          \/ \E x, s : pc' = [pc EXCEPT ![w] = x] /\ todo' = [todo EXCEPT ![w] = s]
      BY <2>3 DEF CheckNext, AllocateNext, Panics, AfterPool, Goto
    <3> QED BY <1>f, <1>o, <3>1, <3>2
  <2> QED BY <1>1, <2>1, <2>2, <2>3 DEF Work
<1>2. ASSUME NEW w \in Workers, NEW k \in PodKeys, Dequeue(w, k) PROVE Goal
  <2>1. CASE Reconcile(w, k)
    <3>1. w # v
      BY <2>1
    <3> QED BY <1>o, <2>1, <3>1 DEF Reconcile, Goto
  <2>2. CASE ~Reconcile(w, k)
    BY <1>2, <2>2 DEF Dequeue, Skip, GetFails, Unparsable, vars, local
  <2> QED BY <2>1, <2>2
<1>3. CASE UNCHANGED local
  BY <1>3 DEF local
<1>4. CASE Crash
  BY <1>4, <1>k DEF Crash
<1> QED BY <1>1, <1>2, <1>3, <1>4, StepCases DEF DeliverPod

(* What a loop over a list has still to visit.                             *)
LEMMA HeadAndTail ==
  ASSUME NEW s \in Seq(Pools), s # << >>
  PROVE  /\ ToSet(s) \subseteq {Head(s)} \cup ToSet(Tail(s))
         /\ Len(s) = 1 => Tail(s) = << >>
         /\ ToSet(<< >>) = {}
<1>1. Len(s) \in Nat /\ Len(s) > 0 /\ Len(Tail(s)) = Len(s) - 1 /\ Tail(s) \in Seq(Pools)
  OBVIOUS
<1>2. ASSUME NEW i \in 1 .. Len(s), i # 1 PROVE i - 1 \in 1 .. Len(Tail(s)) /\ Tail(s)[i - 1] = s[i]
  BY <1>1, <1>2
<1>3. DOMAIN s = 1 .. Len(s) /\ DOMAIN Tail(s) = 1 .. Len(Tail(s)) /\ Head(s) = s[1]
  BY <1>1
<1>4. ASSUME NEW x \in ToSet(s) PROVE x \in {Head(s)} \cup ToSet(Tail(s))
  <2>1. PICK i \in 1 .. Len(s) : x = s[i]
    BY <1>3, <1>4 DEF ToSet
  <2>2. CASE i = 1
    BY <1>3, <2>1, <2>2
  <2>3. CASE i # 1
    BY <1>2, <1>3, <2>1, <2>3 DEF ToSet
  <2> QED BY <2>2, <2>3
<1>5. Len(s) = 1 => Tail(s) = << >>
  <2>1. \A t \in Seq(Pools) : Len(t) = 0 => t = << >>
    OBVIOUS
  <2>2. Len(s) = 1 => Len(Tail(s)) = 0
    BY <1>1
  <2> QED BY <1>1, <2>1, <2>2
<1>6. ToSet(<< >>) = {}
  BY DEF ToSet
<1> QED BY <1>4, <1>5, <1>6

(* The loop of handlePodDeletion leaves nothing behind it.                 *)
LEMMA ReleasedNext ==
  ASSUME ~CachedReads, MaxFaults = 0, TypeOK, TypeOK', PodInv, ReleasedInv, [Next]_vars
  PROVE  ReleasedInv'
<1> SUFFICES ASSUME NEW v \in Workers, pc'[v] \in Releasing
             PROVE  /\ pc'[v] = "unpatch" => todo'[v] = << >>
                    /\ \A p \in ToSet(parseNetworkPools(view'[v])) \ ToSet(todo'[v]) : ~Owned(p, key[v])'
  BY DEF ReleasedInv, Releasing
<1>1. ASSUME NEW k \in PodKeys, Reconcile(v, k)
      PROVE  /\ pc'[v] = "unpatch" => todo'[v] = << >>
             /\ \A p \in ToSet(parseNetworkPools(view'[v])) \ ToSet(todo'[v]) : ~Owned(p, key[v])'
  BY <1>1, Taken
<1>2. ASSUME \A k \in PodKeys : ~Reconcile(v, k)
      PROVE  /\ pc'[v] = "unpatch" => todo'[v] = << >>
             /\ \A p \in ToSet(parseNetworkPools(view'[v])) \ ToSet(todo'[v]) : ~Owned(p, key[v])'
  <2>1. pc[v] # "idle" /\ key'[v] = key[v] /\ view'[v] = view[v] /\ pc[v] \in Releasing
    BY <1>2, WorkerStep DEF Releasing
  <2>2. PICK k \in PodKeys : k = key[v] /\ k # None /\ k = key'[v]
    BY <2>1, AtWork DEF PodInv
  <2>3. \A p \in ToSet(parseNetworkPools(view[v])) : p \in Pools
    <3>1. parseNetworkPools(view[v]) \in Seq(Pools)
      BY <2>1, InHand, ParseType
    <3> QED BY <3>1 DEF ToSet
  <2>4. \A p \in Pools : ~Owned(p, k) => ~Owned(p, k)'
    <3>1. \A w \in Workers : ~AllocatedBy(w, k)
      BY <2>1, <2>2 DEF AllocatedBy, PodInv, Exclusive, Releasing
    <3> QED BY <3>1, StepAt DEF QuietAt, NoneNew, ChangedAt, RefreshedAt, PatchedBy, Owned
  <2>5. \A p \in ToSet(parseNetworkPools(view[v])) \ ToSet(todo[v]) : ~Owned(p, k)
    BY <2>1, <2>2 DEF ReleasedInv
  <2>6. CASE pc'[v] = pc[v] /\ todo'[v] = todo[v]
    <3>1. pc'[v] = "unpatch" => todo'[v] = << >>
      BY <2>6 DEF ReleasedInv
    <3>2. \A p \in ToSet(parseNetworkPools(view'[v])) \ ToSet(todo'[v]) : ~Owned(p, k)'
      BY <2>1, <2>3, <2>4, <2>5, <2>6
    <3> QED BY <2>2, <3>1, <3>2 DEF Owned
  <2>7. CASE ReleaseTurn(v)
    <3>1. todo[v] \in Seq(Pools) /\ todo[v] # << >> /\ Head(todo[v]) \in Pools
      BY <2>7, InHand DEF ReleaseTurn, TypeOK, LocalOK
    <3>2. /\ ToSet(todo[v]) \subseteq {Head(todo[v])} \cup ToSet(Tail(todo[v]))
          /\ Len(todo[v]) = 1 => Tail(todo[v]) = << >>
      BY <3>1, HeadAndTail
    <3>3. todo'[v] = Tail(todo[v]) /\ (pc'[v] = "unpatch" => todo'[v] = << >>)
      BY <2>7, <3>2 DEF ReleaseTurn
    <3>4. PICK q \in Pools : q = Head(todo[v])
      BY <3>1
    <3>5. ~Owned(q, k)'
      <4> DEFINE a == AllocKey(q, k)
      <4>1. ~Fault
        BY DEF Fault, TypeOK, CountersOK
      <4>2. allocs' = IF Releasable(allocs, a, k) THEN [allocs EXCEPT ![a] = None] ELSE allocs
        BY <2>2, <2>7, <3>4, <4>1 DEF ReleaseTurn, AllocView
      <4>3. a \in AllocKeys
        BY DEF AllocKey, AllocKeys
      <4>4. allocs'[a] = None \/ ~Releasable(allocs', a, k)
        <5> HIDE DEF a
        <5> QED BY <4>2, <4>3 DEF TypeOK, StoreOK
      <4> QED BY <4>4 DEF Owned, Releasable
    <3>6. ASSUME NEW p \in ToSet(parseNetworkPools(view'[v])) \ ToSet(todo'[v])
          PROVE  ~Owned(p, k)'
      <4>1. p \in Pools /\ (p = q \/ p \in ToSet(parseNetworkPools(view[v])) \ ToSet(todo[v]))
        BY <2>1, <2>3, <3>2, <3>3, <3>4
      <4> QED BY <2>4, <2>5, <3>5, <4>1
    <3> QED BY <2>2, <3>3, <3>6 DEF Owned
  <2> QED BY <1>2, <2>6, <2>7, ReleaseStep
<1> QED BY <1>1, <1>2

(* At first no pod is on its way out.                                      *)
LEMMA ReleasedInit == Init => ReleasedInv
BY DEF Init, ReleasedInv, Releasing

(* The finalizer leaves a pod only by the hand of a worker that has read   *)
(* this very pod, and read that it is being deleted.                       *)
LEMMA FinalizerTaken ==
  ASSUME TypeOK, PodInv, [Next]_vars, NEW k \in PodKeys,
         pods[k] # None, Apollo \in pods[k].fin,
         IF pods'[k] = None THEN TRUE ELSE Apollo \notin pods'[k].fin
  PROVE  \E w \in Workers : /\ PatchedBy(w, k) /\ pc[w] = "unpatch"
                             /\ pc[w] # "idle" /\ key[w] = k /\ pc[w] \in Releasing
                             /\ WorkerInv(w) /\ view[w].uid = pods[k].uid /\ pods[k].deleting
<1>1. PICK w \in Workers : PatchedBy(w, k) /\ pc[w] = "unpatch"
  <2>n. pods'[k] \in Pod => pods'[k] # None
    BY NoneAssumption
  <2>1. ~(pods'[k] = pods[k]) /\ ~ChangedAt(k)
    BY <2>n DEF ChangedAt
  <2>2. \E w \in Workers : PatchedBy(w, k)
    BY <2>1, PodsStep
  <2> QED BY <2>2, <2>n DEF PatchedBy
<1>2. pc[w] # "idle" /\ key[w] = k /\ pc[w] \in Releasing
  BY <1>1 DEF PatchedBy, Releasing
<1>3. WorkerInv(w)
  BY <1>2, AtWork DEF PodInv
<1>4. view[w].uid = pods[k].uid /\ pods[k].deleting
  BY <1>2, <1>3 DEF WorkerInv, CopyOK
<1> QED BY <1>1, <1>2, <1>3, <1>4

(* The finalizer never leaves a live pod, whatever outdated copy of the    *)
(* pod or of a predecessor a deletion works from: though the patch names   *)
(* no uid, it takes the finalizer only off the pod that was read, once it  *)
(* is being deleted.  No assumption is made: reads may be cached, calls    *)
(* fail, annotations change and the process restart.                       *)
THEOREM LiveKeeps == Spec => LiveKeepsFinalizer
<1> DEFINE Keeps == \A k \in PodKeys :
                      (/\ pods[k] # None /\ pods'[k] # None
                       /\ Apollo \in pods[k].fin /\ Apollo \notin pods'[k].fin)
                        => /\ pods[k].deleting
                           /\ \E w \in Workers : key[w] = k /\ view[w].uid = pods[k].uid
<1>1. TypeOK /\ PodInv /\ [Next]_vars => [Keeps]_vars
  BY FinalizerTaken
<1> HIDE DEF Keeps
<1>2. Spec => [][Keeps]_vars
  BY <1>1, TypeInit, TypeNext, PodInvInit, PodInvNext, PTL DEF Spec
<1> QED BY <1>2 DEF LiveKeepsFinalizer, Keeps

(* And the worker has released what the pod holds.                         *)
LEMMA FinalizerLeaves ==
  ASSUME TypeOK, PodInv, AgreeInv, ReleasedInv, [Next]_vars, NEW k \in PodKeys,
         pods[k] # None, Apollo \in pods[k].fin,
         IF pods'[k] = None THEN TRUE ELSE Apollo \notin pods'[k].fin,
         NEW p \in ToSet(parseNetworkPools(pods[k]))
  PROVE  ~Owned(p, k)
<1>1. PICK w \in Workers : /\ PatchedBy(w, k) /\ pc[w] = "unpatch"
                           /\ pc[w] # "idle" /\ key[w] = k /\ pc[w] \in Releasing
                           /\ view[w].uid = pods[k].uid
  BY FinalizerTaken
<1>2. Agrees(view[w])
  BY <1>1 DEF AgreeInv
<1>5. pods[k].ann = view[w].ann
  BY <1>1, <1>2 DEF Agrees
<1>6. parseNetworkPools(pods[k]) = parseNetworkPools(view[w])
  BY <1>5 DEF parseNetworkPools
<1>7. todo[w] = << >> /\ \A q \in ToSet(parseNetworkPools(view[w])) \ ToSet(todo[w]) : ~Owned(q, k)
  BY <1>1 DEF ReleasedInv
<1>8. ToSet(<< >>) = {}
  BY DEF ToSet
<1> QED BY <1>6, <1>7, <1>8

(* "Uses finalizer to ensure proper cleanup": when the finalizer leaves a  *)
(* pod, no allocation is left in the pools that the pod names, however     *)
(* outdated the copy was that the reconciler worked from and however often *)
(* pods of that name were recreated and the process restarted.  It takes   *)
(* direct reads, calls that do not fail and annotations that stay: the     *)
(* handler removes the finalizer whatever ReleasePort answers.             *)
THEOREM GuardedPorts ==
  ~CachedReads /\ MaxFaults = 0 /\ ~AnnotationsChange => (Spec => FinalizerGuardsPorts)
<1> SUFFICES ASSUME ~CachedReads, MaxFaults = 0, ~AnnotationsChange
             PROVE  Spec => FinalizerGuardsPorts
  OBVIOUS
<1> DEFINE Guarded == \A k \in PodKeys :
                        (/\ pods[k] # None /\ Apollo \in pods[k].fin
                         /\ (IF pods'[k] = None THEN TRUE ELSE Apollo \notin pods'[k].fin))
                          => \A p \in ToSet(parseNetworkPools(pods[k])) : ~Owned(p, k)
<1>1. TypeOK /\ PodInv /\ AgreeInv /\ ReleasedInv /\ [Next]_vars => [Guarded]_vars
  BY FinalizerLeaves
<1>2. TypeOK /\ TypeOK' /\ PodInv /\ AgreeInv /\ [Next]_vars => AgreeInv'
  BY AgreeNext
<1>3. TypeOK /\ TypeOK' /\ PodInv /\ ReleasedInv /\ [Next]_vars => ReleasedInv'
  BY ReleasedNext
<1> HIDE DEF Guarded
<1>4. Spec => [][Guarded]_vars
  BY <1>1, <1>2, <1>3, TypeInit, TypeNext, PodInvInit, PodInvNext, AgreeInit, ReleasedInit, PTL DEF Spec
<1> QED BY <1>4 DEF FinalizerGuardsPorts, Guarded
-----------------------------------------------------------------------------
(* Nothing leaks from pods that are deleted after they got the finalizer *)

(* A pod that handlePodAllocation serves while it is live.                 *)
Wants(pod) == shouldManagePod(pod) /\ PortsParse(pod) /\ parseNetworkPools(pod) # << >>

(* Nobody deletes a pod that still waits for its ports or the finalizer.   *)
DeletionsWait == \A k \in PodKeys : Unprotected(k) => ~DeletePod(k)

(* A copy c that makes a worker allocate for key k shows the pod that is   *)
(* there, and should that be on its way out the finalizer still holds it.  *)
CopyLive(c, k) ==
  ~c.deleting /\ Wants(c) => /\ pods[k] # None /\ pods[k].uid = c.uid
                             /\ pods[k].deleting => Apollo \in pods[k].fin

(* A worker allocates for a live pod, in pools which that pod names, and   *)
(* has seen no deletion that the cache has not.                            *)
HandLive(w) ==
  LET c == podCache[key[w]]
  IN  /\ CopyLive(view[w], key[w])
      /\ (c # None /\ c.uid = view[w].uid /\ view[w].deleting) => c.deleting
      /\ pc[w] \in Allocating =>
           /\ ~view[w].deleting /\ Wants(view[w])
           /\ ToSet(todo[w]) \subseteq ToSet(parseNetworkPools(view[w]))

LiveInv ==
  /\ \A k \in PodKeys : podCache[k] # None => CopyLive(podCache[k], k)
  /\ \A w \in Workers : pc[w] # "idle" => HandLive(w)

(* Every allocation has a pod that names its pool and cannot go without    *)
(* handlePodDeletion.                                                      *)
HeldInv ==
  \A k \in PodKeys : \A p \in Pools :
    Owned(p, k) => /\ pods[k] # None /\ Wants(pods[k])
                   /\ p \in ToSet(parseNetworkPools(pods[k]))
                   /\ pods[k].deleting => Apollo \in pods[k].fin

(* Copies that agree on annotations and declared ports want the same.      *)
LEMMA SameWants ==
  ASSUME NEW c, NEW d, c.ann = d.ann, c.spec = d.spec
  PROVE  Wants(c) = Wants(d) /\ parseNetworkPools(c) = parseNetworkPools(d)
BY DEF Wants, shouldManagePod, PortsParse, parseContainerPorts, parseNetworkPools

(* A pod that wants ports is not deleted before the finalizer is on it.    *)
LEMMA DeletedLate ==
  ASSUME DeletionsWait, NEW k \in PodKeys, DeletePod(k), Wants(pods[k])
  PROVE  Apollo \in pods[k].fin
BY DEF DeletionsWait, DeletePod, Unprotected, Wants

(* A worker that enters handlePodAllocation has read a pod that wants      *)
(* ports.                                                                  *)
LEMMA TakenWants ==
  ASSUME TypeOK, NEW w \in Workers, NEW k \in PodKeys, Reconcile(w, k), pc'[w] \in Allocating
  PROVE  Wants(podCache[k])
<1>1. pc \in [Workers -> PcValues]
  BY DEF TypeOK, LocalOK
<1>2. Route(podCache[k]) = "check"
  BY <1>1 DEF Reconcile, Goto, Allocating
<1> QED BY <1>2 DEF Route, DeletionRoute, AllocationRoute, Wants

(* What is left of a list was in it.                                       *)
LEMMA TailSet ==
  ASSUME NEW s \in Seq(Pools), s # << >>
  PROVE  ToSet(Tail(s)) \subseteq ToSet(s) /\ Head(s) \in ToSet(s)
<1>1. Len(s) \in Nat /\ Len(s) > 0 /\ Len(Tail(s)) = Len(s) - 1 /\ Tail(s) \in Seq(Pools)
  OBVIOUS
<1>2. ASSUME NEW i \in 1 .. Len(Tail(s)) PROVE i + 1 \in 1 .. Len(s) /\ Tail(s)[i] = s[i + 1]
  BY <1>1
<1>3. /\ DOMAIN s = 1 .. Len(s) /\ DOMAIN Tail(s) = 1 .. Len(Tail(s))
      /\ Head(s) = s[1] /\ 1 \in 1 .. Len(s)
  BY <1>1
<1> QED BY <1>2, <1>3 DEF ToSet

(* The loops of handlePodAllocation visit pools which the pod names.       *)
LEMMA AllocatingStep ==
  ASSUME TypeOK, [Next]_vars, NEW v \in Workers, pc'[v] \in Allocating,
         \A k \in PodKeys : ~Reconcile(v, k)
  PROVE  ToSet(todo'[v]) \subseteq ToSet(todo[v]) \cup ToSet(parseNetworkPools(view[v]))
<1> DEFINE Goal == ToSet(todo'[v]) \subseteq ToSet(todo[v]) \cup ToSet(parseNetworkPools(view[v]))
<1>0. pc \in [Workers -> PcValues] /\ todo \in [Workers -> Seq(Pools)]
  BY DEF TypeOK, LocalOK
<1>k. pc[v] # "idle" /\ pc'[v] # "idle" /\ pc[v] \notin Releasing
  BY WorkerStep DEF Allocating, Releasing
<1>o. ASSUME NEW w \in Workers, w # v, NEW s, todo' = [todo EXCEPT ![w] = s] PROVE Goal
  BY <1>0, <1>o
<1>f. ASSUME NEW w \in Workers, NEW failed, Finish(w, failed) PROVE Goal
  <2>1. w # v
    BY <1>0, <1>k, <1>f DEF Finish, Goto
  <2> QED BY <1>f, <1>o, <2>1 DEF Finish
<1>t. ASSUME NEW w \in Workers, pc[w] \in {"check", "alloc"},
             NEW s \in {Tail(todo[w]), parseNetworkPools(view[w])},
             todo' = [todo EXCEPT ![w] = s]
      PROVE  Goal
  <2>1. CASE w # v
    BY <1>o, <1>t, <2>1
  <2>2. CASE w = v
    <3>1. todo'[v] = s /\ todo[v] \in Seq(Pools) /\ todo[v] # << >>
      BY <1>0, <1>t, <2>2, InHand
    <3> QED BY <1>t, <2>2, <3>1, TailSet
  <2> QED BY <2>1, <2>2
<1>1. ASSUME NEW w \in Workers, Work(w) PROVE Goal
  <2>1. CASE ReleaseNext(w)
    <3>1. w # v
      BY <1>k, <2>1 DEF ReleaseNext, Releasing
    <3>2. (\E failed : Finish(w, failed)) \/ (\E s : todo' = [todo EXCEPT ![w] = s])
      BY <2>1 DEF ReleaseNext, Panics
    <3> QED BY <1>f, <1>o, <3>1, <3>2
  <2>2. CASE removeFinalizer(w) \/ ensureFinalizer(w) \/ GiveUp(w)
    BY <1>f, <2>2, FinalizerPatch DEF GiveUp
  <2>3. CASE CheckNext(w)
    <3>1. \/ \E failed : Finish(w, failed)
          \/ \E s \in {Tail(todo[w]), parseNetworkPools(view[w])} : todo' = [todo EXCEPT ![w] = s]
      BY <2>3 DEF CheckNext
    <3> QED BY <1>f, <1>t, <2>3, <3>1 DEF CheckNext
  <2>4. CASE AllocateNext(w)
    <3>1. (\E failed : Finish(w, failed)) \/ todo' = [todo EXCEPT ![w] = Tail(todo[w])]
      BY <2>4 DEF AllocateNext, Panics, AfterPool
    <3> QED BY <1>f, <1>t, <2>4, <3>1 DEF AllocateNext
  <2> QED BY <1>1, <2>1, <2>2, <2>3, <2>4 DEF Work
<1>2. ASSUME NEW w \in Workers, NEW k \in PodKeys, Dequeue(w, k) PROVE Goal
  <2>1. CASE Reconcile(w, k)
    <3>1. w # v
      BY <2>1
    <3> QED BY <1>o, <2>1, <3>1 DEF Reconcile
  <2>2. CASE ~Reconcile(w, k)
    BY <1>2, <2>2 DEF Dequeue, Skip, GetFails, Unparsable, vars, local
  <2> QED BY <2>1, <2>2
<1>3. CASE UNCHANGED local
  BY <1>3 DEF local
<1>4. CASE Crash
  BY <1>4, <1>k DEF Crash
<1> QED BY <1>1, <1>2, <1>3, <1>4, StepCases DEF DeliverPod

(* A copy stays one of the pod that is there, unless the finalizer leaves  *)
(* a pod on its way out under it.                                          *)
LEMMA CopyLiveKept ==
  ASSUME ~AnnotationsChange, TypeOK, [Next]_vars, DeletionsWait, NEW k \in PodKeys, NEW c \in Pod,
         Agrees(c), CopyLive(c, k),
         \A w \in Workers :
           (PatchedBy(w, k) /\ pc[w] = "unpatch" /\ ~c.deleting /\ Wants(c)) => ~pods[k].deleting
  PROVE  CopyLive(c, k)'
<1> SUFFICES ASSUME ~c.deleting, Wants(c)
             PROVE  /\ pods'[k] # None /\ pods'[k].uid = c.uid
                    /\ pods'[k].deleting => Apollo \in pods'[k].fin
  BY DEF CopyLive, Wants
<1>1. pods[k] # None /\ pods[k].uid = c.uid /\ (pods[k].deleting => Apollo \in pods[k].fin)
  BY DEF CopyLive
<1>2. Wants(pods[k])
  <2>1. pods[k].ann = c.ann /\ pods[k].spec = c.spec
    BY <1>1 DEF Agrees
  <2> QED BY <2>1, SameWants
<1>n. pods'[k] \in Pod => pods'[k] # None
  BY NoneAssumption
<1>3. CASE QuietAt(k) \/ RefreshedAt(k) \/ \E w \in Workers : AllocatedBy(w, k)
  BY <1>1, <1>3 DEF QuietAt, RefreshedAt, AllocatedBy
<1>4. CASE ChangedAt(k)
  BY <1>1, <1>2, <1>4, <1>n, DeletedLate DEF ChangedAt
<1>5. ASSUME NEW w \in Workers, PatchedBy(w, k)
      PROVE  /\ pods'[k] # None /\ pods'[k].uid = c.uid
             /\ pods'[k].deleting => Apollo \in pods'[k].fin
  BY <1>1, <1>5, <1>n DEF PatchedBy
<1> QED BY <1>3, <1>4, <1>5, StepAt

(* The finalizer leaves a pod only when the cache, too, has seen that the  *)
(* pod is on its way out.                                                  *)
LEMMA CacheKnows ==
  ASSUME TypeOK, PodInv, LiveInv, NEW k \in PodKeys, podCache[k] # None,
         NEW w \in Workers, key[w] = k, pc[w] = "unpatch",
         ~podCache[k].deleting, Wants(podCache[k])
  PROVE  ~pods[k].deleting
<1> SUFFICES ASSUME pods[k].deleting PROVE FALSE
  OBVIOUS
<1>1. pods[k] # None /\ pods[k].uid = podCache[k].uid /\ Apollo \in pods[k].fin
  BY DEF LiveInv, CopyLive
<1>2. pc[w] # "idle" /\ pc[w] \in Releasing
  BY DEF Releasing
<1>3. WorkerInv(w) /\ HandLive(w)
  BY <1>2, AtWork DEF PodInv, LiveInv
<1>4. view[w].deleting /\ Apollo \in view[w].fin /\ CopyOK(view[w], k)
  BY <1>2, <1>3 DEF WorkerInv
<1>5. view[w].uid = pods[k].uid
  BY <1>1, <1>4 DEF CopyOK
<1> QED BY <1>1, <1>3, <1>4, <1>5 DEF HandLive

(* What the informer and the workers take for live pods are live.          *)
LEMMA LiveNext ==
  ASSUME ~AnnotationsChange, TypeOK, TypeOK', PodInv, PodInv', AgreeInv, LiveInv, [Next]_vars,
         DeletionsWait
  PROVE  LiveInv'
<1>b. /\ \A k \in PodKeys : podCache[k] # None => podCache[k] \in Pod
      /\ \A w \in Workers : pc[w] # "idle" => view[w] \in Pod
  BY CopiesBorn
<1>1. ASSUME NEW k \in PodKeys, podCache'[k] # None PROVE CopyLive(podCache[k], k)'
  <2>1. CASE podCache'[k] = podCache[k]
    <3>1. PICK c \in Pod : c = podCache[k] /\ c = podCache'[k]
      BY <1>1, <1>b, <2>1
    <3>2. podCache[k] # None
      BY <1>1, <2>1
    <3>3. Agrees(c) /\ CopyLive(c, k)
      BY <3>1, <3>2 DEF AgreeInv, LiveInv
    <3>4. ASSUME NEW w \in Workers, PatchedBy(w, k), pc[w] = "unpatch", ~c.deleting, Wants(c)
          PROVE  ~pods[k].deleting
      BY <3>1, <3>2, <3>4, CacheKnows DEF PatchedBy
    <3>5. CopyLive(c, k)'
      BY <3>3, <3>4, CopyLiveKept
    <3> QED BY <3>1, <3>5 DEF CopyLive, Wants
  <2>2. CASE RefreshedAt(k)
    <3>1. pods[k] \in Pod \cup {None}
      BY DEF TypeOK, ClusterOK
    <3>2. /\ pods[k] # None /\ pods' = pods
          /\ podCache'[k].uid = pods[k].uid /\ podCache'[k].deleting = pods[k].deleting
      BY <1>1, <2>2, <3>1, TransformKeeps DEF RefreshedAt
    <3> QED BY <3>2 DEF CopyLive
  <2>3. RefreshedAt(k) \/ podCache'[k] = podCache[k]
    BY StepAt DEF QuietAt, ChangedAt, RefreshedAt, PatchedBy, AllocatedBy
  <2> QED BY <2>1, <2>2, <2>3
<1>2. ASSUME NEW v \in Workers, NEW k \in PodKeys, Reconcile(v, k) PROVE HandLive(v)'
  <2>1. /\ podCache'[k] # None /\ view'[v] = podCache'[k] /\ key'[v] = k
        /\ podCache'[k] = podCache[k] /\ todo'[v] = parseNetworkPools(podCache'[k])
        /\ pc'[v] \in Allocating => ~podCache'[k].deleting
    BY <1>2, Taken
  <2>2. CopyLive(podCache[k], k)'
    BY <1>1, <2>1
  <2>3. pc'[v] \in Allocating => Wants(podCache'[k])
    BY <1>2, <2>1, TakenWants
  <2> QED BY <2>1, <2>2, <2>3 DEF HandLive, CopyLive, Wants
<1>3. ASSUME NEW v \in Workers, pc'[v] # "idle", \A k \in PodKeys : ~Reconcile(v, k)
      PROVE  HandLive(v)'
  <2>1. /\ pc[v] # "idle" /\ key'[v] = key[v] /\ view'[v] = view[v]
        /\ pc'[v] \in Allocating => pc[v] \in Allocating
    BY <1>3, WorkerStep
  <2>2. PICK c \in Pod : c = view[v] /\ c = view'[v]
    BY <1>b, <2>1
  <2>3. PICK k \in PodKeys : k = key[v] /\ k # None /\ k = key'[v]
    BY <2>1, AtWork DEF PodInv
  <2>4. Agrees(c) /\ CopyLive(c, k) /\ HandLive(v)
    BY <2>1, <2>2, <2>3 DEF AgreeInv, LiveInv, HandLive
  <2>5. CopyLive(c, k)'
    <3>1. ASSUME NEW w \in Workers, PatchedBy(w, k) PROVE FALSE
      <4>1. w = v /\ pc'[w] = "idle"
        BY <2>3, <3>1 DEF PatchedBy, PodInv, Exclusive
      <4> QED BY <1>3, <4>1
    <3> QED BY <2>4, <3>1, CopyLiveKept
  <2>6. ASSUME podCache'[k] # None, podCache'[k].uid = c.uid, c.deleting
        PROVE  podCache'[k].deleting
    <3>1. CASE podCache'[k] = podCache[k]
      BY <2>2, <2>3, <2>4, <2>6, <3>1 DEF HandLive
    <3>2. CASE RefreshedAt(k)
      <4>1. pods[k] \in Pod \cup {None}
        BY DEF TypeOK, ClusterOK
      <4>2. /\ pods[k] # None /\ podCache'[k].uid = pods[k].uid
            /\ podCache'[k].deleting = pods[k].deleting
        BY <2>6, <3>2, <4>1, TransformKeeps DEF RefreshedAt
      <4>3. CopyOK(c, k)
        BY <2>1, <2>2, <2>3, AtWork DEF PodInv, WorkerInv
      <4> QED BY <2>6, <4>2, <4>3 DEF CopyOK
    <3>3. RefreshedAt(k) \/ podCache'[k] = podCache[k]
      BY StepAt DEF QuietAt, ChangedAt, RefreshedAt, PatchedBy, AllocatedBy
    <3> QED BY <3>1, <3>2, <3>3
  <2>7. ASSUME pc'[v] \in Allocating
        PROVE  ~c.deleting /\ Wants(c) /\ ToSet(todo'[v]) \subseteq ToSet(parseNetworkPools(c))
    <3>1. ~c.deleting /\ Wants(c) /\ ToSet(todo[v]) \subseteq ToSet(parseNetworkPools(c))
      BY <2>1, <2>2, <2>4, <2>7 DEF HandLive
    <3> QED BY <1>3, <2>2, <2>7, <3>1, AllocatingStep
  <2> QED BY <2>2, <2>3, <2>5, <2>6, <2>7 DEF HandLive, CopyLive, Wants
<1> QED BY <1>1, <1>2, <1>3 DEF LiveInv

(* An allocation is made for a pod that can be cleaned up, and stays with  *)
(* it until it is.                                                         *)
LEMMA HeldNext ==
  ASSUME ~AnnotationsChange, TypeOK, PodInv, AgreeInv, ReleasedInv, LiveInv, HeldInv, [Next]_vars,
         DeletionsWait
  PROVE  HeldInv'
<1> SUFFICES ASSUME NEW k \in PodKeys, NEW p \in Pools, Owned(p, k)'
             PROVE  /\ pods'[k] # None /\ Wants(pods'[k])
                    /\ p \in ToSet(parseNetworkPools(pods'[k]))
                    /\ pods'[k].deleting => Apollo \in pods'[k].fin
  BY DEF HeldInv, Wants
<1> DEFINE Held(pod) == /\ pod # None /\ Wants(pod) /\ p \in ToSet(parseNetworkPools(pod))
                        /\ pod.deleting => Apollo \in pod.fin
<1>n. pods'[k] \in Pod => pods'[k] # None
  BY NoneAssumption
<1>h. Owned(p, k) => Held(pods[k])
  BY DEF HeldInv
<1>s. ASSUME pods'[k].ann = pods[k].ann, pods'[k].spec = pods[k].spec, Held(pods[k])
      PROVE  Wants(pods'[k]) /\ p \in ToSet(parseNetworkPools(pods'[k]))
  BY <1>s, SameWants
<1>1. CASE QuietAt(k) \/ RefreshedAt(k)
  <2>1. pods'[k] = pods[k] /\ Owned(p, k)
    BY <1>1 DEF QuietAt, NoneNew, RefreshedAt, Owned
  <2> QED BY <1>h, <2>1
<1>2. CASE ChangedAt(k)
  <2>1. Owned(p, k)
    BY <1>2 DEF ChangedAt, Owned
  <2>2. /\ pods'[k] # None /\ pods'[k].ann = pods[k].ann /\ pods'[k].spec = pods[k].spec
        /\ pods'[k].deleting => pods[k].deleting \/ DeletePod(k)
        /\ Apollo \in pods'[k].fin <=> Apollo \in pods[k].fin
    BY <1>2, <1>h, <1>n, <2>1 DEF ChangedAt
  <2>3. pods'[k].deleting => Apollo \in pods'[k].fin
    BY <1>h, <2>1, <2>2, DeletedLate
  <2> QED BY <1>h, <1>s, <2>1, <2>2, <2>3
<1>3. ASSUME NEW w \in Workers, PatchedBy(w, k) PROVE Held(pods'[k])
  <2>1. Owned(p, k)
    BY <1>3 DEF PatchedBy, Owned
  <2>2. /\ pods'[k] # None /\ pods'[k].ann = pods[k].ann /\ pods'[k].spec = pods[k].spec
        /\ pods'[k].deleting = pods[k].deleting
    BY <1>3, <1>n DEF PatchedBy
  <2>3. ASSUME pods'[k].deleting, Apollo \notin pods'[k].fin PROVE FALSE
    <3>1. pods[k] # None /\ Apollo \in pods[k].fin /\ p \in ToSet(parseNetworkPools(pods[k]))
      BY <1>h, <2>1, <2>2, <2>3
    <3> QED BY <2>1, <2>3, <3>1, FinalizerLeaves
  <2> QED BY <1>h, <1>s, <2>1, <2>2, <2>3
<1>4. ASSUME NEW w \in Workers, AllocatedBy(w, k) PROVE Held(pods'[k])
  <2>1. pods'[k] = pods[k] /\ pc[w] = "alloc" /\ key[w] = k
    BY <1>4 DEF AllocatedBy
  <2>2. CASE Owned(p, k)
    BY <1>h, <2>1, <2>2
  <2>3. CASE ~Owned(p, k)
    <3>1. p = Head(todo[w])
      BY <1>4, <2>3 DEF AllocatedBy
    <3>2. HandLive(w) /\ Agrees(view[w])
      BY <2>1 DEF LiveInv, AgreeInv
    <3>3. p \in ToSet(todo[w])
      BY <2>1, <3>1, InHand, TailSet DEF TypeOK, LocalOK
    <3>4. ~view[w].deleting /\ Wants(view[w]) /\ p \in ToSet(parseNetworkPools(view[w]))
      BY <2>1, <3>2, <3>3 DEF HandLive, Allocating
    <3>5. /\ pods[k] # None /\ pods[k].uid = view[w].uid
          /\ pods[k].deleting => Apollo \in pods[k].fin
      BY <2>1, <3>2, <3>4 DEF HandLive, CopyLive
    <3>6. pods[k].ann = view[w].ann /\ pods[k].spec = view[w].spec
      BY <3>2, <3>5 DEF Agrees
    <3>7. Wants(pods[k]) /\ p \in ToSet(parseNetworkPools(pods[k]))
      BY <3>4, <3>6, SameWants
    <3> QED BY <2>1, <3>5, <3>7
  <2> QED BY <2>2, <2>3
<1> QED BY <1>1, <1>2, <1>3, <1>4, StepAt

(* A step that changes nothing deletes no pod.                             *)
LEMMA StutterWaits ==
  ASSUME TypeOK, UNCHANGED vars
  PROVE  DeletionsWait
<1> SUFFICES ASSUME NEW k \in PodKeys, DeletePod(k) PROVE FALSE
  BY DEF DeletionsWait
<1>1. pods[k] \in Pod /\ ~pods[k].deleting /\ pods' = pods
  BY DEF DeletePod, TypeOK, ClusterOK, vars, cluster
<1>2. pods'[k] = [pods[k] EXCEPT !.deleting = TRUE]
  BY DEF DeletePod, TypeOK, ClusterOK
<1> QED BY <1>1, <1>2, PodFields

(* Pods that are deleted only after they got the finalizer leave no        *)
(* allocation behind, whatever restarts, successors of the same name,      *)
(* outdated copies and finalizers of other controllers there are: every    *)
(* allocation then has a pod that names its pool.  So with direct reads,   *)
(* calls that do not fail and annotations that stay, an allocation leaks   *)
(* only through a deletion that comes before the finalizer.                *)
THEOREM LeakNeedsRace ==
  ~CachedReads /\ MaxFaults = 0 /\ ~AnnotationsChange
    => (Spec /\ [][DeletionsWait]_vars => []NoLeak)
<1> SUFFICES ASSUME ~CachedReads, MaxFaults = 0, ~AnnotationsChange
             PROVE  Spec /\ [][DeletionsWait]_vars => []NoLeak
  OBVIOUS
<1> DEFINE LeakInv == AgreeInv /\ ReleasedInv /\ LiveInv /\ HeldInv
<1>1. Init => LeakInv
  <2> SUFFICES ASSUME Init PROVE LiveInv /\ HeldInv
    BY AgreeInit, ReleasedInit
  <2>1. LiveInv
    BY DEF Init, LiveInv
  <2>2. HeldInv
    <3> SUFFICES ASSUME NEW k \in PodKeys, NEW p \in Pools PROVE ~Owned(p, k)
      BY DEF HeldInv
    <3>1. AllocKey(p, k) \in AllocKeys
      BY DEF AllocKey, AllocKeys
    <3> QED BY <3>1 DEF Init, Owned
  <2> QED BY <2>1, <2>2
<1>2. TypeOK /\ TypeOK' /\ PodInv /\ PodInv' /\ LeakInv /\ [Next]_vars /\ [DeletionsWait]_vars
        => LeakInv'
  BY AgreeNext, ReleasedNext, LiveNext, HeldNext, StutterWaits
<1>3. LeakInv => NoLeak
  BY DEF HeldInv, NoLeak
<1> HIDE DEF LeakInv
<1> QED BY <1>1, <1>2, <1>3, TypeInit, TypeNext, PodInvInit, PodInvNext, PTL DEF Spec
=============================================================================
