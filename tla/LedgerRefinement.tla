-------------------------- MODULE LedgerRefinement --------------------------
(***************************************************************************)
(* PoolAllocator implements PortLedger: with direct reads and one manager  *)
(* process every step of the callers, the API server and the environment   *)
(* is a grant, a revocation, or no change of the ledger.                   *)
(***************************************************************************)
EXTENDS PoolAllocatorProofs

(* What a step may do to the stored objects: nothing, add one, remove one, *)
(* or mark one as being deleted.                                           *)
Removed(k) == allocs' = [allocs EXCEPT ![k] = None]
Marked(k) == /\ allocs[k] # None
             /\ allocs' = [allocs EXCEPT ![k] = [allocs[k] EXCEPT !.deleting = TRUE]]

(* A delete removes or marks the object, or finds nothing to do.           *)
LEMMA DeleteEffect ==
  ASSUME NEW k \in Keys, Delete(k) \/ Write(k, None)
  PROVE  UNCHANGED allocs \/ Removed(k) \/ Marked(k)
<1>1. CASE Write(k, None)
  BY <1>1 DEF Write, Removed
<1>2. CASE Delete(k) /\ (allocs[k] = None \/ allocs[k].deleting)
  BY <1>2 DEF Delete, store
<1>3. CASE Delete(k) /\ ~(allocs[k] = None \/ allocs[k].deleting)
  <2>1. Write(k, IF OtherFinalizers THEN [allocs[k] EXCEPT !.deleting = TRUE] ELSE None)
    BY <1>3 DEF Delete
  <2>2. CASE OtherFinalizers
    BY <1>3, <2>1, <2>2 DEF Write, Marked
  <2>3. CASE ~OtherFinalizers
    BY <2>1, <2>3 DEF Write, Removed
  <2> QED BY <2>2, <2>3
<1> QED BY <1>1, <1>2, <1>3

(* A step touches at most one object.                                      *)
LEMMA StoreStep ==
  ASSUME TypeOK, [Next]_vars
  PROVE  \/ UNCHANGED allocs
         \/ \E w \in Workers : CreateSucceeds(w)
         \/ \E k \in Keys : Removed(k) \/ Marked(k)
<1> DEFINE Goal == \/ UNCHANGED allocs
                   \/ \E w \in Workers : CreateSucceeds(w)
                   \/ \E k \in Keys : Removed(k) \/ Marked(k)
<1>1. ASSUME NEW w \in Workers, DeleteAllocation(w) PROVE Goal
  <2>1. ReleaseKey(req[w]) \in Keys
    BY <1>1, InCall, KeyTypes DEF DeleteAllocation, Step
  <2>2. Delete(ReleaseKey(req[w])) \/ UNCHANGED allocs
    BY <1>1 DEF DeleteAllocation, store
  <2> QED BY <2>1, <2>2, DeleteEffect
<1>2. ASSUME NEW k \in Keys, ExternalDelete(k) \/ FinalizerDone(k) PROVE Goal
  BY <1>2, DeleteEffect DEF ExternalDelete, FinalizerDone
<1>3. ASSUME NEW w \in Workers, Call(w) \/ Lock(w) PROVE Goal
  BY <1>3 DEF Call, CallAllocate, CallRelease, Lock, store
<1>4. ASSUME NEW w \in Workers, Work(w), ~DeleteAllocation(w), ~CreateSucceeds(w) PROVE Goal
  BY <1>4 DEF Work, checkForDuplicateAllocation, FetchPool, ListAndSelect, GetExisting,
              CreateFails, CreateConflicts, ReadFails, GetForRelease, Unlock, store
<1>5. ASSUME (\E i \in Processes : DeliverWatch(i) \/ Crash(i) \/ \E p \in Pools : DeliverPool(i, p))
               \/ (\E p \in Pools : \E s \in PoolSpecs[p] \cup {None} : ChangePool(p, s))
      PROVE  Goal
  BY <1>5 DEF DeliverWatch, Crash, DeliverPool, ChangePool, store
<1>6. CASE UNCHANGED vars
  BY <1>6 DEF vars, store
<1> QED BY <1>1, <1>2, <1>3, <1>4, <1>5, <1>6 DEF Next, Environment

-----------------------------------------------------------------------------
Held == [k \in Keys |-> SlotsOf(k)]

(* Every key holds slots of the ledger.                                    *)
LEMMA HeldType == TypeOK => Held \in [Keys -> SUBSET (Pools \X LBs \X Int)]
<1> SUFFICES ASSUME TypeOK, NEW k \in Keys PROVE SlotsOf(k) \subseteq Pools \X LBs \X Int
  BY DEF Held
<1>1. CASE allocs[k] = None
  BY <1>1 DEF SlotsOf
<1>2. CASE allocs[k] # None
  <2>1. allocs[k] \in PortAllocation
    BY <1>2 DEF TypeOK, StoreOK
  <2>2. allocs[k].pool \in Pools /\ allocs[k].bindings \in Seq(Binding)
    BY <2>1 DEF PortAllocation
  <2>3. \A i \in DOMAIN allocs[k].bindings :
          /\ allocs[k].bindings[i].lb \in LBs
          /\ allocs[k].bindings[i].lbPort \in Int
    <3>1. \A i \in DOMAIN allocs[k].bindings : allocs[k].bindings[i] \in Binding
      BY <2>2
    <3> QED BY <3>1 DEF Binding
  <2>4. \A i \in DOMAIN allocs[k].bindings :
          <<allocs[k].pool, allocs[k].bindings[i].lb, allocs[k].bindings[i].lbPort>>
            \in Pools \X LBs \X Int
    BY <2>2, <2>3
  <2> QED BY <1>2, <2>4 DEF SlotsOf
<1> QED BY <1>1, <1>2

(* Keys whose object stays as it is hold what they held.                   *)
LEMMA SameSlots ==
  ASSUME NEW k \in Keys, allocs'[k] = allocs[k]
  PROVE  SlotsOf(k)' = SlotsOf(k)
BY DEF SlotsOf

(* Objects without a common binding in their pool hold no common slot.     *)
LEMMA DisjointSlots ==
  ASSUME TypeOK, NEW w \in Workers, CreateSucceeds(w), DraftOK(w),
         NEW h \in Keys, h = CreateKey(req[w]), NEW g \in Keys \ {h}
  PROVE  SlotsOf(h)' \cap SlotsOf(g) = {}
<1>1. /\ h \in Keys /\ allocs' = [allocs EXCEPT ![h] = draft[w]]
      /\ draft[w] # None
  BY Created
<1>2. allocs'[h] = draft[w]
  BY <1>1 DEF TypeOK, StoreOK
<1>3. SUFFICES ASSUME NEW s \in SlotsOf(h)', s \in SlotsOf(g) PROVE FALSE
  OBVIOUS
<1>4. PICK i \in DOMAIN draft[w].bindings :
        s = <<draft[w].pool, draft[w].bindings[i].lb, draft[w].bindings[i].lbPort>>
  BY <1>1, <1>2, <1>3 DEF SlotsOf
<1>5. allocs[g] # None
  BY <1>3 DEF SlotsOf
<1>6. PICK j \in DOMAIN allocs[g].bindings :
        s = <<allocs[g].pool, allocs[g].bindings[j].lb, allocs[g].bindings[j].lbPort>>
  BY <1>3, <1>5 DEF SlotsOf
<1>7. Disjoint(allocs[g].bindings, draft[w].bindings)
  BY <1>4, <1>5, <1>6 DEF DraftOK
<1> QED BY <1>4, <1>6, <1>7 DEF Disjoint, SameSlot

(* A Create is a grant.                                                    *)
LEMMA CreateGrants ==
  ASSUME TypeOK, Held' \in [Keys -> SUBSET (Pools \X LBs \X Int)],
         NEW w \in Workers, CreateSucceeds(w), DraftOK(w)
  PROVE  Ledger!Grant(CreateKey(req[w]))
<1>0. PICK h \in Keys : h = CreateKey(req[w])
  BY Created
<1>1. /\ h \in Keys /\ allocs[h] = None /\ allocs' = [allocs EXCEPT ![h] = draft[w]]
  BY <1>0, Created
<1>2. Held[h] = {}
  BY <1>1 DEF Held, SlotsOf
<1>3. \A g \in Keys \ {h} : Held'[h] \cap Held[g] = {}
  BY <1>0, DisjointSlots DEF Held
<1>4. \A g \in Keys \ {h} : Held'[g] = Held[g]
  BY <1>1, SameSlots DEF Held, TypeOK, StoreOK
<1> QED BY <1>0, <1>2, <1>3, <1>4 DEF Ledger!Grant, Ledger!OthersKeep, Held

(* The removal of an object is a revocation.                               *)
LEMMA RemovalRevokes ==
  ASSUME TypeOK, Held' \in [Keys -> SUBSET (Pools \X LBs \X Int)],
         NEW k \in Keys, Removed(k)
  PROVE  Ledger!Revoke(k)
<1>1. allocs'[k] = None /\ \A g \in Keys \ {k} : allocs'[g] = allocs[g]
  BY DEF Removed, TypeOK, StoreOK
<1>2. Held'[k] = {}
  BY <1>1 DEF Held, SlotsOf
<1>3. \A g \in Keys \ {k} : Held'[g] = Held[g]
  BY <1>1, SameSlots DEF Held
<1> QED BY <1>2, <1>3 DEF Ledger!Revoke, Ledger!OthersKeep, Held

(* An object that is being deleted holds its slots until it is gone.       *)
LEMMA MarkedHolds ==
  ASSUME TypeOK, NEW k \in Keys, Marked(k)
  PROVE  Held' = Held
<1>1. allocs[k] \in PortAllocation
  BY DEF Marked, TypeOK, StoreOK
<1> DEFINE marked == [allocs[k] EXCEPT !.deleting = TRUE]
<1>m. /\ marked \in PortAllocation
      /\ marked.pool = allocs[k].pool /\ marked.bindings = allocs[k].bindings
  BY <1>1 DEF PortAllocation
<1> HIDE DEF marked
<1>0. allocs[k] # None /\ allocs' = [allocs EXCEPT ![k] = marked]
  BY DEF Marked, marked
<1>2. allocs'[k] = marked /\ \A g \in Keys \ {k} : allocs'[g] = allocs[g]
  BY <1>0 DEF TypeOK, StoreOK
<1>3. /\ allocs'[k].pool = allocs[k].pool
      /\ allocs'[k].bindings = allocs[k].bindings
      /\ allocs[k] # None
  BY <1>m, <1>0, <1>2
<1>4. allocs'[k] # None
  BY <1>m, <1>2, NoneAssumption
<1>5. SlotsOf(k)' = SlotsOf(k)
  BY <1>3, <1>4 DEF SlotsOf
<1>6. \A g \in Keys : SlotsOf(g)' = SlotsOf(g)
  BY <1>2, <1>5, SameSlots
<1> QED BY <1>6 DEF Held

(* Every step of the allocator is a step of the ledger or changes nothing  *)
(* in it.                                                                  *)
LEMMA LedgerStep ==
  ASSUME IInv, TypeOK', [Next]_vars
  PROVE  [Ledger!Next]_Held
<1>0. TypeOK /\ DraftInv
  BY DEF IInv
<1>1. (Held \in [Keys -> SUBSET (Pools \X LBs \X Int)])'
  BY HeldType, PTL
<1>2. CASE UNCHANGED allocs
  BY <1>2 DEF Held, SlotsOf
<1>3. ASSUME NEW w \in Workers, CreateSucceeds(w) PROVE Ledger!Next
  <2>1. pc[w] = "create"
    BY <1>3 DEF CreateSucceeds, Step
  <2>2. DraftOK(w) /\ CreateKey(req[w]) \in Keys
    BY <1>0, <1>3, <2>1, Created DEF DraftInv
  <2> QED BY <1>0, <1>1, <1>3, <2>2, CreateGrants DEF Ledger!Next
<1>4. ASSUME NEW k \in Keys, Removed(k) PROVE Ledger!Next
  BY <1>0, <1>1, <1>4, RemovalRevokes DEF Ledger!Next
<1>5. ASSUME NEW k \in Keys, Marked(k) PROVE Held' = Held
  BY <1>0, <1>5, MarkedHolds
<1> QED BY <1>0, <1>2, <1>3, <1>4, <1>5, StoreStep

(* AllocatePort and ReleasePort change the ownership of ports only by      *)
(* granting free ports of a pool to a new allocation, all at once, or by   *)
(* giving back all the ports of one: with direct reads and one manager,    *)
(* through every interleaving of callers, failed and retried creates,      *)
(* crashes, finalizers, foreign deletions and edits of pools.              *)
THEOREM Refinement == ~CachedReads /\ OneProcess => (Spec => ImplementsLedger)
<1> SUFFICES ASSUME ~CachedReads, OneProcess PROVE Spec => ImplementsLedger
  OBVIOUS
<1>1. Init => Ledger!Init
  BY DEF Init, Ledger!Init, SlotsOf
<1>2. IInv /\ IInv' /\ [Next]_vars => [Ledger!Next]_Held
  <2>1. IInv' => TypeOK'
    BY DEF IInv
  <2> QED BY <2>1, LedgerStep
<1>3. Spec => []IInv
  BY Inductive
<1> QED BY <1>1, <1>2, <1>3, PTL DEF Spec, ImplementsLedger, Ledger!Spec, Held
=============================================================================
