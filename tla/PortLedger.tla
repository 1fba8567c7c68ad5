----------------------------- MODULE PortLedger -----------------------------
(***************************************************************************)
(* What the allocator promises, without callers, mutexes, retries or an    *)
(* API server: a ledger of slots (ports that a pool hands out).  A holder  *)
(* is granted slots nobody holds, all at once; it keeps exactly these      *)
(* until all of them are revoked, again at once.                           *)
(***************************************************************************)
EXTENDS Integers

CONSTANTS Holders, Slots

VARIABLE held    \* the slots of each holder

Init == held = [h \in Holders |-> {}]

OthersKeep(h) == \A g \in Holders \ {h} : held'[g] = held[g]

Grant(h) == /\ held' \in [Holders -> SUBSET Slots]
            /\ held[h] = {}
            /\ \A g \in Holders \ {h} : held'[h] \cap held[g] = {}
            /\ OthersKeep(h)

Revoke(h) == /\ held' \in [Holders -> SUBSET Slots]
             /\ held'[h] = {}
             /\ OthersKeep(h)

Next == \E h \in Holders : Grant(h) \/ Revoke(h)

Spec == Init /\ [][Next]_held

(* No slot is in two hands. *)
Exclusive == \A g, h \in Holders : g # h => held[g] \cap held[h] = {}
=============================================================================
