--------------------------- MODULE MCPoolAllocator ---------------------------
(* Instances of PoolAllocator: pools, their versions and the calls made.   *)
EXTENDS PoolAllocator, TLC

(* The workers run the same code. *)
Symmetry == Permutations(Workers)

PSpec(lbs, min, max, excluded) ==
  [lbs |-> lbs, min |-> min, max |-> max, excluded |-> excluded]
Req(pool, ns, pod, podNs, ports) ==
  [pool |-> pool, ns |-> ns, pod |-> pod, podNs |-> podNs, ports |-> ports]

(* All workers in one manager, or each in its own. *)
OneManager == [w \in Workers |-> "manager"]
TwoManagers == [w \in Workers |-> w]

OneLB == {"x"}
TwoLBs == {"x", "y"}

OnePool == {<<"a">>}
(* Two pools that make an object of one name: pod "b-u" and pod "u". *)
TwoPools == {<<"a">>, <<"a", "b">>}

(* Two versions that disagree on load balancers, range and exclusions. *)
EditedSpecs ==
  [p \in OnePool |-> {PSpec(<<"x">>, 1, 3, <<2>>), PSpec(<<"y", "x">>, 2, 3, <<>>)}]
OnePortSpec == [p \in OnePool |-> {PSpec(<<"x">>, 1, 1, <<>>)}]
TwoPortSpec == [p \in OnePool |-> {PSpec(<<"x">>, 1, 2, <<>>)}]
BalancedSpecs == [p \in TwoPools |-> {PSpec(<<"x", "y">>, 1, 3, <<>>)}]

(* Pool "a" as the pod controller uses it, cluster-scoped: two pods of the *)
(* same name in two namespaces, and one that asks for no port.             *)
ClusterRequests == {Req(<<"a">>, "", <<"u">>, "n1", <<80>>),
                    Req(<<"a">>, "", <<"u">>, "n2", << >>),
                    Req(<<"a">>, "", <<"v">>, "n1", <<80, 81>>)}

(* Pools as the tests of the allocator use them, in namespace "default". *)
Unit(p, s) == Req(p, "default", s, "default", <<80>>)
TwoPoolRequests == {Unit(<<"a">>, <<"b", "u">>), Unit(<<"a">>, <<"v">>),
                    Unit(<<"a", "b">>, <<"u">>)}
UnitRequests == {Unit(<<"a">>, <<s>>) : s \in {"u", "v", "z"}}
FourRequests == {Unit(<<"a">>, <<s>>) : s \in {"t", "u", "v", "z"}}
=============================================================================
