------------------------ MODULE MCSequentialAllocator ------------------------
(* Instances of SequentialAllocator: 4-bit integers (MaxInt = 7), ranges   *)
(* that touch and cross their limits or are inverted, a little and so far  *)
(* that their size wraps around, excluded lists that repeat a port, leave  *)
(* the range or hit a port already handed out, and buffers of any sign.    *)
EXTENDS SequentialAllocator

S(lbs, min, max, excluded) ==
  [lbs |-> lbs, min |-> min, max |-> max, excluded |-> excluded]

EdgeSpecs ==
  {S(<<"x">>, r[1], r[2], e) :
     r \in {<<1, 3>>, <<4, 7>>, <<0, 7>>, <<-8, 7>>, <<3, 2>>, <<6, -8>>},
     e \in {<<>>, <<2>>, <<5, 5>>, <<-8, 7, 6>>}}
  \cup {S(<<>>, 1, 3, <<>>), S(<<"x", "y">>, 4, 7, <<5, 5>>)}

(* The edges, and rotations over more load balancers with fewer ports. *)
SelectionSpecs ==
  EdgeSpecs \cup {S(<<"x", "y", "z">>, 1, 2, <<>>), S(<<"z", "x">>, 1, 3, <<2>>)}

PrewarmConfigs ==
  {[enabled |-> FALSE, bufferSize |-> 2]}
    \cup {[enabled |-> TRUE, bufferSize |-> b] : b \in {-8, -2, 1, 7}}
=============================================================================
