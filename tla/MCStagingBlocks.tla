-------------------------- MODULE MCStagingBlocks --------------------------
(***************************************************************************)
(* Instances of StagingBlocks for TLC.  One Stacks block, s1, won the      *)
(* sortitions of two burn forks, a and b.  Its stream is m0, m1, with an   *)
(* equivocating n0 beside m0.                                              *)
(***************************************************************************)
EXTENDS StagingBlocks, TLC

CONSTANTS a, b, s1, s2, s3, s4, s5, s6, m0, m1, n0, k1, k2, k4, k6

(* s2 and s3 are siblings that confirm m0 and m0, m1.  s3 reuses the key   *)
(* of the first block, which is accepted; s5 reuses that of its            *)
(* grandparent s2, which is not; s6 has an invalid transaction.            *)
Blocks == {s1, s2, s3, s4, s5, s6}
Parents == s1 :> FirstBlock @@ s2 :> s1 @@ s3 :> s1 @@ s4 :> s2 @@ s5 :> s4 @@ s6 :> s1
Confirms == s1 :> NoMicroblock @@ s2 :> m0 @@ s3 :> m1 @@ s4 :> NoMicroblock
            @@ s5 :> NoMicroblock @@ s6 :> NoMicroblock
Keys == s1 :> k1 @@ s2 :> k2 @@ s3 :> k1 @@ s4 :> k4 @@ s5 :> k2 @@ s6 :> k6

Stream == {m0, m1, n0}
Sequences == m0 :> 0 @@ m1 :> 1 @@ n0 :> 0
Prevs == m0 :> s1 @@ m1 :> m0 @@ n0 :> s1

Sortitions == {<<a, s1>>, <<b, s1>>, <<a, s2>>, <<a, s3>>, <<a, s4>>, <<a, s5>>, <<b, s6>>}
SortitionParents == [e \in Sortitions |-> e[1]]
InvalidEntries == {<<b, s6>>}
Deliveries == {<<<<a, s1>>, m0>>, <<<<a, s1>>, m1>>, <<<<a, s1>>, n0>>}

============================================================================
