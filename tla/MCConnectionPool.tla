-------------------------- MODULE MCConnectionPool --------------------------
(***************************************************************************)
(* Small pools for TLC.  Connections, clients and slots are model values,  *)
(* interchangeable as long as no client is singled out by MayDrop or       *)
(* OneShot.                                                                *)
(***************************************************************************)
EXTENDS ConnectionPool, TLC

CONSTANTS c1, c2, c3, c4, c5, a, b, d, s1, s2

\* There is a slot for every loop the size tests let run, and an identity for
\* every connection the pool or a client can refer to.
ASSUME BoundsLargeEnough ==
    /\ Cardinality(Slot) >= Larger(MinPoolSize, MaxPoolSize)
    /\ Cardinality(Conn) >= Larger(MinPoolSize, MaxPoolSize) + Cardinality(Client)

ConnSlotSymmetry == Permutations(Conn) \cup Permutations(Slot)
FullSymmetry == ConnSlotSymmetry \cup Permutations(Client)
=============================================================================
