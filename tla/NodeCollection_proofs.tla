------------------------ MODULE NodeCollection_proofs ------------------------
(***************************************************************************)
(* Proofs about the node chooser for every number of nodes: type           *)
(* correctness, the exactness of the retry queue, and that chooseOneNode   *)
(* always returns a node.                                                  *)
(***************************************************************************)
EXTENDS NodeCollection, SequenceTheorems, WellFoundedInduction, TLAPS

-----------------------------------------------------------------------------
(* Sequences without duplicates *)

Occurs(x, s) == \E i \in 1 .. Len(s) : s[i] = x
Distinct(s) == \A i, j \in 1 .. Len(s) : s[i] = s[j] => i = j

\* A non-empty set of naturals has a least element: the enumeration of
\* chooseOneNode has a first healthy node whenever it has one.
LEMMA LeastExists ==
    ASSUME NEW S, S \subseteq Nat, S # {}
    PROVE  \E n \in S : \A m \in S : n <= m
<1>1. PICK n \in S : \A m \in S : ~(<<m, n>> \in OpToRel(<, Nat))
      BY NatLessThanWellFounded, WFMin
<1>2. \A m \in S : ~(m < n)
      BY <1>1 DEF OpToRel
<1> QED
      BY <1>2

\* Pop and push back: the elements stay, each once, and none is added.
LEMMA RotateKeepsElements ==
    ASSUME NEW S, NEW s \in Seq(S), s # <<>>, Distinct(s)
    PROVE  /\ Append(Tail(s), Head(s)) \in Seq(S)
           /\ Distinct(Append(Tail(s), Head(s)))
           /\ \A x : Occurs(x, Append(Tail(s), Head(s))) <=> Occurs(x, s)
<1> DEFINE r == Tail(s)
           h == Head(s)
           t == Append(r, h)
<1>1. /\ Len(s) \in Nat \ {0}
      /\ h = s[1] /\ h \in S
      /\ r \in Seq(S) /\ Len(r) = Len(s) - 1
      /\ \A i \in 1 .. Len(s) - 1 : r[i] = s[i + 1]
      BY EmptySeq, HeadTailProperties
<1> HIDE DEF r, h
<1>2. t \in Seq(S) /\ Len(t) = Len(s)
      BY <1>1, AppendProperties
<1>3. \A i \in 1 .. Len(s) : t[i] = IF i = Len(s) THEN s[1] ELSE s[i + 1]
  <2>1. /\ \A i \in 1 .. Len(r) : t[i] = r[i]
        /\ t[Len(r) + 1] = h
        BY <1>1, AppendProperties
  <2> QED BY <2>1, <1>1
<1> HIDE DEF t
<1>4. Distinct(t)
  <2> DEFINE from(i) == IF i = Len(s) THEN 1 ELSE i + 1
  <2>1. \A i \in 1 .. Len(s) : from(i) \in 1 .. Len(s) /\ t[i] = s[from(i)]
        BY <1>1, <1>3
  <2>2. SUFFICES ASSUME NEW i \in 1 .. Len(s), NEW j \in 1 .. Len(s), t[i] = t[j]
                 PROVE  i = j
        BY <1>2 DEF Distinct
  <2>3. from(i) = from(j)
        BY <2>1, <2>2 DEF Distinct
  <2> QED BY <2>3, <1>1
<1>5. ASSUME NEW x, Occurs(x, t) PROVE Occurs(x, s)
      BY <1>1, <1>2, <1>3, <1>5 DEF Occurs
<1>6. ASSUME NEW x, Occurs(x, s) PROVE Occurs(x, t)
  <2>1. PICK i \in 1 .. Len(s) : s[i] = x
        BY <1>6 DEF Occurs
  <2>2. CASE i = 1
        BY <2>1, <2>2, <1>1, <1>2, <1>3 DEF Occurs
  <2>3. CASE i # 1
    <3>1. i - 1 \in 1 .. Len(t) /\ t[i - 1] = s[i]
          BY <2>1, <2>3, <1>1, <1>2, <1>3
    <3> QED BY <3>1, <2>1 DEF Occurs
  <2> QED BY <2>2, <2>3
<1> QED BY <1>2, <1>4, <1>5, <1>6 DEF t, r, h

\* A push of an element that is not queued yet.
LEMMA PushKeepsDistinct ==
    ASSUME NEW S, NEW s \in Seq(S), NEW e \in S, Distinct(s), ~Occurs(e, s)
    PROVE  /\ Append(s, e) \in Seq(S)
           /\ Distinct(Append(s, e))
           /\ \A x : Occurs(x, Append(s, e)) <=> Occurs(x, s) \/ x = e
<1> DEFINE t == Append(s, e)
<1>1. /\ t \in Seq(S) /\ Len(t) = Len(s) + 1 /\ Len(s) \in Nat
      /\ \A i \in 1 .. Len(s) : t[i] = s[i]
      /\ t[Len(s) + 1] = e
      BY AppendProperties, LenProperties
<1>2. Distinct(t)
      BY <1>1 DEF Distinct, Occurs
<1>3. \A x : Occurs(x, t) <=> Occurs(x, s) \/ x = e
  <2>1. ASSUME NEW x, Occurs(x, t) PROVE Occurs(x, s) \/ x = e
        BY <2>1, <1>1 DEF Occurs
  <2>2. ASSUME NEW x, Occurs(x, s) PROVE Occurs(x, t)
        BY <2>2, <1>1 DEF Occurs
  <2>3. Occurs(e, t)
        BY <1>1 DEF Occurs
  <2> QED BY <2>1, <2>2, <2>3
<1> QED BY <1>1, <1>2, <1>3

\* Taking an element out of the queue, wherever it stands.
LEMMA WithoutProperties ==
    ASSUME NEW S, NEW s \in Seq(S), NEW e, Distinct(s), Occurs(e, s)
    PROVE  /\ Without(s, e) \in Seq(S)
           /\ Distinct(Without(s, e))
           /\ \A x : Occurs(x, Without(s, e)) <=> Occurs(x, s) /\ x # e
<1> DEFINE k == CHOOSE i \in DOMAIN s : s[i] = e
           n == Len(s)
           a == SubSeq(s, 1, k - 1)
           b == SubSeq(s, k + 1, n)
<1>1. n \in Nat /\ DOMAIN s = 1 .. n /\ \A i \in 1 .. n : s[i] \in S
      BY LenProperties
<1>2. k \in 1 .. n /\ s[k] = e
      BY <1>1 DEF Occurs
<1>3. e \in ToSet(s)
      BY <1>1, <1>2 DEF ToSet
<1>4. Without(s, e) = a \o b
      BY <1>3 DEF Without, RemoveAt
<1> HIDE DEF k
<1>5. /\ a \in Seq(S) /\ Len(a) = k - 1
      /\ \A i \in 1 .. k - 1 : a[i] = s[i]
      BY <1>1, <1>2, SubSeqProperties
<1>6. /\ b \in Seq(S) /\ Len(b) = n - k
      /\ \A i \in 1 .. n - k : b[i] = s[k + i]
  <2>1. k + 1 \in Int /\ n \in Int /\ \A i \in k + 1 .. n : s[i] \in S
        BY <1>1, <1>2
  <2>2. /\ b \in Seq(S)
        /\ Len(b) = IF k + 1 <= n THEN n - (k + 1) + 1 ELSE 0
        /\ \A i \in 1 .. n - (k + 1) + 1 : b[i] = s[(k + 1) + i - 1]
        BY <2>1, SubSeqProperties
  <2>3. ASSUME NEW i \in 1 .. n - k
        PROVE  i \in 1 .. n - (k + 1) + 1 /\ (k + 1) + i - 1 = k + i
        BY <1>1, <1>2
  <2>4. (IF k + 1 <= n THEN n - (k + 1) + 1 ELSE 0) = n - k
    <3>1. k \in Int /\ n \in Int /\ k <= n
          BY <1>1, <1>2
    <3> HIDE DEF n
    <3>2. k + 1 <= n => n - (k + 1) + 1 = n - k
          BY <3>1
    <3>3. ~(k + 1 <= n) => n - k = 0
          BY <3>1
    <3> QED BY <3>2, <3>3
  <2> QED BY <2>2, <2>3, <2>4
<1> DEFINE t == Without(s, e)
<1> HIDE DEF a, b
<1>7. /\ t \in Seq(S) /\ Len(t) = n - 1
      /\ \A i \in 1 .. n - 1 : t[i] = IF i < k THEN s[i] ELSE s[i + 1]
  <2>1. /\ a \o b \in Seq(S)
        /\ Len(a \o b) = Len(a) + Len(b)
        /\ \A i \in 1 .. Len(a) + Len(b) :
               (a \o b)[i] = IF i <= Len(a) THEN a[i] ELSE b[i - Len(a)]
        BY <1>5, <1>6, ConcatProperties
  <2>2. Len(a) + Len(b) = n - 1
        BY <1>1, <1>2, <1>5, <1>6
  <2>3. ASSUME NEW i \in 1 .. n - 1
        PROVE  (a \o b)[i] = IF i < k THEN s[i] ELSE s[i + 1]
    <3>1. CASE i < k
          BY <3>1, <2>1, <2>2, <1>1, <1>2, <1>5
    <3>2. CASE ~(i < k)
      <4>1. i - Len(a) \in 1 .. n - k /\ k + (i - Len(a)) = i + 1
            BY <3>2, <1>1, <1>2, <1>5
      <4>2. (a \o b)[i] = b[i - Len(a)]
            BY <3>2, <2>1, <2>2, <1>1, <1>2, <1>5
      <4> QED BY <4>1, <4>2, <3>2, <1>6
    <3> QED BY <3>1, <3>2
  <2> QED BY <1>4, <2>1, <2>2, <2>3
<1> HIDE DEF t
<1>8. Distinct(t)
  <2> DEFINE from(i) == IF i < k THEN i ELSE i + 1
  <2>1. \A i \in 1 .. n - 1 : from(i) \in 1 .. n /\ t[i] = s[from(i)]
        BY <1>1, <1>2, <1>7
  <2>2. SUFFICES ASSUME NEW i \in 1 .. n - 1, NEW j \in 1 .. n - 1, t[i] = t[j]
                 PROVE  i = j
        BY <1>7 DEF Distinct
  <2>3. from(i) = from(j)
        BY <2>1, <2>2 DEF Distinct
  <2> QED BY <2>3, <1>1, <1>2
<1>9. ASSUME NEW x, Occurs(x, t) PROVE Occurs(x, s) /\ x # e
  <2>1. PICK i \in 1 .. n - 1 : t[i] = x
        BY <1>9, <1>7 DEF Occurs
  <2>2. PICK j \in 1 .. n : s[j] = x /\ j # k
        BY <2>1, <1>1, <1>2, <1>7
  <2> QED BY <2>2, <1>1, <1>2 DEF Occurs, Distinct
<1>10. ASSUME NEW x, Occurs(x, s), x # e PROVE Occurs(x, t)
  <2>1. PICK j \in 1 .. n : s[j] = x
        BY <1>10 DEF Occurs
  <2>2. CASE j < k
        BY <2>1, <2>2, <1>1, <1>2, <1>7 DEF Occurs
  <2>3. CASE j > k
    <3>1. j - 1 \in 1 .. n - 1 /\ t[j - 1] = s[j]
          BY <2>1, <2>3, <1>1, <1>2, <1>7
    <3> QED BY <3>1, <2>1, <1>7 DEF Occurs
  <2>4. j # k
        BY <2>1, <1>2, <1>10
  <2> QED BY <2>2, <2>3, <2>4, <1>1, <1>2
<1> QED BY <1>7, <1>8, <1>9, <1>10 DEF t

-----------------------------------------------------------------------------
(* The invariant *)

\* The type invariant without the bound on the open attempts of a node.
NodesTypeOK ==
    /\ isFault \in [Node -> BOOLEAN]
    /\ nextIndex \in 0 .. N
    /\ faultNodeIndexes \in Seq(Node)

\* FaultQueueExact over the positions of the queue.
QueueExact ==
    /\ \A n \in Node : isFault[n] <=> Occurs(n, faultNodeIndexes)
    /\ Distinct(faultNodeIndexes)

NodesInv == NodesTypeOK /\ QueueExact

\* The strengthened form of FaultQueueExact is the same for a typed queue.
LEMMA QueueExactEquiv ==
    ASSUME NodesTypeOK PROVE QueueExact <=> FaultQueueExact
<1>1. DOMAIN faultNodeIndexes = 1 .. Len(faultNodeIndexes)
      BY LenProperties DEF NodesTypeOK
<1> QED BY <1>1 DEF QueueExact, FaultQueueExact, Occurs, Distinct

\* The constructor marks no node and queues none.
LEMMA NodesInitInv == NodesInit => NodesInv
<1> SUFFICES ASSUME NodesInit PROVE NodesInv
    OBVIOUS
<1>1. NodesTypeOK
      BY NAssumption, EmptySeq DEF NodesInit, NodesTypeOK, Node
<1>2. QueueExact
      BY EmptySeq DEF NodesInit, QueueExact, Occurs, Distinct, Node
<1> QED BY <1>1, <1>2 DEF NodesInv

\* chooseOneNode changes no mark and only rotates the queue.
LEMMA ChooseKeepsInv ==
    ASSUME NodesInv, NEW n \in Node, ChooseOneNode(n) PROVE NodesInv'
<1> USE DEF NodesInv, NodesTypeOK
<1>1. CASE PickHealthyNode(n)
  <2>1. n + 1 \in 0 .. N
        BY NAssumption DEF Node
  <2> QED
      BY <1>1, <2>1 DEF PickHealthyNode, IndexAfter, QueueExact
<1>2. CASE RetryFaultNode(n)
  <2>1. faultNodeIndexes # <<>> /\ Distinct(faultNodeIndexes)
        BY <1>2 DEF RetryFaultNode, PicksFault, QueueExact
  <2>2. /\ RotateFaultNode \in Seq(Node)
        /\ Distinct(RotateFaultNode)
        /\ \A x : Occurs(x, RotateFaultNode) <=> Occurs(x, faultNodeIndexes)
        BY <2>1, RotateKeepsElements DEF RotateFaultNode
  <2>3. nextIndex' \in 0 .. N
        BY <1>2, NAssumption DEF RetryFaultNode
  <2>4. NodesTypeOK'
        BY <1>2, <2>2, <2>3 DEF RetryFaultNode
  <2>5. QueueExact'
        BY <1>2, <2>2 DEF RetryFaultNode, QueueExact
  <2> QED BY <2>4, <2>5
<1> QED BY <1>1, <1>2 DEF ChooseOneNode

\* reportFailure queues a node when it marks it, and only then.
LEMMA FailureKeepsInv ==
    ASSUME NodesInv, NEW n \in Node, ReportFailure(n) PROVE NodesInv'
<1> USE DEF NodesInv, NodesTypeOK
<1>1. isFault' \in [Node -> BOOLEAN] /\ nextIndex' \in 0 .. N
      BY DEF ReportFailure
<1>2. CASE isFault[n]
      BY <1>1, <1>2 DEF ReportFailure, QueueExact
<1>3. CASE ~isFault[n]
  <2>1. ~Occurs(n, faultNodeIndexes) /\ Distinct(faultNodeIndexes)
        BY <1>3 DEF QueueExact
  <2>2. faultNodeIndexes' = Append(faultNodeIndexes, n)
        BY <1>3 DEF ReportFailure
  <2>3. /\ faultNodeIndexes' \in Seq(Node)
        /\ Distinct(faultNodeIndexes')
        /\ \A x : Occurs(x, faultNodeIndexes') <=>
                     Occurs(x, faultNodeIndexes) \/ x = n
        BY <2>1, <2>2, PushKeepsDistinct
  <2>4. \A m \in Node : isFault'[m] <=> isFault[m] \/ m = n
        BY DEF ReportFailure
  <2> QED BY <1>1, <2>3, <2>4 DEF QueueExact
<1> QED BY <1>2, <1>3

\* reportSuccess takes a node out of the queue when it unmarks it.
LEMMA SuccessKeepsInv ==
    ASSUME NodesInv, NEW n \in Node, ReportSuccess(n) PROVE NodesInv'
<1> USE DEF NodesInv, NodesTypeOK
<1>1. isFault' \in [Node -> BOOLEAN] /\ nextIndex' \in 0 .. N
      BY DEF ReportSuccess
<1>2. CASE ~isFault[n]
      BY <1>1, <1>2 DEF ReportSuccess, QueueExact
<1>3. CASE isFault[n]
  <2>1. Occurs(n, faultNodeIndexes) /\ Distinct(faultNodeIndexes)
        BY <1>3 DEF QueueExact
  <2>2. faultNodeIndexes' = Without(faultNodeIndexes, n)
        BY <1>3 DEF ReportSuccess
  <2>3. /\ faultNodeIndexes' \in Seq(Node)
        /\ Distinct(faultNodeIndexes')
        /\ \A x : Occurs(x, faultNodeIndexes') <=>
                     Occurs(x, faultNodeIndexes) /\ x # n
        BY <2>1, <2>2, WithoutProperties
  <2>4. \A m \in Node : isFault'[m] <=> isFault[m] /\ m # n
        BY DEF ReportSuccess
  <2> QED BY <1>1, <2>3, <2>4 DEF QueueExact
<1> QED BY <1>2, <1>3

-----------------------------------------------------------------------------
(* Theorems of the specification *)

\* The inductive invariant: the types, and the queue exact.  The counts of open
\* attempts are typed separately, they only depend on the guards.
LEMMA Invariant == Spec => [](NodesInv /\ TypeOK)
<1>1. Init => NodesInv /\ TypeOK
      BY NodesInitInv, MaxAttemptsAssumption
         DEF Init, NodesInv, NodesTypeOK, TypeOK
<1>2. NodesInv /\ TypeOK /\ [Next]_vars => (NodesInv /\ TypeOK)'
  <2> SUFFICES ASSUME NodesInv, TypeOK, [Next]_vars
               PROVE  NodesInv' /\ attempts' \in [Node -> 0 .. MaxAttempts]
      BY DEF NodesInv, NodesTypeOK, TypeOK
  <2>1. ASSUME NEW n \in Node, Attempt(n)
        PROVE  NodesInv' /\ attempts' \in [Node -> 0 .. MaxAttempts]
    <3>1. NodesInv'
          BY <2>1, ChooseKeepsInv DEF Attempt
    <3>2. attempts[n] + 1 \in 0 .. MaxAttempts
          BY <2>1, MaxAttemptsAssumption DEF Attempt, TypeOK
    <3> QED BY <2>1, <3>1, <3>2 DEF Attempt, TypeOK
  <2>2. ASSUME NEW n \in Node, AttemptFails(n)
        PROVE  NodesInv' /\ attempts' \in [Node -> 0 .. MaxAttempts]
    <3>1. NodesInv'
          BY <2>2, FailureKeepsInv DEF AttemptFails
    <3>2. attempts[n] - 1 \in 0 .. MaxAttempts
          BY <2>2, MaxAttemptsAssumption DEF AttemptFails, TypeOK
    <3> QED BY <2>2, <3>1, <3>2 DEF AttemptFails, TypeOK
  <2>3. ASSUME NEW n \in Node, AttemptSucceeds(n)
        PROVE  NodesInv' /\ attempts' \in [Node -> 0 .. MaxAttempts]
    <3>1. NodesInv'
          BY <2>3, SuccessKeepsInv DEF AttemptSucceeds
    <3>2. attempts[n] - 1 \in 0 .. MaxAttempts
          BY <2>3, MaxAttemptsAssumption DEF AttemptSucceeds, TypeOK
    <3> QED BY <2>3, <3>1, <3>2 DEF AttemptSucceeds, TypeOK
  <2>4. CASE UNCHANGED vars
        BY <2>4 DEF vars, NodesInv, NodesTypeOK, QueueExact, TypeOK
  <2> QED BY <2>1, <2>2, <2>3, <2>4 DEF Next
<1> QED BY <1>1, <1>2, PTL DEF Spec

\* Type correctness of the chooser under any number of open attempts.
THEOREM TypeCorrect == Spec => []TypeOK
<1> QED BY Invariant, PTL

\* The retry queue holds exactly the fault nodes, each once, for every number
\* of nodes and every order of the reports (reportFailure, reportSuccess and
\* the rotation of chooseOneNode).
THEOREM FaultQueueIsExact == Spec => []FaultQueueExact
<1>1. NodesInv => FaultQueueExact
      BY QueueExactEquiv DEF NodesInv
<1> QED BY <1>1, Invariant, PTL

\* With the queue exact, chooseOneNode returns a node in every state: either
\* some node is healthy from the index on, or a fault node is queued, or no
\* node is fault and index 0 is picked after the wrap.
LEMMA SomeNodeIsChosen == NodesInv => ChooseNeverThrows
<1> SUFFICES ASSUME NodesInv
             PROVE  \E n \in Node : PicksHealthy(n) \/ PicksFault(n) \/ PicksAfterWrap(n)
    BY DEF ChooseNeverThrows, ChooseThrows
<1> USE NAssumption DEF NodesInv, NodesTypeOK
<1>1. CASE Healthy(nextIndex) # {}
  <2>1. Healthy(nextIndex) \subseteq Nat /\ Healthy(nextIndex) \subseteq Node
        BY DEF Healthy, Node
  <2>2. PICK n \in Healthy(nextIndex) : \A m \in Healthy(nextIndex) : n <= m
        BY <1>1, <2>1, LeastExists
  <2> QED BY <2>1, <2>2 DEF PicksHealthy, IsLeast
<1>2. CASE Healthy(nextIndex) = {} /\ faultNodeIndexes # <<>>
  <2>1. Head(faultNodeIndexes) \in Node
        BY <1>2, HeadTailProperties
  <2> QED BY <1>2, <2>1 DEF PicksFault
<1>3. CASE Healthy(nextIndex) = {} /\ faultNodeIndexes = <<>>
  <2>1. \A n \in Node : ~isFault[n]
        BY <1>3, EmptySeq DEF QueueExact, Occurs
  <2>2. 0 \in Node /\ 0 \in Healthy(0) /\ \A m \in Healthy(0) : 0 <= m
        BY <2>1 DEF Healthy, Node
  <2> QED BY <1>3, <2>2 DEF PicksAfterWrap, IsLeast
<1> QED BY <1>1, <1>2, <1>3

\* The throw at the end of chooseOneNode is unreachable, for every number of
\* nodes and whatever their marks.
THEOREM ChooseIsTotal == Spec => []ChooseNeverThrows
<1> QED BY SomeNodeIsChosen, Invariant, PTL
=============================================================================
