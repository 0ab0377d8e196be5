-------------------------- MODULE PoolNodes_proofs --------------------------
(***************************************************************************)
(* Proof that the pool uses the node collection as NodeCollection allows:  *)
(* a spawn loop is an attempt of the node it connects to, from the choice  *)
(* to the one report it makes, and nothing else touches the collection.    *)
(***************************************************************************)
EXTENDS ConnectionPool_proofs

\* The spawn loops whose attempt on a node is open.
ConnectingTo(n) == {s \in Slot : loop[s] = "connecting" /\ node[s] = n}

\* Attempts is a count of slots.
LEMMA AttemptsAreCounts ==
    /\ Attempts = [n \in Node |-> Cardinality(ConnectingTo(n))]
    /\ \A n \in Node : /\ Attempts[n] = Cardinality(ConnectingTo(n))
                       /\ IsFiniteSet(ConnectingTo(n))
                       /\ Attempts[n] \in Nat
                       /\ Attempts[n] < Cardinality(Slot) + 1
<1>1. Attempts = [n \in Node |-> Cardinality(ConnectingTo(n))]
      BY DEF Attempts, ConnectingTo
<1>2. ASSUME NEW n \in Node
      PROVE  /\ IsFiniteSet(ConnectingTo(n))
             /\ Cardinality(ConnectingTo(n)) \in Nat
             /\ Cardinality(ConnectingTo(n)) < Cardinality(Slot) + 1
  <2>1. ConnectingTo(n) \in SUBSET Slot
        BY DEF ConnectingTo
  <2>2. /\ IsFiniteSet(ConnectingTo(n))
        /\ Cardinality(ConnectingTo(n)) <= Cardinality(Slot)
        BY <2>1, PoolAssumption, FS_Subset
  <2> QED BY <2>2, PoolAssumption, FS_CardinalityType
<1> QED BY <1>1, <1>2

\* A loop that starts to connect opens an attempt of its node.
LEMMA ConnectingOpensAttempt ==
    ASSUME TypeOK, NEW s \in Slot, NEW n \in Node,
           loop[s] # "connecting",
           loop' = [loop EXCEPT ![s] = "connecting"],
           node' = [node EXCEPT ![s] = n]
    PROVE  Attempts' = [Attempts EXCEPT ![n] = @ + 1]
<1>1. ASSUME NEW m \in Node
      PROVE  Cardinality(ConnectingTo(m)') = IF m = n THEN Cardinality(ConnectingTo(m)) + 1
                                                      ELSE Cardinality(ConnectingTo(m))
  <2>1. CASE m = n
    <3>1. s \notin ConnectingTo(n) /\ ConnectingTo(n)' = ConnectingTo(n) \cup {s}
          BY DEF ConnectingTo, TypeOK
    <3> QED BY <2>1, <3>1, AttemptsAreCounts, FS_AddElement
  <2>2. CASE m # n
    <3>1. ConnectingTo(m)' = ConnectingTo(m)
          BY <2>2 DEF ConnectingTo, TypeOK
    <3> QED BY <2>2, <3>1
  <2> QED BY <2>1, <2>2
<1>2. Attempts' = [m \in Node |-> Cardinality(ConnectingTo(m)')]
      BY DEF Attempts, ConnectingTo
<1>3. Attempts' = [m \in Node |-> IF m = n THEN Attempts[m] + 1 ELSE Attempts[m]]
      BY <1>1, <1>2, AttemptsAreCounts
<1>4. [Attempts EXCEPT ![n] = @ + 1] =
          [m \in Node |-> IF m = n THEN Attempts[m] + 1 ELSE Attempts[m]]
      BY AttemptsAreCounts
<1> QED BY <1>3, <1>4

\* A loop that stops connecting, for success or failure, closes that attempt.
LEMMA StoppingClosesAttempt ==
    ASSUME TypeOK, NEW s \in Slot, NEW to, to # "connecting",
           loop[s] = "connecting",
           loop' = [loop EXCEPT ![s] = to], node' = node
    PROVE  /\ Attempts[node[s]] > 0
           /\ Attempts' = [Attempts EXCEPT ![node[s]] = @ - 1]
<1> DEFINE n == node[s]
<1>0. n \in Node
      BY DEF TypeOK
<1>1. s \in ConnectingTo(n)
      BY DEF ConnectingTo
<1>2. Attempts[n] > 0
  <2>1. Cardinality(ConnectingTo(n)) # 0
        BY <1>0, <1>1, AttemptsAreCounts, FS_EmptySet
  <2> QED BY <1>0, <2>1, AttemptsAreCounts
<1>3. ASSUME NEW m \in Node
      PROVE  Cardinality(ConnectingTo(m)') = IF m = n THEN Cardinality(ConnectingTo(m)) - 1
                                                      ELSE Cardinality(ConnectingTo(m))
  <2>1. CASE m = n
    <3>1. ConnectingTo(m)' = ConnectingTo(m) \ {s}
          BY <2>1 DEF ConnectingTo, TypeOK
    <3> QED BY <2>1, <3>1, <1>1, AttemptsAreCounts, FS_RemoveElement
  <2>2. CASE m # n
    <3>1. ConnectingTo(m)' = ConnectingTo(m)
          BY <2>2 DEF ConnectingTo, TypeOK
    <3> QED BY <2>2, <3>1
  <2> QED BY <2>1, <2>2
<1>4. Attempts' = [m \in Node |-> Cardinality(ConnectingTo(m)')]
      BY DEF Attempts, ConnectingTo
<1>5. Attempts' = [m \in Node |-> IF m = n THEN Attempts[m] - 1 ELSE Attempts[m]]
      BY <1>3, <1>4, AttemptsAreCounts
<1>6. [Attempts EXCEPT ![n] = @ - 1] =
          [m \in Node |-> IF m = n THEN Attempts[m] - 1 ELSE Attempts[m]]
      BY AttemptsAreCounts
<1> QED BY <1>2, <1>5, <1>6

\* A new spawn loop is one attempt of the collection.
LEMMA SpawnIsAttempt ==
    ASSUME TypeOK, SpawnOne
    PROVE  Nodes!Next
<1>1. PICK s \in Slot, n \in Node : Spawn(s, n)
      BY DEF SpawnOne
<1>2. Attempts' = [Attempts EXCEPT ![n] = @ + 1]
      BY <1>1, ConnectingOpensAttempt DEF Spawn, Off
<1>3. Nodes!Attempt(n)
      BY <1>1, <1>2, AttemptsAreCounts DEF Spawn, Nodes!Attempt
<1> QED BY <1>3 DEF Nodes!Next, Nodes!Node, Node

\* A step that leaves the loops and the collection alone leaves the attempts
\* alone.
LEMMA NoSpawnIsStutter ==
    ASSUME NoSpawn
    PROVE  UNCHANGED Nodes!vars
<1>1. Attempts' = Attempts
      BY DEF NoSpawn, spawnVars, Attempts
<1> QED BY <1>1 DEF NoSpawn, nodeVars, Nodes!vars

\* Every step of a spawn loop is a choice, a report, or none of the
\* collection's business (its finally).
LEMMA SpawnStepMaps ==
    ASSUME TypeOK, NEW s \in Slot, SpawnStep(s)
    PROVE  [Nodes!Next]_(Nodes!vars)
<1>0. node[s] \in Node
      BY DEF TypeOK
<1>1. CASE SpawnSucceeds(s)
  <2>1. Nodes!AttemptSucceeds(node[s])
        BY <1>1, StoppingClosesAttempt DEF SpawnSucceeds, Nodes!AttemptSucceeds
  <2> QED BY <1>0, <2>1 DEF Nodes!Next, Nodes!Node, Node
<1>2. CASE SpawnFails(s)
  <2>1. Nodes!AttemptFails(node[s])
        BY <1>2, StoppingClosesAttempt DEF SpawnFails, AttemptFailed, Nodes!AttemptFails
  <2> QED BY <1>0, <2>1 DEF Nodes!Next, Nodes!Node, Node
<1>3. CASE SpawnGivesUp(s)
  <2>1. Nodes!AttemptFails(node[s])
        BY <1>3, StoppingClosesAttempt DEF SpawnGivesUp, AttemptFailed, Nodes!AttemptFails
  <2> QED BY <1>0, <2>1 DEF Nodes!Next, Nodes!Node, Node
<1>4. CASE SpawnRetries(s)
  <2>1. PICK n \in Node : Nodes!ChooseOneNode(n) /\ node' = [node EXCEPT ![s] = n]
        BY <1>4 DEF SpawnRetries
  <2>2. Attempts' = [Attempts EXCEPT ![n] = @ + 1]
        BY <1>4, <2>1, ConnectingOpensAttempt DEF SpawnRetries
  <2>3. Nodes!Attempt(n)
        BY <2>1, <2>2, AttemptsAreCounts DEF Nodes!Attempt
  <2> QED BY <2>3 DEF Nodes!Next, Nodes!Node, Node
<1>5. CASE SpawnEnds(s)
  <2>1. \A n \in Node : ConnectingTo(n)' = ConnectingTo(n)
        BY <1>5 DEF SpawnEnds, ConnectingTo, TypeOK, Off
  <2>2. Attempts' = Attempts
        BY <2>1 DEF Attempts, ConnectingTo
  <2> QED BY <1>5, <2>2 DEF SpawnEnds, nodeVars, Nodes!vars
<1> QED BY <1>1, <1>2, <1>3, <1>4, <1>5 DEF SpawnStep

\* A client reaches the collection only by the loop that getConnection starts.
LEMMA ClientStepMaps ==
    ASSUME TypeOK, NEW cl \in Client, ClientStep(cl)
    PROVE  [Nodes!Next]_(Nodes!vars)
<1>1. SpawnOne \/ NoSpawn
      BY DEF ClientStep, GetConnection, GetBelowMin, GetIdleStream, GetSpawns, GetWaits,
             GetRejected, ReturnConnection, DropStream, NoSpawn
<1> QED BY <1>1, SpawnIsAttempt, NoSpawnIsStutter

\* So does the find timer; the drop timer never does.
LEMMA TimerStepMaps ==
    ASSUME TypeOK, TimerStep
    PROVE  [Nodes!Next]_(Nodes!vars)
<1>1. SpawnOne \/ NoSpawn
      BY DEF TimerStep, FindTimerTicks, FindTimerEnds, DropTimerTicks, DropTimerEnds, NoSpawn
<1> QED BY <1>1, SpawnIsAttempt, NoSpawnIsStutter

\* Every step of the pool is a step of the collection or a stutter.
LEMMA StepMaps == TypeOK /\ [Next]_vars => [Nodes!Next]_(Nodes!vars)
<1> SUFFICES ASSUME TypeOK, [Next]_vars PROVE [Nodes!Next]_(Nodes!vars)
    OBVIOUS
<1>1. CASE UNCHANGED vars
      BY <1>1, NoSpawnIsStutter DEF vars, NoSpawn
<1>2. ASSUME NEW c \in Conn, ConnectionCloses(c) PROVE UNCHANGED Nodes!vars
      BY <1>2, NoSpawnIsStutter DEF ConnectionCloses, NoSpawn
<1> QED BY <1>1, <1>2, ClientStepMaps, SpawnStepMaps, TimerStepMaps DEF Next

\* No attempt is open in the pool that has just been made.
LEMMA InitMaps == Init => Nodes!Init
<1> SUFFICES ASSUME Init PROVE Nodes!Init
    OBVIOUS
<1>1. \A n \in Node : {s \in Slot : loop[s] = "connecting" /\ node[s] = n} = {}
      BY DEF Init, Off
<1>2. Attempts = [n \in Node |-> 0]
      BY <1>1, FS_EmptySet DEF Attempts
<1> QED BY <1>2 DEF Init, Nodes!Init, Nodes!Node, Node

\* The pool implements the node collection's callers: however many spawn loops
\* run at once, each choice of chooseOneNode is reported exactly once, by
\* reportSuccess or reportFailure of the node chosen.
THEOREM PoolImplementsNodes == Spec => NodesSpec
<1>1. Spec => []TypeOK
      BY TypeCorrect
<1> QED BY <1>1, InitMaps, StepMaps, PTL DEF Spec, NodesSpec, Nodes!Spec

-----------------------------------------------------------------------------
(* What the collection promises holds of the pool *)

Chooser == INSTANCE NodeCollection_proofs
           WITH attempts <- Attempts, MaxAttempts <- Cardinality(Slot) + 1

\* The theorems about the collection hold of the collection the pool uses.
LEMMA ChooserIsNodes == NodesSpec => Chooser!Spec
<1>1. Nodes!Init => Chooser!Init
      BY DEF Nodes!Init, Nodes!NodesInit, Nodes!Node,
             Chooser!Init, Chooser!NodesInit, Chooser!Node
<1>2. [Nodes!Next]_(Nodes!vars) => [Chooser!Next]_(Chooser!vars)
  <2>1. ASSUME NEW n
        PROVE  /\ Nodes!Attempt(n) => Chooser!Attempt(n)
               /\ Nodes!AttemptFails(n) => Chooser!AttemptFails(n)
               /\ Nodes!AttemptSucceeds(n) => Chooser!AttemptSucceeds(n)
    <3>1. Nodes!ChooseOneNode(n) => Chooser!ChooseOneNode(n)
          BY Zenon
             DEF Nodes!ChooseOneNode, Nodes!PickHealthyNode, Nodes!RetryFaultNode,
                 Nodes!PicksHealthy, Nodes!PicksFault, Nodes!PicksAfterWrap,
                 Nodes!IsLeast, Nodes!Healthy, Nodes!IndexAfter, Nodes!RotateFaultNode,
                 Chooser!ChooseOneNode, Chooser!PickHealthyNode, Chooser!RetryFaultNode,
                 Chooser!PicksHealthy, Chooser!PicksFault, Chooser!PicksAfterWrap,
                 Chooser!IsLeast, Chooser!Healthy, Chooser!IndexAfter, Chooser!RotateFaultNode
    <3>2. Nodes!ReportFailure(n) => Chooser!ReportFailure(n)
          BY Zenon DEF Nodes!ReportFailure, Chooser!ReportFailure
    <3>3. Nodes!ReportSuccess(n) => Chooser!ReportSuccess(n)
          BY Zenon DEF Nodes!ReportSuccess, Nodes!Without, Nodes!ToSet, Nodes!RemoveAt,
                       Chooser!ReportSuccess, Chooser!Without, Chooser!ToSet, Chooser!RemoveAt
    <3> QED BY Zenon, <3>1, <3>2, <3>3
            DEF Nodes!Attempt, Nodes!AttemptFails, Nodes!AttemptSucceeds,
                Chooser!Attempt, Chooser!AttemptFails, Chooser!AttemptSucceeds
  <2> QED BY <2>1 DEF Nodes!Next, Nodes!Node, Nodes!vars,
                      Chooser!Next, Chooser!Node, Chooser!vars
<1> QED BY <1>1, <1>2, PTL DEF NodesSpec, Nodes!Spec, Chooser!Spec

\* The bound of the collection on open attempts: one more than the slots, so it
\* keeps no loop from starting.
LEMMA SlotsAssumption == Cardinality(Slot) + 1 \in Nat \ {0} /\ N \in Nat \ {0}
BY PoolAssumption, FS_CardinalityType

\* With any number of spawn loops between a choice and its report, the retry
\* queue of the collection the pool uses holds exactly the nodes marked as
\* fault, each once: reports that arrive late or in another order than the
\* choices (reportFailure, reportSuccess) lose no node and leave none behind.
THEOREM PoolKeepsFaultQueue == Spec => []Nodes!FaultQueueExact
<1>1. Chooser!Spec => []Chooser!FaultQueueExact
      BY SlotsAssumption, Chooser!FaultQueueIsExact
<1>2. Chooser!FaultQueueExact => Nodes!FaultQueueExact
      BY DEF Nodes!FaultQueueExact, Nodes!Node, Chooser!FaultQueueExact, Chooser!Node
<1> QED BY <1>1, <1>2, ChooserIsNodes, PoolImplementsNodes, PTL

\* spawnConnection always gets a node: the throw at the end of chooseOneNode is
\* not reached whatever the spawn loops of the pool have reported.
THEOREM PoolAlwaysFindsNode == Spec => []Nodes!ChooseNeverThrows
<1>1. Chooser!Spec => []Chooser!ChooseNeverThrows
      BY SlotsAssumption, Chooser!ChooseIsTotal
<1>2. Chooser!ChooseNeverThrows => Nodes!ChooseNeverThrows
      BY Zenon
         DEF Nodes!ChooseNeverThrows, Nodes!ChooseThrows, Nodes!Node, Nodes!PicksHealthy,
             Nodes!PicksFault, Nodes!PicksAfterWrap, Nodes!IsLeast, Nodes!Healthy,
             Chooser!ChooseNeverThrows, Chooser!ChooseThrows, Chooser!Node, Chooser!PicksHealthy,
             Chooser!PicksFault, Chooser!PicksAfterWrap, Chooser!IsLeast, Chooser!Healthy
<1> QED BY <1>1, <1>2, ChooserIsNodes, PoolImplementsNodes, PTL
=============================================================================
