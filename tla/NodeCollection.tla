--------------------------- MODULE NodeCollection ---------------------------
(***************************************************************************)
(* The node chooser of the driver, NodeCollectionImpl: a round robin over  *)
(* the nodes that are not marked as fault, which retries one fault node    *)
(* every time the end of the node array is reached.                        *)
(*                                                                         *)
(* The nodes are the indexes of allNodes_ (getNodeRecord maps a            *)
(* configuration to its index, one to one).  The callers of the collection *)
(* are the connection attempts of the pools that share it: an attempt      *)
(* chooses a node and later reports its failure or its success, and any    *)
(* number of attempts may be open at once, so a report may concern a node  *)
(* whose mark other attempts have changed since it was chosen.             *)
(***************************************************************************)
EXTENDS Naturals, Sequences, SequencesExt

CONSTANTS
    N,           \* how many nodes the collection was built with
    MaxAttempts  \* bound on the open connection attempts of one node

\* The constructor throws on an empty node list.
ASSUME NAssumption == N \in Nat \ {0}
ASSUME MaxAttemptsAssumption == MaxAttempts \in Nat \ {0}

VARIABLES
    isFault,           \* NodeRecord::isFault of every node
    nextIndex,         \* nextIndex_, where the next enumeration starts
    faultNodeIndexes,  \* faultNodeIndexes_, the fault nodes in retry order
    attempts           \* per node, the attempts chosen and not yet reported

nodeVars == <<isFault, nextIndex, faultNodeIndexes>>
vars == <<isFault, nextIndex, faultNodeIndexes, attempts>>

Node == 0 .. N - 1

TypeOK ==
    /\ isFault \in [Node -> BOOLEAN]
    /\ nextIndex \in 0 .. N
    /\ faultNodeIndexes \in Seq(Node)
    /\ attempts \in [Node -> 0 .. MaxAttempts]

NodesInit ==
    /\ isFault = [n \in Node |-> FALSE]
    /\ nextIndex = 0
    /\ faultNodeIndexes = <<>>

-----------------------------------------------------------------------------
(* chooseOneNode *)

\* The nodes not marked as fault that an enumeration from an index meets.
Healthy(from) == {n \in from .. N - 1 : ~isFault[n]}

IsLeast(n, S) == n \in S /\ \A m \in S : n <= m

\* The enumeration meets a healthy node before the end of the array.
PicksHealthy(n) == IsLeast(n, Healthy(nextIndex))

\* It reaches the end of the array and a fault node is waiting for its retry.
PicksFault(n) ==
    /\ Healthy(nextIndex) = {}
    /\ faultNodeIndexes # <<>>
    /\ n = Head(faultNodeIndexes)

\* It reaches the end, no fault node is queued, and it goes on from index 0;
\* of its N + 1 iterations nextIndex + 1 are left.
PicksAfterWrap(n) ==
    /\ Healthy(nextIndex) = {}
    /\ faultNodeIndexes = <<>>
    /\ IsLeast(n, Healthy(0))
    /\ n <= nextIndex

\* Seeded bugs: a rotation without the push, and one without the pop.
RotationLosesNode == Tail(faultNodeIndexes)
RotationKeepsHead == faultNodeIndexes

RotateFaultNode == Append(Tail(faultNodeIndexes), Head(faultNodeIndexes))

RetryFaultNode(n) ==
    /\ PicksFault(n)
    /\ nextIndex' = 0
    /\ faultNodeIndexes' = RotateFaultNode
    /\ UNCHANGED isFault

\* Seeded bug: the index advanced twice.
SkipsANode(n) == n + 2

IndexAfter(n) == n + 1

PickHealthyNode(n) ==
    /\ PicksHealthy(n) \/ PicksAfterWrap(n)
    /\ nextIndex' = IndexAfter(n)
    /\ UNCHANGED <<isFault, faultNodeIndexes>>

\* One call of chooseOneNode that returns n.
ChooseOneNode(n) == PickHealthyNode(n) \/ RetryFaultNode(n)

\* The call would run out of iterations and throw.
ChooseThrows ==
    \A n \in Node : ~(PicksHealthy(n) \/ PicksFault(n) \/ PicksAfterWrap(n))

-----------------------------------------------------------------------------
(* reportFailure and reportSuccess *)

\* Seeded bug: the test of isFault dropped.
ReportFailureAlways(n) ==
    /\ isFault' = [isFault EXCEPT ![n] = TRUE]
    /\ faultNodeIndexes' = Append(faultNodeIndexes, n)
    /\ UNCHANGED nextIndex

ReportFailure(n) ==
    /\ isFault' = [isFault EXCEPT ![n] = TRUE]
    /\ faultNodeIndexes' = IF isFault[n] THEN faultNodeIndexes
                                         ELSE Append(faultNodeIndexes, n)
    /\ UNCHANGED nextIndex

\* Seeded bug: one pop instead of the round.
WithoutHead(queue, n) == IF queue = <<>> THEN queue ELSE Tail(queue)

\* One round of pop and push back of every element but n.  The queue holds an
\* index at most once (FaultQueueExact).
Without(queue, n) ==
    LET at == CHOOSE i \in DOMAIN queue : queue[i] = n
    IN  IF n \in ToSet(queue) THEN RemoveAt(queue, at) ELSE queue

ReportSuccess(n) ==
    /\ isFault' = [isFault EXCEPT ![n] = FALSE]
    /\ faultNodeIndexes' = IF isFault[n] THEN Without(faultNodeIndexes, n)
                                         ELSE faultNodeIndexes
    /\ UNCHANGED nextIndex

-----------------------------------------------------------------------------
(* The collection under the connection attempts of its callers *)

Init == NodesInit /\ attempts = [n \in Node |-> 0]

Attempt(n) ==
    /\ attempts[n] < MaxAttempts
    /\ ChooseOneNode(n)
    /\ attempts' = [attempts EXCEPT ![n] = @ + 1]

AttemptFails(n) ==
    /\ attempts[n] > 0
    /\ ReportFailure(n)
    /\ attempts' = [attempts EXCEPT ![n] = @ - 1]

AttemptSucceeds(n) ==
    /\ attempts[n] > 0
    /\ ReportSuccess(n)
    /\ attempts' = [attempts EXCEPT ![n] = @ - 1]

Next == \E n \in Node : Attempt(n) \/ AttemptFails(n) \/ AttemptSucceeds(n)

Spec == Init /\ [][Next]_vars

-----------------------------------------------------------------------------
(* Properties *)

\* The retry queue holds exactly the nodes marked as fault, each once: a fault
\* node is never lost from the rotation (it would never be retried), and a
\* recovered one never stays in it (reportFailure, reportSuccess and the
\* rotation of chooseOneNode keep the mark and the queue together).
FaultQueueExact ==
    /\ \A n \in Node : isFault[n] <=> \E i \in DOMAIN faultNodeIndexes :
                                          faultNodeIndexes[i] = n
    /\ \A i, j \in DOMAIN faultNodeIndexes :
           faultNodeIndexes[i] = faultNodeIndexes[j] => i = j

\* The comment "here should be unreachable" at the end of chooseOneNode: in
\* every reachable state some node is returned, however many are fault.
ChooseNeverThrows == ~ChooseThrows

\* As long as chooseOneNode keeps being called, a node whose mark settles is
\* chosen again and again: a fault node gets its retry, a healthy node its turn
\* in the round robin, whatever the marks of the other nodes do meanwhile.
EveryNodeHasItsTurn ==
    \A n \in Node :
        (/\ []<><<\E m \in Node : Attempt(m)>>_vars
         /\ <>[]isFault[n] \/ <>[](~isFault[n]))
        => []<><<Attempt(n)>>_vars
=============================================================================
