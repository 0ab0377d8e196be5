-------------------------- MODULE MCNodeCollection --------------------------
(***************************************************************************)
(* NodeCollection on a small number of nodes, with the enumeration of      *)
(* chooseOneNode and the queue round of reportSuccess written as the loops *)
(* of the code, to check the declarative operators against them.           *)
(***************************************************************************)
EXTENDS NodeCollection, TLC

RECURSIVE Enumerate(_, _)
\* The loop of chooseOneNode: `left` iterations, enumerating from `next`.
Enumerate(left, next) ==
    LET wrapped == next >= N
        at == IF wrapped THEN 0 ELSE next
    IN  IF left = 0 THEN [node |-> N, next |-> next, queue |-> faultNodeIndexes]
        ELSE IF wrapped /\ faultNodeIndexes # <<>>
             THEN [node  |-> Head(faultNodeIndexes), next |-> 0,
                   queue |-> Append(Tail(faultNodeIndexes), Head(faultNodeIndexes))]
        ELSE IF ~isFault[at]
             THEN [node |-> at, next |-> at + 1, queue |-> faultNodeIndexes]
             ELSE Enumerate(left - 1, at + 1)

RECURSIVE PopAndPush(_, _, _)
\* The loop of reportSuccess: `left` rounds of pop, and push unless it is n.
PopAndPush(left, queue, n) ==
    IF left = 0 THEN queue
    ELSE PopAndPush(left - 1,
                    IF Head(queue) = n THEN Tail(queue)
                                       ELSE Append(Tail(queue), Head(queue)),
                    n)

\* Every step that opens an attempt returns what the loop of chooseOneNode
\* returns and leaves the index and the queue the loop leaves, and every success
\* report of a fault node leaves the queue of the pop and push round of
\* reportSuccess, the order of the other fault nodes included.
RunsTheLoops ==
    [][\A n \in Node :
          /\ Attempt(n) =>
                 Enumerate(N + 1, nextIndex) =
                     [node |-> n, next |-> nextIndex', queue |-> faultNodeIndexes']
          /\ AttemptSucceeds(n) /\ isFault[n] =>
                 faultNodeIndexes' = PopAndPush(Len(faultNodeIndexes), faultNodeIndexes, n)]_vars
=============================================================================
