----------------------------- MODULE MCSession -----------------------------
(***************************************************************************)
(* One node and two queries: a batch of both, a command of the first, and  *)
(* an empty batch, which may be one that was moved from.                   *)
(***************************************************************************)
EXTENDS Session, TLC

CONSTANTS
    a, b, m, n1, q1, q2,
    Retried,  \* commands with one retry, the others have none
    AsText    \* commands whose first query is not to be prepared

MCNodeOf == [s \in Stream |-> n1]
MCQueries == [c \in Cmd |-> CASE c = a -> <<q1, q2>> [] c = m -> <<>> [] OTHER -> <<q1>>]
MCNeedPrepare == [c \in Cmd |-> IF c \in AsText THEN DOMAIN MCQueries[c] \ {1} ELSE DOMAIN MCQueries[c]]
MCMaxRetries == [c \in Cmd |-> IF c \in Retried THEN 1 ELSE 0]

StreamSymmetry == Permutations(Stream)
=============================================================================
