------------------------------ MODULE Session ------------------------------
(***************************************************************************)
(* The session: commands that run concurrently on one core, each a loop of *)
(* attempts.  An attempt takes a stream of some connection from the pool,  *)
(* prepares the queries that ask for it and that this node has not         *)
(* prepared before, sends the QUERY, EXECUTE or BATCH, reads the response, *)
(* and gives the stream back; RetryFlow decides whether another follows.   *)
(*                                                                         *)
(* query and execute are a command of one query, batchExecute one of any   *)
(* number.  The pool, the connections and the servers appear as far as a   *)
(* command meets them: a stream of a connection that is open or lost, the  *)
(* requests on it in order, and the queries each server has prepared.      *)
(* A prepared id is represented by the query it was given for.             *)
(***************************************************************************)
EXTENDS Naturals, Sequences, FiniteSets

CONSTANTS
    Cmd,          \* the commands
    Stream,       \* streams of connections
    Node, Query,
    None,         \* no stream, no prepared id
    NodeOf,       \* the node a stream's connection is made to
    Queries,      \* per command, its queries in order
    NeedPrepare,  \* per command, the indexes of the queries to prepare
    MaxRetries,   \* per command
    Moved         \* commands that were moved from before the call

ASSUME SessionAssumption ==
    /\ NodeOf \in [Stream -> Node]
    /\ Queries \in [Cmd -> Seq(Query)]
    /\ \A c \in Cmd : NeedPrepare[c] \subseteq DOMAIN Queries[c]
    /\ MaxRetries \in [Cmd -> Nat]
    /\ None \notin Stream /\ None \notin Query

VARIABLES
    phase,       \* where a command is
    stream,      \* the valid stream it holds, if any
    retries,     \* maxRetries_
    unprepared,  \* unPreparedErrorCount_
    order,       \* indexes this attempt sends a PREPARE for (prepareResults)
    sent,        \* how many of them are sent
    results,     \* the responses to them so far
    ids,         \* per index, the prepared id in the message, if any
    error,       \* the exception of the last failed attempt
    attempts,    \* attempts made (history)
    executed,    \* times a server has executed the command (history)
    cache,       \* per node, getPreparedQueryId
    prepared,    \* per node, the queries its server has prepared
    open,        \* streams whose connection is open
    requests,    \* per stream, requests the server has not answered
    replies      \* per stream, responses nobody has read

flowVars == <<retries, unprepared, error, attempts>>
prepareVars == <<order, sent, results, ids>>
serverVars == <<prepared, executed>>
channelVars == <<open, requests, replies>>
vars == <<phase, stream, flowVars, prepareVars, cache, serverVars, channelVars>>

Phase == {"new", "acquiring", "preparing", "sending", "waiting", "succeeded",
          "failed", "retrying", "throwing", "done"}

\* Responses: RESULT of kind Prepared, RESULT of another kind, ERROR by its
\* code, or a message of another type.  UnPreparedQuery is a user error too.
UserError == {"UnPrepared", "Invalid"}
ErrorReply == UserError \cup {"ServerError"}
Reply == [kind : {"Prepared"}, id : Query] \cup
         [kind : {"Result", "Other"} \cup ErrorReply, id : {None}]

Request == [kind : {"PREPARE"}, cmd : Cmd, uses : Query] \cup
           [kind : {"RUN"}, cmd : Cmd, uses : SUBSET Query]

\* Exceptions: RetryException, ResponseErrorException, LogicException of an
\* unexpected response, a failed send or receive, no connection from the pool.
Exception == {"none", "retry", "response", "unexpected", "network", "unavailable"}

Index(c) == DOMAIN Queries[c]

TypeOK ==
    /\ phase \in [Cmd -> Phase]
    /\ stream \in [Cmd -> Stream \cup {None}]
    /\ retries \in [Cmd -> Nat]
    /\ unprepared \in [Cmd -> {0, 1}]
    /\ DOMAIN order = Cmd /\ \A c \in Cmd : order[c] \in Seq(Index(c))
    /\ sent \in [Cmd -> Nat]
    /\ results \in [Cmd -> Seq(Reply)]
    /\ DOMAIN ids = Cmd /\ \A c \in Cmd : ids[c] \in [Index(c) -> Query \cup {None}]
    /\ error \in [Cmd -> Exception]
    /\ attempts \in [Cmd -> Nat]
    /\ executed \in [Cmd -> Nat]
    /\ cache \in [Node -> [Query -> Query \cup {None}]]
    /\ prepared \in [Node -> SUBSET Query]
    /\ open \subseteq Stream
    /\ requests \in [Stream -> Seq(Request)]
    /\ replies \in [Stream -> Seq(Reply)]

-----------------------------------------------------------------------------
(* RetryFlow *)

\* Seeded bug: any first error gets the extra try.
AnyFirstError(c, kind) == unprepared[c] = 0

\* An UNPREPARED that is answered by preparing again, once per command.
PreparesAgain(c, kind) == kind = "UnPrepared" /\ unprepared[c] = 0

\* Errors like SyntaxError are not worth a retry.
ShouldRetryFor(kind) == kind \notin UserError

\* The exception handleErrorMessage raises, by the retries left.
Raised(left) == IF left > 0 THEN "retry" ELSE "response"

\* handleErrorMessage.  The ids evicted are those of the command's queries
\* that need preparing, on the node of the connection in use; `known` is the
\* cache as the caller leaves it.
HandleErrorMessage(c, kind, known) ==
    LET again == PreparesAgain(c, kind)
        left == IF again THEN retries[c] + 1
                ELSE IF ShouldRetryFor(kind) THEN retries[c] ELSE 0
        evicted == {Queries[c][i] : i \in NeedPrepare[c]}
        node == NodeOf[stream[c]]
    IN  /\ cache' = IF again
                    THEN [known EXCEPT ![node] =
                            [q \in Query |-> IF q \in evicted THEN None ELSE @[q]]]
                    ELSE known
        /\ unprepared' = [unprepared EXCEPT ![c] = IF again THEN 1 ELSE @]
        /\ retries' = [retries EXCEPT ![c] = left]
        /\ error' = [error EXCEPT ![c] = Raised(left)]
        /\ phase' = [phase EXCEPT ![c] = "failed"]

\* Seeded bug: the retries left are kept.
UnexpectedKeepsRetries(c) ==
    /\ error' = [error EXCEPT ![c] = "unexpected"]
    /\ phase' = [phase EXCEPT ![c] = "failed"]
    /\ UNCHANGED <<retries, unprepared>>

\* handleUnexpectMessage and handleUnexpectResultKind
HandleUnexpected(c) ==
    /\ retries' = [retries EXCEPT ![c] = 0]
    /\ error' = [error EXCEPT ![c] = "unexpected"]
    /\ phase' = [phase EXCEPT ![c] = "failed"]
    /\ UNCHANGED unprepared

\* An exception nobody handles before handle_exception.
Throws(c, exception) ==
    /\ error' = [error EXCEPT ![c] = exception]
    /\ phase' = [phase EXCEPT ![c] = "failed"]
    /\ UNCHANGED <<retries, unprepared>>

-----------------------------------------------------------------------------
(* The loop of attempts *)

\* query, execute, batchExecute: the early returns, or the first attempt.
Call(c) ==
    /\ phase[c] = "new"
    /\ IF c \in Moved \/ Queries[c] = <<>>
       THEN /\ phase' = [phase EXCEPT ![c] = "done"]
            /\ error' = [error EXCEPT ![c] = IF c \in Moved THEN "unexpected" ELSE @]
            /\ UNCHANGED attempts
       ELSE /\ phase' = [phase EXCEPT ![c] = "acquiring"]
            /\ attempts' = [attempts EXCEPT ![c] = @ + 1]
            /\ UNCHANGED error
    /\ UNCHANGED <<stream, retries, unprepared, prepareVars, cache, serverVars, channelVars>>

InUse == {s \in Stream : \E c \in Cmd : stream[c] = s}

\* What prepareQuery and prepareQueries find in the cache of node n.
CachedIds(c, n) ==
    [i \in Index(c) |-> IF i \in NeedPrepare[c] THEN cache[n][Queries[c][i]] ELSE None]

Missing(c, n) == {i \in NeedPrepare[c] : cache[n][Queries[c][i]] = None}

\* The elements of a set of numbers, in order.
Increasing(S) ==
    {p \in [1 .. Cardinality(S) -> S] : \A i, j \in DOMAIN p : i < j => p[i] < p[j]}

\* A stream of an open connection, of a new one, or of a lost one that
\* returnConnection hands on.  The queries without an id are listed in order.
GetConnection(c, s) ==
    /\ phase[c] = "acquiring"
    /\ s \notin InUse
    /\ \/ UNCHANGED channelVars
       \/ /\ s \notin open
          /\ open' = open \cup {s}
          /\ requests' = [requests EXCEPT ![s] = <<>>]
          /\ replies' = [replies EXCEPT ![s] = <<>>]
    /\ stream' = [stream EXCEPT ![c] = s]
    /\ ids' = [ids EXCEPT ![c] = CachedIds(c, NodeOf[s])]
    /\ \E missing \in Increasing(Missing(c, NodeOf[s])) :
          /\ order' = [order EXCEPT ![c] = missing]
          /\ phase' = [phase EXCEPT ![c] = IF missing = <<>> THEN "sending" ELSE "preparing"]
    /\ sent' = [sent EXCEPT ![c] = 0]
    /\ results' = [results EXCEPT ![c] = <<>>]
    /\ UNCHANGED <<flowVars, cache, serverVars>>

NoConnection(c) ==
    /\ phase[c] = "acquiring"
    /\ Throws(c, "unavailable")
    /\ UNCHANGED <<stream, attempts, prepareVars, cache, serverVars, channelVars>>

\* sendMessage and waitNextMessage on a lost connection; responses that were
\* received before the loss are still read.
SendFails(c) ==
    /\ phase[c] = "sending" \/ (phase[c] = "preparing" /\ sent[c] < Len(order[c]))
    /\ stream[c] \notin open
    /\ Throws(c, "network")
    /\ UNCHANGED <<stream, attempts, prepareVars, cache, serverVars, channelVars>>

WaitFails(c) ==
    /\ phase[c] = "waiting" \/ (phase[c] = "preparing" /\ sent[c] = Len(order[c]))
    /\ stream[c] \notin open /\ replies[stream[c]] = <<>>
    /\ Throws(c, "network")
    /\ UNCHANGED <<stream, attempts, prepareVars, cache, serverVars, channelVars>>

\* One PREPARE after the other, and then their responses.
SendPrepare(c) ==
    /\ phase[c] = "preparing" /\ sent[c] < Len(order[c])
    /\ stream[c] \in open
    /\ sent' = [sent EXCEPT ![c] = @ + 1]
    /\ LET query == Queries[c][order[c][sent[c] + 1]]
       IN  requests' = [requests EXCEPT ![stream[c]] =
                           Append(@, [kind |-> "PREPARE", cmd |-> c, uses |-> query])]
    /\ UNCHANGED <<phase, stream, flowVars, order, results, ids, cache, serverVars, open, replies>>

\* Seeded bug: the first response that is not a prepared id is handled at once.
StopsAtFirstError(c) ==
    \/ Len(results[c]) = Len(order[c])
    \/ \E k \in DOMAIN results[c] : results[c][k].kind # "Prepared"

\* Seeded bug: one response too many is waited for.
OneMoreReceived(c) == Len(results[c]) = Len(order[c]) + 1

\* All responses are received before any is handled.
AllReceived(c) == Len(results[c]) = Len(order[c])

ReceivePrepared(c) ==
    /\ phase[c] = "preparing" /\ sent[c] = Len(order[c])
    /\ ~AllReceived(c)
    /\ replies[stream[c]] # <<>>
    /\ results' = [results EXCEPT ![c] = Append(@, Head(replies[stream[c]]))]
    /\ replies' = [replies EXCEPT ![stream[c]] = Tail(@)]
    /\ UNCHANGED <<phase, stream, flowVars, order, sent, ids, cache, serverVars, open, requests>>

\* The responses are moved out of prepareResults.
NoResults(c) ==
    /\ order' = [order EXCEPT ![c] = <<>>]
    /\ sent' = [sent EXCEPT ![c] = 0]
    /\ results' = [results EXCEPT ![c] = <<>>]

\* Seeded bug: the position among the responses taken for the query's index.
PositionAsIndex(c, k) == k

\* The query whose PREPARE the k-th response answers.
QueryIndex(c, k) == order[c][k]

\* The k-th result is not an id although all before it are.
Bad(c, k) == results[c][k].kind # "Prepared" /\ \A j \in 1 .. k - 1 : results[c][j].kind = "Prepared"

\* The ids are stored in order, up to the first response that is none, which
\* ends the attempt.  (A batch may hold a query twice, with one id for both.)
HandlePrepared(c) ==
    /\ phase[c] = "preparing" /\ sent[c] = Len(order[c])
    /\ AllReceived(c)
    /\ LET node == NodeOf[stream[c]]
           bad == {k \in DOMAIN results[c] : Bad(c, k)}
           stored == {k \in DOMAIN results[c] : \A j \in 1 .. k : results[c][j].kind = "Prepared"}
           For(q) == {k \in stored : Queries[c][QueryIndex(c, k)] = q}
           At(i) == {k \in stored : QueryIndex(c, k) = i}
           known == [cache EXCEPT ![node] =
               [q \in Query |-> IF For(q) = {} THEN @[q]
                                ELSE results[c][CHOOSE k \in For(q) : TRUE].id]]
       IN  /\ ids' = [ids EXCEPT ![c] =
                  [i \in Index(c) |-> IF At(i) = {} THEN @[i]
                                      ELSE results[c][CHOOSE k \in At(i) : TRUE].id]]
           /\ \/ /\ bad = {}
                 /\ cache' = known
                 /\ phase' = [phase EXCEPT ![c] = "sending"]
                 /\ UNCHANGED <<retries, unprepared, error>>
              \/ \E k \in bad :
                    /\ results[c][k].kind \in ErrorReply
                    /\ HandleErrorMessage(c, results[c][k].kind, known)
              \/ /\ \E k \in bad : results[c][k].kind \notin ErrorReply
                 /\ HandleUnexpected(c)
                 /\ cache' = known
    /\ NoResults(c)
    /\ UNCHANGED <<stream, attempts, serverVars, channelVars>>

NoIds(c) == [i \in Index(c) |-> None]

\* QUERY, EXECUTE or BATCH, with the prepared ids in it; the message is moved.
SendCommand(c) ==
    /\ phase[c] = "sending"
    /\ stream[c] \in open
    /\ LET used == {ids[c][i] : i \in Index(c)} \ {None}
       IN  requests' = [requests EXCEPT ![stream[c]] =
                           Append(@, [kind |-> "RUN", cmd |-> c, uses |-> used])]
    /\ phase' = [phase EXCEPT ![c] = "waiting"]
    /\ ids' = [ids EXCEPT ![c] = NoIds(c)]
    /\ UNCHANGED <<stream, flowVars, order, sent, results, cache, serverVars, open, replies>>

\* The response to it: a RESULT of any kind, an error, or anything else.
ReceiveResult(c) ==
    /\ phase[c] = "waiting"
    /\ replies[stream[c]] # <<>>
    /\ LET kind == Head(replies[stream[c]]).kind
       IN  \/ /\ kind \in {"Result", "Prepared"}
              /\ phase' = [phase EXCEPT ![c] = "succeeded"]
              /\ error' = [error EXCEPT ![c] = "none"]
              /\ UNCHANGED <<retries, unprepared, cache>>
           \/ /\ kind \in ErrorReply
              /\ HandleErrorMessage(c, kind, cache)
           \/ /\ kind = "Other"
              /\ HandleUnexpected(c)
              /\ UNCHANGED cache
    /\ replies' = [replies EXCEPT ![stream[c]] = Tail(@)]
    /\ UNCHANGED <<stream, attempts, prepareVars, serverVars, open, requests>>

\* Seeded bug: a retry that is not counted.
RetriesStay(c) == retries[c]

RetriesAfterRetry(c) == retries[c] - 1

\* Seeded bug: off by one.
MayRetryAtZero(c) == retries[c] >= 0

MayRetry(c) == retries[c] > 0

\* RetryFlow::determinate
Determinate(c) ==
    /\ phase[c] = "failed"
    /\ \/ /\ MayRetry(c)
          /\ retries' = [retries EXCEPT ![c] = RetriesAfterRetry(c)]
          /\ phase' = [phase EXCEPT ![c] = "retrying"]
       \/ /\ ~MayRetry(c)
          /\ phase' = [phase EXCEPT ![c] = "throwing"]
          /\ UNCHANGED retries
    /\ UNCHANGED <<stream, unprepared, error, attempts, prepareVars, cache, serverVars, channelVars>>

\* finally: the stream goes back, and the loop ends or makes another attempt,
\* which starts with a new message and no responses.
Finally(c) ==
    /\ \/ /\ phase[c] = "retrying"
          /\ phase' = [phase EXCEPT ![c] = "acquiring"]
          /\ attempts' = [attempts EXCEPT ![c] = @ + 1]
       \/ /\ phase[c] \in {"succeeded", "throwing"}
          /\ phase' = [phase EXCEPT ![c] = "done"]
          /\ UNCHANGED attempts
    /\ stream' = [stream EXCEPT ![c] = None]
    /\ ids' = [ids EXCEPT ![c] = NoIds(c)]
    /\ NoResults(c)
    /\ UNCHANGED <<retries, unprepared, error, cache, serverVars, channelVars>>

-----------------------------------------------------------------------------
(* The servers and the network *)

\* What the server of node n may answer to a request.  It executes a command
\* only if it knows every prepared id in it; a ServerError, such as a write
\* timeout, may leave the command executed.
Answer(n, request, kind) ==
    LET Runs(done) == executed' = [executed EXCEPT ![request.cmd] = IF done THEN @ + 1 ELSE @]
    IN  \/ /\ request.kind = "PREPARE" /\ kind = "Prepared"
           /\ prepared' = [prepared EXCEPT ![n] = @ \cup {request.uses}]
           /\ UNCHANGED executed
        \/ /\ request.kind = "RUN" /\ request.uses \subseteq prepared[n]
           /\ \/ kind = "Result" /\ Runs(TRUE)
              \/ kind = "ServerError" /\ Runs(TRUE)
           /\ UNCHANGED prepared
        \/ /\ request.kind = "RUN" /\ ~(request.uses \subseteq prepared[n])
           /\ kind = "UnPrepared"
           /\ UNCHANGED serverVars
        \/ /\ kind \in {"Invalid", "ServerError", "Other"}
           /\ UNCHANGED serverVars

ServerAnswers(s) ==
    /\ requests[s] # <<>>
    /\ LET request == Head(requests[s])
       IN  \E kind \in {"Prepared", "Result", "Other"} \cup ErrorReply :
              /\ Answer(NodeOf[s], request, kind)
              /\ replies' = [replies EXCEPT ![s] =
                    Append(@, [kind |-> kind,
                               id   |-> IF kind = "Prepared" THEN request.uses ELSE None])]
    /\ requests' = [requests EXCEPT ![s] = Tail(@)]
    /\ UNCHANGED <<phase, stream, flowVars, prepareVars, cache, open>>

\* A server drops a prepared statement, or restarts.
ServerForgets(n, q) ==
    /\ q \in prepared[n]
    /\ prepared' = [prepared EXCEPT ![n] = @ \ {q}]
    /\ UNCHANGED <<phase, stream, flowVars, prepareVars, cache, executed, channelVars>>

\* The connection of a stream in use closes: responses already received stay.
ConnectionLost(s) ==
    /\ s \in open \cap InUse
    /\ open' = open \ {s}
    /\ requests' = [requests EXCEPT ![s] = <<>>]
    /\ \E k \in 0 .. Len(replies[s]) :
          replies' = [replies EXCEPT ![s] = SubSeq(@, 1, k)]
    /\ UNCHANGED <<phase, stream, flowVars, prepareVars, cache, serverVars>>

-----------------------------------------------------------------------------
Init ==
    /\ phase = [c \in Cmd |-> "new"]
    /\ stream = [c \in Cmd |-> None]
    /\ retries = MaxRetries
    /\ unprepared = [c \in Cmd |-> 0]
    /\ order = [c \in Cmd |-> <<>>]
    /\ sent = [c \in Cmd |-> 0]
    /\ results = [c \in Cmd |-> <<>>]
    /\ ids = [c \in Cmd |-> NoIds(c)]
    /\ error = [c \in Cmd |-> "none"]
    /\ attempts = [c \in Cmd |-> 0]
    /\ executed = [c \in Cmd |-> 0]
    /\ cache = [n \in Node |-> [q \in Query |-> None]]
    /\ prepared = [n \in Node |-> {}]
    /\ open = {}
    /\ requests = [s \in Stream |-> <<>>]
    /\ replies = [s \in Stream |-> <<>>]

CommandStep(c) ==
    \/ Call(c) \/ NoConnection(c) \/ SendFails(c) \/ WaitFails(c)
    \/ SendPrepare(c) \/ ReceivePrepared(c) \/ HandlePrepared(c)
    \/ SendCommand(c) \/ ReceiveResult(c) \/ Determinate(c) \/ Finally(c)
    \/ \E s \in Stream : GetConnection(c, s)

Next ==
    \/ \E c \in Cmd : CommandStep(c)
    \/ \E s \in Stream : ServerAnswers(s) \/ ConnectionLost(s)
    \/ \E n \in Node, q \in Query : ServerForgets(n, q)

Spec == Init /\ [][Next]_vars

\* A command that can go on does, the pool answers, a server answers.
FairSpec ==
    /\ Spec
    /\ \A c \in Cmd : WF_vars(CommandStep(c))
    /\ \A s \in Stream : WF_vars(ServerAnswers(s))

-----------------------------------------------------------------------------
(* Properties *)

\* A stream of an open connection is given back with nothing outstanding on
\* it: prepareQueries reads every response before it looks at an error, so the
\* next command on the stream does not read an answer to somebody else.
StreamReturnedClean ==
    \A s \in open \ InUse : requests[s] = <<>> /\ replies[s] = <<>>

\* Responses a command has asked for and not got.
Outstanding(c) ==
    IF phase[c] = "preparing" THEN sent[c] - Len(results[c])
    ELSE IF phase[c] = "waiting" THEN 1 ELSE 0

Holders(s) == {c \in Cmd : stream[c] = s}

\* A command that has met a lost connection; it keeps the stream until finally.
LostConnection(c) == phase[c] \in {"failed", "retrying", "throwing"} /\ error[c] = "network"

\* The commands as users of streams.
userBar ==
    [s \in Stream |-> IF Holders(s) = {} THEN "free"
                      ELSE IF \E c \in Holders(s) : LostConnection(c) THEN "failed"
                      ELSE "using"]
owedBar ==
    [s \in Stream |-> IF Holders(s) = {} THEN 0
                      ELSE Outstanding(CHOOSE c \in Holders(s) : TRUE)]
requestsBar == [s \in Stream |-> Len(requests[s])]
repliesBar == [s \in Stream |-> Len(replies[s])]

Users == INSTANCE Channels WITH
    user <- userBar, owed <- owedBar, requests <- requestsBar, replies <- repliesBar

\* The session uses streams as a connection promises to serve them, and needs
\* no more than that: it sends and waits only on a stream it holds, waits only
\* for what it has asked for, and gives a stream back with every response read
\* or after an error of the connection (prepareQueries, waitNextMessage,
\* finally), so the next command does not read an answer to another one.
KeepsChannels == Users!Spec

\* Cached ids, ids in a message and their queries are never mixed up, and a
\* message goes out with the id of every query that asked to be prepared:
\* responses of pipelined PREPAREs are matched to queries by order alone.
RightIds ==
    /\ \A n \in Node, q \in Query : cache[n][q] \in {None, q}
    /\ \A c \in Cmd : phase[c] = "sending" =>
          \A i \in Index(c) :
             ids[c][i] = IF i \in NeedPrepare[c] THEN Queries[c][i] ELSE None

\* A command that is reported successful has been executed: the RESULT that
\* query, execute and batchExecute take for theirs is theirs.
SuccessMeansExecuted ==
    \A c \in Cmd :
        phase[c] \in {"succeeded", "done"} /\ error[c] = "none" /\ attempts[c] > 0
            => executed[c] > 0

\* maxRetries_ and the one extra try for UNPREPARED bound the attempts.
RetriesBounded ==
    \A c \in Cmd : attempts[c] <= MaxRetries[c] + 1 + unprepared[c]

\* The extra try never repeats an execution: servers execute a command at most
\* once per try the caller asked for, and once if no retry was asked for.
ExecutionsBounded ==
    \A c \in Cmd : executed[c] <= MaxRetries[c] + 1

\* An attempt follows only an error RetryFlow calls retryable, a failure of
\* the connection or none available, never an error it has given up on.
FinalErrorsAreFinal ==
    [][\A c \in Cmd : attempts'[c] # attempts[c] =>
          error[c] \in {"none", "retry", "network", "unavailable"}]_vars

\* Every command ends, whatever fails and however often servers forget.
EveryCommandEnds == \A c \in Cmd : <>(phase[c] = "done")
=============================================================================
