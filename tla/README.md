# A TLA+ development of cpv-cql-driver

cpv-cql-driver is a CQL (Cassandra, Scylla) client library on seastar. Each core
has its own session, pool and connections; everything below runs on one reactor
thread, and concurrency is the interleaving of continuations, timers and
detached loops. These modules model that core logic and the protocol it speaks,
from the pool of connections down to the bytes of a frame; TLC checks them on
small instances, and TLAPS proves the most important invariants for every size.

Paths are relative to the repository.

## 1. Inventory

| component | state | operations | correctness |
|---|---|---|---|
| `NodeCollection` (`src/Common/NodeCollectionImpl.cpp`) | fault mark per node, round-robin index, retry queue | `chooseOneNode`, `reportFailure`, `reportSuccess` | marks and queue agree; choosing never fails; no node starves |
| `ConnectionPool` (`src/LowLevel/ConnectionPool.cpp`) | connections, `connectingCount_`, waiters, two timer flags, detached spawn loops | `getConnection`, `returnConnection`, spawn loops, find timer, drop timer | pool bounds, no lost waiter, no connection in use dropped, no stream handed out twice |
| `Connection` (`src/LowLevel/Connection.cpp`) | socket, free stream ids, send chain, promise and queue per stream, promise count | `ready` (handshake), `openStream`, `sendMessage`, `waitNextMessage`, `close` | each response reaches the user that asked; no waiter hangs; failures close the connection |
| `ConnectionStream` | one stream id and the free list it goes back to | open, close, move | an id has one owner |
| `Session`, `RetryFlow` (`src/HighLevel/Session.cpp`) | retry counters, connection and stream of the command | `query`, `execute`, `batchExecute`, prepare pipeline | bounded retries, the stream given back once, prepared ids evicted |
| handshake, authenticators | the phase of `ready()` | OPTIONS, STARTUP, AUTHENTICATE, AUTH_RESPONSE, `use` | it ends; no other request before it has; both sides agree on compression, readiness and keyspace |
| `NodeConfiguration`, `SessionConfiguration` | settings, DNS cache, prepared ids | setters, `updateIpAddress`, `getPreparedQueryId` | cache lifetime |
| `SocketHolder`, connectors | the socket | connect, `in`, `out`, close | no use after close |
| `Reusable` | thread-local free lists of commands, messages and result sets | `makeReusable`, move, release | an object has one owner, and nothing of its last use shows |
| `MessageHeader`, request and response messages | members of a message | `reset`, `encodeBody`, `decodeBody` | a request says what the command says; a response is what the server sent |
| `ProtocolTypes` | metadata objects, decoded into again and again | encode, decode, setters | decode inverts encode; short input is refused |
| `ColumnTypes`, `ColumnTrait` | none | encode, decode, dates, decimal arithmetic | a column comes back as it was |
| `Command`, `BatchCommand` | a request under construction | setters, `addParameters`, `openParameterSet` | counts agree with the bytes; a reused one starts empty |
| `ResultSet` | a buffer and how far it is read | `fill` | rows in order, none invented |
| compressors | none | `compress`, `decompress` | length prefix; both sides agree when it applies |
| `SessionFactory`, loggers, metrics, `UUIDUtils`, errors | | | wiring, I/O, tables |

How they interact: a session calls `getConnection` for every attempt of a
command, sends and waits on the stream it gets, and calls `returnConnection` in
a `finally`. The pool hands out streams of its connections, and connects through
detached spawn loops that ask `NodeCollection` for a node and report the outcome.
A connection closes itself on any send or receive error; the pool is not told and
finds out when it next meets the connection. A message refers to the command it
is for and is encoded when its turn to be sent comes; a response is decoded into
an object of a free list, and its result set leaves it by a move.

What is hard: the `finally` of a detached loop is a task of its own, so flags and
counts are stale in between; size tests are made at four places at different
moments; closed connections stay in the vector; one receiver per connection
starts and stops with the waiters; a frame read before a close is delivered after
it; stream ids, messages and result sets are reused, and `reset()` does not touch
every member; flags announce what is read only later; lengths are narrowed to the
width of their field; a failed spawn loop fails everybody's promise; and nothing
has a timeout. PROJECT.json lists these hazards at their lines.

## 2. Modules and plan

| module | models | status |
|---|---|---|
| `NodeCollection` | the node chooser, with callers that open and report attempts | done |
| `ConnectionPool` | the pool; composes `NodeCollection` as `Nodes` | done |
| `Connection` | one connection, its handshake, its users, its peer | done |
| `Channels` | what a connection promises to the users of its streams; `Connection` and `Session` compose it as `Users`, one implements it and the other needs no more | done |
| `Session` | `RetryFlow`, `query`, `execute`, `batchExecute`, prepare cache and pipeline over an abstract pool, connections and servers | done |
| `Wire` | what bytes are: integers, sized strings, lists and maps, vints, the two monads of decoding | done |
| `ColumnTypes` | columns, dates, times, decimals; extends `Wire` | done |
| `Metadata` | column options and the metadata of results; extends `Wire` | done |
| `Messages` | commands, batches, parameters, headers, every request and response; extends `Metadata` | done |
| `Codecs` | an item written by one side and read by the other; composes `ColumnTypes` and `Metadata` | done |
| `Reusable` | who owns the objects of the free lists, whatever is in them | done |
| `Exchange` | the path of a command to its rows; composes `Messages` and `ColumnTypes`, implements `Reusable` as `Lists` | done |
| `MCNodeCollection`, `MCConnectionPool`, `MCSession`, `MCCodecs`, `MCExchange` | instances for TLC, and the node chooser's loops as reference definitions | done |
| `NodeCollection_proofs`, `Reusable_proofs` | the theorems about these two | done |
| `ConnectionPool_proofs`, `PoolNodes_proofs` | the theorems about the pool: bounds and waiters, streams, the implementation of `NodeCollection` | done |
| `Connection_proofs` | the theorems about a connection, its handshake, its stream ids, and that it implements `Channels` | done |
| `Session_proofs`, `SessionAnswers_proofs` | the theorems about a session: retries and streams, prepared ids and results, and that it implements `Channels` | done |

`Wire`, `ColumnTypes`, `Metadata` and `Messages` have no state. They are recursive,
as the protocol is, so nothing is proved about them or the modules that use them.
`Channels` has its few proofs at its end, so that a theorem about it can be
carried over to either module that implements it.

Every safety property of the modules that are not recursive is a theorem. What is
left to TLC is at the end of section 5.

## 3. How the modules follow the code

**Tasks.** An action is what the code runs between two suspension points. What
follows a suspended `repeat` (its `finally`) is an action of its own: the loop
state `"ending"` of spawn loops and timers is that gap.

**NodeCollection.** A node is its index in the sorted array. `Healthy`,
`PicksHealthy`, `PicksFault` and `PicksAfterWrap` say which node the enumeration
of `chooseOneNode` returns; `MCNodeCollection` writes the loops of
`chooseOneNode` and `reportSuccess` out and checks that every step does what they
do (`RunsTheLoops`). `attempts` counts, per node, what
callers have chosen and not yet reported, so reports arrive in any order.

**ConnectionPool.** `allConnections` is a set: the order of the vector only
breaks ties of `max_element` and decides which connections `remove_if` meets
first, and both are nondeterministic here (`Erased`, `Droppable`). A stream is
the client that holds it (`handle`). `ready` holds the objects whose `isReady_` is set, whether or
not the pool still refers to them; identities of objects nobody refers to are
reused. `TryGetEach` is `tryGetConnection` run for a queue of clients, which
covers `feedWaiters` and `getConnection`. A connection closes only while somebody
holds a stream of it, because the code reads and writes the socket only on behalf
of a user. Metrics are left out.

**Connection.** `sendQueue` and `sendPhase` are the chain of `sendingFuture_`; a
message may reach the server from its `put` on and be answered before the send is
over. `failing` counts receivers whose read has failed but whose
`handle_exception` has not run: several may exist on a closed connection. A frame
is its stream, since which request of a stream a response answers is given by
order alone. `BadFrame` stands for whatever does not decode, is too long or names
a stream out of range. A user behaves as `Session` does: it gives its stream back
with all responses read, or after an error. It may send and wait in any order, a
superset of the pipeline of `prepareQueries`. Stream zero belongs to `ready()`:
`stage` is how far it is, `reply` what its last request was answered with,
`AcceptedReplies` what it goes on after, and `peer` what the server has made of
the requests so far, so that both sides can be compared. `openStream` is possible
once `isReady_` is set. The server answers requests of a stream in order and never
sends a frame on a stream without a request.

**Channels.** Per stream: who uses it (`"free"`, `"using"`, or `"failed"` after an
error), the responses this user has asked for and not got (`owed`), the requests
the receiver has no response to and the responses nobody has read. A user sends,
reads what it has asked for, and gives the stream back with nothing owed or after
an error; connections are lost, together with any users that wait, and responses
that were in may still be read. `Connection` maps a request to the moment of its
`put`: `owedBar` counts the put of a send that has not finished, `requestsBar`
what the server has and what is on the wire, `repliesBar` the received queue and
the frame that is being delivered. A connection whose `ready()` has not connected
yet counts as open. `Session` maps a stream by the command that holds it: what that
command waits for (`Outstanding`), and whether it has met a lost connection and
not come to `finally` yet (`LostConnection`). The session does not run on
`Connection` in one model; `Channels` is what ties the two: `Session`'s own streams,
which fail one by one, ask for no more than a connection gives.

**Session.** A command is one of `query`, `execute` (one query) or `batchExecute`
(any number, none included). `phase` is where its chain of continuations is:
`prepareQuery` and `prepareQueries` are `"preparing"`, which sends every PREPARE
(`SendPrepare`), receives every response (`ReceivePrepared`) and then handles them
in order (`HandlePrepared`); for one query the three are what `prepareQuery` does.
`"failed"` is the exception on its way to `handle_exception`, `"retrying"` and
`"throwing"` what `RetryFlow::determinate` made of it, and `Finally` gives the
stream back in either case. `order` and `results` are `prepareResults`, `ids` the
prepared ids in the message, `cache` the `preparedQueryIds` of the nodes. A
prepared id is represented by the query it was given for, so a wrong id shows
(`RightIds`). `GetConnection` takes any stream nobody uses: of an open connection,
of a new one, or of a lost one, which `returnConnection` may hand to a waiter.
Errors are `UnPrepared`, `Invalid` (every other user error) and `ServerError`
(the rest, which may leave the command executed). Streams fail one by one, which
includes the streams of one connection failing together, and servers answer the
requests of a stream in order, as in `Connection`. `attempts` and `executed` are
history. A request that does not encode is the send failure of this module; which
requests do not encode is in `Messages`.

**Wire, ColumnTypes, Metadata, Messages.** Encoding gives a sequence of bytes or
`Thrown`; decoding gives a value and the rest (`Took`) or `Refused`, and `Bind` and
`Map` chain it the way `decode` calls follow each other; `Cat` chains encodings. A
protocol type is a descriptor (its kind, its length type, its item type), which
takes the place of the templates. `Bits` is the width of a byte, so that the limits
of a `[short]` come within reach; with `Bits = 8` it is the program's own. A
decoder of metadata takes the object it decodes into, because what it leaves alone
matters. The words of a STARTUP are single letters. C++ arithmetic (truncating
division, conversion to unsigned, wrapping) is written out where the code relies
on it (`Quot`, `Rem`, `Signed`, `Narrowed`).

**Codecs.** `Write` encodes an item, `Deliver` hands over all of it, its beginning,
or it with more behind it, and `Parse` decodes it into the object the last item of
its kind left. `PutBody` starts from the bytes, written by another client. Local
dates and times are encoded in a zone, which the C++ types have in the environment:
`Date` and `Time` of the model name it, and items of several zones are tried.

**Reusable.** An object is an address; `used` has the addresses of a type that are
in use, `free` its free list and `has` what each client with its connection owns.
`inner` is the member `resultSet_` of a RESULT message. `freeResources` of a message
does nothing, so a message that goes to the free list takes its result set with it,
and only the `reset()` of the next `makeReusable` lets that go (`Reset`); a message
that finds its free list full is destroyed, and its result set goes to the free list
of its own type (`Release`). The header warns not to keep a `Reusable` after
`freeResources` (`Reusable.hpp:44`), which a result message does; what the warning
is about is the end of the thread, which is not modelled.

**Exchange.** A client's steps follow a command: `Call` builds it, `MakeRequest`
makes the message that refers to it, `Send` encodes the message and `Sent` releases
it, `Serve` is the server, which reads the frame with the decoders of the driver's
own tests and answers with a whole body or a cut one. `ReceiveHeader` makes the
message object of the answer and `ReceiveBody` decodes into it, the two being
separated by a read of the socket; `TakeResultSet` or `TakeMessage` is what the
session does with it, `Fill` reads a row, and `LetResultSetGo` and `Finish` release
what the client has. `memory` and `has` say who owns what, as in `Reusable`, and
`heap` what is in every object, the unused ones included. The clients share the free
lists and nothing else. `Lists` is `Reusable` for these clients and types, and
`KeepsLists` says that an exchange implements it.

## 4. Runs

| run | shows |
|---|---|
| `node_rotation` | 3 nodes, 2 open attempts per node: `FaultQueueExact`, `ChooseNeverThrows`, the loops, and that every node whose mark settles is chosen for ever |
| `pool_safety` | 3 clients, pool of 1 to 2, two streams each: bounds, no lost waiter, nothing in use dropped |
| `pool_nodes` | 2 nodes, one stream per connection, no waiters for a full pool: the pool implements `NodeCollection!Spec` through the mapping of `attempts` to the loops that are connecting |
| `pool_live` | every waiter is answered; one client comes back for ever, the other calls once and may drop its stream, so at times only the find timer is left |
| `connection_safety` | a handshake without options, then 3 streams, pipeline 2, queue 1: responses matched, waiters counted, the receiver runs exactly for waiters, a queue overflows only under a pipeline longer than it |
| `connection_live` | every setting of compression, password and keyspace against servers that answer anything, then 2 streams: both sides agree on what the handshake set up, it ends, and so does every wait and every send; every step is one of `Channels` or none |
| `session_safety` | a batch of two queries and a command of one of them, one with a retry, 2 streams, all answers, losses and forgotten statements: ids never mixed up, success means executed, attempts and executions bounded, no attempt after a final error |
| `session_live` | every command ends: a batch with a retry, a command that prepares nothing, and one that was moved from; every step is one of `Channels` or none |
| `codecs` | every protocol and column type at the limits of a byte of three bits, metadata of every combination of flags into new and used objects: what is written is read, nothing cut is accepted, columns read and written back are the same, in three time zones, vints are as short as they can be, decimals compute what numbers do |
| `exchange` | two clients, one compressing, over free lists of one object: queries, executed statements, batches and the driver's own requests, every answer whole and cut: the server reads what the program said, the client gets its own answer, its rows in order, every object has one owner, and every step is one of `Reusable` or none |

Runs that end in a counterexample, each a place where the code does not do what
its comment or documentation says:

| run | the code |
|---|---|
| `pool_quiet_nomin` | with `setMinPoolSize(0)` a waiter may wait for ever: when the last connection closes, the find timer keeps polling but spawns only below the minimum (`ConnectionPool.cpp:200`) |
| `dates` | a date in a summer before 1970 is the next day when it is read and written back: `mktime` is told standard time, so the date is kept as an hour past midnight, and the division truncates towards zero (`Date.hpp:35`) |

**Bounds.** Every behaviour of the pool needs at most two connections (one full
or closed, one other), two loops (one stopping, one starting) and three clients
(holder, waiter, newcomer). `BoundsLargeEnough` checks that there is a slot for
every loop the size tests allow and an identity for every object that can be
referred to, so no bound disables an action. `MaxStreams = 2` is the smallest
value `setMaxStreams` accepts, one usable stream, where callers meet a full pool
soonest; 3 makes connections partly used. For the connection, three streams give
a waiter, a queued response and a sender at once; `MaxPipeline` bounds the
unanswered requests of a stream and exceeds `MaxPendingMessages`, so that queues
overflow. `MaxStreams` counts stream zero: 4 in `connection_safety`, 3 in
`connection_live`, where the settings of the handshake multiply the states.
That a step is one of `Channels` is checked in the two live runs, which close
connections and hand a stream from one command to the next; the larger instances
of the safety runs satisfy it as well but take the better part of five minutes, and
section 5 proves it for every size. `MaxAttempts = 2` open attempts per node makes a second report meet a mark the
first has changed. For the session, a batch and a command that share a query meet in
the cache, in the server's prepared statements and, in `session_live`, on one
stream they use in turn; a query the command has prepared leaves the batch only
its second one to prepare, so that a position among the responses differs from
the query's index. One retry and the extra try make three attempts. Nothing else is
bounded: attempts, answers and losses end by themselves. In `codecs` a byte has
three bits, so a `[short]` ends at 63 and every date whose seconds fit an `int32` is tried; a day has 6
seconds, a second 4 ticks and a millisecond 2, since only their order and
divisibility matter. `exchange` has bytes of eight bits, because flags are bits. A free
list of one object makes the second use meet the first, and makes it overflow when
both clients give an object back; each client runs up to two jobs, a long one
before a short one, so that what is left over would show (the script of the driver's
own requests has six). Symmetry is used in safety runs only, over sets no constant
singles a member of.

**Fairness.** The reactor runs every task that is due, so timers fire and
`finally` blocks run. `SpawnStep` is fair: a connection attempt ends, because the
server answers or the socket breaks (the code has no timeout; without the
assumption nothing about waiters holds, which is a hazard of its own). A client
that holds a stream gives it back (`Session` does in a `finally`). In `Connection`
sends and frames already read are processed, a read ends with a frame or an
error, and the server answers what it has got. In `Session` a command that can go
on does, the pool answers, and the server answers (the code has no timeout, so a
silent server hangs a command). `ready()` goes on when it has its answer, as any
continuation does (`ReadyStep`, `UserStep(0)`). Nothing forces a client to call, a
connection to close, or a spawn to succeed rather than fail.

**Deadlock.** Checked, except where the system really stops: a connection whose
`ready()` has failed or that is closed, sessions and clients that have run all their
commands, an item that has been decoded.

**Mutants.** For each property of a passing run the modules hold one seeded bug,
an operator that changes a mapped definition the way a mistake in the code
would; with it in place TLC finds the property violated. They are the
definitions commented "Seeded bug" and no action uses them.

## 5. Proofs

All are checked by `tlapm`, from the constants' assumptions only
(at least one node, finite sets of loops and connections, `MaxStreams >= 2`, and a
`Capacity` of free lists that is a natural number).

`NodeCollection_proofs`: `TypeCorrect`, `FaultQueueIsExact`, `ChooseIsTotal`, for
any number of nodes and attempts. The invariant `NodesInv` (types and
`QueueExact`) is inductive by itself; the work is in the lemmas about the queue:
rotation is a permutation, a push of an unqueued node and the removal of a node
keep the elements distinct. `SomeNodeIsChosen` then splits on whether a healthy
node is left ahead, a fault node is queued, or no node is fault at all.

`ConnectionPool_proofs`: `TypeCorrect`, `LiveConnectionsAreBounded`,
`NoWaiterIsLost`, `HeldConnectionsStayPooled`, for any clients, connections,
loops, sizes and streams. None of these is inductive alone. `IInv` adds
`ReadyPooled` (every open connection object is in the pool, which makes the two
counts of a connection agree) and `SizeBounded`, which counts only loops that have
not stopped. The code's tests also count the stopped ones, so each test implies
the bound for what comes after it, and a successful loop trades its place for a
connection. For waiters the step that matters is a loop that succeeds: its new
connection has a free stream (`MaxStreams >= 2`), so feeding serves at least one
waiter (`FeedServesSomebody`) while one loop less remains. There is one lemma per
action.

`Connection_proofs`: `TypeCorrect`, `ResponsesAreMatched`, `WaitersAreCounted`,
`ReceiverRuns`, `PoisonedConnectionsAreClosed`, `FullQueueIsOwnFault`,
`BothSidesAgree`, for any number of streams, size of the queues, length of the
pipelines and settings. The inductive invariant has two halves. `IInv` is about the
streams: the chain of sends holds exactly the users that are sending, each once
(`SendersQueued`), the free ids belong to free streams (`IdsFree`), a waiter is owed
a response (`OwedBounds`), there is one receiver, running or failed, for as long as
somebody waits (`OneReceiver`), and the counts of requests and responses agree
(`Matched`). Most of it holds only while the connection is `Live`, open or not made
yet: `CloseFacts` shows that a close restores what is asked of a closed one
whatever the state before it. How many frames of a stream are on the wire is a
cardinality; `TimesAppend` and `TimesTail` say how it changes. `FullQueueIsOwnFault`
then is arithmetic: the frame read and a full queue are in flight, and all that is in
flight was requested. `HInv` is about `ready()`: it has one request at a time
(`Asks`, by `Matched` for stream zero), nobody else uses the connection before it is
over, so that a close is always an error of its own send or wait (`Alone`), and what
the server takes the connection for follows from the stage and the reply
(`Handshake`). There is one lemma per action in each half.

Two further results are at the end of `Connection_proofs`. `ConnectionKeepsChannels`
says that a connection implements `Channels`, for any number of streams, limits and
settings. There is one lemma per action: `OpenStream` is a `Take`, a `Put` a `Send`,
the end of a read an `Answer`, a delivery or the pop of a queue a `Read`, and every
close a `Lose` (`ClosedLoses`), whichever of its four causes it has; the rest is
unseen. A frame that is read before a close and delivered after it is where the
mapping is least obvious: the request is gone, and the frame is a response nobody
may read but who has asked for it. The one fact the earlier invariant lacks is
`FreeOwesNothing`. `UsersGetTheirOwn` is the consequence: unlike `ResponsesMatched`,
it says something of closed connections too. `FreeStreamsAreCounted` says that
`getFreeStreamsCount` is the number of streams nobody uses, which is what
`ConnectionPool` takes it for (`FreeStreams`, `AllStreamsFree`); beyond `IdsFree` it
needs that the id of every free stream is in the list (`IdsListed`), and that only
`openStream` and the close of a stream free anybody (`OthersFreeNobody`).

`Channels`: `AnswersAreOwn`, for any streams. `AnswersOwn` is inductive with the
types: on an open connection what is on a stream is exactly what its user is owed,
and on a lost one no more than that for as long as the user expects anything. That
the next user finds nothing (`FreeIsClean`) follows, since a user who owes itself a
response cannot give the stream back.

`Session_proofs`: `TypeCorrect`, `StreamsAreReturnedClean`, `RetriesAreBounded`,
`ExecutionsAreBounded`, `FinalErrors`, for any commands, queries, streams, nodes
and retries. The inductive `IInv` has three parts. `StreamsOwned`,
`ChannelsMatched` and `RunsAwaited`: a stream has one user, an open one carries
exactly as many requests and responses as its user has asked for and not read
(`Outstanding`), and a QUERY, EXECUTE or BATCH on its way belongs to a command
that waits for it. `RetriesCounted` and `RetryableOnly`: attempts made and
retries left add up to what is allowed, and retries are left only after an error
that permits one; `FlowSteps` reduces the actions to the five things a step can
do to these counters. `ExecutionsCounted` joins both: an attempt either may still
execute the command (`MayExecute`), or has executed it, or was refused as
UNPREPARED, and only the last adds a try. It needs `RunsAwaited` and
`ChannelsMatched`, since a server executes a request on some stream and the
count is of a command.

The last part of `ConnectionPool_proofs`: `StreamsAreNotOvercommitted`,
`GrantsReplaceNoStream`, for any clients, loops, connections and sizes. That a connection never has more holders than
streams is not inductive: it needs that a waiter holds no stream, or serving it
would hand out two for one client (`WaitersHoldNothing`), and that every connection,
in the pool or dropped from it, is within its streams (`HoldersBounded`). What
`FeedWaiters` hands out at once is a sequence of grants; each found a free stream, so
those of a connection fit into what it had free (`GrantsFit`), whatever the order of
the vector.

`PoolNodes_proofs`: `PoolImplementsNodes`, with `PoolKeepsFaultQueue` and
`PoolAlwaysFindsNode` as its consequences, for any clients, loops, connections and
nodes. `Attempts` maps a node to the number of loops that are connecting to it. Every
action of the pool is a step of `NodeCollection` (an attempt begins when a loop
chooses a node, and ends when the loop reports) or leaves it alone: clients and timers
reach the collection only by starting a loop, and of a loop every step but its
`finally` is a choice or a report (`SpawnStepMaps`). The two consequences carry `FaultQueueExact` and `ChooseNeverThrows`
over to the pool, so a spawn loop never meets the throw of `chooseOneNode`.

`SessionAnswers_proofs`: `IdsAreRight`, `SuccessIsExecution`, for any commands, queries,
streams, nodes and retries. An id travels from a PREPARE through the server's answer,
a position among the results and the cache into the message of a command, and each
of these may be abandoned or evicted in between. `IdsInv` has one part for each
stage: the answers on a stream are those of the queries of its user, in the order
these were sent (`PreparesMatched`, stated by `InOrder`), the cache has each query under
its own id (`CacheRight`), and a message has an id for every query before it is sent
(`MessagesComplete`). `AnswersInv` says of the answer to the command itself that it is
on the stream of the command that waits for it (`AnswersOwned`) and that a command
which has succeeded was executed (`Outcome`).

`SessionKeepsChannels`, in the same module, says that the commands implement
`Channels`. A stream is mapped by its only holder (`BarsOfHolder`, by `StreamsOwned`),
so a step of one command leaves the streams of the others alone (`OthersUnseen`),
and each action comes down to what its command owes before and after:
`RequestSent` and `ReplyTaken` are one request or response more or less, `LossIsMet` the
two failures, and an error in a response is never taken for one of the connection
(`AnswersLoseNothing`). That a response is read only when one is owed needs
`IdsInv` (no more results than PREPAREs sent). `CommandsGetTheirOwn` is the consequence.
Both modules implementing `Channels`, with `AnswersAreOwn`, is the argument that
pipelined PREPAREs, retries and reused streams never let a command read an answer
to another one.

`Reusable_proofs`: `ObjectsHaveOneOwner`, for any clients, types, addresses and natural
capacity. The property is inductive once it is said of one type at a time:
`Sound` asks of every type that its free list, what clients hold and what is inside
messages are apart and make up what is used, with each holder's object its
own (`Apart`). The lemmas follow the life of an object: `TakeSound` (from the free
list or new), `AttachSound` and `DetachSound` (into a message and out of it),
`EmptySound`, `PutSound` and `ReleaseSound`, and `GiveHeld`, `LoseHeld`, `SwapHeld` for
the clients; each action is then a chain of two or three of them. `Exchange` is
out of the prover's reach, since its messages are recursive; what links the theorem
to it is that it implements `Reusable`, which TLC checks (`KeepsLists`).

Only model-checked: all of `Codecs`; of `Exchange` the contents of messages
(`RequestSaysCommand`, `AnswerArrives`, `RowsFillInOrder`) and that it implements
`Reusable`; liveness under fairness (`EveryNodeHasItsTurn`, `EveryWaiterAnswered`,
`EveryWaitEnds`, `EverySendEnds`, `ReadyEnds`, `EveryCommandEnds`); and the code's
loops as recursive definitions (`RunsTheLoops`). Recursion over data, fairness and
`ENABLED` are beyond the prover used here.

## 6. Not modelled

Sockets, TLS, LZ4 itself, logging, metrics and UUID generation are I/O,
third-party or conversions nothing above depends on. The DNS cache of
`NodeConfiguration` changes only which address is tried. Of the column types, the
operators, streams and hashes that forward to the value are left out. `SessionFactory`
is wiring. The inputs leave out three things the code does not define, loses or does
not end: a column type nested in a column type of the same kind (the payload
of `ProtocolColumnOption` has one object per kind, `ProtocolColumnOption.cpp:166`: a
`list<list<int>>` is described as a `list<int>`, a tuple in a tuple is undefined),
a date so far off that `Date::decodeBody` overflows, and a RESULT of another kind
answering `use`, whose error is built from a message that has been moved away
(`Connection.cpp:127`). A column is a value here and its setters are not modelled: of
these, `set(const UnderlyingType&)` of a list, a set or a map assigns the member to
itself (`ListBase.hpp:26`), so it sets nothing, and no test calls it.

The passing run `codecs` also leaves out what its properties do not hold of, each
under a name in `MCCodecs` or as a condition of the property:

- a date in a summer before 1970 (`DaysOfPastSummers`), which the run `dates` has;
- a `Date` set to an instant before 1970 that is not a local midnight (the complement of
  `KeptDates`), which the division of `Date.hpp:35` writes as the next day in any
  season: with a second before the local epoch in `KeptDates`, `DecodeInvertsEncode`
  is violated;
- a `Time` in a zone whose first day of the epoch has summer time
  (`ZonesWithPlainEpoch`), as Chile's: `mktime` takes the time for standard time
  (`Time.hpp:31`), `localtime_r` reads it an hour later, and with all `Zones` in
  `TimeBodies`, `BodiesComeBack` is violated;
- a `Time` set to an instant before 1970, which may be negative when it is
  written (`Time.hpp:84`);
- negative decimals where an unsigned power of ten divides (`Decimal.hpp:46`,
  `DecimalOperations.hpp:99`): `DecimalsAreNumbers` excepts them.

A zone whose standard time has changed since the epoch is not modelled.

Some things the models show have no property because nothing in the repository
promises otherwise, or only loosely: a spawn loop counts its failures and not nodes,
so it may give up with a node untried (`ConnectionPool.cpp:138`); the drop timer
counts closed connections it has not met yet and may drop an open one below the
minimum (`:243`); the first UNPREPARED adds a try to those `setMaxRetries` allows
(`Session.cpp:61`), which executes nothing twice, as `ExecutionsBounded` shows;
below the minimum size a caller joins the waiters whatever their number
(`ConnectionPool.cpp:48`), and a loop that has stopped counts as connecting until
its `finally`, so a caller in between is refused early (`:65`). A waiter may also be
handed a stream of a connection that has just closed (`:90`), which costs it an
attempt and is part of `Session`. The repository has no test of `RetryFlow`
(`tests/Cases/HighLevel/TestSession.cpp:278-280`), and the metrics
`session_command_failed` and `session_batch_command_failed` count failed attempts,
which the models leave out. Memory lifetime
(`shared_from_this` in the detached loops) is taken as written: an object lives
while a loop or a user refers to it.
