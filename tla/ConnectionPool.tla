--------------------------- MODULE ConnectionPool ---------------------------
(***************************************************************************)
(* The connection pool of one core: clients (the commands a session runs)  *)
(* take a stream of a pooled connection, wait for one when none is idle,   *)
(* and give it back.  Spawn loops connect to the nodes that NodeCollection *)
(* chooses, and two timers feed the waiters and drop idle connections.     *)
(*                                                                         *)
(* Everything runs on one reactor thread: an action is one task, what runs *)
(* between two suspension points of the code, and tasks interleave.  What  *)
(* follows a suspended repeat loop (its finally) is a task of its own.     *)
(*                                                                         *)
(* The order of allConnections_ only decides ties of max_element and which *)
(* connections remove_if meets first; the pool is a set here and those     *)
(* choices are nondeterministic.  A stream is represented by the client    *)
(* that holds it: the free streams of a connection are those nobody holds. *)
(***************************************************************************)
EXTENDS Integers, Sequences, FiniteSets, SequencesExt

CONSTANTS
    Conn,         \* identities of connection objects, reused once unreferenced
    Client,       \* the callers of the pool, each with one stream at a time
    Slot,         \* identities of running spawn loops
    NoConn,       \* the null connection pointer
    N,            \* number of nodes
    MinPoolSize, MaxPoolSize, MaxWaiters,  \* SessionConfiguration
    MaxStreams,   \* NodeConfiguration, stream zero included
    MayDrop,      \* clients that may drop a stream without returning it
    OneShot       \* clients that call the pool once only

ASSUME PoolAssumption ==
    /\ IsFiniteSet(Slot)
    /\ IsFiniteSet(Conn)
    /\ NoConn \notin Conn
    /\ N \in Nat \ {0}
    /\ MinPoolSize \in Nat /\ MaxPoolSize \in Nat /\ MaxWaiters \in Nat
    /\ MaxStreams \in Nat /\ MaxStreams >= 2     \* setMaxStreams
    /\ MayDrop \subseteq Client /\ OneShot \subseteq Client

VARIABLES
    isFault, nextIndex, faultNodeIndexes,  \* the node collection
    allConnections,  \* allConnections_
    ready,           \* the connection objects whose isReady_ is set
    handle,          \* per client, the connection whose stream it holds
    waiters,         \* waiters_, the clients whose promise is unresolved
    loop,            \* per slot, where a spawn loop is
    node,            \* per slot, the node a spawn loop is connecting to
    failures,        \* per slot, the count of failed attempts of a spawn loop
    findTimer, dropTimer,  \* the two timers
    finished         \* the one-shot clients that have called

nodeVars == <<isFault, nextIndex, faultNodeIndexes>>
spawnVars == <<loop, node, failures>>
vars == <<nodeVars, allConnections, ready, handle, waiters, spawnVars,
          findTimer, dropTimer, finished>>

Node == 0 .. N - 1

Off == "off"
\* A spawn loop is connecting, about to choose the next node, or has stopped
\* and its finally is still to run.
LoopState == {Off, "connecting", "choosing", "ending"}
\* A timer sleeps, or has stopped and its finally is still to run.
TimerState == {Off, "sleeping", "ending"}

TypeOK ==
    /\ allConnections \subseteq Conn
    /\ ready \subseteq Conn
    /\ handle \in [Client -> Conn \cup {NoConn}]
    /\ waiters \in Seq(Client)
    /\ loop \in [Slot -> LoopState]
    /\ node \in [Slot -> Node]
    /\ failures \in [Slot -> 0 .. N - 1]
    /\ findTimer \in TimerState
    /\ dropTimer \in TimerState
    /\ finished \subseteq OneShot

-----------------------------------------------------------------------------
(* Connections and streams *)

\* Open attempts per node, as the node collection sees this pool.
Attempts ==
    [n \in Node |-> Cardinality({s \in Slot : loop[s] = "connecting" /\ node[s] = n})]

Nodes == INSTANCE NodeCollection
         WITH attempts <- Attempts, MaxAttempts <- Cardinality(Slot) + 1

Holders(c) == {cl \in Client : handle[cl] = c}

\* Seeded bug: stream zero counted among the free streams.
FreeStreamsWithZero(c) == MaxStreams - Cardinality(Holders(c))

\* getFreeStreamsCount: stream zero is never free.
FreeStreams(c) == (MaxStreams - 1) - Cardinality(Holders(c))

\* Seeded bug: isAllStreamsFree off by one.
AllButOneFree(c) == Cardinality(Holders(c)) <= 1

\* isAllStreamsFree
AllStreamsFree(c) == Holders(c) = {}

\* Objects nobody refers to: the identities a new connection may take.
Unreferenced == {c \in Conn \ allConnections : Holders(c) = {}}

\* Spawn loops that have not stopped yet, and connectingCount_, which still
\* counts the stopped ones whose finally has not run.
Pending == {s \in Slot : loop[s] \in {"connecting", "choosing"}}
connectingCount == Cardinality({s \in Slot : loop[s] # Off})

-----------------------------------------------------------------------------
(* tryGetConnection, run once for each element of a queue of clients until  *)
(* a run finds no stream: feedWaiters runs it on waiters_, getConnection on *)
(* the caller alone.  grant[i] is the connection the i-th run returns.      *)

FreeAfter(grant, i, c) ==
    FreeStreams(c) - Cardinality({j \in 1 .. i : grant[j] = c})

\* Each run takes a stream of the ready connection with the most free ones.
Greedy(pool, grant) ==
    \A i \in DOMAIN grant :
        /\ grant[i] \in pool
        /\ FreeAfter(grant, i - 1, grant[i]) > 0
        /\ \A c \in pool : FreeAfter(grant, i - 1, c) <= FreeAfter(grant, i - 1, grant[i])

\* The run after the last successful one finds every ready connection full.
Exhausted(pool, grant) ==
    \A c \in pool : FreeAfter(grant, Len(grant), c) = 0

\* The runs made: all the successful ones, and a failing one if somebody is
\* left in the queue.
Runs(queue, grant) ==
    IF Len(grant) < Len(queue) THEN 1 .. Len(grant) + 1 ELSE 1 .. Len(grant)

\* max_element meets, and a run erases, a closed connection with more free
\* streams than any ready one; with as many, the order of the vector decides.
Erased(pool, live, queue, grant, erased) ==
    LET Over(c, i) == \A r \in live : FreeStreams(c) > FreeAfter(grant, i - 1, r)
        Tied(c, i) == \A r \in live : FreeStreams(c) >= FreeAfter(grant, i - 1, r)
    IN  /\ erased \subseteq pool \ live
        /\ \A c \in pool \ live :
              /\ (\E i \in Runs(queue, grant) : Over(c, i)) => c \in erased
              /\ c \in erased => \E i \in Runs(queue, grant) : Tied(c, i)

\* One grant per client of the queue, as far as the streams go.
TryGetEach(pool, live, queue, grant, erased) ==
    /\ Greedy(pool \cap live, grant)
    /\ Len(grant) < Len(queue) => Exhausted(pool \cap live, grant)
    /\ Erased(pool, pool \cap live, queue, grant, erased)

Grants(pool, queue) ==
    UNION {[1 .. k -> pool] : k \in 0 .. Len(queue)}

HandleAfter(queue, grant) ==
    [cl \in Client |->
        IF \E i \in DOMAIN grant : queue[i] = cl
        THEN grant[CHOOSE i \in DOMAIN grant : queue[i] = cl]
        ELSE handle[cl]]

\* feedWaiters on a pool and its ready connections.
FeedWaiters(pool, live) ==
    \E grant \in Grants(pool, waiters), erased \in SUBSET (pool \ live) :
        /\ TryGetEach(pool, live, waiters, grant, erased)
        /\ handle' = HandleAfter(waiters, grant)
        /\ waiters' = SubSeq(waiters, Len(grant) + 1, Len(waiters))
        /\ allConnections' = pool \ erased

-----------------------------------------------------------------------------
(* Spawn loops *)

\* spawnConnection: the loop starts at once, up to the connect.
Spawn(s, n) ==
    /\ loop[s] = Off
    /\ Nodes!ChooseOneNode(n)
    /\ loop' = [loop EXCEPT ![s] = "connecting"]
    /\ node' = [node EXCEPT ![s] = n]
    /\ UNCHANGED failures

SpawnOne == \E s \in Slot, n \in Node : Spawn(s, n)

NoSpawn == UNCHANGED <<spawnVars, nodeVars>>

\* Seeded bug: the node shared by the loops, so the one chosen last is reported.
LastChosenFailed(s) == Nodes!ReportFailure((nextIndex + N - 1) % N)

AttemptFailed(s) == Nodes!ReportFailure(node[s])

\* Seeded bug: > for >=, one attempt more.
OneMoreAttempt(s) == failures[s] + 1 > N

\* ++count >= getNodesCount()
AllAttempted(s) == failures[s] + 1 >= N

CleanWaiters == waiters' = <<>>

\* connection->ready() succeeds: the new connection joins the pool and feeds
\* the waiters.
SpawnSucceeds(s) ==
    /\ loop[s] = "connecting"
    /\ Nodes!ReportSuccess(node[s])
    /\ \E c \in Unreferenced :
          /\ ready' = ready \cup {c}
          /\ FeedWaiters(allConnections \cup {c}, ready \cup {c})
    /\ loop' = [loop EXCEPT ![s] = "ending"]
    /\ UNCHANGED <<node, failures, findTimer, dropTimer, finished>>

\* connection->ready() fails and the count has not reached the nodes' number.
SpawnFails(s) ==
    /\ loop[s] = "connecting"
    /\ AttemptFailed(s)
    /\ ~AllAttempted(s)
    /\ loop' = [loop EXCEPT ![s] = "choosing"]
    /\ failures' = [failures EXCEPT ![s] = @ + 1]
    /\ UNCHANGED <<node, allConnections, ready, handle, waiters,
                   findTimer, dropTimer, finished>>

\* The count has reached it: cleanWaiters fails every waiter.
SpawnGivesUp(s) ==
    /\ loop[s] = "connecting"
    /\ AttemptFailed(s)
    /\ AllAttempted(s)
    /\ CleanWaiters
    /\ loop' = [loop EXCEPT ![s] = "ending"]
    /\ UNCHANGED <<node, failures, allConnections, ready, handle,
                   findTimer, dropTimer, finished>>

\* The next iteration of the loop.
SpawnRetries(s) ==
    /\ loop[s] = "choosing"
    /\ \E n \in Node :
          /\ Nodes!ChooseOneNode(n)
          /\ node' = [node EXCEPT ![s] = n]
    /\ loop' = [loop EXCEPT ![s] = "connecting"]
    /\ UNCHANGED <<failures, allConnections, ready, handle, waiters,
                   findTimer, dropTimer, finished>>

\* The finally of the loop: --connectingCount_.
SpawnEnds(s) ==
    /\ loop[s] = "ending"
    /\ loop' = [loop EXCEPT ![s] = Off]
    /\ node' = [node EXCEPT ![s] = 0]
    /\ failures' = [failures EXCEPT ![s] = 0]
    /\ UNCHANGED <<nodeVars, allConnections, ready, handle, waiters,
                   findTimer, dropTimer, finished>>

-----------------------------------------------------------------------------
(* getConnection *)

\* Seeded bug: the timer not started.
LeaveFindTimer == UNCHANGED findTimer

StartFindTimer == findTimer' = IF findTimer = Off THEN "sleeping" ELSE findTimer
StartDropTimer == dropTimer' = IF dropTimer = Off THEN "sleeping" ELSE dropTimer

Calls(cl) ==
    /\ handle[cl] = NoConn
    /\ cl \notin ToSet(waiters)
    /\ cl \notin finished
    /\ finished' = finished \cup ({cl} \cap OneShot)

BelowMin == Cardinality(allConnections) < MinPoolSize
AddWaiter(cl) == waiters' = Append(waiters, cl)

\* Fewer connections than the minimum: wait for a new one, or, with enough of
\* them on the way, for the timer.
GetBelowMin(cl) ==
    /\ Calls(cl)
    /\ BelowMin
    /\ AddWaiter(cl)
    /\ IF Cardinality(allConnections) + connectingCount < MinPoolSize
       THEN SpawnOne /\ UNCHANGED findTimer
       ELSE StartFindTimer /\ NoSpawn
    /\ UNCHANGED <<allConnections, ready, handle, dropTimer>>

\* tryGetConnection finds a stream.
GetIdleStream(cl) ==
    /\ Calls(cl)
    /\ ~BelowMin
    /\ \E c \in allConnections, erased \in SUBSET (allConnections \ ready) :
          /\ TryGetEach(allConnections, ready, <<cl>>, <<c>>, erased)
          /\ handle' = [handle EXCEPT ![cl] = c]
          /\ allConnections' = allConnections \ erased
    /\ UNCHANGED <<ready, waiters, spawnVars, nodeVars, findTimer, dropTimer>>

\* It finds none.
NoIdleStream(cl) ==
    /\ Calls(cl)
    /\ ~BelowMin
    /\ \E erased \in SUBSET (allConnections \ ready) :
          /\ TryGetEach(allConnections, ready, <<cl>>, <<>>, erased)
          /\ allConnections' = allConnections \ erased
    /\ UNCHANGED <<ready, handle>>

\* Seeded bug: the connections being made not counted.
FullOfConnections == Cardinality(allConnections') >= MaxPoolSize

\* poolIsFull, after the closed connections have been erased.
PoolIsFull == Cardinality(allConnections') + connectingCount >= MaxPoolSize

GetSpawns(cl) ==
    /\ NoIdleStream(cl)
    /\ ~PoolIsFull
    /\ AddWaiter(cl)
    /\ SpawnOne
    /\ StartDropTimer
    /\ UNCHANGED findTimer

GetWaits(cl) ==
    /\ NoIdleStream(cl)
    /\ PoolIsFull
    /\ Len(waiters) < MaxWaiters
    /\ AddWaiter(cl)
    /\ StartFindTimer
    /\ NoSpawn
    /\ UNCHANGED dropTimer

GetRejected(cl) ==
    /\ NoIdleStream(cl)
    /\ PoolIsFull
    /\ Len(waiters) >= MaxWaiters
    /\ NoSpawn
    /\ UNCHANGED <<waiters, findTimer, dropTimer>>

GetConnection(cl) ==
    GetBelowMin(cl) \/ GetIdleStream(cl) \/ GetSpawns(cl) \/ GetWaits(cl) \/ GetRejected(cl)

-----------------------------------------------------------------------------
(* Giving a stream back *)

\* returnConnection: the stream is freed and, if somebody waits, the first
\* waiter gets a stream of the same connection.
ReturnConnection(cl) ==
    /\ handle[cl] # NoConn
    /\ IF waiters = <<>>
       THEN handle' = [handle EXCEPT ![cl] = NoConn] /\ UNCHANGED waiters
       ELSE /\ handle' = [handle EXCEPT ![cl] = NoConn,
                                        ![Head(waiters)] = handle[cl]]
            /\ waiters' = Tail(waiters)
    /\ UNCHANGED <<nodeVars, allConnections, ready, spawnVars,
                   findTimer, dropTimer, finished>>

\* The stream goes out of scope (~ConnectionStream): the pool is not told.
DropStream(cl) ==
    /\ cl \in MayDrop
    /\ handle[cl] # NoConn
    /\ handle' = [handle EXCEPT ![cl] = NoConn]
    /\ UNCHANGED <<nodeVars, allConnections, ready, waiters, spawnVars,
                   findTimer, dropTimer, finished>>

\* Connection::close, while some stream of the connection is in use.
ConnectionCloses(c) ==
    /\ c \in ready
    /\ Holders(c) # {}
    /\ ready' = ready \ {c}
    /\ UNCHANGED <<nodeVars, allConnections, handle, waiters, spawnVars,
                   findTimer, dropTimer, finished>>

-----------------------------------------------------------------------------
(* The timers *)

\* Seeded bug: the timer never makes a connection.
NeverTooFew == FALSE

TooFewConnections ==
    Cardinality(allConnections') + connectingCount < MinPoolSize

\* findIdleConnectionTimer wakes up.
FindTimerTicks ==
    /\ findTimer = "sleeping"
    /\ FeedWaiters(allConnections, ready)
    /\ findTimer' = IF waiters' = <<>> THEN "ending" ELSE "sleeping"
    /\ IF waiters' # <<>> /\ TooFewConnections
       THEN SpawnOne
       ELSE NoSpawn
    /\ UNCHANGED <<ready, dropTimer, finished>>

\* Seeded bug: the check against the task race dropped.
StaysOff == Off

\* Its finally: start again if a waiter came in the meantime.
AfterFindTimer == IF waiters = <<>> THEN Off ELSE "sleeping"

FindTimerEnds ==
    /\ findTimer = "ending"
    /\ findTimer' = AfterFindTimer
    /\ UNCHANGED <<nodeVars, allConnections, ready, handle, waiters, spawnVars,
                   dropTimer, finished>>

\* A dropped connection that no stream refers to is destroyed, which closes it.
Unheld(dropped) == {c \in dropped : Holders(c) = {}}

Idle == {c \in allConnections \cap ready : AllStreamsFree(c)}
Closed == allConnections \ ready

\* remove_if drops every closed connection, and idle ones while the count is
\* over the minimum; how many depends on which come first in the vector.
Droppable(idle) ==
    LET surplus == Cardinality(allConnections) - MinPoolSize
    IN  /\ Cardinality(idle) <= surplus
        /\ idle = Idle \/ Cardinality(idle) + Cardinality(Closed) >= surplus

\* dropIdleConnectionTimer wakes up.
DropTimerTicks ==
    /\ dropTimer = "sleeping"
    /\ IF Cardinality(allConnections) <= MinPoolSize
       THEN dropTimer' = "ending" /\ UNCHANGED <<allConnections, ready>>
       ELSE \E idle \in SUBSET Idle :
              /\ Droppable(idle)
              /\ allConnections' = (allConnections \cap ready) \ idle
              /\ ready' = ready \ Unheld(idle)
              /\ dropTimer' = IF Cardinality(allConnections') <= MinPoolSize
                              THEN "ending" ELSE "sleeping"
    /\ UNCHANGED <<nodeVars, handle, waiters, spawnVars, findTimer, finished>>

DropTimerEnds ==
    /\ dropTimer = "ending"
    /\ dropTimer' = Off
    /\ UNCHANGED <<nodeVars, allConnections, ready, handle, waiters, spawnVars,
                   findTimer, finished>>

-----------------------------------------------------------------------------
Init ==
    /\ Nodes!NodesInit
    /\ allConnections = {}
    /\ ready = {}
    /\ handle = [cl \in Client |-> NoConn]
    /\ waiters = <<>>
    /\ loop = [s \in Slot |-> Off]
    /\ node = [s \in Slot |-> 0]
    /\ failures = [s \in Slot |-> 0]
    /\ findTimer = Off
    /\ dropTimer = Off
    /\ finished = {}

SpawnStep(s) ==
    \/ SpawnSucceeds(s) \/ SpawnFails(s) \/ SpawnGivesUp(s)
    \/ SpawnRetries(s) \/ SpawnEnds(s)

ClientStep(cl) == GetConnection(cl) \/ ReturnConnection(cl) \/ DropStream(cl)

TimerStep == FindTimerTicks \/ FindTimerEnds \/ DropTimerTicks \/ DropTimerEnds

Next ==
    \/ \E cl \in Client : ClientStep(cl)
    \/ \E s \in Slot : SpawnStep(s)
    \/ \E c \in Conn : ConnectionCloses(c)
    \/ TimerStep

Spec == Init /\ [][Next]_vars

\* The reactor runs every task that is due: timers fire and finally blocks run.
\* A connection attempt ends (the server answers, or the socket breaks), and a
\* client that holds a stream gives it back.  Nothing makes a client call, a
\* stream be dropped instead of returned, or a connection close.
Fairness ==
    /\ WF_vars(FindTimerTicks) /\ WF_vars(FindTimerEnds)
    /\ WF_vars(DropTimerTicks) /\ WF_vars(DropTimerEnds)
    /\ \A s \in Slot : WF_vars(SpawnStep(s))
    /\ \A cl \in Client : WF_vars(ReturnConnection(cl) \/ DropStream(cl))

FairSpec == Spec /\ Fairness

-----------------------------------------------------------------------------
(* Properties *)

Larger(a, b) == IF a >= b THEN a ELSE b

\* The live connections of the pool and those being made never exceed the
\* configured maximum (the minimum, if that is larger), whatever the clients,
\* the spawn loops and the two timers do: a connection object that is still
\* usable is never outside the pool's count (getConnection, spawnConnection,
\* findIdleConnectionTimer and dropIdleConnectionTimer each test the sizes at
\* another moment).
LiveConnectionsBounded ==
    Cardinality(allConnections \cup ready) + Cardinality(Pending)
        <= Larger(MinPoolSize, MaxPoolSize)

\* A client never waits with nobody left to answer it: while somebody waits,
\* either the find timer runs, or for every waiter there is a spawn loop that
\* has not stopped, each of which will feed at least one waiter or fail them
\* all.
NoLostWaiter ==
    waiters # <<>> => findTimer # Off \/ Len(waiters) <= Cardinality(Pending)

\* A usable connection somebody holds a stream of stays in the pool, so its
\* other streams stay available and it stays counted; the drop timer and the
\* clean-up of tryGetConnection only let go of closed or unused ones.
HeldStaysPooled ==
    \A cl \in Client : handle[cl] \in ready => handle[cl] \in allConnections

\* No connection carries more streams than its node allows, however grants of
\* the spawn loops, the timer, the callers and the returns interleave.
StreamsNotOvercommitted ==
    \A c \in Conn : Cardinality(Holders(c)) <= MaxStreams - 1

\* The pool drives the node collection as NodeCollection allows it: it chooses
\* once per connection attempt and reports each attempt exactly once.
NodesSpec == Nodes!Spec

\* Every waiter gets a stream or an error.
EveryWaiterAnswered ==
    \A cl \in Client : cl \in ToSet(waiters) ~> cl \notin ToSet(waiters)
=============================================================================
