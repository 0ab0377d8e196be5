------------------------ MODULE ConnectionPool_proofs ------------------------
(***************************************************************************)
(* Proofs about the connection pool for every set of clients, connections  *)
(* and spawn loops, and every pool size and stream limit: type             *)
(* correctness, the bound on live connections, no lost waiter, and that    *)
(* held connections stay pooled.  At the end, who holds the streams: no    *)
(* connection is given more clients than it has streams, and a client that *)
(* waits holds no stream.                                                  *)
(***************************************************************************)
EXTENDS ConnectionPool, FiniteSetTheorems, SequenceTheorems, TLAPS

-----------------------------------------------------------------------------
(* The inductive invariant *)

Size == Cardinality(allConnections)
PendingSize == Cardinality(Pending)

\* Every usable connection object is in the pool: what leaves the pool is
\* closed, or unused and destroyed.
ReadyPooled == ready \subseteq allConnections

\* The size tests of the code count the stopped loops as well; counting only
\* those still at work, the sum grows by no step of a loop.
SizeBounded == Size + PendingSize <= Larger(MinPoolSize, MaxPoolSize)

IInv == TypeOK /\ ReadyPooled /\ SizeBounded /\ NoLostWaiter

-----------------------------------------------------------------------------
(* Cardinalities *)

\* The counts that getConnection compares are natural numbers, and the count of
\* connecting loops covers the pending ones.
LEMMA SizesAreNaturals ==
    ASSUME TypeOK
    PROVE  /\ Size \in Nat /\ PendingSize \in Nat /\ connectingCount \in Nat
           /\ PendingSize <= connectingCount
           /\ IsFiniteSet(allConnections) /\ IsFiniteSet(Pending)
<1> DEFINE A == {s \in Slot : loop[s] # Off}
<1>1. IsFiniteSet(allConnections) /\ IsFiniteSet(Pending) /\ IsFiniteSet(A)
      BY PoolAssumption, FS_Subset DEF TypeOK, Pending
<1>2. Pending \subseteq A
      BY DEF Pending, Off
<1>3. Cardinality(Pending) <= Cardinality(A)
      BY <1>1, <1>2, FS_Subset
<1> QED BY <1>1, <1>3, FS_CardinalityType DEF Size, PendingSize, connectingCount

\* The larger of the two configured sizes is at least each of them.
LEMMA LargerProperties ==
    /\ Larger(MinPoolSize, MaxPoolSize) \in Nat
    /\ MinPoolSize <= Larger(MinPoolSize, MaxPoolSize)
    /\ MaxPoolSize <= Larger(MinPoolSize, MaxPoolSize)
BY PoolAssumption DEF Larger

\* A pool that only lost connections is no larger.
LEMMA ShrinkingPool ==
    ASSUME TypeOK, allConnections' \subseteq allConnections
    PROVE  Size' \in Nat /\ Size' <= Size
<1>1. IsFiniteSet(allConnections)
      BY SizesAreNaturals
<1> QED BY <1>1, FS_Subset, FS_CardinalityType DEF Size

\* A new spawn loop is one more pending loop.
LEMMA SpawnAddsPending ==
    ASSUME TypeOK, SpawnOne
    PROVE  PendingSize' = PendingSize + 1
<1>1. PICK s \in Slot, n \in Node : Spawn(s, n)
      BY DEF SpawnOne
<1>2. s \notin Pending /\ Pending' = Pending \cup {s}
      BY <1>1 DEF Spawn, Pending, TypeOK, Off, LoopState
<1>3. IsFiniteSet(Pending)
      BY SizesAreNaturals
<1> QED BY <1>2, <1>3, FS_AddElement DEF PendingSize

\* A new loop keeps the types of the slots and the history of the others.
LEMMA SpawnKeepsTypes ==
    ASSUME TypeOK, SpawnOne
    PROVE  /\ loop' \in [Slot -> LoopState] /\ node' \in [Slot -> Node]
           /\ failures' = failures
BY DEF SpawnOne, Spawn, TypeOK, LoopState

\* Leaving the slots alone leaves the pending loops alone.
LEMMA SameLoopSamePending ==
    ASSUME loop' = loop
    PROVE  Pending' = Pending /\ PendingSize' = PendingSize
BY DEF Pending, PendingSize

\* No new loop: as many pending loops as before.
LEMMA NoSpawnKeeps ==
    ASSUME TypeOK, NoSpawn
    PROVE  /\ loop' = loop /\ node' = node /\ failures' = failures
           /\ PendingSize' = PendingSize
BY SameLoopSamePending DEF NoSpawn, spawnVars

\* A loop that stops is one pending loop less.
LEMMA StopRemovesPending ==
    ASSUME TypeOK, NEW s \in Slot, loop[s] = "connecting",
           loop' = [loop EXCEPT ![s] = "ending"]
    PROVE  PendingSize' = PendingSize - 1
<1>1. s \in Pending /\ Pending' = Pending \ {s}
      BY DEF Pending, TypeOK
<1>2. IsFiniteSet(Pending)
      BY SizesAreNaturals
<1> QED BY <1>1, <1>2, FS_RemoveElement DEF PendingSize

\* A loop that goes on, or has stopped before, changes nothing.
LEMMA OtherLoopStepKeepsPending ==
    ASSUME TypeOK, NEW s \in Slot, NEW to \in LoopState,
           loop' = [loop EXCEPT ![s] = to],
           (loop[s] \in {"connecting", "choosing"}) <=> (to \in {"connecting", "choosing"})
    PROVE  PendingSize' = PendingSize
<1>1. Pending' = Pending
      BY DEF Pending, TypeOK
<1> QED BY <1>1 DEF PendingSize

-----------------------------------------------------------------------------
(* tryGetConnection and feedWaiters *)

\* What feedWaiters grants is a sequence of pooled connections, no longer than
\* the queue.
LEMMA GrantsAreSequences ==
    ASSUME NEW pool, NEW queue, Len(queue) \in Nat, NEW grant \in Grants(pool, queue)
    PROVE  /\ grant \in Seq(pool) /\ DOMAIN grant = 1 .. Len(grant)
           /\ Len(grant) \in 0 .. Len(queue)
<1>1. PICK k \in 0 .. Len(queue) : grant \in [1 .. k -> pool]
      BY DEF Grants
<1>2. k \in Nat
      BY <1>1
<1>3. grant \in Seq(pool)
      BY <1>1, <1>2, SeqDef
<1>4. DOMAIN grant = 1 .. Len(grant) /\ Len(grant) \in Nat
      BY <1>3, LenProperties
<1>5. Len(grant) = k
      BY <1>1, <1>2, <1>3
<1> QED BY <1>1, <1>3, <1>4, <1>5

\* Feeding hands streams of the pool's connections to the first waiters and
\* lets go of closed connections only.
LEMMA FeedProperties ==
    ASSUME TypeOK, NEW pool \in SUBSET Conn, NEW live, FeedWaiters(pool, live)
    PROVE  /\ handle' \in [Client -> Conn \cup {NoConn}]
           /\ waiters' \in Seq(Client)
           /\ Len(waiters') \in Nat /\ Len(waiters') <= Len(waiters)
           /\ allConnections' \subseteq pool
           /\ pool \cap live \subseteq allConnections'
<1>1. PICK grant \in Grants(pool, waiters), erased \in SUBSET (pool \ live) :
          /\ TryGetEach(pool, live, waiters, grant, erased)
          /\ handle' = HandleAfter(waiters, grant)
          /\ waiters' = SubSeq(waiters, Len(grant) + 1, Len(waiters))
          /\ allConnections' = pool \ erased
      BY DEF FeedWaiters
<1>2. Len(waiters) \in Nat /\ \A i \in 1 .. Len(waiters) : waiters[i] \in Client
      BY LenProperties DEF TypeOK
<1>3. /\ grant \in Seq(pool) /\ DOMAIN grant = 1 .. Len(grant)
      /\ Len(grant) \in 0 .. Len(waiters)
      BY <1>2, GrantsAreSequences
<1>4. \A i \in DOMAIN grant : grant[i] \in Conn
      BY <1>3, LenProperties
<1>5. handle' \in [Client -> Conn \cup {NoConn}]
  <2>1. ASSUME NEW cl \in Client
        PROVE  (IF \E i \in DOMAIN grant : waiters[i] = cl
                THEN grant[CHOOSE i \in DOMAIN grant : waiters[i] = cl]
                ELSE handle[cl]) \in Conn \cup {NoConn}
    <3>1. CASE \E i \in DOMAIN grant : waiters[i] = cl
      <4>1. (CHOOSE i \in DOMAIN grant : waiters[i] = cl) \in DOMAIN grant
            BY <3>1
      <4> QED BY <3>1, <4>1, <1>4
    <3>2. CASE ~\E i \in DOMAIN grant : waiters[i] = cl
          BY <3>2 DEF TypeOK
    <3> QED BY <3>1, <3>2
  <2> QED BY <2>1, <1>1 DEF HandleAfter
<1>6. /\ waiters' \in Seq(Client)
      /\ Len(waiters') = Len(waiters) - Len(grant)
  <2> DEFINE m == Len(grant) + 1
             n == Len(waiters)
  <2>1. m \in Int /\ n \in Int /\ \A i \in m .. n : waiters[i] \in Client
        BY <1>2, <1>3
  <2>2. /\ SubSeq(waiters, m, n) \in Seq(Client)
        /\ Len(SubSeq(waiters, m, n)) = IF m <= n THEN n - m + 1 ELSE 0
        BY <2>1, SubSeqProperties
  <2>3. (IF m <= n THEN n - m + 1 ELSE 0) = n - Len(grant)
    <3>1. CASE m <= n
          BY <3>1, <1>2, <1>3
    <3>2. CASE ~(m <= n)
      <4>1. n = Len(grant)
            BY <3>2, <1>2, <1>3
      <4>2. n - Len(grant) = 0
            BY <4>1, <1>2, <1>3
      <4> QED BY <3>2, <4>2
    <3> QED BY <3>1, <3>2
  <2> QED BY <2>2, <2>3, <1>1
<1> QED BY <1>1, <1>2, <1>3, <1>5, <1>6

\* With an open connection nobody uses in the pool, feeding serves somebody.
LEMMA FeedServesSomebody ==
    ASSUME TypeOK, NEW pool \in SUBSET Conn, NEW live, FeedWaiters(pool, live),
           NEW c \in pool, c \in live, Holders(c) = {}, waiters # <<>>
    PROVE  Len(waiters') < Len(waiters)
<1>1. PICK grant \in Grants(pool, waiters), erased \in SUBSET (pool \ live) :
          /\ TryGetEach(pool, live, waiters, grant, erased)
          /\ waiters' = SubSeq(waiters, Len(grant) + 1, Len(waiters))
      BY DEF FeedWaiters
<1>2. /\ Len(waiters) \in Nat \ {0}
      /\ \A i \in 1 .. Len(waiters) : waiters[i] \in Client
      BY LenProperties, EmptySeq DEF TypeOK
<1>3. Len(grant) \in 0 .. Len(waiters) /\ grant \in Seq(pool)
      BY <1>2, GrantsAreSequences
<1>4. Len(grant) # 0
  <2> SUFFICES ASSUME Len(grant) = 0 PROVE FALSE
      OBVIOUS
  <2>1. Exhausted(pool \cap live, grant)
        BY <1>1, <1>2 DEF TryGetEach
  <2>2. FreeAfter(grant, Len(grant), c) = 0
        BY <2>1 DEF Exhausted
  <2>3. {j \in 1 .. Len(grant) : grant[j] = c} = {}
        OBVIOUS
  <2>4. FreeStreams(c) - 0 = 0
        BY <2>2, <2>3, FS_EmptySet DEF FreeAfter
  <2>5. FreeStreams(c) = (MaxStreams - 1) - 0
        BY FS_EmptySet DEF FreeStreams
  <2> QED BY <2>4, <2>5, PoolAssumption
<1>5. Len(SubSeq(waiters, Len(grant) + 1, Len(waiters))) < Len(waiters)
  <2> DEFINE m == Len(grant) + 1
             n == Len(waiters)
  <2>1. m \in Int /\ n \in Int /\ \A i \in m .. n : waiters[i] \in Client
        BY <1>2, <1>3
  <2>2. Len(SubSeq(waiters, m, n)) = IF m <= n THEN n - m + 1 ELSE 0
        BY <2>1, SubSeqProperties
  <2>3. (IF m <= n THEN n - m + 1 ELSE 0) < n
        BY <1>2, <1>3, <1>4
  <2> QED BY <2>2, <2>3
<1> QED BY <1>1, <1>5

\* tryGetConnection erases closed connections only.
LEMMA TryGetKeepsReady ==
    ASSUME ReadyPooled, NEW erased \in SUBSET (allConnections \ ready)
    PROVE  ready \subseteq allConnections \ erased
BY DEF ReadyPooled

\* addWaiter makes the queue one longer.
LEMMA AppendWaiter ==
    ASSUME TypeOK, NEW cl \in Client, AddWaiter(cl)
    PROVE  /\ waiters' \in Seq(Client) /\ waiters' # <<>>
           /\ Len(waiters') = Len(waiters) + 1 /\ Len(waiters) \in Nat
BY AppendProperties, LenProperties DEF AddWaiter, TypeOK

-----------------------------------------------------------------------------
(* The initial state *)

\* Nobody waits and nothing connects in the pool that has just been made.
LEMMA InitInv == Init => IInv
<1> SUFFICES ASSUME Init PROVE IInv
    OBVIOUS
<1>1. TypeOK
      BY PoolAssumption, EmptySeq DEF Init, TypeOK, LoopState, TimerState, Node, Off
<1>2. Size = 0 /\ PendingSize = 0
  <2>1. Pending = {}
        BY DEF Init, Pending, Off
  <2> QED BY <2>1, FS_EmptySet DEF Init, Size, PendingSize
<1>3. SizeBounded
      BY <1>2, LargerProperties DEF SizeBounded
<1> QED BY <1>1, <1>3 DEF Init, IInv, ReadyPooled, NoLostWaiter

-----------------------------------------------------------------------------
(* The spawn loops keep the invariant *)

\* A new connection takes the place of its loop in the count, and, with its
\* streams all free, serves a waiter.
LEMMA SpawnSucceedsInv ==
    ASSUME IInv, NEW s \in Slot, SpawnSucceeds(s)
    PROVE  IInv'
<1> USE DEF IInv
<1>1. PICK c \in Unreferenced :
          /\ ready' = ready \cup {c}
          /\ FeedWaiters(allConnections \cup {c}, ready \cup {c})
      BY DEF SpawnSucceeds
<1> DEFINE pool == allConnections \cup {c}
           live == ready \cup {c}
<1>2. pool \in SUBSET Conn /\ c \in Conn /\ c \in pool \cap live /\ Holders(c) = {}
      BY DEF Unreferenced, TypeOK
<1>3. FeedWaiters(pool, live)
      BY <1>1
<1>4. /\ handle' \in [Client -> Conn \cup {NoConn}]
      /\ waiters' \in Seq(Client)
      /\ Len(waiters') \in Nat /\ Len(waiters') <= Len(waiters)
      /\ allConnections' \subseteq pool
      /\ pool \cap live \subseteq allConnections'
      BY <1>2, <1>3, FeedProperties
<1>5. waiters # <<>> => Len(waiters') < Len(waiters)
      BY <1>2, <1>3, FeedServesSomebody
<1>6. PendingSize' = PendingSize - 1
      BY StopRemovesPending DEF SpawnSucceeds
<1>7. Size' \in Nat /\ Size' <= Size + 1
  <2>1. IsFiniteSet(allConnections) /\ c \notin allConnections
        BY SizesAreNaturals DEF Unreferenced
  <2>2. IsFiniteSet(pool) /\ Cardinality(pool) = Size + 1
        BY <2>1, FS_AddElement DEF Size
  <2> QED BY <2>2, <1>4, FS_Subset, FS_CardinalityType DEF Size
<1>8. TypeOK'
  <2>1. loop' \in [Slot -> LoopState]
        BY DEF SpawnSucceeds, TypeOK, LoopState
  <2> QED BY <2>1, <1>1, <1>2, <1>4 DEF SpawnSucceeds, TypeOK
<1>9. ReadyPooled'
      BY <1>1, <1>4 DEF ReadyPooled
<1>10. SizeBounded'
  <2>1. Size + PendingSize <= Larger(MinPoolSize, MaxPoolSize)
        BY DEF SizeBounded
  <2>2. Size' + PendingSize' <= Larger(MinPoolSize, MaxPoolSize)
        BY <2>1, <1>6, <1>7, SizesAreNaturals, LargerProperties
  <2> QED BY <2>2 DEF SizeBounded
<1>11. NoLostWaiter'
  <2> SUFFICES ASSUME waiters' # <<>>, findTimer' = Off
               PROVE  Len(waiters') <= PendingSize'
      BY DEF NoLostWaiter, PendingSize
  <2>1. Len(waiters') # 0
        BY <1>4, EmptySeq
  <2>2. waiters # <<>>
        BY <2>1, <1>4, EmptySeq DEF TypeOK
  <2>3. findTimer = Off
        BY DEF SpawnSucceeds
  <2>4. Len(waiters) <= PendingSize
        BY <2>2, <2>3 DEF NoLostWaiter, PendingSize
  <2>5. Len(waiters) \in Nat
        BY LenProperties DEF TypeOK
  <2> QED BY <2>2, <2>4, <2>5, <1>4, <1>5, <1>6, SizesAreNaturals
<1> QED BY <1>8, <1>9, <1>10, <1>11

\* What a step leaves alone keeps three parts of the invariant, if the pending
\* loops stay as many.
LEMMA UntouchedPool ==
    ASSUME IInv, PendingSize' = PendingSize,
           UNCHANGED <<allConnections, ready, waiters, findTimer>>
    PROVE  ReadyPooled' /\ SizeBounded' /\ NoLostWaiter'
BY DEF IInv, ReadyPooled, SizeBounded, NoLostWaiter, Size, PendingSize

\* A loop that goes to its next attempt is still pending.
LEMMA SpawnFailsInv ==
    ASSUME IInv, NEW s \in Slot, SpawnFails(s)
    PROVE  IInv'
<1>1. TypeOK
      BY DEF IInv
<1>2. PendingSize' = PendingSize
      BY <1>1, OtherLoopStepKeepsPending DEF SpawnFails, LoopState
<1>3. TypeOK'
  <2>1. failures[s] + 1 \in 0 .. N - 1
        BY <1>1, PoolAssumption DEF SpawnFails, AllAttempted, TypeOK
  <2>2. loop' \in [Slot -> LoopState] /\ failures' \in [Slot -> 0 .. N - 1]
        BY <1>1, <2>1 DEF SpawnFails, TypeOK, LoopState
  <2> QED BY <1>1, <2>2 DEF SpawnFails, TypeOK
<1> QED BY <1>2, <1>3, UntouchedPool DEF IInv, SpawnFails

\* The same when it chooses the node.
LEMMA SpawnRetriesInv ==
    ASSUME IInv, NEW s \in Slot, SpawnRetries(s)
    PROVE  IInv'
<1>1. TypeOK
      BY DEF IInv
<1>2. PendingSize' = PendingSize
      BY <1>1, OtherLoopStepKeepsPending DEF SpawnRetries, LoopState
<1>3. TypeOK'
      BY <1>1 DEF SpawnRetries, TypeOK, LoopState
<1> QED BY <1>2, <1>3, UntouchedPool DEF IInv, SpawnRetries

\* The finally of a loop is about a loop that has stopped.
LEMMA SpawnEndsInv ==
    ASSUME IInv, NEW s \in Slot, SpawnEnds(s)
    PROVE  IInv'
<1>1. TypeOK
      BY DEF IInv
<1>2. PendingSize' = PendingSize
      BY <1>1, OtherLoopStepKeepsPending DEF SpawnEnds, LoopState, Off
<1>3. TypeOK'
      BY <1>1, PoolAssumption DEF SpawnEnds, TypeOK, LoopState, Node
<1> QED BY <1>2, <1>3, UntouchedPool DEF IInv, SpawnEnds

\* A loop that gives up leaves nobody waiting.
LEMMA SpawnGivesUpInv ==
    ASSUME IInv, NEW s \in Slot, SpawnGivesUp(s)
    PROVE  IInv'
<1>1. TypeOK
      BY DEF IInv
<1>2. PendingSize' = PendingSize - 1
      BY <1>1, StopRemovesPending DEF SpawnGivesUp
<1>3. TypeOK'
      BY <1>1, EmptySeq DEF SpawnGivesUp, CleanWaiters, TypeOK, LoopState
<1>4. Size' = Size /\ ReadyPooled'
      BY DEF SpawnGivesUp, Size, IInv, ReadyPooled
<1>5. SizeBounded'
      BY <1>1, <1>2, <1>4, SizesAreNaturals, LargerProperties DEF IInv, SizeBounded
<1>6. NoLostWaiter'
      BY DEF SpawnGivesUp, CleanWaiters, NoLostWaiter
<1> QED BY <1>3, <1>4, <1>5, <1>6 DEF IInv

-----------------------------------------------------------------------------
(* The clients keep the invariant *)

\* Calling the pool is noted of one-shot clients only.
LEMMA CallsKeepsFinished ==
    ASSUME TypeOK, NEW cl \in Client, Calls(cl)
    PROVE  finished' \subseteq OneShot
BY DEF TypeOK, Calls

\* A waiter that joins with a spawn loop of its own keeps the promise that
\* somebody answers.
LEMMA WaiterWithLoop ==
    ASSUME TypeOK, NoLostWaiter, NEW cl \in Client, AddWaiter(cl),
           findTimer' = findTimer, PendingSize' = PendingSize + 1
    PROVE  NoLostWaiter'
<1> SUFFICES ASSUME findTimer' = Off
             PROVE  Len(waiters') <= PendingSize'
    BY DEF NoLostWaiter, PendingSize
<1>1. Len(waiters') = Len(waiters) + 1 /\ Len(waiters) \in Nat
      BY AppendWaiter
<1>2. PendingSize \in Nat
      BY SizesAreNaturals
<1>3. CASE waiters = <<>>
  <2>1. Len(waiters) = 0
        BY <1>3, EmptySeq
  <2> QED BY <2>1, <1>1, <1>2
<1>4. CASE waiters # <<>>
  <2>1. Len(waiters) <= PendingSize
        BY <1>4 DEF NoLostWaiter, PendingSize
  <2> QED BY <2>1, <1>1, <1>2
<1> QED BY <1>3, <1>4

\* A find timer that was started runs.
LEMMA StartedTimerRuns ==
    ASSUME StartFindTimer
    PROVE  findTimer' # Off /\ (findTimer \in TimerState => findTimer' \in TimerState)
BY DEF StartFindTimer, Off, TimerState

\* getConnection with fewer connections than the minimum.
LEMMA GetBelowMinInv ==
    ASSUME IInv, NEW cl \in Client, GetBelowMin(cl)
    PROVE  IInv'
<1>1. TypeOK /\ NoLostWaiter /\ SizeBounded /\ ReadyPooled /\ AddWaiter(cl)
      BY DEF IInv, GetBelowMin
<1>2. /\ waiters' \in Seq(Client) /\ waiters' # <<>>
      /\ finished' \subseteq OneShot
      BY <1>1, AppendWaiter, CallsKeepsFinished DEF GetBelowMin
<1>3. Size' = Size /\ ReadyPooled'
      BY <1>1 DEF GetBelowMin, Size, ReadyPooled
<1>4. CASE Size + connectingCount < MinPoolSize
  <2>1. SpawnOne /\ findTimer' = findTimer
        BY <1>4 DEF GetBelowMin, Size
  <2>2. PendingSize' = PendingSize + 1
        BY <1>1, <2>1, SpawnAddsPending
  <2>3. TypeOK'
        BY <1>1, <1>2, <2>1, SpawnKeepsTypes DEF GetBelowMin, TypeOK
  <2>4. Size' + PendingSize' <= Larger(MinPoolSize, MaxPoolSize)
        BY <1>1, <1>3, <1>4, <2>2, SizesAreNaturals, LargerProperties, PoolAssumption
  <2>5. NoLostWaiter'
        BY <1>1, <2>1, <2>2, WaiterWithLoop
  <2> QED BY <1>3, <2>3, <2>4, <2>5 DEF IInv, SizeBounded
<1>5. CASE ~(Size + connectingCount < MinPoolSize)
  <2>1. StartFindTimer /\ NoSpawn
        BY <1>5 DEF GetBelowMin, Size
  <2>2. /\ PendingSize' = PendingSize
        /\ loop' = loop /\ node' = node /\ failures' = failures
        BY <1>1, <2>1, NoSpawnKeeps
  <2>3. TypeOK'
        BY <1>1, <1>2, <2>1, <2>2, StartedTimerRuns DEF GetBelowMin, TypeOK
  <2>4. SizeBounded'
        BY <1>1, <1>3, <2>2 DEF SizeBounded
  <2>5. NoLostWaiter'
        BY <2>1, StartedTimerRuns DEF NoLostWaiter
  <2> QED BY <1>3, <2>3, <2>4, <2>5 DEF IInv
<1> QED BY <1>4, <1>5

\* getConnection that finds an idle stream.
LEMMA GetIdleStreamInv ==
    ASSUME IInv, NEW cl \in Client, GetIdleStream(cl)
    PROVE  IInv'
<1>1. TypeOK /\ NoLostWaiter /\ SizeBounded /\ ReadyPooled
      BY DEF IInv
<1>2. PICK c \in allConnections, erased \in SUBSET (allConnections \ ready) :
          /\ handle' = [handle EXCEPT ![cl] = c]
          /\ allConnections' = allConnections \ erased
      BY DEF GetIdleStream
<1>3. PendingSize' = PendingSize
      BY SameLoopSamePending DEF GetIdleStream, spawnVars
<1>4. Size' \in Nat /\ Size' <= Size
      BY <1>1, <1>2, ShrinkingPool
<1>5. TypeOK'
      BY <1>1, <1>2, CallsKeepsFinished DEF GetIdleStream, TypeOK, spawnVars
<1>6. ReadyPooled'
      BY <1>1, <1>2, TryGetKeepsReady DEF GetIdleStream, ReadyPooled
<1>7. SizeBounded'
      BY <1>1, <1>3, <1>4, SizesAreNaturals, LargerProperties DEF SizeBounded
<1>8. NoLostWaiter'
      BY <1>1, <1>3 DEF GetIdleStream, NoLostWaiter, PendingSize
<1> QED BY <1>5, <1>6, <1>7, <1>8 DEF IInv

\* The three ways to go on without an idle stream have the same effect on the
\* connections.
LEMMA NoIdleStreamKeeps ==
    ASSUME IInv, NEW cl \in Client, NoIdleStream(cl)
    PROVE  /\ allConnections' \subseteq Conn /\ ready' \subseteq Conn
           /\ handle' = handle /\ finished' \subseteq OneShot
           /\ ReadyPooled' /\ Size' \in Nat /\ Size' <= Size
<1>1. TypeOK /\ ReadyPooled
      BY DEF IInv
<1>2. PICK erased \in SUBSET (allConnections \ ready) :
          allConnections' = allConnections \ erased
      BY DEF NoIdleStream
<1>3. Size' \in Nat /\ Size' <= Size
      BY <1>1, <1>2, ShrinkingPool
<1>4. ReadyPooled'
      BY <1>1, <1>2, TryGetKeepsReady DEF NoIdleStream, ReadyPooled
<1> QED BY <1>1, <1>2, <1>3, <1>4, CallsKeepsFinished DEF NoIdleStream, TypeOK

\* getConnection that connects: only while the connections and the loops,
\* stopped ones included, are fewer than the maximum.
LEMMA GetSpawnsInv ==
    ASSUME IInv, NEW cl \in Client, GetSpawns(cl)
    PROVE  IInv'
<1>1. TypeOK /\ NoLostWaiter /\ AddWaiter(cl) /\ SpawnOne /\ NoIdleStream(cl)
      BY DEF IInv, GetSpawns
<1>2. waiters' \in Seq(Client) /\ findTimer' = findTimer
      BY <1>1, AppendWaiter DEF GetSpawns
<1>3. PendingSize' = PendingSize + 1
      BY <1>1, SpawnAddsPending
<1>4. TypeOK'
  <2>1. dropTimer' \in TimerState
        BY <1>1 DEF GetSpawns, StartDropTimer, TypeOK, TimerState
  <2> QED BY <1>1, <1>2, <2>1, NoIdleStreamKeeps, SpawnKeepsTypes DEF TypeOK
<1>5. Size' + PendingSize' <= Larger(MinPoolSize, MaxPoolSize)
  <2>1. Size' + connectingCount < MaxPoolSize
    <3>1. ~(Cardinality(allConnections') + connectingCount >= MaxPoolSize)
          BY DEF GetSpawns, PoolIsFull
    <3>2. Size' = Cardinality(allConnections')
          BY DEF Size
    <3> QED BY <3>1, <3>2, <1>1, NoIdleStreamKeeps, SizesAreNaturals, PoolAssumption
  <2> QED BY <1>1, <1>3, <2>1, NoIdleStreamKeeps, SizesAreNaturals,
             LargerProperties, PoolAssumption
<1>6. NoLostWaiter'
      BY <1>1, <1>2, <1>3, WaiterWithLoop
<1> QED BY <1>1, <1>4, <1>5, <1>6, NoIdleStreamKeeps DEF IInv, SizeBounded

\* getConnection that waits for the find timer.
LEMMA GetWaitsInv ==
    ASSUME IInv, NEW cl \in Client, GetWaits(cl)
    PROVE  IInv'
<1>1. /\ TypeOK /\ SizeBounded /\ AddWaiter(cl) /\ NoIdleStream(cl)
      /\ StartFindTimer /\ NoSpawn
      BY DEF IInv, GetWaits
<1>2. waiters' \in Seq(Client)
      BY <1>1, AppendWaiter
<1>3. /\ PendingSize' = PendingSize
      /\ loop' = loop /\ node' = node /\ failures' = failures
      BY <1>1, NoSpawnKeeps
<1>4. TypeOK'
      BY <1>1, <1>2, <1>3, NoIdleStreamKeeps, StartedTimerRuns DEF GetWaits, TypeOK
<1>5. SizeBounded'
      BY <1>1, <1>3, NoIdleStreamKeeps, SizesAreNaturals, LargerProperties DEF SizeBounded
<1>6. NoLostWaiter'
      BY <1>1, StartedTimerRuns DEF NoLostWaiter
<1> QED BY <1>1, <1>4, <1>5, <1>6, NoIdleStreamKeeps DEF IInv

\* getConnection that is refused.
LEMMA GetRejectedInv ==
    ASSUME IInv, NEW cl \in Client, GetRejected(cl)
    PROVE  IInv'
<1>1. TypeOK /\ SizeBounded /\ NoLostWaiter /\ NoIdleStream(cl) /\ NoSpawn
      BY DEF IInv, GetRejected
<1>2. /\ PendingSize' = PendingSize
      /\ loop' = loop /\ node' = node /\ failures' = failures
      BY <1>1, NoSpawnKeeps
<1>3. TypeOK'
      BY <1>1, <1>2, NoIdleStreamKeeps DEF GetRejected, TypeOK
<1>4. SizeBounded'
      BY <1>1, <1>2, NoIdleStreamKeeps, SizesAreNaturals, LargerProperties DEF SizeBounded
<1>5. NoLostWaiter'
      BY <1>1, <1>2 DEF GetRejected, NoLostWaiter, PendingSize
<1> QED BY <1>1, <1>3, <1>4, <1>5, NoIdleStreamKeeps DEF IInv

\* returnConnection serves the first waiter.
LEMMA ReturnConnectionInv ==
    ASSUME IInv, NEW cl \in Client, ReturnConnection(cl)
    PROVE  IInv'
<1>1. TypeOK /\ SizeBounded /\ NoLostWaiter /\ ReadyPooled
      BY DEF IInv
<1>2. PendingSize' = PendingSize
      BY SameLoopSamePending DEF ReturnConnection, spawnVars
<1>3. CASE waiters = <<>>
  <2>1. TypeOK'
        BY <1>1, <1>3 DEF ReturnConnection, TypeOK, spawnVars
  <2> QED BY <1>2, <1>3, <2>1, UntouchedPool DEF IInv, ReturnConnection
<1>4. CASE waiters # <<>>
  <2>1. /\ Head(waiters) \in Client /\ Tail(waiters) \in Seq(Client)
        /\ Len(Tail(waiters)) = Len(waiters) - 1 /\ Len(waiters) \in Nat
        BY <1>1, <1>4, HeadTailProperties, LenProperties DEF TypeOK
  <2>2. waiters' = Tail(waiters)
        BY <1>4 DEF ReturnConnection
  <2>3. TypeOK'
        BY <1>1, <1>4, <2>1, <2>2 DEF ReturnConnection, TypeOK, spawnVars
  <2>4. ReadyPooled' /\ Size' = Size
        BY <1>1 DEF ReturnConnection, ReadyPooled, Size
  <2>5. SizeBounded'
        BY <1>1, <1>2, <2>4 DEF SizeBounded
  <2>6. NoLostWaiter'
    <3> SUFFICES ASSUME findTimer' = Off
                 PROVE  Len(waiters') <= PendingSize'
        BY DEF NoLostWaiter, PendingSize
    <3>1. Len(waiters) <= PendingSize
          BY <1>1, <1>4 DEF NoLostWaiter, PendingSize, ReturnConnection
    <3> QED BY <3>1, <1>1, <1>2, <2>1, <2>2, SizesAreNaturals
  <2> QED BY <2>3, <2>4, <2>5, <2>6 DEF IInv
<1> QED BY <1>3, <1>4

\* A dropped stream concerns nobody else.
LEMMA DropStreamInv ==
    ASSUME IInv, NEW cl \in Client, DropStream(cl)
    PROVE  IInv'
<1>1. PendingSize' = PendingSize
      BY SameLoopSamePending DEF DropStream, spawnVars
<1>2. TypeOK'
      BY DEF IInv, DropStream, TypeOK, spawnVars
<1> QED BY <1>1, <1>2, UntouchedPool DEF IInv, DropStream

\* A connection that closes stays in the pool until something erases it.
LEMMA ConnectionClosesInv ==
    ASSUME IInv, NEW c \in Conn, ConnectionCloses(c)
    PROVE  IInv'
<1>1. PendingSize' = PendingSize /\ Size' = Size
      BY SameLoopSamePending DEF ConnectionCloses, spawnVars, Size
<1>2. TypeOK' /\ ReadyPooled'
      BY DEF IInv, ConnectionCloses, TypeOK, spawnVars, ReadyPooled
<1>3. SizeBounded' /\ NoLostWaiter'
      BY <1>1 DEF IInv, ConnectionCloses, SizeBounded, NoLostWaiter, PendingSize
<1> QED BY <1>2, <1>3 DEF IInv

-----------------------------------------------------------------------------
(* The timers keep the invariant *)

\* findIdleConnectionTimer goes on as long as somebody waits, and connects
\* only below the minimum.
LEMMA FindTimerTicksInv ==
    ASSUME IInv, FindTimerTicks
    PROVE  IInv'
<1>1. TypeOK /\ SizeBounded /\ ReadyPooled /\ FeedWaiters(allConnections, ready)
      BY DEF IInv, FindTimerTicks
<1>2. /\ handle' \in [Client -> Conn \cup {NoConn}]
      /\ waiters' \in Seq(Client)
      /\ allConnections' \subseteq allConnections
      /\ allConnections \cap ready \subseteq allConnections'
      BY <1>1, FeedProperties DEF TypeOK
<1>3. Size' \in Nat /\ Size' <= Size
      BY <1>1, <1>2, ShrinkingPool
<1>4. ReadyPooled'
      BY <1>1, <1>2 DEF FindTimerTicks, ReadyPooled
<1>5. NoLostWaiter'
      BY DEF FindTimerTicks, NoLostWaiter, Off
<1>6. findTimer' \in TimerState
      BY DEF FindTimerTicks, TimerState
<1>7. CASE waiters' # <<>> /\ TooFewConnections
  <2>1. SpawnOne
        BY <1>7 DEF FindTimerTicks
  <2>2. PendingSize' = PendingSize + 1
        BY <1>1, <2>1, SpawnAddsPending
  <2>3. TypeOK'
        BY <1>1, <1>2, <1>6, <2>1, SpawnKeepsTypes DEF FindTimerTicks, TypeOK
  <2>4. Size' + connectingCount < MinPoolSize
        BY <1>7 DEF TooFewConnections, Size
  <2>5. Size' + PendingSize' <= Larger(MinPoolSize, MaxPoolSize)
        BY <1>1, <1>3, <2>2, <2>4, SizesAreNaturals, LargerProperties, PoolAssumption
  <2> QED BY <1>4, <1>5, <2>3, <2>5 DEF IInv, SizeBounded
<1>8. CASE ~(waiters' # <<>> /\ TooFewConnections)
  <2>1. NoSpawn
        BY <1>8 DEF FindTimerTicks
  <2>2. /\ PendingSize' = PendingSize
        /\ loop' = loop /\ node' = node /\ failures' = failures
        BY <1>1, <2>1, NoSpawnKeeps
  <2>3. TypeOK'
        BY <1>1, <1>2, <1>6, <2>2 DEF FindTimerTicks, TypeOK
  <2>4. SizeBounded'
        BY <1>1, <1>3, <2>2, SizesAreNaturals, LargerProperties DEF SizeBounded
  <2> QED BY <1>4, <1>5, <2>3, <2>4 DEF IInv
<1> QED BY <1>7, <1>8

\* The finally of that timer starts it again if somebody waits: without it, a
\* waiter that came between the two would be lost.
LEMMA FindTimerEndsInv ==
    ASSUME IInv, FindTimerEnds
    PROVE  IInv'
<1>1. PendingSize' = PendingSize /\ Size' = Size
      BY SameLoopSamePending DEF FindTimerEnds, spawnVars, Size
<1>2. TypeOK'
      BY DEF IInv, FindTimerEnds, AfterFindTimer, TypeOK, spawnVars, TimerState
<1>3. ReadyPooled' /\ SizeBounded'
      BY <1>1 DEF IInv, FindTimerEnds, ReadyPooled, SizeBounded
<1>4. NoLostWaiter'
      BY DEF FindTimerEnds, AfterFindTimer, NoLostWaiter, Off
<1> QED BY <1>2, <1>3, <1>4 DEF IInv

\* dropIdleConnectionTimer lets go of closed connections and of idle ones,
\* which nobody refers to any more.
LEMMA DropTimerTicksInv ==
    ASSUME IInv, DropTimerTicks
    PROVE  IInv'
<1>1. TypeOK /\ SizeBounded /\ ReadyPooled /\ NoLostWaiter
      BY DEF IInv
<1>2. PendingSize' = PendingSize
      BY SameLoopSamePending DEF DropTimerTicks, spawnVars
<1>3. /\ allConnections' \subseteq allConnections /\ ready' \subseteq ready
      /\ ReadyPooled' /\ dropTimer' \in TimerState
  <2>1. CASE Cardinality(allConnections) <= MinPoolSize
        BY <1>1, <2>1 DEF DropTimerTicks, ReadyPooled, TimerState
  <2>2. CASE ~(Cardinality(allConnections) <= MinPoolSize)
    <3>1. PICK idle \in SUBSET Idle :
              /\ allConnections' = (allConnections \cap ready) \ idle
              /\ ready' = ready \ Unheld(idle)
              /\ dropTimer' \in {"ending", "sleeping"}
          BY <2>2 DEF DropTimerTicks
    <3>2. Unheld(idle) = idle
          BY DEF Unheld, Idle, AllStreamsFree
    <3> QED BY <1>1, <3>1, <3>2 DEF ReadyPooled, TimerState
  <2> QED BY <2>1, <2>2
<1>4. TypeOK'
      BY <1>1, <1>3 DEF DropTimerTicks, TypeOK, spawnVars
<1>5. Size' \in Nat /\ Size' <= Size
      BY <1>1, <1>3, ShrinkingPool
<1>6. SizeBounded'
      BY <1>1, <1>2, <1>5, SizesAreNaturals, LargerProperties DEF SizeBounded
<1>7. NoLostWaiter'
      BY <1>1, <1>2 DEF DropTimerTicks, NoLostWaiter, PendingSize
<1> QED BY <1>3, <1>4, <1>6, <1>7 DEF IInv

\* Its finally only switches it off.
LEMMA DropTimerEndsInv ==
    ASSUME IInv, DropTimerEnds
    PROVE  IInv'
<1>1. PendingSize' = PendingSize
      BY SameLoopSamePending DEF DropTimerEnds, spawnVars
<1>2. TypeOK'
      BY DEF IInv, DropTimerEnds, TypeOK, spawnVars, TimerState
<1> QED BY <1>1, <1>2, UntouchedPool DEF IInv, DropTimerEnds

-----------------------------------------------------------------------------
(* The theorems *)

\* Every step of the pool keeps the invariant.
LEMMA NextKeepsInv == IInv /\ [Next]_vars => IInv'
<1> SUFFICES ASSUME IInv, [Next]_vars PROVE IInv'
    OBVIOUS
<1>1. CASE UNCHANGED vars
  <2>1. PendingSize' = PendingSize
        BY <1>1, SameLoopSamePending DEF vars, spawnVars
  <2>2. TypeOK'
        BY <1>1 DEF IInv, TypeOK, vars, spawnVars
  <2> QED BY <1>1, <2>1, <2>2, UntouchedPool DEF IInv, vars
<1>2. ASSUME NEW cl \in Client, GetConnection(cl) PROVE IInv'
      BY <1>2, GetBelowMinInv, GetIdleStreamInv, GetSpawnsInv, GetWaitsInv,
         GetRejectedInv DEF GetConnection
<1>3. ASSUME NEW cl \in Client, ReturnConnection(cl) \/ DropStream(cl) PROVE IInv'
      BY <1>3, ReturnConnectionInv, DropStreamInv
<1>4. ASSUME NEW s \in Slot, SpawnStep(s) PROVE IInv'
      BY <1>4, SpawnSucceedsInv, SpawnFailsInv, SpawnGivesUpInv, SpawnRetriesInv,
         SpawnEndsInv DEF SpawnStep
<1>5. ASSUME NEW c \in Conn, ConnectionCloses(c) PROVE IInv'
      BY <1>5, ConnectionClosesInv
<1>6. CASE TimerStep
      BY <1>6, FindTimerTicksInv, FindTimerEndsInv, DropTimerTicksInv,
         DropTimerEndsInv DEF TimerStep
<1> QED BY <1>1, <1>2, <1>3, <1>4, <1>5, <1>6 DEF Next, ClientStep

\* The invariant holds of every behaviour of the pool.
LEMMA Invariant == Spec => []IInv
<1>1. IInv /\ [Next]_vars => IInv'
      BY NextKeepsInv
<1> QED BY <1>1, InitInv, PTL DEF Spec

\* The pool's state keeps its types: above all, a spawn loop that goes on has
\* failed fewer times than there are nodes.
THEOREM TypeCorrect == Spec => []TypeOK
<1>1. IInv => TypeOK
      BY DEF IInv
<1> QED BY <1>1, Invariant, PTL

\* For any number of clients and loops, getConnection, spawnConnection and the
\* two timers never make more live connections than the configured maximum (or
\* minimum, if that is larger).
THEOREM LiveConnectionsAreBounded == Spec => []LiveConnectionsBounded
<1>1. IInv => LiveConnectionsBounded
  <2> SUFFICES ASSUME IInv PROVE LiveConnectionsBounded
      OBVIOUS
  <2>1. allConnections \cup ready = allConnections
        BY DEF IInv, ReadyPooled
  <2> QED BY <2>1 DEF IInv, SizeBounded, LiveConnectionsBounded, Size, PendingSize
<1> QED BY <1>1, Invariant, PTL

\* A client waits only while the find timer runs or a spawn loop of its own is
\* on the way: no order of getConnection, returnConnection, timers and loops
\* leaves a waiter with nobody to answer it.
THEOREM NoWaiterIsLost == Spec => []NoLostWaiter
<1>1. IInv => NoLostWaiter
      BY DEF IInv
<1> QED BY <1>1, Invariant, PTL

\* An open connection with a stream in use is never let go of by the drop timer
\* or by tryGetConnection.
THEOREM HeldConnectionsStayPooled == Spec => []HeldStaysPooled
<1>1. IInv => HeldStaysPooled
      BY DEF IInv, ReadyPooled, HeldStaysPooled
<1> QED BY <1>1, Invariant, PTL

-----------------------------------------------------------------------------
(* Streams: the inductive invariant of who holds them *)

\* The count of holders means something only because it is finite, which no
\* assumption on the clients gives: a connection gains them one by one.
HoldersBounded ==
    \A c \in Conn : IsFiniteSet(Holders(c)) /\ Cardinality(Holders(c)) <= MaxStreams - 1

\* A client waits once, and holds no stream that a grant could overwrite.
WaitersHoldNothing ==
    /\ \A i, j \in 1 .. Len(waiters) : waiters[i] = waiters[j] => i = j
    /\ \A i \in 1 .. Len(waiters) : handle[waiters[i]] = NoConn

StreamsInv == TypeOK /\ HoldersBounded /\ WaitersHoldNothing

\* Nothing but the holders and the waiters decide the two parts.
LEMMA SameHandlesSameHolders ==
    ASSUME handle' = handle
    PROVE  HoldersBounded => HoldersBounded'
BY DEF HoldersBounded, Holders

LEMMA SameWaitersHoldNothing ==
    ASSUME UNCHANGED <<handle, waiters>>
    PROVE  WaitersHoldNothing => WaitersHoldNothing'
BY DEF WaitersHoldNothing

\* A connection with fewer clients than streams can take one more.
LEMMA OneMoreHolder ==
    ASSUME HoldersBounded, NEW c \in Conn, NEW cl,
           Cardinality(Holders(c)) + 1 <= MaxStreams - 1,
           Holders(c)' \subseteq Holders(c) \cup {cl}
    PROVE  IsFiniteSet(Holders(c)') /\ Cardinality(Holders(c)') <= MaxStreams - 1
<1>1. IsFiniteSet(Holders(c)) /\ Cardinality(Holders(c)) \in Nat
      BY FS_CardinalityType DEF HoldersBounded
<1>2. /\ IsFiniteSet(Holders(c) \cup {cl})
      /\ Cardinality(Holders(c) \cup {cl}) \in Nat
      /\ Cardinality(Holders(c) \cup {cl}) <= Cardinality(Holders(c)) + 1
  <2>1. IsFiniteSet(Holders(c) \cup {cl})
        BY <1>1, FS_AddElement
  <2>2. Cardinality(Holders(c) \cup {cl}) \in Nat
        BY <2>1, FS_CardinalityType
  <2>3. \/ Cardinality(Holders(c) \cup {cl}) = Cardinality(Holders(c))
        \/ Cardinality(Holders(c) \cup {cl}) = Cardinality(Holders(c)) + 1
        BY <1>1, FS_AddElement
  <2> QED BY <1>1, <2>1, <2>2, <2>3
<1>3. /\ IsFiniteSet(Holders(c)') /\ Cardinality(Holders(c)') \in Nat
      /\ Cardinality(Holders(c)') <= Cardinality(Holders(c) \cup {cl})
      BY <1>2, FS_Subset, FS_CardinalityType
<1> QED BY <1>1, <1>2, <1>3, PoolAssumption

\* A connection that gains no client stays within its streams.
LEMMA NoMoreHolders ==
    ASSUME HoldersBounded, NEW c \in Conn, Holders(c)' \subseteq Holders(c)
    PROVE  IsFiniteSet(Holders(c)') /\ Cardinality(Holders(c)') <= MaxStreams - 1
<1>1. IsFiniteSet(Holders(c)) /\ Cardinality(Holders(c)) \in Nat
      BY FS_CardinalityType DEF HoldersBounded
<1>2. /\ IsFiniteSet(Holders(c)') /\ Cardinality(Holders(c)') \in Nat
      /\ Cardinality(Holders(c)') <= Cardinality(Holders(c))
      BY <1>1, FS_Subset, FS_CardinalityType
<1> QED BY <1>1, <1>2, PoolAssumption DEF HoldersBounded

-----------------------------------------------------------------------------
(* Grants of feedWaiters *)

\* A set of positions of a queue has a last element.
LEMMA LastExists ==
    ASSUME NEW n \in Nat, NEW S, S \subseteq 1 .. n, S # {}
    PROVE  \E i \in S : \A j \in S : j <= i
<1> DEFINE T == {n - i : i \in S}
<1>1. T \subseteq Nat /\ T # {}
      OBVIOUS
<1>2. PICK t \in T : \A u \in T : ~(<<u, t>> \in OpToRel(<, Nat))
      BY <1>1, NatLessThanWellFounded, WFMin
<1>3. PICK i \in S : t = n - i
      BY <1>2
<1>4. ASSUME NEW j \in S PROVE j <= i
  <2>1. n - j \in T /\ n - j \in Nat /\ t \in Nat
        BY <1>1, <1>4
  <2>2. ~(n - j < t)
        BY <1>2, <2>1 DEF OpToRel
  <2> QED BY <2>1, <2>2, <1>3
<1> QED BY <1>4

\* The runs that took a stream of a connection.
GrantsOf(grant, c) == {j \in 1 .. Len(grant) : grant[j] = c}

\* Each run of tryGetConnection finds a free stream, so the last grant of a
\* connection is still within its streams.
LEMMA GrantsFit ==
    ASSUME HoldersBounded, NEW c \in Conn, NEW pool, NEW grant \in Seq(pool),
           Greedy(pool, grant)
    PROVE  /\ IsFiniteSet(GrantsOf(grant, c))
           /\ Cardinality(GrantsOf(grant, c)) \in Nat
           /\ Cardinality(Holders(c)) + Cardinality(GrantsOf(grant, c)) <= MaxStreams - 1
<1> DEFINE G == GrantsOf(grant, c)
           h == Cardinality(Holders(c))
<1>1. h \in Nat /\ h <= MaxStreams - 1
      BY FS_CardinalityType DEF HoldersBounded
<1>2. Len(grant) \in Nat /\ DOMAIN grant = 1 .. Len(grant)
      BY LenProperties
<1>3. IsFiniteSet(G) /\ Cardinality(G) \in Nat
  <2>1. IsFiniteSet(1 .. Len(grant))
        BY <1>2, FS_Interval
  <2>2. G \in SUBSET (1 .. Len(grant))
        BY DEF GrantsOf
  <2> QED BY <2>1, <2>2, FS_Subset, FS_CardinalityType
<1>4. CASE G = {}
  <2>1. Cardinality(G) = 0
        BY <1>4, FS_EmptySet
  <2> QED BY <2>1, <1>1, <1>3
<1>5. CASE G # {}
  <2>1. PICK i \in G : \A j \in G : j <= i
    <3>1. G \subseteq 1 .. Len(grant)
          BY DEF GrantsOf
    <3> QED BY <3>1, <1>2, <1>5, LastExists
  <2>2. i \in 1 .. Len(grant) /\ grant[i] = c
        BY DEF GrantsOf
  <2> DEFINE B == {j \in 1 .. i - 1 : grant[j] = c}
  <2>3. G = B \cup {i} /\ i \notin B
        BY <1>2, <2>1, <2>2 DEF GrantsOf
  <2>4. IsFiniteSet(B) /\ Cardinality(B) \in Nat
    <3>1. B \in SUBSET G
          BY <2>3
    <3> QED BY <3>1, <1>3, FS_Subset, FS_CardinalityType
  <2>5. Cardinality(G) = Cardinality(B) + 1
        BY <2>3, <2>4, FS_AddElement
  <2>6. FreeAfter(grant, i - 1, c) > 0
        BY <1>2, <2>2 DEF Greedy
  <2>7. (MaxStreams - 1) - h - Cardinality(B) > 0
        BY <2>6 DEF FreeAfter, FreeStreams
  <2> HIDE DEF G, B, h
  <2>8. h + (Cardinality(B) + 1) <= MaxStreams - 1
        BY <1>1, <2>4, <2>7, PoolAssumption
  <2> QED BY <1>3, <2>5, <2>8 DEF G, h
<1> QED BY <1>4, <1>5

\* feedWaiters gives every connection at most as many clients as it took
\* grants.
LEMMA FeedKeepsHolders ==
    ASSUME TypeOK, HoldersBounded, NEW pool \in SUBSET Conn, NEW live, FeedWaiters(pool, live)
    PROVE  HoldersBounded'
<1>1. PICK grant \in Grants(pool, waiters) :
          /\ Greedy(pool \cap live, grant)
          /\ handle' = HandleAfter(waiters, grant)
      BY DEF FeedWaiters, TryGetEach
<1>2. Len(waiters) \in Nat
      BY LenProperties DEF TypeOK
<1>3. grant \in Seq(pool) /\ DOMAIN grant = 1 .. Len(grant)
      BY <1>2, GrantsAreSequences
<1>4. grant \in Seq(pool \cap live)
  <2>1. \A i \in 1 .. Len(grant) : grant[i] \in pool \cap live
        BY <1>1, <1>3 DEF Greedy
  <2>2. grant = [i \in 1 .. Len(grant) |-> grant[i]] /\ Len(grant) \in Nat
        BY <1>3, LenProperties
  <2> QED BY <2>1, <2>2, SeqDef
<1>5. ASSUME NEW c \in Conn
      PROVE  IsFiniteSet(Holders(c)') /\ Cardinality(Holders(c)') <= MaxStreams - 1
  <2> DEFINE G == GrantsOf(grant, c)
             served == [i \in G |-> waiters[i]]
             S == {served[i] : i \in G}
  <2>1. /\ IsFiniteSet(G) /\ Cardinality(G) \in Nat
        /\ Cardinality(Holders(c)) + Cardinality(G) <= MaxStreams - 1
        BY <1>1, <1>4, GrantsFit
  <2>2. IsFiniteSet(S) /\ Cardinality(S) <= Cardinality(G) /\ Cardinality(S) \in Nat
    <3>1. served \in Surjection(G, S)
          BY DEF Surjection
    <3> QED BY <3>1, <2>1, FS_Surjection, FS_CardinalityType
  <2>3. IsFiniteSet(Holders(c)) /\ Cardinality(Holders(c)) \in Nat
        BY FS_CardinalityType DEF HoldersBounded
  <2>4. Holders(c)' \subseteq Holders(c) \cup S
    <3> SUFFICES ASSUME NEW cl \in Client, handle'[cl] = c, handle[cl] # c
                 PROVE  cl \in S
        BY DEF Holders
    <3>1. handle'[cl] = IF \E i \in DOMAIN grant : waiters[i] = cl
                        THEN grant[CHOOSE i \in DOMAIN grant : waiters[i] = cl]
                        ELSE handle[cl]
          BY <1>1 DEF HandleAfter
    <3>2. \E i \in DOMAIN grant : waiters[i] = cl
          BY <3>1
    <3> DEFINE k == CHOOSE i \in DOMAIN grant : waiters[i] = cl
    <3>3. k \in DOMAIN grant /\ waiters[k] = cl
          BY <3>2
    <3>4. grant[k] = c
          BY <3>1, <3>2
    <3> HIDE DEF k
    <3>5. k \in G
          BY <1>3, <3>3, <3>4 DEF GrantsOf
    <3> QED BY <3>3, <3>5
  <2>5. /\ IsFiniteSet(Holders(c) \cup S)
        /\ Cardinality(Holders(c) \cup S) <= Cardinality(Holders(c)) + Cardinality(S)
        /\ Cardinality(Holders(c) \cup S) \in Nat
    <3>1. IsFiniteSet(Holders(c) \cap S) /\ Cardinality(Holders(c) \cap S) \in Nat
          BY <2>3, FS_Intersection, FS_CardinalityType
    <3>2. IsFiniteSet(Holders(c) \cup S)
          BY <2>2, <2>3, FS_Union
    <3>3. Cardinality(Holders(c) \cup S) =
              Cardinality(Holders(c)) + Cardinality(S) - Cardinality(Holders(c) \cap S)
          BY <2>2, <2>3, FS_Union
    <3>4. Cardinality(Holders(c) \cup S) \in Nat
          BY <3>2, FS_CardinalityType
    <3> HIDE DEF S
    <3> QED BY <3>1, <3>2, <3>3, <3>4, <2>2, <2>3
  <2>6. /\ IsFiniteSet(Holders(c)') /\ Cardinality(Holders(c)') \in Nat
        /\ Cardinality(Holders(c)') <= Cardinality(Holders(c) \cup S)
        BY <2>4, <2>5, FS_Subset, FS_CardinalityType
  <2> QED BY <2>1, <2>2, <2>3, <2>5, <2>6, PoolAssumption
<1> QED BY <1>5 DEF HoldersBounded

\* Who is left in the queue was not granted anything, because it waits once.
LEMMA FeedKeepsWaiters ==
    ASSUME TypeOK, WaitersHoldNothing, NEW pool \in SUBSET Conn, NEW live,
           FeedWaiters(pool, live)
    PROVE  WaitersHoldNothing'
<1>1. PICK grant \in Grants(pool, waiters) :
          /\ handle' = HandleAfter(waiters, grant)
          /\ waiters' = SubSeq(waiters, Len(grant) + 1, Len(waiters))
      BY DEF FeedWaiters
<1> DEFINE g == Len(grant)
           n == Len(waiters)
<1>2. n \in Nat /\ \A i \in 1 .. n : waiters[i] \in Client
      BY LenProperties DEF TypeOK
<1>3. DOMAIN grant = 1 .. g /\ g \in 0 .. n
      BY <1>2, GrantsAreSequences
<1> HIDE DEF g, n
<1>4. Len(waiters') = n - g /\ \A i \in 1 .. n - g : waiters'[i] = waiters[g + i]
  <2>1. g + 1 \in Int /\ n \in Int /\ \A i \in g + 1 .. n : waiters[i] \in Client
        BY <1>2, <1>3
  <2>2. waiters' = SubSeq(waiters, g + 1, n)
        BY <1>1 DEF g, n
  <2>3. /\ Len(waiters') = IF g + 1 <= n THEN n - (g + 1) + 1 ELSE 0
        /\ \A i \in 1 .. n - (g + 1) + 1 : waiters'[i] = waiters[(g + 1) + i - 1]
        BY <2>1, <2>2, SubSeqProperties
  <2>4. ASSUME NEW i \in 1 .. n - g
        PROVE  i \in 1 .. n - (g + 1) + 1 /\ (g + 1) + i - 1 = g + i
        BY <1>2, <1>3
  <2>5. (IF g + 1 <= n THEN n - (g + 1) + 1 ELSE 0) = n - g
    <3>1. g + 1 <= n => n - (g + 1) + 1 = n - g
          BY <1>2, <1>3
    <3>2. ~(g + 1 <= n) => n - g = 0
          BY <1>2, <1>3
    <3> QED BY <3>1, <3>2
  <2> QED BY <2>3, <2>4, <2>5
<1>5. \A i \in 1 .. n - g : g + i \in 1 .. n /\ g + i \notin 1 .. g
      BY <1>2, <1>3
<1>6. ASSUME NEW i \in 1 .. Len(waiters'), NEW j \in 1 .. Len(waiters'),
             waiters'[i] = waiters'[j]
      PROVE  i = j
  <2>1. i \in 1 .. n - g /\ j \in 1 .. n - g
        BY <1>4, <1>6
  <2>2. waiters[g + i] = waiters[g + j]
        BY <1>4, <1>6, <2>1
  <2>3. g + i = g + j
        BY <1>5, <2>1, <2>2 DEF WaitersHoldNothing, n
  <2> QED BY <2>1, <2>3, <1>3
<1>7. ASSUME NEW i \in 1 .. Len(waiters')
      PROVE  handle'[waiters'[i]] = NoConn
  <2> DEFINE cl == waiters[g + i]
  <2>1. i \in 1 .. n - g /\ waiters'[i] = cl /\ cl \in Client
        BY <1>2, <1>4, <1>5, <1>7
  <2>2. ~\E j \in DOMAIN grant : waiters[j] = cl
    <3> SUFFICES ASSUME NEW j \in 1 .. g, waiters[j] = cl
                 PROVE  FALSE
        BY <1>3
    <3>1. j \in 1 .. n
          BY <1>2, <1>3
    <3>2. j = g + i
          BY <1>5, <2>1, <3>1 DEF WaitersHoldNothing, n
    <3> QED BY <1>5, <2>1, <3>2
  <2>3. handle'[cl] = handle[cl]
    <3>1. handle'[cl] = IF \E j \in DOMAIN grant : waiters[j] = cl
                        THEN grant[CHOOSE j \in DOMAIN grant : waiters[j] = cl]
                        ELSE handle[cl]
          BY <1>1, <2>1 DEF HandleAfter
    <3> QED BY <2>2, <3>1
  <2>4. handle[cl] = NoConn
        BY <1>5, <2>1 DEF WaitersHoldNothing, n
  <2> QED BY <2>1, <2>3, <2>4
<1> QED BY <1>6, <1>7 DEF WaitersHoldNothing

-----------------------------------------------------------------------------
(* The steps *)

\* A new client of the queue holds nothing and is not in it.
LEMMA AddWaiterKeeps ==
    ASSUME TypeOK, WaitersHoldNothing, NEW cl \in Client,
           handle[cl] = NoConn, cl \notin ToSet(waiters), handle' = handle, AddWaiter(cl)
    PROVE  WaitersHoldNothing'
<1> DEFINE n == Len(waiters)
<1>1. /\ n \in Nat /\ DOMAIN waiters = 1 .. n
      /\ \A i \in 1 .. n : waiters[i] \in Client /\ waiters[i] # cl
  <2>1. n \in Nat /\ DOMAIN waiters = 1 .. n /\ \A i \in 1 .. n : waiters[i] \in Client
        BY LenProperties DEF TypeOK
  <2>2. \A i \in DOMAIN waiters : waiters[i] # cl
        BY DEF ToSet
  <2> QED BY <2>1, <2>2
<1>2. /\ Len(waiters') = n + 1
      /\ \A i \in 1 .. n : waiters'[i] = waiters[i]
      /\ waiters'[n + 1] = cl
      BY AppendProperties DEF AddWaiter, TypeOK
<1> HIDE DEF n
<1>3. \A i \in 1 .. n + 1 : i \in 1 .. n \/ i = n + 1
      BY <1>1
<1>4. \A i, j \in 1 .. n : waiters[i] = waiters[j] => i = j
      BY DEF WaitersHoldNothing, n
<1>5. \A i \in 1 .. n : handle[waiters[i]] = NoConn
      BY DEF WaitersHoldNothing, n
<1>6. ASSUME NEW i \in 1 .. n + 1, NEW j \in 1 .. n + 1, waiters'[i] = waiters'[j]
      PROVE  i = j
      BY <1>1, <1>2, <1>3, <1>4, <1>6
<1>7. ASSUME NEW i \in 1 .. n + 1
      PROVE  handle'[waiters'[i]] = NoConn
      BY <1>2, <1>3, <1>5
<1> QED BY <1>2, <1>6, <1>7 DEF WaitersHoldNothing

\* getConnection that does not find an idle stream gives nobody a stream.
LEMMA WaitingKeepsStreams ==
    ASSUME StreamsInv, NEW cl \in Client,
           GetBelowMin(cl) \/ GetSpawns(cl) \/ GetWaits(cl) \/ GetRejected(cl)
    PROVE  HoldersBounded' /\ WaitersHoldNothing'
<1>1. handle' = handle
      BY DEF GetBelowMin, GetSpawns, GetWaits, GetRejected, NoIdleStream
<1>2. HoldersBounded'
      BY <1>1, SameHandlesSameHolders DEF StreamsInv
<1>3. handle[cl] = NoConn /\ cl \notin ToSet(waiters)
      BY DEF GetBelowMin, GetSpawns, GetWaits, GetRejected, NoIdleStream, Calls
<1>4. CASE AddWaiter(cl)
      BY <1>1, <1>2, <1>3, <1>4, AddWaiterKeeps DEF StreamsInv
<1>5. CASE ~AddWaiter(cl)
  <2>1. waiters' = waiters
        BY <1>5 DEF GetBelowMin, GetSpawns, GetWaits, GetRejected
  <2> QED BY <1>1, <1>2, <2>1, SameWaitersHoldNothing DEF StreamsInv
<1> QED BY <1>4, <1>5

\* getConnection that finds one takes it from a connection with a free stream,
\* for a client that does not wait.
LEMMA IdleStreamKeepsStreams ==
    ASSUME StreamsInv, NEW cl \in Client, GetIdleStream(cl)
    PROVE  HoldersBounded' /\ WaitersHoldNothing'
<1>1. PICK c \in allConnections :
          /\ Greedy(allConnections \cap ready, <<c>>)
          /\ handle' = [handle EXCEPT ![cl] = c]
      BY DEF GetIdleStream, TryGetEach
<1>2. c \in Conn /\ handle \in [Client -> Conn \cup {NoConn}]
      BY DEF StreamsInv, TypeOK
<1>3. IsFiniteSet(Holders(c)) /\ Cardinality(Holders(c)) \in Nat
      BY <1>2, FS_CardinalityType DEF StreamsInv, HoldersBounded
<1>4. Cardinality(Holders(c)) + 1 <= MaxStreams - 1
  <2>1. FreeAfter(<<c>>, 0, c) > 0
        BY <1>1 DEF Greedy
  <2>2. {j \in 1 .. 0 : <<c>>[j] = c} = {}
        OBVIOUS
  <2>3. FreeAfter(<<c>>, 0, c) = (MaxStreams - 1) - Cardinality(Holders(c)) - 0
        BY <2>2, FS_EmptySet DEF FreeAfter, FreeStreams
  <2> QED BY <1>3, <2>1, <2>3, PoolAssumption
<1>5. ASSUME NEW d \in Conn
      PROVE  IsFiniteSet(Holders(d)') /\ Cardinality(Holders(d)') <= MaxStreams - 1
  <2>1. CASE d = c
    <3>1. Holders(c)' \subseteq Holders(c) \cup {cl}
          BY <1>1, <1>2 DEF Holders
    <3> QED BY <2>1, <3>1, <1>2, <1>4, OneMoreHolder DEF StreamsInv
  <2>2. CASE d # c
    <3>1. Holders(d)' \subseteq Holders(d)
          BY <1>1, <1>2, <2>2 DEF Holders
    <3> QED BY <3>1, NoMoreHolders DEF StreamsInv
  <2> QED BY <2>1, <2>2
<1>6. WaitersHoldNothing'
  <2>1. waiters' = waiters /\ cl \notin ToSet(waiters)
        BY DEF GetIdleStream, Calls
  <2>2. DOMAIN waiters = 1 .. Len(waiters) /\ \A i \in 1 .. Len(waiters) : waiters[i] \in Client
        BY LenProperties DEF StreamsInv, TypeOK
  <2>3. \A i \in 1 .. Len(waiters) : waiters[i] # cl
        BY <2>1, <2>2 DEF ToSet
  <2>4. \A i \in 1 .. Len(waiters) : handle'[waiters[i]] = handle[waiters[i]]
        BY <1>1, <1>2, <2>2, <2>3
  <2> QED BY <2>1, <2>4 DEF StreamsInv, WaitersHoldNothing
<1> QED BY <1>5, <1>6 DEF HoldersBounded

\* returnConnection frees the stream, or hands it to the first waiter: the
\* connection has no more clients than before.
LEMMA ReturnKeepsStreams ==
    ASSUME StreamsInv, NEW cl \in Client, ReturnConnection(cl)
    PROVE  HoldersBounded' /\ WaitersHoldNothing'
<1>0. handle \in [Client -> Conn \cup {NoConn}] /\ handle[cl] \in Conn /\ NoConn \notin Conn
      BY PoolAssumption DEF StreamsInv, TypeOK, ReturnConnection
<1>1. CASE waiters = <<>>
  <2>1. handle' = [handle EXCEPT ![cl] = NoConn] /\ waiters' = <<>>
        BY <1>1 DEF ReturnConnection
  <2>2. ASSUME NEW d \in Conn
        PROVE  IsFiniteSet(Holders(d)') /\ Cardinality(Holders(d)') <= MaxStreams - 1
    <3>1. Holders(d)' \subseteq Holders(d)
          BY <1>0, <2>1 DEF Holders
    <3> QED BY <3>1, NoMoreHolders DEF StreamsInv
  <2>3. WaitersHoldNothing'
        BY <2>1, EmptySeq DEF WaitersHoldNothing
  <2> QED BY <2>2, <2>3 DEF HoldersBounded
<1>2. CASE waiters # <<>>
  <2>0. PICK c \in Conn, h \in Client : c = handle[cl] /\ h = Head(waiters)
        BY <1>0, <1>2, HeadTailProperties DEF StreamsInv, TypeOK
  <2> DEFINE n == Len(waiters)
  <2>1. /\ handle' = [handle EXCEPT ![cl] = NoConn, ![h] = c]
        /\ waiters' = Tail(waiters)
        BY <1>2, <2>0 DEF ReturnConnection
  <2>2. /\ n \in Nat \ {0} /\ h = waiters[1] /\ h \in Client
        /\ \A i \in 1 .. n : waiters[i] \in Client
        /\ Len(waiters') = n - 1 /\ \A i \in 1 .. n - 1 : waiters'[i] = waiters[i + 1]
        BY <1>2, <2>0, <2>1, EmptySeq, LenProperties, HeadTailProperties DEF StreamsInv, TypeOK
  <2>3. /\ \A i, j \in 1 .. n : waiters[i] = waiters[j] => i = j
        /\ \A i \in 1 .. n : handle[waiters[i]] = NoConn
        BY DEF StreamsInv, WaitersHoldNothing
  <2> HIDE DEF n
  <2>4. h # cl /\ handle[h] = NoConn
        BY <1>0, <2>2, <2>3
  <2>5. /\ handle'[cl] = NoConn /\ handle'[h] = c
        /\ \A e \in Client \ {cl, h} : handle'[e] = handle[e]
        BY <1>0, <2>1, <2>2, <2>4
  <2>6. ASSUME NEW d \in Conn
        PROVE  IsFiniteSet(Holders(d)') /\ Cardinality(Holders(d)') <= MaxStreams - 1
    <3>1. CASE d # c
      <4>1. Holders(d)' \subseteq Holders(d)
            BY <1>0, <2>5, <3>1 DEF Holders
      <4> QED BY <4>1, NoMoreHolders DEF StreamsInv
    <3>2. CASE d = c
      <4>1. Holders(c)' = (Holders(c) \ {cl}) \cup {h} /\ cl \in Holders(c) /\ h \notin Holders(c)
        <5>1. cl \in Holders(c) /\ h \notin Holders(c)
              BY <1>0, <2>0, <2>4 DEF Holders
        <5>2. \A e \in Client : handle'[e] = c <=> (handle[e] = c /\ e # cl) \/ e = h
              BY <1>0, <2>2, <2>4, <2>5
        <5>3. Holders(c)' = (Holders(c) \ {cl}) \cup {h}
              BY <2>2, <5>2 DEF Holders
        <5> QED BY <5>1, <5>3
      <4>2. IsFiniteSet(Holders(c)) /\ Cardinality(Holders(c)) <= MaxStreams - 1
            BY DEF StreamsInv, HoldersBounded
      <4>3. /\ IsFiniteSet(Holders(c) \ {cl})
            /\ Cardinality(Holders(c) \ {cl}) = Cardinality(Holders(c)) - 1
            BY <4>1, <4>2, FS_RemoveElement
      <4>4. /\ IsFiniteSet((Holders(c) \ {cl}) \cup {h})
            /\ Cardinality((Holders(c) \ {cl}) \cup {h}) = Cardinality(Holders(c) \ {cl}) + 1
            BY <4>1, <4>3, FS_AddElement
      <4>5. Cardinality(Holders(c)) \in Nat
            BY <4>2, FS_CardinalityType
      <4>6. IsFiniteSet(Holders(c)') /\ Cardinality(Holders(c)') = Cardinality(Holders(c))
            BY <4>1, <4>3, <4>4, <4>5
      <4> QED BY <3>2, <4>2, <4>6
    <3> QED BY <3>1, <3>2
  <2>7. ASSUME NEW i \in 1 .. n - 1, NEW j \in 1 .. n - 1, waiters'[i] = waiters'[j]
        PROVE  i = j
    <3>1. i + 1 \in 1 .. n /\ j + 1 \in 1 .. n /\ waiters[i + 1] = waiters[j + 1]
          BY <2>2, <2>7
    <3>2. i + 1 = j + 1
          BY <2>3, <3>1
    <3> QED BY <3>2, <2>2
  <2>8. ASSUME NEW i \in 1 .. n - 1
        PROVE  handle'[waiters'[i]] = NoConn
    <3>1. i + 1 \in 1 .. n /\ 1 \in 1 .. n /\ i + 1 # 1 /\ waiters'[i] = waiters[i + 1]
          BY <2>2
    <3>2. waiters[i + 1] # h /\ waiters[i + 1] \in Client /\ handle[waiters[i + 1]] = NoConn
          BY <2>2, <2>3, <3>1
    <3> QED BY <2>5, <3>1, <3>2
  <2> QED BY <2>2, <2>6, <2>7, <2>8 DEF HoldersBounded, WaitersHoldNothing
<1> QED BY <1>1, <1>2

\* ~ConnectionStream frees it for nobody in particular.
LEMMA DropKeepsStreams ==
    ASSUME StreamsInv, NEW cl \in Client, DropStream(cl)
    PROVE  HoldersBounded' /\ WaitersHoldNothing'
<1>0. handle \in [Client -> Conn \cup {NoConn}] /\ NoConn \notin Conn
      BY PoolAssumption DEF StreamsInv, TypeOK
<1>1. handle' = [handle EXCEPT ![cl] = NoConn] /\ waiters' = waiters
      BY DEF DropStream
<1>2. ASSUME NEW d \in Conn
      PROVE  IsFiniteSet(Holders(d)') /\ Cardinality(Holders(d)') <= MaxStreams - 1
  <2>1. Holders(d)' \subseteq Holders(d)
        BY <1>0, <1>1 DEF Holders
  <2> QED BY <2>1, NoMoreHolders DEF StreamsInv
<1>3. \A i \in 1 .. Len(waiters) : waiters[i] \in Client
      BY LenProperties DEF StreamsInv, TypeOK
<1>4. WaitersHoldNothing'
      BY <1>0, <1>1, <1>3 DEF StreamsInv, WaitersHoldNothing
<1> QED BY <1>2, <1>4 DEF HoldersBounded

\* The spawn loops: a new connection feeds the waiters, giving up leaves none.
LEMMA SpawnStepKeepsStreams ==
    ASSUME StreamsInv, NEW s \in Slot, SpawnStep(s)
    PROVE  HoldersBounded' /\ WaitersHoldNothing'
<1>1. CASE SpawnSucceeds(s)
  <2>1. PICK c \in Unreferenced : FeedWaiters(allConnections \cup {c}, ready \cup {c})
        BY <1>1 DEF SpawnSucceeds
  <2>2. allConnections \cup {c} \in SUBSET Conn
        BY DEF Unreferenced, StreamsInv, TypeOK
  <2> QED BY <2>1, <2>2, FeedKeepsHolders, FeedKeepsWaiters DEF StreamsInv
<1>2. CASE SpawnGivesUp(s)
  <2>1. handle' = handle /\ waiters' = <<>>
        BY <1>2 DEF SpawnGivesUp, CleanWaiters
  <2>2. WaitersHoldNothing'
        BY <2>1, EmptySeq DEF WaitersHoldNothing
  <2> QED BY <2>1, <2>2, SameHandlesSameHolders DEF StreamsInv
<1>3. CASE SpawnFails(s) \/ SpawnRetries(s) \/ SpawnEnds(s)
  <2>1. UNCHANGED <<handle, waiters>>
        BY <1>3 DEF SpawnFails, SpawnRetries, SpawnEnds
  <2> QED BY <2>1, SameHandlesSameHolders, SameWaitersHoldNothing DEF StreamsInv
<1> QED BY <1>1, <1>2, <1>3 DEF SpawnStep

\* The timers: only the find timer feeds.
LEMMA TimerStepKeepsStreams ==
    ASSUME StreamsInv, TimerStep
    PROVE  HoldersBounded' /\ WaitersHoldNothing'
<1>1. CASE FindTimerTicks
  <2>1. FeedWaiters(allConnections, ready) /\ allConnections \in SUBSET Conn
        BY <1>1 DEF FindTimerTicks, StreamsInv, TypeOK
  <2> QED BY <2>1, FeedKeepsHolders, FeedKeepsWaiters DEF StreamsInv
<1>2. CASE FindTimerEnds \/ DropTimerTicks \/ DropTimerEnds
  <2>1. UNCHANGED <<handle, waiters>>
        BY <1>2 DEF FindTimerEnds, DropTimerTicks, DropTimerEnds
  <2> QED BY <2>1, SameHandlesSameHolders, SameWaitersHoldNothing DEF StreamsInv
<1> QED BY <1>1, <1>2 DEF TimerStep

-----------------------------------------------------------------------------
(* The theorems *)

\* Nobody holds a stream of the pool that has just been made.
LEMMA InitStreams == Init => StreamsInv
<1> SUFFICES ASSUME Init PROVE StreamsInv
    OBVIOUS
<1>1. TypeOK
      BY InitInv DEF IInv
<1>2. \A c \in Conn : Holders(c) = {}
      BY PoolAssumption DEF Init, Holders
<1>3. HoldersBounded
      BY <1>2, FS_EmptySet, PoolAssumption DEF HoldersBounded
<1>4. WaitersHoldNothing
      BY EmptySeq DEF Init, WaitersHoldNothing
<1> QED BY <1>1, <1>3, <1>4 DEF StreamsInv

\* Every step keeps the two parts; the types are proved already.
LEMMA NextKeepsStreams ==
    StreamsInv /\ [Next]_vars => HoldersBounded' /\ WaitersHoldNothing'
<1> SUFFICES ASSUME StreamsInv, [Next]_vars
             PROVE  HoldersBounded' /\ WaitersHoldNothing'
    OBVIOUS
<1>1. ASSUME NEW cl \in Client, ClientStep(cl)
      PROVE  HoldersBounded' /\ WaitersHoldNothing'
      BY <1>1, WaitingKeepsStreams, IdleStreamKeepsStreams, ReturnKeepsStreams,
         DropKeepsStreams DEF ClientStep, GetConnection
<1>2. ASSUME UNCHANGED <<handle, waiters>>
      PROVE  HoldersBounded' /\ WaitersHoldNothing'
      BY <1>2, SameHandlesSameHolders, SameWaitersHoldNothing DEF StreamsInv
<1>3. ASSUME NEW c \in Conn, ConnectionCloses(c)
      PROVE  UNCHANGED <<handle, waiters>>
      BY <1>3 DEF ConnectionCloses
<1>4. CASE UNCHANGED vars
      BY <1>2, <1>4 DEF vars
<1> QED BY <1>1, <1>2, <1>3, <1>4, SpawnStepKeepsStreams, TimerStepKeepsStreams DEF Next

\* The invariant of the streams holds of every behaviour of the pool.
LEMMA StreamsInvariant == Spec => []StreamsInv
<1>1. StreamsInv /\ TypeOK' /\ [Next]_vars => StreamsInv'
      BY NextKeepsStreams DEF StreamsInv
<1> QED BY <1>1, InitStreams, TypeCorrect, PTL DEF Spec

\* However the grants of the spawn loops, of the find timer, of getConnection
\* and of returnConnection interleave, no connection serves more clients than
\* its node allows streams, stream zero kept apart.
THEOREM StreamsAreNotOvercommitted == Spec => []StreamsNotOvercommitted
<1>1. StreamsInv => StreamsNotOvercommitted
      BY DEF StreamsInv, HoldersBounded, StreamsNotOvercommitted
<1> QED BY <1>1, StreamsInvariant, PTL

\* A client in waiters_ waits once and holds no stream, so the stream that
\* feedWaiters or returnConnection hands it never replaces another one, which
\* would be lost to the connection.
THEOREM GrantsReplaceNoStream == Spec => []WaitersHoldNothing
<1>1. StreamsInv => WaitersHoldNothing
      BY DEF StreamsInv
<1> QED BY <1>1, StreamsInvariant, PTL
=============================================================================
