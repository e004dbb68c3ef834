--------------------------- MODULE InboxRefinement ---------------------------
(***************************************************************************)
(* Inbox implements ShardQueue, for any finite set of events and any       *)
(* number of shards, batches, Enqueue calls and workers: a committed batch *)
(* is a Put, a committed block a Take, and no other step is visible.  Over *)
(* the invariant of InboxProofs only the size of a block is missing.       *)
(***************************************************************************)
EXTENDS InboxProofs, FunctionTheorems

\* applyShardSize bounds a block, and at most one row of it is backed off.
BlockInv(w) ==
    worker[w].phase = "staged" =>
      Cardinality(worker[w].done) <= Limit /\ Cardinality(worker[w].bad) <= 1

BlockSizes == \A w \in Workers : BlockInv(w)

\* the parts of the state that the queue shows
Waiting == {e \in Events : inbox[e] = "pending"}
Stamp   == [e \in Events |-> IF inbox[e] = "pending" THEN received[e] ELSE 0]

-----------------------------------------------------------------------------
\* LIMIT n returns at most n rows: each row has another number of predecessors.
LEMMA FirstNBound ==
  ASSUME TypeOK, NEW S \in SUBSET Events, NEW n \in Nat \ {0}
  PROVE  Cardinality(FirstN(S, n)) <= n
  <1> DEFINE P(e) == {x \in S : Before(x, e)}
             f == [e \in FirstN(S, n) |-> Cardinality(P(e))]
  <1>1. FirstN(S, n) = {e \in S : Cardinality(P(e)) < n} /\ FirstN(S, n) \subseteq Events
    BY DEF FirstN
  <1>2. \A e \in S : P(e) \subseteq Events /\ Cardinality(P(e)) \in Nat
    BY CountRows
  <1>3. ASSUME NEW a \in S, NEW b \in S, Before(a, b)
        PROVE  Cardinality(P(a)) < Cardinality(P(b))
    <2>1. a \in Events /\ b \in Events
      OBVIOUS
    <2>2. P(a) \subseteq P(b)
      BY <1>3, <2>1, BeforeTransitive
    <2>3. a \in P(b) /\ a \notin P(a)
      BY <1>3, <2>1, InboxAssumption DEF Before, TypeOK
    <2>4. IsFiniteSet(P(b)) /\ P(a) # P(b)
      BY <1>2, <2>3, InboxAssumption, FS_Subset
    <2> HIDE DEF P
    <2>5. Cardinality(P(a)) <= Cardinality(P(b)) /\ Cardinality(P(b)) # Cardinality(P(a))
      BY <2>2, <2>4, FS_Subset
    <2> QED BY <1>2, <2>5
  <1>4. \A a, b \in S : a # b => Before(a, b) \/ Before(b, a)
    BY InboxAssumption DEF Before, TypeOK
  <1> HIDE DEF P
  <1>5. f \in [FirstN(S, n) -> 0..(n - 1)]
    BY <1>1, <1>2
  <1>6. \A a, b \in FirstN(S, n) : f[a] = f[b] => a = b
    BY <1>1, <1>2, <1>3, <1>4
  <1>7. f \in Injection(FirstN(S, n), 0..(n - 1))
    BY <1>5, <1>6 DEF Injection, IsInjective
  <1> HIDE DEF f
  <1>8. IsFiniteSet(0..(n - 1)) /\ Cardinality(0..(n - 1)) = n
    BY FS_Interval
  <1> QED BY <1>7, <1>8, FS_Injection

\* ProcessBlock respects the block size and backs off at most one row.
LEMMA BlockBound ==
  ASSUME Inv, NEW s \in Shards
  PROVE  /\ Cardinality(Decodable(s)) <= Limit
         /\ Cardinality({b \in Block(s) \cap Undecodable :
                           IsFirst(b, Block(s) \cap Undecodable)}) <= 1
  <1> DEFINE X == Block(s) \cap Undecodable
             bad == {b \in X : IsFirst(b, X)}
  <1>1. Block(s) \subseteq Events /\ Decodable(s) \subseteq Block(s)
    BY BlockOrder DEF Unapplied
  <1>2. Cardinality(Block(s)) <= Limit
    <2>1. Unapplied(s) \ delayed \in SUBSET Events
      BY DEF Unapplied
    <2> QED BY <2>1, FirstNBound, InboxAssumption DEF Block, Inv
  <1>3. Cardinality(Decodable(s)) <= Limit
    <2>1. Block(s) \in SUBSET Events /\ Decodable(s) \in SUBSET Events
      BY <1>1
    <2>2. /\ Cardinality(Block(s)) \in Nat /\ Cardinality(Decodable(s)) \in Nat
          /\ Cardinality(Decodable(s)) <= Cardinality(Block(s))
      BY <1>1, <2>1, CountRows
    <2> QED BY <1>2, <2>2, InboxAssumption
  <1>4. Cardinality(bad) <= 1
    <2>1. CASE bad = {}
      BY <2>1, FS_EmptySet
    <2>2. CASE bad # {}
      <3>1. PICK b : b \in bad
        BY <2>2
      <3>2. ASSUME NEW a \in bad, a # b PROVE FALSE
        <4>1. a \in Events /\ b \in Events
          BY <1>1, <3>1
        <4>2. Before(a, b) /\ Before(b, a)
          BY <3>1, <3>2 DEF IsFirst
        <4>3. /\ a \in Nat /\ b \in Nat /\ received[a] \in Nat /\ received[b] \in Nat
          BY <4>1, InboxAssumption DEF Inv, TypeOK
        <4> QED BY <4>2, <4>3 DEF Before
      <3>3. bad = {b}
        BY <3>1, <3>2
      <3> QED BY <3>3, FS_Singleton
    <2> QED BY <2>1, <2>2
  <1> QED BY <1>3, <1>4

\* Only ProcessBlock fills a block.
LEMMA BlockSizesNext ==
  ASSUME Inv, BlockSizes, [Next]_vars
  PROVE  BlockSizes'
  <1> SUFFICES ASSUME NEW w \in Workers PROVE BlockInv(w)'
    BY DEF BlockSizes
  <1>1. BlockInv(w) /\ worker \in [Workers -> WorkerState] /\ WorkerInv(w)
    BY DEF BlockSizes, Inv, TypeOK
  <1>2. CASE worker' = worker
    BY <1>1, <1>2 DEF BlockInv
  <1>3. ASSUME NEW v \in Workers, ApplyShard(v) PROVE BlockInv(w)'
    <2>1. CASE v # w
      <3>1. worker'[w] = worker[w]
        BY <1>1, <1>3, <2>1 DEF ApplyShard, BeginApply, LockShard, SkipShard, ProcessBlock,
                                CommitApply, AbortApply
      <3> QED BY <1>1, <3>1 DEF BlockInv
    <2>2. CASE v = w /\ ProcessBlock(w)
      <3>1. worker[w].phase = "locked" /\ worker[w].shard \in Shards
        BY <1>1, <2>2 DEF ProcessBlock, WorkerInv
      <3> DEFINE s == worker[w].shard
                 done == Decodable(s)
                 bad == {b \in Block(s) \cap Undecodable : IsFirst(b, Block(s) \cap Undecodable)}
      <3>2. PICK h \in Events \cup {None} :
              worker' = [worker EXCEPT ![w].phase = "staged", ![w].done = done,
                                       ![w].bad = bad, ![w].next = h]
        BY <2>2 DEF ProcessBlock
      <3>3. Cardinality(done) <= Limit /\ Cardinality(bad) <= 1
        BY <3>1, BlockBound
      <3> HIDE DEF done, bad
      <3>4. worker'[w].done = done /\ worker'[w].bad = bad
        BY <1>1, <3>2 DEF WorkerState
      <3> QED BY <3>3, <3>4 DEF BlockInv
    <2>3. CASE v = w /\ ~ProcessBlock(w)
      <3>1. worker'[w].phase # "staged"
        <4>1. CASE BeginApply(w) \/ SkipShard(w) \/ AbortApply(w)
          BY <1>1, <4>1 DEF BeginApply, SkipShard, AbortApply, IdleWorker, WorkerState
        <4>2. CASE LockShard(w)
          BY <1>1, <4>2 DEF LockShard, WorkerState
        <4>3. CASE CommitApply(w)
          BY <1>1, <4>3 DEF CommitApply, IdleWorker
        <4> QED BY <1>3, <2>3, <4>1, <4>2, <4>3 DEF ApplyShard
      <3> QED BY <3>1 DEF BlockInv
    <2> QED BY <2>1, <2>2, <2>3
  <1>4. ASSUME NEW c \in Clients, Enqueue(c) PROVE worker' = worker
    BY <1>4 DEF Enqueue, BeginEnqueue, InsertRow, SkipDuplicate, StageHead, CommitEnqueue,
                CommitDuplicates, AbortEnqueue
  <1>5. ASSUME NEW e \in Events, BecomeAvailable(e) PROVE worker' = worker
    BY <1>5 DEF BecomeAvailable
  <1>6. Cleanup => worker' = worker
    BY DEF Cleanup
  <1>7. UNCHANGED vars => worker' = worker
    BY DEF vars
  <1> QED BY <1>2, <1>3, <1>4, <1>5, <1>6, <1>7 DEF Next

\* The sizes of blocks are bounded throughout.
LEMMA BlockSizesInvariance == Spec => []BlockSizes
  <1>1. Init => BlockSizes
    BY DEF Init, BlockSizes, BlockInv, IdleWorker
  <1>2. Inv /\ BlockSizes /\ [Next]_vars => BlockSizes'
    BY BlockSizesNext
  <1> QED BY <1>1, <1>2, Invariance, PTL DEF Spec

-----------------------------------------------------------------------------
\* A committed batch is a Put: its rows get their places, nothing else moves.
LEMMA CommitEnqueuePuts ==
  ASSUME Inv, NEW c \in Clients, CommitEnqueue(c)
  PROVE  [ShardQueues!QueueNext]_(ShardQueues!queueVars)
  <1> DEFINE mine == client[c].mine
  <1>1. /\ inbox' = [e \in Events |-> IF e \in mine THEN "pending" ELSE inbox[e]]
        /\ received' = received /\ failed' = failed
    BY DEF CommitEnqueue
  <1>2. PICK s \in Shards :
          \A e \in mine : e \in Events /\ inbox[e] = "inserting" /\ ShardOf[e] = s
    <2>1. ClientInv(c) /\ client[c] \in ClientState /\ client[c].phase = "staged"
      BY DEF CommitEnqueue, Inv, TypeOK
    <2>2. client[c].shard \in Shards /\ client[c].mine \subseteq Events
          /\ \A e \in client[c].mine : inbox[e] = "inserting" /\ ShardOf[e] = client[c].shard
      BY <2>1 DEF ClientInv, ClientState
    <2> QED BY <2>2
  <1> HIDE DEF mine
  <1>3. Waiting' = Waiting \cup mine
    BY <1>1, <1>2 DEF Waiting
  <1>4. /\ Stamp' \in [Events -> Nat]
        /\ \A e \in Events : e \notin Waiting' \ Waiting => Stamp'[e] = Stamp[e]
    BY <1>1, <1>2 DEF Waiting, Stamp, Inv, TypeOK
  <1>5. CASE mine = {}
    <2>1. Waiting' = Waiting /\ Stamp' = Stamp
      BY <1>1, <1>3, <1>5 DEF Stamp
    <2> QED BY <1>1, <2>1 DEF ShardQueues!queueVars, Waiting, Stamp
  <1>6. CASE mine # {}
    <2>1. Waiting' # Waiting /\ Waiting \subseteq Waiting' /\ Waiting' \subseteq Events
          /\ \A e \in Waiting' \ Waiting : ShardOf[e] = s
      BY <1>2, <1>3, <1>6 DEF Waiting
    <2>2. ShardQueues!Put(s)
      BY <1>1, <1>4, <2>1 DEF ShardQueues!Put, Waiting, Stamp
    <2>3. ShardQueues!QueueNext
      BY <2>2 DEF ShardQueues!QueueNext
    <2> QED BY <2>3
  <1> QED BY <1>5, <1>6

\* Both modules count with the same operator.
LEMMA SameCardinality == \A S : ShardQueues!Cardinality(S) = Cardinality(S)
  BY DEF ShardQueues!Cardinality, Cardinality

\* A committed block is a Take; it is invisible when it backs a row off again.
LEMMA CommitApplyTakes ==
  ASSUME Inv, BlockSizes, NEW w \in Workers, CommitApply(w)
  PROVE  [ShardQueues!QueueNext]_(ShardQueues!queueVars)
  <1> DEFINE done == worker[w].done
             bad == worker[w].bad
             held == failed' \ failed
  <1>1. /\ inbox' = [e \in Events |-> IF e \in done THEN "applied" ELSE inbox[e]]
        /\ received' = received /\ failed' = (failed \cup bad) \ done
    BY DEF CommitApply
  <1>2. PICK s \in Shards :
        /\ done \subseteq Unapplied(s) /\ bad \subseteq Unapplied(s) \ done
        /\ \A e \in done, x \in Unapplied(s) \ done : Before(x, e) => x \in failed
    BY DEF CommitApply, Inv, WorkerInv
  <1>3. Cardinality(done) <= Limit /\ Cardinality(bad) <= 1
    BY DEF CommitApply, BlockSizes, BlockInv
  <1> HIDE DEF done, bad
  <1>4. Unapplied(s) = {e \in Waiting : ShardOf[e] = s} /\ Unapplied(s) \subseteq Events
    BY DEF Unapplied, Waiting
  <1>5. Waiting' = Waiting \ done /\ Waiting \ Waiting' = done
    BY <1>1, <1>2, <1>4 DEF Waiting
  <1>6. Stamp' = [e \in Events |-> IF e \in done THEN 0 ELSE Stamp[e]]
    BY <1>1 DEF Stamp
  <1>7. /\ held \subseteq Unapplied(s) \ done /\ failed' = (failed \cup held) \ done
        /\ held \subseteq bad
    BY <1>1, <1>2
  <1>8. Cardinality(held) <= 1
    <2>1. bad \in SUBSET Events /\ held \in SUBSET Events
      BY <1>2, <1>4, <1>7
    <2> HIDE DEF held
    <2>2. Cardinality(held) <= Cardinality(bad) /\ Cardinality(held) \in Nat
          /\ Cardinality(bad) \in Nat
      BY <1>7, <2>1, CountRows
    <2> QED BY <1>3, <2>2
  <1>9. ASSUME NEW e \in done, NEW x \in Unapplied(s),
               Stamp[x] < Stamp[e] \/ (Stamp[x] = Stamp[e] /\ x < e)
        PROVE  x \in done \cup failed
    <2>1. Stamp[x] = received[x] /\ Stamp[e] = received[e]
      BY <1>2, <1>9 DEF Stamp, Unapplied
    <2>2. Before(x, e)
      BY <1>9, <2>1 DEF Before
    <2> QED BY <1>2, <1>9, <2>2
  <1>10. CASE done \cup held = {}
    <2>1. Waiting' = Waiting /\ Stamp' = Stamp /\ failed' = failed
      BY <1>5, <1>6, <1>7, <1>10 DEF Stamp
    <2> QED BY <2>1 DEF ShardQueues!queueVars, Waiting, Stamp
  <1>11. CASE done \cup held # {}
    <2>1. ShardQueues!Queued(s) = Unapplied(s)
      BY <1>4 DEF ShardQueues!Queued, Waiting
    <2>2. \A e \in done : \A x \in ShardQueues!Queued(s) :
            ShardQueues!Ahead(x, e) => x \in done \cup failed
      BY <1>9, <2>1 DEF ShardQueues!Ahead, Stamp
    <2>3. ShardQueues!Take(s)
      BY <1>2, <1>3, <1>5, <1>6, <1>7, <1>8, <1>11, <2>1, <2>2,
         SameCardinality DEF ShardQueues!Take, Waiting, Stamp
    <2>4. ShardQueues!QueueNext
      BY <2>3 DEF ShardQueues!QueueNext
    <2> QED BY <2>4
  <1> QED BY <1>10, <1>11

\* Open and aborted transactions, skipped heads, back-off and retention are invisible.
LEMMA OtherStepsInvisible ==
  ASSUME Inv, [Next]_vars, \A c \in Clients : ~CommitEnqueue(c),
         \A w \in Workers : ~CommitApply(w)
  PROVE  UNCHANGED ShardQueues!queueVars
  <1> SUFFICES /\ failed' = failed
               /\ \A e \in Events : /\ inbox'[e] = "pending" <=> inbox[e] = "pending"
                                    /\ inbox[e] = "pending" => received'[e] = received[e]
    BY DEF ShardQueues!queueVars
  <1>1. inbox \in [Events -> {"absent", "inserting", "pending", "applied"}]
        /\ received \in [Events -> Nat]
    BY DEF Inv, TypeOK
  <1>2. CASE inbox' = inbox /\ received' = received /\ failed' = failed
    BY <1>2
  <1>3. ASSUME NEW c \in Clients, InsertRow(c)
        PROVE  /\ failed' = failed
               /\ \A e \in Events : /\ inbox'[e] = "pending" <=> inbox[e] = "pending"
                                    /\ inbox[e] = "pending" => received'[e] = received[e]
    <2>1. PICK t : received' = [received EXCEPT ![Head(client[c].todo)] = t]
      BY <1>3 DEF InsertRow
    <2>2. /\ inbox' = [inbox EXCEPT ![Head(client[c].todo)] = "inserting"]
          /\ inbox[Head(client[c].todo)] = "absent" /\ failed' = failed
      BY <1>3 DEF InsertRow
    <2> QED BY <1>1, <2>1, <2>2
  <1>4. ASSUME NEW c \in Clients, AbortEnqueue(c)
        PROVE  /\ failed' = failed /\ received' = received
               /\ \A e \in Events : inbox'[e] = "pending" <=> inbox[e] = "pending"
    <2>1. \A e \in client[c].mine : inbox[e] = "inserting"
      BY DEF Inv, ClientInv
    <2> QED BY <1>4, <2>1 DEF AbortEnqueue
  <1>5. ASSUME NEW c \in Clients, Enqueue(c), ~InsertRow(c), ~AbortEnqueue(c)
        PROVE  inbox' = inbox /\ received' = received /\ failed' = failed
    BY <1>5 DEF Enqueue, BeginEnqueue, SkipDuplicate, StageHead, CommitDuplicates, inboxVars
  <1>6. ASSUME NEW w \in Workers, ApplyShard(w)
        PROVE  inbox' = inbox /\ received' = received /\ failed' = failed
    BY <1>6 DEF ApplyShard, BeginApply, LockShard, SkipShard, ProcessBlock, AbortApply, inboxVars
  <1>7. ASSUME NEW e \in Events, BecomeAvailable(e)
        PROVE  inbox' = inbox /\ received' = received /\ failed' = failed
    BY <1>7 DEF BecomeAvailable
  <1>8. ASSUME Cleanup
        PROVE  /\ failed' = failed /\ received' = received
               /\ \A e \in Events : inbox'[e] = "pending" <=> inbox[e] = "pending"
    BY <1>8 DEF Cleanup
  <1>9. UNCHANGED vars => inbox' = inbox /\ received' = received /\ failed' = failed
    BY DEF vars, inboxVars
  <1> QED BY <1>2, <1>3, <1>4, <1>5, <1>6, <1>7, <1>8, <1>9 DEF Next

\* The ingest inbox, with its overlapping and aborted transactions, stale snapshots,
\* skipped locks and retention, implements one ordered queue per shard.
THEOREM InboxImplementsQueue == Spec => ImplementsQueue
  <1>1. Init => ShardQueues!QueueInit
    BY DEF Init, ShardQueues!QueueInit
  <1>2. Inv /\ BlockSizes /\ [Next]_vars => [ShardQueues!QueueNext]_(ShardQueues!queueVars)
    BY CommitEnqueuePuts, CommitApplyTakes, OtherStepsInvisible
  <1> QED BY <1>1, <1>2, Invariance, BlockSizesInvariance, PTL
          DEF Spec, ImplementsQueue, ShardQueues!QueueSpec
=============================================================================
