-------------------------------- MODULE Inbox --------------------------------
(***************************************************************************)
(* The durable ingest inbox of internal/v2/store/store.go: the tables      *)
(* ingest_event and ingest_shard_head, written by the Enqueue transactions *)
(* of the API (any number at once), by the ApplyShard transactions of the  *)
(* workers (any number at once) and by the retention transaction Cleanup.  *)
(*                                                                         *)
(* All three run in PostgreSQL READ COMMITTED transactions.  What the model*)
(* keeps of that:                                                          *)
(*   - a row another transaction inserted is invisible until it commits;   *)
(*   - ON CONFLICT waits for the transaction that holds the same key;      *)
(*   - each statement reads a fresh snapshot, so a value read by one       *)
(*     statement may be stale when a later one uses it;                    *)
(*   - a row lock taken on a head is held to the end of the transaction,   *)
(*     and SKIP LOCKED passes over a locked head instead of waiting;       *)
(*   - every transaction may abort at any point before its commit (crash,  *)
(*     cancelled context, deadlock victim, database error).                *)
(* What an applied event does to the inventory is module Inventory.        *)
(***************************************************************************)
EXTENDS Naturals, FiniteSets, Sequences

CONSTANTS
    Events,       \* event_id values; numbers, because ORDER BY compares them
    Shards,       \* (cluster_name, shard) keys
    ShardOf,      \* the shard whose batches carry the event
    Batches,      \* the batches clients send: sequences of events of one shard
    Clients,      \* concurrent Enqueue calls
    Workers,      \* concurrent ApplyShard calls
    Limit,        \* applyShardSize
    Undecodable,  \* events whose stored payload json.Unmarshal rejects
    MaxClock,     \* bound on the number of inserts (the clock ticks with them)
    None

ASSUME InboxAssumption ==
    /\ Events \subseteq Nat /\ IsFiniteSet(Events)
    /\ ShardOf \in [Events -> Shards]
    /\ Batches \subseteq Seq(Events)
    /\ \A b \in Batches : \A i, j \in DOMAIN b : ShardOf[b[i]] = ShardOf[b[j]]
    /\ \A b \in Batches : b # <<>>
    /\ Clients \cap Workers = {} /\ None \notin Clients \cup Workers
    /\ None \notin Events
    /\ Limit \in Nat \ {0} /\ MaxClock \in Nat
    /\ Undecodable \subseteq Events

VARIABLES
    inbox,      \* [Events -> "absent" | "inserting" | "pending" | "applied"]
    received,   \* received_at of each row
    clock,      \* the database's clock_timestamp()
    delayed,    \* rows whose available_at lies in the future
    failed,     \* rows with error IS NOT NULL
    head,       \* ingest_shard_head.event_id; None is NULL or no row
    pending,    \* ingest_shard_head.pending_events; 0 when there is no row
    lock,       \* the open transaction that holds the head's row lock
    client,     \* the open Enqueue transactions
    worker,     \* the open ApplyShard transactions
    acked,      \* history: events of batches answered with 202
    processed   \* history: events applied at least once

inboxVars   == <<inbox, received, clock, delayed, failed>>
headVars    == <<head, pending>>
historyVars == <<acked, processed>>
vars == <<inboxVars, headVars, lock, client, worker, historyVars>>

-----------------------------------------------------------------------------
\* ORDER BY received_at, event_id
Before(a, b) ==
    \/ received[a] < received[b]
    \/ received[a] = received[b] /\ a < b

\* SELECT event_id ... ORDER BY received_at, event_id LIMIT 1; None is no row
IsFirst(h, S) ==
    IF S = {} THEN h = None
    ELSE h \in S /\ \A x \in S : x = h \/ Before(h, x)

\* the first n elements of S in that order
FirstN(S, n) == {e \in S : Cardinality({x \in S : Before(x, e)}) < n}

\* committed rows of a shard with applied_at IS NULL
Unapplied(s) == {e \in Events : inbox[e] = "pending" /\ ShardOf[e] = s}

IdleClient == [phase |-> "idle", shard |-> None, ids |-> {}, todo |-> <<>>,
               mine |-> {}, next |-> None]
IdleWorker == [phase |-> "idle", shard |-> None, snap |-> {}, done |-> {},
               bad |-> {}, next |-> None]

Release(s, t) == [lock EXCEPT ![s] = IF @ = t THEN None ELSE @]

-----------------------------------------------------------------------------
(***************************************************************************)
(* Enqueue: one transaction per accepted batch.                            *)
(***************************************************************************)
BeginEnqueue(c) ==
    /\ client[c].phase = "idle"
    /\ \E b \in Batches :
         client' = [client EXCEPT ![c] =
             [phase |-> "insert", shard |-> ShardOf[b[1]], ids |-> {b[i] : i \in DOMAIN b},
              todo |-> b, mine |-> {}, next |-> None]]
    /\ UNCHANGED <<inboxVars, headVars, lock, worker, historyVars>>

\* INSERT ... ON CONFLICT (event_id) DO NOTHING, the key being free.
\* received_at is the clock at this statement; two inserts of different
\* transactions may read the same microsecond.
InsertRow(c) ==
    LET e == Head(client[c].todo) IN
    /\ client[c].phase = "insert" /\ client[c].todo # <<>>
    /\ inbox[e] = "absent"
    /\ clock < MaxClock
    /\ clock' = clock + 1
    /\ \E t \in {clock, clock + 1} : received' = [received EXCEPT ![e] = t]
    /\ inbox' = [inbox EXCEPT ![e] = "inserting"]
    /\ client' = [client EXCEPT ![c].todo = Tail(@), ![c].mine = @ \cup {e}]
    /\ UNCHANGED <<delayed, failed, headVars, lock, worker, historyVars>>

\* Seeded defect: an insert that does not wait for the transaction holding the key.
ConflictsAtOnce(e, mine) == inbox[e] # "absent"

\* The key is taken by a committed row or by an earlier row of this batch.  While
\* another open transaction holds it, the statement waits: neither insert nor skip.
Conflicts(e, mine) == inbox[e] \in {"pending", "applied"} \/ e \in mine

\* ... the key being taken: DO NOTHING.
SkipDuplicate(c) ==
    LET e == Head(client[c].todo) IN
    /\ client[c].phase = "insert" /\ client[c].todo # <<>>
    /\ Conflicts(e, client[c].mine)
    /\ client' = [client EXCEPT ![c].todo = Tail(@)]
    /\ UNCHANGED <<inboxVars, headVars, lock, worker, historyVars>>

\* Seeded defect: the new head is chosen among the batch's own rows.
HeadCandidatesOwn(s, mine) == mine

\* the rows the UPDATE of the head chooses from: committed ones and this batch's
HeadCandidates(s, mine) == Unapplied(s) \cup mine

\* The upsert of the head waits for its row lock; the UPDATE that follows reads
\* the earliest unapplied row in a new snapshot (its own rows included) and
\* overrides the COALESCE of the upsert.
StageHead(c) ==
    LET s == client[c].shard IN
    /\ client[c].phase = "insert" /\ client[c].todo = <<>>
    /\ client[c].mine # {}
    /\ lock[s] = None
    /\ \E h \in Events \cup {None} :
         /\ IsFirst(h, HeadCandidates(s, client[c].mine))
         /\ client' = [client EXCEPT ![c].phase = "staged", ![c].next = h]
    /\ lock' = [lock EXCEPT ![s] = c]
    /\ UNCHANGED <<inboxVars, headVars, worker, historyVars>>

\* Commit, and the API answers 202.
CommitEnqueue(c) ==
    LET s == client[c].shard
        mine == client[c].mine IN
    /\ client[c].phase = "staged"
    /\ inbox' = [e \in Events |-> IF e \in mine THEN "pending" ELSE inbox[e]]
    /\ head' = [head EXCEPT ![s] = client[c].next]
    /\ pending' = [pending EXCEPT ![s] = @ + Cardinality(mine)]
    /\ lock' = Release(s, c)
    /\ acked' = acked \cup client[c].ids
    /\ client' = [client EXCEPT ![c] = IdleClient]
    /\ UNCHANGED <<received, clock, delayed, failed, worker, processed>>

\* Every event of the batch was a duplicate: nothing to write, still 202.
CommitDuplicates(c) ==
    /\ client[c].phase = "insert" /\ client[c].todo = <<>>
    /\ client[c].mine = {}
    /\ acked' = acked \cup client[c].ids
    /\ client' = [client EXCEPT ![c] = IdleClient]
    /\ UNCHANGED <<inboxVars, headVars, lock, worker, processed>>

\* Rollback: the rows inserted vanish, no 202 is sent.
AbortEnqueue(c) ==
    /\ client[c].phase # "idle"
    /\ inbox' = [e \in Events |-> IF e \in client[c].mine THEN "absent" ELSE inbox[e]]
    /\ lock' = [s \in Shards |-> IF lock[s] = c THEN None ELSE lock[s]]
    /\ client' = [client EXCEPT ![c] = IdleClient]
    /\ UNCHANGED <<received, clock, delayed, failed, headVars, worker, historyVars>>

-----------------------------------------------------------------------------
(***************************************************************************)
(* ApplyShard: one transaction per block of at most Limit events.          *)
(***************************************************************************)
\* The locking SELECT takes its snapshot: the heads that can be worked on.
BeginApply(w) ==
    LET ready == {e \in Events : /\ \E s \in Shards : head[s] = e
                                 /\ inbox[e] = "pending" /\ e \notin delayed} IN
    /\ worker[w].phase = "idle"
    /\ ready # {}
    /\ worker' = [worker EXCEPT ![w].phase = "scan", ![w].snap = ready]
    /\ UNCHANGED <<inboxVars, headVars, lock, client, historyVars>>

\* The next head of the snapshot is free and still names the same event (a
\* head that moved since the snapshot fails the join when it is rechecked;
\* the event's own columns are not read again).
LockShard(w) ==
    \E e \in worker[w].snap :
      /\ worker[w].phase = "scan"
      /\ IsFirst(e, worker[w].snap)
      /\ lock[ShardOf[e]] = None /\ head[ShardOf[e]] = e
      /\ lock' = [lock EXCEPT ![ShardOf[e]] = w]
      /\ worker' = [worker EXCEPT ![w].phase = "locked", ![w].shard = ShardOf[e],
                                  ![w].snap = {}]
      /\ UNCHANGED <<inboxVars, headVars, client, historyVars>>

\* The next head of the snapshot is locked or moved: SKIP LOCKED goes on to the
\* one after it; after the last, ApplyShard returns 0.
SkipShard(w) ==
    \E e \in worker[w].snap :
      /\ worker[w].phase = "scan"
      /\ IsFirst(e, worker[w].snap)
      /\ lock[ShardOf[e]] # None \/ head[ShardOf[e]] # e
      /\ worker' = [worker EXCEPT ![w] =
            IF worker[w].snap = {e} THEN IdleWorker
            ELSE [worker[w] EXCEPT !.snap = @ \ {e}]]
      /\ UNCHANGED <<inboxVars, headVars, lock, client, historyVars>>

\* the rows the second SELECT returns
Block(s) == FirstN(Unapplied(s) \ delayed, Limit)

\* Seeded defect: an undecodable row is passed over instead of ending the block.
DecodableInBlock(s) == Block(s) \ Undecodable

\* the rows applied before the first that cannot be decoded
Decodable(s) ==
    {e \in Block(s) : \A b \in Block(s) \cap Undecodable : Before(e, b)}

\* Seeded defect: the next head is read before the rows are marked applied.
RemainingWithDone(s, done) == Unapplied(s)

\* the rows the next head is chosen from
Remaining(s, done) == Unapplied(s) \ done

\* Under the head's lock: read the block, apply it up to the first undecodable
\* row, mark the rows applied, and read the next head (whatever its
\* availability).
ProcessBlock(w) ==
    LET s == worker[w].shard IN
    /\ worker[w].phase = "locked"
    /\ \E h \in Events \cup {None} :
         /\ IsFirst(h, Remaining(s, Decodable(s)))
         /\ worker' = [worker EXCEPT
               ![w].phase = "staged", ![w].done = Decodable(s),
               ![w].bad = {b \in Block(s) \cap Undecodable :
                             IsFirst(b, Block(s) \cap Undecodable)},
               ![w].next = h]
    /\ UNCHANGED <<inboxVars, headVars, lock, client, historyVars>>

\* Seeded defects: the counter drops by the block size, or by one.
CountLimit(done) == Limit
CountOne(done) == 1

\* len(completed)
Count(done) == Cardinality(done)

\* Commit: the head moves only when something was completed.
CommitApply(w) ==
    LET s == worker[w].shard
        done == worker[w].done IN
    /\ worker[w].phase = "staged"
    /\ inbox' = [e \in Events |-> IF e \in done THEN "applied" ELSE inbox[e]]
    /\ delayed' = delayed \cup worker[w].bad
    /\ failed' = (failed \cup worker[w].bad) \ done
    /\ IF done # {}
         THEN /\ head' = [head EXCEPT ![s] = worker[w].next]
              /\ pending' = [pending EXCEPT ![s] = @ - Count(done)]
         ELSE UNCHANGED headVars
    /\ processed' = processed \cup done
    /\ lock' = Release(s, w)
    /\ worker' = [worker EXCEPT ![w] = IdleWorker]
    /\ UNCHANGED <<received, clock, client, acked>>

\* Rollback of the whole block.
AbortApply(w) ==
    /\ worker[w].phase # "idle"
    /\ lock' = [s \in Shards |-> IF lock[s] = w THEN None ELSE lock[s]]
    /\ worker' = [worker EXCEPT ![w] = IdleWorker]
    /\ UNCHANGED <<inboxVars, headVars, client, historyVars>>

-----------------------------------------------------------------------------
\* available_at <= clock_timestamp() again
BecomeAvailable(e) ==
    /\ e \in delayed
    /\ delayed' = delayed \ {e}
    /\ UNCHANGED <<inbox, received, clock, failed, headVars, lock, client, worker,
                   historyVars>>

\* The inbox and shard-metadata statements of the retention transaction.  Which
\* rows are older than the retention is left open.  A head row another
\* transaction has locked makes the DELETE wait and test it again.
Cleanup ==
    \E gone \in SUBSET {s \in Shards : pending[s] = 0 /\ lock[s] = None},
       old \in SUBSET {e \in Events : inbox[e] = "applied"} :
      /\ gone \cup old # {}
      /\ head' = [s \in Shards |-> IF s \in gone THEN None ELSE head[s]]
      /\ pending' = [s \in Shards |-> IF s \in gone THEN 0 ELSE pending[s]]
      /\ inbox' = [e \in Events |-> IF e \in old THEN "absent" ELSE inbox[e]]
      /\ UNCHANGED <<received, clock, delayed, failed, lock, client, worker, historyVars>>

-----------------------------------------------------------------------------
Init ==
    /\ inbox = [e \in Events |-> "absent"]
    /\ received = [e \in Events |-> 0]
    /\ clock = 0
    /\ delayed = {} /\ failed = {}
    /\ head = [s \in Shards |-> None]
    /\ pending = [s \in Shards |-> 0]
    /\ lock = [s \in Shards |-> None]
    /\ client = [c \in Clients |-> IdleClient]
    /\ worker = [w \in Workers |-> IdleWorker]
    /\ acked = {} /\ processed = {}

Enqueue(c) ==
    \/ BeginEnqueue(c) \/ InsertRow(c) \/ SkipDuplicate(c) \/ StageHead(c)
    \/ CommitEnqueue(c) \/ CommitDuplicates(c) \/ AbortEnqueue(c)

ApplyShard(w) ==
    \/ BeginApply(w) \/ LockShard(w) \/ SkipShard(w) \/ ProcessBlock(w)
    \/ CommitApply(w) \/ AbortApply(w)

Next ==
    \/ \E c \in Clients : Enqueue(c)
    \/ \E w \in Workers : ApplyShard(w)
    \/ \E e \in Events : BecomeAvailable(e)
    \/ Cleanup

Spec == Init /\ [][Next]_vars

\* The worker loop calls ApplyShard again and again (worker.go: the idle timer is
\* always reset), a transaction that reached its last statement ends, time
\* passes, and ApplyShard does not hit a database error on every attempt.
Fairness ==
    /\ \A c \in Clients : WF_vars(CommitEnqueue(c))
    /\ \A w \in Workers : /\ WF_vars(BeginApply(w)) /\ WF_vars(SkipShard(w))
                          /\ SF_vars(LockShard(w)) /\ SF_vars(ProcessBlock(w))
                          /\ SF_vars(CommitApply(w))
    /\ \A e \in Events : WF_vars(BecomeAvailable(e))

FairSpec == Spec /\ Fairness

-----------------------------------------------------------------------------
ClientState ==
    [phase : {"idle", "insert", "staged"}, shard : Shards \cup {None},
     ids : SUBSET Events, todo : Seq(Events), mine : SUBSET Events,
     next : Events \cup {None}]

WorkerState ==
    [phase : {"idle", "scan", "locked", "staged"}, shard : Shards \cup {None},
     snap : SUBSET Events, done : SUBSET Events, bad : SUBSET Events,
     next : Events \cup {None}]

\* Every variable keeps its type; in particular pending_events never goes below
\* zero, which the table's CHECK constraint would refuse.
TypeOK ==
    /\ inbox \in [Events -> {"absent", "inserting", "pending", "applied"}]
    /\ received \in [Events -> Nat]
    /\ clock \in Nat
    /\ delayed \subseteq Events /\ failed \subseteq Events
    /\ head \in [Shards -> Events \cup {None}]
    /\ pending \in [Shards -> Nat]
    /\ lock \in [Shards -> Clients \cup Workers \cup {None}]
    /\ client \in [Clients -> ClientState]
    /\ worker \in [Workers -> WorkerState]
    /\ acked \subseteq Events /\ processed \subseteq Events

\* A shard's head always names its earliest committed unapplied event, and is NULL
\* exactly when there is none: otherwise the shard is stuck or worked out of
\* order.  Enqueue and ApplyShard maintain it from snapshots read at different
\* moments.
HeadIsEarliest == \A s \in Shards : IsFirst(head[s], Unapplied(s))

\* pending_events is the number of committed unapplied events of the shard; the
\* status endpoint and the retention of shard metadata both rely on it.
PendingCountsUnapplied ==
    \A s \in Shards : pending[s] = Cardinality(Unapplied(s))

\* A 202 means every event of the batch is committed to the inbox (until it has
\* been applied), also when the event came in as a duplicate of a transaction
\* that was still open.
AckedIsDurable ==
    \A e \in acked : inbox[e] = "pending" \/ e \in processed

\* An event is applied before an earlier committed event of its shard only if
\* that earlier event failed to decode at least once.
OvertakesOnlyFailed ==
    [][\A e \in Events : inbox[e] = "pending" /\ inbox'[e] = "applied" =>
         \A x \in Unapplied(ShardOf[e]) :
           Before(x, e) /\ inbox'[x] = "pending" => x \in failed]_vars

\* "strictly ordered events from that shard": no event is applied while an
\* earlier committed event of its shard is not.
StrictShardOrder ==
    [][\A e \in Events : inbox[e] = "pending" /\ inbox'[e] = "applied" =>
         \A x \in Unapplied(ShardOf[e]) : Before(x, e) => inbox'[x] = "applied"]_vars

\* In a shard without undecodable events, everything committed is applied in the
\* end, whatever other transactions hold, abort or expire meanwhile.
EventuallyApplied ==
    \A e \in Events :
      (\A x \in Undecodable : ShardOf[x] # ShardOf[e]) =>
         (inbox[e] = "pending" ~> inbox[e] = "applied")

-----------------------------------------------------------------------------
\* Seen from outside: the committed unapplied events, in the order of received_at;
\* set aside are those that failed to decode.
ShardQueues == INSTANCE ShardQueue WITH
    waiting <- {e \in Events : inbox[e] = "pending"},
    stamp   <- [e \in Events |-> IF inbox[e] = "pending" THEN received[e] ELSE 0],
    aside   <- failed

\* Transactions that overlap, abort, read stale snapshots, skip locked heads and are
\* retried implement one queue per shard: every commit is one step of the queue, and
\* nothing else is visible.
ImplementsQueue == ShardQueues!QueueSpec
=============================================================================
