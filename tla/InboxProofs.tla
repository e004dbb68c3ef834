----------------------------- MODULE InboxProofs -----------------------------
(***************************************************************************)
(* Proofs about Inbox, for any finite set of events and any number of      *)
(* shards, batches, Enqueue calls, workers, and any block size.            *)
(*                                                                         *)
(* HeadIsEarliest is not inductive: an open transaction has already chosen *)
(* the head it will write.  The invariant says why the choice cannot have  *)
(* become stale at the commit: the choice was made under the head's lock,  *)
(* the lock is still held, and only its holder adds rows to or removes     *)
(* rows from the committed unapplied rows of that shard.                   *)
(***************************************************************************)
EXTENDS Inbox, FiniteSetTheorems, TLAPS

\* Event e of the batch of client c is still to be inserted, inserted by this
\* transaction, committed, or was applied before.
Handled(c, e) ==
    \/ \E i \in DOMAIN client[c].todo : client[c].todo[i] = e
    \/ e \in client[c].mine
    \/ inbox[e] = "pending"
    \/ e \in processed

\* What holds of an open Enqueue transaction.
ClientInv(c) ==
    /\ client[c].phase = "idle" => client[c].mine = {}
    /\ client[c].phase # "idle" =>
         /\ client[c].shard \in Shards
         /\ \A i \in DOMAIN client[c].todo : ShardOf[client[c].todo[i]] = client[c].shard
         /\ \A e \in client[c].ids : Handled(c, e)
    /\ \A e \in client[c].mine : inbox[e] = "inserting" /\ ShardOf[e] = client[c].shard
    /\ client[c].phase = "staged" =>
         /\ client[c].todo = <<>>
         /\ lock[client[c].shard] = c
         /\ IsFirst(client[c].next, Unapplied(client[c].shard) \cup client[c].mine)

\* What holds of an open ApplyShard transaction.
WorkerInv(w) ==
    /\ worker[w].phase \in {"locked", "staged"} =>
         worker[w].shard \in Shards /\ lock[worker[w].shard] = w
    /\ worker[w].phase = "staged" =>
         /\ worker[w].done \subseteq Unapplied(worker[w].shard) \ delayed
         /\ worker[w].bad \subseteq Unapplied(worker[w].shard) \ worker[w].done
         /\ IsFirst(worker[w].next, Unapplied(worker[w].shard) \ worker[w].done)
         /\ \A e \in worker[w].done, x \in Unapplied(worker[w].shard) \ worker[w].done :
              Before(x, e) => x \in failed

ShardInv(s) ==
    /\ IsFirst(head[s], Unapplied(s))
    /\ pending[s] = Cardinality(Unapplied(s))

RowInv(e) ==
    /\ inbox[e] = "applied" => e \in processed
    /\ e \in delayed => inbox[e] = "pending" /\ e \in failed

DisjointRows ==
    \A c, d \in Clients : c # d => client[c].mine \cap client[d].mine = {}

Inv ==
    /\ TypeOK
    /\ \A c \in Clients : ClientInv(c)
    /\ DisjointRows
    /\ \A w \in Workers : WorkerInv(w)
    /\ \A s \in Shards : ShardInv(s)
    /\ \A e \in Events : RowInv(e)
    /\ AckedIsDurable

-----------------------------------------------------------------------------
\* received_at, event_id is a strict order.
LEMMA BeforeTransitive ==
  ASSUME TypeOK, NEW a \in Events, NEW b \in Events, NEW d \in Events,
         Before(a, b), Before(b, d)
  PROVE  Before(a, d)
  <1>1. /\ a \in Nat /\ b \in Nat /\ d \in Nat
        /\ received[a] \in Nat /\ received[b] \in Nat /\ received[d] \in Nat
    BY InboxAssumption DEF TypeOK
  <1> QED BY <1>1 DEF Before

\* Sizes of the sets of rows that the counter of a head adds and subtracts.
LEMMA CountRows ==
  ASSUME NEW A \in SUBSET Events, NEW B \in SUBSET Events
  PROVE  /\ Cardinality(A) \in Nat
         /\ A \cap B = {} => Cardinality(A \cup B) = Cardinality(A) + Cardinality(B)
         /\ B \subseteq A => Cardinality(A \ B) = Cardinality(A) - Cardinality(B)
         /\ B \subseteq A => Cardinality(B) <= Cardinality(A)
  <1>1. IsFiniteSet(A) /\ IsFiniteSet(B) /\ IsFiniteSet(A \ B)
    BY InboxAssumption, FS_Subset
  <1>2. Cardinality(A) \in Nat /\ Cardinality(B) \in Nat /\ Cardinality(A \ B) \in Nat
    BY <1>1, FS_CardinalityType
  <1>3. ASSUME NEW X, NEW Y, IsFiniteSet(X), IsFiniteSet(Y), X \cap Y = {}
        PROVE  Cardinality(X \cup Y) = Cardinality(X) + Cardinality(Y)
    <2>1. Cardinality(X \cup Y) = Cardinality(X) + Cardinality(Y) - Cardinality(X \cap Y)
      BY <1>3, FS_Union
    <2>2. Cardinality(X \cap Y) = 0
      BY <1>3, FS_EmptySet
    <2>3. Cardinality(X) \in Nat /\ Cardinality(Y) \in Nat
      BY <1>3, FS_CardinalityType
    <2> QED BY <2>1, <2>2, <2>3
  <1>4. ASSUME B \subseteq A
        PROVE  Cardinality(A \ B) = Cardinality(A) - Cardinality(B)
    <2>1. A = (A \ B) \cup B /\ (A \ B) \cap B = {}
      BY <1>4
    <2>2. Cardinality(A) = Cardinality(A \ B) + Cardinality(B)
      BY <1>1, <1>3, <2>1
    <2> QED BY <1>2, <2>2
  <1>5. ASSUME B \subseteq A PROVE Cardinality(B) <= Cardinality(A)
    BY <1>1, <1>5, FS_Subset
  <1> QED BY <1>1, <1>2, <1>3, <1>4, <1>5

\* What the insert loop leaves to do after its first event.
LEMMA TailOfBatch ==
  ASSUME NEW q \in Seq(Events), q # <<>>
  PROVE  /\ Head(q) \in Events /\ Head(q) = q[1] /\ 1 \in DOMAIN q
         /\ Tail(q) \in Seq(Events)
         /\ \A j \in DOMAIN Tail(q) : \E i \in DOMAIN q : Tail(q)[j] = q[i]
         /\ \A i \in DOMAIN q : q[i] = Head(q) \/ \E j \in DOMAIN Tail(q) : Tail(q)[j] = q[i]
  <1>1. Len(q) \in Nat /\ Len(q) # 0 /\ DOMAIN q = 1..Len(q)
    OBVIOUS
  <1>2. /\ Tail(q) \in Seq(Events) /\ DOMAIN Tail(q) = 1..(Len(q) - 1)
        /\ \A j \in 1..(Len(q) - 1) : Tail(q)[j] = q[j + 1]
    BY <1>1
  <1>3. \A j \in DOMAIN Tail(q) : \E i \in DOMAIN q : Tail(q)[j] = q[i]
    <2> TAKE j \in DOMAIN Tail(q)
    <2> WITNESS j + 1 \in DOMAIN q
    <2> QED BY <1>2
  <1>4. \A i \in DOMAIN q : q[i] = Head(q) \/ \E j \in DOMAIN Tail(q) : Tail(q)[j] = q[i]
    <2> TAKE i \in DOMAIN q
    <2>1. CASE i = 1
      BY <2>1
    <2>2. CASE i # 1
      <3>1. i - 1 \in DOMAIN Tail(q) /\ Tail(q)[i - 1] = q[i]
        BY <1>1, <1>2, <2>2
      <3> QED BY <3>1
    <2> QED BY <2>1, <2>2
  <1> QED BY <1>1, <1>2, <1>3, <1>4

-----------------------------------------------------------------------------
\* An Enqueue transaction keeps its invariant through the steps of others that
\* respect its lock and its rows.
LEMMA ClientFrame ==
  ASSUME NEW c \in Clients, ClientInv(c), client'[c] = client[c],
         \A e \in client[c].mine : inbox'[e] = inbox[e] /\ received'[e] = received[e],
         \A e \in Events : inbox[e] = "pending" \/ e \in processed =>
                            inbox'[e] = "pending" \/ e \in processed',
         client[c].ids \subseteq Events,
         client[c].phase = "staged" =>
           /\ lock'[client[c].shard] = c
           /\ Unapplied(client[c].shard)' = Unapplied(client[c].shard)
           /\ \A e \in Unapplied(client[c].shard) : received'[e] = received[e]
  PROVE  ClientInv(c)'
  <1>1. \A e \in client[c].ids : Handled(c, e) => Handled(c, e)'
    BY DEF Handled
  <1>2. client[c].phase = "staged" /\ IsFirst(client[c].next, Unapplied(client[c].shard) \cup client[c].mine)
        => IsFirst(client[c].next, Unapplied(client[c].shard) \cup client[c].mine)'
    BY DEF IsFirst, Before
  <1> QED BY <1>1, <1>2 DEF ClientInv

\* The same for an ApplyShard transaction.
LEMMA WorkerFrame ==
  ASSUME NEW w \in Workers, WorkerInv(w), worker'[w] = worker[w],
         worker[w].phase \in {"locked", "staged"} => lock'[worker[w].shard] = w,
         worker[w].phase = "staged" =>
           /\ Unapplied(worker[w].shard)' = Unapplied(worker[w].shard)
           /\ \A e \in Unapplied(worker[w].shard) :
                /\ received'[e] = received[e]
                /\ e \in delayed' => e \in delayed
                /\ e \in failed => e \in failed'
  PROVE  WorkerInv(w)'
  <1>1. ASSUME worker[w].phase = "staged" PROVE WorkerInv(w)'
    <2> DEFINE U == Unapplied(worker[w].shard)
               done == worker[w].done
    <2>1. U' = U /\ done' = done
      BY <1>1
    <2>2. done' \subseteq U' \ delayed'
      BY <1>1, <2>1 DEF WorkerInv
    <2>3. IsFirst(worker[w].next, U \ done)'
      BY <1>1, <2>1 DEF WorkerInv, IsFirst, Before
    <2>4. \A e \in done, x \in U \ done : Before(x, e)' => x \in failed'
      BY <1>1, <2>1 DEF WorkerInv, Before
    <2> QED BY <1>1, <2>1, <2>2, <2>3, <2>4 DEF WorkerInv
  <1>2. ASSUME worker[w].phase # "staged" PROVE WorkerInv(w)'
    BY <1>2 DEF WorkerInv
  <1> QED BY <1>1, <1>2

\* Heads and counters depend only on what they say and on the committed rows.
LEMMA ShardFrame ==
  ASSUME NEW s \in Shards, ShardInv(s), head'[s] = head[s], pending'[s] = pending[s],
         Unapplied(s)' = Unapplied(s),
         \A e \in Unapplied(s) : received'[e] = received[e]
  PROVE  ShardInv(s)'
  BY DEF ShardInv, IsFirst, Before

\* Nothing is applied or open before anything is sent.
LEMMA InitInv == Init => Inv
  <1> SUFFICES ASSUME Init PROVE Inv
    OBVIOUS
  <1>1. \A s \in Shards : Unapplied(s) = {}
    BY DEF Init, Unapplied
  <1>2. TypeOK
    BY InboxAssumption DEF Init, TypeOK, ClientState, WorkerState, IdleClient, IdleWorker
  <1>3. \A s \in Shards : ShardInv(s)
    BY <1>1, FS_EmptySet DEF Init, ShardInv, IsFirst
  <1>4. (\A c \in Clients : ClientInv(c)) /\ DisjointRows
    BY DEF Init, ClientInv, DisjointRows, IdleClient
  <1>5. (\A w \in Workers : WorkerInv(w)) /\ (\A e \in Events : RowInv(e)) /\ AckedIsDurable
    BY DEF Init, WorkerInv, IdleWorker, RowInv, AckedIsDurable
  <1> QED BY <1>2, <1>3, <1>4, <1>5 DEF Inv

-----------------------------------------------------------------------------
\* A step of client c that writes no row and takes at most a free lock: only what
\* it says of c itself remains to be shown.
LEMMA ClientOnly ==
  ASSUME Inv, NEW c \in Clients,
         client' \in [Clients -> ClientState],
         \A d \in Clients \ {c} : client'[d] = client[d],
         client'[c].mine \subseteq client[c].mine,
         lock' \in [Shards -> Clients \cup Workers \cup {None}],
         \A s \in Shards : lock[s] \notin {None, c} => lock'[s] = lock[s],
         UNCHANGED <<inboxVars, headVars, worker, processed>>,
         acked' \subseteq Events, AckedIsDurable',
         ClientInv(c)'
  PROVE  Inv'
  <1>1. \A s \in Shards : Unapplied(s)' = Unapplied(s)
    BY DEF Unapplied, inboxVars
  <1>2. TypeOK'
    BY DEF Inv, TypeOK, inboxVars, headVars
  <1>3. ASSUME NEW d \in Clients PROVE ClientInv(d)'
    <2>1. CASE d # c
      <3>1. ClientInv(d) /\ client'[d] = client[d] /\ client[d] \in ClientState
        BY <2>1 DEF Inv, TypeOK
      <3>2. client[d].ids \subseteq Events
        BY <3>1 DEF ClientState
      <3>3. client[d].phase = "staged" => client[d].shard \in Shards /\ lock[client[d].shard] = d
        BY <3>1 DEF ClientInv
      <3>4. client[d].phase = "staged" => lock'[client[d].shard] = d
        BY <2>1, <3>3, InboxAssumption
      <3> QED BY <1>1, <3>1, <3>2, <3>3, <3>4, ClientFrame DEF inboxVars
    <2> QED BY <2>1
  <1>4. DisjointRows'
    BY DEF Inv, DisjointRows
  <1>5. ASSUME NEW w \in Workers PROVE WorkerInv(w)'
    <2>1. WorkerInv(w) /\ worker'[w] = worker[w]
      BY DEF Inv
    <2>2. worker[w].phase \in {"locked", "staged"} =>
            worker[w].shard \in Shards /\ lock'[worker[w].shard] = w
      BY <2>1, InboxAssumption DEF WorkerInv
    <2> QED BY <1>1, <2>1, <2>2, WorkerFrame DEF inboxVars
  <1>6. \A s \in Shards : ShardInv(s)'
    BY <1>1, ShardFrame DEF Inv, inboxVars, headVars
  <1>7. \A e \in Events : RowInv(e)'
    BY DEF Inv, RowInv, inboxVars
  <1> QED BY <1>2, <1>3, <1>4, <1>5, <1>6, <1>7 DEF Inv

\* A new transaction has inserted nothing and has the whole batch to do.
LEMMA BeginEnqueueInv ==
  ASSUME Inv, NEW c \in Clients, BeginEnqueue(c)
  PROVE  Inv'
  <1>1. PICK b \in Batches :
        client' = [client EXCEPT ![c] =
             [phase |-> "insert", shard |-> ShardOf[b[1]], ids |-> {b[i] : i \in DOMAIN b},
              todo |-> b, mine |-> {}, next |-> None]]
    BY DEF BeginEnqueue
  <1> DEFINE ids == {b[i] : i \in DOMAIN b}
             sh == ShardOf[b[1]]
  <1>2. b \in Seq(Events) /\ b # <<>>
    BY InboxAssumption
  <1>3. /\ 1 \in DOMAIN b /\ \A i \in DOMAIN b : b[i] \in Events
        /\ sh \in Shards /\ ids \subseteq Events
        /\ \A e \in ids : \E i \in DOMAIN b : b[i] = e
    <2>1. 1 \in DOMAIN b /\ \A i \in DOMAIN b : b[i] \in Events
      BY <1>2
    <2>2. ids \subseteq Events /\ \A e \in ids : \E i \in DOMAIN b : b[i] = e
      BY <2>1
    <2>3. sh \in Shards
      BY <2>1, InboxAssumption
    <2> QED BY <2>1, <2>2, <2>3
  <1>4. \A i \in DOMAIN b : ShardOf[b[i]] = sh
    BY <1>3, InboxAssumption
  <1> HIDE DEF ids, sh
  <1>5. client' = [client EXCEPT ![c] =
             [phase |-> "insert", shard |-> sh, ids |-> ids, todo |-> b, mine |-> {},
              next |-> None]]
    BY <1>1 DEF ids, sh
  <1>6. /\ client'[c].phase = "insert" /\ client'[c].shard = sh /\ client'[c].ids = ids
        /\ client'[c].todo = b /\ client'[c].mine = {}
        /\ client'[c] \in ClientState
    BY <1>2, <1>3, <1>5 DEF Inv, TypeOK, ClientState
  <1>7. client' \in [Clients -> ClientState] /\ \A d \in Clients \ {c} : client'[d] = client[d]
    BY <1>5, <1>6 DEF Inv, TypeOK
  <1>8. \A e \in client'[c].ids : Handled(c, e)'
    BY <1>3, <1>6 DEF Handled
  <1>9. ClientInv(c)'
    BY <1>3, <1>4, <1>6, <1>8 DEF ClientInv
  <1>10. UNCHANGED <<inboxVars, headVars, lock, worker, historyVars>>
    BY DEF BeginEnqueue
  <1>11. /\ acked' \subseteq Events /\ AckedIsDurable' /\ lock' = lock
         /\ lock' \in [Shards -> Clients \cup Workers \cup {None}]
         /\ UNCHANGED <<inboxVars, headVars, worker, processed>>
    BY <1>10 DEF Inv, TypeOK, AckedIsDurable, inboxVars, historyVars
  <1>12. client'[c].mine \subseteq client[c].mine
    BY <1>6
  <1> QED BY <1>7, <1>9, <1>11, <1>12, ClientOnly

\* A duplicate is skipped only because its row is committed, was applied, or was
\* inserted earlier by this very transaction.
LEMMA SkipDuplicateInv ==
  ASSUME Inv, NEW c \in Clients, SkipDuplicate(c)
  PROVE  Inv'
  <1> DEFINE q == client[c].todo
  <1>1. /\ client[c].phase = "insert" /\ q # <<>>
        /\ Conflicts(Head(q), client[c].mine)
        /\ client' = [client EXCEPT ![c].todo = Tail(q)]
        /\ UNCHANGED <<inboxVars, headVars, lock, worker, historyVars>>
    BY DEF SkipDuplicate
  <1>2. client[c] \in ClientState /\ q \in Seq(Events)
    BY DEF Inv, TypeOK, ClientState
  <1>3. /\ Head(q) \in Events /\ Head(q) = q[1] /\ 1 \in DOMAIN q
        /\ Tail(q) \in Seq(Events)
        /\ \A j \in DOMAIN Tail(q) : \E i \in DOMAIN q : Tail(q)[j] = q[i]
        /\ \A i \in DOMAIN q : q[i] = Head(q) \/ \E j \in DOMAIN Tail(q) : Tail(q)[j] = q[i]
    BY <1>1, <1>2, TailOfBatch
  <1>4. client'[c] = [client[c] EXCEPT !.todo = Tail(q)]
    BY <1>1 DEF Inv, TypeOK
  <1>5. /\ client'[c] \in ClientState
        /\ client'[c].phase = "insert" /\ client'[c].todo = Tail(q)
        /\ client'[c].mine = client[c].mine /\ client'[c].ids = client[c].ids
        /\ client'[c].shard = client[c].shard
    <2> DEFINE rest == Tail(q)
    <2>1. rest \in Seq(Events) /\ client'[c] = [client[c] EXCEPT !.todo = rest]
      BY <1>3, <1>4
    <2> HIDE DEF rest
    <2>2. client[c].phase = "insert"
      BY <1>1
    <2> HIDE DEF q
    <2>3. /\ client'[c] \in ClientState
          /\ client'[c].phase = "insert" /\ client'[c].todo = rest
          /\ client'[c].mine = client[c].mine /\ client'[c].ids = client[c].ids
          /\ client'[c].shard = client[c].shard
      BY <1>2, <2>1, <2>2 DEF ClientState
    <2> QED BY <2>3 DEF rest
  <1>6. client' \in [Clients -> ClientState] /\ \A d \in Clients \ {c} : client'[d] = client[d]
    BY <1>1, <1>5 DEF Inv, TypeOK
  <1>7. ClientInv(c) /\ client[c].ids \subseteq Events
    BY <1>2 DEF Inv, ClientState
  <1>8. \A e \in client'[c].ids : Handled(c, e)'
    <2> SUFFICES ASSUME NEW e \in client[c].ids PROVE Handled(c, e)'
      BY <1>5
    <2>1. Handled(c, e) /\ inbox' = inbox /\ processed' = processed
      BY <1>1, <1>7 DEF ClientInv, inboxVars, historyVars
    <2>2. CASE e = Head(q)
      <3>1. e \in client[c].mine \/ inbox[e] = "pending" \/ e \in processed
        BY <1>1, <1>3, <2>2 DEF Conflicts, Inv, RowInv
      <3> QED BY <1>5, <2>1, <3>1 DEF Handled
    <2>3. CASE e # Head(q)
      <3>1. (\E i \in DOMAIN q : q[i] = e) => \E j \in DOMAIN Tail(q) : Tail(q)[j] = e
        BY <1>3, <2>3
      <3> HIDE DEF q
      <3> DEFINE rest == Tail(q)
      <3>2. client'[c].todo = rest
        BY <1>5
      <3>3. (\E i \in DOMAIN q : q[i] = e) => \E j \in DOMAIN rest : rest[j] = e
        BY <3>1
      <3> HIDE DEF rest
      <3> QED BY <1>5, <2>1, <3>2, <3>3 DEF Handled, q
    <2> QED BY <2>2, <2>3
  <1>9. ClientInv(c)'
    <2>1. \A j \in DOMAIN Tail(q) : ShardOf[Tail(q)[j]] = client[c].shard
      BY <1>1, <1>3, <1>7 DEF ClientInv
    <2> QED BY <1>1, <1>5, <1>7, <1>8, <2>1 DEF ClientInv, inboxVars
  <1>10. /\ acked' \subseteq Events /\ AckedIsDurable' /\ lock' = lock
         /\ lock' \in [Shards -> Clients \cup Workers \cup {None}]
         /\ UNCHANGED <<inboxVars, headVars, worker, processed>>
    BY <1>1 DEF Inv, TypeOK, AckedIsDurable, inboxVars, historyVars
  <1> QED BY <1>5, <1>6, <1>9, <1>10, ClientOnly

\* An idle record satisfies the client's invariant.
LEMMA IdleClientInv ==
  ASSUME NEW c \in Clients, client'[c] = IdleClient
  PROVE  ClientInv(c)' /\ client'[c].mine = {}
  BY DEF ClientInv, IdleClient

LEMMA IdleTypes == IdleClient \in ClientState /\ IdleWorker \in WorkerState
  BY DEF IdleClient, ClientState, IdleWorker, WorkerState

\* A batch of duplicates is acknowledged: each of its events is committed or applied.
LEMMA CommitDuplicatesInv ==
  ASSUME Inv, NEW c \in Clients, CommitDuplicates(c)
  PROVE  Inv'
  <1>1. /\ client[c].phase = "insert" /\ client[c].todo = <<>> /\ client[c].mine = {}
        /\ acked' = acked \cup client[c].ids
        /\ client' = [client EXCEPT ![c] = IdleClient]
        /\ UNCHANGED <<inboxVars, headVars, lock, worker, processed>>
    BY DEF CommitDuplicates
  <1>2. client[c] \in ClientState /\ client[c].ids \subseteq Events
    BY DEF Inv, TypeOK, ClientState
  <1>3. /\ client' \in [Clients -> ClientState]
        /\ \A d \in Clients \ {c} : client'[d] = client[d]
        /\ client'[c] = IdleClient
    BY <1>1, IdleTypes DEF Inv, TypeOK
  <1>4. AckedIsDurable'
    <2>1. \A e \in client[c].ids : inbox[e] = "pending" \/ e \in processed
      <3>1. \A e \in client[c].ids : Handled(c, e)
        BY <1>1 DEF Inv, ClientInv
      <3>2. DOMAIN client[c].todo = {}
        BY <1>1
      <3> QED BY <1>1, <3>1, <3>2 DEF Handled
    <2> QED BY <1>1, <2>1 DEF Inv, AckedIsDurable, inboxVars
  <1>5. acked' \subseteq Events /\ lock' \in [Shards -> Clients \cup Workers \cup {None}]
    BY <1>1, <1>2 DEF Inv, TypeOK
  <1>6. ClientInv(c)' /\ client'[c].mine = {}
    BY <1>3, IdleClientInv
  <1> QED BY <1>1, <1>3, <1>4, <1>5, <1>6, ClientOnly

\* The head is chosen under its lock, from a snapshot taken under it.
LEMMA StageHeadInv ==
  ASSUME Inv, NEW c \in Clients, StageHead(c)
  PROVE  Inv'
  <1> DEFINE s == client[c].shard
  <1>1. PICK h \in Events \cup {None} :
          /\ IsFirst(h, Unapplied(s) \cup client[c].mine)
          /\ client' = [client EXCEPT ![c].phase = "staged", ![c].next = h]
    BY DEF StageHead, HeadCandidates
  <1>2. /\ client[c].phase = "insert" /\ client[c].todo = <<>> /\ lock[s] = None
        /\ lock' = [lock EXCEPT ![s] = c]
        /\ UNCHANGED <<inboxVars, headVars, worker, historyVars>>
    BY DEF StageHead
  <1>3. client[c] \in ClientState /\ ClientInv(c) /\ s \in Shards
    BY <1>2 DEF Inv, TypeOK, ClientInv
  <1>4. client'[c] = [client[c] EXCEPT !.phase = "staged", !.next = h]
    BY <1>1 DEF Inv, TypeOK
  <1>5. /\ client'[c] \in ClientState /\ client'[c].phase = "staged" /\ client'[c].next = h
        /\ client'[c].todo = client[c].todo /\ client'[c].mine = client[c].mine
        /\ client'[c].ids = client[c].ids /\ client'[c].shard = s
    BY <1>3, <1>4 DEF ClientState
  <1>6. client' \in [Clients -> ClientState] /\ \A d \in Clients \ {c} : client'[d] = client[d]
    BY <1>1, <1>5 DEF Inv, TypeOK
  <1>7. lock' \in [Shards -> Clients \cup Workers \cup {None}] /\ lock'[s] = c
        /\ \A x \in Shards : lock[x] \notin {None, c} => lock'[x] = lock[x]
    BY <1>2, <1>3 DEF Inv, TypeOK
  <1>8. ClientInv(c)'
    <2>1. \A e \in client'[c].ids : Handled(c, e)'
      BY <1>2, <1>3, <1>5 DEF ClientInv, Handled, inboxVars, historyVars
    <2>2. IsFirst(client[c].next, Unapplied(s) \cup client[c].mine)'
      <3>1. UNCHANGED <<inbox, received>> /\ client'[c].shard = client[c].shard
        BY <1>2, <1>5 DEF inboxVars
      <3>2. Unapplied(s)' = Unapplied(s)
        BY <3>1 DEF Unapplied
      <3>3. \A a, b : Before(a, b)' <=> Before(a, b)
        BY <3>1 DEF Before
      <3>4. client'[c].next = h /\ (Unapplied(s) \cup client[c].mine)' = Unapplied(s) \cup client[c].mine
        BY <1>5, <3>2
      <3>5. IsFirst(h, Unapplied(s) \cup client[c].mine)
        BY <1>1
      <3> QED BY <3>3, <3>4, <3>5 DEF IsFirst
    <2> QED BY <1>2, <1>3, <1>5, <1>7, <2>1, <2>2 DEF ClientInv, inboxVars
  <1>9. /\ acked' \subseteq Events /\ AckedIsDurable'
        /\ UNCHANGED <<inboxVars, headVars, worker, processed>>
    BY <1>2 DEF Inv, TypeOK, AckedIsDurable, inboxVars, historyVars
  <1> HIDE DEF s
  <1> QED BY <1>5, <1>6, <1>7, <1>8, <1>9, ClientOnly

\* A new row belongs to one open transaction and is no committed row yet.
LEMMA InsertRowInv ==
  ASSUME Inv, NEW c \in Clients, InsertRow(c)
  PROVE  Inv'
  <1> DEFINE q == client[c].todo
             e == Head(q)
             rest == Tail(q)
             mine == client[c].mine
  <1>1. /\ client[c].phase = "insert" /\ q # <<>> /\ inbox[e] = "absent"
        /\ clock' = clock + 1
        /\ \E t \in {clock, clock + 1} : received' = [received EXCEPT ![e] = t]
        /\ inbox' = [inbox EXCEPT ![e] = "inserting"]
        /\ client' = [client EXCEPT ![c].todo = rest, ![c].mine = mine \cup {e}]
        /\ UNCHANGED <<delayed, failed, headVars, lock, worker, historyVars>>
    BY DEF InsertRow
  <1>2. client[c] \in ClientState /\ q \in Seq(Events) /\ ClientInv(c) /\ mine \subseteq Events
        /\ client[c].ids \subseteq Events
    BY DEF Inv, TypeOK, ClientState
  <1>3. /\ e \in Events /\ rest \in Seq(Events)
        /\ \E i \in DOMAIN q : q[i] = e
        /\ \A j \in DOMAIN rest : \E i \in DOMAIN q : rest[j] = q[i]
        /\ \A i \in DOMAIN q : q[i] = e \/ \E j \in DOMAIN rest : rest[j] = q[i]
    BY <1>1, <1>2, TailOfBatch
  <1> HIDE DEF e, rest, mine
  <1>4. client'[c] = [client[c] EXCEPT !.todo = rest, !.mine = mine \cup {e}]
    BY <1>1 DEF Inv, TypeOK
  <1>5. /\ client'[c] \in ClientState
        /\ client'[c].phase = "insert" /\ client'[c].todo = rest
        /\ client'[c].mine = mine \cup {e} /\ client'[c].ids = client[c].ids
        /\ client'[c].shard = client[c].shard
    <2>1. mine \cup {e} \in SUBSET Events
      BY <1>2, <1>3
    <2>2. rest \in Seq(Events) /\ client[c].phase = "insert"
      BY <1>1, <1>3
    <2> HIDE DEF q
    <2> QED BY <1>2, <1>4, <2>1, <2>2 DEF ClientState
  <1>6. client' \in [Clients -> ClientState] /\ \A d \in Clients \ {c} : client'[d] = client[d]
    BY <1>1, <1>5 DEF Inv, TypeOK
  <1>7. /\ inbox'[e] = "inserting"
        /\ \A x \in Events \ {e} : inbox'[x] = inbox[x] /\ received'[x] = received[x]
    BY <1>1, <1>3 DEF Inv, TypeOK
  <1>8. \A s \in Shards : e \notin Unapplied(s) /\ Unapplied(s)' = Unapplied(s)
    BY <1>1, <1>7 DEF Unapplied
  <1>9. TypeOK'
    <2>1. received' \in [Events -> Nat] /\ clock' \in Nat
      <3>1. PICK t \in {clock, clock + 1} : received' = [received EXCEPT ![e] = t]
        BY <1>1
      <3>2. clock \in Nat /\ received \in [Events -> Nat]
        BY DEF Inv, TypeOK
      <3>3. t \in Nat
        BY <3>2
      <3>4. received' \in [Events -> Nat]
        BY <3>1, <3>2, <3>3
      <3> QED BY <1>1, <3>2, <3>4
    <2>2. inbox' \in [Events -> {"absent", "inserting", "pending", "applied"}]
      BY <1>1 DEF Inv, TypeOK
    <2> QED BY <1>1, <1>6, <2>1, <2>2 DEF Inv, TypeOK, headVars, historyVars
  <1>10. ASSUME NEW d \in Clients PROVE e \notin client[d].mine
    BY <1>1 DEF Inv, ClientInv
  <1>11. ASSUME NEW d \in Clients PROVE ClientInv(d)'
    <2>1. CASE d # c
      <3>1. ClientInv(d) /\ client'[d] = client[d] /\ client[d] \in ClientState
        BY <1>6, <2>1 DEF Inv, TypeOK
      <3>2. client[d].ids \subseteq Events /\ client[d].mine \subseteq Events
        BY <3>1 DEF ClientState
      <3>3. \A x \in client[d].mine : inbox'[x] = inbox[x] /\ received'[x] = received[x]
        BY <1>7, <1>10, <3>2
      <3>4. client[d].phase = "staged" =>
              /\ lock'[client[d].shard] = d
              /\ Unapplied(client[d].shard)' = Unapplied(client[d].shard)
              /\ \A x \in Unapplied(client[d].shard) : received'[x] = received[x]
        BY <1>1, <1>7, <1>8, <3>1 DEF ClientInv, Unapplied
      <3>5. \A x \in Events : inbox[x] = "pending" \/ x \in processed =>
                               inbox'[x] = "pending" \/ x \in processed'
        BY <1>1, <1>7 DEF historyVars
      <3> QED BY <3>1, <3>2, <3>3, <3>4, <3>5, ClientFrame
    <2>2. CASE d = c
      <3>1. \A x \in client'[c].ids : Handled(c, x)'
        <4> SUFFICES ASSUME NEW x \in client[c].ids PROVE Handled(c, x)'
          BY <1>5
        <4>1. Handled(c, x) /\ x \in Events
          BY <1>1, <1>2 DEF ClientInv
        <4>2. CASE x = e
          BY <1>5, <4>2 DEF Handled
        <4>3. CASE x # e
          <5>1. (\E i \in DOMAIN q : q[i] = x) => \E j \in DOMAIN rest : rest[j] = x
            BY <1>3, <4>3
          <5>2. inbox'[x] = inbox[x] /\ processed' = processed
            BY <1>1, <1>7, <4>1, <4>3 DEF historyVars
          <5> QED BY <1>5, <4>1, <5>1, <5>2 DEF Handled, mine
        <4> QED BY <4>2, <4>3
      <3>2. client[c].shard \in Shards /\ ShardOf[e] = client[c].shard
            /\ \A j \in DOMAIN rest : ShardOf[rest[j]] = client[c].shard
        BY <1>1, <1>2, <1>3 DEF ClientInv
      <3>3. \A x \in mine \cup {e} : inbox'[x] = "inserting" /\ ShardOf[x] = client[c].shard
        BY <1>2, <1>7, <3>2 DEF ClientInv, mine
      <3> QED BY <1>5, <2>2, <3>1, <3>2, <3>3 DEF ClientInv
    <2> QED BY <2>1, <2>2
  <1>12. DisjointRows'
    BY <1>5, <1>6, <1>10 DEF Inv, DisjointRows, mine
  <1>13. ASSUME NEW w \in Workers PROVE WorkerInv(w)'
    <2>1. WorkerInv(w) /\ worker'[w] = worker[w] /\ lock' = lock
          /\ delayed' = delayed /\ failed' = failed
      BY <1>1 DEF Inv
    <2>2. worker[w].phase \in {"locked", "staged"} =>
            worker[w].shard \in Shards /\ lock'[worker[w].shard] = w
      BY <2>1 DEF WorkerInv
    <2>3. \A s \in Shards : \A x \in Unapplied(s) : received'[x] = received[x]
      BY <1>7, <1>8 DEF Unapplied
    <2> QED BY <1>8, <2>1, <2>2, <2>3, WorkerFrame
  <1>14. ASSUME NEW s \in Shards PROVE ShardInv(s)'
    <2>1. \A x \in Unapplied(s) : received'[x] = received[x]
      BY <1>7, <1>8 DEF Unapplied
    <2> QED BY <1>1, <1>8, <2>1, ShardFrame DEF Inv, headVars
  <1>15. \A x \in Events : RowInv(x)'
    BY <1>1, <1>7 DEF Inv, RowInv, historyVars
  <1>16. AckedIsDurable'
    BY <1>1, <1>7 DEF Inv, TypeOK, AckedIsDurable, historyVars
  <1> QED BY <1>9, <1>11, <1>12, <1>13, <1>14, <1>15, <1>16 DEF Inv

\* The commit of Enqueue adds exactly its own rows to the committed ones, under the
\* lock that kept its choice of the head current.
LEMMA CommitEnqueueInv ==
  ASSUME Inv, NEW c \in Clients, CommitEnqueue(c)
  PROVE  Inv'
  <1> DEFINE mine == client[c].mine
  <1>0. PICK s \in Shards : s = client[c].shard
    BY DEF CommitEnqueue, Inv, ClientInv
  <1>1. /\ client[c].phase = "staged"
        /\ inbox' = [e \in Events |-> IF e \in mine THEN "pending" ELSE inbox[e]]
        /\ head' = [head EXCEPT ![s] = client[c].next]
        /\ pending' = [pending EXCEPT ![s] = @ + Cardinality(mine)]
        /\ lock' = [lock EXCEPT ![s] = IF @ = c THEN None ELSE @]
        /\ acked' = acked \cup client[c].ids
        /\ client' = [client EXCEPT ![c] = IdleClient]
        /\ UNCHANGED <<received, clock, delayed, failed, worker, processed>>
    BY <1>0 DEF CommitEnqueue, Release
  <1>2. /\ client[c] \in ClientState /\ ClientInv(c) /\ s \in Shards
        /\ lock[s] = c
        /\ IsFirst(client[c].next, Unapplied(s) \cup mine)
        /\ \A e \in mine : inbox[e] = "inserting" /\ ShardOf[e] = s
        /\ DOMAIN client[c].todo = {}
    <2>1. client[c] \in ClientState /\ ClientInv(c) /\ client[c].phase = "staged"
      BY <1>1 DEF Inv, TypeOK
    <2>2. client[c].todo = <<>>
      BY <2>1 DEF ClientInv
    <2>3. DOMAIN client[c].todo = {}
      BY <2>2
    <2> QED BY <1>0, <2>1, <2>3 DEF ClientInv
  <1>3. mine \subseteq Events /\ client[c].ids \subseteq Events
        /\ client[c].next \in Events \cup {None}
    BY <1>2 DEF ClientState
  <1>4. client[c].phase = "staged" /\ Unapplied(s) \cap mine = {} /\ Unapplied(s) \subseteq Events
    BY <1>1, <1>2 DEF Unapplied
  <1>5. /\ client' \in [Clients -> ClientState] /\ client'[c] = IdleClient
        /\ \A d \in Clients \ {c} : client'[d] = client[d]
    BY <1>1, IdleTypes DEF Inv, TypeOK
  <1> HIDE DEF mine
  <1>6. /\ Unapplied(s)' = Unapplied(s) \cup mine
        /\ \A x \in Shards \ {s} : Unapplied(x)' = Unapplied(x)
    <2>1. \A x \in Shards : Unapplied(x)' =
            {e \in Events : (e \in mine \/ inbox[e] = "pending") /\ ShardOf[e] = x}
      BY <1>1 DEF Unapplied
    <2>2. Unapplied(s)' = Unapplied(s) \cup mine
      BY <1>2, <1>3, <2>1 DEF Unapplied
    <2>3. \A x \in Shards \ {s} : Unapplied(x)' = Unapplied(x)
      BY <1>2, <2>1 DEF Unapplied
    <2> QED BY <2>2, <2>3
  <1>7. \A x \in Shards : lock[x] # c => lock'[x] = lock[x]
    BY <1>1, <1>2 DEF Inv, TypeOK
  <1>8. TypeOK'
    <2>1. Cardinality(mine) \in Nat
      BY <1>3, CountRows
    <2>2. inbox' \in [Events -> {"absent", "inserting", "pending", "applied"}]
      BY <1>1 DEF Inv, TypeOK
    <2>3. pending' \in [Shards -> Nat]
      BY <1>1, <1>2, <2>1 DEF Inv, TypeOK
    <2>4. head' \in [Shards -> Events \cup {None}]
      BY <1>1, <1>2, <1>3 DEF Inv, TypeOK
    <2>5. lock' \in [Shards -> Clients \cup Workers \cup {None}]
      BY <1>1, <1>2 DEF Inv, TypeOK
    <2>6. acked' \subseteq Events
      BY <1>1, <1>3 DEF Inv, TypeOK
    <2> QED BY <1>1, <1>5, <2>2, <2>3, <2>4, <2>5, <2>6 DEF Inv, TypeOK
  <1>9. ASSUME NEW d \in Clients PROVE ClientInv(d)'
    <2>1. CASE d # c
      <3>1. ClientInv(d) /\ client'[d] = client[d] /\ client[d] \in ClientState
        BY <1>5, <2>1 DEF Inv, TypeOK
      <3>2. client[d].ids \subseteq Events /\ client[d].mine \subseteq Events
        BY <3>1 DEF ClientState
      <3>3. client[d].mine \cap mine = {}
        BY <2>1 DEF Inv, DisjointRows, mine
      <3>4. \A x \in client[d].mine : inbox'[x] = inbox[x] /\ received'[x] = received[x]
        BY <1>1, <3>2, <3>3
      <3>5. \A x \in Events : inbox[x] = "pending" \/ x \in processed =>
                               inbox'[x] = "pending" \/ x \in processed'
        BY <1>1
      <3>6. client[d].phase = "staged" =>
              client[d].shard \in Shards /\ lock[client[d].shard] = d /\ client[d].shard # s
        BY <1>2, <2>1, <3>1 DEF ClientInv
      <3>7. client[d].phase = "staged" =>
              /\ lock'[client[d].shard] = d
              /\ Unapplied(client[d].shard)' = Unapplied(client[d].shard)
              /\ \A x \in Unapplied(client[d].shard) : received'[x] = received[x]
        BY <1>1, <1>6, <1>7, <2>1, <3>6
      <3> QED BY <3>1, <3>2, <3>4, <3>5, <3>7, ClientFrame
    <2>2. CASE d = c
      BY <1>5, <2>2, IdleClientInv
    <2> QED BY <2>1, <2>2
  <1>10. DisjointRows'
    BY <1>5, IdleClientInv DEF Inv, DisjointRows
  <1>11. ASSUME NEW w \in Workers PROVE WorkerInv(w)'
    <2>1. WorkerInv(w) /\ worker'[w] = worker[w] /\ w # c
      BY <1>1, InboxAssumption DEF Inv
    <2>2. worker[w].phase \in {"locked", "staged"} =>
            /\ worker[w].shard \in Shards /\ worker[w].shard # s
            /\ lock'[worker[w].shard] = w
      BY <1>2, <1>7, <2>1 DEF WorkerInv
    <2> QED BY <1>1, <1>6, <2>1, <2>2, WorkerFrame
  <1>12. ASSUME NEW x \in Shards PROVE ShardInv(x)'
    <2>1. CASE x # s
      <3>1. head'[x] = head[x] /\ pending'[x] = pending[x] /\ Unapplied(x)' = Unapplied(x)
        BY <1>1, <1>6, <2>1 DEF Inv, TypeOK
      <3> QED BY <1>1, <3>1, ShardFrame DEF Inv
    <2>2. CASE x = s
      <3>1. /\ head'[s] = client[c].next
            /\ pending'[s] = pending[s] + Cardinality(mine)
        BY <1>1, <1>2 DEF Inv, TypeOK
      <3>2. IsFirst(head[s], Unapplied(s))' 
        BY <1>1, <1>2, <1>6, <3>1 DEF IsFirst, Before
      <3>3. pending[s] = Cardinality(Unapplied(s))
        BY <1>2 DEF Inv, ShardInv
      <3>4. Cardinality(Unapplied(s) \cup mine) = Cardinality(Unapplied(s)) + Cardinality(mine)
        BY <1>3, <1>4, CountRows
      <3>5. pending'[s] = Cardinality(Unapplied(s)')
        BY <1>6, <3>1, <3>3, <3>4
      <3> QED BY <2>2, <3>2, <3>5 DEF ShardInv
    <2> QED BY <2>1, <2>2
  <1>13. \A e \in Events : RowInv(e)'
    BY <1>1 DEF Inv, RowInv
  <1>14. AckedIsDurable'
    <2>1. \A e \in client[c].ids : e \in mine \/ inbox[e] = "pending" \/ e \in processed
      BY <1>1, <1>2 DEF ClientInv, Handled, mine
    <2> QED BY <1>1, <1>3, <2>1 DEF Inv, TypeOK, AckedIsDurable
  <1> QED BY <1>8, <1>9, <1>10, <1>11, <1>12, <1>13, <1>14 DEF Inv

\* A rolled-back Enqueue takes its rows along, which nobody else saw.
LEMMA AbortEnqueueInv ==
  ASSUME Inv, NEW c \in Clients, AbortEnqueue(c)
  PROVE  Inv'
  <1> DEFINE mine == client[c].mine
  <1>1. /\ inbox' = [e \in Events |-> IF e \in mine THEN "absent" ELSE inbox[e]]
        /\ lock' = [s \in Shards |-> IF lock[s] = c THEN None ELSE lock[s]]
        /\ client' = [client EXCEPT ![c] = IdleClient]
        /\ UNCHANGED <<received, clock, delayed, failed, headVars, worker, historyVars>>
    BY DEF AbortEnqueue
  <1>2. \A e \in mine : inbox[e] = "inserting"
    BY DEF Inv, ClientInv
  <1>3. /\ client' \in [Clients -> ClientState] /\ client'[c] = IdleClient
        /\ \A d \in Clients \ {c} : client'[d] = client[d]
    BY <1>1, IdleTypes DEF Inv, TypeOK
  <1> HIDE DEF mine
  <1>4. \A s \in Shards : Unapplied(s)' = Unapplied(s)
    BY <1>1, <1>2 DEF Unapplied
  <1>5. TypeOK'
    <2>1. inbox' \in [Events -> {"absent", "inserting", "pending", "applied"}]
      BY <1>1 DEF Inv, TypeOK
    <2>2. lock' \in [Shards -> Clients \cup Workers \cup {None}]
      BY <1>1 DEF Inv, TypeOK
    <2> QED BY <1>1, <1>3, <2>1, <2>2 DEF Inv, TypeOK, headVars, historyVars
  <1>6. \A e \in Events : inbox[e] = "pending" \/ e \in processed =>
                           inbox'[e] = "pending" \/ e \in processed'
    BY <1>1, <1>2 DEF historyVars
  <1>7. ASSUME NEW d \in Clients PROVE ClientInv(d)'
    <2>1. CASE d # c
      <3>1. ClientInv(d) /\ client'[d] = client[d] /\ client[d] \in ClientState
        BY <1>3, <2>1 DEF Inv, TypeOK
      <3>2. client[d].ids \subseteq Events /\ client[d].mine \subseteq Events
        BY <3>1 DEF ClientState
      <3>3. client[d].mine \cap mine = {}
        BY <2>1 DEF Inv, DisjointRows, mine
      <3>4. \A x \in client[d].mine : inbox'[x] = inbox[x] /\ received'[x] = received[x]
        BY <1>1, <3>2, <3>3
      <3>5. client[d].phase = "staged" =>
              client[d].shard \in Shards /\ lock'[client[d].shard] = d
        BY <1>1, <2>1, <3>1 DEF ClientInv
      <3> QED BY <1>1, <1>4, <1>6, <3>1, <3>2, <3>4, <3>5, ClientFrame
    <2>2. CASE d = c
      BY <1>3, <2>2, IdleClientInv
    <2> QED BY <2>1, <2>2
  <1>8. DisjointRows'
    BY <1>3, IdleClientInv DEF Inv, DisjointRows
  <1>9. ASSUME NEW w \in Workers PROVE WorkerInv(w)'
    <2>1. WorkerInv(w) /\ worker'[w] = worker[w] /\ w # c
      BY <1>1, InboxAssumption DEF Inv
    <2>2. worker[w].phase \in {"locked", "staged"} =>
            worker[w].shard \in Shards /\ lock'[worker[w].shard] = w
      BY <1>1, <2>1 DEF WorkerInv
    <2> QED BY <1>1, <1>4, <2>1, <2>2, WorkerFrame
  <1>10. \A s \in Shards : ShardInv(s)'
    BY <1>1, <1>4, ShardFrame DEF Inv, headVars
  <1>11. \A e \in Events : RowInv(e)'
    BY <1>1, <1>2 DEF Inv, RowInv, historyVars
  <1>12. AckedIsDurable'
    BY <1>1, <1>6 DEF Inv, TypeOK, AckedIsDurable, historyVars
  <1> QED BY <1>5, <1>7, <1>8, <1>9, <1>10, <1>11, <1>12 DEF Inv

-----------------------------------------------------------------------------
\* A step of worker w that writes no row and takes or gives up only its own or a
\* free lock.
LEMMA WorkerOnly ==
  ASSUME Inv, NEW w \in Workers,
         worker' \in [Workers -> WorkerState],
         \A v \in Workers \ {w} : worker'[v] = worker[v],
         lock' \in [Shards -> Clients \cup Workers \cup {None}],
         \A s \in Shards : lock[s] \notin {None, w} => lock'[s] = lock[s],
         UNCHANGED <<inboxVars, headVars, client, historyVars>>,
         WorkerInv(w)'
  PROVE  Inv'
  <1>1. \A s \in Shards : Unapplied(s)' = Unapplied(s)
    BY DEF Unapplied, inboxVars
  <1>2. TypeOK'
    BY DEF Inv, TypeOK, inboxVars, headVars, historyVars
  <1>3. ASSUME NEW d \in Clients PROVE ClientInv(d)'
    <2>1. ClientInv(d) /\ client'[d] = client[d] /\ client[d] \in ClientState
      BY DEF Inv, TypeOK
    <2>2. client[d].ids \subseteq Events
      BY <2>1 DEF ClientState
    <2>3. client[d].phase = "staged" => client[d].shard \in Shards /\ lock'[client[d].shard] = d
      BY <2>1, InboxAssumption DEF ClientInv
    <2> QED BY <1>1, <2>1, <2>2, <2>3, ClientFrame DEF inboxVars, historyVars
  <1>4. DisjointRows'
    BY DEF Inv, DisjointRows
  <1>5. ASSUME NEW v \in Workers PROVE WorkerInv(v)'
    <2>1. CASE v # w
      <3>1. WorkerInv(v) /\ worker'[v] = worker[v]
        BY <2>1 DEF Inv
      <3>2. worker[v].phase \in {"locked", "staged"} =>
              worker[v].shard \in Shards /\ lock'[worker[v].shard] = v
        BY <2>1, <3>1, InboxAssumption DEF WorkerInv
      <3> QED BY <1>1, <3>1, <3>2, WorkerFrame DEF inboxVars
    <2> QED BY <2>1
  <1>6. \A s \in Shards : ShardInv(s)'
    BY <1>1, ShardFrame DEF Inv, inboxVars, headVars
  <1>7. (\A e \in Events : RowInv(e)') /\ AckedIsDurable'
    BY DEF Inv, RowInv, AckedIsDurable, inboxVars, historyVars
  <1> QED BY <1>2, <1>3, <1>4, <1>5, <1>6, <1>7 DEF Inv

\* Scanning, skipping and giving up hold no lock afterwards.
LEMMA ScanInv ==
  ASSUME Inv, NEW w \in Workers, BeginApply(w) \/ SkipShard(w) \/ AbortApply(w)
  PROVE  Inv'
  <1>1. worker[w] \in WorkerState
    BY DEF Inv, TypeOK
  <1>2. /\ worker' \in [Workers -> WorkerState]
        /\ \A v \in Workers \ {w} : worker'[v] = worker[v]
        /\ worker'[w].phase \in {"scan", "idle"}
    <2>1. CASE BeginApply(w)
      <3> DEFINE ready == {e \in Events : /\ \E s \in Shards : head[s] = e
                                          /\ inbox[e] = "pending" /\ e \notin delayed}
      <3>1. ready \subseteq Events
            /\ worker' = [worker EXCEPT ![w].phase = "scan", ![w].snap = ready]
        BY <2>1 DEF BeginApply
      <3> HIDE DEF ready
      <3>2. worker'[w] = [worker[w] EXCEPT !.phase = "scan", !.snap = ready]
        BY <3>1 DEF Inv, TypeOK
      <3>3. worker'[w] \in WorkerState /\ worker'[w].phase = "scan"
        <4>1. ready \in SUBSET Events
          BY <3>1
        <4> QED BY <1>1, <3>2, <4>1 DEF WorkerState
      <3> QED BY <3>1, <3>3 DEF Inv, TypeOK
    <2>2. CASE SkipShard(w)
      <3>1. PICK e \in worker[w].snap :
              /\ worker[w].phase = "scan"
              /\ worker' = [worker EXCEPT ![w] =
                   IF worker[w].snap = {e} THEN IdleWorker
                   ELSE [worker[w] EXCEPT !.snap = @ \ {e}]]
        BY <2>2 DEF SkipShard
      <3>2. worker'[w] = IF worker[w].snap = {e} THEN IdleWorker
                         ELSE [worker[w] EXCEPT !.snap = @ \ {e}]
        BY <3>1 DEF Inv, TypeOK
      <3>3. [worker[w] EXCEPT !.snap = @ \ {e}] \in WorkerState
            /\ [worker[w] EXCEPT !.snap = @ \ {e}].phase = "scan"
        <4> DEFINE less == worker[w].snap \ {e}
        <4>1. less \in SUBSET Events /\ worker[w].phase = "scan"
          BY <1>1, <3>1 DEF WorkerState
        <4> HIDE DEF less
        <4>2. [worker[w] EXCEPT !.snap = less] \in WorkerState
              /\ [worker[w] EXCEPT !.snap = less].phase = "scan"
          BY <1>1, <4>1 DEF WorkerState
        <4> QED BY <4>2 DEF less
      <3>4. worker'[w] \in WorkerState /\ worker'[w].phase \in {"scan", "idle"}
        BY <3>2, <3>3, IdleTypes DEF IdleWorker
      <3> QED BY <3>1, <3>4 DEF Inv, TypeOK
    <2>3. CASE AbortApply(w)
      BY <2>3, IdleTypes DEF AbortApply, Inv, TypeOK, IdleWorker
    <2> QED BY <2>1, <2>2, <2>3
  <1>3. /\ lock' \in [Shards -> Clients \cup Workers \cup {None}]
        /\ \A s \in Shards : lock[s] \notin {None, w} => lock'[s] = lock[s]
        /\ UNCHANGED <<inboxVars, headVars, client, historyVars>>
    BY DEF BeginApply, SkipShard, AbortApply, Inv, TypeOK
  <1>4. WorkerInv(w)'
    BY <1>2 DEF WorkerInv
  <1> QED BY <1>2, <1>3, <1>4, WorkerOnly

\* A worker that found its head free and unmoved holds the head's lock.
LEMMA LockShardInv ==
  ASSUME Inv, NEW w \in Workers, LockShard(w)
  PROVE  Inv'
  <1>1. worker[w] \in WorkerState
    BY DEF Inv, TypeOK
  <1>2. PICK e \in worker[w].snap :
          /\ lock[ShardOf[e]] = None
          /\ lock' = [lock EXCEPT ![ShardOf[e]] = w]
          /\ worker' = [worker EXCEPT ![w].phase = "locked", ![w].shard = ShardOf[e],
                                      ![w].snap = {}]
          /\ UNCHANGED <<inboxVars, headVars, client, historyVars>>
    BY DEF LockShard
  <1>3. PICK s \in Shards : s = ShardOf[e]
    BY <1>1, InboxAssumption DEF WorkerState
  <1>4. worker'[w] = [worker[w] EXCEPT !.phase = "locked", !.shard = s, !.snap = {}]
    BY <1>2, <1>3 DEF Inv, TypeOK
  <1>5. worker'[w] \in WorkerState /\ worker'[w].phase = "locked" /\ worker'[w].shard = s
    BY <1>1, <1>4 DEF WorkerState
  <1>6. worker' \in [Workers -> WorkerState] /\ \A v \in Workers \ {w} : worker'[v] = worker[v]
    BY <1>2, <1>5 DEF Inv, TypeOK
  <1>7. /\ lock' \in [Shards -> Clients \cup Workers \cup {None}] /\ lock'[s] = w
        /\ \A x \in Shards : lock[x] \notin {None, w} => lock'[x] = lock[x]
    BY <1>2, <1>3 DEF Inv, TypeOK
  <1>8. WorkerInv(w)'
    BY <1>5, <1>7 DEF WorkerInv
  <1> QED BY <1>2, <1>6, <1>7, <1>8, WorkerOnly

\* What a block contains: available rows of the shard, none of which an earlier
\* row precedes that is neither in the block nor backed off after a failure.
LEMMA BlockOrder ==
  ASSUME Inv, NEW s \in Shards
  PROVE  /\ Block(s) \subseteq Unapplied(s) \ delayed
         /\ Decodable(s) \subseteq Block(s)
         /\ Decodable(s) \cap Undecodable = {}
         /\ \A e \in Decodable(s), x \in Unapplied(s) \ Decodable(s) :
              Before(x, e) => x \in failed
  <1> DEFINE A == Unapplied(s) \ delayed
             P(e) == {y \in A : Before(y, e)}
  <1>1. A \subseteq Events /\ Block(s) = {e \in A : Cardinality(P(e)) < Limit}
    BY DEF Block, FirstN, Unapplied
  <1>2. Decodable(s) = {e \in Block(s) : \A b \in Block(s) \cap Undecodable : Before(e, b)}
    BY DEF Decodable
  <1>3. Decodable(s) \cap Undecodable = {}
    <2>1. \A b \in Events : ~Before(b, b)
      BY InboxAssumption DEF Before, Inv, TypeOK
    <2> QED BY <1>1, <1>2, <2>1
  <1>4. ASSUME NEW e \in Decodable(s), NEW x \in Unapplied(s) \ Decodable(s), Before(x, e),
               x \notin failed
        PROVE  FALSE
    <2>1. x \in A /\ e \in A /\ x \in Events /\ e \in Events
      BY <1>1, <1>2, <1>4 DEF Inv, RowInv, Unapplied
    <2>2. P(x) \subseteq P(e)
      BY <1>1, <1>4, <2>1, BeforeTransitive DEF Inv
    <2>3. P(e) \subseteq Events /\ P(x) \subseteq Events
      BY <1>1
    <2> HIDE DEF P
    <2>4. Cardinality(P(x)) <= Cardinality(P(e)) /\ Cardinality(P(x)) \in Nat
          /\ Cardinality(P(e)) \in Nat
      BY <2>2, <2>3, CountRows
    <2>5. Cardinality(P(x)) < Limit
      BY <1>1, <1>2, <2>4, InboxAssumption
    <2>6. x \in Block(s)
      BY <1>1, <2>1, <2>5
    <2>7. \A b \in Block(s) \cap Undecodable : Before(x, b)
      BY <1>1, <1>2, <1>4, <2>1, BeforeTransitive DEF Inv
    <2> QED BY <1>2, <1>4, <2>6, <2>7
  <1> QED BY <1>1, <1>2, <1>3, <1>4

\* The block, its marks and the next head are chosen under the head's lock.
LEMMA ProcessBlockInv ==
  ASSUME Inv, NEW w \in Workers, ProcessBlock(w)
  PROVE  Inv'
  <1>1. worker[w] \in WorkerState /\ WorkerInv(w) /\ worker[w].phase = "locked"
    BY DEF ProcessBlock, Inv, TypeOK
  <1>2. PICK s \in Shards : s = worker[w].shard /\ lock[s] = w
    BY <1>1 DEF WorkerInv
  <1> DEFINE done == Decodable(s)
             bad == {b \in Block(s) \cap Undecodable : IsFirst(b, Block(s) \cap Undecodable)}
  <1>3. PICK h \in Events \cup {None} :
          /\ IsFirst(h, Unapplied(s) \ done)
          /\ worker' = [worker EXCEPT ![w].phase = "staged", ![w].done = done,
                                      ![w].bad = bad, ![w].next = h]
    BY <1>2 DEF ProcessBlock, Remaining
  <1>4. UNCHANGED <<inboxVars, headVars, lock, client, historyVars>>
    BY DEF ProcessBlock
  <1>5. /\ done \subseteq Unapplied(s) \ delayed
        /\ bad \subseteq Unapplied(s) \ done
        /\ \A e \in done, x \in Unapplied(s) \ done : Before(x, e) => x \in failed
    BY BlockOrder
  <1>6. done \in SUBSET Events /\ bad \in SUBSET Events
    BY <1>5 DEF Unapplied
  <1> HIDE DEF done, bad
  <1>7. worker'[w] = [worker[w] EXCEPT !.phase = "staged", !.done = done, !.bad = bad, !.next = h]
    BY <1>3 DEF Inv, TypeOK
  <1>8. /\ worker'[w] \in WorkerState /\ worker'[w].phase = "staged"
        /\ worker'[w].shard = s /\ worker'[w].done = done /\ worker'[w].bad = bad
        /\ worker'[w].next = h
    BY <1>1, <1>2, <1>6, <1>7 DEF WorkerState
  <1>9. worker' \in [Workers -> WorkerState] /\ \A v \in Workers \ {w} : worker'[v] = worker[v]
    BY <1>3, <1>8 DEF Inv, TypeOK
  <1>10. WorkerInv(w)'
    <2>1. Unapplied(s)' = Unapplied(s) /\ received' = received /\ delayed' = delayed
          /\ failed' = failed /\ lock' = lock
      BY <1>4 DEF Unapplied, inboxVars
    <2>2. IsFirst(worker[w].next, Unapplied(worker[w].shard) \ worker[w].done)'
      BY <1>3, <1>8, <2>1 DEF IsFirst, Before
    <2>3. \A e \in done, x \in Unapplied(s) \ done : Before(x, e)' => x \in failed'
      BY <1>5, <2>1 DEF Before
    <2> QED BY <1>2, <1>5, <1>8, <2>1, <2>2, <2>3 DEF WorkerInv
  <1>11. lock' \in [Shards -> Clients \cup Workers \cup {None}] /\ lock' = lock
    BY <1>4 DEF Inv, TypeOK
  <1> QED BY <1>4, <1>9, <1>10, <1>11, WorkerOnly

\* The commit of ApplyShard removes exactly its block from the committed unapplied
\* rows.
LEMMA CommitApplyInv ==
  ASSUME Inv, NEW w \in Workers, CommitApply(w)
  PROVE  Inv'
  <1>1. worker[w] \in WorkerState /\ WorkerInv(w) /\ worker[w].phase = "staged"
    BY DEF CommitApply, Inv, TypeOK
  <1>2. PICK s \in Shards : s = worker[w].shard /\ lock[s] = w
    BY <1>1 DEF WorkerInv
  <1> DEFINE done == worker[w].done
             bad == worker[w].bad
  <1>3. /\ inbox' = [e \in Events |-> IF e \in done THEN "applied" ELSE inbox[e]]
        /\ delayed' = delayed \cup bad
        /\ failed' = (failed \cup bad) \ done
        /\ IF done # {} THEN /\ head' = [head EXCEPT ![s] = worker[w].next]
                             /\ pending' = [pending EXCEPT ![s] = @ - Cardinality(done)]
           ELSE head' = head /\ pending' = pending
        /\ processed' = processed \cup done
        /\ lock' = [lock EXCEPT ![s] = IF @ = w THEN None ELSE @]
        /\ worker' = [worker EXCEPT ![w] = IdleWorker]
        /\ UNCHANGED <<received, clock, client, acked>>
    BY <1>2 DEF CommitApply, Release, Count, headVars
  <1>4. /\ done \subseteq Unapplied(s) \ delayed /\ bad \subseteq Unapplied(s) \ done
        /\ IsFirst(worker[w].next, Unapplied(s) \ done)
    BY <1>1, <1>2 DEF WorkerInv
  <1>5. worker[w].next \in Events \cup {None} /\ Unapplied(s) \subseteq Events
    BY <1>1 DEF WorkerState, Unapplied
  <1>6. /\ worker' \in [Workers -> WorkerState] /\ worker'[w] = IdleWorker
        /\ \A v \in Workers \ {w} : worker'[v] = worker[v]
    BY <1>3, IdleTypes DEF Inv, TypeOK
  <1> HIDE DEF done, bad
  <1>7. \A e \in done \cup bad : inbox[e] = "pending" /\ ShardOf[e] = s /\ e \in Events
    BY <1>4 DEF Unapplied
  <1>8. /\ Unapplied(s)' = Unapplied(s) \ done
        /\ \A x \in Shards \ {s} : Unapplied(x)' = Unapplied(x)
    <2>1. \A x \in Shards : Unapplied(x)' =
            {e \in Events : e \notin done /\ inbox[e] = "pending" /\ ShardOf[e] = x}
      BY <1>3 DEF Unapplied
    <2>2. Unapplied(s)' = Unapplied(s) \ done
      BY <2>1 DEF Unapplied
    <2>3. \A x \in Shards \ {s} : Unapplied(x)' = Unapplied(x)
      BY <1>7, <2>1 DEF Unapplied
    <2> QED BY <2>2, <2>3
  <1>9. \A x \in Shards : lock[x] # w => lock'[x] = lock[x]
    BY <1>2, <1>3 DEF Inv, TypeOK
  <1>10. ASSUME NEW x \in Shards PROVE ShardInv(x)' /\ pending'[x] \in Nat
    <2>1. ShardInv(x) /\ pending[x] \in Nat
      BY DEF Inv, TypeOK
    <2>2. CASE x # s \/ done = {}
      <3>1. head'[x] = head[x] /\ pending'[x] = pending[x] /\ Unapplied(x)' = Unapplied(x)
        BY <1>3, <1>8, <2>2 DEF Inv, TypeOK
      <3> QED BY <1>3, <2>1, <3>1, ShardFrame
    <2>3. CASE x = s /\ done # {}
      <3>1. head'[s] = worker[w].next /\ pending'[s] = pending[s] - Cardinality(done)
        BY <1>3, <2>3 DEF Inv, TypeOK
      <3>2. IsFirst(head[s], Unapplied(s))'
        BY <1>3, <1>4, <1>8, <3>1 DEF IsFirst, Before
      <3>3. /\ Cardinality(Unapplied(s) \ done) = Cardinality(Unapplied(s)) - Cardinality(done)
            /\ Cardinality(Unapplied(s) \ done) \in Nat
        BY <1>4, <1>5, CountRows
      <3>4. pending[s] = Cardinality(Unapplied(s))
        BY <2>1, <2>3 DEF ShardInv
      <3>5. pending'[s] = Cardinality(Unapplied(s)') /\ pending'[s] \in Nat
        BY <1>8, <3>1, <3>3, <3>4
      <3> QED BY <2>3, <3>2, <3>5 DEF ShardInv
    <2> QED BY <2>2, <2>3
  <1>11. TypeOK'
    <2>1. inbox' \in [Events -> {"absent", "inserting", "pending", "applied"}]
      BY <1>3 DEF Inv, TypeOK
    <2>2. head' \in [Shards -> Events \cup {None}]
      BY <1>3, <1>5 DEF Inv, TypeOK
    <2>3. pending' \in [Shards -> Nat]
      <3>1. pending' = [x \in Shards |-> pending'[x]]
        BY <1>3 DEF Inv, TypeOK
      <3> QED BY <1>10, <3>1
    <2>4. lock' \in [Shards -> Clients \cup Workers \cup {None}]
      BY <1>3 DEF Inv, TypeOK
    <2>5. /\ delayed' \subseteq Events /\ failed' \subseteq Events
          /\ processed' \subseteq Events
      BY <1>3, <1>7 DEF Inv, TypeOK
    <2> QED BY <1>3, <1>6, <2>1, <2>2, <2>3, <2>4, <2>5 DEF Inv, TypeOK
  <1>12. ASSUME NEW d \in Clients PROVE ClientInv(d)'
    <2>1. ClientInv(d) /\ client'[d] = client[d] /\ client[d] \in ClientState /\ d # w
      BY <1>3, InboxAssumption DEF Inv, TypeOK
    <2>2. client[d].ids \subseteq Events
      BY <2>1 DEF ClientState
    <2>3. client[d].mine \subseteq Events
          /\ \A x \in client[d].mine : inbox'[x] = inbox[x] /\ received'[x] = received[x]
      BY <1>3, <1>7, <2>1 DEF ClientInv, ClientState
    <2>4. \A x \in Events : inbox[x] = "pending" \/ x \in processed =>
                             inbox'[x] = "pending" \/ x \in processed'
      BY <1>3
    <2>5. client[d].phase = "staged" =>
            client[d].shard \in Shards /\ client[d].shard # s /\ lock'[client[d].shard] = d
      BY <1>2, <1>9, <2>1 DEF ClientInv
    <2> QED BY <1>3, <1>8, <2>1, <2>2, <2>3, <2>4, <2>5, ClientFrame
  <1>13. DisjointRows'
    BY <1>3 DEF Inv, DisjointRows
  <1>14. ASSUME NEW v \in Workers PROVE WorkerInv(v)'
    <2>1. CASE v # w
      <3>1. WorkerInv(v) /\ worker'[v] = worker[v]
        BY <1>6, <2>1 DEF Inv
      <3>2. worker[v].phase \in {"locked", "staged"} =>
              /\ worker[v].shard \in Shards /\ worker[v].shard # s
              /\ lock'[worker[v].shard] = v
        BY <1>2, <1>9, <2>1, <3>1 DEF WorkerInv
      <3>3. worker[v].phase = "staged" =>
              \A x \in Unapplied(worker[v].shard) : x \notin done \cup bad
        BY <1>7, <3>2 DEF Unapplied
      <3>4. worker[v].phase = "staged" =>
             /\ Unapplied(worker[v].shard)' = Unapplied(worker[v].shard)
             /\ \A e \in Unapplied(worker[v].shard) :
                  /\ received'[e] = received[e]
                  /\ e \in delayed' => e \in delayed
                  /\ e \in failed => e \in failed'
        <4>1. worker[v].phase = "staged" =>
                Unapplied(worker[v].shard)' = Unapplied(worker[v].shard)
          BY <1>8, <3>1, <3>2
        <4> QED BY <1>3, <3>3, <4>1
      <3>5. worker[v].phase \in {"locked", "staged"} => lock'[worker[v].shard] = v
        BY <3>2
      <3> QED BY <3>1, <3>4, <3>5, WorkerFrame
    <2>2. CASE v = w
      BY <1>6, <2>2 DEF WorkerInv, IdleWorker
    <2> QED BY <2>1, <2>2
  <1>15. \A e \in Events : RowInv(e)'
    BY <1>3, <1>4, <1>7 DEF Inv, RowInv
  <1>16. AckedIsDurable'
    BY <1>3 DEF Inv, TypeOK, AckedIsDurable
  <1> QED BY <1>10, <1>11, <1>12, <1>13, <1>14, <1>15, <1>16 DEF Inv

-----------------------------------------------------------------------------
\* Time and retention touch no committed unapplied row and no locked head.
LEMMA BecomeAvailableInv ==
  ASSUME Inv, NEW e \in Events, BecomeAvailable(e)
  PROVE  Inv'
  <1>1. /\ delayed' = delayed \ {e}
        /\ UNCHANGED <<inbox, received, clock, failed, headVars, lock, client, worker,
                       historyVars>>
    BY DEF BecomeAvailable
  <1>2. \A s : Unapplied(s)' = Unapplied(s)
    BY <1>1 DEF Unapplied
  <1>3. TypeOK' /\ DisjointRows' /\ AckedIsDurable'
    BY <1>1 DEF Inv, TypeOK, DisjointRows, AckedIsDurable, headVars, historyVars
  <1>4. ASSUME NEW c \in Clients PROVE ClientInv(c)'
    <2>1. ClientInv(c) /\ client[c] \in ClientState
      BY DEF Inv, TypeOK
    <2>2. client[c].ids \subseteq Events /\ (client[c].phase = "staged" => lock[client[c].shard] = c)
      BY <2>1 DEF ClientInv, ClientState
    <2>3. client[c].phase = "staged" =>
            Unapplied(client[c].shard)' = Unapplied(client[c].shard)
      BY <1>1, <1>2
    <2> QED BY <1>1, <2>1, <2>2, <2>3, ClientFrame DEF historyVars
  <1>5. ASSUME NEW w \in Workers PROVE WorkerInv(w)'
    <2>1. WorkerInv(w) /\ worker'[w] = worker[w]
          /\ (worker[w].phase \in {"locked", "staged"} => lock'[worker[w].shard] = w)
      BY <1>1 DEF Inv, WorkerInv
    <2>2. Unapplied(worker[w].shard)' = Unapplied(worker[w].shard)
      BY <1>1, <1>2
    <2> QED BY <1>1, <2>1, <2>2, WorkerFrame
  <1>6. \A s \in Shards : ShardInv(s)'
    BY <1>1, <1>2, ShardFrame DEF Inv, headVars
  <1>7. \A x \in Events : RowInv(x)'
    BY <1>1 DEF Inv, RowInv, historyVars
  <1> QED BY <1>3, <1>4, <1>5, <1>6, <1>7 DEF Inv

LEMMA CleanupInv ==
  ASSUME Inv, Cleanup
  PROVE  Inv'
  <1>1. PICK gone \in SUBSET {s \in Shards : pending[s] = 0 /\ lock[s] = None},
             old \in SUBSET {e \in Events : inbox[e] = "applied"} :
          /\ head' = [s \in Shards |-> IF s \in gone THEN None ELSE head[s]]
          /\ pending' = [s \in Shards |-> IF s \in gone THEN 0 ELSE pending[s]]
          /\ inbox' = [e \in Events |-> IF e \in old THEN "absent" ELSE inbox[e]]
          /\ UNCHANGED <<received, clock, delayed, failed, lock, client, worker, historyVars>>
    BY DEF Cleanup
  <1>2. \A s : Unapplied(s)' = Unapplied(s)
    BY <1>1 DEF Unapplied
  <1>3. TypeOK' /\ DisjointRows'
    BY <1>1 DEF Inv, TypeOK, DisjointRows, historyVars
  <1>4. ASSUME NEW c \in Clients PROVE ClientInv(c)'
    <2>1. ClientInv(c) /\ client[c] \in ClientState
      BY DEF Inv, TypeOK
    <2>2. client[c].ids \subseteq Events /\ client[c].mine \subseteq Events
          /\ (client[c].phase = "staged" => lock[client[c].shard] = c)
      BY <2>1 DEF ClientInv, ClientState
    <2>3. client[c].phase = "staged" =>
            Unapplied(client[c].shard)' = Unapplied(client[c].shard)
      BY <1>1, <1>2
    <2>4. \A e \in client[c].mine : inbox'[e] = inbox[e]
      BY <1>1, <2>1, <2>2 DEF ClientInv
    <2>5. \A e \in Events : inbox[e] = "pending" \/ e \in processed =>
                             inbox'[e] = "pending" \/ e \in processed'
      BY <1>1 DEF historyVars
    <2> QED BY <1>1, <2>1, <2>2, <2>3, <2>4, <2>5, ClientFrame
  <1>5. ASSUME NEW w \in Workers PROVE WorkerInv(w)'
    <2>1. WorkerInv(w) /\ worker'[w] = worker[w]
          /\ (worker[w].phase \in {"locked", "staged"} => lock'[worker[w].shard] = w)
      BY <1>1 DEF Inv, WorkerInv
    <2>2. Unapplied(worker[w].shard)' = Unapplied(worker[w].shard)
      BY <1>1, <1>2
    <2> QED BY <1>1, <2>1, <2>2, WorkerFrame
  <1>6. ASSUME NEW s \in Shards PROVE ShardInv(s)'
    <2>1. CASE s \notin gone
      BY <1>1, <1>2, <2>1, ShardFrame DEF Inv
    <2>2. CASE s \in gone
      <3>1. Cardinality(Unapplied(s)) = 0 /\ Unapplied(s) \in SUBSET Events
        BY <1>1, <2>2 DEF Inv, ShardInv, Unapplied
      <3>2. Unapplied(s) = {}
        BY <3>1, InboxAssumption, FS_Subset, FS_EmptySet
      <3> QED BY <1>1, <1>2, <2>2, <3>1, <3>2 DEF ShardInv, IsFirst
    <2> QED BY <2>1, <2>2
  <1>7. \A x \in Events : RowInv(x)'
    BY <1>1 DEF Inv, RowInv, historyVars
  <1>8. AckedIsDurable'
    BY <1>1 DEF Inv, TypeOK, AckedIsDurable, historyVars
  <1> QED BY <1>3, <1>4, <1>5, <1>6, <1>7, <1>8 DEF Inv

\* A step that changes nothing.
LEMMA StutterInv ==
  ASSUME Inv, UNCHANGED vars
  PROVE  Inv'
  <1>1. \A s : Unapplied(s)' = Unapplied(s)
    BY DEF Unapplied, vars, inboxVars
  <1>2. (\A c \in Clients : ClientInv(c)') /\ DisjointRows'
    BY <1>1 DEF Inv, ClientInv, Handled, DisjointRows, IsFirst, Before, Unapplied, vars, inboxVars,
                historyVars
  <1>3. \A w \in Workers : WorkerInv(w)'
    BY <1>1 DEF Inv, WorkerInv, IsFirst, Before, Unapplied, vars, inboxVars
  <1>4. \A s \in Shards : ShardInv(s)'
    BY <1>1, ShardFrame DEF Inv, vars, inboxVars, headVars
  <1>5. TypeOK' /\ (\A e \in Events : RowInv(e)') /\ AckedIsDurable'
    BY DEF Inv, TypeOK, RowInv, AckedIsDurable, vars, inboxVars, headVars, historyVars
  <1> QED BY <1>2, <1>3, <1>4, <1>5 DEF Inv

\* Every step of the inbox preserves the invariant.
LEMMA NextInv == Inv /\ [Next]_vars => Inv'
  <1> SUFFICES ASSUME Inv, [Next]_vars PROVE Inv'
    OBVIOUS
  <1>1. ASSUME NEW c \in Clients, Enqueue(c) PROVE Inv'
    BY <1>1, BeginEnqueueInv, InsertRowInv, SkipDuplicateInv, StageHeadInv, CommitEnqueueInv,
       CommitDuplicatesInv, AbortEnqueueInv DEF Enqueue
  <1>2. ASSUME NEW w \in Workers, ApplyShard(w) PROVE Inv'
    BY <1>2, ScanInv, LockShardInv, ProcessBlockInv, CommitApplyInv DEF ApplyShard
  <1>3. ASSUME NEW e \in Events, BecomeAvailable(e) PROVE Inv'
    BY <1>3, BecomeAvailableInv
  <1>4. CASE Cleanup
    BY <1>4, CleanupInv
  <1>5. CASE UNCHANGED vars
    BY <1>5, StutterInv
  <1> QED BY <1>1, <1>2, <1>3, <1>4, <1>5 DEF Next

\* The inductive invariant holds throughout.
LEMMA Invariance == Spec => []Inv
  BY InitInv, NextInv, PTL DEF Spec

-----------------------------------------------------------------------------
\* Every variable keeps its type: the subtraction from pending_events never leaves
\* the naturals, so the CHECK constraint of ingest_shard_head is never hit.
THEOREM InboxTypeOK == Spec => []TypeOK
  <1>1. Inv => TypeOK
    BY DEF Inv
  <1> QED BY <1>1, Invariance, PTL

\* However the transactions of Enqueue, ApplyShard and Cleanup interleave and
\* abort, a shard's head names its earliest committed unapplied event.
THEOREM HeadCorrect == Spec => []HeadIsEarliest
  <1>1. Inv => HeadIsEarliest
    BY DEF Inv, ShardInv, HeadIsEarliest
  <1> QED BY <1>1, Invariance, PTL

\* ... and pending_events counts these events.
THEOREM PendingCorrect == Spec => []PendingCountsUnapplied
  <1>1. Inv => PendingCountsUnapplied
    BY DEF Inv, ShardInv, PendingCountsUnapplied
  <1> QED BY <1>1, Invariance, PTL

\* A 202 answer of the ingest endpoint means committed, or already applied.
THEOREM AckedDurable == Spec => []AckedIsDurable
  <1>1. Inv => AckedIsDurable
    BY DEF Inv
  <1> QED BY <1>1, Invariance, PTL

\* ApplyShard passes over an earlier committed event of the shard only after that
\* event failed to decode.
THEOREM OvertakingOnlyFailed == Spec => OvertakesOnlyFailed
  <1> DEFINE Step == \A e \in Events : inbox[e] = "pending" /\ inbox'[e] = "applied" =>
                       \A x \in Unapplied(ShardOf[e]) :
                         Before(x, e) /\ inbox'[x] = "pending" => x \in failed
  <1>1. Inv /\ [Next]_vars => [Step]_vars
    <2> SUFFICES ASSUME Inv, Next, NEW e \in Events, inbox[e] = "pending",
                        inbox'[e] = "applied", NEW x \in Unapplied(ShardOf[e]),
                        Before(x, e), inbox'[x] = "pending"
                 PROVE  x \in failed
      OBVIOUS
    <2>1. ASSUME NEW w \in Workers, CommitApply(w) PROVE x \in failed
      <3>1. WorkerInv(w) /\ worker[w].phase = "staged"
            /\ inbox' = [y \in Events |-> IF y \in worker[w].done THEN "applied" ELSE inbox[y]]
        BY <2>1 DEF CommitApply, Inv
      <3>2. e \in worker[w].done /\ x \notin worker[w].done
        BY <3>1 DEF Unapplied
      <3>3. ShardOf[e] = worker[w].shard
        BY <3>1, <3>2 DEF WorkerInv, Unapplied
      <3> QED BY <3>1, <3>2, <3>3 DEF WorkerInv
    <2>2. ASSUME NEW c \in Clients, Enqueue(c) PROVE FALSE
      BY <2>2 DEF Enqueue, BeginEnqueue, InsertRow, SkipDuplicate, StageHead, CommitEnqueue,
                  CommitDuplicates, AbortEnqueue, inboxVars, Inv, TypeOK
    <2>3. ASSUME NEW w \in Workers, ApplyShard(w), ~CommitApply(w) PROVE FALSE
      BY <2>3 DEF ApplyShard, BeginApply, LockShard, SkipShard, ProcessBlock, AbortApply, inboxVars
    <2>4. ASSUME NEW y \in Events, BecomeAvailable(y) PROVE FALSE
      BY <2>4 DEF BecomeAvailable
    <2>5. ASSUME Cleanup PROVE FALSE
      BY <2>5 DEF Cleanup
    <2> QED BY <2>1, <2>2, <2>3, <2>4, <2>5 DEF Next
  <1> QED BY <1>1, Invariance, PTL DEF Spec, OvertakesOnlyFailed
=============================================================================
