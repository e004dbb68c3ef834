----------------------------- MODULE ShardQueue -----------------------------
(***************************************************************************)
(* What the ingest inbox promises, without transactions, snapshots, heads, *)
(* locks or retries: one queue per shard.  Events are stored together with *)
(* a stamp that fixes their place; a worker takes a block of at most Limit *)
(* events from the front.  An event may be set aside, which is when later  *)
(* ones may be taken before it; nothing else leaves its place.             *)
(***************************************************************************)
EXTENDS Naturals, FiniteSets

CONSTANTS Events, Shards, ShardOf, Limit

VARIABLES
    waiting,  \* the events stored and not yet taken
    stamp,    \* their places; 0 for the others
    aside     \* those of them that were set aside

queueVars == <<waiting, stamp, aside>>

Ahead(x, e) == stamp[x] < stamp[e] \/ (stamp[x] = stamp[e] /\ x < e)

Queued(s) == {e \in waiting : ShardOf[e] = s}

-----------------------------------------------------------------------------
\* A batch is stored: those of its events that do not wait already, all of one
\* shard, get their places.
Put(s) ==
    /\ waiting' # waiting /\ waiting \subseteq waiting' /\ waiting' \subseteq Events
    /\ \A e \in waiting' \ waiting : ShardOf[e] = s
    /\ stamp' \in [Events -> Nat]
    /\ \A e \in Events : e \notin waiting' \ waiting => stamp'[e] = stamp[e]
    /\ UNCHANGED aside

\* A block is taken; at most one event is set aside.  Whatever waits ahead of an
\* event that is taken is taken with it or was set aside before.
Take(s) ==
    LET block == waiting \ waiting'
        held  == aside' \ aside IN
    /\ block \cup held # {}
    /\ block \subseteq Queued(s) /\ Cardinality(block) <= Limit
    /\ held \subseteq Queued(s) \ block /\ Cardinality(held) <= 1
    /\ \A e \in block : \A x \in Queued(s) : Ahead(x, e) => x \in block \cup aside
    /\ waiting' = waiting \ block
    /\ aside' = (aside \cup held) \ block
    /\ stamp' = [e \in Events |-> IF e \in block THEN 0 ELSE stamp[e]]

-----------------------------------------------------------------------------
QueueInit ==
    /\ waiting = {}
    /\ stamp = [e \in Events |-> 0]
    /\ aside = {}

QueueNext == \E s \in Shards : Put(s) \/ Take(s)

QueueSpec == QueueInit /\ [][QueueNext]_queueVars
=============================================================================
