------------------------------ MODULE Collector ------------------------------
(***************************************************************************)
(* One shard (a resource kind in a namespace) collected by one replica     *)
(* after another: watch, consume, flush and the reconcile marker           *)
(* (internal/v2/collector/collector.go), from the Kubernetes API to the    *)
(* inventory rows.                                                         *)
(*                                                                         *)
(* Abstracted, with what other modules establish: Send keeps the order of  *)
(* a replica's batches and loses none that it does not report (module      *)
(* Spool), so each replica has one FIFO channel; the inbox stores an event *)
(* id once and applies a shard in order (module Inbox); the rules for      *)
(* observation times are those of module Inventory.  Leases are external:  *)
(* only the holder stamps observations, and replicas read one clock that   *)
(* never shows the same instant twice.                                     *)
(***************************************************************************)
EXTENDS Naturals, Sequences, FiniteSets

CONSTANTS
    Objects,     \* objects by UID: a re-created object is another one
    Replicas,    \* collector processes
    SendErrors,  \* whether Send may fail although its context is live
    MaxChanges,  \* bound on the changes in the cluster
    MaxTime,     \* bound on the clock
    None, NoRow

ASSUME CollectorAssumption ==
    /\ None \notin Replicas
    /\ SendErrors \in BOOLEAN
    /\ MaxChanges \in Nat /\ MaxTime \in Nat

VARIABLES
    log,       \* Kubernetes: all changes of the shard, the rv is the position
    now,       \* the clock
    leader,    \* holder of the shard's Lease
    watcher,   \* the watch goroutine of the holder
    channel,   \* per replica: messages posted or spooled, not yet applied
    seen,      \* event ids in the inbox
    row,       \* inventory rows of the shard
    watermark  \* reconciled_at of the shard

vars == <<log, now, leader, watcher, channel, seen, row, watermark>>

RowType == [version : Nat, observed : Nat, deleted : BOOLEAN]

\* NoRow stands for an absent table row.
ASSUME CollectorSentinel == NoRow \notin RowType

\* the resourceVersion of o at position rv of the log, 0 when it does not exist
VersionAt(o, rv) ==
    LET own == {i \in 1..rv : log[i].object = o} IN
    IF own = {} THEN 0
    ELSE LET last == CHOOSE i \in own : \A j \in own : j <= i IN
         IF log[last].action = "delete" THEN 0 ELSE last

Listed(rv) == {o \in Objects : VersionAt(o, rv) # 0}
Live(o) == row[o] # NoRow /\ ~row[o].deleted

Off == [pc |-> "off", started |-> 0, rv |-> 0, listed |-> {}, batch |-> <<>>]

-----------------------------------------------------------------------------
\* External: an object is created, updated or deleted.
Change(o, action) ==
    /\ Len(log) < MaxChanges
    /\ VersionAt(o, Len(log)) = 0 => action = "upsert" /\ \A i \in DOMAIN log : log[i].object # o
    /\ log' = Append(log, [object |-> o, action |-> action])
    /\ UNCHANGED <<now, leader, watcher, channel, seen, row, watermark>>

\* External: the Lease is acquired; watchNamespaces starts watch.
Acquire(r) ==
    /\ leader = None
    /\ leader' = r
    /\ watcher' = [Off EXCEPT !.pc = "start"]
    /\ UNCHANGED <<log, now, channel, seen, row, watermark>>

\* The Lease is lost, the shard resynchronised, or the process dies.  consume
\* flushes with a cancelled context, and Send then drops the batch.
Stop ==
    /\ leader # None
    /\ leader' = None
    /\ watcher' = Off
    /\ UNCHANGED <<log, now, channel, seen, row, watermark>>

\* time.Now
Stamp == now < MaxTime /\ now' = now + 1

\* Send, whose error flush and watch only log.  Of several chunks the first ones
\* may be through.
Sent(messages) ==
    \E n \in 0..Len(messages) :
      /\ n = Len(messages) \/ SendErrors
      /\ channel' = [channel EXCEPT ![leader] = @ \o SubSeq(messages, 1, n)]

\* event: the id is made of UID, resourceVersion and action
Event(action, o, rv, t) ==
    [kind |-> action, object |-> o, version |-> rv, observed |-> t,
     id |-> <<o, rv, action, 0>>, listed |-> {}]

\* Seeded defect: the id of a listed object does not depend on the snapshot.
SnapshotEventSameID(o, rv, started, t) == Event("upsert", o, rv, t)

\* snapshotEvent: "Every list must refresh observations before its reconcile
\* marker, even when the object RV is unchanged."
SnapshotEvent(o, rv, started, t) ==
    [Event("upsert", o, rv, t) EXCEPT !.id = <<o, rv, "upsert", started>>]

\* the marker also records, for the properties, what its snapshot listed
Marker(started, listed) ==
    [kind |-> "reconcile", object |-> None, version |-> 0, observed |-> started,
     id |-> <<None, 0, "reconcile", started>>, listed |-> listed]

-----------------------------------------------------------------------------
\* snapshotStarted, before the first List call
StartSnapshot ==
    /\ watcher.pc = "start"
    /\ Stamp
    /\ watcher' = [Off EXCEPT !.pc = "list", !.started = now']
    /\ UNCHANGED <<log, leader, channel, seen, row, watermark>>

\* The first page fixes the snapshot version that the continue tokens carry.
FirstPage ==
    /\ watcher.pc = "list"
    /\ watcher' = [watcher EXCEPT !.pc = "pages", !.rv = Len(log)]
    /\ UNCHANGED <<log, now, leader, channel, seen, row, watermark>>

\* A listed object is normalised and flushed.
Page(o) ==
    /\ watcher.pc = "pages"
    /\ o \in Listed(watcher.rv) \ watcher.listed
    /\ Stamp
    /\ Sent(<<SnapshotEvent(o, VersionAt(o, watcher.rv), watcher.started, now')>>)
    /\ watcher' = [watcher EXCEPT !.listed = @ \cup {o}]
    /\ UNCHANGED <<log, leader, seen, row, watermark>>

\* "A continuation token can expire while listing.  Restart the full snapshot
\* before emitting a reconcile marker or opening a watch."
ListFails ==
    /\ watcher.pc \in {"list", "pages"}
    /\ watcher' = [Off EXCEPT !.pc = "start"]
    /\ UNCHANGED <<log, now, leader, channel, seen, row, watermark>>

\* the cutoff of the marker
Cutoff == watcher.started

\* Reconcile after the last page
SendMarker ==
    /\ watcher.pc = "pages" /\ watcher.listed = Listed(watcher.rv)
    /\ Sent(<<Marker(Cutoff, watcher.listed)>>)
    /\ watcher' = [Off EXCEPT !.pc = "open", !.rv = watcher.rv]
    /\ UNCHANGED <<log, now, leader, seen, row, watermark>>

\* Seeded defect: the watch starts at the current version instead of the list's.
WatchFromNow == Len(log)

\* the resourceVersion the watch starts after
WatchFrom == watcher.rv

OpenWatch ==
    /\ watcher.pc = "open"
    /\ watcher' = [watcher EXCEPT !.pc = "watch", !.rv = WatchFrom]
    /\ UNCHANGED <<log, now, leader, channel, seen, row, watermark>>

OpenFails ==
    /\ watcher.pc = "open"
    /\ watcher' = [Off EXCEPT !.pc = "start"]
    /\ UNCHANGED <<log, now, leader, channel, seen, row, watermark>>

\* consume: the next change joins the batch.
Receive ==
    /\ watcher.pc = "watch" /\ watcher.rv < Len(log)
    /\ Stamp
    /\ LET rv == watcher.rv + 1 IN
       watcher' = [watcher EXCEPT !.rv = rv,
                     !.batch = Append(@, Event(log[rv].action, log[rv].object, rv, now'))]
    /\ UNCHANGED <<log, leader, channel, seen, row, watermark>>

\* the ticker, or the batch is full
Flush ==
    /\ watcher.pc = "watch" /\ watcher.batch # <<>>
    /\ Sent(watcher.batch)
    /\ watcher' = [watcher EXCEPT !.batch = <<>>]
    /\ UNCHANGED <<log, now, leader, seen, row, watermark>>

\* The watch is closed or reports an error: flush, then list again.
WatchEnds ==
    /\ watcher.pc = "watch"
    /\ Sent(watcher.batch)
    /\ watcher' = [Off EXCEPT !.pc = "start"]
    /\ UNCHANGED <<log, now, leader, seen, row, watermark>>

-----------------------------------------------------------------------------
\* applyResource: not older than the watermark nor than the stored observation
Accepted(m) ==
    /\ m.observed >= watermark
    /\ m.kind # "reconcile" /\ row[m.object] # NoRow => m.observed >= row[m.object].observed

\* the rows after message m
Applied(m) ==
    IF m.kind = "reconcile"
    THEN [o \in Objects |-> IF Live(o) /\ row[o].observed < m.observed
                            THEN [row[o] EXCEPT !.deleted = TRUE, !.observed = m.observed]
                            ELSE row[o]]
    ELSE [row EXCEPT ![m.object] = [version |-> m.version, observed |-> m.observed,
                                    deleted |-> m.kind = "delete"]]

\* The next message of a replica reaches the inbox and is applied, unless its id
\* is known or it is too old.
Deliver(r) ==
    /\ channel[r] # <<>>
    /\ channel' = [channel EXCEPT ![r] = Tail(@)]
    /\ LET m == Head(channel[r])
           ok == m.id \notin seen /\ Accepted(m) IN
       /\ seen' = seen \cup {m.id}
       /\ row' = IF ok THEN Applied(m) ELSE row
       /\ watermark' = IF ok /\ m.kind = "reconcile" THEN m.observed ELSE watermark
    /\ UNCHANGED <<log, now, leader, watcher>>

-----------------------------------------------------------------------------
Init ==
    /\ log = <<>>
    /\ now = 0
    /\ leader = None
    /\ watcher = Off
    /\ channel = [r \in Replicas |-> <<>>]
    /\ seen = {}
    /\ row = [o \in Objects |-> NoRow]
    /\ watermark = 0

Next ==
    \/ \E o \in Objects, action \in {"upsert", "delete"} : Change(o, action)
    \/ \E r \in Replicas : Acquire(r) \/ Deliver(r)
    \/ Stop
    \/ StartSnapshot \/ FirstPage \/ (\E o \in Objects : Page(o)) \/ ListFails \/ SendMarker
    \/ OpenWatch \/ OpenFails \/ Receive \/ Flush \/ WatchEnds

Spec == Init /\ [][Next]_vars

-----------------------------------------------------------------------------
\* "The marker can safely tombstone only objects not observed in that snapshot":
\* applying a marker leaves every object its snapshot listed alive, if it was.
ListedSurvivesMarker ==
    [][\A r \in Replicas :
         channel[r] # <<>> /\ channel'[r] = Tail(channel[r]) =>
           \A o \in Head(channel[r]).listed : Live(o) => ~row'[o].deleted]_vars

\* Whatever was interrupted, delayed or handed over: once the holder's watch has
\* caught up and every message is applied, the inventory is the cluster.
Quiescent ==
    /\ watcher.pc = "watch" /\ watcher.rv = Len(log) /\ watcher.batch = <<>>
    /\ \A r \in Replicas : channel[r] = <<>>

CaughtUpIsExact ==
    Quiescent => \A o \in Objects :
      IF VersionAt(o, Len(log)) = 0 THEN ~Live(o)
      ELSE Live(o) /\ row[o].version = VersionAt(o, Len(log))
=============================================================================
