-------------------------------- MODULE Outbox --------------------------------
(***************************************************************************)
(* The notification outbox: rows queued by the inventory transactions      *)
(* (store.go, event_recovery.go), claimed and sent by any number of        *)
(* notifiers (internal/v2/notifier/notifier.go), pruned by Cleanup, and    *)
(* the Icinga Notifications server at the other end, which is external     *)
(* and processes each event UUID once.                                     *)
(*                                                                         *)
(* A claim lasts claimDuration, twice the send timeout.  It expires when   *)
(* its holder gave the entry up, and for a Slow holder (a paused process,  *)
(* a slow acknowledging UPDATE) at any time.  A request whose sender gave  *)
(* up may still reach the server.                                          *)
(***************************************************************************)
EXTENDS Naturals, FiniteSets

CONSTANTS
    Entries,      \* notification_outbox.id, numbers in bigserial order
    ResourceOf,   \* resource_id of each entry
    Notifiers,    \* identities of the notifier processes
    Slow,         \* notifiers that may outlive their claim while they work on it
    MaxAttempts,  \* bound on the attempts told apart
    Nobody

ASSUME OutboxAssumption ==
    /\ Entries \subseteq Nat \ {0}
    /\ Nobody \notin Notifiers /\ Slow \subseteq Notifiers
    /\ MaxAttempts \in Nat \ {0}

VARIABLES
    entry,      \* [Entries -> "absent" | "queued" | "delivered" | "pruned"]
    claimedBy,  \* claimed_by
    expired,    \* rows whose claimed_until lies in the past
    waiting,    \* rows whose available_at lies in the future
    attempts,   \* attempts
    notifier,   \* the loop of each notifier
    inflight,   \* requests on the way: <<entry, attempt>>
    seen,       \* server: event UUIDs processed
    shown       \* server: the entry whose content each resource's incident shows

rowVars    == <<entry, claimedBy, expired, waiting, attempts>>
serverVars == <<inflight, seen, shown>>
outboxVars == <<rowVars, notifier, serverVars>>

Resources == {ResourceOf[i] : i \in Entries}
Earlier(i) == {j \in Entries : j < i /\ ResourceOf[j] = ResourceOf[i]}
Undelivered == {i \in Entries : entry[i] = "queued"}

IdleNotifier == [phase |-> "idle", id |-> Nobody, attempt |-> 0]

-----------------------------------------------------------------------------
\* A committed inventory transaction queued a row.  The row lock on the resource
\* makes rows of one resource commit in id order; others commit in any order.
Queue(i) ==
    /\ entry[i] = "absent"
    /\ \A j \in Earlier(i) : entry[j] # "absent"
    /\ entry' = [entry EXCEPT ![i] = "queued"]
    /\ UNCHANGED <<claimedBy, expired, waiting, attempts, notifier, serverVars>>

\* Seeded defect: no NOT EXISTS (earlier undelivered row of the resource).
ClaimableOutOfOrder(i) ==
    i \in Undelivered \ waiting /\ (claimedBy[i] = Nobody \/ i \in expired)

\* Seeded defect: a claim is never taken over.
ClaimableFree(i) ==
    i \in Undelivered \ waiting /\ claimedBy[i] = Nobody /\ Earlier(i) \cap Undelivered = {}

Claimable(i) ==
    /\ i \in Undelivered \ waiting
    /\ claimedBy[i] = Nobody \/ i \in expired
    /\ Earlier(i) \cap Undelivered = {}

\* One statement: select a candidate and claim it.  ORDER BY id takes the lowest
\* one, but SKIP LOCKED passes over a row that another notifier's statement has
\* locked (and may roll back), so any candidate may be the one.
Claim(n, i) ==
    /\ notifier[n].phase = "idle"
    /\ Claimable(i)
    /\ claimedBy' = [claimedBy EXCEPT ![i] = n]
    /\ expired' = expired \ {i}
    /\ attempts' = [attempts EXCEPT ![i] = IF @ < MaxAttempts THEN @ + 1 ELSE @]
    /\ notifier' = [notifier EXCEPT ![n] =
                      [phase |-> "claimed", id |-> i, attempt |-> attempts'[i]]]
    /\ UNCHANGED <<entry, waiting, serverVars>>

\* ProcessEvent: the request leaves.
Send(n) ==
    /\ notifier[n].phase = "claimed"
    /\ inflight' = inflight \cup {<<notifier[n].id, notifier[n].attempt>>}
    /\ notifier' = [notifier EXCEPT ![n].phase = "sending"]
    /\ UNCHANGED <<rowVars, seen, shown>>

\* Seeded defect: every attempt gets an event UUID of its own.
EventUUIDPerAttempt(i, a) == <<i, a>>

\* makeEvent: "Retries must keep the same UUID for server-side deduplication."
EventUUID(i, a) == <<i, 0>>

\* External: the server processes a request.
Process(i, a) ==
    /\ <<i, a>> \in inflight
    /\ inflight' = inflight \ {<<i, a>>}
    /\ seen' = seen \cup {EventUUID(i, a)}
    /\ shown' = IF EventUUID(i, a) \in seen THEN shown
                ELSE [shown EXCEPT ![ResourceOf[i]] = i]
    /\ UNCHANGED rowVars

\* ... and its sender still waits for this attempt and gets the answer,
ProcessAnswered(n) ==
    /\ notifier[n].phase = "sending"
    /\ Process(notifier[n].id, notifier[n].attempt)
    /\ notifier' = [notifier EXCEPT ![n].phase = "answered"]

\* ... or nobody does.
ProcessUnanswered(i, a) == Process(i, a) /\ UNCHANGED notifier

\* External: a request is lost.
Lose(i, a) ==
    /\ <<i, a>> \in inflight
    /\ inflight' = inflight \ {<<i, a>>}
    /\ UNCHANGED <<rowVars, notifier, seen, shown>>

\* The 15-second send timeout, or a refused request: the error path of Run.
Timeout(n) ==
    /\ notifier[n].phase = "sending"
    /\ notifier' = [notifier EXCEPT ![n].phase = "failed"]
    /\ UNCHANGED <<rowVars, serverVars>>

\* claimed_by=NULL
ClearClaim(i) == [claimedBy EXCEPT ![i] = Nobody]

\* Delivered affects the row only under the caller's own claim; an expired claim
\* nobody took over still counts.
Delivered(n) ==
    LET i == notifier[n].id IN
    /\ notifier[n].phase = "answered"
    /\ claimedBy[i] = n /\ entry[i] = "queued"
    /\ entry' = [entry EXCEPT ![i] = "delivered"]
    /\ claimedBy' = ClearClaim(i)
    /\ expired' = expired \ {i}
    /\ notifier' = [notifier EXCEPT ![n] = IdleNotifier]
    /\ UNCHANGED <<waiting, attempts, serverVars>>

\* "claim was lost before acknowledgement", or the UPDATE failed
DeliveredFails(n) ==
    /\ notifier[n].phase = "answered"
    /\ notifier' = [notifier EXCEPT ![n].phase = "failed"]
    /\ UNCHANGED <<rowVars, serverVars>>

\* Retry: back off and release, again only under the caller's own claim.
Retry(n) ==
    LET i == notifier[n].id
        mine == claimedBy[i] = n /\ entry[i] = "queued" IN
    /\ notifier[n].phase = "failed"
    /\ waiting' = IF mine THEN waiting \cup {i} ELSE waiting
    /\ claimedBy' = IF mine THEN ClearClaim(i) ELSE claimedBy
    /\ expired' = IF mine THEN expired \ {i} ELSE expired
    /\ notifier' = [notifier EXCEPT ![n] = IdleNotifier]
    /\ UNCHANGED <<entry, attempts, serverVars>>

\* Shutdown, crash, undecodable labels, or a failing Retry: the claim stays.
Abandon(n) ==
    /\ notifier[n].phase # "idle"
    /\ notifier' = [notifier EXCEPT ![n] = IdleNotifier]
    /\ UNCHANGED <<rowVars, serverVars>>

\* claimed_until < clock_timestamp()
Expire(i) ==
    /\ claimedBy[i] # Nobody /\ i \notin expired
    /\ claimedBy[i] \in Slow \/ notifier[claimedBy[i]].id # i
    /\ expired' = expired \cup {i}
    /\ UNCHANGED <<entry, claimedBy, waiting, attempts, notifier, serverVars>>

\* available_at <= clock_timestamp()
RetryDue(i) ==
    /\ i \in waiting
    /\ waiting' = waiting \ {i}
    /\ UNCHANGED <<entry, claimedBy, expired, attempts, notifier, serverVars>>

\* Seeded defect: retention does not look at delivered_at IS NOT NULL.
PrunableAny == {i \in Entries : entry[i] \in {"queued", "delivered"}}

Prunable == {i \in Entries : entry[i] = "delivered"}

\* The outbox statement of Cleanup.
Prune ==
    \E old \in SUBSET Prunable \ {{}} :
      /\ entry' = [i \in Entries |-> IF i \in old THEN "pruned" ELSE entry[i]]
      /\ UNCHANGED <<claimedBy, expired, waiting, attempts, notifier, serverVars>>

-----------------------------------------------------------------------------
OutboxInit ==
    /\ entry = [i \in Entries |-> "absent"]
    /\ claimedBy = [i \in Entries |-> Nobody]
    /\ expired = {} /\ waiting = {}
    /\ attempts = [i \in Entries |-> 0]
    /\ notifier = [n \in Notifiers |-> IdleNotifier]
    /\ inflight = {} /\ seen = {}
    /\ shown = [r \in Resources |-> 0]

OutboxNext ==
    \/ \E i \in Entries : Queue(i) \/ Expire(i) \/ RetryDue(i)
    \/ \E n \in Notifiers :
         \/ \E i \in Entries : Claim(n, i)
         \/ Send(n) \/ ProcessAnswered(n) \/ Timeout(n) \/ Delivered(n) \/ DeliveredFails(n)
         \/ Retry(n) \/ Abandon(n)
    \/ \E i \in Entries, a \in 1..MaxAttempts : ProcessUnanswered(i, a) \/ Lose(i, a)
    \/ Prune

OutboxSpec == OutboxInit /\ [][OutboxNext]_outboxVars

\* The loop of Run never ends, clocks advance, and the network, the server and
\* the database do not fail every time a notifier that is not slow tries an entry (a
\* slow one may stop for good, wherever it is).  A lower candidate does not starve a
\* higher one: it is delivered, or it backs off for longer than a turn of the loop.
OutboxFairness ==
    /\ \A n \in Notifiers \ Slow :
         /\ \A i \in Entries : SF_outboxVars(Claim(n, i))
         /\ SF_outboxVars(Send(n)) /\ SF_outboxVars(ProcessAnswered(n)) /\ SF_outboxVars(Delivered(n))
         /\ WF_outboxVars(Timeout(n)) /\ WF_outboxVars(DeliveredFails(n)) /\ WF_outboxVars(Retry(n))
    /\ \A i \in Entries : WF_outboxVars(Expire(i)) /\ WF_outboxVars(RetryDue(i))

-----------------------------------------------------------------------------
Processed == {u[1] : u \in seen}

\* The server processes the entries of one resource for the first time in the
\* order they were queued, without gaps, whatever is claimed twice, retried,
\* abandoned or delayed on the way.
ProcessedInOrder == \A i \in Processed : Earlier(i) \subseteq Processed

\* Nothing leaves the outbox, or is marked delivered, before the server has it.
DeliveredWasProcessed ==
    \A i \in Entries : entry[i] \in {"delivered", "pruned"} => i \in Processed

\* The incident of a resource shows the latest entry processed: a late copy of an
\* earlier request never reopens or rolls back an incident.
ShowsLatest ==
    \A i \in Processed : shown[ResourceOf[i]] >= i

\* What remains of the outbox once claims, attempts and requests are forgotten.
IncidentLog == INSTANCE Incidents WITH
    queued  <- {i \in Entries : entry[i] # "absent"},
    settled <- {i \in Entries : entry[i] \in {"delivered", "pruned"}}

\* Claims that expire under their holder, repeated and late requests, retries and
\* retention together amount to incidents that go through the queued entries one by
\* one, in order and each once, and to rows settled only behind them.
ImplementsIncidents == IncidentLog!IncidentsSpec

\* Every queued entry is delivered in the end, provided one notifier is not slow.
EventuallyDelivered ==
    \A i \in Entries : entry[i] = "queued" ~> entry[i] \in {"delivered", "pruned"}
=============================================================================
