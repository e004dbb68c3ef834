----------------------------- MODULE OutboxProofs -----------------------------
(***************************************************************************)
(* What module Outbox promises for any number of entries, resources and    *)
(* notifiers, any of which may be slow: the server meets the entries of a  *)
(* resource in order, has whatever is marked delivered, and is never taken *)
(* back to an earlier state.                                               *)
(***************************************************************************)
EXTENDS Outbox, TLAPS

Phases == {"idle", "claimed", "sending", "answered", "failed"}

\* The values of the variables.  An event UUID names its entry and no attempt.
OutboxTypeOK ==
    /\ entry \in [Entries -> {"absent", "queued", "delivered", "pruned"}]
    /\ claimedBy \in [Entries -> Notifiers \cup {Nobody}]
    /\ attempts \in [Entries -> Nat]
    /\ notifier \in [Notifiers -> [phase: Phases, id: Entries \cup {Nobody}, attempt: Nat]]
    /\ \A n \in Notifiers : notifier[n].phase # "idle" => notifier[n].id \in Entries
    /\ inflight \in SUBSET (Entries \X Nat)
    /\ seen \in SUBSET (Entries \X {0})
    /\ shown \in [Resources -> Nat]

\* Rows of a resource appear in order.
QueuedInOrder ==
    \A i \in Entries : entry[i] # "absent" => \A j \in Earlier(i) : entry[j] # "absent"

\* Whoever works on an entry, and every copy of its request that is still on the way,
\* came after the server had all earlier entries of the resource.
WorkIsDue ==
    /\ \A n \in Notifiers : notifier[n].phase # "idle" => Earlier(notifier[n].id) \subseteq Processed
    /\ \A u \in inflight : Earlier(u[1]) \subseteq Processed

\* An answer is the server's.
AnsweredWasProcessed ==
    \A n \in Notifiers : notifier[n].phase = "answered" => notifier[n].id \in Processed

OutboxInv ==
    /\ OutboxTypeOK
    /\ QueuedInOrder
    /\ WorkIsDue
    /\ AnsweredWasProcessed
    /\ ProcessedInOrder
    /\ DeliveredWasProcessed
    /\ ShowsLatest

-----------------------------------------------------------------------------
\* An entry counts as processed when its event UUID was seen.
LEMMA ProcessedBySeen ==
    ASSUME OutboxTypeOK
    PROVE  /\ Processed \subseteq Entries
           /\ \A i \in Entries : i \in Processed <=> <<i, 0>> \in seen
BY DEF OutboxTypeOK, Processed

\* Initially nothing is queued, sent or processed.
LEMMA OutboxInitInv == OutboxInit => OutboxInv
<1> SUFFICES ASSUME OutboxInit PROVE OutboxInv
  OBVIOUS
<1>1. OutboxTypeOK
  BY OutboxAssumption DEF OutboxInit, OutboxTypeOK, IdleNotifier, Phases
<1>2. Processed = {}
  BY DEF OutboxInit, Processed
<1> QED
  BY <1>1, <1>2 DEF OutboxInit, OutboxInv, QueuedInOrder, WorkIsDue, AnsweredWasProcessed,
     ProcessedInOrder, DeliveredWasProcessed, ShowsLatest, IdleNotifier

\* A row is queued.
LEMMA QueueInv ==
    ASSUME OutboxInv, NEW i \in Entries, Queue(i)
    PROVE  OutboxInv'
<1> USE DEF OutboxInv, Queue, serverVars
<1>1. OutboxTypeOK' /\ Processed' = Processed
  BY DEF OutboxTypeOK, Processed
<1>2. QueuedInOrder'
  BY DEF QueuedInOrder, OutboxTypeOK, Earlier
<1>3. DeliveredWasProcessed'
  BY <1>1 DEF DeliveredWasProcessed, OutboxTypeOK
<1>4. WorkIsDue' /\ AnsweredWasProcessed' /\ ProcessedInOrder' /\ ShowsLatest'
  BY <1>1 DEF WorkIsDue, AnsweredWasProcessed, ProcessedInOrder, ShowsLatest, Earlier
<1> QED
  BY <1>1, <1>2, <1>3, <1>4

\* A claim is taken: no earlier row of the resource is missing or undelivered, so the
\* server has them all.
LEMMA ClaimInv ==
    ASSUME OutboxInv, NEW n \in Notifiers, NEW i \in Entries, Claim(n, i)
    PROVE  OutboxInv'
<1> USE DEF OutboxInv
<1>1. Earlier(i) \subseteq Processed
  BY DEF Claim, Claimable, Undelivered, QueuedInOrder, DeliveredWasProcessed, OutboxTypeOK, Earlier
<1>2. attempts' \in [Entries -> Nat]
  BY OutboxAssumption DEF Claim, OutboxTypeOK
<1>3. notifier' = [notifier EXCEPT ![n] = [phase |-> "claimed", id |-> i, attempt |-> attempts'[i]]]
  BY DEF Claim
<1>4. Processed' = Processed
  BY DEF Claim, serverVars, Processed
<1>5. /\ \A m \in Notifiers : notifier'[m] \in [phase: Phases, id: Entries \cup {Nobody}, attempt: Nat]
      /\ \A m \in Notifiers \ {n} : notifier'[m] = notifier[m]
      /\ notifier'[n].phase = "claimed" /\ notifier'[n].id = i
      /\ notifier' \in [Notifiers -> [phase: Phases, id: Entries \cup {Nobody}, attempt: Nat]]
  BY <1>2, <1>3 DEF OutboxTypeOK, Phases
<1>6. claimedBy' \in [Entries -> Notifiers \cup {Nobody}]
  BY DEF Claim, OutboxTypeOK
<1>7. OutboxTypeOK'
  BY <1>2, <1>5, <1>6 DEF Claim, serverVars, OutboxTypeOK
<1>8. WorkIsDue' /\ AnsweredWasProcessed'
  BY <1>1, <1>4, <1>5 DEF WorkIsDue, AnsweredWasProcessed, Claim, serverVars, Earlier
<1>9. QueuedInOrder' /\ ProcessedInOrder' /\ DeliveredWasProcessed' /\ ShowsLatest'
  BY <1>4 DEF QueuedInOrder, ProcessedInOrder, DeliveredWasProcessed, ShowsLatest, Claim,
     serverVars, Earlier
<1> QED
  BY <1>7, <1>8, <1>9

\* A notifier goes on with its entry or gives it up, at most repeating its request:
\* whatever it does to the claim, the rows and the server stay as they are.
LEMMA NotifierStepInv ==
    ASSUME OutboxInv, NEW n \in Notifiers,
           notifier[n].phase # "idle",
           UNCHANGED <<entry, attempts, seen, shown>>,
           claimedBy' \in [Entries -> Notifiers \cup {Nobody}],
           inflight' \subseteq inflight \cup {<<notifier[n].id, notifier[n].attempt>>},
           \/ notifier' = [notifier EXCEPT ![n].phase = "sending"]
           \/ notifier' = [notifier EXCEPT ![n].phase = "failed"]
           \/ notifier' = [notifier EXCEPT ![n] = IdleNotifier]
    PROVE  OutboxInv'
<1> USE DEF OutboxInv
<1>1. /\ notifier' \in [Notifiers -> [phase: Phases, id: Entries \cup {Nobody}, attempt: Nat]]
      /\ \A m \in Notifiers \ {n} : notifier'[m] = notifier[m]
      /\ notifier'[n].phase \in {"sending", "failed", "idle"}
      /\ notifier'[n].phase # "idle" => notifier'[n].id = notifier[n].id
  BY DEF OutboxTypeOK, Phases, IdleNotifier
<1>2. notifier[n].id \in Entries /\ notifier[n].attempt \in Nat
  BY DEF OutboxTypeOK
<1>3. Processed' = Processed
  BY DEF Processed
<1>4. OutboxTypeOK'
  BY <1>1, <1>2 DEF OutboxTypeOK
<1>5. WorkIsDue'
  BY <1>1, <1>2, <1>3 DEF WorkIsDue, Earlier
<1>6. AnsweredWasProcessed'
  BY <1>1, <1>3 DEF AnsweredWasProcessed
<1>7. QueuedInOrder' /\ ProcessedInOrder' /\ DeliveredWasProcessed' /\ ShowsLatest'
  BY <1>3 DEF QueuedInOrder, ProcessedInOrder, DeliveredWasProcessed, ShowsLatest, Earlier
<1> QED
  BY <1>4, <1>5, <1>6, <1>7

\* The five steps of a notifier that NotifierStepInv covers.
LEMMA NotifierStepsInv ==
    ASSUME OutboxInv, NEW n \in Notifiers,
           Send(n) \/ Timeout(n) \/ DeliveredFails(n) \/ Retry(n) \/ Abandon(n)
    PROVE  OutboxInv'
<1>1. notifier[n].phase # "idle"
  BY DEF Send, Timeout, DeliveredFails, Retry, Abandon
<1>2. UNCHANGED <<entry, attempts, seen, shown>>
  BY DEF Send, Timeout, DeliveredFails, Retry, Abandon, rowVars, serverVars
<1>3. claimedBy' \in [Entries -> Notifiers \cup {Nobody}]
  BY DEF Send, Timeout, DeliveredFails, Retry, Abandon, rowVars, ClearClaim, OutboxInv, OutboxTypeOK
<1>4. inflight' \subseteq inflight \cup {<<notifier[n].id, notifier[n].attempt>>}
  BY DEF Send, Timeout, DeliveredFails, Retry, Abandon, serverVars
<1>5. \/ notifier' = [notifier EXCEPT ![n].phase = "sending"]
      \/ notifier' = [notifier EXCEPT ![n].phase = "failed"]
      \/ notifier' = [notifier EXCEPT ![n] = IdleNotifier]
  BY DEF Send, Timeout, DeliveredFails, Retry, Abandon
<1> QED
  BY <1>1, <1>2, <1>3, <1>4, <1>5, NotifierStepInv

\* The server processes a copy of a request.  If it is the first one of its entry, no
\* later entry of the resource can have been processed before: that one would have
\* needed this entry to be due.
LEMMA ProcessInv ==
    ASSUME OutboxInv, NEW i, NEW a, Process(i, a),
           \/ UNCHANGED notifier
           \/ \E n \in Notifiers :
                /\ notifier[n].phase = "sending" /\ notifier[n].id = i
                /\ notifier' = [notifier EXCEPT ![n].phase = "answered"]
    PROVE  OutboxInv'
<1> USE DEF OutboxInv
<1>1. i \in Entries /\ Earlier(i) \subseteq Processed
  BY DEF Process, OutboxTypeOK, WorkIsDue
<1>2. Processed' = Processed \cup {i}
  BY DEF Process, Processed, EventUUID
<1>3. /\ notifier' \in [Notifiers -> [phase: Phases, id: Entries \cup {Nobody}, attempt: Nat]]
      /\ \A m \in Notifiers :
           /\ notifier'[m].id = notifier[m].id
           /\ notifier'[m].phase # "idle" => notifier[m].phase # "idle"
           /\ notifier'[m].phase = "answered" => notifier[m].phase = "answered" \/ notifier[m].id = i
  BY DEF OutboxTypeOK, Phases
<1>4. inflight' \subseteq inflight /\ seen' \in SUBSET (Entries \X {0})
  BY <1>1 DEF Process, OutboxTypeOK, EventUUID
<1>5. i \in Nat /\ ResourceOf[i] \in Resources
  BY <1>1, OutboxAssumption DEF Resources
<1>6. \/ i \in Processed /\ shown' = shown
      \/ i \notin Processed /\ shown' = [shown EXCEPT ![ResourceOf[i]] = i]
  BY <1>1, ProcessedBySeen DEF Process, EventUUID
<1>7. OutboxTypeOK'
  BY <1>3, <1>4, <1>5, <1>6 DEF OutboxTypeOK, Process, rowVars
<1>8. WorkIsDue' /\ AnsweredWasProcessed'
  BY <1>2, <1>3, <1>4 DEF WorkIsDue, AnsweredWasProcessed, Earlier
<1>9. QueuedInOrder' /\ ProcessedInOrder' /\ DeliveredWasProcessed'
  BY <1>1, <1>2 DEF QueuedInOrder, ProcessedInOrder, DeliveredWasProcessed, Earlier, Process, rowVars
<1>10. ShowsLatest'
  <2> SUFFICES ASSUME NEW j \in Processed' PROVE shown'[ResourceOf[j]] >= j
    BY DEF ShowsLatest
  <2>1. j \in Entries /\ j \in Nat /\ ResourceOf[j] \in Resources
    BY <1>1, <1>2, ProcessedBySeen, OutboxAssumption DEF Resources
  <2>2. CASE i \in Processed
    BY <1>2, <1>6, <2>2 DEF ShowsLatest
  <2>3. CASE i \notin Processed
    <3>1. ResourceOf[j] = ResourceOf[i] => j <= i
      BY <1>1, <1>2, <1>5, <2>1, <2>3 DEF ProcessedInOrder, Earlier
    <3>2. j # i => j \in Processed
      BY <1>2
    <3> QED
      BY <1>5, <1>6, <2>1, <2>3, <3>1, <3>2 DEF ShowsLatest, OutboxTypeOK
  <2> QED
    BY <2>2, <2>3
<1> QED
  BY <1>7, <1>8, <1>9, <1>10

\* A row is marked delivered after the server's answer, or a delivered row is pruned.
LEMMA SettleInv ==
    ASSUME OutboxInv, (\E n \in Notifiers : Delivered(n)) \/ Prune
    PROVE  OutboxInv'
<1> USE DEF OutboxInv
<1>1. Processed' = Processed /\ UNCHANGED <<attempts, inflight, seen, shown>>
  BY DEF Delivered, Prune, serverVars, Processed
<1> DEFINE Settled ==
      /\ entry' \in [Entries -> {"absent", "queued", "delivered", "pruned"}]
      /\ \A i \in Entries : entry'[i] = "absent" <=> entry[i] = "absent"
      /\ \A i \in Entries : entry'[i] \in {"delivered", "pruned"} =>
           entry[i] \in {"delivered", "pruned"} \/ i \in Processed
<1>2. Settled
  <2>1. CASE Prune
    <3>1. PICK old \in SUBSET Prunable :
            entry' = [i \in Entries |-> IF i \in old THEN "pruned" ELSE entry[i]]
      BY <2>1 DEF Prune
    <3> QED
      BY <3>1 DEF Prunable, OutboxTypeOK
  <2>2. ASSUME NEW n \in Notifiers, Delivered(n)
        PROVE  Settled
    BY <2>2 DEF Delivered, OutboxTypeOK, AnsweredWasProcessed
  <2> QED
    BY <2>1, <2>2
<1>3. /\ claimedBy' \in [Entries -> Notifiers \cup {Nobody}]
      /\ notifier' \in [Notifiers -> [phase: Phases, id: Entries \cup {Nobody}, attempt: Nat]]
      /\ \A m \in Notifiers : notifier'[m] = notifier[m] \/ notifier'[m].phase = "idle"
  BY DEF Prune, Delivered, ClearClaim, OutboxTypeOK, IdleNotifier, Phases
<1>4. OutboxTypeOK'
  BY <1>1, <1>2, <1>3 DEF OutboxTypeOK
<1>5. QueuedInOrder' /\ DeliveredWasProcessed'
  BY <1>1, <1>2 DEF QueuedInOrder, DeliveredWasProcessed, Earlier
<1>6. WorkIsDue' /\ AnsweredWasProcessed'
  BY <1>1, <1>3 DEF WorkIsDue, AnsweredWasProcessed, Earlier
<1>7. ProcessedInOrder' /\ ShowsLatest'
  BY <1>1 DEF ProcessedInOrder, ShowsLatest, Earlier
<1> QED
  BY <1>4, <1>5, <1>6, <1>7

\* A request is lost, a claim expires, a retry falls due, or nothing happens.
LEMMA QuietInv ==
    ASSUME OutboxInv,
           UNCHANGED <<entry, claimedBy, attempts, notifier, seen, shown>>,
           inflight' \subseteq inflight
    PROVE  OutboxInv'
<1>1. Processed' = Processed
  BY DEF Processed
<1> QED
  BY <1>1 DEF OutboxInv, OutboxTypeOK, QueuedInOrder, WorkIsDue, AnsweredWasProcessed,
     ProcessedInOrder, DeliveredWasProcessed, ShowsLatest, Earlier

\* Every step preserves the invariant.
LEMMA OutboxNextInv == OutboxInv /\ [OutboxNext]_outboxVars => OutboxInv'
<1> SUFFICES ASSUME OutboxInv, [OutboxNext]_outboxVars PROVE OutboxInv'
  OBVIOUS
<1>1. ASSUME NEW i \in Entries, Queue(i) PROVE OutboxInv'
  BY <1>1, QueueInv
<1>2. ASSUME NEW i \in Entries, Expire(i) \/ RetryDue(i) PROVE OutboxInv'
  BY <1>2, QuietInv DEF Expire, RetryDue, serverVars
<1>3. ASSUME NEW n \in Notifiers, NEW i \in Entries, Claim(n, i) PROVE OutboxInv'
  BY <1>3, ClaimInv
<1>4. ASSUME NEW n \in Notifiers, ProcessAnswered(n) PROVE OutboxInv'
  BY <1>4, ProcessInv DEF ProcessAnswered
<1>5. ASSUME NEW n \in Notifiers,
             Send(n) \/ Timeout(n) \/ DeliveredFails(n) \/ Retry(n) \/ Abandon(n)
      PROVE  OutboxInv'
  BY <1>5, NotifierStepsInv
<1>6. ASSUME NEW n \in Notifiers, Delivered(n) PROVE OutboxInv'
  BY <1>6, SettleInv
<1>7. ASSUME NEW i \in Entries, NEW a \in 1..MaxAttempts, ProcessUnanswered(i, a) PROVE OutboxInv'
  BY <1>7, ProcessInv DEF ProcessUnanswered
<1>8. ASSUME NEW i \in Entries, NEW a \in 1..MaxAttempts, Lose(i, a) PROVE OutboxInv'
  BY <1>8, QuietInv DEF Lose, rowVars
<1>9. CASE Prune
  BY <1>9, SettleInv
<1>10. CASE UNCHANGED outboxVars
  BY <1>10, QuietInv DEF outboxVars, rowVars, serverVars
<1> QED
  BY <1>1, <1>2, <1>3, <1>4, <1>5, <1>6, <1>7, <1>8, <1>9, <1>10 DEF OutboxNext

\* The inductive invariant of the outbox.
THEOREM OutboxInvariant == OutboxSpec => []OutboxInv
BY OutboxInitInv, OutboxNextInv, PTL DEF OutboxSpec

\* For any number of notifiers, slow or not, the server first processes the entries of
\* a resource in the order they were queued and without gaps, although claims are taken
\* over while their former holder still sends.
THEOREM ServerOrder == OutboxSpec => []ProcessedInOrder
<1>1. OutboxInv => ProcessedInOrder
  BY DEF OutboxInv
<1> QED
  BY <1>1, OutboxInvariant, PTL

\* No row is marked delivered, and none is removed by retention, that the server does
\* not have.
THEOREM NothingUnsentSettled == OutboxSpec => []DeliveredWasProcessed
<1>1. OutboxInv => DeliveredWasProcessed
  BY DEF OutboxInv
<1> QED
  BY <1>1, OutboxInvariant, PTL

\* A late copy of an earlier request never takes an incident back: the server shows
\* the latest entry of the resource that it processed.
THEOREM IncidentNeverRolledBack == OutboxSpec => []ShowsLatest
<1>1. OutboxInv => ShowsLatest
  BY DEF OutboxInv
<1> QED
  BY <1>1, OutboxInvariant, PTL

-----------------------------------------------------------------------------
\* Only rows that exist are worked on or asked for.
WorkIsQueued ==
    /\ \A n \in Notifiers : notifier[n].phase # "idle" => entry[notifier[n].id] # "absent"
    /\ \A u \in inflight : entry[u[1]] # "absent"

\* An incident is past the processed entries only.
ShowsProcessed == \A i \in Entries : i <= shown[ResourceOf[i]] => i \in Processed

IncidentInv == WorkIsQueued /\ ShowsProcessed

\* Rows never become absent again.
LEMMA RowsRemain ==
    ASSUME OutboxInv, [OutboxNext]_outboxVars
    PROVE  \A i \in Entries : entry[i] # "absent" => entry'[i] # "absent"
<1> USE DEF OutboxInv, OutboxTypeOK
<1>1. ASSUME NEW i \in Entries, Queue(i) PROVE \A j \in Entries : entry[j] # "absent" => entry'[j] # "absent"
  BY <1>1 DEF Queue
<1>2. ASSUME NEW n \in Notifiers, Delivered(n) PROVE \A j \in Entries : entry[j] # "absent" => entry'[j] # "absent"
  BY <1>2 DEF Delivered
<1>3. CASE Prune
  BY <1>3 DEF Prune
<1>4. CASE entry' = entry
  BY <1>4
<1>5. \/ \E i \in Entries : Queue(i)
      \/ \E n \in Notifiers : Delivered(n)
      \/ Prune
      \/ entry' = entry
  BY DEF OutboxNext, Expire, RetryDue, Claim, Send, ProcessAnswered, ProcessUnanswered, Process, Timeout,
     DeliveredFails, Retry, Abandon, Lose, rowVars, serverVars, outboxVars
<1> QED
  BY <1>1, <1>2, <1>3, <1>4, <1>5

\* A claim is taken on a queued row; every other step of a notifier goes on with the row
\* it has, and a request is one of such a row.
LEMMA WorkStaysQueued ==
    ASSUME OutboxInv, WorkIsQueued, [OutboxNext]_outboxVars
    PROVE  WorkIsQueued'
<1> DEFINE Known(i) == i \in Entries /\ entry[i] # "absent"
<1>1. /\ \A n \in Notifiers : notifier[n].phase # "idle" => Known(notifier[n].id)
      /\ \A u \in inflight : Known(u[1])
  BY DEF OutboxInv, OutboxTypeOK, WorkIsQueued
<1>2. \A n \in Notifiers : notifier'[n].phase # "idle" => Known(notifier'[n].id)
  <2>1. ASSUME NEW n \in Notifiers, NEW i \in Entries, Claim(n, i)
        PROVE  \A m \in Notifiers : notifier'[m].phase # "idle" => Known(notifier'[m].id)
    BY <1>1, <2>1 DEF Claim, Claimable, Undelivered, OutboxInv, OutboxTypeOK
  <2>2. ASSUME NEW n \in Notifiers, notifier[n].phase # "idle",
               \/ notifier' = [notifier EXCEPT ![n] = IdleNotifier]
               \/ \E l \in Phases : notifier' = [notifier EXCEPT ![n].phase = l]
        PROVE  \A m \in Notifiers : notifier'[m].phase # "idle" => Known(notifier'[m].id)
    BY <1>1, <2>2 DEF IdleNotifier, OutboxInv, OutboxTypeOK
  <2>3. ASSUME NEW n \in Notifiers,
               \/ Send(n) \/ ProcessAnswered(n) \/ Timeout(n) \/ Delivered(n)
               \/ DeliveredFails(n) \/ Retry(n) \/ Abandon(n)
        PROVE  /\ notifier[n].phase # "idle"
               /\ \/ notifier' = [notifier EXCEPT ![n] = IdleNotifier]
                  \/ \E l \in Phases : notifier' = [notifier EXCEPT ![n].phase = l]
    BY <2>3 DEF Send, ProcessAnswered, Timeout, Delivered, DeliveredFails, Retry, Abandon, Phases
  <2>4. CASE notifier' = notifier
    BY <1>1, <2>4
  <2>5. \/ \E n \in Notifiers, i \in Entries : Claim(n, i)
        \/ \E n \in Notifiers :
             \/ Send(n) \/ ProcessAnswered(n) \/ Timeout(n) \/ Delivered(n)
             \/ DeliveredFails(n) \/ Retry(n) \/ Abandon(n)
        \/ notifier' = notifier
    BY DEF OutboxNext, Queue, Expire, RetryDue, ProcessUnanswered, Lose, Prune, outboxVars
  <2> QED
    BY <2>1, <2>2, <2>3, <2>4, <2>5
<1>3. \A u \in inflight' : Known(u[1])
  <2>1. ASSUME NEW n \in Notifiers, Send(n) PROVE \A u \in inflight' : Known(u[1])
    BY <1>1, <2>1 DEF Send
  <2>2. CASE inflight' \subseteq inflight
    BY <1>1, <2>2
  <2>3. (\E n \in Notifiers : Send(n)) \/ inflight' \subseteq inflight
    BY DEF OutboxNext, Queue, Expire, RetryDue, Claim, ProcessAnswered, ProcessUnanswered, Process, Timeout,
       Delivered, DeliveredFails, Retry, Abandon, Lose, Prune, serverVars, outboxVars
  <2> QED
    BY <2>1, <2>2, <2>3
<1>4. \A i : Known(i) => entry'[i] # "absent"
  BY RowsRemain
<1> QED
  BY <1>2, <1>3, <1>4 DEF WorkIsQueued

\* The server processes the first copy of a request: the resource's incident is just past
\* the earlier entries, and moves to this one.
LEMMA FirstProcessing ==
    ASSUME OutboxInv, IncidentInv, NEW i, NEW a, Process(i, a), shown' # shown
    PROVE  /\ i \in Entries /\ entry[i] # "absent"
           /\ \A j \in Entries : ResourceOf[j] = ResourceOf[i] =>
                (j <= shown[ResourceOf[i]] <=> j < i)
           /\ shown' = [shown EXCEPT ![ResourceOf[i]] = i]
           /\ Processed' = Processed \cup {i}
<1> USE DEF OutboxInv
<1>1. i \in Entries /\ entry[i] # "absent" /\ Earlier(i) \subseteq Processed
  BY DEF Process, OutboxTypeOK, IncidentInv, WorkIsQueued, WorkIsDue
<1>2. i \notin Processed /\ shown' = [shown EXCEPT ![ResourceOf[i]] = i]
  BY <1>1, ProcessedBySeen DEF Process, EventUUID
<1>3. Processed' = Processed \cup {i}
  BY DEF Process, Processed, EventUUID
<1>4. ASSUME NEW j \in Entries, ResourceOf[j] = ResourceOf[i]
      PROVE  j <= shown[ResourceOf[i]] <=> j < i
  <2>1. i \in Nat /\ j \in Nat /\ shown[ResourceOf[i]] \in Nat
    BY <1>1, OutboxAssumption DEF OutboxTypeOK, Resources
  <2>2. j \in Processed <=> j <= shown[ResourceOf[i]]
    BY <1>4, <2>1 DEF IncidentInv, ShowsProcessed, ShowsLatest
  <2>3. j < i => j \in Processed
    BY <1>1, <1>4 DEF Earlier
  <2>4. i < j => i \in Earlier(j)
    BY <1>1, <1>4 DEF Earlier
  <2> QED
    BY <1>2, <2>1, <2>2, <2>3, <2>4 DEF ProcessedInOrder
<1> QED
  BY <1>1, <1>2, <1>3, <1>4

\* What the server shows changes when it processes something, and then only.
LEMMA ShownChanges ==
    ASSUME [OutboxNext]_outboxVars, shown' # shown
    PROVE  /\ \E i, a : Process(i, a)
           /\ UNCHANGED entry
BY DEF OutboxNext, Queue, Expire, RetryDue, Claim, Send, ProcessAnswered, ProcessUnanswered, Process, Timeout,
   Delivered, DeliveredFails, Retry, Abandon, Lose, Prune, rowVars, serverVars, outboxVars

\* Whatever was processed remains so.
LEMMA ProcessedRemain ==
    ASSUME [OutboxNext]_outboxVars
    PROVE  Processed \subseteq Processed'
<1>1. seen \subseteq seen'
  BY DEF OutboxNext, Queue, Expire, RetryDue, Claim, Send, ProcessAnswered, ProcessUnanswered, Process,
     Timeout, Delivered, DeliveredFails, Retry, Abandon, Lose, Prune, serverVars, outboxVars
<1> QED
  BY <1>1 DEF Processed

\* The additional invariant is inductive.
LEMMA IncidentStep ==
    ASSUME OutboxInv, IncidentInv, [OutboxNext]_outboxVars
    PROVE  IncidentInv'
<1>1. WorkIsQueued'
  BY WorkStaysQueued DEF IncidentInv
<1>2. CASE shown' = shown
  BY <1>1, <1>2, ProcessedRemain DEF IncidentInv, ShowsProcessed
<1>3. CASE shown' # shown
  <2>1. PICK i, a : Process(i, a)
    BY <1>3, ShownChanges
  <2>2. /\ i \in Entries
        /\ \A j \in Entries : ResourceOf[j] = ResourceOf[i] =>
             (j <= shown[ResourceOf[i]] <=> j < i)
        /\ shown' = [shown EXCEPT ![ResourceOf[i]] = i]
        /\ Processed' = Processed \cup {i}
    BY <1>3, <2>1, FirstProcessing
  <2>3. ASSUME NEW j \in Entries, j <= shown'[ResourceOf[j]] PROVE j \in Processed'
    <3>1. i \in Nat /\ j \in Nat /\ shown \in [Resources -> Nat] /\ ResourceOf[j] \in Resources
      BY <2>2, OutboxAssumption DEF OutboxInv, OutboxTypeOK, Resources
    <3>2. CASE ResourceOf[j] = ResourceOf[i]
      BY <2>2, <2>3, <3>1, <3>2 DEF IncidentInv, ShowsProcessed
    <3>3. CASE ResourceOf[j] # ResourceOf[i]
      BY <2>2, <2>3, <3>1, <3>3 DEF IncidentInv, ShowsProcessed
    <3> QED
      BY <3>2, <3>3
  <2> QED
    BY <1>1, <2>3 DEF IncidentInv, ShowsProcessed
<1> QED
  BY <1>2, <1>3

\* Every step of the outbox raises, shows or settles one entry, or none of it can be seen.
LEMMA StepImplements ==
    ASSUME OutboxInv, IncidentInv, [OutboxNext]_outboxVars
    PROVE  [IncidentLog!IncidentsNext]_(IncidentLog!incidentVars)
<1> DEFINE known == {i \in Entries : entry[i] # "absent"}
           over  == {i \in Entries : entry[i] \in {"delivered", "pruned"}}
<1>0. entry \in [Entries -> {"absent", "queued", "delivered", "pruned"}]
  BY DEF OutboxInv, OutboxTypeOK
<1>1. ASSUME NEW i \in Entries, Queue(i) PROVE IncidentLog!Raise(i)
  <2>1. /\ i \notin known /\ known' = known \cup {i}
        /\ \A j \in IncidentLog!Siblings(i) : j < i => j \in known
        /\ over' = over /\ shown' = shown
    BY <1>0, <1>1 DEF Queue, Earlier, serverVars, IncidentLog!Siblings
  <2> QED
    BY <2>1 DEF IncidentLog!Raise
<1>2. ASSUME NEW n \in Notifiers, Delivered(n) PROVE \E i \in Entries : IncidentLog!Settle(i)
  <2>1. PICK i \in Entries : i = notifier[n].id
    BY <1>2 DEF Delivered, OutboxInv, OutboxTypeOK
  <2>2. /\ i \in known \ over /\ known' = known /\ over' = over \cup {i} /\ shown' = shown
    BY <1>0, <1>2, <2>1 DEF Delivered, serverVars
  <2>3. i <= shown[ResourceOf[i]]
    <3>1. shown[ResourceOf[i]] >= i
      BY <1>2, <2>1 DEF Delivered, OutboxInv, AnsweredWasProcessed, ShowsLatest
    <3>2. i \in Nat /\ shown[ResourceOf[i]] \in Nat
      BY OutboxAssumption DEF OutboxInv, OutboxTypeOK, Resources
    <3> QED
      BY <3>1, <3>2
  <2> QED
    BY <2>2, <2>3 DEF IncidentLog!Settle
<1>3. CASE Prune
  <2>1. known' = known /\ over' = over /\ shown' = shown
    BY <1>0, <1>3 DEF Prune, Prunable, serverVars
  <2> QED
    BY <2>1 DEF IncidentLog!incidentVars
<1>4. CASE shown' # shown
  <2>1. PICK i, a : Process(i, a)
    BY <1>4, ShownChanges
  <2>2. /\ i \in Entries /\ entry[i] # "absent" /\ entry' = entry
        /\ \A j \in Entries : ResourceOf[j] = ResourceOf[i] =>
             (j <= shown[ResourceOf[i]] <=> j < i)
        /\ shown' = [shown EXCEPT ![ResourceOf[i]] = i]
    BY <1>4, <2>1, FirstProcessing, ShownChanges
  <2>3. IncidentLog!Show(i)
    BY <2>2 DEF IncidentLog!Show, IncidentLog!Siblings
  <2> QED
    BY <2>2, <2>3 DEF IncidentLog!IncidentsNext
<1>5. CASE entry' = entry /\ shown' = shown
  BY <1>5 DEF IncidentLog!incidentVars
<1>6. \/ \E i \in Entries : Queue(i)
      \/ \E n \in Notifiers : Delivered(n)
      \/ Prune
      \/ entry' = entry
  BY DEF OutboxNext, Expire, RetryDue, Claim, Send, ProcessAnswered, ProcessUnanswered, Process, Timeout,
     DeliveredFails, Retry, Abandon, Lose, rowVars, serverVars, outboxVars
<1> QED
  BY <1>1, <1>2, <1>3, <1>4, <1>5, <1>6 DEF IncidentLog!IncidentsNext

\* For any number of entries, resources and notifiers, the outbox with its expiring
\* claims, late and repeated requests, retries and retention implements incidents that
\* go through the queued entries of their resource one by one, in order and each once.
THEOREM OutboxImplementsIncidents == OutboxSpec => ImplementsIncidents
<1>1. OutboxInit => IncidentInv /\ IncidentLog!IncidentsInit
  <2> SUFFICES ASSUME OutboxInit PROVE IncidentInv /\ IncidentLog!IncidentsInit
    OBVIOUS
  <2>1. \A i \in Entries : i \in Nat \ {0} /\ shown[ResourceOf[i]] = 0
    BY OutboxAssumption DEF OutboxInit, Resources
  <2>2. IncidentInv
    BY <2>1 DEF OutboxInit, IncidentInv, WorkIsQueued, ShowsProcessed, IdleNotifier
  <2>3. IncidentLog!IncidentsInit
    BY DEF OutboxInit, Resources, IncidentLog!IncidentsInit
  <2> QED
    BY <2>2, <2>3
<1>2. OutboxInv /\ IncidentInv /\ [OutboxNext]_outboxVars => IncidentInv'
  BY IncidentStep
<1>3. OutboxInv /\ IncidentInv /\ [OutboxNext]_outboxVars
        => [IncidentLog!IncidentsNext]_(IncidentLog!incidentVars)
  BY StepImplements
<1> QED
  BY <1>1, <1>2, <1>3, OutboxInvariant, PTL DEF OutboxSpec, ImplementsIncidents, IncidentLog!IncidentsSpec
=============================================================================
