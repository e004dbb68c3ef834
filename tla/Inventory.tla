------------------------------ MODULE Inventory ------------------------------
(***************************************************************************)
(* What one applied ingest event does to the inventory: applyResource,     *)
(* resolveEvent, ResolveEvents and the inventory part of Cleanup           *)
(* (internal/v2/store).  The events reach this code in any order and any   *)
(* number of times: a former leader replays its spool late, a client       *)
(* retries, an inbox row expires and is sent again.  So every observation  *)
(* may be applied at every moment here; the order the inbox gives to the   *)
(* events of one shard is module Inbox.  Each action is one transaction    *)
(* (or, inside ApplyShard, one event of it): the head lock of the shard    *)
(* and the row lock on the resource serialise them.                        *)
(*                                                                         *)
(* Data: reason, labels, kind and name of a row are one "detail" (what a   *)
(* repeated problem notification depends on); times are small numbers.     *)
(***************************************************************************)
EXTENDS Naturals, FiniteSets

CONSTANTS
    Resources,    \* resource ids (cluster/UID)
    WarningKinds, \* the resources of kind Event in core or events.k8s.io
    Referent,     \* the resource a Kubernetes Event regards
    HealthKinds,  \* resources whose kind can prove that an Event has recovered
    Shards,
    Details,
    Projections,  \* the normalised objects collectors send, see ProjectionType
    MaxTime,      \* bound on observation times and on the clock
    Window,       \* eventProblemWindow
    Recovered,    \* the reason of a resolved Event
    NoRow, Closed

States == {"ok", "warning", "critical", "unknown"}
Times == 1..MaxTime

\* occurred is 0 when the Event carries no parseable occurrence time
ProjectionType ==
    [id : Resources, state : States, detail : Details, version : Nat,
     occurred : 0..MaxTime]

ASSUME InventoryAssumption ==
    /\ WarningKinds \subseteq Resources /\ HealthKinds \subseteq Resources
    /\ Referent \in [WarningKinds -> Resources]
    /\ Projections \subseteq ProjectionType
    /\ MaxTime \in Nat /\ Window \in Nat
    /\ Recovered \in Details

VARIABLES
    row,        \* table resource
    watermark,  \* ingest_shard_head.reconciled_at; 0 is NULL or no row
    now,        \* the wall clock
    incident,   \* what the last notification_outbox row of the resource says
    logged,     \* the resources the last transaction wrote into change_log
    cutoff,     \* history: latest reconciliation ever applied, per shard
    retired     \* history: Events whose row expired while they were a problem

vars == <<row, watermark, now, incident, logged, cutoff, retired>>

RowType ==
    [shard : Shards, state : States, detail : Details, version : Nat,
     occurred : 0..MaxTime, resolved : BOOLEAN, observed : Times,
     deleted : BOOLEAN]

IncidentType == [state : States \ {"ok"}, detail : Details]

\* NoRow and Closed stand for an absent table row.
ASSUME Sentinels == NoRow \notin RowType /\ Closed \notin IncidentType

Live(r) == row[r] # NoRow /\ ~row[r].deleted
Problem(r) == Live(r) /\ row[r].state # "ok"

-----------------------------------------------------------------------------
(***************************************************************************)
(* Recovery of warning Events                                              *)
(***************************************************************************)
\* Seeded defect: an Event without fresh news is never considered over.
InactiveNever(occurred) == FALSE

\* eventInactivity
Inactive(occurred) == occurred # 0 /\ occurred + Window <= now

\* eventRecovery: inactive, or the regarded resource was seen gone or healthy
\* after the occurrence
Recovers(e, occurred) ==
    LET p == row[Referent[e]] IN
    \/ Inactive(occurred)
    \/ /\ occurred # 0
       /\ p # NoRow
       /\ p.observed >= occurred
       /\ p.deleted \/ (p.state = "ok" /\ Referent[e] \in HealthKinds)

\* Seeded defect: the earlier resolution of the same version is forgotten.
AlreadyResolvedNever(p) == FALSE

\* "Replaying the same Kubernetes event must not reopen a resolved incident."
AlreadyResolved(p) ==
    /\ Live(p.id)
    /\ row[p.id].version = p.version /\ row[p.id].state = "ok" /\ row[p.id].resolved

\* resolveEvent: the state an upsert is stored with
Resolves(p) ==
    /\ p.id \in WarningKinds /\ p.state # "ok"
    /\ AlreadyResolved(p) \/ Recovers(p.id, p.occurred)

-----------------------------------------------------------------------------
(***************************************************************************)
(* applyResource                                                           *)
(***************************************************************************)
\* Seeded defect: only the watermark is consulted, not the row.
AcceptedByWatermark(s, p, t) == t >= watermark[s]

\* neither older than the shard's watermark nor than the stored observation
Accepted(s, p, t) ==
    /\ t >= watermark[s]
    /\ row[p.id] # NoRow => t >= row[p.id].observed

\* the row written for projection p observed at t through shard s
Stored(action, s, p, t) ==
    LET resolves == action # "delete" /\ Resolves(p) IN
    [shard |-> s, version |-> p.version, occurred |-> p.occurred, observed |-> t,
     state  |-> IF resolves THEN "ok" ELSE p.state,
     detail |-> IF resolves THEN Recovered ELSE p.detail,
     resolved |-> resolves, deleted |-> action = "delete"]

\* Seeded defect: a problem row that comes back after its tombstone is silent.
ShouldNotifyLiveOnly(action, r, new) ==
    IF action = "delete" THEN Problem(r)
    ELSE IF ~Live(r) THEN row[r] = NoRow /\ new.state # "ok"
    ELSE \/ row[r].state # new.state
         \/ new.state # "ok" /\ row[r].detail # new.detail

\* shouldNotify
ShouldNotify(action, r, new) ==
    IF action = "delete" THEN Problem(r)
    ELSE IF ~Live(r) THEN new.state # "ok"
    ELSE \/ row[r].state # new.state
         \/ new.state # "ok" /\ row[r].detail # new.detail

\* an outbox row as the notifier will send it (makeEvent sets Close)
Entry(action, new) ==
    IF action = "delete" \/ new.state = "ok" THEN Closed
    ELSE [state |-> new.state, detail |-> new.detail]

\* upsert and delete
Apply(action, s, p, t) ==
    LET new == Stored(action, s, p, t)
        notify == ShouldNotify(action, p.id, new) IN
    /\ Accepted(s, p, t)
    /\ row' = [row EXCEPT ![p.id] = new]
    /\ logged' = {p.id}
    /\ incident' = [incident EXCEPT ![p.id] = IF notify THEN Entry(action, new) ELSE @]
    /\ retired' = IF notify THEN retired \ {p.id} ELSE retired
    /\ UNCHANGED <<watermark, now, cutoff>>

\* a heartbeat, or an observation that is too old: nothing is written
Ignore ==
    /\ logged' = {}
    /\ UNCHANGED <<row, watermark, now, incident, cutoff, retired>>

\* Seeded defect: the marker tombstones rows observed at its own time too.
OutdatedInclusive(s, t) ==
    {r \in Resources : Live(r) /\ row[r].shard = s /\ row[r].observed <= t}

\* live rows of the shard that the snapshot did not observe again
Outdated(s, t) ==
    {r \in Resources : Live(r) /\ row[r].shard = s /\ row[r].observed < t}

\* Seeded defect: only removals that are notified reach the change log.
RemovalsLoggedIfProblem(removed) == {r \in removed : row[r].state # "ok"}

\* the change_log rows of a reconciliation
RemovalsLogged(removed) == removed

\* the reconcile marker of a snapshot started at t
Reconcile(s, t) ==
    LET removed == Outdated(s, t)
        closing == {r \in removed : row[r].state # "ok"} IN
    /\ t >= watermark[s]
    /\ watermark' = [watermark EXCEPT ![s] = t]
    /\ cutoff' = [cutoff EXCEPT ![s] = IF @ < t THEN t ELSE @]
    /\ row' = [r \in Resources |->
                 IF r \in removed THEN [row[r] EXCEPT !.deleted = TRUE, !.observed = t]
                 ELSE row[r]]
    /\ incident' = [r \in Resources |-> IF r \in closing THEN Closed ELSE incident[r]]
    /\ retired' = retired \ closing
    /\ logged' = RemovalsLogged(removed)
    /\ UNCHANGED now

-----------------------------------------------------------------------------
\* ResolveEvents, on the problem Events E whose rows it could lock (SKIP LOCKED)
ResolveEvents(E) ==
    LET done == {e \in E : Problem(e) /\ Recovers(e, row[e].occurred)} IN
    /\ done # {}
    /\ row' = [r \in Resources |->
                 IF r \in done THEN [row[r] EXCEPT !.state = "ok", !.detail = Recovered,
                                                   !.resolved = TRUE]
                 ELSE row[r]]
    /\ incident' = [r \in Resources |-> IF r \in done THEN Closed ELSE incident[r]]
    /\ retired' = retired \ done
    /\ logged' = done
    /\ UNCHANGED <<watermark, now, cutoff>>

\* Seeded defect: shard metadata expires although it holds a watermark.
KeptWatermarkNone(s) == 0

\* shard metadata is deleted only while reconciled_at IS NULL
KeptWatermark(s) == watermark[s]

\* The retention transaction: Event rows not observed since t, live or not, and
\* any set of tombstones (deleted_at is wall time, left open here).
Cleanup ==
    \E t \in 0..MaxTime, tombs \in SUBSET {r \in Resources : row[r] # NoRow /\ ~Live(r)} :
      LET old == {e \in WarningKinds : row[e] # NoRow /\ row[e].observed < t} IN
      /\ old \cup tombs # {}
      /\ row' = [r \in Resources |-> IF r \in old \cup tombs THEN NoRow ELSE row[r]]
      /\ watermark' = [s \in Shards |-> KeptWatermark(s)]
      /\ retired' = retired \cup {e \in old : Problem(e)}
      /\ logged' = {}
      /\ UNCHANGED <<now, incident, cutoff>>

Tick ==
    /\ now < MaxTime + Window
    /\ now' = now + 1
    /\ logged' = {}
    /\ UNCHANGED <<row, watermark, incident, cutoff, retired>>

-----------------------------------------------------------------------------
Init ==
    /\ row = [r \in Resources |-> NoRow]
    /\ watermark = [s \in Shards |-> 0]
    /\ now = 1
    /\ incident = [r \in Resources |-> Closed]
    /\ logged = {}
    /\ cutoff = [s \in Shards |-> 0]
    /\ retired = {}

Next ==
    \/ \E s \in Shards, p \in Projections, t \in Times :
         Apply("upsert", s, p, t) \/ Apply("delete", s, p, t)
    \/ \E s \in Shards, t \in Times : Reconcile(s, t)
    \/ Ignore
    \/ \E E \in SUBSET WarningKinds : ResolveEvents(E)
    \/ Cleanup
    \/ Tick

Spec == Init /\ [][Next]_vars

\* The worker's 30-second ticker calls ResolveEvents for ever, and a row is not
\* locked by another transaction every time.
Fairness ==
    /\ WF_vars(Tick)
    /\ \A e \in WarningKinds :
         WF_vars(\E E \in SUBSET WarningKinds : e \in E /\ ResolveEvents(E))

FairSpec == Spec /\ Fairness

-----------------------------------------------------------------------------
\* Every variable keeps its type.
TypeOK ==
    /\ row \in [Resources -> RowType \cup {NoRow}]
    /\ watermark \in [Shards -> 0..MaxTime]
    /\ now \in Nat
    /\ incident \in [Resources -> IncidentType \cup {Closed}]
    /\ logged \subseteq Resources
    /\ cutoff \in [Shards -> 0..MaxTime]
    /\ retired \subseteq Resources

\* "A retained timestamp per shard rejects observations older than a completed
\* reconciliation, even after resource tombstones expire": no live row of a shard
\* was observed before the latest reconciliation ever applied to it.
NothingLiveBeforeReconciliation ==
    \A r \in Resources : Live(r) => row[r].observed >= cutoff[row[r].shard]

\* The last outbox row of a resource says what the inventory says: an open
\* incident with the current state and detail for a live problem, a closed one
\* otherwise.  The one exception is an Event that retention removed while it was
\* a problem: no row of it is left to close the incident.
IncidentMatchesInventory ==
    \A r \in Resources :
      IF r \in retired THEN ~Problem(r)
      ELSE incident[r] = IF Problem(r)
                           THEN [state |-> row[r].state, detail |-> row[r].detail]
                           ELSE Closed

\* "Never let that older observation resurrect or roll back the resource": while
\* a row exists its observation time never goes back.
ObservationNeverRollsBack ==
    [][\A r \in Resources : row[r] # NoRow /\ row'[r] # NoRow =>
         row'[r].observed >= row[r].observed]_vars

\* A resolved Event becomes a problem again only through a new version of it.
ReplayNeverReopens ==
    [][\A e \in WarningKinds :
         /\ Live(e) /\ row[e].resolved
         /\ row'[e] # NoRow /\ ~row'[e].deleted
         /\ row'[e].version = row[e].version
         => row'[e].state = "ok"]_vars

\* A marker removes nothing that its own snapshot observed, and everything it
\* removes had a live row of its shard: a row that turns into a tombstone without
\* a delete of its own was observed before the new watermark.
TombstonesOnlyUnobserved ==
    [][\A r \in Resources :
         Live(r) /\ row'[r] # NoRow /\ row'[r].deleted /\ watermark' # watermark
         => row[r].observed < watermark'[row[r].shard]]_vars

\* Whatever a transaction changes in a row it also writes into the change log,
\* which is all that event-stream clients see.  Only retention removes silently.
ChangesAreLogged ==
    [][\A r \in Resources : row'[r] # row[r] /\ row'[r] # NoRow => r \in logged']_vars

\* A problem Event whose occurrence is known does not stay a problem for ever,
\* although no later observation of it may arrive.
ProblemsOfEventsEnd ==
    \A e \in WarningKinds :
      (Problem(e) /\ row[e].occurred # 0) ~> (~Problem(e) \/ row[e].occurred = 0)
=============================================================================
