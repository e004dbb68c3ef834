--------------------------- MODULE InventoryProofs ---------------------------
(***************************************************************************)
(* Proofs about Inventory, for any number of resources, shards, details    *)
(* and projections, and any length of the retention and problem windows.   *)
(*                                                                         *)
(* The inductive invariant adds one fact to the two properties: the stored *)
(* watermark of a shard is the latest reconciliation ever applied to it,   *)
(* because no retention step drops it.                                     *)
(***************************************************************************)
EXTENDS Inventory, TLAPS

\* reconciled_at is never lost and never moves back.
WatermarkIsCutoff == watermark = cutoff

Inv ==
    /\ TypeOK
    /\ WatermarkIsCutoff
    /\ NothingLiveBeforeReconciliation
    /\ IncidentMatchesInventory

\* Before anything is applied the invariant holds.
LEMMA InitInv == Init => Inv
  BY InventoryAssumption
  DEF Init, Inv, TypeOK, WatermarkIsCutoff, NothingLiveBeforeReconciliation,
      IncidentMatchesInventory, Live, Problem

\* The row an upsert or delete stores is well formed, and the entry it queues is
\* what the invariant asks of the incident of such a row.
LEMMA StoredType ==
  ASSUME NEW action, NEW s \in Shards, NEW p \in Projections, NEW t \in Times
  PROVE  /\ Stored(action, s, p, t) \in RowType
         /\ Stored(action, s, p, t).shard = s
         /\ Stored(action, s, p, t).observed = t
         /\ Stored(action, s, p, t).deleted = (action = "delete")
  BY InventoryAssumption DEF Stored, RowType, ProjectionType, Times, States

\* What one upsert or delete does to the invariant.
LEMMA ApplyInv ==
  ASSUME Inv, NEW action \in {"upsert", "delete"}, NEW s \in Shards,
         NEW p \in Projections, NEW t \in Times, Apply(action, s, p, t)
  PROVE  Inv'
  <1> DEFINE new == Stored(action, s, p, t)
             notify == ShouldNotify(action, p.id, new)
  <1> p.id \in Resources
    BY InventoryAssumption DEF ProjectionType
  <1>1. /\ new \in RowType /\ new.shard = s /\ new.observed = t
        /\ new.deleted = (action = "delete")
        /\ new # NoRow
    BY StoredType, Sentinels
  <1> HIDE DEF new
  <1>2. /\ row' = [row EXCEPT ![p.id] = new]
        /\ incident' = [incident EXCEPT ![p.id] = IF notify THEN Entry(action, new) ELSE @]
        /\ retired' = IF notify THEN retired \ {p.id} ELSE retired
        /\ logged' = {p.id} /\ UNCHANGED <<watermark, now, cutoff>>
        /\ Accepted(s, p, t)
    BY DEF Apply, new
  <1>3. TypeOK'
    <2>1. Entry(action, new) \in IncidentType \cup {Closed}
      BY <1>1 DEF Entry, IncidentType, RowType
    <2> QED BY <1>1, <1>2, <2>1 DEF Inv, TypeOK
  <1>4. WatermarkIsCutoff'
    BY <1>2 DEF Inv, WatermarkIsCutoff
  <1>5. NothingLiveBeforeReconciliation'
    BY <1>1, <1>2 DEF Inv, TypeOK, WatermarkIsCutoff, NothingLiveBeforeReconciliation,
                      Live, Accepted
  <1>6. IncidentMatchesInventory'
    <2> SUFFICES ASSUME NEW r \in Resources
                 PROVE  IF r \in retired' THEN ~Problem(r)'
                        ELSE incident'[r] = IF Problem(r)'
                               THEN [state |-> row'[r].state, detail |-> row'[r].detail]
                               ELSE Closed
      BY DEF IncidentMatchesInventory
    <2>1. CASE r # p.id
      BY <1>2, <2>1 DEF Inv, TypeOK, IncidentMatchesInventory, Problem, Live
    <2>2. CASE r = p.id
      <3>1. row'[r] = new /\ Problem(r)' = (action = "upsert" /\ new.state # "ok")
        BY <1>1, <1>2, <2>2 DEF Inv, TypeOK, Problem, Live
      <3>2. CASE notify
        BY <1>2, <2>2, <3>1, <3>2 DEF Entry, Inv, TypeOK
      <3>3. CASE ~notify
        BY <1>2, <2>2, <3>1, <3>3
        DEF ShouldNotify, Inv, TypeOK, IncidentMatchesInventory, Problem, Live
      <3> QED BY <3>2, <3>3
    <2> QED BY <2>1, <2>2
  <1> QED BY <1>3, <1>4, <1>5, <1>6 DEF Inv

\* A reconciliation marker tombstones the outdated rows, closes their incidents
\* and moves the watermark, which leaves no live row behind it.
LEMMA ReconcileInv ==
  ASSUME Inv, NEW s \in Shards, NEW t \in Times, Reconcile(s, t)
  PROVE  Inv'
  <1> DEFINE removed == Outdated(s, t)
             closing == {r \in removed : row[r].state # "ok"}
  <1>1. /\ removed \subseteq Resources
        /\ \A r \in removed : /\ row[r] \in RowType /\ ~row[r].deleted
                              /\ row[r].shard = s /\ row[r].observed < t
        /\ \A r \in Resources \ removed :
             Live(r) /\ row[r].shard = s => row[r].observed >= t
    BY DEF Outdated, Live, Inv, TypeOK, RowType, Times
  <1>2. /\ t >= watermark[s]
        /\ watermark' = [watermark EXCEPT ![s] = t]
        /\ cutoff' = [cutoff EXCEPT ![s] = IF @ < t THEN t ELSE @]
        /\ row' = [r \in Resources |->
                     IF r \in removed THEN [row[r] EXCEPT !.deleted = TRUE, !.observed = t]
                     ELSE row[r]]
        /\ incident' = [r \in Resources |-> IF r \in closing THEN Closed ELSE incident[r]]
        /\ retired' = retired \ closing
        /\ logged' = removed
        /\ now' = now
    BY DEF Reconcile, RemovalsLogged
  <1>3. closing = {r \in removed : row[r].state # "ok"}
    OBVIOUS
  <1> HIDE DEF removed, closing
  <1>4. \A r \in removed : /\ row'[r] \in RowType /\ row'[r].deleted
                           /\ row'[r] # NoRow
    BY <1>1, <1>2, Sentinels DEF RowType
  <1>5. t \in 0..MaxTime /\ t \in Nat
    BY InventoryAssumption DEF Times
  <1>6. TypeOK'
    <2>1. row' \in [Resources -> RowType \cup {NoRow}]
      BY <1>2, <1>4 DEF Inv, TypeOK
    <2>2. watermark' \in [Shards -> 0..MaxTime] /\ cutoff' \in [Shards -> 0..MaxTime]
      BY <1>2, <1>5 DEF Inv, TypeOK
    <2>3. /\ incident' \in [Resources -> IncidentType \cup {Closed}]
          /\ logged' \subseteq Resources /\ retired' \subseteq Resources /\ now' \in Nat
      BY <1>1, <1>2 DEF Inv, TypeOK
    <2> QED BY <2>1, <2>2, <2>3 DEF TypeOK
  <1>7. WatermarkIsCutoff'
    <2>1. watermark = cutoff /\ watermark \in [Shards -> Nat]
      BY InventoryAssumption DEF Inv, TypeOK, WatermarkIsCutoff
    <2>2. (IF cutoff[s] < t THEN t ELSE cutoff[s]) = t
      <3>1. t >= cutoff[s] /\ cutoff[s] \in Nat
        BY <1>2, <2>1
      <3> QED BY <1>5, <3>1
    <2> QED BY <1>2, <2>1, <2>2 DEF WatermarkIsCutoff
  <1>8. NothingLiveBeforeReconciliation'
    <2> SUFFICES ASSUME NEW r \in Resources, Live(r)'
                 PROVE  row'[r].observed >= cutoff'[row'[r].shard]
      BY DEF NothingLiveBeforeReconciliation
    <2>1. r \notin removed /\ row'[r] = row[r] /\ Live(r) /\ row[r] \in RowType
      BY <1>2, <1>4 DEF Live, Inv, TypeOK
    <2>2. row[r].shard \in Shards
      BY <2>1 DEF RowType
    <2>3. cutoff'[row[r].shard] = IF row[r].shard = s THEN t ELSE cutoff[row[r].shard]
      <3>1. cutoff' = [watermark EXCEPT ![s] = t]
        BY <1>2, <1>7 DEF WatermarkIsCutoff
      <3>2. watermark = cutoff /\ watermark \in [Shards -> 0..MaxTime]
        BY DEF Inv, TypeOK, WatermarkIsCutoff
      <3> QED BY <2>2, <3>1, <3>2
    <2> QED BY <1>1, <2>1, <2>2, <2>3 DEF Inv, NothingLiveBeforeReconciliation
  <1>9. IncidentMatchesInventory'
    <2> SUFFICES ASSUME NEW r \in Resources
                 PROVE  IF r \in retired' THEN ~Problem(r)'
                        ELSE incident'[r] = IF Problem(r)'
                               THEN [state |-> row'[r].state, detail |-> row'[r].detail]
                               ELSE Closed
      BY DEF IncidentMatchesInventory
    <2>1. CASE r \in removed
      <3>1. ~Problem(r)'
        BY <1>4, <2>1 DEF Problem, Live
      <3>2. r \notin closing => ~Problem(r)
        BY <1>3, <2>1 DEF Problem
      <3>3. r \in closing => r \notin retired' /\ incident'[r] = Closed
        BY <1>2
      <3>4. r \notin closing => (r \in retired' <=> r \in retired) /\ incident'[r] = incident[r]
        BY <1>2
      <3> QED BY <3>1, <3>2, <3>3, <3>4 DEF Inv, IncidentMatchesInventory
    <2>2. CASE r \notin removed
      <3>1. /\ r \notin closing /\ row'[r] = row[r] /\ incident'[r] = incident[r]
            /\ (r \in retired' <=> r \in retired)
        BY <1>2, <1>3, <2>2
      <3>2. Problem(r)' <=> Problem(r)
        BY <3>1 DEF Problem, Live
      <3> QED BY <3>1, <3>2 DEF Inv, IncidentMatchesInventory
    <2> QED BY <2>1, <2>2
  <1> QED BY <1>6, <1>7, <1>8, <1>9 DEF Inv

\* ResolveEvents turns problems into recovered rows and closes their incidents.
LEMMA ResolveEventsInv ==
  ASSUME Inv, NEW E \in SUBSET WarningKinds, ResolveEvents(E)
  PROVE  Inv'
  <1> DEFINE done == {e \in E : Problem(e) /\ Recovers(e, row[e].occurred)}
  <1>1. done \subseteq Resources /\ \A e \in done : Problem(e)
    BY InventoryAssumption
  <1>2. /\ row' = [r \in Resources |->
                     IF r \in done THEN [row[r] EXCEPT !.state = "ok", !.detail = Recovered,
                                                       !.resolved = TRUE]
                     ELSE row[r]]
        /\ incident' = [r \in Resources |-> IF r \in done THEN Closed ELSE incident[r]]
        /\ retired' = retired \ done
        /\ logged' = done
        /\ UNCHANGED <<watermark, now, cutoff>>
    BY DEF ResolveEvents
  <1> HIDE DEF done
  <1>3. TypeOK'
    BY <1>1, <1>2, InventoryAssumption
    DEF Inv, TypeOK, Problem, Live, RowType, States
  <1>4. WatermarkIsCutoff'
    BY <1>2 DEF Inv, WatermarkIsCutoff
  <1>5. NothingLiveBeforeReconciliation'
    BY <1>1, <1>2, Sentinels
    DEF Inv, TypeOK, NothingLiveBeforeReconciliation, Problem, Live, RowType
  <1>6. IncidentMatchesInventory'
    BY <1>1, <1>2, Sentinels
    DEF Inv, TypeOK, IncidentMatchesInventory, Problem, Live, RowType
  <1> QED BY <1>3, <1>4, <1>5, <1>6 DEF Inv

\* Retention keeps the watermarks and forgets only rows.
LEMMA CleanupInv ==
  ASSUME Inv, Cleanup
  PROVE  Inv'
  <1> PICK t \in 0..MaxTime,
           tombs \in SUBSET {r \in Resources : row[r] # NoRow /\ ~Live(r)} :
        LET old == {e \in WarningKinds : row[e] # NoRow /\ row[e].observed < t} IN
          /\ row' = [r \in Resources |-> IF r \in old \cup tombs THEN NoRow ELSE row[r]]
          /\ watermark' = [s \in Shards |-> KeptWatermark(s)]
          /\ retired' = retired \cup {e \in old : Problem(e)}
          /\ logged' = {}
          /\ UNCHANGED <<now, incident, cutoff>>
    BY DEF Cleanup
  <1>1. TypeOK' /\ WatermarkIsCutoff'
    BY InventoryAssumption DEF Inv, TypeOK, WatermarkIsCutoff, KeptWatermark
  <1>2. NothingLiveBeforeReconciliation'
    BY DEF Inv, TypeOK, NothingLiveBeforeReconciliation, Live
  <1>3. IncidentMatchesInventory'
    BY InventoryAssumption DEF Inv, TypeOK, IncidentMatchesInventory, Problem, Live
  <1> QED BY <1>1, <1>2, <1>3 DEF Inv

\* Every step of the inventory preserves the invariant.
LEMMA NextInv == Inv /\ [Next]_vars => Inv'
  <1> SUFFICES ASSUME Inv, [Next]_vars PROVE Inv'
    OBVIOUS
  <1>1. ASSUME NEW s \in Shards, NEW p \in Projections, NEW t \in Times,
               Apply("upsert", s, p, t) \/ Apply("delete", s, p, t)
        PROVE  Inv'
    BY <1>1, ApplyInv
  <1>2. ASSUME NEW s \in Shards, NEW t \in Times, Reconcile(s, t) PROVE Inv'
    BY <1>2, ReconcileInv
  <1>3. ASSUME NEW E \in SUBSET WarningKinds, ResolveEvents(E) PROVE Inv'
    BY <1>3, ResolveEventsInv
  <1>4. CASE Cleanup
    BY <1>4, CleanupInv
  <1>5. CASE Ignore \/ Tick \/ UNCHANGED vars
    BY <1>5
    DEF Ignore, Tick, vars, Inv, TypeOK, WatermarkIsCutoff,
        NothingLiveBeforeReconciliation, IncidentMatchesInventory, Problem, Live
  <1> QED BY <1>1, <1>2, <1>3, <1>4, <1>5 DEF Next

\* The inductive invariant holds throughout.
LEMMA Invariance == Spec => []Inv
  BY InitInv, NextInv, PTL DEF Spec

\* Every variable of the inventory model keeps its type.
THEOREM InventoryTypeOK == Spec => []TypeOK
  <1>1. Inv => TypeOK
    BY DEF Inv
  <1> QED BY <1>1, Invariance, PTL

\* The retained timestamp of a shard (reconciled_at) rejects every observation
\* older than a completed reconciliation, also after the tombstones expired.
THEOREM NoResurrection == Spec => []NothingLiveBeforeReconciliation
  <1>1. Inv => NothingLiveBeforeReconciliation
    BY DEF Inv
  <1> QED BY <1>1, Invariance, PTL

\* shouldNotify, the reconcile statement and ResolveEvents together queue exactly
\* the outbox rows that keep the last one of a resource equal to its inventory row.
THEOREM IncidentsAreConsistent == Spec => []IncidentMatchesInventory
  <1>1. Inv => IncidentMatchesInventory
    BY DEF Inv
  <1> QED BY <1>1, Invariance, PTL

\* The stored observation time never goes back while the row exists.
THEOREM NoRollBack == Spec => ObservationNeverRollsBack
  <1> DEFINE Step == \A r \in Resources : row[r] # NoRow /\ row'[r] # NoRow =>
                       row'[r].observed >= row[r].observed
  <1>1. Inv /\ [Next]_vars => [Step]_vars
    <2> SUFFICES ASSUME Inv, Next, NEW r \in Resources, row[r] # NoRow, row'[r] # NoRow
                 PROVE  row'[r].observed >= row[r].observed
      OBVIOUS
    <2> row[r] \in RowType /\ row[r].observed \in Nat
      BY DEF Inv, TypeOK, RowType, Times
    <2>1. ASSUME NEW action, NEW s \in Shards, NEW p \in Projections, NEW t \in Times,
                 Apply(action, s, p, t)
          PROVE  row'[r].observed >= row[r].observed
      BY <2>1, StoredType, InventoryAssumption
      DEF Inv, TypeOK, Apply, Accepted, ProjectionType, Times
    <2>2. ASSUME NEW s \in Shards, NEW t \in Times, Reconcile(s, t)
          PROVE  row'[r].observed >= row[r].observed
      <3>1. row'[r] = IF r \in Outdated(s, t)
                        THEN [row[r] EXCEPT !.deleted = TRUE, !.observed = t] ELSE row[r]
        BY <2>2 DEF Reconcile
      <3>2. r \in Outdated(s, t) => row'[r].observed = t /\ row[r].observed < t
        BY <3>1 DEF Outdated, RowType
      <3>3. t \in Nat
        BY InventoryAssumption DEF Times
      <3> QED BY <3>1, <3>2, <3>3
    <2>3. ASSUME NEW E \in SUBSET WarningKinds, ResolveEvents(E)
          PROVE  row'[r].observed >= row[r].observed
      <3>1. \/ row'[r] = [row[r] EXCEPT !.state = "ok", !.detail = Recovered,
                                        !.resolved = TRUE]
            \/ row'[r] = row[r]
        BY <2>3 DEF ResolveEvents
      <3>2. row'[r].observed = row[r].observed
        BY <3>1 DEF RowType
      <3> QED BY <3>2
    <2>4. CASE Cleanup
      BY <2>4 DEF Cleanup
    <2>5. CASE Ignore \/ Tick
      BY <2>5 DEF Ignore, Tick
    <2> QED BY <2>1, <2>2, <2>3, <2>4, <2>5 DEF Next
  <1> QED BY <1>1, Invariance, PTL DEF Spec, ObservationNeverRollsBack

-----------------------------------------------------------------------------
\* The three ways in which a step writes a row that stays: an observation of it is
\* applied, a marker tombstones it, or its Event has recovered.
AppliedRow(r) ==
    \E action \in {"upsert", "delete"}, s \in Shards, p \in Projections, t \in Times :
      p.id = r /\ row'[r] = Stored(action, s, p, t) /\ logged' = {r} /\ watermark' = watermark

RemovedRow(r) ==
    \E s \in Shards, t \in Times :
      /\ r \in Outdated(s, t) /\ r \in logged'
      /\ row'[r] = [row[r] EXCEPT !.deleted = TRUE, !.observed = t]
      /\ watermark' = [watermark EXCEPT ![s] = t]

RecoveredRow(r) ==
    /\ r \in logged' /\ Problem(r) /\ watermark' = watermark
    /\ row'[r] = [row[r] EXCEPT !.state = "ok", !.detail = Recovered, !.resolved = TRUE]

\* Every step leaves a row alone, removes it, or writes it in one of these ways.
LEMMA RowWrites ==
  ASSUME Inv, [Next]_vars, NEW r \in Resources, row'[r] # NoRow
  PROVE  row'[r] = row[r] \/ AppliedRow(r) \/ RemovedRow(r) \/ RecoveredRow(r)
  <1>1. ASSUME NEW action \in {"upsert", "delete"}, NEW s \in Shards, NEW p \in Projections,
               NEW t \in Times, Apply(action, s, p, t)
        PROVE  row'[r] = row[r] \/ AppliedRow(r)
    <2>1. /\ row' = [row EXCEPT ![p.id] = Stored(action, s, p, t)]
          /\ logged' = {p.id} /\ watermark' = watermark
      BY <1>1 DEF Apply
    <2>2. CASE p.id = r
      <3>1. row'[r] = Stored(action, s, p, t)
        BY <2>1, <2>2 DEF Inv, TypeOK
      <3> QED BY <2>1, <2>2, <3>1 DEF AppliedRow
    <2>3. CASE p.id # r
      BY <2>1, <2>3 DEF Inv, TypeOK
    <2> QED BY <2>2, <2>3
  <1>2. ASSUME NEW s \in Shards, NEW t \in Times, Reconcile(s, t)
        PROVE  row'[r] = row[r] \/ RemovedRow(r)
    BY <1>2 DEF Reconcile, RemovalsLogged, RemovedRow
  <1>3. ASSUME NEW E \in SUBSET WarningKinds, ResolveEvents(E)
        PROVE  row'[r] = row[r] \/ RecoveredRow(r)
    BY <1>3 DEF ResolveEvents, RecoveredRow
  <1>4. CASE Cleanup
    BY <1>4 DEF Cleanup
  <1>5. CASE Ignore \/ Tick \/ UNCHANGED vars
    BY <1>5 DEF Ignore, Tick, vars
  <1> QED BY <1>1, <1>2, <1>3, <1>4, <1>5 DEF Next

\* Whatever a transaction changes in a row, it writes into change_log as well: the
\* event stream misses no change but the removals of retention.
THEOREM EveryChangeIsLogged == Spec => ChangesAreLogged
  <1> DEFINE Step == \A r \in Resources : row'[r] # row[r] /\ row'[r] # NoRow => r \in logged'
  <1>1. Inv /\ [Next]_vars => [Step]_vars
    BY RowWrites DEF AppliedRow, RemovedRow, RecoveredRow
  <1> QED BY <1>1, Invariance, PTL DEF Spec, ChangesAreLogged

\* A reconcile marker removes nothing that its own snapshot, or a later one, observed.
THEOREM MarkersSpareTheObserved == Spec => TombstonesOnlyUnobserved
  <1> DEFINE Step == \A r \in Resources :
                       Live(r) /\ row'[r] # NoRow /\ row'[r].deleted /\ watermark' # watermark
                       => row[r].observed < watermark'[row[r].shard]
  <1>1. Inv /\ [Next]_vars => [Step]_vars
    <2> SUFFICES ASSUME Inv, [Next]_vars, NEW r \in Resources, Live(r), row'[r] # NoRow,
                        row'[r].deleted, watermark' # watermark
                 PROVE  row[r].observed < watermark'[row[r].shard]
      OBVIOUS
    <2>1. row'[r] # row[r]
      BY DEF Live
    <2>2. RemovedRow(r)
      BY <2>1, RowWrites DEF AppliedRow, RecoveredRow
    <2>3. PICK s \in Shards, t \in Times :
            r \in Outdated(s, t) /\ watermark' = [watermark EXCEPT ![s] = t]
      BY <2>2 DEF RemovedRow
    <2> QED BY <2>3 DEF Outdated, Inv, TypeOK
  <1> QED BY <1>1, Invariance, PTL DEF Spec, TombstonesOnlyUnobserved

\* What a stored row says of the observation.
LEMMA StoredFields ==
  ASSUME NEW action, NEW s, NEW p, NEW t, NEW new, new = Stored(action, s, p, t)
  PROVE  /\ new.version = p.version
         /\ new.deleted <=> action = "delete"
         /\ new.resolved <=> action # "delete" /\ Resolves(p)
         /\ new.state = IF action # "delete" /\ Resolves(p) THEN "ok" ELSE p.state
  BY DEF Stored

\* A row that carries the resolution is not a problem.
ResolvedIsOk == \A r \in Resources : row[r] # NoRow /\ row[r].resolved => row[r].state = "ok"

\* ... and stays so, because every write sets the resolution and the state together.
LEMMA ResolvedRowsAreOk == Spec => []ResolvedIsOk
  <1>1. Init => ResolvedIsOk
    BY DEF Init, ResolvedIsOk
  <1>2. Inv /\ ResolvedIsOk /\ [Next]_vars => ResolvedIsOk'
    <2> SUFFICES ASSUME Inv, ResolvedIsOk, [Next]_vars, NEW r \in Resources, row'[r] # NoRow,
                        row'[r].resolved
                 PROVE  row'[r].state = "ok"
      BY DEF ResolvedIsOk
    <2>1. CASE row'[r] = row[r]
      BY <2>1 DEF ResolvedIsOk
    <2>2. CASE AppliedRow(r)
      BY <2>2, StoredFields DEF AppliedRow
    <2>3. CASE RemovedRow(r)
      <3>1. row[r] \in RowType
        BY <2>3 DEF RemovedRow, Outdated, Live, Inv, TypeOK
      <3>2. row'[r].resolved = row[r].resolved /\ row'[r].state = row[r].state
        BY <2>3, <3>1 DEF RemovedRow, RowType
      <3> QED BY <2>3, <3>2 DEF ResolvedIsOk, RemovedRow, Outdated, Live
    <2>4. CASE RecoveredRow(r)
      <3>1. row[r] \in RowType
        BY <2>4 DEF RecoveredRow, Problem, Live, Inv, TypeOK
      <3> QED BY <2>4, <3>1 DEF RecoveredRow, RowType
    <2> QED BY <2>1, <2>2, <2>3, <2>4, RowWrites
  <1> QED BY <1>1, <1>2, Invariance, PTL DEF Spec

\* A replay of the version that was resolved does not reopen the incident, whatever
\* reason the resolution had and however long ago it was.
THEOREM ResolvedStaysResolved == Spec => ReplayNeverReopens
  <1> DEFINE Step == \A e \in WarningKinds :
                       /\ Live(e) /\ row[e].resolved
                       /\ row'[e] # NoRow /\ ~row'[e].deleted
                       /\ row'[e].version = row[e].version
                       => row'[e].state = "ok"
  <1>1. Inv /\ ResolvedIsOk /\ [Next]_vars => [Step]_vars
    <2> SUFFICES ASSUME Inv, ResolvedIsOk, [Next]_vars, NEW e \in WarningKinds,
                        Live(e), row[e].resolved, row'[e] # NoRow, ~row'[e].deleted,
                        row'[e].version = row[e].version
                 PROVE  row'[e].state = "ok"
      OBVIOUS
    <2>1. e \in Resources /\ row[e] \in RowType /\ row[e].state = "ok"
      BY InventoryAssumption DEF Live, Inv, TypeOK, ResolvedIsOk
    <2>2. CASE row'[e] = row[e]
      BY <2>1, <2>2
    <2>3. CASE AppliedRow(e)
      <3>1. PICK action \in {"upsert", "delete"}, s \in Shards, p \in Projections, t \in Times :
              p.id = e /\ row'[e] = Stored(action, s, p, t)
        BY <2>3 DEF AppliedRow
      <3>2. row'[e].version = p.version /\ action # "delete"
        BY <3>1, StoredFields
      <3>3. AlreadyResolved(p)
        BY <2>1, <3>1, <3>2 DEF AlreadyResolved
      <3>4. p.state = "ok" \/ Resolves(p)
        BY <3>1, <3>3 DEF Resolves
      <3> QED BY <3>1, <3>2, <3>4, StoredFields
    <2>4. CASE RemovedRow(e)
      BY <2>1, <2>4 DEF RemovedRow, RowType
    <2>5. CASE RecoveredRow(e)
      BY <2>1, <2>5 DEF RecoveredRow, RowType
    <2> QED BY <2>1, <2>2, <2>3, <2>4, <2>5, RowWrites
  <1> QED BY <1>1, Invariance, ResolvedRowsAreOk, PTL DEF Spec, ReplayNeverReopens
=============================================================================
