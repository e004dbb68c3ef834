------------------------------ MODULE Discovery ------------------------------
(***************************************************************************)
(* What a collector process watches: collector.go reconcile (API discovery *)
(* and RBAC review every five minutes), the lease partitions and their     *)
(* goroutines (runShard, watchNamespaces), and the targeted resync of      *)
(* resync.go.  One process is followed; the Lease of a partition comes and *)
(* goes, because other replicas run the same program.  What a watch does   *)
(* with its objects is module Collector, how its batches reach the API is  *)
(* module Spool.                                                           *)
(***************************************************************************)
EXTENDS Naturals, FiniteSets

CONSTANTS
    Shards,       \* the <<GVR, namespace>> pairs of the allowlisted resources
    Cluster,      \* the namespace of cluster-scoped resources, ""
    Home,         \* cfg.LeaseNamespace
    PartitionOf,  \* [namespaces -> Lease partitions]
    Grants,       \* what may be granted when the process starts: sets of shards
    Requests,     \* resync request IDs; numbers, in the order of the document
    MaxChanges,   \* bound on what changes around the process, its restarts included
    None

GVRs       == {x[1] : x \in Shards}
Namespaces == {x[2] : x \in Shards}

ASSUME DiscoveryAssumption ==
    /\ \A x \in Shards : DOMAIN x = {1, 2}
    /\ DOMAIN PartitionOf = Namespaces
    /\ IsFiniteSet(Shards) /\ Grants \subseteq SUBSET Shards
    /\ Requests \subseteq Nat /\ IsFiniteSet(Requests)
    /\ MaxChanges \in Nat
    /\ None \notin GVRs

\* leaseShard: a GVR and the partition its namespaces hash to
TargetOf(x) == <<x[1], PartitionOf[x[2]]>>
Targets     == {TargetOf(x) : x \in Shards}

VARIABLES
    granted,    \* what discovery offers and RBAC allows to list and watch
    canList,    \* whether RBAC allows the cluster identity to list namespaces
    file,       \* the resync document: [Requests -> GVRs \cup {None}]
    changes,    \* how often these changed; restarts and stray 401 answers count too
    refresh,    \* the reconcile call in progress
    shard,      \* c.shards, c.shardStates and the goroutine of each target
    watches,    \* the watch goroutines of each target, by shard
    applied,    \* c.appliedResync
    live,       \* the shards with live rows in the inventory
    excused,    \* history: shards given up by a complete review, since last wanted
    relisted    \* history: the resync requests applied before a shard's watch last began

environment == <<granted, canList, file, changes>>
process     == <<refresh, shard, watches, applied>>
history     == <<excused, relisted>>
vars == <<environment, process, live, history>>

Idle    == [phase |-> "idle"]
Stopped == [up |-> FALSE, ns |-> {}, changed |-> FALSE, leading |-> FALSE,
            phase |-> "wait", want |-> {}]

\* newShardState and go runShard
Started(namespaces) == [Stopped EXCEPT !.up = TRUE, !.ns = namespaces]

\* the shards whose permission a review that goes through can see
Permitted == {x \in granted : canList \/ x[2] \in {Home, Cluster}}

-----------------------------------------------------------------------------
(***************************************************************************)
(* Around the process.                                                     *)
(***************************************************************************)
ChangePermission(x) ==
    /\ changes < MaxChanges
    /\ granted' = IF x \in granted THEN granted \ {x} ELSE granted \cup {x}
    /\ changes' = changes + 1
    /\ UNCHANGED <<canList, file, process, live, history>>

ChangeListing ==
    /\ changes < MaxChanges
    /\ canList' = ~canList
    /\ changes' = changes + 1
    /\ UNCHANGED <<granted, file, process, live, history>>

WriteRequest(i, g) ==
    /\ changes < MaxChanges
    /\ file[i] # g
    /\ file' = [file EXCEPT ![i] = g]
    /\ changes' = changes + 1
    /\ UNCHANGED <<granted, canList, process, live, history>>

\* The process starts anew: appliedResync and all goroutines are gone.
Restart ==
    /\ changes < MaxChanges
    /\ changes' = changes + 1
    /\ refresh' = Idle
    /\ shard' = [t \in Targets |-> Stopped]
    /\ watches' = [t \in Targets |-> {}]
    /\ applied' = [i \in Requests |-> None]
    /\ UNCHANGED <<granted, canList, file, live, history>>

-----------------------------------------------------------------------------
(***************************************************************************)
(* reconcile, first part: what the API server answers.                     *)
(***************************************************************************)
\* ServerPreferredResources returns what it found along with the error.
DiscoveryError(seen) == IF seen = GVRs THEN BOOLEAN ELSE {TRUE}

\* effectiveRules: the namespaces whose rules are reviewed.  A denied list (403 or
\* 401) leaves the local namespace and counts as complete; another error leaves it too,
\* and does not.
Reviewed(list) == IF list = "listed" THEN Namespaces \ {Cluster} ELSE {Home}

\* effectiveRules and effectiveClusterPermissions when every review is answered
Allowed(list, seen) ==
    {x \in granted : x[1] \in seen /\ (x[2] = Cluster \/ x[2] \in Reviewed(list))}

\* Answers in which every review was answered completely: rules reviews, or access
\* reviews of both verbs where the rules review is denied.
Answers(list, seen) ==
    [allowed : {Allowed(list, seen)}, err : DiscoveryError(seen), complete : {list # "failed"}]

\* Answers in which some review failed or was marked Incomplete: what is listed as
\* allowed is allowed, what is missing may be allowed too.
PartialAnswers(list, seen) ==
    [allowed : SUBSET Allowed(list, seen), err : DiscoveryError(seen), complete : {FALSE}]

\* History: what a complete answer gives reason to give up.
Excused(list, answer) ==
    IF ~answer.complete THEN {}
    ELSE (Shards \ granted) \cup
         (IF list = "denied" THEN {x \in Shards : x[2] \notin {Home, Cluster}} ELSE {})

Review(list, seen, answers) ==
    /\ refresh.phase = "idle"
    /\ \E answer \in answers :
         refresh' = [phase |-> "reviewed", answer |-> answer,
                     excuse |-> Excused(list, answer)]
    /\ UNCHANGED <<granted, canList, file, shard, watches, applied, live, history>>

\* what the cluster really says: nothing fails on the way
Truth == [allowed |-> Permitted, err |-> FALSE, complete |-> TRUE]
ReviewTruth ==
    /\ Review(IF canList THEN "listed" ELSE "denied", GVRs, {Truth})
    /\ UNCHANGED changes

\* Something fails: discovery, the namespace list, a review.
ReviewFailing ==
    \E list \in {IF canList THEN "listed" ELSE "denied", "failed"}, seen \in SUBSET GVRs :
      /\ Review(list, seen, Answers(list, seen) \cup PartialAnswers(list, seen))
      /\ UNCHANGED changes

\* The cluster identity is allowed to list namespaces but is answered 401, for
\* example because its token was revoked.
ReviewUnauthorized ==
    /\ canList /\ changes < MaxChanges
    /\ changes' = changes + 1
    /\ Review("denied", GVRs, Answers("denied", GVRs))

-----------------------------------------------------------------------------
(***************************************************************************)
(* reconcile, second part, under c.mu.                                     *)
(***************************************************************************)
\* Seeded defect: revocations are taken from incomplete answers too.
KeepNothing(old, answer) == {}

\* preserveExistingNamespaces
Preserved(old, answer) == IF answer.complete THEN {} ELSE old.ns

\* partitionNamespaces, and what is preserved of the target's namespaces
electionWanted(t, old, answer) ==
    {x \in answer.allowed : TargetOf(x) = t} \cup Preserved(old, answer)

\* Seeded defect: requests are worked off before the permissions are known.
AlwaysResync(answer) == TRUE

\* canApplyResync, also the condition of removing shards
Confirmed(answer) == ~answer.err /\ answer.complete

\* applyResyncRequests: a request whose ID is known under another GVR ends the loop;
\* one that is known, or whose GVR is not wanted, is passed over.
ChangedMeaning(i) == file[i] # None /\ applied[i] # None /\ applied[i] # file[i]
NewRequests(answer) ==
    {i \in Requests :
       /\ file[i] \in {x[1] : x \in answer.allowed}
       /\ applied[i] = None
       /\ \A j \in Requests : j <= i => ~ChangedMeaning(j)}

\* the GVRs whose goroutines a resync cancels
RestartedGVRs(accepted) == {file[i] : i \in accepted}

\* Seeded defect: the namespaces of a target that runs are not brought up to date.
NeverUpdated(t, old, answer) ==
    IF old.up THEN old ELSE Started(electionWanted(t, old, answer))

\* A target's entry after the refresh: a wanted one is updated or started, an
\* unwanted one is cancelled when the answer confirms it, else left as it is.
NewEntry(t, old, answer) ==
    LET want == electionWanted(t, old, answer) IN
    IF want # {} /\ old.up THEN [old EXCEPT !.ns = want]
    ELSE IF want # {} THEN Started(want)
    ELSE IF Confirmed(answer) THEN Stopped
    ELSE old

\* The critical section.  The resync document may be unreadable; then no request is
\* worked off.  state.update stores the namespaces; its signal is Signal below.
ApplyReview(readable) ==
    LET answer   == refresh.answer
        accepted == IF readable /\ Confirmed(answer) THEN NewRequests(answer) ELSE {}
        Old(t)   == IF t[1] \in RestartedGVRs(accepted) THEN Stopped ELSE shard[t]
        new      == [t \in Targets |-> NewEntry(t, Old(t), answer)] IN
    /\ refresh.phase = "reviewed"
    /\ shard' = new
    /\ watches' = [t \in Targets |-> IF Old(t).up /\ new[t].up THEN watches[t] ELSE {}]
    /\ applied' = [i \in Requests |-> IF i \in accepted THEN file[i] ELSE applied[i]]
    /\ refresh' = [phase |-> "signal", todo |->
                    {t \in Targets : Old(t).up /\ electionWanted(t, Old(t), answer) # {}}]
    /\ excused' = excused \cup refresh.excuse
    /\ UNCHANGED <<environment, live, relisted>>

\* Seeded defect: the signal is dropped while the goroutine is busy.
RaiseIfWaiting(s) == s.changed \/ s.phase = "wait"

\* the non-blocking send into the channel of capacity one
Raise(s) == TRUE

\* Last statement of state.update.
Signal(t) ==
    /\ refresh.phase = "signal" /\ t \in refresh.todo
    /\ shard' = [shard EXCEPT ![t].changed = Raise(shard[t])]
    /\ refresh' = [refresh EXCEPT !.todo = @ \ {t}]
    /\ UNCHANGED <<environment, watches, applied, live, history>>

EndRefresh ==
    /\ refresh.phase = "signal" /\ refresh.todo = {}
    /\ refresh' = Idle
    /\ UNCHANGED <<environment, shard, watches, applied, live, history>>

-----------------------------------------------------------------------------
(***************************************************************************)
(* runShard and watchNamespaces.                                           *)
(***************************************************************************)
\* OnStartedLeading: watchNamespaces begins with its own reconcile.
AcquireLease(t) ==
    /\ shard[t].up /\ ~shard[t].leading
    /\ shard' = [shard EXCEPT ![t].leading = TRUE, ![t].phase = "snapshot"]
    /\ UNCHANGED <<environment, refresh, watches, applied, live, history>>

\* The Lease is not renewed: the deferred function cancels and awaits the watches.
\* No marker is sent.
LoseLease(t) ==
    /\ shard[t].up /\ shard[t].leading
    /\ shard' = [shard EXCEPT ![t].leading = FALSE, ![t].phase = "wait", ![t].want = {}]
    /\ watches' = [watches EXCEPT ![t] = {}]
    /\ UNCHANGED <<environment, refresh, applied, live, history>>

\* case <-state.changed
TakeSignal(t) ==
    /\ shard[t].up /\ shard[t].leading /\ shard[t].phase = "wait" /\ shard[t].changed
    /\ shard' = [shard EXCEPT ![t].changed = FALSE, ![t].phase = "snapshot"]
    /\ UNCHANGED <<environment, refresh, watches, applied, live, history>>

\* state.snapshot(), and a watch goroutine for every wanted namespace without one.
StartWatches(t) ==
    LET want == shard[t].ns IN
    /\ shard[t].up /\ shard[t].phase = "snapshot"
    /\ watches' = [watches EXCEPT ![t] = @ \cup want]
    /\ shard' = [shard EXCEPT ![t].want = want, ![t].phase = "stop"]
    /\ excused' = excused \ want
    /\ relisted' = [x \in Shards |-> IF x \in want \ watches[t]
                      THEN relisted[x] \cup {i \in Requests : applied[i] = x[1]}
                      ELSE relisted[x]]
    /\ UNCHANGED <<environment, refresh, applied, live>>

\* An unwanted watch is cancelled and awaited, then the marker tombstones its rows.
StopWatch(t) ==
    \E x \in watches[t] \ shard[t].want :
      /\ shard[t].up /\ shard[t].phase = "stop"
      /\ watches' = [watches EXCEPT ![t] = @ \ {x}]
      /\ live' = live \ {x}
      /\ UNCHANGED <<environment, refresh, shard, applied, history>>

WatchesDone(t) ==
    /\ shard[t].up /\ shard[t].phase = "stop"
    /\ watches[t] \subseteq shard[t].want
    /\ shard' = [shard EXCEPT ![t].phase = "wait", ![t].want = {}]
    /\ UNCHANGED <<environment, refresh, watches, applied, live, history>>

\* A watch lists its namespace: its objects have live rows.
List(x) ==
    /\ x \in watches[TargetOf(x)]
    /\ x \notin live
    /\ live' = live \cup {x}
    /\ UNCHANGED <<environment, process, history>>

-----------------------------------------------------------------------------
Init ==
    /\ granted \in Grants
    /\ canList = TRUE
    /\ file = [i \in Requests |-> None]
    /\ changes = 0
    /\ refresh = Idle
    /\ shard = [t \in Targets |-> Stopped]
    /\ watches = [t \in Targets |-> {}]
    /\ applied = [i \in Requests |-> None]
    /\ live = {}
    /\ excused = {}
    /\ relisted = [x \in Shards |-> {}]

Around ==
    \/ \E x \in Shards : ChangePermission(x)
    \/ ChangeListing
    \/ \E i \in Requests, g \in GVRs : WriteRequest(i, g)
    \/ Restart

FinishRefresh ==
    \/ \E readable \in BOOLEAN : ApplyReview(readable)
    \/ \E t \in Targets : Signal(t)
    \/ EndRefresh

Reconcile ==
    \/ ReviewTruth \/ ReviewFailing \/ ReviewUnauthorized
    \/ FinishRefresh

WatchNamespaces(t) ==
    TakeSignal(t) \/ StartWatches(t) \/ StopWatch(t) \/ WatchesDone(t)

RunShard(t) == AcquireLease(t) \/ LoseLease(t) \/ WatchNamespaces(t)

Next ==
    \/ Around
    \/ Reconcile
    \/ \E t \in Targets : RunShard(t)
    \/ \E x \in Shards : List(x)

Spec == Init /\ [][Next]_vars

\* The discovery ticker never stops, the API server does not fail at every refresh
\* nor the resync document at every one that goes through, some replica gets the
\* Lease, and it is not lost every time before watchNamespaces gets to work.
Fairness ==
    /\ SF_vars(ReviewTruth) /\ WF_vars(FinishRefresh)
    /\ SF_vars(ApplyReview(TRUE) /\ refresh.answer = Truth)
    /\ \A t \in Targets : WF_vars(AcquireLease(t)) /\ SF_vars(WatchNamespaces(t))

FairSpec == Spec /\ Fairness

-----------------------------------------------------------------------------
\* An update of a partition's namespaces is never lost in the channel of capacity
\* one: a leader that waits with nothing signalled, now or by the refresh in
\* progress, watches exactly the namespaces of its state.
QuietMeansCurrent ==
    \A t \in Targets :
      LET s == shard[t] IN
      s.up /\ s.leading /\ s.phase = "wait" /\ ~s.changed
      /\ (refresh.phase = "signal" => t \notin refresh.todo)
      => watches[t] = s.ns

\* "An incomplete authorization response proves additions, but cannot prove
\* revocations": rows are tombstoned by a revocation marker only when, since the
\* watch began, a complete review did not find the permission, or the namespace
\* list was denied.
RevocationHasCause ==
    [][\A x \in live \ live' : x \in excused]_vars

\* Every shard that may be listed and watched is watched in the end, whatever fails,
\* restarts or changes hands on the way.
PermittedIsWatched ==
    \A x \in Shards :
      x \in Permitted ~> (x \in watches[TargetOf(x)] \/ x \notin Permitted)

\* "A new request cancels and recreates that GVR owner": every permitted shard of the
\* requested GVR gets a watch that began after the request was accepted, unless an
\* earlier request changed its meaning.
ResyncRelists ==
    \A i \in Requests, x \in Shards :
      (file[i] = x[1] /\ x \in Permitted)
      ~> (i \in relisted[x] \/ file[i] # x[1] \/ x \notin Permitted
          \/ \E j \in Requests : ChangedMeaning(j))

\* "permission revocation did not reconcile the namespace" is a test failure: the rows
\* of a shard that is no longer permitted are tombstoned in the end.
RevokedIsGone ==
    \A x \in Shards : (x \in live /\ x \notin Permitted) ~> (x \notin live \/ x \in Permitted)
=============================================================================
