--------------------------- MODULE DiscoveryProofs ---------------------------
(***************************************************************************)
(* What module Discovery promises for any resources, namespaces and        *)
(* partitions, however often permissions change, reviews fail, Leases move *)
(* and the process restarts: no update of a partition is lost between the  *)
(* refresh and the goroutine that owns it, and no rows are tombstoned      *)
(* without a complete review that gives the reason.                        *)
(***************************************************************************)
EXTENDS Discovery, TLAPS

\* the shards whose namespaces hash to a target
ShardsOf(t) == {x \in Shards : TargetOf(x) = t}

AnswerType == [allowed: SUBSET Shards, err: BOOLEAN, complete: BOOLEAN]

RefreshType ==
    [phase: {"idle"}]
    \cup [phase: {"reviewed"}, answer: AnswerType, excuse: SUBSET Shards]
    \cup [phase: {"signal"}, todo: SUBSET Targets]

EntryType ==
    [up: BOOLEAN, ns: SUBSET Shards, changed: BOOLEAN, leading: BOOLEAN,
     phase: {"wait", "snapshot", "stop"}, want: SUBSET Shards]

\* The values of the variables the two properties depend on.
DiscoveryTypeOK ==
    /\ granted \subseteq Shards
    /\ refresh \in RefreshType
    /\ shard \in [Targets -> EntryType]
    /\ watches \in [Targets -> SUBSET Shards]

\* The refresh in progress stored namespaces for t and is about to signal them.
Pending(t) == refresh.phase = "signal" /\ t \in refresh.todo

\* A target keeps to its own shards; without a Lease nothing runs; what
\* watchNamespaces works from is a snapshot that is current unless a signal waits.
Orderly(t, s, w, pending) ==
    /\ s.ns \subseteq ShardsOf(t) /\ w \subseteq ShardsOf(t)
    /\ s.leading => s.up
    /\ ~s.leading => w = {} /\ s.phase = "wait"
    /\ s.phase = "stop" => s.want \subseteq w /\ (s.want = s.ns \/ s.changed \/ pending)
    /\ s.phase = "wait" /\ s.leading => w = s.ns \/ s.changed \/ pending

\* A watch whose namespace is wanted no more was given up for a reason, and so was
\* one that watchNamespaces is about to stop.
Justified(s, w, given) ==
    /\ w \subseteq s.ns \cup given
    /\ s.phase = "stop" => w \subseteq s.want \cup given

\* What a complete answer leaves out has a reason, or its whole GVR was not
\* discovered and the discovery error is kept.
AnswerIsReasoned(answer, reasons) ==
    answer.complete =>
      \A x \in Shards :
        \/ x \in answer.allowed
        \/ x \in reasons
        \/ answer.err /\ \A y \in answer.allowed : y[1] # x[1]

TargetsAreOrderly == \A t \in Targets : Orderly(t, shard[t], watches[t], Pending(t))
StopsAreJustified == \A t \in Targets : Justified(shard[t], watches[t], excused)
ReviewIsReasoned  ==
    refresh.phase = "reviewed" => AnswerIsReasoned(refresh.answer, refresh.excuse)

DiscoveryInv ==
    /\ DiscoveryTypeOK
    /\ TargetsAreOrderly
    /\ StopsAreJustified
    /\ ReviewIsReasoned

-----------------------------------------------------------------------------
\* Initially nothing runs and no refresh is in progress.
LEMMA DiscoveryInitInv == Init => DiscoveryInv
<1> SUFFICES ASSUME Init PROVE DiscoveryInv
  OBVIOUS
<1>1. DiscoveryTypeOK
  BY DiscoveryAssumption
  DEF Init, DiscoveryTypeOK, RefreshType, EntryType, Idle, Stopped
<1>2. TargetsAreOrderly
  BY DEF Init, TargetsAreOrderly, Orderly, Stopped
<1>3. StopsAreJustified
  BY DEF Init, StopsAreJustified, Justified, Stopped
<1>4. ReviewIsReasoned
  BY DEF Init, ReviewIsReasoned, Idle
<1> QED
  BY <1>1, <1>2, <1>3, <1>4 DEF DiscoveryInv

\* The invariant depends on the permissions only through their type.
LEMMA FrameKeepsInv ==
    ASSUME DiscoveryInv, granted' \subseteq Shards, UNCHANGED <<refresh, shard, watches, excused>>
    PROVE  DiscoveryInv'
BY DEF DiscoveryInv, DiscoveryTypeOK, TargetsAreOrderly, StopsAreJustified, ReviewIsReasoned,
       Pending

\* ... and no watch survives a restart.
LEMMA AroundKeepsInv == ASSUME DiscoveryInv, Around PROVE DiscoveryInv'
<1>1. ASSUME NEW x \in Shards, ChangePermission(x) PROVE DiscoveryInv'
  BY <1>1, FrameKeepsInv DEF ChangePermission, process, history, DiscoveryInv, DiscoveryTypeOK
<1>2. CASE ChangeListing
  BY <1>2, FrameKeepsInv DEF ChangeListing, process, history, DiscoveryInv, DiscoveryTypeOK
<1>3. ASSUME NEW i \in Requests, NEW g \in GVRs, WriteRequest(i, g) PROVE DiscoveryInv'
  BY <1>3, FrameKeepsInv DEF WriteRequest, process, history, DiscoveryInv, DiscoveryTypeOK
<1>4. CASE Restart
  <2>1. DiscoveryTypeOK'
    BY <1>4 DEF Restart, DiscoveryInv, DiscoveryTypeOK, RefreshType, EntryType, Idle, Stopped
  <2>2. TargetsAreOrderly'
    BY <1>4 DEF Restart, TargetsAreOrderly, Orderly, Stopped
  <2>3. StopsAreJustified'
    BY <1>4 DEF Restart, StopsAreJustified, Justified, Stopped
  <2>4. ReviewIsReasoned'
    BY <1>4 DEF Restart, ReviewIsReasoned, Idle
  <2> QED
    BY <2>1, <2>2, <2>3, <2>4 DEF DiscoveryInv
<1> QED
  BY <1>1, <1>2, <1>3, <1>4 DEF Around

-----------------------------------------------------------------------------
\* A review whose answers are reasoned keeps the invariant: nothing acts on it yet.
LEMMA ReviewKeepsInv ==
    ASSUME DiscoveryInv, NEW list, NEW seen, NEW answers, Review(list, seen, answers),
           \A a \in answers : a \in AnswerType /\ AnswerIsReasoned(a, Excused(list, a))
    PROVE  DiscoveryInv'
<1>1. PICK a \in answers : refresh' = [phase |-> "reviewed", answer |-> a,
                                       excuse |-> Excused(list, a)]
  BY DEF Review
<1>2. refresh.phase = "idle" /\ UNCHANGED <<granted, shard, watches, excused>>
  BY DEF Review, history
<1>3. a \in AnswerType /\ Excused(list, a) \subseteq Shards
  BY DEF Excused
<1>4. DiscoveryTypeOK'
  BY <1>1, <1>2, <1>3 DEF DiscoveryInv, DiscoveryTypeOK, RefreshType
<1>5. TargetsAreOrderly'
  BY <1>1, <1>2 DEF DiscoveryInv, TargetsAreOrderly, Orderly, Pending
<1>6. StopsAreJustified'
  BY <1>2 DEF DiscoveryInv, StopsAreJustified
<1>7. ReviewIsReasoned'
  BY <1>1 DEF ReviewIsReasoned
<1> QED
  BY <1>4, <1>5, <1>6, <1>7 DEF DiscoveryInv

\* The answers the API server gives are reasoned: in a complete one a permission is
\* missing because it is not granted, because the namespace list was denied, or
\* because discovery failed for its GVR, which is a discovery error.
LEMMA AnswersAreReasoned ==
    ASSUME DiscoveryTypeOK, NEW list \in {"listed", "denied", "failed"},
           NEW seen \in SUBSET GVRs, NEW a \in Answers(list, seen) \cup PartialAnswers(list, seen)
    PROVE  a \in AnswerType /\ AnswerIsReasoned(a, Excused(list, a))
<1>1. Allowed(list, seen) \subseteq granted /\ granted \subseteq Shards
  BY DEF Allowed, DiscoveryTypeOK
<1>2. a \in AnswerType
  <2>1. CASE a \in Answers(list, seen)
    BY <2>1, <1>1 DEF Answers, AnswerType, DiscoveryError
  <2>2. CASE a \in PartialAnswers(list, seen)
    BY <2>2, <1>1 DEF PartialAnswers, AnswerType, DiscoveryError
  <2> QED
    BY <2>1, <2>2
<1>3. ASSUME a.complete, NEW x \in Shards, x \notin a.allowed, x \notin Excused(list, a)
      PROVE  a.err /\ \A y \in a.allowed : y[1] # x[1]
  <2>1. a.allowed = Allowed(list, seen) /\ a.err \in DiscoveryError(seen) /\ list # "failed"
    BY <1>3 DEF Answers, PartialAnswers
  <2>2. x \in granted
    BY <1>3 DEF Excused
  <2>3. x[2] = Cluster \/ x[2] \in Reviewed(list)
    BY <1>3, <2>1 DEF Excused, Reviewed, Namespaces
  <2>4. x[1] \notin seen
    BY <1>3, <2>1, <2>2, <2>3 DEF Allowed
  <2>5. seen # GVRs
    BY <2>4 DEF GVRs
  <2> QED
    BY <2>1, <2>4, <2>5 DEF DiscoveryError, Allowed
<1> QED
  BY <1>2, <1>3 DEF AnswerIsReasoned

\* So is the answer of a review in which nothing fails.
LEMMA TruthIsReasoned ==
    ASSUME DiscoveryTypeOK
    PROVE  Truth \in AnswerType
           /\ AnswerIsReasoned(Truth, Excused(IF canList THEN "listed" ELSE "denied", Truth))
<1>1. Permitted \subseteq Shards
  BY DEF Permitted, DiscoveryTypeOK
<1>2. Truth \in AnswerType /\ Truth.allowed = Permitted /\ Truth.complete
  BY <1>1 DEF Truth, AnswerType
<1>3. ASSUME NEW x \in Shards, x \notin Permitted
      PROVE  x \in Excused(IF canList THEN "listed" ELSE "denied", Truth)
  BY <1>2, <1>3 DEF Excused, Permitted
<1> QED
  BY <1>2, <1>3 DEF AnswerIsReasoned

LEMMA ReviewsKeepInv ==
    ASSUME DiscoveryInv, ReviewTruth \/ ReviewFailing \/ ReviewUnauthorized
    PROVE  DiscoveryInv'
<1> DiscoveryTypeOK
  BY DEF DiscoveryInv
<1>1. CASE ReviewTruth
  BY <1>1, TruthIsReasoned, ReviewKeepsInv DEF ReviewTruth
<1>2. CASE ReviewFailing
  <2>1. PICK list \in {"listed", "denied", "failed"}, seen \in SUBSET GVRs :
          Review(list, seen, Answers(list, seen) \cup PartialAnswers(list, seen))
    BY <1>2 DEF ReviewFailing
  <2> QED
    BY <2>1, AnswersAreReasoned, ReviewKeepsInv
<1>3. CASE ReviewUnauthorized
  <2>1. Review("denied", GVRs, Answers("denied", GVRs))
    BY <1>3 DEF ReviewUnauthorized
  <2> QED
    BY <2>1, AnswersAreReasoned, ReviewKeepsInv
<1> QED
  BY <1>1, <1>2, <1>3

-----------------------------------------------------------------------------
\* What a refresh wants of a target are shards of that target.
LEMMA WantedIsOwn ==
    ASSUME NEW t \in Targets, NEW old \in EntryType, NEW answer \in AnswerType,
           old.ns \subseteq ShardsOf(t)
    PROVE  electionWanted(t, old, answer) \subseteq ShardsOf(t)
BY DEF electionWanted, Preserved, ShardsOf, AnswerType

\* The entry of a target after a refresh is orderly with the watches it keeps, and
\* every watch that is wanted no more was given up for a reason.
LEMMA NewEntryIsSound ==
    ASSUME NEW t \in Targets, NEW old \in EntryType, NEW answer \in AnswerType,
           NEW w \in SUBSET Shards, NEW given, NEW reasons,
           Orderly(t, old, w, FALSE), Justified(old, w, given), AnswerIsReasoned(answer, reasons),
           NEW new, new = NewEntry(t, old, answer),
           NEW kept, kept = IF old.up /\ new.up THEN w ELSE {},
           NEW pending \in BOOLEAN,
           pending <=> old.up /\ electionWanted(t, old, answer) # {}
    PROVE  /\ new \in EntryType
           /\ Orderly(t, new, kept, pending)
           /\ Justified(new, kept, given \cup reasons)
<1>1. PICK want \in SUBSET Shards : want = electionWanted(t, old, answer)
  BY WantedIsOwn DEF Orderly, ShardsOf
<1>2. want \subseteq ShardsOf(t)
  BY <1>1, WantedIsOwn DEF Orderly
<1>3. CASE want # {} /\ old.up
  <2>1. new = [old EXCEPT !.ns = want]
    BY <1>1, <1>3 DEF NewEntry
  <2>2. /\ new \in EntryType
        /\ new.ns = want /\ new.up = old.up /\ new.changed = old.changed
        /\ new.leading = old.leading /\ new.phase = old.phase /\ new.want = old.want
    BY <2>1 DEF EntryType
  <2>3. kept = w /\ pending
    BY <1>1, <1>3, <2>2
  <2>4. Orderly(t, new, kept, pending)
    BY <1>2, <2>2, <2>3 DEF Orderly
  <2>5. ASSUME NEW x \in w, x \notin want, x \notin given PROVE x \in reasons
    <3>1. x \in old.ns /\ x \in Shards /\ TargetOf(x) = t
      BY <2>5 DEF Justified, Orderly, ShardsOf
    <3>2. answer.complete /\ x \notin answer.allowed
      BY <1>1, <2>5, <3>1 DEF electionWanted, Preserved
    <3>3. PICK y \in answer.allowed : TargetOf(y) = t
      BY <1>1, <1>3, <3>2 DEF electionWanted, Preserved
    <3>4. y[1] = x[1]
      BY <3>1, <3>3 DEF TargetOf
    <3> QED
      BY <3>1, <3>2, <3>3, <3>4 DEF AnswerIsReasoned
  <2>6. Justified(new, kept, given \cup reasons)
    BY <2>2, <2>3, <2>5 DEF Justified
  <2> QED
    BY <2>2, <2>4, <2>6
<1>4. CASE want # {} /\ ~old.up
  <2>1. new = Started(want) /\ kept = {}
    BY <1>1, <1>4 DEF NewEntry
  <2>2. new = [up |-> TRUE, ns |-> want, changed |-> FALSE, leading |-> FALSE,
               phase |-> "wait", want |-> {}]
    BY <2>1 DEF Started, Stopped
  <2> QED
    BY <1>2, <2>1, <2>2 DEF EntryType, Orderly, Justified
<1>5. CASE want = {} /\ Confirmed(answer)
  <2>1. new = Stopped /\ kept = {}
    BY <1>1, <1>5 DEF NewEntry, Stopped
  <2> QED
    BY <2>1 DEF Stopped, EntryType, Orderly, Justified
<1>6. CASE want = {} /\ ~Confirmed(answer)
  <2>1. new = old
    BY <1>1, <1>6 DEF NewEntry
  <2>2. kept = w
    <3>1. CASE old.up
      BY <2>1, <3>1
    <3>2. CASE ~old.up
      <4>1. w = {}
        BY <3>2 DEF Orderly
      <4> QED
        BY <2>1, <3>2, <4>1
    <3> QED
      BY <3>1, <3>2
  <2>3. ~pending
    BY <1>1, <1>6
  <2> QED
    BY <2>1, <2>2, <2>3 DEF Orderly, Justified
<1> QED
  BY <1>3, <1>4, <1>5, <1>6

\* A resync stops the entries of its GVR; a stopped entry is sound as well.
LEMMA StoppedIsSound ==
    ASSUME NEW t, NEW given
    PROVE  Stopped \in EntryType /\ Orderly(t, Stopped, {}, FALSE) /\ Justified(Stopped, {}, given)
BY DEF Stopped, EntryType, Orderly, Justified

LEMMA ApplyReviewKeepsInv ==
    ASSUME DiscoveryInv, NEW readable \in BOOLEAN, ApplyReview(readable)
    PROVE  DiscoveryInv'
<1>1. PICK answer : answer = refresh.answer
  OBVIOUS
<1>2. PICK accepted : accepted = IF readable /\ Confirmed(answer) THEN NewRequests(answer) ELSE {}
  OBVIOUS
<1>3. PICK old : old = [t \in Targets |->
                          IF t[1] \in RestartedGVRs(accepted) THEN Stopped ELSE shard[t]]
  OBVIOUS
<1>4. refresh.phase = "reviewed" /\ answer \in AnswerType /\ refresh.excuse \in SUBSET Shards
  BY <1>1 DEF ApplyReview, DiscoveryInv, DiscoveryTypeOK, RefreshType
<1>5. shard' = [t \in Targets |-> NewEntry(t, old[t], answer)]
  BY <1>1, <1>2, <1>3 DEF ApplyReview
<1>6. watches' = [t \in Targets |-> IF old[t].up /\ shard'[t].up THEN watches[t] ELSE {}]
  BY <1>1, <1>2, <1>3, <1>5 DEF ApplyReview
<1>7. refresh' = [phase |-> "signal",
                  todo |-> {t \in Targets : old[t].up /\ electionWanted(t, old[t], answer) # {}}]
  BY <1>1, <1>2, <1>3 DEF ApplyReview
<1>8. excused' = excused \cup refresh.excuse /\ granted' = granted
  BY DEF ApplyReview, environment
<1>9. ASSUME NEW t \in Targets
      PROVE  /\ shard'[t] \in EntryType /\ watches'[t] \in SUBSET Shards
             /\ Orderly(t, shard'[t], watches'[t], Pending(t)')
             /\ Justified(shard'[t], watches'[t], excused')
  <2>1. Orderly(t, shard[t], watches[t], FALSE) /\ Justified(shard[t], watches[t], excused)
    BY <1>4 DEF DiscoveryInv, TargetsAreOrderly, StopsAreJustified, Pending, Orderly
  <2>2. PICK w : w = IF old[t].up THEN watches[t] ELSE {}
    OBVIOUS
  <2>3. /\ old[t] \in EntryType /\ w \in SUBSET Shards
        /\ Orderly(t, old[t], w, FALSE) /\ Justified(old[t], w, excused)
    <3>1. CASE t[1] \in RestartedGVRs(accepted)
      <4>1. old[t] = Stopped /\ w = {}
        BY <1>3, <2>2, <3>1 DEF Stopped
      <4> QED
        BY <4>1, StoppedIsSound
    <3>2. CASE t[1] \notin RestartedGVRs(accepted)
      <4>1. old[t] = shard[t]
        BY <1>3, <3>2
      <4>2. w = watches[t]
        BY <2>1, <2>2, <4>1 DEF Orderly
      <4>3. shard[t] \in EntryType /\ watches[t] \in SUBSET Shards
        BY DEF DiscoveryInv, DiscoveryTypeOK
      <4> QED
        BY <2>1, <4>1, <4>2, <4>3
    <3> QED
      BY <3>1, <3>2
  <2>4. PICK pending \in BOOLEAN : pending <=> old[t].up /\ electionWanted(t, old[t], answer) # {}
    OBVIOUS
  <2>5. Pending(t)' <=> pending
    BY <1>7, <2>4 DEF Pending
  <2>6. PICK new : new = NewEntry(t, old[t], answer)
    OBVIOUS
  <2>7. PICK kept : kept = IF old[t].up /\ new.up THEN w ELSE {}
    OBVIOUS
  <2>8. shard'[t] = new /\ watches'[t] = kept
    BY <1>5, <1>6, <2>2, <2>6, <2>7
  <2>9. AnswerIsReasoned(answer, refresh.excuse)
    BY <1>1, <1>4 DEF DiscoveryInv, ReviewIsReasoned
  <2>10. /\ new \in EntryType
         /\ Orderly(t, new, kept, pending)
         /\ Justified(new, kept, excused \cup refresh.excuse)
    BY <1>4, <2>3, <2>4, <2>6, <2>7, <2>9, NewEntryIsSound
  <2>11. Orderly(t, new, kept, Pending(t)')
    BY <2>5, <2>10 DEF Orderly
  <2> QED
    BY <1>8, <2>3, <2>7, <2>8, <2>10, <2>11
<1>10. DiscoveryTypeOK'
  <2>1. shard' \in [Targets -> EntryType]
    BY <1>5, <1>9
  <2>2. watches' \in [Targets -> SUBSET Shards]
    BY <1>6, <1>9
  <2>3. refresh' \in RefreshType
    BY <1>7 DEF RefreshType
  <2> QED
    BY <1>8, <2>1, <2>2, <2>3 DEF DiscoveryInv, DiscoveryTypeOK
<1>11. TargetsAreOrderly' /\ StopsAreJustified'
  BY <1>9 DEF TargetsAreOrderly, StopsAreJustified
<1>12. ReviewIsReasoned'
  BY <1>7 DEF ReviewIsReasoned
<1> QED
  BY <1>10, <1>11, <1>12 DEF DiscoveryInv

-----------------------------------------------------------------------------
\* An action that touches one target, its watches and nothing of the refresh keeps the
\* invariant when that target stays sound and no other target loses a reason.
LEMMA OneTargetKeepsInv ==
    ASSUME DiscoveryInv, NEW t \in Targets, NEW s \in EntryType, NEW w \in SUBSET Shards,
           shard' = [shard EXCEPT ![t] = s], watches' = [watches EXCEPT ![t] = w],
           UNCHANGED <<granted, refresh>>,
           Orderly(t, s, w, Pending(t)), Justified(s, w, excused'),
           excused \ excused' \subseteq ShardsOf(t)
    PROVE  DiscoveryInv'
<1>1. DiscoveryTypeOK'
  BY DEF DiscoveryInv, DiscoveryTypeOK
<1>2. shard'[t] = s /\ watches'[t] = w
  BY DEF DiscoveryInv, DiscoveryTypeOK
<1>3. \A u \in Targets : u # t => shard'[u] = shard[u] /\ watches'[u] = watches[u]
  BY DEF DiscoveryInv, DiscoveryTypeOK
<1>4. \A u \in Targets : Pending(u)' = Pending(u)
  BY DEF Pending
<1>5. TargetsAreOrderly'
  <2> SUFFICES ASSUME NEW u \in Targets
               PROVE  Orderly(u, shard'[u], watches'[u], Pending(u)')
    BY DEF TargetsAreOrderly
  <2> QED
    BY <1>2, <1>3, <1>4 DEF DiscoveryInv, TargetsAreOrderly
<1>6. StopsAreJustified'
  <2> SUFFICES ASSUME NEW u \in Targets, u # t
               PROVE  Justified(shard[u], watches[u], excused')
    BY <1>2, <1>3 DEF StopsAreJustified
  <2>1. watches[u] \subseteq ShardsOf(u) /\ Justified(shard[u], watches[u], excused)
    BY DEF DiscoveryInv, TargetsAreOrderly, StopsAreJustified, Orderly
  <2>2. watches[u] \cap (excused \ excused') = {}
    BY <2>1 DEF ShardsOf
  <2> QED
    BY <2>1, <2>2 DEF Justified
<1>7. ReviewIsReasoned'
  BY DEF DiscoveryInv, ReviewIsReasoned
<1> QED
  BY <1>1, <1>5, <1>6, <1>7 DEF DiscoveryInv

\* The facts about one target that the steps of its goroutine start from.
LEMMA TargetIsSound ==
    ASSUME DiscoveryInv, NEW t \in Targets
    PROVE  /\ shard[t] \in EntryType /\ watches[t] \in SUBSET Shards
           /\ Orderly(t, shard[t], watches[t], Pending(t))
           /\ Justified(shard[t], watches[t], excused)
           /\ shard \in [Targets -> EntryType] /\ watches \in [Targets -> SUBSET Shards]
BY DEF DiscoveryInv, DiscoveryTypeOK, TargetsAreOrderly, StopsAreJustified

LEMMA RunShardKeepsInv ==
    ASSUME DiscoveryInv, NEW t \in Targets, RunShard(t)
    PROVE  DiscoveryInv'
<1>1. PICK s : s = shard[t]
  OBVIOUS
<1>2. PICK w : w = watches[t]
  OBVIOUS
<1>3. /\ s \in EntryType /\ w \in SUBSET Shards
      /\ Orderly(t, s, w, Pending(t)) /\ Justified(s, w, excused)
  BY <1>1, <1>2, TargetIsSound
<1>4. /\ \A f : f = [shard EXCEPT ![t] = s] => f = shard
      /\ watches = [watches EXCEPT ![t] = w]
  BY <1>1, <1>2, TargetIsSound
<1>5. CASE AcquireLease(t)
  <2>1. PICK n : n = [s EXCEPT !.leading = TRUE, !.phase = "snapshot"]
    OBVIOUS
  <2>2. shard' = [shard EXCEPT ![t] = n] /\ UNCHANGED <<granted, refresh, watches, excused>> /\ s.up
    BY <1>1, <1>5, <2>1 DEF AcquireLease, environment, history
  <2>3. /\ n \in EntryType /\ n.up = s.up /\ n.ns = s.ns /\ n.leading /\ n.phase = "snapshot"
    BY <1>3, <2>1 DEF EntryType
  <2>4. Orderly(t, n, w, Pending(t)) /\ Justified(n, w, excused)
    BY <1>3, <2>2, <2>3 DEF Orderly, Justified
  <2> QED
    BY <1>3, <1>4, <2>2, <2>3, <2>4, OneTargetKeepsInv
<1>6. CASE LoseLease(t)
  <2>1. PICK n : n = [s EXCEPT !.leading = FALSE, !.phase = "wait", !.want = {}]
    OBVIOUS
  <2>2. /\ shard' = [shard EXCEPT ![t] = n] /\ watches' = [watches EXCEPT ![t] = {}]
        /\ UNCHANGED <<granted, refresh, excused>>
    BY <1>1, <1>6, <2>1 DEF LoseLease, environment, history
  <2>3. n \in EntryType /\ n.ns = s.ns /\ ~n.leading /\ n.phase = "wait"
    BY <1>3, <2>1 DEF EntryType
  <2>4. Orderly(t, n, {}, Pending(t)) /\ Justified(n, {}, excused)
    BY <1>3, <2>3 DEF Orderly, Justified
  <2> QED
    BY <2>2, <2>3, <2>4, OneTargetKeepsInv
<1>7. CASE TakeSignal(t)
  <2>1. PICK n : n = [s EXCEPT !.changed = FALSE, !.phase = "snapshot"]
    OBVIOUS
  <2>2. /\ shard' = [shard EXCEPT ![t] = n] /\ UNCHANGED <<granted, refresh, watches, excused>>
        /\ s.up /\ s.leading
    BY <1>1, <1>7, <2>1 DEF TakeSignal, environment, history
  <2>3. /\ n \in EntryType /\ n.up = s.up /\ n.ns = s.ns /\ n.leading = s.leading
        /\ n.phase = "snapshot"
    BY <1>3, <2>1 DEF EntryType
  <2>4. Orderly(t, n, w, Pending(t)) /\ Justified(n, w, excused)
    BY <1>3, <2>2, <2>3 DEF Orderly, Justified
  <2> QED
    BY <1>3, <1>4, <2>2, <2>3, <2>4, OneTargetKeepsInv
<1>8. CASE StartWatches(t)
  <2>1. PICK n : n = [s EXCEPT !.want = s.ns, !.phase = "stop"]
    OBVIOUS
  <2>2. /\ shard' = [shard EXCEPT ![t] = n] /\ watches' = [watches EXCEPT ![t] = w \cup s.ns]
        /\ excused' = excused \ s.ns /\ UNCHANGED <<granted, refresh>> /\ s.up
        /\ s.phase = "snapshot"
    BY <1>1, <1>2, <1>8, <2>1 DEF StartWatches, environment
  <2>3. /\ n \in EntryType /\ n.up = s.up /\ n.ns = s.ns /\ n.leading = s.leading
        /\ n.phase = "stop" /\ n.want = s.ns
    BY <1>3, <2>1 DEF EntryType
  <2>4. Orderly(t, n, w \cup s.ns, Pending(t))
    BY <1>3, <2>2, <2>3 DEF Orderly
  <2>5. Justified(n, w \cup s.ns, excused')
    BY <1>3, <2>2, <2>3 DEF Justified
  <2>6. excused \ excused' \subseteq ShardsOf(t) /\ w \cup s.ns \in SUBSET Shards
    BY <1>3, <2>2 DEF Orderly, EntryType
  <2> QED
    BY <2>2, <2>3, <2>4, <2>5, <2>6, OneTargetKeepsInv
<1>9. CASE StopWatch(t)
  <2>1. PICK x \in w \ s.want :
          /\ s.phase = "stop" /\ watches' = [watches EXCEPT ![t] = w \ {x}]
          /\ UNCHANGED <<granted, refresh, shard, excused>>
    BY <1>1, <1>2, <1>9 DEF StopWatch, environment, history
  <2>2. Orderly(t, s, w \ {x}, Pending(t)) /\ Justified(s, w \ {x}, excused)
    BY <1>3, <2>1 DEF Orderly, Justified
  <2>3. shard' = [shard EXCEPT ![t] = s]
    BY <1>4, <2>1
  <2> QED
    BY <1>3, <2>1, <2>2, <2>3, OneTargetKeepsInv
<1>10. CASE WatchesDone(t)
  <2>1. PICK n : n = [s EXCEPT !.phase = "wait", !.want = {}]
    OBVIOUS
  <2>2. /\ shard' = [shard EXCEPT ![t] = n] /\ UNCHANGED <<granted, refresh, watches, excused>>
        /\ s.up /\ s.phase = "stop" /\ w \subseteq s.want
    BY <1>1, <1>2, <1>10, <2>1 DEF WatchesDone, environment, history
  <2>3. /\ n \in EntryType /\ n.up = s.up /\ n.ns = s.ns /\ n.leading = s.leading
        /\ n.changed = s.changed /\ n.phase = "wait"
    BY <1>3, <2>1 DEF EntryType
  <2>4. Orderly(t, n, w, Pending(t)) /\ Justified(n, w, excused)
    BY <1>3, <2>2, <2>3 DEF Orderly, Justified
  <2> QED
    BY <1>3, <1>4, <2>2, <2>3, <2>4, OneTargetKeepsInv
<1> QED
  BY <1>5, <1>6, <1>7, <1>8, <1>9, <1>10 DEF RunShard, WatchNamespaces

\* A signal that is sent is no longer pending but raised; a refresh that ends has sent
\* them all.
LEMMA SignalKeepsInv ==
    ASSUME DiscoveryInv, NEW t \in Targets, Signal(t)
    PROVE  DiscoveryInv'
<1>1. PICK s : s = shard[t]
  OBVIOUS
<1>2. PICK n : n = [s EXCEPT !.changed = TRUE]
  OBVIOUS
<1>3. /\ shard' = [shard EXCEPT ![t] = n] /\ UNCHANGED <<granted, watches, excused>>
      /\ refresh.phase = "signal" /\ refresh' = [refresh EXCEPT !.todo = @ \ {t}]
  BY <1>1, <1>2 DEF Signal, Raise, environment, history
<1>4. refresh \in [phase: {"signal"}, todo: SUBSET Targets]
  BY <1>3 DEF DiscoveryInv, DiscoveryTypeOK, RefreshType
<1>5. refresh' \in [phase: {"signal"}, todo: SUBSET Targets] /\ refresh'.todo = refresh.todo \ {t}
  BY <1>3, <1>4
<1>6. /\ n \in EntryType /\ n.up = s.up /\ n.ns = s.ns /\ n.leading = s.leading
      /\ n.changed /\ n.phase = s.phase /\ n.want = s.want
  BY <1>1, <1>2, TargetIsSound DEF EntryType
<1>7. shard'[t] = n /\ \A u \in Targets : u # t => shard'[u] = shard[u]
  BY <1>3, TargetIsSound
<1>8. DiscoveryTypeOK'
  BY <1>3, <1>5, <1>6 DEF DiscoveryInv, DiscoveryTypeOK, RefreshType
<1>9. TargetsAreOrderly'
  <2> SUFFICES ASSUME NEW u \in Targets PROVE Orderly(u, shard'[u], watches[u], Pending(u)')
    BY <1>3 DEF TargetsAreOrderly
  <2>1. Orderly(u, shard[u], watches[u], Pending(u))
    BY TargetIsSound
  <2>2. CASE u = t
    BY <1>1, <1>6, <1>7, <2>1, <2>2 DEF Orderly
  <2>3. CASE u # t
    <3>1. Pending(u)' <=> Pending(u)
      BY <1>4, <1>5, <2>3 DEF Pending
    <3> QED
      BY <1>7, <2>1, <2>3, <3>1 DEF Orderly
  <2> QED
    BY <2>2, <2>3
<1>10. StopsAreJustified'
  BY <1>1, <1>3, <1>6, <1>7, TargetIsSound DEF StopsAreJustified, Justified
<1>11. ReviewIsReasoned'
  BY <1>5 DEF ReviewIsReasoned
<1> QED
  BY <1>8, <1>9, <1>10, <1>11 DEF DiscoveryInv

LEMMA EndRefreshKeepsInv == ASSUME DiscoveryInv, EndRefresh PROVE DiscoveryInv'
<1>1. /\ refresh' = Idle /\ refresh.todo = {}
      /\ UNCHANGED <<granted, shard, watches, excused>>
  BY DEF EndRefresh, environment, history
<1>2. DiscoveryTypeOK'
  BY <1>1 DEF DiscoveryInv, DiscoveryTypeOK, RefreshType, Idle
<1>3. \A t \in Targets : ~Pending(t)
  BY <1>1 DEF Pending
<1>4. TargetsAreOrderly'
  BY <1>1, <1>3 DEF DiscoveryInv, TargetsAreOrderly, Orderly
<1>5. StopsAreJustified' /\ ReviewIsReasoned'
  BY <1>1 DEF DiscoveryInv, StopsAreJustified, ReviewIsReasoned, Idle
<1> QED
  BY <1>2, <1>4, <1>5 DEF DiscoveryInv

LEMMA DiscoveryNextInv == ASSUME DiscoveryInv, [Next]_vars PROVE DiscoveryInv'
<1>1. ASSUME NEW x \in Shards, List(x) PROVE DiscoveryInv'
  BY <1>1, FrameKeepsInv DEF List, environment, process, history, DiscoveryInv, DiscoveryTypeOK
<1>2. CASE UNCHANGED vars
  BY <1>2, FrameKeepsInv
  DEF vars, environment, process, history, DiscoveryInv, DiscoveryTypeOK
<1> QED
  BY <1>1, <1>2, AroundKeepsInv, ReviewsKeepInv, ApplyReviewKeepsInv, SignalKeepsInv,
     EndRefreshKeepsInv, RunShardKeepsInv
  DEF Next, Reconcile, FinishRefresh

-----------------------------------------------------------------------------
\* The inductive invariant holds of every behaviour.
THEOREM DiscoveryInvariant == Spec => []DiscoveryInv
BY DiscoveryInitInv, DiscoveryNextInv, PTL DEF Spec

\* No update is lost: between state.update, whose signal comes after the namespaces are
\* stored, and watchNamespaces, which takes the signal before the snapshot, a leader
\* that waits with nothing signalled watches exactly the namespaces of its state.
THEOREM UpdatesAreNeverLost == Spec => []QuietMeansCurrent
<1>1. DiscoveryInv => QuietMeansCurrent
  BY DEF DiscoveryInv, TargetsAreOrderly, Orderly, Pending, QuietMeansCurrent
<1> QED
  BY <1>1, DiscoveryInvariant, PTL

\* Rows are tombstoned by a revocation marker only for a reason a complete review
\* gave since the watch began.
THEOREM RevocationsAreJustified == Spec => RevocationHasCause
<1> DEFINE Step == \A x \in live \ live' : x \in excused
<1>1. ASSUME DiscoveryInv, [Next]_vars PROVE [Step]_vars
  <2> SUFFICES ASSUME NEW x \in live, x \notin live' PROVE x \in excused
    OBVIOUS
  <2>1. PICK t \in Targets : StopWatch(t)
    BY <1>1 DEF vars, Next, Around, ChangePermission, ChangeListing, WriteRequest, Restart,
       Reconcile, ReviewTruth, ReviewFailing, ReviewUnauthorized, Review, FinishRefresh,
       ApplyReview, Signal, EndRefresh, RunShard, AcquireLease, LoseLease, WatchNamespaces,
       TakeSignal, StartWatches, WatchesDone, List
  <2>2. x \in watches[t] /\ x \notin shard[t].want /\ shard[t].phase = "stop"
    BY <2>1 DEF StopWatch
  <2> QED
    BY <1>1, <2>2, TargetIsSound DEF Justified
<1> QED
  BY <1>1, DiscoveryInvariant, PTL DEF Spec, RevocationHasCause
=============================================================================
