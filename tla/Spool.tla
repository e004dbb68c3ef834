-------------------------------- MODULE Spool --------------------------------
(***************************************************************************)
(* The sending half of a collector process (internal/v2/collector/         *)
(* client.go): every watch goroutine and the heartbeat goroutine call Send,*)
(* which replays the durable spool, posts the batch to the API, and spools *)
(* it when either fails.  replayMu is held for a whole replay, its HTTP    *)
(* requests included, and for a whole spool write; the direct post runs    *)
(* outside it.                                                             *)
(*                                                                         *)
(* A batch is <<sender, n>>, one chunk of splitBatch; the senders of a     *)
(* process each have a shard of their own.  The heartbeat goroutine sends  *)
(* for ever; its batches take part in everything but are not told apart,   *)
(* and their fate is not recorded.  The API is external: it stores a batch *)
(* it answers with 202, and may store one whose answer the client never    *)
(* saw, immediately or later.                                              *)
(***************************************************************************)
EXTENDS Naturals, Sequences, FiniteSets

CONSTANTS
    Watchers,     \* the watch goroutines
    Heartbeat,    \* the heartbeat goroutine
    MaxBatch,     \* bound on the batches of each watcher
    Size,         \* encoded size of a sender's batches
    SpoolMaxBytes,
    ClockSteps,   \* whether the wall clock may step back
    MaxCrashes,   \* bound on process restarts
    None

Senders == Watchers \cup {Heartbeat}
Batches == Watchers \X (1..MaxBatch)
Beat == <<Heartbeat, 0>>

ASSUME SpoolAssumption ==
    /\ Heartbeat \notin Watchers /\ None \notin Senders
    /\ MaxBatch \in Nat /\ SpoolMaxBytes \in Nat /\ MaxCrashes \in Nat
    /\ Size \in [Senders -> Nat \ {0}]
    /\ ClockSteps \in BOOLEAN

VARIABLES
    pc,         \* where each sender is inside Send
    batch,      \* number of the batch each sender sends or sent last
    ctx,        \* whether each sender's context is still live
    replayMu,   \* holder of the mutex
    spool,      \* the .json files in the order of their names
    spoolBytes, \* Sender.spoolBytes
    crashes,
    late,       \* requests whose sender gave up, still on their way
    arrived,    \* batches the API stored
    accepted,   \* batches Send returned nil for
    dropped     \* batches Send returned an error for, or never returned for

history == <<arrived, accepted, dropped>>
vars == <<pc, batch, ctx, replayMu, spool, spoolBytes, crashes, late, history>>

Files == {spool[i] : i \in DOMAIN spool}
Current(p) == <<p, batch[p]>>
Recorded(S) == S \ {Beat}

-----------------------------------------------------------------------------
\* Send returns nil or an error.
Return(p, ok) ==
    /\ pc' = [pc EXCEPT ![p] = "idle"]
    /\ accepted' = IF ok THEN accepted \cup Recorded({Current(p)}) ELSE accepted
    /\ dropped' = IF ok THEN dropped ELSE dropped \cup Recorded({Current(p)})

Goto(p, l) == pc' = [pc EXCEPT ![p] = l] /\ UNCHANGED <<accepted, dropped>>

\* post succeeds: 202 while the context is live
Posted(p, b) ==
    /\ ctx[p]
    /\ arrived' = arrived \cup Recorded({b})
    /\ UNCHANGED late

\* post fails: the request never reached the API, or it did or will
NotPosted(b) ==
    /\ late' \in {late, late \cup Recorded({b})}
    /\ UNCHANGED arrived

\* External: the API stores a batch after its sender gave up.
ArriveLate(b) ==
    /\ b \in late
    /\ late' = late \ {b}
    /\ arrived' = arrived \cup {b}
    /\ UNCHANGED <<pc, batch, ctx, replayMu, spool, spoolBytes, crashes, accepted, dropped>>

-----------------------------------------------------------------------------
\* Seeded defect: heartbeats are posted past the spool.
FirstStepHeartbeatPosts(p) == IF p = Heartbeat THEN "post" ELSE "replay"

\* sendChunk replays first
FirstStep(p) == "replay"

\* The next chunk of a flush, a marker or a heartbeat enters sendChunk ...
Send(p) ==
    /\ pc[p] = "idle"
    /\ p \in Watchers => batch[p] < MaxBatch
    /\ batch' = IF p = Heartbeat THEN batch ELSE [batch EXCEPT ![p] = @ + 1]
    /\ Goto(p, FirstStep(p))
    /\ UNCHANGED <<ctx, replayMu, spool, spoolBytes, crashes, late, arrived>>

\* ... or splitBatch finds an event above the request limit, and nothing is sent.
RejectOversized(p) ==
    /\ pc[p] = "idle" /\ p \in Watchers /\ batch[p] < MaxBatch
    /\ batch' = [batch EXCEPT ![p] = @ + 1]
    /\ dropped' = dropped \cup {<<p, batch[p] + 1>>}
    /\ UNCHANGED <<pc, ctx, replayMu, spool, spoolBytes, crashes, late, arrived, accepted>>

\* replay: lock.  No other code writes the directory without the lock, so the
\* names read now are the files until the unlock.
LockReplay(p) ==
    /\ pc[p] = "replay" /\ replayMu = None
    /\ replayMu' = p
    /\ Goto(p, "replaying")
    /\ UNCHANGED <<batch, ctx, spool, spoolBytes, crashes, late, arrived>>

\* what a removed file gives back to the counter
Released(b) == Size[b[1]]

\* The first file is posted and removed.  A crash or an error between the two
\* is NotPosted with the batch arriving late.
ReplayFile(p) ==
    /\ pc[p] = "replaying" /\ spool # <<>>
    /\ Posted(p, Head(spool))
    /\ spool' = Tail(spool)
    /\ spoolBytes' = spoolBytes - Released(Head(spool))
    /\ UNCHANGED <<pc, batch, ctx, replayMu, crashes, accepted, dropped>>

ReplayDone(p) ==
    /\ pc[p] = "replaying" /\ spool = <<>>
    /\ replayMu' = None
    /\ Goto(p, "post")
    /\ UNCHANGED <<batch, ctx, spool, spoolBytes, crashes, late, arrived>>

\* Seeded defect: a failed replay does not keep the batch from being posted.
AfterFailedReplayPost == "post"

\* what sendChunk does with the batch when the replay failed
AfterFailedReplay == "spool"

\* Seeded defect: the early return keeps the lock.
ReplayFailsLocked(p) ==
    /\ pc[p] = "replaying"
    /\ IF spool = <<>> THEN UNCHANGED <<late, arrived>> ELSE NotPosted(Head(spool))
    /\ Goto(p, AfterFailedReplay)
    /\ UNCHANGED <<batch, ctx, replayMu, spool, spoolBytes, crashes>>

\* The first error ends the replay (an unreadable directory too); files not yet
\* posted stay.
ReplayFails(p) ==
    /\ pc[p] = "replaying"
    /\ IF spool = <<>> THEN UNCHANGED <<late, arrived>> ELSE NotPosted(Head(spool))
    /\ replayMu' = None
    /\ Goto(p, AfterFailedReplay)
    /\ UNCHANGED <<batch, ctx, spool, spoolBytes, crashes>>

PostSucceeds(p) ==
    /\ pc[p] = "post"
    /\ Posted(p, Current(p))
    /\ Return(p, TRUE)
    /\ UNCHANGED <<batch, ctx, replayMu, spool, spoolBytes, crashes>>

PostFails(p) ==
    /\ pc[p] = "post"
    /\ NotPosted(Current(p))
    /\ Goto(p, "spool")
    /\ UNCHANGED <<batch, ctx, replayMu, spool, spoolBytes, crashes>>

-----------------------------------------------------------------------------
\* Seeded defect: a cancelled context is reported as success.
CheckContextReturnsNil(p) ==
    /\ pc[p] = "spool"
    /\ IF ctx[p] THEN Goto(p, "lock") ELSE Return(p, TRUE)
    /\ UNCHANGED <<batch, ctx, replayMu, spool, spoolBytes, crashes, late, arrived>>

\* spoolWithBackpressure: the context is looked at before every attempt.
CheckContext(p) ==
    /\ pc[p] = "spool"
    /\ IF ctx[p] THEN Goto(p, "lock") ELSE Return(p, FALSE)
    /\ UNCHANGED <<batch, ctx, replayMu, spool, spoolBytes, crashes, late, arrived>>

\* Seeded defect: off by one batch at the capacity.
FitsIfNotFull(p) == spoolBytes <= SpoolMaxBytes

Fits(p) == spoolBytes + Size[p] <= SpoolMaxBytes

\* spool under the lock: capacity or the filesystem reserve is reached; after a
\* metric and a pause the loop replays and posts before it spools again
SpoolFull(p) ==
    /\ pc[p] = "lock" /\ replayMu = None
    /\ Goto(p, "replay")
    /\ UNCHANGED <<batch, ctx, replayMu, spool, spoolBytes, crashes, late, arrived>>

\* ... or the directory or the filesystem cannot be used, which is no reason
\* to wait
SpoolError(p) ==
    /\ pc[p] = "lock" /\ replayMu = None
    /\ Return(p, FALSE)
    /\ UNCHANGED <<batch, ctx, replayMu, spool, spoolBytes, crashes, late, arrived>>

\* ... or the temporary file is created,
WriteTemporary(p) ==
    /\ pc[p] = "lock" /\ replayMu = None
    /\ Fits(p)
    /\ replayMu' = p
    /\ Goto(p, "writing")
    /\ UNCHANGED <<batch, ctx, spool, spoolBytes, crashes, late, arrived>>

\* and removed again when the write, the sync or the rename fails (ENOSPC and
\* EDQUOT count as a full spool),
WriteFails(p) ==
    /\ pc[p] = "writing"
    /\ replayMu' = None
    /\ Goto(p, "replay") \/ Return(p, FALSE)
    /\ UNCHANGED <<batch, ctx, spool, spoolBytes, crashes, late, arrived>>

\* Places a new name can take: names begin with the wall clock.
Positions == IF ClockSteps THEN 0..Len(spool) ELSE {Len(spool)}

\* sequence s with b after its first i elements
Inserted(s, i, b) ==
    [j \in 1..(Len(s) + 1) |-> IF j <= i THEN s[j] ELSE IF j = i + 1 THEN b ELSE s[j - 1]]

\* or renamed into place, which ends Send.
Rename(p) ==
    /\ pc[p] = "writing"
    /\ \E i \in Positions :
         spool' = Inserted(spool, i, Current(p))
    /\ spoolBytes' = spoolBytes + Size[p]
    /\ replayMu' = None
    /\ Return(p, TRUE)
    /\ UNCHANGED <<batch, ctx, crashes, late, arrived>>

-----------------------------------------------------------------------------
\* A lease is lost, a namespace revoked or a resource resynchronised.  The
\* heartbeat runs as long as the process; a process told to stop is a Crash.
Cancel(p) ==
    /\ p \in Watchers /\ ctx[p]
    /\ ctx' = [ctx EXCEPT ![p] = FALSE]
    /\ UNCHANGED <<pc, batch, replayMu, spool, spoolBytes, crashes, late, history>>

\* The goroutine has ended and a new one starts for the same shard.
Restart(p) ==
    /\ ~ctx[p] /\ pc[p] = "idle"
    /\ ctx' = [ctx EXCEPT ![p] = TRUE]
    /\ UNCHANGED <<pc, batch, replayMu, spool, spoolBytes, crashes, late, history>>

\* spoolUsage: the bytes of the .json files
Usage(files) ==
    LET usage[i \in 0..Len(files)] ==
          IF i = 0 THEN 0 ELSE usage[i - 1] + Size[files[i][1]]
    IN  usage[Len(files)]

\* The process dies anywhere and starts again (NewSender): the files remain, a
\* temporary file is never looked at, and what was being sent is gone.
Crash ==
    /\ crashes < MaxCrashes
    /\ crashes' = crashes + 1
    /\ dropped' = dropped \cup Recorded({Current(p) : p \in {q \in Senders : pc[q] # "idle"}})
    /\ pc' = [p \in Senders |-> "idle"]
    /\ ctx' = [p \in Senders |-> TRUE]
    /\ replayMu' = None
    /\ spoolBytes' = Usage(spool)
    /\ UNCHANGED <<batch, spool, late, arrived, accepted>>

-----------------------------------------------------------------------------
Init ==
    /\ pc = [p \in Senders |-> "idle"]
    /\ batch = [p \in Senders |-> 0]
    /\ ctx = [p \in Senders |-> TRUE]
    /\ replayMu = None
    /\ spool = <<>>
    /\ spoolBytes = 0
    /\ crashes = 0
    /\ late = {}
    /\ arrived = {}
    /\ accepted = {}
    /\ dropped = {}

\* what the lock is taken for in spool
LockSpool(p) == SpoolFull(p) \/ SpoolError(p) \/ WriteTemporary(p)

\* the steps of a sender inside Send, apart from taking the lock
Proceed(p) ==
    \/ ReplayFile(p) \/ ReplayDone(p) \/ ReplayFails(p)
    \/ PostSucceeds(p) \/ PostFails(p)
    \/ CheckContext(p)
    \/ WriteFails(p) \/ Rename(p)

Next ==
    \/ \E p \in Senders :
         \/ Send(p) \/ RejectOversized(p)
         \/ LockReplay(p) \/ LockSpool(p) \/ Proceed(p)
         \/ Cancel(p) \/ Restart(p)
    \/ \E b \in Batches : ArriveLate(b)
    \/ Crash

Spec == Init /\ [][Next]_vars

\* The heartbeat ticker never stops and a stopped collector is started again;
\* a goroutine inside Send proceeds; a Go mutex admits each waiter in the end;
\* and the API, asked again and again, answers at last.
Fairness ==
    /\ WF_vars(Send(Heartbeat))
    /\ \A p \in Senders :
         /\ WF_vars(Proceed(p))
         /\ SF_vars(LockReplay(p)) /\ SF_vars(LockSpool(p))
         /\ SF_vars(ReplayFile(p))

FairSpec == Spec /\ Fairness

-----------------------------------------------------------------------------
\* Every variable keeps its type, and the mutex is held exactly inside replay and
\* while a temporary file is written.
TypeOK ==
    /\ pc \in [Senders -> {"idle", "replay", "replaying", "post", "spool", "lock", "writing"}]
    /\ batch \in [Senders -> 0..MaxBatch] /\ batch[Heartbeat] = 0
    /\ \A p \in Watchers : pc[p] # "idle" => batch[p] # 0
    /\ ctx \in [Senders -> BOOLEAN]
    /\ replayMu \in Senders \cup {None}
    /\ \A p \in Senders : replayMu = p <=> pc[p] \in {"replaying", "writing"}
    /\ spool \in Seq(Batches \cup {Beat})
    /\ crashes \in 0..MaxCrashes
    /\ late \subseteq Batches /\ arrived \subseteq Batches
    /\ accepted \subseteq Batches /\ dropped \subseteq Batches

\* "Failed API deliveries are stored atomically in a persistent local spool": a
\* batch Send returned nil for has reached the API or has a file, whatever fails
\* and whenever the process dies.
NothingLost == accepted \subseteq arrived \cup Files

\* "... and replayed in order": the API never stores a batch of a shard for the
\* first time before an earlier one that was not given up.
FirstArrivalsInOrder ==
    \A p \in Watchers : \A n \in 1..MaxBatch : \A m \in 1..n :
      <<p, n>> \in arrived => <<p, m>> \in arrived \cup dropped

\* "Spool capacity is tracked under the existing replay lock": the counter is
\* exact, and the files never exceed the configured capacity.
SpoolAccounted == spoolBytes = Usage(spool) /\ spoolBytes <= SpoolMaxBytes

\* An accepted batch reaches the API, although its own sender may never send
\* again: any sender's next call, at the latest the heartbeat's, replays it.
EventuallyArrives == \A b \in Batches : b \in accepted ~> b \in arrived
=============================================================================
