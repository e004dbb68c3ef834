------------------------------ MODULE MCQueues ------------------------------
(***************************************************************************)
(* The two queues in the database, the ingest inbox and the notification   *)
(* outbox, for TLC.  Whatever the one does leaves the rows of the other    *)
(* alone, so a behaviour follows one of them.                              *)
(***************************************************************************)
EXTENDS Inbox, Outbox, TLC

CONSTANTS s1, s2, r1

VARIABLE part  \* the queue that runs; the other one stays empty
queuesVars == <<part, vars, outboxVars>>

\* up to three events in one shard, one in another
MCShardOf == [e \in Events |-> IF e = 4 THEN s2 ELSE s1]

\* overlapping batches in different orders: redelivery, retries and two senders
MCBatches == {<<1, 2>>, <<3, 1>>, <<4>>}

\* for liveness: redelivery of part of a batch
MCFewBatches == {<<2, 1>>, <<1>>}

\* all entries of one resource: those of different resources share only the notifiers
MCResourceOf == [i \in Entries |-> r1]

\* clients are interchangeable, and so are workers and notifiers
MCSymmetry ==
    Permutations(Clients) \cup Permutations(Workers) \cup Permutations(Notifiers)

QueuesInit == part \in {"inbox", "outbox"} /\ Init /\ OutboxInit

QueuesNext ==
    /\ UNCHANGED part
    /\ \/ part = "inbox" /\ Next /\ UNCHANGED outboxVars
       \/ part = "outbox" /\ OutboxNext /\ UNCHANGED vars

QueuesSpec == QueuesInit /\ [][QueuesNext]_queuesVars

-----------------------------------------------------------------------------
\* Fairness and OutboxFairness.  Only one queue runs, so a condition on an action of
\* the one or of the other is the condition on the action of the one that runs; TLC's
\* effort doubles with each strong condition, which is why they are shared.
CONSTANTS w1, w2, n2

Inboxes(A)  == A /\ UNCHANGED <<part, outboxVars>>
Outboxes(A) == A /\ UNCHANGED <<part, vars>>

DrainFairness ==
    /\ \A c \in Clients : WF_vars(CommitEnqueue(c))
    /\ \A w \in Workers : WF_vars(BeginApply(w)) /\ WF_vars(SkipShard(w))
    /\ \A e \in Events : WF_vars(BecomeAvailable(e))
    /\ SF_queuesVars(Inboxes(LockShard(w1)) \/ Outboxes(Claim(n2, 1)))
    /\ SF_queuesVars(Inboxes(LockShard(w2)) \/ Outboxes(Claim(n2, 2)))
    /\ SF_queuesVars(Inboxes(ProcessBlock(w1)) \/ Outboxes(Send(n2)))
    /\ SF_queuesVars(Inboxes(ProcessBlock(w2)) \/ Outboxes(ProcessAnswered(n2)))
    /\ SF_queuesVars(Inboxes(CommitApply(w1)) \/ Outboxes(Delivered(n2)))
    /\ SF_queuesVars(Inboxes(CommitApply(w2)))
    /\ WF_outboxVars(Timeout(n2)) /\ WF_outboxVars(DeliveredFails(n2)) /\ WF_outboxVars(Retry(n2))
    /\ \A i \in Entries : WF_outboxVars(Expire(i)) /\ WF_outboxVars(RetryDue(i))

DrainSpec == QueuesSpec /\ DrainFairness
=============================================================================
