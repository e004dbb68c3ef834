------------------------------ MODULE MCInbox ------------------------------
(* Inbox for TLC: one batch whose first event cannot be decoded. *)
EXTENDS Inbox

CONSTANT s1

MCShardOf == [e \in Events |-> s1]

MCBatches == {<<1, 2>>}
=============================================================================
