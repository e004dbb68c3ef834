------------------------------- MODULE MCSpool -------------------------------
(* Instances of Spool for TLC. *)
EXTENDS Spool

\* the heartbeat's batches are the small ones
MCSize == [p \in Senders |-> IF p = Heartbeat THEN 1 ELSE 2]
=============================================================================
