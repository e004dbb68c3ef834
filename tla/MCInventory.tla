---------------------------- MODULE MCInventory ----------------------------
(* Inventory for TLC: a pod, and a warning Event about it. *)
EXTENDS Inventory

CONSTANTS pod, ev, d1, d2

MCReferent == [e \in WarningKinds |-> pod]

\* the pod is healthy, or has one of two problems, one of them with two reasons; the
\* Event comes in two versions, with and without an occurrence time
MCProjections ==
    {[id |-> pod, state |-> x[1], detail |-> x[2], version |-> 1, occurred |-> 0] :
        x \in {<<"ok", d1>>, <<"unknown", d1>>, <<"critical", d1>>, <<"critical", d2>>}}
    \cup
    {[id |-> ev, state |-> "warning", detail |-> d1, version |-> v, occurred |-> o] :
        v \in 1..2, o \in 0..1}
=============================================================================
