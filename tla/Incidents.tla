------------------------------ MODULE Incidents ------------------------------
(***************************************************************************)
(* What the notification outbox promises, without claims, attempts,        *)
(* timeouts, duplicate requests or retention: the incident of a resource   *)
(* goes through the entries queued for it one by one, in their order, each *)
(* once, and an entry is settled only after the incident went through it.  *)
(***************************************************************************)
EXTENDS Naturals

CONSTANTS Entries, ResourceOf

VARIABLES
    queued,   \* the entries there have been so far
    shown,    \* the entry each resource's incident shows; 0 for none
    settled   \* the entries nobody has to care about any more

incidentVars == <<queued, shown, settled>>

\* The entries of i's resource.
Siblings(i) == {j \in Entries : ResourceOf[j] = ResourceOf[i]}

-----------------------------------------------------------------------------
\* The state of a resource changes.
Raise(i) ==
    /\ i \notin queued
    /\ \A j \in Siblings(i) : j < i => j \in queued
    /\ queued' = queued \cup {i}
    /\ UNCHANGED <<shown, settled>>

\* The incident moves on to the next entry: all earlier ones, and no others, are behind.
Show(i) ==
    /\ i \in queued
    /\ \A j \in Siblings(i) : j <= shown[ResourceOf[i]] <=> j < i
    /\ shown' = [shown EXCEPT ![ResourceOf[i]] = i]
    /\ UNCHANGED <<queued, settled>>

\* An entry the incident went through is settled, once.
Settle(i) ==
    /\ i \in queued \ settled
    /\ i <= shown[ResourceOf[i]]
    /\ settled' = settled \cup {i}
    /\ UNCHANGED <<queued, shown>>

-----------------------------------------------------------------------------
IncidentsInit ==
    /\ queued = {}
    /\ shown = [r \in {ResourceOf[i] : i \in Entries} |-> 0]
    /\ settled = {}

IncidentsNext == \E i \in Entries : Raise(i) \/ Show(i) \/ Settle(i)

IncidentsSpec == IncidentsInit /\ [][IncidentsNext]_incidentVars
=============================================================================
