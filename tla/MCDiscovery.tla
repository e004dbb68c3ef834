----------------------------- MODULE MCDiscovery -----------------------------
(* Instances of Discovery for TLC. *)
EXTENDS Discovery

CONSTANTS pods, nodes, home, team

\* two namespaces of one partition, both granted when the process starts
MCPods == {<<pods, home>>, <<pods, team>>}
MCPodGrants == {MCPods}
MCPodPartitionOf == [n \in {home, team} |-> 1]

\* a namespaced and a cluster-scoped resource, each the only one of its partition
MCScopes == {<<pods, home>>, <<nodes, Cluster>>}
MCScopeGrants == SUBSET MCScopes
MCScopePartitionOf == [n \in {home, Cluster} |-> IF n = Cluster THEN 0 ELSE 1]
=============================================================================
