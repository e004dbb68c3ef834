---------------------------- MODULE ResourceLookup ----------------------------
(***************************************************************************)
(* What a client is told about resources: batchGet, resolveGraph and       *)
(* resolveSelector of server.go over GetIDs, ChildrenMany and              *)
(* ResolveSelector of store.go.  A server answers from its own inventory   *)
(* and asks its federated remotes, which run the same handlers, for the    *)
(* ids it does not have.  A behaviour is a situation of the clusters,      *)
(* chosen in Init, and the requests sent into it.                          *)
(*                                                                         *)
(* Freshness is a rank: 0 live, 1 stale, 2 unavailable.  Live is taken at  *)
(* its word: the inventory of a live server is what its cluster holds;     *)
(* any other may lack what exists and keep what does not.                  *)
(***************************************************************************)
EXTENDS Integers, FiniteSets, FiniteSetsExt

CONSTANTS
    Local,        \* the server that is asked
    Remotes,      \* its federation targets
    Ids,          \* resource ids; numbers
    Asked,        \* the sets of ids that clients ask for
    ClusterOf,    \* [Ids -> servers]: an id belongs to one cluster
    OwnerOf,      \* [Ids -> Ids \cup {0}]: owner references
    ServerRanks,  \* how fresh a server may be
    SelectorLimit \* the row limit of ResolveSelector (1000)

Servers == {Local} \cup Remotes

ASSUME ResourceLookupAssumption ==
    /\ Local \notin Remotes
    /\ Ids \subseteq Nat \ {0} /\ Asked \subseteq SUBSET Ids /\ IsFiniteSet(Ids) /\ IsFiniteSet(Remotes)
    /\ ClusterOf \in [Ids -> Servers] /\ OwnerOf \in [Ids -> Ids \cup {0}]
    /\ ServerRanks \subseteq 0..2 /\ SelectorLimit \in Nat \ {0}

States == {"ok", "warning", "unknown", "critical"}

VARIABLES
    exists,  \* the ids that exist in their clusters
    fresh,   \* localFreshness of every server
    store,   \* the ids in the inventory of every server, tombstones excluded
    answer,  \* how the call of a remote goes: the age of the answer, or why there is none
    reply    \* the last reply to a client

lookupVars == <<exists, fresh, store, answer, reply>>
situation  == <<exists, fresh, store, answer>>

Failing == {-1, -2}   \* no answer; an answer that cannot be read
NoReply == [kind |-> "none"]

WorstOf(ranks) == Max(ranks \cup {0})

-----------------------------------------------------------------------------
(***************************************************************************)
(* POST /resources/batch-get.  A result has the rank and the items of a    *)
(* remote's answer; a call that failed has rank 2 and no items, an answer  *)
(* that cannot be read leaves its ids uncertain as well.                   *)
(***************************************************************************)
NoResult(rank) == [readable |-> FALSE, rank |-> rank, items |-> {}]

\* Seeded defect: a live server is sure of what it does not have.
LocalCertain(s, results) == fresh[s] = 0

\* not uncertain: every source is live and was read
Certain(s, results) ==
    fresh[s] = 0 /\ \A q \in results : q.readable /\ q.rank = 0

\* batchGet at server s once the remotes have answered
BatchReply(s, ids, partial, results) ==
    LET own     == {[id |-> i, rank |-> fresh[s]] : i \in ids \cap store[s]}
        items   == own \cup UNION {q.items : q \in results}
        missing == ids \ {x.id : x \in items}
        rank    == WorstOf({fresh[s]} \cup {q.rank : q \in results} \cup {x.rank : x \in items})
    IN  IF ~partial /\ missing # {} /\ ~Certain(s, results)
          THEN [status |-> 503]
          ELSE [status |-> 200, rank |-> rank, items |-> items,
                unavailable |-> IF partial /\ ~Certain(s, results) THEN missing ELSE {}]

\* Seeded defect: the freshness of an answer is the one its items carry.
ItemRank(itemRank, callRank) == itemRank

\* the freshness of an item as the central server reports it
Combined(itemRank, callRank) == WorstOf({itemRank, callRank})

\* callFederated of a remote that handles the forwarded request itself: 503 is an error
BatchResult(r, missing) ==
    LET there == BatchReply(r, missing, FALSE, {}) IN
    IF answer[r] = -1 \/ there.status = 503 THEN NoResult(2)
    ELSE IF answer[r] = -2 THEN NoResult(there.rank)
    ELSE LET rank == Combined(there.rank, answer[r]) IN
         [readable |-> TRUE, rank |-> rank,
          items |-> {[id |-> x.id, rank |-> Combined(x.rank, rank)] : x \in there.items}]

BatchGet(ids, partial) ==
    LET missing == ids \ store[Local]
        results == IF missing = {} THEN {} ELSE {BatchResult(r, missing) : r \in Remotes}
        there   == BatchReply(Local, ids, partial, results) IN
    /\ reply' = IF there.status = 503 THEN NoReply
                ELSE [kind |-> "batch", ids |-> ids, rank |-> there.rank, items |-> there.items,
                      gone |-> ids \ ({x.id : x \in there.items} \cup there.unavailable)]
    /\ UNCHANGED situation

-----------------------------------------------------------------------------
(***************************************************************************)
(* POST /graph/resolve.  items are the resolved parents; their children    *)
(* carry at least the rank of the parent.                                  *)
(***************************************************************************)
\* ChildrenMany
Children(s, p) == {c \in store[s] : OwnerOf[c] = p}

GraphReply(s, ids, results) ==
    LET own     == {[id |-> p, rank |-> fresh[s], children |-> Children(s, p)] :
                     p \in ids \cap store[s]}
        parents == own \cup UNION {q.items : q \in results}
        missing == ids \ {x.id : x \in parents}
        unfound == IF missing = {} \/ Certain(s, results) THEN 0 ELSE 2
    IN  [rank |-> WorstOf({fresh[s], unfound} \cup {x.rank : x \in parents}),
         items |-> parents, unfound |-> unfound]

GraphResult(r, missing) ==
    LET there == GraphReply(r, missing, {})
        rank  == WorstOf({there.rank, answer[r]}) IN
    IF answer[r] \in Failing THEN NoResult(2)
    ELSE [readable |-> TRUE, rank |-> rank,
          items |-> {[x EXCEPT !.rank = Combined(@, rank)] : x \in there.items}]

\* "Local dependency graphs never query satellites."
ResolveGraph(ids) ==
    LET missing == ids \ store[Local]
        results == IF missing = {} THEN {} ELSE {GraphResult(r, missing) : r \in Remotes}
        there   == GraphReply(Local, ids, results) IN
    /\ reply' = [kind |-> "graph", ids |-> ids, rank |-> there.rank, items |-> there.items,
                 gone |-> IF there.unfound = 0 THEN ids \ {x.id : x \in there.items} ELSE {}]
    /\ UNCHANGED situation

-----------------------------------------------------------------------------
(***************************************************************************)
(* POST /selectors/resolve, of local rows.                                 *)
(***************************************************************************)
\* aggregateCounts: counts of the states
AggregateCounts(counts, total, op) ==
    IF total = 0 THEN "unknown"
    ELSE IF op = "or" /\ counts["ok"] > 0 THEN "ok"
    ELSE IF op = "and" /\ counts["ok"] = total THEN "ok"
    ELSE IF counts["critical"] > 0 THEN "critical"
    ELSE IF counts["unknown"] > 0 THEN "unknown"
    ELSE IF counts["warning"] > 0 THEN "warning"
    ELSE IF counts["ok"] > 0 THEN "ok"
    ELSE "unknown"

\* the first rows by id, up to the limit
Limited(rows) == {i \in rows : Cardinality({j \in rows : j < i}) < SelectorLimit}

\* Seeded defect: the states are counted over the rows that are returned.
CountedReturned(rows) == Limited(rows)

\* count(*) OVER () is evaluated before LIMIT
Counted(rows) == rows

ResolveSelector(op) ==
    LET rows == store[Local] IN
    \E stateOf \in [rows -> States] :
      LET counts == [x \in States |-> Cardinality({i \in Counted(rows) : stateOf[i] = x})] IN
      /\ reply' = [kind |-> "selector", op |-> op, stateOf |-> stateOf, items |-> Limited(rows),
                   state |-> AggregateCounts(counts, Cardinality(Counted(rows)), op)]
      /\ UNCHANGED situation

-----------------------------------------------------------------------------
InCluster(s, ids) == {i \in ids : ClusterOf[i] = s}

LookupInit ==
    /\ exists \in SUBSET Ids
    /\ fresh \in [Servers -> ServerRanks]
    /\ answer \in [Remotes -> ServerRanks \cup Failing]
    /\ store \in [Servers -> SUBSET Ids]
    /\ \A s \in Servers :
         IF fresh[s] = 0 /\ (s = Local \/ answer[s] = 0)
           THEN store[s] = InCluster(s, exists)
           ELSE store[s] \subseteq InCluster(s, Ids)
    /\ reply = NoReply

\* the client reads its reply and goes on
TakeReply ==
    /\ reply # NoReply
    /\ reply' = NoReply
    /\ UNCHANGED situation

LookupNext ==
    \/ /\ reply = NoReply
       /\ \/ \E ids \in Asked :
               \/ \E partial \in BOOLEAN : BatchGet(ids, partial)
               \/ ResolveGraph(ids)
          \/ \E op \in {"and", "or", "worst"} : ResolveSelector(op)
    \/ TakeReply

LookupSpec == LookupInit /\ [][LookupNext]_lookupVars

-----------------------------------------------------------------------------
\* "unavailable IDs must be treated as unknown, never as deleted": an id that exists is
\* never reported as certainly missing, whichever servers lag behind, fail or answer
\* from a cache.
NeverReportedGone ==
    reply.kind \in {"batch", "graph"} => reply.gone \cap exists = {}

\* A reply is never fresher than what it is made of: its items are at least as bad as
\* the server they come from and the age of its answer, and the reply as its items.
FreshnessIsWorst ==
    reply.kind \in {"batch", "graph"} =>
      \A x \in reply.items :
        LET s == ClusterOf[x.id] IN
        /\ reply.rank >= x.rank
        /\ x.rank >= fresh[s] /\ (s # Local => x.rank >= answer[s])

\* aggregate and worst of server.go, the definition the tests use
Aggregate(states, op) ==
    LET rank == [ok |-> 0, warning |-> 1, unknown |-> 2, critical |-> 3]
        worst == CHOOSE x \in states : \A y \in states : rank[y] <= rank[x] IN
    CASE states = {}                     -> "unknown"
      [] states # {} /\ op = "or"        -> IF "ok" \in states THEN "ok" ELSE worst
      [] states # {} /\ op # "or"        -> worst

\* The state of a selector is the aggregate over every row that matches, also of those
\* beyond the row limit.
SelectorCountsAll ==
    reply.kind = "selector" =>
      reply.state = Aggregate({reply.stateOf[i] : i \in DOMAIN reply.stateOf}, reply.op)
=============================================================================
