------------------------------ MODULE Federation ------------------------------
(***************************************************************************)
(* Reads of a directly federated API (federation.go): a PostgreSQL cache   *)
(* per request, coalesced background refreshes, a cooldown after a failed  *)
(* one and a single recovery probe after the cooldown.  Concurrent readers *)
(* look into the cache first and take federationMu afterwards; what they   *)
(* saw may be out of date by then.                                         *)
(*                                                                         *)
(* Freshness is a rank: 0 live, 1 stale, 2 unavailable.  Time is relative: *)
(* an entry grows older, a cooldown expires.  Nothing orders these with    *)
(* the refreshes in flight, which the 250 ms timeout only makes likely.    *)
(***************************************************************************)
EXTENDS Integers, FiniteSets

CONSTANTS
    Targets,     \* FederationTargets
    Keys,        \* the requests that are read; cache keys
    Ready,       \* the request /api/v1/health/ready
    Unmarked,    \* requests whose handler sets no X-Icinga-Freshness header
    Readers,     \* concurrent client requests
    WorstRank,   \* the worst freshness of the instance (2)
    MaxPending,  \* federationMaxPending
    Absent

ASSUME FederationAssumption ==
    /\ Ready \in Keys /\ Unmarked \subseteq Keys
    /\ WorstRank \in 0..2 /\ MaxPending \in Nat \ {0}
    /\ Absent \notin Keys

Ranks   == 0..WorstRank
Flights == Targets \X Keys

VARIABLES
    remote,   \* what a target answers with: its own freshness, or Down
    cache,    \* federation_cache: [Flights -> entry or Absent]
    retry,    \* federationRetry: none, cooling, or expired
    probe,    \* federationProbe
    pending,  \* federationPending: [Flights -> call or Absent]
    reader    \* the client requests

federationVars == <<remote, cache, retry, probe, pending, reader>>

Down    == -1
Resting == [phase |-> "idle"]

\* A response: the rank it is given and the rank the target had when it answered.
\* A cache entry also has an age: -1 below federationCacheTTL, else the rank that its
\* age stands for.
Response(rank, truth) == [kind |-> "ok", rank |-> rank, truth |-> truth]
Refused == [kind |-> "refused"]
Failed  == [kind |-> "failed"]

Worse(a, b) == IF b > a THEN b ELSE a

-----------------------------------------------------------------------------
(***************************************************************************)
(* Around the server.                                                      *)
(***************************************************************************)
\* A target fails, comes back, falls behind or catches up.
RemoteChanges(t) ==
    /\ \E r \in Ranks \cup {Down} : r # remote[t] /\ remote' = [remote EXCEPT ![t] = r]
    /\ UNCHANGED <<cache, retry, probe, pending, reader>>

GrowOlder(f) ==
    /\ cache[f] # Absent /\ cache[f].age < WorstRank
    /\ cache' = [cache EXCEPT ![f].age = @ + 1]
    /\ UNCHANGED <<remote, retry, probe, pending, reader>>

\* Cleanup removes old entries.
Evict(f) ==
    /\ cache[f] # Absent /\ cache[f].age = WorstRank
    /\ cache' = [cache EXCEPT ![f] = Absent]
    /\ UNCHANGED <<remote, retry, probe, pending, reader>>

CooldownEnds(t) ==
    /\ retry[t] = "cooling"
    /\ retry' = [retry EXCEPT ![t] = "expired"]
    /\ UNCHANGED <<remote, cache, probe, pending, reader>>

-----------------------------------------------------------------------------
(***************************************************************************)
(* federationRead.                                                         *)
(***************************************************************************)
\* Seeded defect: the age of the entry stands for its freshness.
AgeOnly(entry) == Worse(0, entry.age)

\* federationFreshness of the age, combined with the stored freshness
EntryRank(entry) == Worse(entry.rank, entry.age)

\* GetFederationCache: an entry that is new answers the request; the lookup may fail,
\* for example at its 50 ms deadline.
Lookup(r, f) ==
    /\ reader[r] = Resting
    /\ \E found \in {cache[f], Absent} :
         /\ found # Absent => found.age >= 0
         /\ reader' = [reader EXCEPT ![r] =
              [phase |-> "looked", flight |-> f,
               have |-> IF found = Absent THEN Absent
                        ELSE Response(EntryRank(found), found.truth)]]
    /\ UNCHANGED <<remote, cache, retry, probe, pending>>

knownFailed(t) == retry[t] # "none"

\* Seeded defect: every request of a target probes on its own.
ProbeEach(f) ==
    /\ pending[f] = Absent
    /\ retry[f[1]] # "cooling"
    /\ Cardinality({g \in Flights : pending[g] # Absent}) < MaxPending

\* whether a call is started
MayCall(f) ==
    /\ pending[f] = Absent
    /\ ~probe[f[1]]
    /\ retry[f[1]] # "cooling"
    /\ Cardinality({g \in Flights : pending[g] # Absent}) < MaxPending

\* Under federationMu: a refresh is started when it may be.  Cached data other than
\* readiness is returned, a target known to have failed and a busy one are errors;
\* otherwise the reader waits for the call, its own or another's.
Join(r) ==
    LET f     == reader[r].flight
        calls == MayCall(f) IN
    /\ reader[r].phase = "looked"
    /\ pending' = IF calls THEN [pending EXCEPT ![f] =
                     [probing |-> knownFailed(f[1]), result |-> Absent]] ELSE pending
    /\ probe' = IF calls /\ knownFailed(f[1]) THEN [probe EXCEPT ![f[1]] = TRUE] ELSE probe
    /\ reader' = [reader EXCEPT ![r] =
         IF \/ reader[r].have # Absent /\ f[2] # Ready
            \/ knownFailed(f[1])
            \/ pending[f] = Absent /\ ~calls
           THEN Resting
           ELSE [phase |-> "wait", flight |-> f]]
    /\ UNCHANGED <<remote, cache, retry>>

\* The client goes away; its call goes on.
Leave(r) ==
    /\ reader[r].phase \in {"looked", "wait"}
    /\ reader' = [reader EXCEPT ![r] = Resting]
    /\ UNCHANGED <<remote, cache, retry, probe, pending>>

-----------------------------------------------------------------------------
(***************************************************************************)
(* The refresh goroutine.                                                  *)
(***************************************************************************)
\* fetchFederation: without the header the response counts as live
Fetched(f) == Response(IF f[2] \in Unmarked THEN 0 ELSE remote[f[1]], remote[f[1]])

\* The target answers 2xx: the response is stored, unless that fails.
FetchOK(f) ==
    /\ pending[f] # Absent /\ pending[f].result = Absent
    /\ remote[f[1]] # Down
    /\ \E stored \in BOOLEAN :
         cache' = IF stored
           THEN [cache EXCEPT ![f] = [rank |-> Fetched(f).rank, truth |-> Fetched(f).truth,
                                      age |-> -1]]
           ELSE cache
    /\ pending' = [pending EXCEPT ![f].result = Fetched(f)]
    /\ UNCHANGED <<remote, retry, probe, reader>>

\* It answers 3xx or 4xx: not stored, and no failure.
FetchRefused(f) ==
    /\ pending[f] # Absent /\ pending[f].result = Absent
    /\ remote[f[1]] # Down
    /\ pending' = [pending EXCEPT ![f].result = Refused]
    /\ UNCHANGED <<remote, cache, retry, probe, reader>>

\* No answer in time, 5xx, or an invalid response.
FetchFailed(f) ==
    /\ pending[f] # Absent /\ pending[f].result = Absent
    /\ remote[f[1]] = Down
    /\ pending' = [pending EXCEPT ![f].result = Failed]
    /\ UNCHANGED <<remote, cache, retry, probe, reader>>

\* Seeded defect: only a failed probe takes back the mark.
ClearOnFailure(call) == call.probing /\ call.result.kind = "failed"

\* which call takes back federationProbe
EndsProbe(call) == call.probing

\* Under federationMu: the outcome decides the cooldown, the waiting readers return.
Finish(f) ==
    LET call == pending[f] IN
    /\ call # Absent /\ call.result # Absent
    /\ retry' = [retry EXCEPT ![f[1]] = IF call.result.kind = "failed" THEN "cooling" ELSE "none"]
    /\ probe' = IF EndsProbe(call) THEN [probe EXCEPT ![f[1]] = FALSE] ELSE probe
    /\ pending' = [pending EXCEPT ![f] = Absent]
    /\ reader' = [r \in Readers |->
         IF reader[r] = [phase |-> "wait", flight |-> f] THEN Resting ELSE reader[r]]
    /\ UNCHANGED <<remote, cache>>

-----------------------------------------------------------------------------
FederationInit ==
    /\ remote \in [Targets -> {0, Down}]
    /\ cache = [f \in Flights |-> Absent]
    /\ retry = [t \in Targets |-> "none"]
    /\ probe = [t \in Targets |-> FALSE]
    /\ pending = [f \in Flights |-> Absent]
    /\ reader = [r \in Readers |-> Resting]

Refresh(f) == FetchOK(f) \/ FetchRefused(f) \/ FetchFailed(f) \/ Finish(f)

FederationNext ==
    \/ \E t \in Targets : RemoteChanges(t) \/ CooldownEnds(t)
    \/ \E f \in Flights : GrowOlder(f) \/ Evict(f) \/ Refresh(f)
    \/ \E r \in Readers : Join(r) \/ Leave(r) \/ \E f \in Flights : Lookup(r, f)

\* Time passes, a refresh ends within its timeout, and a reader goes on.
CallsEnd ==
    /\ \A t \in Targets : WF_federationVars(CooldownEnds(t))
    /\ \A f \in Flights : WF_federationVars(Refresh(f))
    /\ \A r \in Readers : \A f \in Flights :
         SF_federationVars(Join(r) /\ reader[r].flight = f)

\* Clients keep reading.
ReadsContinue == \A r \in Readers : \A f \in Flights : SF_federationVars(Lookup(r, f))

FederationSpec ==
    FederationInit /\ [][FederationNext]_federationVars /\ CallsEnd /\ ReadsContinue

-----------------------------------------------------------------------------
\* "One recovery probe per failed target, across all paths/cache keys."
OneRecoveryProbe ==
    \A t \in Targets :
      Cardinality({f \in Flights : f[1] = t /\ pending[f] # Absent /\ pending[f].probing}) <= 1

\* "a local cache can never make stale Campus data live again": what a reader is served,
\* from the cache or by a call, is never ranked better than the target ranked itself
\* when it answered.
NeverLiveAgain ==
    /\ \A r \in Readers :
         reader[r].phase = "looked" /\ reader[r].have # Absent
         => reader[r].have.rank >= reader[r].have.truth
    /\ \A f \in Flights :
         pending[f] # Absent /\ pending[f].result # Absent /\ pending[f].result.kind = "ok"
         => pending[f].result.rank >= pending[f].result.truth

\* A target that stays up is not shunned for ever: while it is read, its cooldown and
\* its probe come to an end.
Recovers ==
    \A t \in Targets :
      <>[](remote[t] # Down) => <>[](retry[t] = "none" /\ ~probe[t])
=============================================================================
