------------------------------ MODULE ApiProofs ------------------------------
(***************************************************************************)
(* What the handlers of the API process promise for any number of          *)
(* clients, targets, resources and rows: federated reads, the answers to   *)
(* batch, graph and selector requests, the change stream, cursor           *)
(* pagination, stored business processes and the service-account token.    *)
(* The parts share no state; every theorem is about one of them.           *)
(***************************************************************************)
EXTENDS ChangeStream, BusinessProcess, Listing, ResourceLookup, Federation, TokenSource,
        FiniteSetTheorems, SequenceTheorems, TLAPS

-----------------------------------------------------------------------------
(***************************************************************************)
(* Federation.                                                             *)
(***************************************************************************)
Answers == [kind: {"ok"}, rank: Ranks, truth: Ranks]
Cached  == [rank: Ranks, truth: Ranks, age: -1..WorstRank]
Calls   == [probing: BOOLEAN, result: Answers \cup {Refused, Failed, Absent}]

\* The values of the variables.
FederationTypeOK ==
    /\ remote \in [Targets -> Ranks \cup {Down}]
    /\ cache \in [Flights -> Cached \cup {Absent}]
    /\ probe \in [Targets -> BOOLEAN]
    /\ pending \in [Flights -> Calls \cup {Absent}]
    /\ reader \in [Readers -> {Resting}
                     \cup [phase: {"looked"}, flight: Flights, have: Answers \cup {Absent}]
                     \cup [phase: {"wait"}, flight: Flights]]

Probing(f) == pending[f] # Absent /\ pending[f].probing

\* A probe in flight has marked its target, and is the only one of it.
ProbesAreMarked ==
    \A f \in Flights : Probing(f) =>
      /\ probe[f[1]]
      /\ \A g \in Flights : Probing(g) /\ g[1] = f[1] => g = f

\* What is said about a request whose handler states its freshness is no better than
\* what the target said about itself: in the cache, in a reader's hands, in a result.
CachedHonestly(f) ==
    cache[f] # Absent => cache[f].rank >= cache[f].truth

HeldHonestly(r) ==
    /\ reader[r].phase = "looked"
    /\ reader[r].flight[2] \notin Unmarked
    /\ reader[r].have # Absent
    => reader[r].have.rank >= reader[r].have.truth

AnsweredHonestly(f) ==
    pending[f] # Absent /\ pending[f].result # Absent /\ pending[f].result.kind = "ok"
    => pending[f].result.rank >= pending[f].result.truth

\* NeverLiveAgain for the requests that are marked, and the cache it rests on.
MarkedNeverLiveAgain ==
    /\ \A f \in Flights : f[2] \notin Unmarked => CachedHonestly(f) /\ AnsweredHonestly(f)
    /\ \A r \in Readers : HeldHonestly(r)

FederationInv == FederationTypeOK /\ ProbesAreMarked /\ MarkedNeverLiveAgain

\* Ranks are numbers, and a target that answers has one.
LEMMA RankFacts ==
    /\ Ranks \subseteq Int /\ WorstRank \in Nat
    /\ Down \notin Ranks
    /\ \A f \in Flights : f[1] \in Targets /\ f[2] \in Keys
    /\ \A a, b \in Int : Worse(a, b) \in Int /\ Worse(a, b) >= a /\ Worse(a, b) >= b
                         /\ (Worse(a, b) = a \/ Worse(a, b) = b)
BY FederationAssumption DEF Ranks, Down, Flights, Worse

\* Initially nothing is cached, pending or read.
LEMMA FederationInitInv == FederationInit => FederationInv
<1> SUFFICES ASSUME FederationInit PROVE FederationInv
  OBVIOUS
<1>1. 0 \in Ranks
  BY FederationAssumption DEF Ranks
<1>2. FederationTypeOK
  BY <1>1 DEF FederationInit, FederationTypeOK
<1>3. ProbesAreMarked
  BY DEF FederationInit, ProbesAreMarked, Probing
<1>4. MarkedNeverLiveAgain
  BY DEF FederationInit, MarkedNeverLiveAgain, CachedHonestly, AnsweredHonestly, HeldHonestly, Resting
<1> QED
  BY <1>2, <1>3, <1>4 DEF FederationInv

\* The values of the variables, step by step.
LEMMA FederationNextType ==
    ASSUME FederationTypeOK, [FederationNext]_federationVars
    PROVE  FederationTypeOK'
<1> USE DEF FederationTypeOK
<1>1. ASSUME NEW t \in Targets, RemoteChanges(t) \/ CooldownEnds(t) PROVE FederationTypeOK'
  BY <1>1 DEF RemoteChanges, CooldownEnds
<1>2. ASSUME NEW f \in Flights, GrowOlder(f) \/ Evict(f) PROVE FederationTypeOK'
  <2>1. CASE GrowOlder(f)
    <3>1. cache[f] \in Cached /\ cache[f].age < WorstRank
          /\ cache' = [cache EXCEPT ![f] = [cache[f] EXCEPT !.age = cache[f].age + 1]]
      BY <2>1 DEF GrowOlder
    <3>2. [cache[f] EXCEPT !.age = cache[f].age + 1] \in Cached
      BY <3>1, RankFacts DEF Cached
    <3> QED
      BY <2>1, <3>1, <3>2 DEF GrowOlder
  <2>2. CASE Evict(f)
    BY <2>2 DEF Evict
  <2> QED
    BY <1>2, <2>1, <2>2
<1>3. ASSUME NEW f \in Flights, FetchOK(f) PROVE FederationTypeOK'
  <2>1. remote[f[1]] \in Ranks /\ 0 \in Ranks
    BY <1>3, RankFacts, FederationAssumption DEF FetchOK, Ranks
  <2>2. /\ Fetched(f) \in Answers
        /\ [rank |-> Fetched(f).rank, truth |-> Fetched(f).truth, age |-> -1] \in Cached
    BY <2>1, RankFacts DEF Fetched, Response, Answers, Cached
  <2>3. cache' \in [Flights -> Cached \cup {Absent}]
    BY <1>3, <2>2 DEF FetchOK
  <2>4. [pending[f] EXCEPT !.result = Fetched(f)] \in Calls
    BY <1>3, <2>2 DEF FetchOK, Calls
  <2>5. pending' \in [Flights -> Calls \cup {Absent}]
    BY <1>3, <2>4 DEF FetchOK
  <2> QED
    BY <1>3, <2>3, <2>5 DEF FetchOK
<1>4. ASSUME NEW f \in Flights, FetchRefused(f) \/ FetchFailed(f) PROVE FederationTypeOK'
  <2>1. \A x \in {Refused, Failed} : [pending[f] EXCEPT !.result = x] \in Calls
    BY <1>4 DEF FetchRefused, FetchFailed, Calls
  <2>2. pending' \in [Flights -> Calls \cup {Absent}]
    BY <1>4, <2>1 DEF FetchRefused, FetchFailed
  <2> QED
    BY <1>4, <2>2 DEF FetchRefused, FetchFailed
<1>5. ASSUME NEW f \in Flights, Finish(f) PROVE FederationTypeOK'
  BY <1>5, RankFacts DEF Finish
<1>6. ASSUME NEW r \in Readers, Join(r) PROVE FederationTypeOK'
  <2>1. reader[r].flight \in Flights /\ reader[r].phase = "looked"
    BY <1>6 DEF Join, Resting
  <2>2. \A x \in BOOLEAN : [probing |-> x, result |-> Absent] \in Calls
    BY DEF Calls
  <2>3. pending' \in [Flights -> Calls \cup {Absent}]
    BY <1>6, <2>1, <2>2 DEF Join, knownFailed
  <2>4. probe' \in [Targets -> BOOLEAN]
    BY <1>6, <2>1, RankFacts DEF Join
  <2>5. [phase |-> "wait", flight |-> reader[r].flight] \in [phase: {"wait"}, flight: Flights]
    BY <2>1
  <2>6. reader' \in [Readers -> {Resting}
                     \cup [phase: {"looked"}, flight: Flights, have: Answers \cup {Absent}]
                     \cup [phase: {"wait"}, flight: Flights]]
    BY <1>6, <2>5 DEF Join
  <2> QED
    BY <1>6, <2>3, <2>4, <2>6 DEF Join
<1>7. ASSUME NEW r \in Readers, Leave(r) PROVE FederationTypeOK'
  BY <1>7 DEF Leave
<1>8. ASSUME NEW r \in Readers, NEW f \in Flights, Lookup(r, f) PROVE FederationTypeOK'
  <2>1. PICK found \in {cache[f], Absent} :
          reader' = [reader EXCEPT ![r] =
              [phase |-> "looked", flight |-> f,
               have |-> IF found = Absent THEN Absent
                        ELSE Response(EntryRank(found), found.truth)]]
    BY <1>8 DEF Lookup
  <2>2. found # Absent => Response(EntryRank(found), found.truth) \in Answers
    <3> SUFFICES ASSUME found \in Cached PROVE EntryRank(found) \in Ranks
      BY <2>1 DEF Response, Answers, Cached
    <3> QED
      BY FederationAssumption DEF EntryRank, Worse, Ranks, Cached
  <2>3. [phase |-> "looked", flight |-> f,
         have |-> IF found = Absent THEN Absent ELSE Response(EntryRank(found), found.truth)]
        \in [phase: {"looked"}, flight: Flights, have: Answers \cup {Absent}]
    BY <2>2
  <2> QED
    BY <1>8, <2>1, <2>3 DEF Lookup
<1>9. CASE UNCHANGED federationVars
  BY <1>9 DEF federationVars
<1> QED
  BY <1>1, <1>2, <1>3, <1>4, <1>5, <1>6, <1>7, <1>8, <1>9 DEF FederationNext, Refresh

\* A call starts a probe only while its target has none marked, and only the probe that
\* ends takes the mark back.
LEMMA FederationNextProbes ==
    ASSUME FederationTypeOK, ProbesAreMarked, [FederationNext]_federationVars
    PROVE  ProbesAreMarked'
<1> USE DEF ProbesAreMarked, Probing
<1>1. ASSUME UNCHANGED <<probe, pending>> PROVE ProbesAreMarked'
  BY <1>1
<1>2. ASSUME NEW f \in Flights, FetchOK(f) \/ FetchRefused(f) \/ FetchFailed(f)
      PROVE  ProbesAreMarked'
  <2>1. pending[f] \in Calls /\ pending[f] # Absent
    BY <1>2 DEF FetchOK, FetchRefused, FetchFailed, FederationTypeOK
  <2>2. PICK x : pending' = [pending EXCEPT ![f] = [pending[f] EXCEPT !.result = x]]
    BY <1>2 DEF FetchOK, FetchRefused, FetchFailed
  <2>3. [pending[f] EXCEPT !.result = x].probing = pending[f].probing
    BY <2>1 DEF Calls
  <2>4. \A g \in Flights : Probing(g)' => Probing(g)
    BY <2>1, <2>2, <2>3 DEF FederationTypeOK
  <2>5. UNCHANGED probe
    BY <1>2 DEF FetchOK, FetchRefused, FetchFailed
  <2> QED
    BY <2>4, <2>5
<1>3. ASSUME NEW f \in Flights, Finish(f) PROVE ProbesAreMarked'
  <2>1. /\ \A g \in Flights : Probing(g)' => Probing(g) /\ g # f
        /\ ~Probing(f) => probe' = probe
        /\ \A t \in Targets : t # f[1] => probe'[t] = probe[t]
    BY <1>3, RankFacts DEF Finish, EndsProbe, FederationTypeOK
  <2> QED
    BY <2>1, RankFacts DEF FederationTypeOK
<1>4. ASSUME NEW r \in Readers, Join(r) PROVE ProbesAreMarked'
  <2>0. reader[r].flight \in Flights
    BY <1>4 DEF Join, FederationTypeOK, Resting
  <2>1. PICK f \in Flights : f = reader[r].flight /\ f[1] \in Targets
    BY <2>0, RankFacts
  <2>2. CASE ~MayCall(f)
    BY <1>4, <2>1, <2>2 DEF Join
  <2>3. CASE MayCall(f)
    <3>1. ~probe[f[1]]
      BY <2>3 DEF MayCall
    <3>2. pending' = [pending EXCEPT ![f] = [probing |-> knownFailed(f[1]), result |-> Absent]]
      BY <1>4, <2>1, <2>3 DEF Join
    <3>3. probe' = IF knownFailed(f[1]) THEN [probe EXCEPT ![f[1]] = TRUE] ELSE probe
      BY <1>4, <2>1, <2>3 DEF Join
    <3>4. \A g \in Flights : /\ g # f => Probing(g)' = Probing(g)
                             /\ Probing(g) => g[1] # f[1]
      BY <2>1, <3>1, <3>2 DEF FederationTypeOK
    <3>5. Probing(f)' => knownFailed(f[1])
      BY <2>1, <3>2 DEF FederationTypeOK, Calls
    <3>6. \A g \in Flights : g[1] \in Targets
      BY RankFacts
    <3> QED
      BY <2>1, <3>3, <3>4, <3>5, <3>6 DEF FederationTypeOK
  <2> QED
    BY <2>2, <2>3
<1> QED
  BY <1>1, <1>2, <1>3, <1>4 DEF FederationNext, Refresh, RemoteChanges, CooldownEnds, GrowOlder,
     Evict, Leave, Lookup, federationVars

\* Age only worsens a rank, and a marked answer carries the target's own.
LEMMA FederationNextHonest ==
    ASSUME FederationTypeOK, MarkedNeverLiveAgain, [FederationNext]_federationVars
    PROVE  MarkedNeverLiveAgain'
<1> USE DEF MarkedNeverLiveAgain
<1>1. ASSUME UNCHANGED <<cache, pending, reader>> PROVE MarkedNeverLiveAgain'
  BY <1>1 DEF CachedHonestly, HeldHonestly, AnsweredHonestly
<1>2. ASSUME NEW f \in Flights, GrowOlder(f) \/ Evict(f) PROVE MarkedNeverLiveAgain'
  <2>1. \A g \in Flights : CachedHonestly(g) => CachedHonestly(g)'
    BY <1>2 DEF GrowOlder, Evict, FederationTypeOK, Cached, CachedHonestly
  <2>2. UNCHANGED <<pending, reader>>
    BY <1>2 DEF GrowOlder, Evict
  <2> QED
    BY <2>1, <2>2 DEF AnsweredHonestly, HeldHonestly
<1>3. ASSUME NEW f \in Flights, FetchOK(f) \/ FetchRefused(f) \/ FetchFailed(f)
      PROVE  MarkedNeverLiveAgain'
  <2>1. f[2] \notin Unmarked =>
          Fetched(f).rank = remote[f[1]] /\ Fetched(f).truth = remote[f[1]]
    BY DEF Fetched, Response
  <2>2. pending[f] \in Calls
    BY <1>3 DEF FetchOK, FetchRefused, FetchFailed, FederationTypeOK
  <2>3. PICK x : /\ pending' = [pending EXCEPT ![f] = [pending[f] EXCEPT !.result = x]]
                 /\ \/ x = Fetched(f) /\ FetchOK(f)
                    \/ x \in {Refused, Failed} /\ cache' = cache
    BY <1>3 DEF FetchOK, FetchRefused, FetchFailed
  <2>4. [pending[f] EXCEPT !.result = x].result = x
    BY <2>2 DEF Calls
  <2>5. FetchOK(f) => remote[f[1]] \in Int
    BY RankFacts DEF FetchOK, FederationTypeOK
  <2>6. f[2] \notin Unmarked /\ x # Absent /\ x.kind = "ok" => x.rank >= x.truth
    BY <2>1, <2>3, <2>5 DEF Refused, Failed
  <2>7. \A g \in Flights : g[2] \notin Unmarked => AnsweredHonestly(g)'
    BY <2>3, <2>4, <2>6 DEF AnsweredHonestly, FederationTypeOK
  <2>8. \A g \in Flights : g[2] \notin Unmarked => CachedHonestly(g)'
    BY <2>1, <2>3, <2>5 DEF CachedHonestly, FetchOK, FederationTypeOK
  <2>9. \A r \in Readers : HeldHonestly(r)'
    BY <1>3 DEF FetchOK, FetchRefused, FetchFailed, HeldHonestly
  <2> QED
    BY <2>7, <2>8, <2>9
<1>4. ASSUME NEW f \in Flights, Finish(f) PROVE MarkedNeverLiveAgain'
  <2>1. \A g \in Flights : pending'[g] = pending[g] \/ pending'[g] = Absent
    BY <1>4 DEF Finish, FederationTypeOK
  <2>2. \A r \in Readers : reader'[r] = reader[r] \/ reader'[r] = Resting
    BY <1>4 DEF Finish
  <2> QED
    BY <1>4, <2>1, <2>2 DEF Finish, CachedHonestly, AnsweredHonestly, HeldHonestly, Resting
<1>5. ASSUME NEW r \in Readers, Join(r) PROVE MarkedNeverLiveAgain'
  <2>1. \A g \in Flights : \/ pending'[g] = pending[g]
                           \/ \E x \in BOOLEAN : pending'[g] = [probing |-> x, result |-> Absent]
    BY <1>5 DEF Join, FederationTypeOK, knownFailed
  <2>2. \A q \in Readers : \/ reader'[q] = reader[q]
                           \/ reader'[q].phase # "looked"
    BY <1>5 DEF Join, FederationTypeOK, Resting
  <2> QED
    BY <1>5, <2>1, <2>2 DEF Join, CachedHonestly, AnsweredHonestly, HeldHonestly
<1>6. ASSUME NEW r \in Readers, Leave(r) PROVE MarkedNeverLiveAgain'
  <2>1. \A q \in Readers : reader'[q] = reader[q] \/ reader'[q] = Resting
    BY <1>6 DEF Leave, FederationTypeOK
  <2> QED
    BY <1>6, <2>1 DEF Leave, CachedHonestly, AnsweredHonestly, HeldHonestly, Resting
<1>7. ASSUME NEW r \in Readers, NEW f \in Flights, Lookup(r, f) PROVE MarkedNeverLiveAgain'
  <2>1. PICK found \in {cache[f], Absent} :
          reader' = [reader EXCEPT ![r] =
              [phase |-> "looked", flight |-> f,
               have |-> IF found = Absent THEN Absent
                        ELSE Response(EntryRank(found), found.truth)]]
    BY <1>7 DEF Lookup
  <2>2. found # Absent /\ f[2] \notin Unmarked =>
          Response(EntryRank(found), found.truth).rank >= Response(EntryRank(found), found.truth).truth
    <3> SUFFICES ASSUME found = cache[f], found \in Cached, found.rank >= found.truth
                 PROVE  EntryRank(found) >= found.truth
      BY <2>1 DEF Response, FederationTypeOK, CachedHonestly
    <3> QED
      BY FederationAssumption DEF EntryRank, Worse, Cached, Ranks
  <2>3. HeldHonestly(r)'
    BY <2>1, <2>2 DEF HeldHonestly, FederationTypeOK
  <2>4. \A q \in Readers \ {r} : reader'[q] = reader[q]
    BY <2>1 DEF FederationTypeOK
  <2> QED
    BY <1>7, <2>3, <2>4 DEF Lookup, CachedHonestly, AnsweredHonestly, HeldHonestly
<1> QED
  BY <1>1, <1>2, <1>3, <1>4, <1>5, <1>6, <1>7 DEF FederationNext, Refresh, RemoteChanges,
     CooldownEnds, federationVars

\* The inductive invariant of federated reads.
THEOREM FederationInvariant == FederationSpec => []FederationInv
<1>1. FederationInv /\ [FederationNext]_federationVars => FederationInv'
  BY FederationNextType, FederationNextProbes, FederationNextHonest DEF FederationInv
<1> QED
  BY <1>1, FederationInitInv, PTL DEF FederationSpec

\* However many readers of however many paths find a target's cooldown expired at the
\* same moment, at most one probe of the target is in flight.
THEOREM SingleProbe == FederationSpec => []OneRecoveryProbe
<1>1. FederationInv => OneRecoveryProbe
  <2> SUFFICES ASSUME FederationInv, NEW t \in Targets
               PROVE  Cardinality({f \in Flights : f[1] = t /\ Probing(f)}) <= 1
    BY DEF OneRecoveryProbe, Probing
  <2> DEFINE S == {f \in Flights : f[1] = t /\ Probing(f)}
  <2>1. CASE S = {}
    BY <2>1, FS_EmptySet
  <2>2. CASE S # {}
    <3>1. PICK f \in S : S = {f}
      BY <2>2 DEF FederationInv, ProbesAreMarked
    <3> QED
      BY <3>1, FS_Singleton
  <2> QED
    BY <2>1, <2>2
<1> QED
  BY <1>1, FederationInvariant, PTL

\* For every request whose handler states its freshness, neither the cache nor a call
\* makes the answer better than the target said it was.
THEOREM MarkedAnswersAreHonest == FederationSpec => []MarkedNeverLiveAgain
<1>1. FederationInv => MarkedNeverLiveAgain
  BY DEF FederationInv
<1> QED
  BY <1>1, FederationInvariant, PTL

\* If all handlers state their freshness, no reader is served anything better than the
\* target said it was.
THEOREM AnswersAreHonest ==
    ASSUME Unmarked = {}
    PROVE  FederationSpec => []NeverLiveAgain
<1>1. FederationInv => NeverLiveAgain
  BY DEF FederationInv, MarkedNeverLiveAgain, NeverLiveAgain, HeldHonestly, AnsweredHonestly
<1> QED
  BY <1>1, FederationInvariant, PTL

-----------------------------------------------------------------------------
(***************************************************************************)
(* BusinessProcess.                                                        *)
(***************************************************************************)
Stored == [definition: Definitions, generation: Nat \ {0}, stamp: Nat, creation: Nat]

\* The values of the variables.  A row carries the current creation; nobody has read
\* one of a later creation.
ProcessTypeOK ==
    /\ row \in Stored \cup {Missing} /\ known \in [Editors -> Stored \cup {Missing}]
    /\ writes \in Nat /\ creation \in Nat
    /\ row # Missing => row.creation = creation
    /\ \A c \in Editors : known[c] # Missing => known[c].creation <= creation

\* Within one creation a generation names one write, and the row has the highest.
GenerationsNameWrites ==
    \A c \in Editors :
      row # Missing /\ known[c] # Missing /\ known[c].creation = row.creation
      => /\ known[c].generation <= row.generation
         /\ known[c].generation = row.generation => known[c].stamp = row.stamp

ProcessInv == ProcessTypeOK /\ GenerationsNameWrites

\* What a PUT stores: the next generation of the creation it read, or the first one of
\* a new creation.
LEMMA NewRowFacts ==
    ASSUME ProcessInv, NEW c \in Editors, NEW d \in Definitions, Matches(Expected(c)),
           NEW new, new = NewRow(d, Expected(c))
    PROVE  /\ new \in Stored
           /\ \/ /\ row = Missing /\ new.creation = creation + 1
              \/ /\ row # Missing /\ new.creation = creation
                 /\ new.generation = row.generation + 1 /\ known[c] # Missing
                 /\ known[c].generation = row.generation
<1>1. CASE row = Missing
  <2>1. Expected(c) = 0
    BY <1>1 DEF Matches
  <2> QED
    BY <1>1, <2>1 DEF NewRow, Stored, ProcessInv, ProcessTypeOK
<1>2. CASE row # Missing
  <2>1. row \in Stored /\ row.generation = Expected(c) /\ Expected(c) # 0
    BY <1>2 DEF Matches, ProcessInv, ProcessTypeOK, Stored
  <2>2. known[c] # Missing /\ known[c].generation = row.generation
    BY <2>1 DEF Expected
  <2> QED
    BY <1>2, <2>1, <2>2 DEF NewRow, Stored, ProcessInv, ProcessTypeOK
<1> QED
  BY <1>1, <1>2

\* Every request preserves the invariant.
LEMMA ProcessNextInv == ProcessInv /\ [ProcessNext]_processVars => ProcessInv'
<1> SUFFICES ASSUME ProcessInv, [ProcessNext]_processVars PROVE ProcessInv'
  OBVIOUS
<1>1. ASSUME NEW c \in Editors, GetBusinessProcess(c) PROVE ProcessInv'
  BY <1>1 DEF GetBusinessProcess, ProcessInv, ProcessTypeOK, GenerationsNameWrites, Stored
<1>2. ASSUME NEW c \in Editors, NEW d \in Definitions, NEW replied \in BOOLEAN,
             PutBusinessProcess(c, d, replied)
      PROVE  ProcessInv'
  <2>1. PICK new : new = NewRow(d, Expected(c))
    OBVIOUS
  <2>2. /\ row' = new /\ creation' = new.creation /\ writes' = writes + 1
        /\ Matches(Expected(c))
        /\ known' = [known EXCEPT ![c] = new] \/ known' = known
    BY <1>2, <2>1 DEF PutBusinessProcess
  <2>3. new \in Stored
        /\ (\/ row = Missing /\ new.creation = creation + 1
            \/ row # Missing /\ new.creation = creation /\ new.generation = row.generation + 1)
    BY <2>1, <2>2, NewRowFacts
  <2>4. \A e \in Editors : known'[e] = known[e] \/ known'[e] = new
    BY <2>2 DEF ProcessInv, ProcessTypeOK
  <2>5. ProcessTypeOK'
    BY <2>2, <2>3, <2>4 DEF ProcessInv, ProcessTypeOK, Stored
  <2>6. GenerationsNameWrites'
    BY <2>2, <2>3, <2>4 DEF ProcessInv, ProcessTypeOK, GenerationsNameWrites, Stored
  <2> QED
    BY <2>5, <2>6 DEF ProcessInv
<1>3. ASSUME NEW c \in Editors, NEW replied \in BOOLEAN, DeleteBusinessProcess(c, replied)
      PROVE  ProcessInv'
  BY <1>3 DEF DeleteBusinessProcess, ProcessInv, ProcessTypeOK, GenerationsNameWrites
<1>4. CASE UNCHANGED processVars
  BY <1>4 DEF processVars, ProcessInv, ProcessTypeOK, GenerationsNameWrites
<1> QED
  BY <1>1, <1>2, <1>3, <1>4 DEF ProcessNext

\* The inductive invariant of a stored process.
THEOREM ProcessInvariant == ProcessSpec => []ProcessInv
<1>1. ProcessInit => ProcessInv
  BY DEF ProcessInit, ProcessInv, ProcessTypeOK, GenerationsNameWrites
<1> QED
  BY <1>1, ProcessNextInv, PTL DEF ProcessSpec

\* For any number of clients, also of clients whose replies are lost, a PUT or DELETE
\* that succeeds replaces what its client read last, unless the process was created
\* anew in between.
THEOREM UpdatesAreNotLost == ProcessSpec => NoLostUpdate
<1> DEFINE Step == row # Missing /\ row' # row
                   => LET base == known[author'] IN
                      base # Missing /\ (base.stamp = row.stamp \/ base.creation # row.creation)
<1>1. ProcessInv /\ [ProcessNext]_processVars => [Step]_processVars
  <2> SUFFICES ASSUME ProcessInv, ProcessNext, row # Missing, row' # row
               PROVE  /\ known[author'] # Missing
                      /\ \/ known[author'].stamp = row.stamp
                         \/ known[author'].creation # row.creation
    OBVIOUS
  <2>1. PICK c \in Editors :
          author' = c /\ known[c] # Missing /\ known[c].generation = row.generation
    <3>1. ASSUME NEW c \in Editors, NEW d \in Definitions, NEW replied \in BOOLEAN,
                 PutBusinessProcess(c, d, replied)
          PROVE  author' = c /\ known[c] # Missing /\ known[c].generation = row.generation
      BY <3>1, NewRowFacts DEF PutBusinessProcess
    <3>2. ASSUME NEW c \in Editors, NEW replied \in BOOLEAN, DeleteBusinessProcess(c, replied)
          PROVE  author' = c /\ known[c] # Missing /\ known[c].generation = row.generation
      BY <3>2 DEF DeleteBusinessProcess, Matches, Expected
    <3> QED
      BY <3>1, <3>2 DEF ProcessNext, GetBusinessProcess
  <2> QED
    BY <2>1 DEF ProcessInv, GenerationsNameWrites
<1> QED
  BY <1>1, ProcessInvariant, PTL DEF ProcessSpec, NoLostUpdate

-----------------------------------------------------------------------------
(***************************************************************************)
(* TokenSource.                                                            *)
(***************************************************************************)
\* The values of the variables, and that a request waiting to invalidate its token was
\* refused with it.
TokenInv ==
    /\ source \in [token: Nat, expires: Nat, refresh: Nat]
    /\ now \in Nat /\ issued \in Nat
    /\ request \in [Clients -> [phase: {"idle", "sent", "refused"}, token: Nat, expires: Nat]]
    /\ \A c \in Clients : request[c].phase = "refused" => request[c].token \in refused

\* Every step preserves it.
LEMMA TokenNextInv == TokenInv /\ [TokenNext]_tokenVars => TokenInv'
<1> SUFFICES ASSUME TokenInv, [TokenNext]_tokenVars PROVE TokenInv'
  OBVIOUS
<1> USE DEF TokenInv
<1>1. CASE Tick \/ Revoke \/ UNCHANGED tokenVars
  BY <1>1 DEF Tick, Revoke, tokenVars
<1>2. ASSUME NEW c \in Clients, CachedToken(c) PROVE TokenInv'
  BY <1>2 DEF CachedToken, Attach, Carrying
<1>3. ASSUME NEW c \in Clients, BeginRefresh(c) PROVE TokenInv'
  BY <1>3 DEF BeginRefresh
<1>4. ASSUME NEW c \in Clients, Refreshed(c) PROVE TokenInv'
  <2>1. PICK life \in 1..Lifetime :
         /\ source' = [token |-> issued + 1, expires |-> now + life,
                       refresh |-> now + (life * 4) \div 5]
         /\ request' = [request EXCEPT ![c] = Carrying(issued + 1, now + life)]
    BY <1>4 DEF Refreshed
  <2>2. life \in Nat /\ (life * 4) \div 5 \in Nat
    BY TokenSourceAssumption
  <2> QED
    BY <1>4, <2>1, <2>2 DEF Refreshed, Carrying
<1>5. ASSUME NEW c \in Clients, RefreshFailed(c) PROVE TokenInv'
  BY <1>5, TokenSourceAssumption DEF RefreshFailed, Attach, Carrying
<1>6. ASSUME NEW c \in Clients, Answer(c) PROVE TokenInv'
  BY <1>6 DEF Answer, NoRequest
<1>7. ASSUME NEW c \in Clients, Invalidate(c) PROVE TokenInv'
  BY <1>7 DEF Invalidate, NoRequest, Forget
<1> QED
  BY <1>1, <1>2, <1>3, <1>4, <1>5, <1>6, <1>7 DEF TokenNext

\* For any number of requests, however late their answers, a 401 discards only the
\* token it was given for: one that replaced it stays.
THEOREM OthersKeepTheirToken == TokenSpec => OnlyRefusedIsDropped
<1> DEFINE Step == source.token # 0 /\ source'.token # source.token
                   => source.token \in refused \/ source'.token = issued'
<1>1. TokenInit => TokenInv
  BY DEF TokenInit, TokenInv, NoRequest
<1>2. TokenInv /\ [TokenNext]_tokenVars => [Step]_tokenVars
  <2> SUFFICES ASSUME TokenInv, TokenNext, source'.token # source.token
               PROVE  source.token \in refused \/ source'.token = issued'
    OBVIOUS
  <2>1. ASSUME NEW c \in Clients, Refreshed(c) PROVE source'.token = issued'
    BY <2>1 DEF Refreshed
  <2>2. ASSUME NEW c \in Clients, RefreshFailed(c) PROVE FALSE
    BY <2>2 DEF RefreshFailed, TokenInv
  <2>3. ASSUME NEW c \in Clients, Invalidate(c) PROVE source.token \in refused
    BY <2>3 DEF Invalidate, Forget, TokenInv
  <2> QED
    BY <2>1, <2>2, <2>3 DEF TokenNext, Tick, Revoke, CachedToken, BeginRefresh, Answer
<1> QED
  BY <1>1, <1>2, TokenNextInv, PTL DEF TokenSpec, OnlyRefusedIsDropped

-----------------------------------------------------------------------------
(***************************************************************************)
(* ResourceLookup.                                                         *)
(***************************************************************************)
\* The situation a request is answered in: a live server has what its cluster holds,
\* any other only resources of its cluster.
SituationOK ==
    /\ exists \in SUBSET Ids
    /\ fresh \in [Servers -> 0..2]
    /\ answer \in [Remotes -> -2..2]
    /\ store \in [Servers -> SUBSET Ids]
    /\ \A s \in Servers : \A i \in store[s] : ClusterOf[i] = s
    /\ \A s \in Servers : fresh[s] = 0 /\ (s = Local \/ answer[s] = 0) =>
         \A i \in exists : ClusterOf[i] = s => i \in store[s]

LookupInv == SituationOK /\ NeverReportedGone /\ FreshnessIsWorst /\ SelectorCountsAll

\* The worst of some ranks is a rank, and none of them is worse.
LEMMA WorstOfRanks ==
    ASSUME NEW S \in SUBSET (-2..2)
    PROVE  WorstOf(S) \in 0..2 /\ \A x \in S : x <= WorstOf(S)
<1>1. \E m \in S \cup {0} : \A x \in S \cup {0} : m >= x
  <2>1. CASE 2 \in S
    BY <2>1
  <2>2. CASE 2 \notin S /\ 1 \in S
    BY <2>2
  <2>3. CASE 2 \notin S /\ 1 \notin S
    BY <2>3
  <2> QED
    BY <2>1, <2>2, <2>3
<1>2. WorstOf(S) \in S \cup {0} /\ \A x \in S \cup {0} : WorstOf(S) >= x
  BY <1>1 DEF WorstOf, Max
<1>3. \A x \in S : x \in Int /\ x <= 2
  OBVIOUS
<1>4. PICK m \in S \cup {0} : m = WorstOf(S)
  BY <1>2
<1>5. m \in Int /\ m <= 2 /\ m >= 0 /\ \A x \in S : x <= m
  BY <1>2, <1>3, <1>4
<1> QED
  BY <1>4, <1>5

RankedResults(results) ==
    \A y \in results : y.rank \in 0..2 /\ \A x \in y.items : x.rank \in 0..2

\* A reply of server s, made of its inventory and the results of others, has what they
\* have and is as bad as the worst of its items and as the server.
ReplyOf(s, ids, results, there) ==
    /\ \A x \in there.items :
         \/ x.id \in ids \cap store[s] /\ x.rank = fresh[s]
         \/ \E y \in results : x \in y.items
    /\ \A i \in ids \cap store[s] : \E x \in there.items : x.id = i
    /\ \A y \in results : y.items \subseteq there.items
    /\ there.rank \in 0..2 /\ fresh[s] <= there.rank
    /\ \A x \in there.items : x.rank \in 0..2 /\ x.rank <= there.rank

\* An id that a batch reply does not mention is missing from sources that are certain.
BatchReplyOK(s, ids, results, there) ==
    /\ ReplyOf(s, ids, results, there)
    /\ Certain(s, results) \/ \A i \in ids : \/ i \in there.unavailable
                                             \/ \E x \in there.items : x.id = i

\* What a remote contributes: items of its own cluster that are no fresher than the
\* remote or its answer; if it is readable and live, everything that was asked for and
\* exists there.
ResultOK(r, missing, q) ==
    /\ q.rank \in 0..2
    /\ \A x \in q.items : /\ x.id \in Ids /\ ClusterOf[x.id] = r
                          /\ x.rank \in 0..2 /\ x.rank >= fresh[r] /\ x.rank >= answer[r]
    /\ q.readable /\ q.rank = 0 =>
         \A i \in missing \cap exists : ClusterOf[i] = r => \E x \in q.items : x.id = i

\* That is what batchGet replies unless it answers 503.
LEMMA BatchReplies ==
    ASSUME NEW s, NEW ids, NEW partial \in BOOLEAN, NEW results,
           fresh[s] \in 0..2, RankedResults(results),
           NEW there, there = BatchReply(s, ids, partial, results), there.status # 503
    PROVE  BatchReplyOK(s, ids, results, there)
<1>1. PICK own : own = {[id |-> i, rank |-> fresh[s]] : i \in ids \cap store[s]}
  OBVIOUS
<1>2. PICK items : items = {[id |-> i, rank |-> fresh[s]] : i \in ids \cap store[s]}
                           \cup UNION {y.items : y \in results}
  OBVIOUS
<1>3. PICK missing : missing = ids \ {x.id : x \in items}
  OBVIOUS
<1>4. PICK ranks : ranks = {fresh[s]} \cup {y.rank : y \in results} \cup {x.rank : x \in items}
  OBVIOUS
<1>5. there = IF ~partial /\ missing # {} /\ ~Certain(s, results) THEN [status |-> 503]
              ELSE [status |-> 200, rank |-> WorstOf(ranks), items |-> items,
                    unavailable |-> IF partial /\ ~Certain(s, results) THEN missing ELSE {}]
  BY <1>2, <1>3, <1>4 DEF BatchReply
<1>6. /\ there.rank = WorstOf(ranks) /\ there.items = items
      /\ there.unavailable = missing \/ missing = {} \/ Certain(s, results)
  BY <1>5
<1>7. \A x \in own : x.id \in ids \cap store[s] /\ x.rank = fresh[s]
  BY <1>1
<1>8. \A i \in ids \cap store[s] : \E x \in own : x.id = i
  <2> SUFFICES ASSUME NEW i \in ids \cap store[s] PROVE \E x \in own : x.id = i
    OBVIOUS
  <2>1. PICK x : x = [id |-> i, rank |-> fresh[s]]
    OBVIOUS
  <2>2. x \in own /\ x.id = i
    BY <1>1, <2>1
  <2> QED
    BY <2>2
<1>9. \A x \in items : x.rank \in 0..2
  BY <1>1, <1>2, <1>7 DEF RankedResults
<1>10. ranks \in SUBSET (-2..2) /\ fresh[s] \in ranks /\ \A x \in items : x.rank \in ranks
  BY <1>4, <1>9 DEF RankedResults
<1>11. WorstOf(ranks) \in 0..2 /\ \A k \in ranks : k <= WorstOf(ranks)
  BY <1>10, WorstOfRanks
<1>12. own \cup UNION {y.items : y \in results} = items
  BY <1>1, <1>2
<1>13. \A y \in results : y.items \subseteq items
  BY <1>2
<1>14. \A x \in items : x \in own \/ \E y \in results : x \in y.items
  BY <1>12
<1>15. \A i \in ids : i \in missing \/ \E x \in items : x.id = i
  BY <1>3
<1> QED
  BY <1>6, <1>7, <1>8, <1>9, <1>10, <1>11, <1>12, <1>13, <1>14, <1>15 DEF BatchReplyOK, ReplyOf

\* That is what batchGet is given by a remote that runs batchGet itself.
LEMMA BatchResults ==
    ASSUME SituationOK, NEW r \in Remotes, NEW missing \in SUBSET Ids,
           NEW q, q = BatchResult(r, missing)
    PROVE  ResultOK(r, missing, q)
<1> USE DEF ResultOK
<1>1. r \in Servers /\ r # Local /\ fresh[r] \in 0..2 /\ answer[r] \in -2..2
  BY ResourceLookupAssumption DEF SituationOK, Servers
<1>2. PICK there : there = BatchReply(r, missing, FALSE, {})
  OBVIOUS
<1>3. there.status # 503 =>
        /\ \A x \in there.items : x.id \in missing \cap store[r] /\ x.rank \in 0..2
        /\ \A i \in missing \cap store[r] : \E x \in there.items : x.id = i
        /\ there.rank \in 0..2 /\ fresh[r] <= there.rank
  <2>1. PICK results : results = {}
    OBVIOUS
  <2>2. RankedResults(results)
    BY <2>1 DEF RankedResults
  <2>3. there.status # 503 => BatchReplyOK(r, missing, results, there)
    BY <1>1, <1>2, <2>1, <2>2, BatchReplies
  <2> QED
    BY <1>1, <2>1, <2>3 DEF BatchReplyOK, ReplyOf
<1>4. PICK rank : rank = Combined(there.rank, answer[r])
  OBVIOUS
<1>5. there.status # 503 => rank \in 0..2 /\ there.rank <= rank /\ answer[r] <= rank
  BY <1>1, <1>3, <1>4, WorstOfRanks DEF Combined
<1>6. PICK items : items = {[id |-> x.id, rank |-> Combined(x.rank, rank)] : x \in there.items}
  OBVIOUS
<1>7. there.status # 503 =>
        \A x \in items : x.id \in missing \cap store[r] /\ x.rank \in 0..2 /\ x.rank >= rank
  <2>1. there.status # 503 => \A x \in there.items :
          Combined(x.rank, rank) \in 0..2 /\ Combined(x.rank, rank) >= rank
    BY <1>3, <1>5, WorstOfRanks DEF Combined
  <2> QED
    BY <1>3, <1>6, <2>1
<1>8. there.status # 503 => \A i \in missing \cap store[r] : \E x \in items : x.id = i
  <2> SUFFICES ASSUME there.status # 503, NEW i \in missing \cap store[r]
               PROVE  \E x \in items : x.id = i
    OBVIOUS
  <2>1. PICK y \in there.items : y.id = i
    BY <1>3
  <2>2. PICK x : x = [id |-> y.id, rank |-> Combined(y.rank, rank)]
    OBVIOUS
  <2>3. x \in items /\ x.id = i
    BY <1>6, <2>1, <2>2
  <2> QED
    BY <2>3
<1>9. q = IF answer[r] = -1 \/ there.status = 503 THEN NoResult(2)
          ELSE IF answer[r] = -2 THEN NoResult(there.rank)
          ELSE [readable |-> TRUE, rank |-> rank, items |-> items]
  BY <1>2, <1>4, <1>6, Zenon DEF BatchResult
<1>10. CASE answer[r] = -1 \/ answer[r] = -2 \/ there.status = 503
  BY <1>3, <1>9, <1>10 DEF NoResult
<1>11. CASE answer[r] # -1 /\ answer[r] # -2 /\ there.status # 503
  <2>1. q.items = items /\ q.rank = rank
    BY <1>9, <1>11
  <2>2. \A x \in q.items : /\ x.id \in Ids /\ ClusterOf[x.id] = r
                           /\ x.rank \in 0..2 /\ x.rank >= fresh[r] /\ x.rank >= answer[r]
    BY <1>1, <1>3, <1>5, <1>7, <1>11, <2>1 DEF SituationOK
  <2>3. ASSUME q.rank = 0, NEW i \in missing \cap exists, ClusterOf[i] = r
        PROVE  \E x \in q.items : x.id = i
    <3>1. fresh[r] = 0 /\ answer[r] = 0
      BY <1>1, <1>3, <1>5, <1>11, <2>1, <2>3
    <3>2. i \in store[r]
      BY <1>1, <2>3, <3>1 DEF SituationOK
    <3> QED
      BY <1>8, <1>11, <2>1, <3>2
  <2> QED
    BY <1>5, <1>11, <2>1, <2>2, <2>3
<1> QED
  BY <1>10, <1>11

\* A graph reply says that nothing is unfound only if its sources are certain or all
\* ids were found.
GraphReplyOK(s, ids, results, there) ==
    /\ ReplyOf(s, ids, results, there)
    /\ there.unfound = 0 => Certain(s, results) \/ \A i \in ids : \E x \in there.items : x.id = i

\* What resolveGraph replies.
LEMMA GraphReplies ==
    ASSUME NEW s, NEW ids, NEW results,
           fresh[s] \in 0..2, RankedResults(results),
           NEW there, there = GraphReply(s, ids, results)
    PROVE  GraphReplyOK(s, ids, results, there)
<1>1. PICK own : own = {[id |-> p, rank |-> fresh[s], children |-> Children(s, p)] :
                          p \in ids \cap store[s]}
  OBVIOUS
<1>2. PICK items : items = own \cup UNION {y.items : y \in results}
  OBVIOUS
<1>3. PICK missing : missing = ids \ {x.id : x \in items}
  OBVIOUS
<1>4. PICK unfound : unfound = IF missing = {} \/ Certain(s, results) THEN 0 ELSE 2
  OBVIOUS
<1>5. PICK ranks : ranks = {fresh[s], unfound} \cup {x.rank : x \in items}
  OBVIOUS
<1>6. there = [rank |-> WorstOf(ranks), items |-> items, unfound |-> unfound]
  BY <1>1, <1>2, <1>3, <1>4, <1>5 DEF GraphReply
<1>7. \A x \in own : x.id \in ids \cap store[s] /\ x.rank = fresh[s]
  BY <1>1
<1>8. \A i \in ids \cap store[s] : \E x \in own : x.id = i
  <2> SUFFICES ASSUME NEW i \in ids \cap store[s] PROVE \E x \in own : x.id = i
    OBVIOUS
  <2>1. PICK x : x = [id |-> i, rank |-> fresh[s], children |-> Children(s, i)]
    OBVIOUS
  <2>2. x \in own /\ x.id = i
    BY <1>1, <2>1
  <2> QED
    BY <2>2
<1>9. \A x \in items : x.rank \in 0..2
  BY <1>2, <1>7 DEF RankedResults
<1>10. /\ ranks \in SUBSET (-2..2) /\ fresh[s] \in ranks
       /\ \A x \in items : x.rank \in ranks
  BY <1>4, <1>5, <1>9
<1>11. WorstOf(ranks) \in 0..2 /\ \A k \in ranks : k <= WorstOf(ranks)
  BY <1>10, WorstOfRanks
<1>12. \A i \in ids : i \in missing \/ \E x \in items : x.id = i
  BY <1>3
<1>13. /\ \A y \in results : y.items \subseteq items
       /\ \A x \in items : x \in own \/ \E y \in results : x \in y.items
       /\ own \subseteq items
  BY <1>2
<1>14. there.rank = WorstOf(ranks) /\ there.items = items /\ there.unfound = unfound
  BY <1>6
<1>15. unfound = 0 => missing = {} \/ Certain(s, results)
  BY <1>4
<1> QED
  BY <1>7, <1>8, <1>9, <1>10, <1>11, <1>12, <1>13, <1>14, <1>15 DEF GraphReplyOK, ReplyOf

\* A remote's own graph items are records whose rank is replaced field by field.
LEMMA GraphItems ==
    ASSUME NEW s, NEW ids, NEW x \in GraphReply(s, ids, {}).items, NEW k
    PROVE  [x EXCEPT !.rank = k].id = x.id /\ [x EXCEPT !.rank = k].rank = k
<1>1. UNION {y.items : y \in {}} = {}
  OBVIOUS
<1>2. PICK p \in ids \cap store[s] : x = [id |-> p, rank |-> fresh[s], children |-> Children(s, p)]
  BY <1>1 DEF GraphReply
<1> QED
  BY <1>2

\* What resolveGraph is given by a remote that runs resolveGraph itself.
LEMMA GraphResults ==
    ASSUME SituationOK, NEW r \in Remotes, NEW missing \in SUBSET Ids,
           NEW q, q = GraphResult(r, missing)
    PROVE  ResultOK(r, missing, q)
<1>1. r \in Servers /\ r # Local /\ fresh[r] \in 0..2 /\ answer[r] \in -2..2
  BY ResourceLookupAssumption DEF SituationOK, Servers
<1>2. PICK there : there = GraphReply(r, missing, {})
  OBVIOUS
<1>3. /\ \A x \in there.items : x.id \in missing \cap store[r] /\ x.rank \in 0..2
      /\ \A i \in missing \cap store[r] : \E x \in there.items : x.id = i
      /\ there.rank \in 0..2 /\ fresh[r] <= there.rank
  <2>1. PICK results : results = {}
    OBVIOUS
  <2>2. RankedResults(results)
    BY <2>1 DEF RankedResults
  <2>3. GraphReplyOK(r, missing, results, there)
    BY <1>1, <1>2, <2>1, <2>2, GraphReplies
  <2> QED
    BY <1>1, <2>1, <2>3 DEF GraphReplyOK, ReplyOf
<1>4. PICK rank : rank = WorstOf({there.rank, answer[r]})
  OBVIOUS
<1>5. rank \in 0..2 /\ there.rank <= rank /\ answer[r] <= rank
  BY <1>1, <1>3, <1>4, WorstOfRanks
<1>6. PICK items : items = {[x EXCEPT !.rank = Combined(x.rank, rank)] : x \in there.items}
  OBVIOUS
<1>7. \A x \in there.items :
        /\ [x EXCEPT !.rank = Combined(x.rank, rank)].id = x.id
        /\ [x EXCEPT !.rank = Combined(x.rank, rank)].rank \in 0..2
        /\ [x EXCEPT !.rank = Combined(x.rank, rank)].rank >= rank
  <2> SUFFICES ASSUME NEW x \in there.items
               PROVE  /\ [x EXCEPT !.rank = Combined(x.rank, rank)].id = x.id
                      /\ [x EXCEPT !.rank = Combined(x.rank, rank)].rank \in 0..2
                      /\ [x EXCEPT !.rank = Combined(x.rank, rank)].rank >= rank
    OBVIOUS
  <2>1. Combined(x.rank, rank) \in 0..2 /\ Combined(x.rank, rank) >= rank
    BY <1>3, <1>5, WorstOfRanks DEF Combined
  <2> QED
    BY <1>2, <2>1, GraphItems
<1>8. \A y \in items : y.id \in missing \cap store[r] /\ y.rank \in 0..2 /\ y.rank >= rank
  BY <1>3, <1>6, <1>7
<1>9. \A i \in missing \cap store[r] : \E y \in items : y.id = i
  <2> SUFFICES ASSUME NEW i \in missing \cap store[r] PROVE \E y \in items : y.id = i
    OBVIOUS
  <2>1. PICK x \in there.items : x.id = i
    BY <1>3
  <2>2. PICK y : y = [x EXCEPT !.rank = Combined(x.rank, rank)]
    OBVIOUS
  <2>3. y \in items /\ y.id = i
    BY <1>6, <1>7, <2>1, <2>2
  <2> QED
    BY <2>3
<1>10. q = IF answer[r] \in Failing THEN NoResult(2)
           ELSE [readable |-> TRUE, rank |-> rank, items |-> items]
  BY <1>2, <1>4, <1>6 DEF GraphResult
<1>11. CASE answer[r] \in Failing
  BY <1>10, <1>11 DEF NoResult, ResultOK
<1>12. CASE answer[r] \notin Failing
  <2>1. q.items = items /\ q.rank = rank
    BY <1>10, <1>12
  <2>2. \A x \in q.items : /\ x.id \in Ids /\ ClusterOf[x.id] = r
                           /\ x.rank \in 0..2 /\ x.rank >= fresh[r] /\ x.rank >= answer[r]
    BY <1>1, <1>3, <1>5, <1>8, <2>1 DEF SituationOK
  <2>3. ASSUME q.rank = 0, NEW i \in missing \cap exists, ClusterOf[i] = r
        PROVE  \E x \in q.items : x.id = i
    <3>1. fresh[r] = 0 /\ answer[r] = 0
      BY <1>1, <1>3, <1>5, <1>12, <2>1, <2>3 DEF Failing
    <3>2. i \in store[r]
      BY <1>1, <2>3, <3>1 DEF SituationOK
    <3> QED
      BY <1>9, <2>1, <2>3, <3>2
  <2> QED
    BY <1>5, <2>1, <2>2, <2>3 DEF ResultOK
<1> QED
  BY <1>11, <1>12

\* The results that a request for some ids was answered from: those of all remotes,
\* unless the server had everything itself.
Gathered(ids, results) ==
    /\ \A q \in results : \E r \in Remotes : ResultOK(r, ids \ store[Local], q)
    /\ ids \ store[Local] # {} =>
         \A r \in Remotes : \E q \in results : ResultOK(r, ids \ store[Local], q)

ItemsFresh(there) ==
    \A x \in there.items :
      /\ there.rank >= x.rank /\ x.rank >= fresh[ClusterOf[x.id]]
      /\ ClusterOf[x.id] # Local => x.rank >= answer[ClusterOf[x.id]]

HasExisting(ids, there) == \A i \in ids \cap exists : \E x \in there.items : x.id = i

\* A reply made of them is no fresher than its sources, and if they are certain it has
\* every id that exists.
LEMMA GatheredReplies ==
    ASSUME SituationOK, NEW ids \in SUBSET Ids, NEW results, Gathered(ids, results),
           NEW there, ReplyOf(Local, ids, results, there)
    PROVE  /\ ItemsFresh(there)
           /\ Certain(Local, results) => HasExisting(ids, there)
<1>1. Local \in Servers /\ fresh[Local] \in 0..2
  BY DEF SituationOK, Servers
<1>2. ASSUME NEW x \in there.items
      PROVE  /\ there.rank >= x.rank /\ x.rank >= fresh[ClusterOf[x.id]]
             /\ ClusterOf[x.id] # Local => x.rank >= answer[ClusterOf[x.id]]
  <2>1. x.rank \in 0..2 /\ there.rank \in 0..2 /\ there.rank >= x.rank
    BY <1>2 DEF ReplyOf
  <2>2. CASE x.id \in ids \cap store[Local] /\ x.rank = fresh[Local]
    BY <1>1, <2>1, <2>2 DEF SituationOK
  <2>3. CASE \E y \in results : x \in y.items
    BY <2>1, <2>3 DEF Gathered, ResultOK
  <2> QED
    BY <1>2, <2>2, <2>3 DEF ReplyOf
<1>3. ASSUME Certain(Local, results), NEW i \in ids \cap exists
      PROVE  \E x \in there.items : x.id = i
  <2>1. CASE ClusterOf[i] = Local
    <3>1. i \in store[Local]
      BY <1>1, <1>3, <2>1 DEF Certain, SituationOK
    <3> QED
      BY <3>1 DEF ReplyOf
  <2>2. CASE ClusterOf[i] # Local
    <3>1. ClusterOf[i] \in Remotes /\ i \in ids \ store[Local]
      BY <1>1, <2>2, ResourceLookupAssumption DEF SituationOK, Servers
    <3>2. PICK q \in results : ResultOK(ClusterOf[i], ids \ store[Local], q)
      BY <3>1 DEF Gathered
    <3>3. \E x \in q.items : x.id = i
      BY <1>3, <3>1, <3>2 DEF Certain, ResultOK
    <3> QED
      BY <3>2, <3>3 DEF ReplyOf
  <2> QED
    BY <2>1, <2>2
<1> QED
  BY <1>2, <1>3 DEF ItemsFresh, HasExisting

\* A reply to batchGet is as good as its sources.
LEMMA BatchGetReplies ==
    ASSUME SituationOK, NEW ids \in SUBSET Ids, NEW partial \in BOOLEAN, BatchGet(ids, partial)
    PROVE  NeverReportedGone' /\ FreshnessIsWorst' /\ SelectorCountsAll'
<1>1. PICK missing : missing = ids \ store[Local]
  OBVIOUS
<1>2. PICK results : results = IF missing = {} THEN {} ELSE {BatchResult(r, missing) : r \in Remotes}
  OBVIOUS
<1>3. PICK there : there = BatchReply(Local, ids, partial, results)
  OBVIOUS
<1>4. /\ reply' = IF there.status = 503 THEN NoReply
                  ELSE [kind |-> "batch", ids |-> ids, rank |-> there.rank, items |-> there.items,
                        gone |-> ids \ ({x.id : x \in there.items} \cup there.unavailable)]
      /\ UNCHANGED <<exists, fresh, store, answer>>
  BY <1>1, <1>2, <1>3 DEF BatchGet, situation
<1>5. Gathered(ids, results)
  <2>1. missing \in SUBSET Ids
    BY <1>1
  <2>2. \A r \in Remotes : ResultOK(r, missing, BatchResult(r, missing))
    BY <2>1, BatchResults
  <2> QED
    BY <1>1, <1>2, <2>2 DEF Gathered
<1>6. RankedResults(results) /\ fresh[Local] \in 0..2
  BY <1>5 DEF Gathered, ResultOK, RankedResults, SituationOK, Servers
<1>7. CASE there.status = 503
  BY <1>4, <1>7 DEF NoReply, NeverReportedGone, FreshnessIsWorst, SelectorCountsAll
<1>8. CASE there.status # 503
  <2>1. BatchReplyOK(Local, ids, results, there)
    BY <1>3, <1>6, <1>8, BatchReplies
  <2>2. /\ reply'.kind = "batch" /\ reply'.rank = there.rank /\ reply'.items = there.items
        /\ reply'.gone = ids \ ({x.id : x \in there.items} \cup there.unavailable)
    BY <1>4, <1>8
  <2>3. ReplyOf(Local, ids, results, there)
    BY <2>1 DEF BatchReplyOK
  <2>4. ItemsFresh(there) /\ (Certain(Local, results) => HasExisting(ids, there))
    BY <1>5, <2>3, GatheredReplies
  <2>5. \A i \in ids \cap exists : i \in there.unavailable \/ \E x \in there.items : x.id = i
    BY <2>1, <2>4 DEF BatchReplyOK, HasExisting
  <2>6. NeverReportedGone'
    BY <1>4, <2>2, <2>5 DEF NeverReportedGone
  <2>7. FreshnessIsWorst'
    BY <1>4, <2>2, <2>4 DEF FreshnessIsWorst, ItemsFresh
  <2> QED
    BY <2>2, <2>6, <2>7 DEF SelectorCountsAll
<1> QED
  BY <1>7, <1>8

\* A reply to resolveGraph is as good as its sources.
LEMMA ResolveGraphReplies ==
    ASSUME SituationOK, NEW ids \in SUBSET Ids, ResolveGraph(ids)
    PROVE  NeverReportedGone' /\ FreshnessIsWorst' /\ SelectorCountsAll'
<1>1. PICK missing : missing = ids \ store[Local]
  OBVIOUS
<1>2. PICK results : results = IF missing = {} THEN {} ELSE {GraphResult(r, missing) : r \in Remotes}
  OBVIOUS
<1>3. PICK there : there = GraphReply(Local, ids, results)
  OBVIOUS
<1>4. /\ reply' = [kind |-> "graph", ids |-> ids, rank |-> there.rank, items |-> there.items,
                   gone |-> IF there.unfound = 0 THEN ids \ {x.id : x \in there.items} ELSE {}]
      /\ UNCHANGED <<exists, fresh, store, answer>>
  BY <1>1, <1>2, <1>3 DEF ResolveGraph, situation
<1>5. Gathered(ids, results)
  <2>1. missing \in SUBSET Ids
    BY <1>1
  <2>2. \A r \in Remotes : ResultOK(r, missing, GraphResult(r, missing))
    BY <2>1, GraphResults
  <2> QED
    BY <1>1, <1>2, <2>2 DEF Gathered
<1>6. RankedResults(results) /\ fresh[Local] \in 0..2
  BY <1>5 DEF Gathered, ResultOK, RankedResults, SituationOK, Servers
<1>7. GraphReplyOK(Local, ids, results, there) /\ ReplyOf(Local, ids, results, there)
  BY <1>3, <1>6, GraphReplies DEF GraphReplyOK
<1>8. /\ reply'.kind = "graph" /\ reply'.rank = there.rank /\ reply'.items = there.items
      /\ reply'.gone = IF there.unfound = 0 THEN ids \ {x.id : x \in there.items} ELSE {}
  BY <1>4
<1>9. ItemsFresh(there) /\ (Certain(Local, results) => HasExisting(ids, there))
  BY <1>5, <1>7, GatheredReplies
<1>10. there.unfound = 0 => HasExisting(ids, there)
  BY <1>7, <1>9 DEF GraphReplyOK, HasExisting
<1>11. NeverReportedGone'
  BY <1>4, <1>8, <1>10 DEF NeverReportedGone, HasExisting
<1>12. FreshnessIsWorst'
  BY <1>4, <1>8, <1>9 DEF FreshnessIsWorst, ItemsFresh
<1> QED
  BY <1>8, <1>11, <1>12 DEF SelectorCountsAll

\* The worst of a set of states, by the rank that worst() gives them.
LEMMA AggregateStates ==
    ASSUME NEW states \in SUBSET States, NEW op, op \in {"and", "or", "worst"}
    PROVE  Aggregate(states, op) =
             IF states = {} THEN "unknown"
             ELSE IF op = "or" /\ "ok" \in states THEN "ok"
             ELSE IF "critical" \in states THEN "critical"
             ELSE IF "unknown" \in states THEN "unknown"
             ELSE IF "warning" \in states THEN "warning"
             ELSE "ok"
<1>1. PICK rank : rank = [ok |-> 0, warning |-> 1, unknown |-> 2, critical |-> 3]
  OBVIOUS
<1>2. rank["ok"] = 0 /\ rank["warning"] = 1 /\ rank["unknown"] = 2 /\ rank["critical"] = 3
  BY <1>1
<1>3. CASE states = {}
  BY <1>3 DEF Aggregate
<1>4. CASE states # {}
  <2>1. PICK worst : worst = CHOOSE x \in states : \A y \in states : rank[y] <= rank[x]
    OBVIOUS
  <2>2. PICK top : top = IF "critical" \in states THEN "critical"
                         ELSE IF "unknown" \in states THEN "unknown"
                         ELSE IF "warning" \in states THEN "warning" ELSE "ok"
    OBVIOUS
  <2>3. top \in states /\ \A y \in states : rank[y] <= rank[top] /\ (rank[top] <= rank[y] => y = top)
    <3>1. \A y \in states : y = "ok" \/ y = "warning" \/ y = "unknown" \/ y = "critical"
      BY DEF States
    <3>2. CASE "critical" \in states
      BY <1>2, <2>2, <3>1, <3>2
    <3>3. CASE "critical" \notin states /\ "unknown" \in states
      BY <1>2, <2>2, <3>1, <3>3
    <3>4. CASE "critical" \notin states /\ "unknown" \notin states /\ "warning" \in states
      BY <1>2, <2>2, <3>1, <3>4
    <3>5. CASE "critical" \notin states /\ "unknown" \notin states /\ "warning" \notin states
      BY <1>2, <1>4, <2>2, <3>1, <3>5
    <3> QED
      BY <3>2, <3>3, <3>4, <3>5
  <2>4. worst \in states /\ \A y \in states : rank[y] <= rank[worst]
    BY <2>1, <2>3
  <2>5. worst = top
    BY <2>3, <2>4
  <2>6. Aggregate(states, op) = IF op = "or" THEN (IF "ok" \in states THEN "ok" ELSE worst) ELSE worst
    BY <1>1, <1>4, <2>1, SMT DEF Aggregate
  <2> QED
    BY <1>4, <2>2, <2>5, <2>6
<1> QED
  BY <1>3, <1>4

\* The state of a selector reply is that of all rows, however few are returned.
LEMMA SelectorReplies ==
    ASSUME SituationOK, NEW op \in {"and", "or", "worst"}, ResolveSelector(op)
    PROVE  NeverReportedGone' /\ FreshnessIsWorst' /\ SelectorCountsAll'
<1>1. PICK rows : rows = store[Local]
  OBVIOUS
<1>2. IsFiniteSet(rows)
  <2>1. rows \subseteq Ids
    BY <1>1 DEF SituationOK, Servers
  <2> QED
    BY <2>1, ResourceLookupAssumption, FS_Subset
<1>3. PICK stateOf \in [rows -> States] :
        reply' = [kind |-> "selector", op |-> op, stateOf |-> stateOf, items |-> Limited(rows),
                  state |-> AggregateCounts(
                    [x \in States |-> Cardinality({i \in rows : stateOf[i] = x})],
                    Cardinality(rows), op)]
  BY <1>1 DEF ResolveSelector, Counted
<1>4. PICK counts : counts = [x \in States |-> Cardinality({i \in rows : stateOf[i] = x})]
  OBVIOUS
<1>5. PICK states : states = {stateOf[i] : i \in rows}
  OBVIOUS
<1>6. states \in SUBSET States /\ (states = {} <=> rows = {})
  BY <1>3, <1>5
<1>7. \A x \in States : counts[x] \in Nat /\ (counts[x] > 0 <=> x \in states)
  <2> SUFFICES ASSUME NEW x \in States
               PROVE  counts[x] \in Nat /\ (counts[x] > 0 <=> x \in states)
    OBVIOUS
  <2>1. PICK S \in SUBSET rows : S = {i \in rows : stateOf[i] = x}
    OBVIOUS
  <2>2. IsFiniteSet(S) /\ Cardinality(S) \in Nat /\ (Cardinality(S) = 0 <=> S = {})
    BY <1>2, <2>1, FS_Subset, FS_CardinalityType, FS_EmptySet
  <2>3. counts[x] = Cardinality(S)
    BY <1>4, <2>1
  <2>4. x \in states <=> S # {}
    BY <1>5, <2>1
  <2> QED
    BY <2>2, <2>3, <2>4
<1>8. /\ Cardinality(rows) \in Nat
      /\ Cardinality(rows) = 0 <=> rows = {}
      /\ counts["ok"] = Cardinality(rows) <=> states \subseteq {"ok"}
  <2>1. PICK S \in SUBSET rows : S = {i \in rows : stateOf[i] = "ok"}
    OBVIOUS
  <2>2. counts["ok"] = Cardinality(S)
    BY <1>4, <2>1 DEF States
  <2>3. S = rows <=> states \subseteq {"ok"}
    BY <1>3, <1>5, <2>1
  <2>4. Cardinality(S) = Cardinality(rows) <=> S = rows
    BY <1>2, FS_Subset
  <2> QED
    BY <1>2, <2>2, <2>3, <2>4, FS_CardinalityType, FS_EmptySet
<1>9. AggregateCounts(counts, Cardinality(rows), op) = Aggregate(states, op)
  <2>1. \A x \in states : x = "ok" \/ x = "warning" \/ x = "unknown" \/ x = "critical"
    BY <1>6 DEF States
  <2>2. {"ok", "warning", "unknown", "critical"} = States
    BY DEF States
  <2>3. CASE states = {}
    BY <1>6, <1>8, <2>3, AggregateStates DEF AggregateCounts
  <2>4. CASE states # {}
    <3>1. AggregateCounts(counts, Cardinality(rows), op) =
            IF op = "or" /\ "ok" \in states THEN "ok"
            ELSE IF op = "and" /\ states \subseteq {"ok"} THEN "ok"
            ELSE IF "critical" \in states THEN "critical"
            ELSE IF "unknown" \in states THEN "unknown"
            ELSE IF "warning" \in states THEN "warning"
            ELSE IF "ok" \in states THEN "ok" ELSE "unknown"
      BY <1>6, <1>7, <1>8, <2>2, <2>4 DEF AggregateCounts
    <3> QED
      BY <1>6, <2>1, <2>4, <3>1, AggregateStates
  <2> QED
    BY <2>3, <2>4
<1>10. SelectorCountsAll'
  <2>1. reply'.state = Aggregate(states, op) /\ reply'.op = op /\ reply'.stateOf = stateOf
    BY <1>3, <1>4, <1>9
  <2>2. {reply'.stateOf[i] : i \in DOMAIN reply'.stateOf} = states
    BY <1>3, <1>5, <2>1
  <2> QED
    BY <2>1, <2>2 DEF SelectorCountsAll
<1>11. reply'.kind = "selector"
  BY <1>3
<1> QED
  BY <1>10, <1>11 DEF NeverReportedGone, FreshnessIsWorst

\* The situations that Init chooses.
LEMMA LookupInitInv == LookupInit => LookupInv
<1> SUFFICES ASSUME LookupInit PROVE LookupInv
  OBVIOUS
<1>1. fresh \in [Servers -> 0..2]
  BY ResourceLookupAssumption DEF LookupInit
<1>2. answer \in [Remotes -> -2..2]
  <2>1. ServerRanks \cup Failing \subseteq -2..2
    BY ResourceLookupAssumption DEF Failing
  <2> QED
    BY <2>1 DEF LookupInit
<1>3. SituationOK
  BY <1>1, <1>2 DEF LookupInit, SituationOK, InCluster
<1> QED
  BY <1>3 DEF LookupInit, LookupInv, NoReply, NeverReportedGone, FreshnessIsWorst, SelectorCountsAll

\* A request leaves the situation as it is, and its reply is as good as its sources.
LEMMA LookupNextInv == LookupInv /\ [LookupNext]_lookupVars => LookupInv'
<1> SUFFICES ASSUME LookupInv, [LookupNext]_lookupVars PROVE LookupInv'
  OBVIOUS
<1>1. SituationOK /\ SituationOK'
  BY DEF LookupInv, LookupNext, BatchGet, ResolveGraph, ResolveSelector, TakeReply, situation,
     lookupVars, SituationOK
<1>2. ASSUME NEW ids \in Asked, NEW partial \in BOOLEAN, BatchGet(ids, partial) PROVE LookupInv'
  BY <1>1, <1>2, ResourceLookupAssumption, BatchGetReplies DEF LookupInv
<1>3. ASSUME NEW ids \in Asked, ResolveGraph(ids) PROVE LookupInv'
  BY <1>1, <1>3, ResourceLookupAssumption, ResolveGraphReplies DEF LookupInv
<1>4. ASSUME NEW op \in {"and", "or", "worst"}, ResolveSelector(op) PROVE LookupInv'
  BY <1>1, <1>4, SelectorReplies DEF LookupInv
<1>5. CASE TakeReply
  BY <1>1, <1>5 DEF LookupInv, TakeReply, NoReply, NeverReportedGone, FreshnessIsWorst, SelectorCountsAll
<1>6. CASE UNCHANGED lookupVars
  BY <1>1, <1>6 DEF LookupInv, lookupVars, NeverReportedGone, FreshnessIsWorst, SelectorCountsAll
<1> QED
  BY <1>2, <1>3, <1>4, <1>5, <1>6 DEF LookupNext

\* For any number of remotes, ids and owner references, an existing resource is never
\* reported as deleted by batch-get or graph/resolve.
THEOREM ExistingNeverGone == LookupSpec => []NeverReportedGone
<1>1. LookupInv => NeverReportedGone
  BY DEF LookupInv
<1> QED
  BY <1>1, LookupInitInv, LookupNextInv, PTL DEF LookupSpec

\* Nor is anything in a reply fresher than the server it comes from or the age of that
\* server's answer, and the reply is as bad as its worst item.
THEOREM RepliesNoFresher == LookupSpec => []FreshnessIsWorst
<1>1. LookupInv => FreshnessIsWorst
  BY DEF LookupInv
<1> QED
  BY <1>1, LookupInitInv, LookupNextInv, PTL DEF LookupSpec

\* For any row limit and any number of rows, the state computed by the SQL counts is the
\* aggregate over all matching rows.
THEOREM SelectorStateIsComplete == LookupSpec => []SelectorCountsAll
<1>1. LookupInv => SelectorCountsAll
  BY DEF LookupInv
<1> QED
  BY <1>1, LookupInitInv, LookupNextInv, PTL DEF LookupSpec

-----------------------------------------------------------------------------
(***************************************************************************)
(* Listing.                                                                *)
(***************************************************************************)
\* The values of the variables.
ListingTypeOK ==
    /\ order \in {"sort", "id", "name"}
    /\ drawn \in Nat
    /\ sortId \in [Rows -> Nat]
    /\ state \in [Rows -> {"absent", "inserting", "matching", "hidden"}]
    /\ cursor \in {Start, End} \cup (Nat \X Nat)
    /\ received \in [Rows -> Nat]
    /\ steady \in SUBSET Rows

\* No two rows have one sort_id, and none has one that is yet to be drawn.
SortIdsAreUnique ==
    \A r \in Rows : state[r] # "absent" =>
      /\ sortId[r] <= drawn
      /\ \A x \in Rows : state[x] # "absent" /\ x # r => sortId[x] # sortId[r]

\* The cursor divides the steady rows: those up to it were received, once, the others
\* were not.
CursorDivides ==
    /\ \A r \in steady : state[r] = "matching"
    /\ cursor = Start => steady = {} /\ \A r \in Rows : received[r] = 0
    /\ cursor = End => \A r \in steady : received[r] = 1
    /\ cursor \notin {Start, End} =>
         \A r \in steady : received[r] = IF Before(cursor, Key(r)) THEN 0 ELSE 1

ListingInv == ListingTypeOK /\ SortIdsAreUnique /\ CursorDivides

\* A key is a pair of numbers and no end of the list; it changes only with the row's
\* sort_id.
LEMMA KeyFacts ==
    ASSUME ListingTypeOK, NEW r \in Rows
    PROVE  /\ Key(r) \in Nat \X Nat /\ Key(r) \notin {Start, End}
           /\ Before(Start, Key(r))
           /\ Key(r)[2] = (IF order = "id" THEN r ELSE sortId[r])
           /\ order' = order /\ sortId'[r] = sortId[r] => Key(r)' = Key(r)
<1>1. r \in Nat /\ sortId[r] \in Nat /\ NameOf[r] \in Nat
  BY ListingAssumption DEF ListingTypeOK
<1>2. CASE order = "sort"
  BY <1>1, <1>2 DEF Key, Start, End, Before
<1>3. CASE order = "id"
  BY <1>1, <1>3 DEF Key, Start, End, Before
<1>4. CASE order = "name"
  BY <1>1, <1>4 DEF Key, Start, End, Before
<1> QED
  BY <1>2, <1>3, <1>4 DEF ListingTypeOK

\* Pairs are ordered as ORDER BY orders them.
LEMMA BeforeOrders ==
    /\ \A k, l, m \in Nat \X Nat : Before(k, l) /\ Before(l, m) => Before(k, m)
    /\ \A k, l \in Nat \X Nat : ~(Before(k, l) /\ Before(l, k))
    /\ \A k, l \in Nat \X Nat : k[2] # l[2] => Before(k, l) \/ Before(l, k)
BY DEF Before

\* The keys of the rows that match are linearly ordered.
LEMMA KeysOrdered ==
    ASSUME ListingTypeOK, SortIdsAreUnique, NEW r \in Ahead, NEW x \in Ahead, r # x
    PROVE  Before(Key(r), Key(x)) \/ Before(Key(x), Key(r))
<1>1. r \in Rows /\ x \in Rows /\ sortId[r] # sortId[x]
  BY DEF Ahead, SortIdsAreUnique
<1>2. Key(r)[2] # Key(x)[2]
  BY <1>1, KeyFacts
<1> QED
  BY <1>1, <1>2, KeyFacts, BeforeOrders

\* The rank of a row ahead counts the rows that come before it.
LEMMA RankOrders ==
    ASSUME ListingTypeOK, NEW x \in Ahead
    PROVE  /\ Rank(x) \in Nat
           /\ IsFiniteSet(Ahead) /\ Cardinality(Ahead) \in Nat
           /\ Rank(x) < Cardinality(Ahead)
           /\ \A r \in Ahead : Before(Key(r), Key(x)) => Rank(r) < Rank(x)
<1>1. Ahead \subseteq Rows /\ IsFiniteSet(Ahead)
  <2>1. Ahead \in SUBSET Rows
    BY DEF Ahead
  <2> QED
    BY <2>1, ListingAssumption, FS_Subset
<1>2. \A r \in Ahead : Key(r) \in Nat \X Nat
  BY <1>1, KeyFacts
<1>3. PICK S \in SUBSET Ahead : S = {y \in Ahead : Before(Key(y), Key(x))}
  OBVIOUS
<1>4. IsFiniteSet(S) /\ Cardinality(S) \in Nat /\ Rank(x) = Cardinality(S)
  BY <1>1, <1>3, FS_Subset, FS_CardinalityType DEF Rank
<1>5. x \notin S
  BY <1>2, <1>3, BeforeOrders
<1>6. Cardinality(Ahead) \in Nat /\ Cardinality(S) < Cardinality(Ahead)
  BY <1>1, <1>3, <1>4, <1>5, FS_Subset, FS_CardinalityType
<1>7. ASSUME NEW r \in Ahead, Before(Key(r), Key(x)) PROVE Rank(r) < Rank(x)
  <2>1. PICK T : T = {y \in Ahead : Before(Key(y), Key(r))}
    OBVIOUS
  <2>2. T \in SUBSET S /\ r \in S /\ r \notin T
    BY <1>2, <1>3, <1>7, <2>1, BeforeOrders
  <2>3. Cardinality(T) \in Nat /\ Cardinality(T) < Cardinality(S)
    BY <1>4, <2>2, FS_Subset, FS_CardinalityType
  <2> QED
    BY <1>4, <2>1, <2>3 DEF Rank
<1> QED
  BY <1>1, <1>4, <1>6, <1>7

\* A change of the table: sort_ids of rows that match stay, new ones are new.
LEMMA TableStepInv ==
    ASSUME ListingInv, NEW r \in Rows,
           \/ Insert(r) \/ Update(r) \/ Purge(r)
           \/ \E outcome \in {"absent", "matching"} : EndInsert(r, outcome)
    PROVE  ListingInv'
<1>1. ListingTypeOK'
  BY DEF ListingInv, ListingTypeOK, Insert, Update, Purge, EndInsert
<1>2. SortIdsAreUnique'
  BY DEF ListingInv, ListingTypeOK, SortIdsAreUnique, Insert, Update, Purge, EndInsert
<1>3. /\ UNCHANGED <<order, cursor, received>> /\ steady' \subseteq steady
      /\ \A x \in steady' : state'[x] = "matching" /\ sortId'[x] = sortId[x] /\ x \in Rows
  BY DEF ListingInv, ListingTypeOK, CursorDivides, Insert, Update, Purge, EndInsert
<1>4. \A x \in steady' : Key(x)' = Key(x)
  BY <1>3, KeyFacts DEF ListingInv
<1>5. CursorDivides'
  BY <1>3, <1>4 DEF ListingInv, CursorDivides, Before
<1> QED
  BY <1>1, <1>2, <1>5 DEF ListingInv

\* A page is read: it takes the lowest rows ahead, and its cursor leaves the others
\* ahead.
LEMMA ListInv ==
    ASSUME ListingInv, List
    PROVE  ListingInv'
<1>1. /\ UNCHANGED <<order, drawn, sortId, state>> /\ cursor # End
      /\ \A r \in Rows : received'[r] = IF r \in Ahead /\ Rank(r) < Limit
                                        THEN received[r] + 1 ELSE received[r]
      /\ received' = [r \in Rows |-> IF r \in Ahead /\ Rank(r) < Limit THEN received[r] + 1 ELSE received[r]]
      /\ steady' = IF cursor = Start THEN Ahead ELSE steady
  BY DEF List, table
<1>2. SortIdsAreUnique'
  BY <1>1 DEF ListingInv, SortIdsAreUnique
<1>3. Ahead \in SUBSET Rows /\ \A r \in Rows : Key(r)' = Key(r)
  BY <1>1, KeyFacts DEF Ahead, ListingInv
<1>4. /\ steady' \in SUBSET Rows /\ \A r \in steady' : state'[r] = "matching"
      /\ \A r \in steady' : received[r] = IF r \in Ahead THEN 0 ELSE 1
  BY <1>1, <1>3, KeyFacts DEF ListingInv, ListingTypeOK, CursorDivides, Ahead
<1>5. received' \in [Rows -> Nat]
  BY <1>1 DEF ListingInv, ListingTypeOK
<1>6. Start \notin Nat \X Nat /\ End \notin Nat \X Nat /\ Start # End
  BY DEF Start, End
<1>7. CASE Cardinality(Ahead) > Limit
  <2>1. PICK l \in Ahead : LastOfPage(l) /\ cursor' = Key(l)
    BY <1>7 DEF List
  <2>2. Key(l) \in Nat \X Nat /\ Before(cursor, Key(l)) /\ Rank(l) = Limit - 1 /\ Limit \in Nat
    BY <1>3, <2>1, KeyFacts, ListingAssumption DEF ListingInv, Ahead, LastOfPage
  <2>3. ASSUME NEW r \in steady'
        PROVE  received'[r] = IF Before(cursor', Key(r)') THEN 0 ELSE 1
    <3>1. r \in Rows /\ Key(r) \in Nat \X Nat /\ Key(r)' = Key(r)
      BY <1>3, <1>4, KeyFacts DEF ListingInv
    <3>2. CASE r \in Ahead
      <4>1. Before(Key(l), Key(r)) => ~(Rank(r) < Limit)
        BY <2>1, <2>2, <3>2, RankOrders DEF ListingInv
      <4>2. ~Before(Key(l), Key(r)) => Rank(r) < Limit
        BY <2>1, <2>2, <3>2, RankOrders, KeysOrdered DEF ListingInv
      <4>3. received[r] = 0
        BY <1>4, <2>3, <3>2
      <4> QED
        BY <1>1, <2>1, <3>1, <3>2, <4>1, <4>2, <4>3 DEF Before
    <3>3. CASE r \notin Ahead
      <4>1. received'[r] = 1
        BY <1>1, <1>4, <2>3, <3>1, <3>3
      <4>2. cursor \in Nat \X Nat /\ ~Before(cursor, Key(r))
        BY <1>1, <1>4, <2>3, <3>1, <3>3 DEF ListingInv, ListingTypeOK, Ahead
      <4>3. ~Before(Key(l), Key(r))
        BY <2>2, <3>1, <4>2, BeforeOrders
      <4> QED
        BY <2>1, <3>1, <4>1, <4>3 DEF Before
    <3> QED
      BY <3>2, <3>3
  <2>4. ListingTypeOK'
    BY <1>1, <1>4, <1>5, <2>1, <2>2 DEF ListingInv, ListingTypeOK, Start, End
  <2>5. CursorDivides'
    BY <1>4, <1>6, <2>1, <2>2, <2>3 DEF CursorDivides, Start, End
  <2> QED
    BY <1>2, <2>4, <2>5 DEF ListingInv
<1>8. CASE ~(Cardinality(Ahead) > Limit)
  <2>1. cursor' = End
    BY <1>8 DEF List
  <2>2. \A r \in Ahead : Rank(r) < Limit
    BY <1>8, RankOrders, ListingAssumption DEF ListingInv
  <2>3. \A r \in steady' : received'[r] = 1
    BY <1>1, <1>4, <2>2
  <2>4. ListingTypeOK'
    BY <1>1, <1>4, <1>5, <2>1 DEF ListingInv, ListingTypeOK, Start, End
  <2>5. CursorDivides'
    BY <1>4, <2>1, <2>3 DEF CursorDivides, Start, End
  <2> QED
    BY <1>2, <2>4, <2>5 DEF ListingInv
<1> QED
  BY <1>7, <1>8

\* Every step preserves the invariant.
LEMMA ListingNextInv == ListingInv /\ [ListingNext]_listingVars => ListingInv'
<1> SUFFICES ASSUME ListingInv, [ListingNext]_listingVars PROVE ListingInv'
  OBVIOUS
<1>1. CASE Again
  BY <1>1 DEF Again, table, ListingInv, ListingTypeOK, SortIdsAreUnique, CursorDivides, Start, End
<1>2. CASE UNCHANGED listingVars
  <2>1. \A r \in Rows : Key(r)' = Key(r)
    BY <1>2, KeyFacts DEF listingVars, ListingInv
  <2>2. ListingTypeOK' /\ SortIdsAreUnique'
    BY <1>2 DEF listingVars, ListingInv, ListingTypeOK, SortIdsAreUnique, Start, End
  <2>3. CursorDivides'
    BY <1>2, <2>1 DEF listingVars, ListingInv, ListingTypeOK, CursorDivides, Before
  <2> QED
    BY <2>2, <2>3 DEF ListingInv
<1> QED
  BY <1>1, <1>2, TableStepInv, ListInv DEF ListingNext

\* For any number of rows, any page size and all three orders: a row that matches from
\* the first page to the last is received exactly once, although rows are inserted,
\* hidden, shown again and purged between the pages.
THEOREM PagesAreExact == ListingSpec => []SteadyRowsOnce
<1>1. ListingInit => ListingInv
  BY DEF ListingInit, ListingInv, ListingTypeOK, SortIdsAreUnique, CursorDivides, Start, End
<1>2. ListingInv => SteadyRowsOnce
  <2> SUFFICES ASSUME ListingInv, NEW r \in steady
               PROVE  received[r] <= 1 /\ (cursor = End => received[r] = 1)
    BY DEF SteadyRowsOnce
  <2> QED
    BY DEF ListingInv, ListingTypeOK, CursorDivides
<1> QED
  BY <1>1, <1>2, ListingNextInv, PTL DEF ListingSpec

-----------------------------------------------------------------------------
(***************************************************************************)
(* The change log and its event streams (module ChangeStream).             *)
(***************************************************************************)
\* An ascending enumeration of a set.
Enumerates(q, S) ==
    /\ q \in Seq(S)
    /\ \A i, j \in 1..Len(q) : i < j => q[i] < q[j]
    /\ \A x \in S : \E i \in 1..Len(q) : q[i] = x

\* Every finite set of numbers has an ascending enumeration: each number goes to the
\* place that counts the smaller ones.  An ascending sequence as long as the set is
\* one.  So ORDER BY sequence is well defined.
LEMMA AscendingEnumerates ==
    ASSUME NEW S \in SUBSET Nat, IsFiniteSet(S)
    PROVE  Enumerates(Ascending(S), S) /\ Len(Ascending(S)) = Cardinality(S)
<1> \A x \in S : x \in Nat
  OBVIOUS
<1>1. PICK n \in Nat : n = Cardinality(S)
  BY FS_CardinalityType
<1>2. IsFiniteSet(1..n) /\ Cardinality(1..n) = n
  BY FS_Interval
<1> DEFINE Below(x) == {z \in S : z < x}
<1>3. \A x \in S : IsFiniteSet(Below(x)) /\ Cardinality(Below(x)) \in Nat /\ Cardinality(Below(x)) < n
  <2> SUFFICES ASSUME NEW x \in S
               PROVE  IsFiniteSet(Below(x)) /\ Cardinality(Below(x)) \in Nat
                      /\ Cardinality(Below(x)) < n
    OBVIOUS
  <2>1. PICK B \in SUBSET S : B = Below(x)
    OBVIOUS
  <2>2. x \notin B
    BY <2>1
  <2> QED
    BY <1>1, <2>1, <2>2, FS_Subset, FS_CardinalityType
<1>4. \A x, y \in S : x < y => Cardinality(Below(x)) < Cardinality(Below(y))
  <2> SUFFICES ASSUME NEW x \in S, NEW y \in S, x < y
               PROVE  Cardinality(Below(x)) < Cardinality(Below(y))
    OBVIOUS
  <2>1. PICK B : B = Below(x)
    OBVIOUS
  <2>2. PICK C : C = Below(y)
    OBVIOUS
  <2>3. B \in SUBSET C /\ x \in C /\ x \notin B
    <3>1. \A z \in S : z < x => z < y
      OBVIOUS
    <3>2. B = {z \in S : z < x} /\ C = {z \in S : z < y}
      BY <2>1, <2>2
    <3>3. x \notin B /\ x \in C
      BY <3>2
    <3>4. B \in SUBSET C
      BY <3>1, <3>2
    <3> QED
      BY <3>3, <3>4
  <2>4. IsFiniteSet(C) /\ Cardinality(C) \in Nat /\ Cardinality(B) \in Nat
    BY <1>3, <2>1, <2>2
  <2>5. Cardinality(B) <= Cardinality(C) /\ Cardinality(C) # Cardinality(B)
    BY <2>3, <2>4, FS_Subset
  <2> QED
    BY <2>1, <2>2, <2>4, <2>5
<1>5. PICK place : place = [x \in S |-> Cardinality(Below(x)) + 1]
  OBVIOUS
<1>6. place \in [S -> 1..n] /\ \A x, y \in S : x < y => place[x] < place[y]
  BY <1>3, <1>4, <1>5
<1> HIDE DEF Below
<1>7. place \in Injection(S, 1..n)
  <2>1. \A x, y \in S : place[x] = place[y] => x = y
    BY <1>6
  <2> QED
    BY <1>6, <2>1 DEF Injection, IsInjective
<1>8. place \in Surjection(S, 1..n)
  BY <1>1, <1>2, <1>7, FS_Injection
<1>9. \A i \in 1..n : \E x \in S : place[x] = i
  BY <1>8 DEF Surjection
<1>10. PICK q : q = [i \in 1..n |-> CHOOSE x \in S : place[x] = i]
  OBVIOUS
<1>11. q \in [1..n -> S] /\ \A i \in 1..n : place[q[i]] = i
  BY <1>9, <1>10
<1>12. \A i, j \in DOMAIN q : i < j => q[i] < q[j]
  <2> SUFFICES ASSUME NEW i \in 1..n, NEW j \in 1..n, i < j PROVE q[i] < q[j]
    BY <1>11
  <2>1. PICK x \in S, y \in S : x = q[i] /\ y = q[j] /\ place[x] = i /\ place[y] = j
    BY <1>11
  <2>2. ~(y < x) /\ x # y
    BY <1>6, <2>1
  <2>3. x < y
    BY <2>2
  <2> QED
    BY <2>1, <2>3
<1>13. PICK a : a = Ascending(S)
  OBVIOUS
<1>14. a \in [1..n -> S] /\ \A i, j \in DOMAIN a : i < j => a[i] < a[j]
  BY <1>1, <1>11, <1>12, <1>13 DEF Ascending
<1>15. a \in Seq(S) /\ Len(a) = n /\ DOMAIN a = 1..n
  BY <1>14, SeqDef
<1>16. a \in Injection(1..n, S)
  <2>1. \A i, j \in 1..n : a[i] = a[j] => i = j
    <3> SUFFICES ASSUME NEW i \in 1..n, NEW j \in 1..n, i # j PROVE a[i] # a[j]
      OBVIOUS
    <3>1. a[i] \in Nat /\ a[j] \in Nat
      BY <1>14
    <3> QED
      BY <1>14, <3>1
  <2> QED
    BY <1>14, <2>1 DEF Injection, IsInjective
<1>17. \A x \in S : \E i \in 1..n : a[i] = x
  <2>1. a \in Surjection(1..n, S)
    BY <1>1, <1>2, <1>16, FS_Injection
  <2> QED
    BY <2>1 DEF Surjection
<1> QED
  BY <1>1, <1>13, <1>14, <1>15, <1>17 DEF Enumerates

\* A finite set of numbers and 0 have a largest element: MAX(sequence) exists.
LEMMA LatestIsLargest ==
    ASSUME visible \in SUBSET Nat, IsFiniteSet(visible)
    PROVE  LatestSequence \in visible \cup {0} /\ \A x \in visible : x <= LatestSequence
<1>1. PICK q : Enumerates(q, visible) /\ Len(q) = Cardinality(visible)
  BY AscendingEnumerates
<1>2. \E m \in visible \cup {0} : \A x \in visible : x <= m
  <2>1. CASE visible = {}
    BY <2>1
  <2>2. CASE visible # {}
    <3>1. Len(q) \in Nat /\ \A i \in 1..Len(q) : q[i] \in visible /\ q[i] \in Nat
      BY <1>1, LenProperties, ElementOfSeq DEF Enumerates
    <3>2. Len(q) \in 1..Len(q)
      <4>1. PICK v \in visible, k \in 1..Len(q) : q[k] = v
        BY <1>1, <2>2 DEF Enumerates
      <4> QED
        BY <3>1, <4>1
    <3>3. \A i \in 1..Len(q) : q[i] <= q[Len(q)]
      BY <1>1, <3>1, <3>2 DEF Enumerates
    <3>4. \A x \in visible : x <= q[Len(q)]
      BY <1>1, <3>3 DEF Enumerates
    <3> QED
      BY <3>1, <3>2, <3>4
  <2> QED
    BY <2>1, <2>2
<1> QED
  BY <1>2 DEF LatestSequence

-----------------------------------------------------------------------------
StreamType == [up: BOOLEAN, start: Nat, cursor: Nat, got: Seq(Nat)]

\* The values of the variables.  Every number drawn is below the next one.
StreamTypeOK ==
    /\ next \in Nat \ {0}
    /\ open \in [Writers -> SUBSET Nat]
    /\ visible \in SUBSET Nat
    /\ \A n \in visible : n < next
    /\ \A w \in Writers : \A n \in open[w] : n < next
    /\ stream \in [Streams -> StreamType]

\* An open stream has received nothing beyond its cursor, and what a client received
\* is ascending.
Ascends(s) ==
    /\ \A i, j \in 1..Len(s.got) : i < j => s.got[i] < s.got[j]
    /\ s.up => \A i \in 1..Len(s.got) : s.got[i] <= s.cursor

StreamsAscend == \A c \in Streams : Ascends(stream[c])

\* The committed changes are finitely many.
LEMMA VisibleIsFinite ==
    ASSUME StreamTypeOK
    PROVE  IsFiniteSet(visible)
<1>1. \A n \in visible : n <= next
  BY DEF StreamTypeOK
<1> QED
  BY <1>1, FS_BoundedSetOfNaturals DEF StreamTypeOK

\* What a page holds: the changes after the cursor, ascending.
LEMMA PageIsAscending ==
    ASSUME StreamTypeOK, NEW after \in Nat, NEW page, page = Ascending(Changes(after))
    PROVE  /\ Enumerates(page, Changes(after)) /\ page \in Seq(Nat)
           /\ \A i \in 1..Len(page) : page[i] \in visible /\ page[i] > after
<1>1. Changes(after) \in SUBSET visible
  BY DEF Changes
<1>2. IsFiniteSet(Changes(after)) /\ Changes(after) \in SUBSET Nat
  BY <1>1, VisibleIsFinite, FS_Subset DEF StreamTypeOK
<1>3. Enumerates(page, Changes(after))
  BY <1>2, AscendingEnumerates
<1>4. page \in Seq(Nat)
  BY <1>2, <1>3, SeqMonotonic DEF Enumerates
<1>5. \A i \in 1..Len(page) : page[i] \in Changes(after)
  BY <1>3, ElementOfSeq DEF Enumerates
<1> QED
  BY <1>3, <1>4, <1>5 DEF Changes

\* The first k rows of a page follow what the client had received before.
Follows(old, new, page, k) ==
    /\ new \in Seq(Nat)
    /\ Len(new) = Len(old) + k
    /\ \A i \in 1..Len(old) : new[i] = old[i]
    /\ \A i \in 1..k : new[Len(old) + i] = page[i]

LEMMA ConcatFollows ==
    ASSUME NEW old \in Seq(Nat), NEW page \in Seq(Nat), NEW k \in 0..Len(page)
    PROVE  Follows(old, old \o SubSeq(page, 1, k), page, k)
<1>1. PICK h : h = SubSeq(page, 1, k)
  OBVIOUS
<1>2. h \in Seq(Nat) /\ Len(h) = k /\ \A i \in 1..k : h[i] = page[i]
  BY <1>1, LenProperties, SubSeqProperties
<1>3. /\ old \o h \in Seq(Nat) /\ Len(old \o h) = Len(old) + k /\ Len(old) \in Nat
      /\ \A i \in 1..(Len(old) + k) : (old \o h)[i] = IF i <= Len(old) THEN old[i] ELSE h[i - Len(old)]
  BY <1>2, ConcatProperties, LenProperties
<1>4. \A i \in 1..k : (old \o h)[Len(old) + i] = page[i]
  BY <1>2, <1>3
<1>5. \A i \in 1..Len(old) : (old \o h)[i] = old[i]
  BY <1>3
<1> QED
  BY <1>1, <1>3, <1>4, <1>5 DEF Follows

\* What a poll does to its stream: the client receives the first k rows of the page;
\* a stream that stays open received them all and its cursor is the last of them.
PolledTo(s, new, page, k) ==
    /\ new \in StreamType
    /\ new.start = s.start
    /\ Follows(s.got, new.got, page, k)
    /\ new.up => k = Len(page) /\ new.cursor = page[Len(page)]
    /\ ~new.up => new.cursor = 0

LEMMA PollSteps ==
    ASSUME StreamTypeOK, NEW c \in Streams, Poll(c),
           NEW page, page = Ascending(Changes(stream[c].cursor))
    PROVE  /\ page \in Seq(Nat) /\ Len(page) # 0 /\ stream[c].up
           /\ \E k \in 0..Len(page), new \in StreamType :
                PolledTo(stream[c], new, page, k) /\ stream' = [stream EXCEPT ![c] = new]
<1>1. PICK s \in StreamType : s = stream[c]
  BY DEF StreamTypeOK
<1>2. page \in Seq(Nat) /\ page # <<>> /\ s.up /\ s.got \in Seq(Nat)
  BY <1>1, PageIsAscending DEF Poll, StreamType
<1>3. Len(page) \in Nat /\ Len(page) # 0 /\ page[Len(page)] \in Nat
  BY <1>2, EmptySeq, ElementOfSeq
<1>4. ASSUME stream' = [stream EXCEPT ![c].got = @ \o page, ![c].cursor = page[Len(page)]]
      PROVE  \E k \in 0..Len(page), new \in StreamType :
                PolledTo(s, new, page, k) /\ stream' = [stream EXCEPT ![c] = new]
  <2>1. PICK k \in 0..Len(page) : k = Len(page)
    BY <1>3
  <2>2. PICK g \in Seq(Nat) : g = s.got \o page /\ Follows(s.got, g, page, k)
    <3>1. SubSeq(page, 1, k) = page
      BY <1>2, <2>1, SubSeqFull
    <3>2. Follows(s.got, s.got \o page, page, k)
      BY <1>2, <3>1, ConcatFollows
    <3>3. s.got \o page \in Seq(Nat)
      BY <1>2, ConcatProperties
    <3> QED
      BY <3>2, <3>3
  <2>3. PICK new : new = [s EXCEPT !.got = g, !.cursor = page[Len(page)]]
    OBVIOUS
  <2>4. stream' = [stream EXCEPT ![c] = new]
    BY <1>1, <1>4, <2>2, <2>3
  <2>5. /\ new \in StreamType /\ new.start = s.start /\ new.up = s.up
        /\ new.got = g /\ new.cursor = page[Len(page)]
    BY <1>3, <2>2, <2>3 DEF StreamType
  <2>6. PolledTo(s, new, page, k)
    BY <1>2, <2>1, <2>2, <2>5 DEF PolledTo
  <2> QED
    BY <2>4, <2>5, <2>6
<1>5. ASSUME NEW k \in 0..Len(page),
             stream' = [stream EXCEPT ![c] = Disconnected(@.start, @.got \o SubSeq(page, 1, k))]
      PROVE  \E j \in 0..Len(page), new \in StreamType :
                PolledTo(s, new, page, j) /\ stream' = [stream EXCEPT ![c] = new]
  <2>1. PICK g \in Seq(Nat) : g = s.got \o SubSeq(page, 1, k) /\ Follows(s.got, g, page, k)
    <3>1. Follows(s.got, s.got \o SubSeq(page, 1, k), page, k)
      BY <1>2, ConcatFollows
    <3>2. s.got \o SubSeq(page, 1, k) \in Seq(Nat)
      BY <3>1 DEF Follows
    <3> QED
      BY <3>1, <3>2
  <2>2. PICK new : new = Disconnected(s.start, g)
    OBVIOUS
  <2>3. stream' = [stream EXCEPT ![c] = new]
    BY <1>1, <1>5, <2>1, <2>2
  <2>4. /\ new \in StreamType /\ new.start = s.start /\ ~new.up /\ new.cursor = 0
        /\ new.got = g
    BY <2>1, <2>2 DEF StreamType, Disconnected
  <2>5. PolledTo(s, new, page, k)
    BY <2>1, <2>4 DEF PolledTo
  <2> QED
    BY <2>3, <2>4, <2>5
<1> QED
  BY <1>1, <1>2, <1>3, <1>4, <1>5 DEF Poll

StreamInv == StreamTypeOK /\ StreamsAscend

\* A poll keeps the order: the page lies after the cursor, the cursor after whatever
\* was received before.
LEMMA PollAscends ==
    ASSUME NEW s \in StreamType, s.up, Ascends(s), NEW page \in Seq(Nat), Len(page) # 0,
           \A i, j \in 1..Len(page) : i < j => page[i] < page[j],
           \A i \in 1..Len(page) : page[i] > s.cursor,
           NEW k \in 0..Len(page), NEW new \in StreamType, PolledTo(s, new, page, k)
    PROVE  Ascends(new)
<1>1. PICK n \in Nat : n = Len(s.got)
  BY DEF StreamType
<1>2. /\ s.cursor \in Nat /\ Len(page) \in Nat
      /\ \A i \in 1..n : s.got[i] \in Nat
      /\ \A i \in 1..Len(page) : page[i] \in Nat
  BY <1>1, ElementOfSeq, LenProperties DEF StreamType
<1>3. PICK g : g = new.got
  OBVIOUS
<1>4. /\ Len(g) = n + k
      /\ \A i \in 1..n : g[i] = s.got[i] /\ g[i] \in Nat /\ g[i] <= s.cursor
      /\ \A i \in 1..k : g[n + i] = page[i]
      /\ \A i, j \in 1..n : i < j => g[i] < g[j]
  BY <1>1, <1>2, <1>3 DEF PolledTo, Follows, Ascends
<1>5. \A i \in (n + 1)..(n + k) : g[i] = page[i - n] /\ i - n \in 1..k
  <2> SUFFICES ASSUME NEW i \in (n + 1)..(n + k) PROVE g[i] = page[i - n] /\ i - n \in 1..k
    OBVIOUS
  <2>1. PICK j \in 1..k : j = i - n /\ i = n + j
    BY <1>2
  <2> QED
    BY <1>4, <2>1
<1>6. \A i, j \in 1..Len(g) : i < j => g[i] < g[j]
  <2> SUFFICES ASSUME NEW i \in 1..(n + k), NEW j \in 1..(n + k), i < j PROVE g[i] < g[j]
    BY <1>4
  <2>1. CASE j <= n
    BY <1>4, <2>1
  <2>2. CASE i <= n /\ j > n
    <3>1. i \in 1..n /\ j \in (n + 1)..(n + k)
      BY <2>2
    <3>2. g[j] = page[j - n] /\ j - n \in 1..Len(page)
      BY <1>2, <1>5, <3>1
    <3>3. page[j - n] > s.cursor /\ page[j - n] \in Nat
      BY <1>2, <3>2
    <3> QED
      BY <1>2, <1>4, <3>1, <3>2, <3>3
  <2>3. CASE i > n
    <3>1. i \in (n + 1)..(n + k) /\ j \in (n + 1)..(n + k)
      BY <2>3
    <3>2. /\ g[i] = page[i - n] /\ i - n \in 1..Len(page)
          /\ g[j] = page[j - n] /\ j - n \in 1..Len(page) /\ i - n < j - n
      BY <1>2, <1>5, <3>1
    <3> QED
      BY <3>2
  <2> QED
    BY <2>1, <2>2, <2>3
<1>7. ASSUME new.up, NEW i \in 1..Len(g) PROVE g[i] <= new.cursor
  <2>1. k = Len(page) /\ new.cursor = page[Len(page)]
    BY <1>7 DEF PolledTo
  <2>2. Len(g) \in 1..Len(g) /\ g[Len(g)] = page[Len(page)]
    BY <1>2, <1>4, <1>5, <2>1
  <2>3. g[Len(g)] \in Nat /\ (i = Len(g) \/ g[i] < g[Len(g)])
    BY <1>2, <1>4, <1>6, <2>2
  <2>4. g[i] \in Nat
    <3>1. CASE i <= n
      BY <1>4, <3>1
    <3>2. CASE i > n
      <4>1. i \in (n + 1)..(n + k)
        BY <1>4, <3>2
      <4> QED
        BY <1>2, <1>5, <4>1
    <3> QED
      BY <1>4, <3>1, <3>2
  <2> QED
    BY <2>1, <2>2, <2>3, <2>4
<1> QED
  BY <1>3, <1>6, <1>7 DEF Ascends

LEMMA StreamInitInv == StreamInit => StreamInv
<1>1. StreamInit => StreamTypeOK
  BY EmptySeq DEF StreamInit, StreamTypeOK, StreamType, Disconnected
<1>2. StreamInit => StreamsAscend
  BY DEF StreamInit, StreamsAscend, Ascends, Disconnected
<1> QED
  BY <1>1, <1>2 DEF StreamInv

\* What a step changes of one stream keeps the order of all.
LEMMA OneStreamKeepsInv ==
    ASSUME StreamInv, NEW c \in Streams, NEW new \in StreamType, Ascends(new),
           stream' = [stream EXCEPT ![c] = new], UNCHANGED <<next, open, visible>>
    PROVE  StreamInv'
<1>1. StreamTypeOK'
  BY DEF StreamInv, StreamTypeOK
<1>2. \A d \in Streams : stream'[d] = IF d = c THEN new ELSE stream[d]
  BY DEF StreamInv, StreamTypeOK
<1>3. StreamsAscend'
  BY <1>2 DEF StreamInv, StreamsAscend
<1> QED
  BY <1>1, <1>3 DEF StreamInv

\* A connection starts at the tail of the log or after the last id it received.
LEMMA ConnectSteps ==
    ASSUME StreamInv, NEW c \in Streams, Connect(c)
    PROVE  \E new \in StreamType :
             /\ stream' = [stream EXCEPT ![c] = new] /\ new.up /\ new.got = stream[c].got
             /\ Ascends(new)
             /\ \/ /\ Len(new.got) = 0 /\ new.start = new.cursor
                   /\ new.cursor \in visible \cup {0}
                \/ /\ Len(new.got) # 0 /\ new.start = stream[c].start
                   /\ new.cursor = new.got[Len(new.got)]
<1>1. PICK s \in StreamType : s = stream[c]
  BY DEF StreamInv, StreamTypeOK
<1>2. PICK g \in Seq(Nat) : g = s.got
  BY DEF StreamType
<1>3. Len(g) \in Nat /\ \A i \in 1..Len(g) : g[i] \in Nat
  BY LenProperties, ElementOfSeq
<1>4. CASE g = <<>>
  <2>1. PICK l : l = LatestSequence
    OBVIOUS
  <2>2. l \in visible \cup {0} /\ l \in Nat
    <3>1. StreamTypeOK
      BY DEF StreamInv
    <3>2. visible \in SUBSET Nat
      BY <3>1 DEF StreamTypeOK
    <3>3. IsFiniteSet(visible)
      BY <3>1, VisibleIsFinite
    <3>4. LatestSequence \in visible \cup {0}
      BY <3>2, <3>3, LatestIsLargest
    <3> QED
      BY <2>1, <3>2, <3>4
  <2>3. PICK new : new = [up |-> TRUE, start |-> l, cursor |-> l, got |-> <<>>]
    OBVIOUS
  <2>4. stream' = [stream EXCEPT ![c] = new]
    BY <1>1, <1>2, <1>4, <2>1, <2>3 DEF Connect
  <2>5. /\ new \in StreamType /\ new.up /\ new.got = g /\ new.start = l /\ new.cursor = l
        /\ Len(g) = 0
    BY <1>4, <2>2, <2>3, EmptySeq DEF StreamType
  <2>6. Ascends(new)
    BY <1>3, <2>5 DEF Ascends
  <2> QED
    BY <1>1, <1>2, <2>2, <2>4, <2>5, <2>6
<1>5. CASE g # <<>>
  <2>1. Len(g) # 0 /\ Len(g) \in 1..Len(g) /\ g[Len(g)] \in Nat
    BY <1>3, <1>5, EmptySeq
  <2>2. PICK new : new = [up |-> TRUE, start |-> s.start, cursor |-> g[Len(g)], got |-> g]
    OBVIOUS
  <2>3. stream' = [stream EXCEPT ![c] = new]
    BY <1>1, <1>2, <1>5, <2>2 DEF Connect
  <2>4. /\ new \in StreamType /\ new.up /\ new.got = g /\ new.start = s.start
        /\ new.cursor = g[Len(g)]
    BY <2>1, <2>2 DEF StreamType
  <2>5. \A i, j \in 1..Len(g) : i < j => g[i] < g[j]
    BY <1>1, <1>2 DEF StreamInv, StreamsAscend, Ascends
  <2>6. \A i \in 1..Len(g) : g[i] <= g[Len(g)]
    BY <1>3, <2>1, <2>5
  <2>7. Ascends(new)
    BY <2>4, <2>5, <2>6 DEF Ascends
  <2> QED
    BY <1>1, <1>2, <2>1, <2>3, <2>4, <2>7
<1> QED
  BY <1>4, <1>5

LEMMA StreamNextInv == ASSUME StreamInv, [StreamNext]_streamVars PROVE StreamInv'
<1>1. ASSUME NEW w \in Writers, LogChange(w) \/ Commit(w) \/ Abort(w) PROVE StreamInv'
  <2>1. CASE LogChange(w)
    BY <2>1 DEF LogChange, StreamInv, StreamTypeOK, StreamsAscend
  <2>2. CASE Commit(w)
    BY <2>2 DEF Commit, StreamInv, StreamTypeOK, StreamsAscend
  <2>3. CASE Abort(w)
    BY <2>3 DEF Abort, StreamInv, StreamTypeOK, StreamsAscend
  <2> QED
    BY <1>1, <2>1, <2>2, <2>3
<1>2. ASSUME NEW c \in Streams, Connect(c) PROVE StreamInv'
  BY <1>2, ConnectSteps, OneStreamKeepsInv DEF Connect
<1>3. ASSUME NEW c \in Streams, Poll(c) PROVE StreamInv'
  <2>1. PICK s \in StreamType : s = stream[c] /\ Ascends(s)
    BY DEF StreamInv, StreamTypeOK, StreamsAscend
  <2>2. PICK page : page = Ascending(Changes(s.cursor))
    OBVIOUS
  <2>3. StreamTypeOK /\ s.cursor \in Nat
    BY <2>1 DEF StreamInv, StreamType
  <2>4. PICK k \in 0..Len(page), new \in StreamType :
          PolledTo(s, new, page, k) /\ stream' = [stream EXCEPT ![c] = new]
    BY <1>3, <2>1, <2>2, <2>3, PollSteps
  <2>5. page \in Seq(Nat) /\ Len(page) # 0 /\ s.up
    BY <1>3, <2>1, <2>2, <2>3, PollSteps
  <2>6. Ascends(new)
    BY <2>1, <2>2, <2>3, <2>4, <2>5, PageIsAscending, PollAscends DEF Enumerates
  <2> QED
    BY <1>3, <2>4, <2>6, OneStreamKeepsInv DEF Poll
<1>4. ASSUME NEW c \in Streams, Disconnect(c) PROVE StreamInv'
  <2>1. PICK s \in StreamType : s = stream[c] /\ Ascends(s)
    BY DEF StreamInv, StreamTypeOK, StreamsAscend
  <2>2. PICK new : new = Disconnected(s.start, s.got)
    OBVIOUS
  <2>3. new \in StreamType /\ ~new.up /\ new.got = s.got
    BY <2>2 DEF StreamType, Disconnected
  <2>4. Ascends(new)
    BY <2>1, <2>3 DEF Ascends
  <2>5. stream' = [stream EXCEPT ![c] = new] /\ UNCHANGED <<next, open, visible>>
    BY <1>4, <2>1, <2>2 DEF Disconnect
  <2> QED
    BY <2>3, <2>4, <2>5, OneStreamKeepsInv
<1>5. CASE PruneChanges
  BY <1>5 DEF PruneChanges, StreamInv, StreamTypeOK, StreamsAscend
<1>6. CASE UNCHANGED streamVars
  BY <1>6 DEF streamVars, StreamInv, StreamTypeOK, StreamsAscend
<1> QED
  BY <1>1, <1>2, <1>3, <1>4, <1>5, <1>6 DEF StreamNext

\* The order of the streams is an invariant.
THEOREM StreamInvariant == StreamSpec => []StreamInv
BY StreamInitInv, StreamNextInv, PTL DEF StreamSpec

\* No client receives a change twice or out of order, over any number of broken
\* connections, whatever is committed, aborted or pruned meanwhile.
THEOREM ChangesArriveOnce == StreamSpec => []EachChangeOnce
<1>1. StreamInv => EachChangeOnce
  <2> SUFFICES ASSUME StreamInv, NEW c \in Streams
               PROVE  \A i, j \in DOMAIN stream[c].got :
                        i < j => stream[c].got[i] < stream[c].got[j]
    BY DEF EachChangeOnce
  <2>1. DOMAIN stream[c].got = 1..Len(stream[c].got)
    BY LenProperties DEF StreamInv, StreamTypeOK, StreamType
  <2> QED
    BY <2>1 DEF StreamInv, StreamsAscend, Ascends
<1> QED
  BY <1>1, StreamInvariant, PTL

-----------------------------------------------------------------------------
(***************************************************************************)
(* No gap, as long as no two transactions that append changes are open at  *)
(* once.  (With two, a number may be committed after a larger one has been *)
(* read.)                                                                  *)
(***************************************************************************)
\* A stream has not come as far as number n.
Behind(s, n) ==
    /\ s.start < n /\ s.cursor < n
    /\ \A i \in 1..Len(s.got) : s.got[i] < n

\* A stream has received every change between its start and where it is now.
Complete(s) ==
    \A n \in visible :
      s.start < n /\ ((s.up /\ n <= s.cursor) \/ \E i \in 1..Len(s.got) : n <= s.got[i])
      => \E i \in 1..Len(s.got) : s.got[i] = n

\* Numbers still to be committed or to be drawn are larger than all that is visible
\* and than all that any stream has come to.
NewNumbersAreLarge ==
    /\ \A c \in Streams : Behind(stream[c], next)
    /\ \A w \in Writers : \A n \in open[w] :
         (\A v \in visible : v < n) /\ (\A c \in Streams : Behind(stream[c], n))

StreamsAreComplete == \A c \in Streams : Complete(stream[c])

GapFree == NewNumbersAreLarge /\ StreamsAreComplete

\* LIMIT cuts a page at its far end: with a change, the page holds all before it.
LEMMA PagesHaveNoGap ==
    ASSUME StreamTypeOK, NEW after \in Nat, NEW m \in Changes(after), NEW n \in visible,
           n > after, n <= m
    PROVE  n \in Changes(after)
<1>1. PICK M \in SUBSET visible : M = {x \in visible : after < x /\ x < m}
  OBVIOUS
<1>2. PICK N \in SUBSET visible : N = {x \in visible : after < x /\ x < n}
  OBVIOUS
<1>3. m \in Nat /\ n \in Nat /\ \A x \in visible : x \in Nat
  BY DEF StreamTypeOK, Changes
<1>4. N \in SUBSET M
  <2>1. \A x \in visible : x < n => x < m
    BY <1>3
  <2> QED
    BY <1>1, <1>2, <2>1
<1>5. IsFiniteSet(M)
  BY VisibleIsFinite, FS_Subset
<1>6. Cardinality(N) <= Cardinality(M) /\ Cardinality(N) \in Nat /\ Cardinality(M) \in Nat
  BY <1>4, <1>5, FS_Subset, FS_CardinalityType
<1>7. Cardinality(M) < Page
  BY <1>1 DEF Changes
<1>8. Cardinality(N) < Page
  BY <1>6, <1>7, ChangeStreamAssumption
<1> QED
  BY <1>2, <1>8 DEF Changes

LEMMA PollCompletes ==
    ASSUME StreamTypeOK, NEW s \in StreamType, s.up, Ascends(s), Complete(s),
           NEW page, page = Ascending(Changes(s.cursor)), Len(page) # 0,
           NEW k \in 0..Len(page), NEW new \in StreamType, PolledTo(s, new, page, k)
    PROVE  Complete(new)
<1> SUFFICES ASSUME NEW n \in visible, s.start < n,
                    (new.up /\ n <= new.cursor) \/ \E i \in 1..Len(new.got) : n <= new.got[i]
             PROVE  \E i \in 1..Len(new.got) : new.got[i] = n
  BY DEF Complete, PolledTo
<1>1. /\ n \in Nat /\ s.cursor \in Nat /\ Len(s.got) \in Nat
      /\ \A i \in 1..Len(s.got) : s.got[i] \in Nat
  BY ElementOfSeq, LenProperties DEF StreamTypeOK, StreamType
<1>2. /\ Enumerates(page, Changes(s.cursor)) /\ page \in Seq(Nat) /\ Len(page) \in Nat
      /\ \A i \in 1..Len(page) : page[i] \in Changes(s.cursor) /\ page[i] \in Nat
  <2>1. Enumerates(page, Changes(s.cursor)) /\ page \in Seq(Nat)
    BY <1>1, PageIsAscending
  <2>2. page \in Seq(Changes(s.cursor))
    BY <2>1 DEF Enumerates
  <2> QED
    BY <2>1, <2>2, ElementOfSeq, LenProperties
<1>3. Len(new.got) = Len(s.got) + k /\ k \in Nat /\ k <= Len(page)
  BY <1>2 DEF PolledTo, Follows
<1>4. CASE n <= s.cursor
  <2>1. PICK i \in 1..Len(s.got) : s.got[i] = n
    BY <1>4, s.start < n, s.up DEF Complete
  <2>2. i \in 1..Len(new.got) /\ new.got[i] = n
    <3>1. i \in 1..Len(new.got)
      BY <1>1, <1>3
    <3>2. new.got[i] = s.got[i]
      BY DEF PolledTo, Follows
    <3> QED
      BY <2>1, <3>1, <3>2
  <2> QED
    BY <2>2
<1>5. CASE n > s.cursor
  <2>1. PICK j \in 1..k : n <= page[j]
    <3>1. CASE new.up /\ n <= new.cursor
      <4>1. k = Len(page) /\ n <= page[k]
        BY <3>1 DEF PolledTo
      <4> QED
        BY <1>3, <4>1
    <3>2. CASE \E i \in 1..Len(new.got) : n <= new.got[i]
      <4>1. PICK i \in 1..Len(new.got) : n <= new.got[i]
        BY <3>2
      <4>2. i > Len(s.got)
        <5> SUFFICES ASSUME i <= Len(s.got) PROVE FALSE
          BY <1>1
        <5>1. i \in 1..Len(s.got) /\ new.got[i] = s.got[i]
          BY <1>1 DEF PolledTo, Follows
        <5>2. s.got[i] <= s.cursor
          BY <5>1 DEF Ascends
        <5> QED
          BY <1>1, <1>5, <4>1, <5>1, <5>2
      <4>3. PICK j \in 1..k : i = Len(s.got) + j
        <5>1. PICK l \in Nat, g \in Nat : l = Len(s.got) /\ g = Len(new.got)
          BY <1>1, <1>3
        <5>2. g = l + k /\ i \in 1..g /\ i > l
          BY <1>3, <4>2, <5>1
        <5>3. i - l \in 1..k /\ i = l + (i - l)
          BY <1>3, <5>2
        <5> QED
          BY <5>1, <5>3
      <4>4. new.got[i] = page[j]
        BY <4>3 DEF PolledTo, Follows
      <4> QED
        BY <4>1, <4>4
    <3> QED
      BY <3>1, <3>2
  <2>2. j \in 1..Len(page) /\ page[j] \in Changes(s.cursor)
    BY <1>2, <1>3
  <2>3. n \in Changes(s.cursor)
    BY <1>1, <1>5, <2>1, <2>2, PagesHaveNoGap
  <2>4. PICK m \in 1..Len(page) : page[m] = n
    BY <1>2, <2>3 DEF Enumerates
  <2>5. ~(j < m)
    <3>1. j < m => page[j] < page[m]
      BY <1>2, <2>2, <2>4 DEF Enumerates
    <3> QED
      BY <1>1, <1>2, <2>1, <2>2, <2>4, <3>1
  <2>6. m \in 1..k /\ Len(s.got) + m \in 1..Len(new.got)
    BY <1>1, <1>2, <1>3, <2>4, <2>5
  <2>7. new.got[Len(s.got) + m] = n
    BY <2>4, <2>6 DEF PolledTo, Follows
  <2> QED
    BY <2>6, <2>7
<1> QED
  BY <1>1, <1>4, <1>5

\* A poll brings its stream to numbers that are visible, and no further.
LEMMA PollStaysBehind ==
    ASSUME NEW s \in StreamType, NEW page \in Seq(Nat), Len(page) # 0,
           NEW k \in 0..Len(page), NEW new \in StreamType, PolledTo(s, new, page, k),
           NEW n \in Nat, Behind(s, n), \A i \in 1..Len(page) : page[i] < n
    PROVE  Behind(new, n)
<1>1. /\ Len(s.got) \in Nat /\ Len(page) \in Nat /\ k \in Nat /\ s.start \in Nat
      /\ Len(new.got) = Len(s.got) + k
  BY LenProperties DEF StreamType, PolledTo, Follows
<1>2. new.start < n /\ n # 0
  BY <1>1 DEF PolledTo, Behind
<1>3. new.cursor < n
  BY <1>1, <1>2 DEF PolledTo
<1>4. ASSUME NEW i \in 1..Len(new.got) PROVE new.got[i] < n
  <2>1. CASE i <= Len(s.got)
    <3>1. i \in 1..Len(s.got)
      BY <1>1, <2>1
    <3> QED
      BY <3>1 DEF PolledTo, Follows, Behind
  <2>2. CASE i > Len(s.got)
    <3>1. PICK l \in Nat, g \in Nat : l = Len(s.got) /\ g = Len(new.got)
      BY <1>1
    <3>2. g = l + k /\ i \in 1..g /\ i > l
      BY <1>1, <2>2, <3>1
    <3>3. i - l \in 1..k /\ i = l + (i - l) /\ i - l \in 1..Len(page)
      BY <1>1, <3>2
    <3>4. new.got[i] = page[i - l]
      BY <3>1, <3>3 DEF PolledTo, Follows
    <3> QED
      BY <3>3, <3>4
  <2> QED
    BY <1>1, <2>1, <2>2
<1> QED
  BY <1>2, <1>3, <1>4 DEF Behind

\* What a step changes of one stream keeps the streams free of gaps.
LEMMA OneStreamGapFree ==
    ASSUME StreamInv, GapFree, NEW c \in Streams, NEW new \in StreamType,
           stream' = [stream EXCEPT ![c] = new], UNCHANGED <<next, open, visible>>,
           Complete(new),
           \A n \in Nat : Behind(stream[c], n) /\ (\A v \in visible : v < n) => Behind(new, n)
    PROVE  GapFree'
<1>1. \A d \in Streams : stream'[d] = IF d = c THEN new ELSE stream[d]
  BY DEF StreamInv, StreamTypeOK
<1>2. StreamsAreComplete'
  BY <1>1 DEF GapFree, StreamsAreComplete, Complete
<1>3. \A d \in Streams : Behind(stream'[d], next)
  BY <1>1 DEF StreamInv, StreamTypeOK, GapFree, NewNumbersAreLarge
<1>4. ASSUME NEW w \in Writers, NEW n \in open[w]
      PROVE  (\A v \in visible : v < n) /\ \A d \in Streams : Behind(stream'[d], n)
  <2>1. n \in Nat /\ (\A v \in visible : v < n) /\ \A d \in Streams : Behind(stream[d], n)
    BY DEF StreamInv, StreamTypeOK, GapFree, NewNumbersAreLarge
  <2> QED
    BY <1>1, <2>1
<1>5. NewNumbersAreLarge'
  BY <1>3, <1>4 DEF NewNumbersAreLarge
<1> QED
  BY <1>2, <1>5 DEF GapFree

LEMMA GapFreeInit == StreamInit => GapFree
BY DEF StreamInit, GapFree, NewNumbersAreLarge, StreamsAreComplete, Behind, Complete, Disconnected

LEMMA GapFreeNext ==
    ASSUME \A v, w \in Writers : v = w, StreamInv, GapFree, [StreamNext]_streamVars
    PROVE  GapFree'
<1> StreamTypeOK
  BY DEF StreamInv
<1>1. ASSUME NEW w \in Writers, LogChange(w) PROVE GapFree'
  <2>1. /\ next' = next + 1 /\ UNCHANGED <<visible, stream>>
        /\ open' = [open EXCEPT ![w] = @ \cup {next}]
    BY <1>1 DEF LogChange
  <2>2. StreamsAreComplete'
    BY <2>1 DEF GapFree, StreamsAreComplete, Complete
  <2>3. \A c \in Streams : Behind(stream[c], next')
    <3> SUFFICES ASSUME NEW c \in Streams PROVE Behind(stream[c], next + 1)
      BY <2>1
    <3>1. /\ stream[c].start \in Nat /\ stream[c].cursor \in Nat /\ next \in Nat
          /\ \A i \in 1..Len(stream[c].got) : stream[c].got[i] \in Nat
      BY ElementOfSeq DEF StreamTypeOK, StreamType
    <3> QED
      BY <3>1 DEF GapFree, NewNumbersAreLarge, Behind
  <2>4. \A u \in Writers : \A n \in open'[u] : n \in open[u] \/ n = next
    BY <2>1 DEF StreamTypeOK
  <2>5. NewNumbersAreLarge'
    BY <2>1, <2>3, <2>4 DEF GapFree, NewNumbersAreLarge, StreamTypeOK
  <2> QED
    BY <2>2, <2>5 DEF GapFree
<1>2. ASSUME NEW w \in Writers, Commit(w) PROVE GapFree'
  <2>1. /\ UNCHANGED <<next, stream>> /\ visible' = visible \cup open[w]
        /\ open' = [open EXCEPT ![w] = {}]
    BY <1>2 DEF Commit
  <2>2. \A u \in Writers : open'[u] = {}
    BY <2>1 DEF StreamTypeOK
  <2>3. NewNumbersAreLarge'
    BY <2>1, <2>2 DEF GapFree, NewNumbersAreLarge
  <2>4. ASSUME NEW c \in Streams, NEW n \in open[w]
        PROVE  /\ ~(n <= stream[c].cursor)
               /\ \A i \in 1..Len(stream[c].got) : ~(n <= stream[c].got[i])
    <3>1. /\ stream[c].cursor \in Nat /\ n \in Nat
          /\ \A i \in 1..Len(stream[c].got) : stream[c].got[i] \in Nat
      BY ElementOfSeq DEF StreamTypeOK, StreamType
    <3>2. Behind(stream[c], n)
      BY DEF GapFree, NewNumbersAreLarge
    <3> QED
      BY <3>1, <3>2 DEF Behind
  <2>5. StreamsAreComplete'
    BY <2>1, <2>4 DEF GapFree, StreamsAreComplete, Complete
  <2> QED
    BY <2>3, <2>5 DEF GapFree
<1>3. ASSUME NEW w \in Writers, Abort(w) PROVE GapFree'
  <2>1. UNCHANGED <<next, stream, visible>> /\ \A u \in Writers : open'[u] \subseteq open[u]
    BY <1>3 DEF Abort, StreamTypeOK
  <2> QED
    BY <2>1 DEF GapFree, NewNumbersAreLarge, StreamsAreComplete, Complete
<1>4. ASSUME NEW c \in Streams, Connect(c) PROVE GapFree'
  <2>1. PICK s \in StreamType : s = stream[c] /\ Complete(s)
    BY DEF StreamTypeOK, GapFree, StreamsAreComplete
  <2>2. PICK new \in StreamType :
          /\ stream' = [stream EXCEPT ![c] = new] /\ new.up /\ new.got = s.got
          /\ \/ /\ Len(s.got) = 0 /\ new.start = new.cursor /\ new.cursor \in visible \cup {0}
             \/ /\ Len(s.got) # 0 /\ new.start = s.start /\ new.cursor = s.got[Len(s.got)]
    BY <1>4, <2>1, ConnectSteps
  <2>3. Len(s.got) \in Nat /\ new.cursor \in Nat /\ s.start \in Nat
    BY LenProperties DEF StreamType
  <2>4. \A n \in Nat : Behind(s, n) /\ (\A v \in visible : v < n) => Behind(new, n)
    BY <2>2, <2>3 DEF Behind
  <2>5. Complete(new)
    <3>1. CASE Len(s.got) = 0
      BY <2>2, <2>3, <3>1 DEF Complete, StreamTypeOK
    <3>2. CASE Len(s.got) # 0
      <4>1. Len(s.got) \in 1..Len(s.got)
        BY <2>3, <3>2
      <4> QED
        BY <2>1, <2>2, <3>2, <4>1 DEF Complete
    <3> QED
      BY <3>1, <3>2
  <2> QED
    BY <1>4, <2>1, <2>2, <2>4, <2>5, OneStreamGapFree DEF Connect
<1>5. ASSUME NEW c \in Streams, Poll(c) PROVE GapFree'
  <2>1. PICK s \in StreamType : s = stream[c] /\ Ascends(s) /\ Complete(s)
    BY DEF StreamTypeOK, StreamInv, StreamsAscend, GapFree, StreamsAreComplete
  <2>2. PICK page : page = Ascending(Changes(s.cursor))
    OBVIOUS
  <2>3. s.cursor \in Nat
    BY DEF StreamType
  <2>4. PICK k \in 0..Len(page), new \in StreamType :
          PolledTo(s, new, page, k) /\ stream' = [stream EXCEPT ![c] = new]
    BY <1>5, <2>1, <2>2, PollSteps
  <2>5. page \in Seq(Nat) /\ Len(page) # 0 /\ s.up
    BY <1>5, <2>1, <2>2, PollSteps
  <2>6. Complete(new)
    BY <2>1, <2>2, <2>4, <2>5, PollCompletes
  <2>7. \A i \in 1..Len(page) : page[i] \in visible
    BY <2>2, <2>3, PageIsAscending
  <2>8. \A n \in Nat : Behind(s, n) /\ (\A v \in visible : v < n) => Behind(new, n)
    BY <2>4, <2>5, <2>7, PollStaysBehind
  <2> QED
    BY <1>5, <2>1, <2>4, <2>6, <2>8, OneStreamGapFree DEF Poll
<1>6. ASSUME NEW c \in Streams, Disconnect(c) PROVE GapFree'
  <2>1. PICK s \in StreamType : s = stream[c] /\ Complete(s)
    BY DEF StreamTypeOK, GapFree, StreamsAreComplete
  <2>2. PICK new : new = Disconnected(s.start, s.got)
    OBVIOUS
  <2>3. /\ new \in StreamType /\ ~new.up /\ new.got = s.got /\ new.start = s.start
        /\ new.cursor = 0 /\ s.start \in Nat
    BY <2>2 DEF StreamType, Disconnected
  <2>4. stream' = [stream EXCEPT ![c] = new] /\ UNCHANGED <<next, open, visible>>
    BY <1>6, <2>1, <2>2 DEF Disconnect
  <2>5. Complete(new)
    BY <2>1, <2>3 DEF Complete
  <2>6. \A n \in Nat : Behind(s, n) => Behind(new, n)
    BY <2>3 DEF Behind
  <2> QED
    BY <2>1, <2>3, <2>4, <2>5, <2>6, OneStreamGapFree
<1>7. CASE PruneChanges
  BY <1>7 DEF PruneChanges, GapFree, NewNumbersAreLarge, StreamsAreComplete, Complete
<1>8. CASE UNCHANGED streamVars
  BY <1>8 DEF streamVars, GapFree, NewNumbersAreLarge, StreamsAreComplete, Complete
<1> QED
  BY <1>1, <1>2, <1>3, <1>4, <1>5, <1>6, <1>7, <1>8 DEF StreamNext

\* With transactions that append changes one at a time, no committed change between
\* the start of a client and the last id it received is missing from what it received.
THEOREM ChangesAreComplete ==
    ASSUME \A v, w \in Writers : v = w
    PROVE  StreamSpec => []NoChangeSkipped
<1>1. StreamInv /\ GapFree => NoChangeSkipped
  <2> SUFFICES ASSUME StreamInv, GapFree, NEW c \in Streams, NEW n \in visible,
                      stream[c].got # <<>>, stream[c].start < n,
                      n <= stream[c].got[Len(stream[c].got)]
               PROVE  \E i \in DOMAIN stream[c].got : stream[c].got[i] = n
    BY DEF NoChangeSkipped
  <2>1. PICK g \in Seq(Nat) : g = stream[c].got
    BY DEF StreamInv, StreamTypeOK, StreamType
  <2>2. DOMAIN g = 1..Len(g) /\ Len(g) \in 1..Len(g)
    BY <2>1, LenProperties, EmptySeq
  <2>3. \E i \in 1..Len(g) : g[i] = n
    BY <2>1, <2>2 DEF GapFree, StreamsAreComplete, Complete
  <2> QED
    BY <2>1, <2>2, <2>3
<1>2. StreamInit => GapFree
  BY GapFreeInit
<1>3. StreamInv /\ GapFree /\ [StreamNext]_streamVars => GapFree'
  BY GapFreeNext
<1> QED
  BY <1>1, <1>2, <1>3, StreamInvariant, PTL DEF StreamSpec
=============================================================================
