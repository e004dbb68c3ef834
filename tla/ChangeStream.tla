----------------------------- MODULE ChangeStream -----------------------------
(***************************************************************************)
(* The change log and the server-sent event stream over it.  Workers       *)
(* append change_log rows inside their ApplyShard or ResolveEvents         *)
(* transaction (store.go applyResource); the sequence number of a row is   *)
(* drawn from a bigserial at the INSERT, the row becomes visible at the    *)
(* commit, and numbers of an aborted transaction are never reused.  Each   *)
(* stream (server.go events) polls the rows after its cursor once per      *)
(* second; a client that lost its connection resumes with Last-Event-ID.   *)
(***************************************************************************)
EXTENDS Naturals, FiniteSets, Sequences

CONSTANTS
    Writers,   \* concurrent transactions that append changes
    Streams,   \* event-stream clients
    Page,      \* the limit of one poll (250)
    MaxSeq     \* bound on the sequence numbers drawn

ASSUME ChangeStreamAssumption ==
    Page \in Nat \ {0} /\ MaxSeq \in Nat

VARIABLES
    next,     \* the next number of change_log_sequence_seq
    open,     \* numbers drawn by each open transaction
    visible,  \* committed change_log rows
    stream    \* the clients

streamVars == <<next, open, visible, stream>>

\* got: the ids received since start; start: the cursor the client began with
Disconnected(start, got) == [up |-> FALSE, start |-> start, cursor |-> 0, got |-> got]

-----------------------------------------------------------------------------
\* INSERT INTO change_log inside an open transaction
LogChange(w) ==
    /\ next <= MaxSeq
    /\ open' = [open EXCEPT ![w] = @ \cup {next}]
    /\ next' = next + 1
    /\ UNCHANGED <<visible, stream>>

Commit(w) ==
    /\ open[w] # {}
    /\ visible' = visible \cup open[w]
    /\ open' = [open EXCEPT ![w] = {}]
    /\ UNCHANGED <<next, stream>>

Abort(w) ==
    /\ open[w] # {}
    /\ open' = [open EXCEPT ![w] = {}]
    /\ UNCHANGED <<next, visible, stream>>

-----------------------------------------------------------------------------
\* LatestSequence: COALESCE(MAX(sequence), 0)
LatestSequence == CHOOSE m \in visible \cup {0} : \A x \in visible : x <= m

\* A connection without Last-Event-ID starts at the tail, one with it resumes
\* after the last id the client received.
Connect(c) ==
    LET last == stream[c].got IN
    /\ ~stream[c].up
    /\ stream' = [stream EXCEPT ![c] =
         IF last = <<>>
           THEN [up |-> TRUE, start |-> LatestSequence, cursor |-> LatestSequence,
                 got |-> <<>>]
           ELSE [up |-> TRUE, start |-> stream[c].start, cursor |-> last[Len(last)],
                 got |-> last]]
    /\ UNCHANGED <<next, open, visible>>

\* Seeded defect: the page is read from the newest end.
ChangesNewest(after) ==
    {n \in visible : n > after /\ Cardinality({x \in visible : x > n}) < Page}

\* Seeded defect: the cursor itself is read again.
ChangesInclusive(after) ==
    {n \in visible : n >= after /\ Cardinality({x \in visible : after <= x /\ x < n}) < Page}

\* Changes: WHERE sequence > after ORDER BY sequence LIMIT
Changes(after) ==
    {n \in visible : n > after /\ Cardinality({x \in visible : after < x /\ x < n}) < Page}

\* a finite set of numbers in ascending order
Ascending(S) ==
    CHOOSE q \in [1..Cardinality(S) -> S] : \A i, j \in DOMAIN q : i < j => q[i] < q[j]

\* One poll: every row is written and the cursor follows it; the connection may
\* break after the client received the first k of them.
Poll(c) ==
    LET page == Ascending(Changes(stream[c].cursor)) IN
    /\ stream[c].up
    /\ page # <<>>
    /\ \/ stream' = [stream EXCEPT ![c].got = @ \o page, ![c].cursor = page[Len(page)]]
       \/ \E k \in 0..Len(page) :
            stream' = [stream EXCEPT ![c] =
              Disconnected(@.start, @.got \o SubSeq(page, 1, k))]
    /\ UNCHANGED <<next, open, visible>>

Disconnect(c) ==
    /\ stream[c].up
    /\ stream' = [stream EXCEPT ![c] = Disconnected(@.start, @.got)]
    /\ UNCHANGED <<next, open, visible>>

\* The change-log statement of the retention transaction; which rows are old
\* enough is left open.
PruneChanges ==
    \E old \in SUBSET visible \ {{}} :
      /\ visible' = visible \ old
      /\ UNCHANGED <<next, open, stream>>

-----------------------------------------------------------------------------
StreamInit ==
    /\ next = 1
    /\ open = [w \in Writers |-> {}]
    /\ visible = {}
    /\ stream = [c \in Streams |-> Disconnected(0, <<>>)]

StreamNext ==
    \/ \E w \in Writers : LogChange(w) \/ Commit(w) \/ Abort(w)
    \/ \E c \in Streams : Connect(c) \/ Poll(c) \/ Disconnect(c)
    \/ PruneChanges

\* The ticker of every open stream fires again and again.
StreamSpec == StreamInit /\ [][StreamNext]_streamVars /\ \A c \in Streams : WF_streamVars(Poll(c))

-----------------------------------------------------------------------------
\* A client receives the changes in ascending order and none twice, also over
\* broken connections and Last-Event-ID.
EachChangeOnce ==
    \A c \in Streams : \A i, j \in DOMAIN stream[c].got :
      i < j => stream[c].got[i] < stream[c].got[j]

\* "An explicit non-negative cursor resumes after that sequence": what a stream
\* has passed it has delivered; no committed change between the start of a client
\* and the last id it received is missing from what it received.
NoChangeSkipped ==
    \A c \in Streams :
      LET got == stream[c].got IN
      \A n \in visible :
        got # <<>> /\ stream[c].start < n /\ n <= got[Len(got)]
        => \E i \in DOMAIN got : got[i] = n
=============================================================================
