--------------------------- MODULE BusinessProcess ---------------------------
(***************************************************************************)
(* The stored definition of one business process: GET, PUT and DELETE of   *)
(* server.go over the business_process table of store.go.  Every statement *)
(* is atomic in PostgreSQL; what interleaves are clients that read, think, *)
(* and write with the generation they have read, and whose replies may get *)
(* lost.                                                                   *)
(***************************************************************************)
EXTENDS Naturals, Functions

CONSTANTS
    Editors,      \* clients
    Definitions,  \* submitted definitions: records of the sequences nodes and roots
    MaxWrites,    \* bound on the stored writes
    Missing

ASSUME BusinessProcessAssumption == MaxWrites \in Nat

VARIABLES
    row,      \* the row of the process, or Missing
    known,    \* what each client has read last, or Missing
    writes,   \* history: stored writes; a row's stamp is the write that made it
    creation, \* history: how often the process was created
    author    \* history: the client of the last write, Missing before it

processVars == <<row, known, writes, creation, author>>

\* expectedGeneration of a client's request
Expected(c) == IF known[c] = Missing THEN 0 ELSE known[c].generation

-----------------------------------------------------------------------------
\* GET of the process or of the list: 200 with the row, or 404
GetBusinessProcess(c) ==
    /\ known' = [known EXCEPT ![c] = row]
    /\ UNCHANGED <<row, writes, creation, author>>

\* validateBusinessProcessDefinition: node names are unique, roots are nodes, once each
Valid(d) ==
    /\ IsInjective(d.nodes) /\ IsInjective(d.roots)
    /\ \A i \in DOMAIN d.roots : \E j \in DOMAIN d.nodes : d.nodes[j] = d.roots[i]

\* Seeded defect: the generation is not compared.
AnyGeneration(expected) == (row = Missing) = (expected = 0)

\* whether the row is the one the request expects: a missing one for generation 0
Matches(expected) ==
    IF row = Missing THEN expected = 0 ELSE row.generation = expected

NewRow(d, expected) ==
    [definition |-> d, generation |-> expected + 1, stamp |-> writes + 1,
     creation |-> IF expected = 0 THEN creation + 1 ELSE creation]

\* PUT: INSERT ... ON CONFLICT DO NOTHING, or UPDATE ... WHERE generation.  The reply
\* carries the stored row; when it is lost, the client is left with what it had read.
PutBusinessProcess(c, d, replied) ==
    LET stored == NewRow(d, Expected(c)) IN
    /\ writes < MaxWrites
    /\ Valid(d) /\ Matches(Expected(c))
    /\ row' = stored
    /\ creation' = stored.creation
    /\ writes' = writes + 1
    /\ author' = c
    /\ known' = IF replied THEN [known EXCEPT ![c] = stored] ELSE known

\* DELETE ... WHERE generation; the generation must be positive.
DeleteBusinessProcess(c, replied) ==
    /\ writes < MaxWrites
    /\ row # Missing /\ Expected(c) > 0 /\ Matches(Expected(c))
    /\ row' = Missing
    /\ writes' = writes + 1
    /\ author' = c
    /\ known' = IF replied THEN [known EXCEPT ![c] = Missing] ELSE known
    /\ UNCHANGED creation

\* A request that answers 400, 404 or 409 stores nothing; the client reads again.

-----------------------------------------------------------------------------
ProcessInit ==
    /\ row = Missing
    /\ known = [c \in Editors |-> Missing]
    /\ writes = 0
    /\ creation = 0
    /\ author = Missing

ProcessNext ==
    \E c \in Editors :
      \/ GetBusinessProcess(c)
      \/ \E replied \in BOOLEAN :
           \/ \E d \in Definitions : PutBusinessProcess(c, d, replied)
           \/ DeleteBusinessProcess(c, replied)

ProcessSpec == ProcessInit /\ [][ProcessNext]_processVars

-----------------------------------------------------------------------------
\* "updates require the generation returned by the last read": nobody overwrites or
\* deletes a definition other than the one read last, unless the process was deleted
\* and created again since that read, which starts its generations anew.
NoLostUpdate ==
    [][row # Missing /\ row' # row
       => LET base == known[author'] IN
          base # Missing /\ (base.stamp = row.stamp \/ base.creation # row.creation)]_processVars
=============================================================================
