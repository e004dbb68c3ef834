------------------------------- MODULE Listing -------------------------------
(***************************************************************************)
(* Cursor pagination of the resource list (store.go List): a client reads  *)
(* page after page, each with the cursor of the page before, while rows    *)
(* are inserted, tombstoned, changed, shown again and purged.  sort_id is  *)
(* drawn from an identity column inside the inserting transaction and the  *)
(* row becomes visible when it commits.                                    *)
(***************************************************************************)
EXTENDS Integers, FiniteSets

CONSTANTS
    Rows,      \* resource ids, ordered as the uuids are
    NameOf,    \* [Rows -> Nat]: the names, ordered as lower(name) is
    Limit,     \* rows per page
    MaxSortId  \* bound on the sort_ids drawn

ASSUME ListingAssumption ==
    /\ Rows \subseteq Nat /\ IsFiniteSet(Rows)
    /\ NameOf \in [Rows -> Nat]
    /\ Limit \in Nat \ {0} /\ MaxSortId \in Nat

VARIABLES
    order,    \* by sort_id, by id, or by name and sort_id
    drawn,    \* the last sort_id drawn
    sortId,   \* [Rows -> Nat], 0 for an id without a row
    state,    \* absent, inserting, matching the filter, or hidden from it
    cursor,   \* the cursor of the next page; Start before the first page, End after the last
    received,     \* [Rows -> Nat]: how often the client received a row
    steady    \* history: the rows that match since the first page was read

listingVars == <<order, drawn, sortId, state, cursor, received, steady>>

table == <<order, drawn, sortId, state>>

-----------------------------------------------------------------------------
\* applyResource: INSERT of an id that has no row
Insert(r) ==
    /\ state[r] = "absent" /\ drawn < MaxSortId
    /\ drawn' = drawn + 1
    /\ sortId' = [sortId EXCEPT ![r] = drawn + 1]
    /\ state' = [state EXCEPT ![r] = "inserting"]
    /\ UNCHANGED <<order, cursor, received, steady>>

\* the transaction ends
EndInsert(r, outcome) ==
    /\ state[r] = "inserting"
    /\ state' = [state EXCEPT ![r] = outcome]
    /\ sortId' = IF outcome = "absent" THEN [sortId EXCEPT ![r] = 0] ELSE sortId
    /\ UNCHANGED <<order, drawn, cursor, received, steady>>

\* An update keeps the sort_id.  It may tombstone the row or change a column of the
\* filter, or the other way round.
Update(r) ==
    /\ state[r] \in {"matching", "hidden"}
    /\ state' = [state EXCEPT ![r] = IF @ = "matching" THEN "hidden" ELSE "matching"]
    /\ steady' = steady \ {r}
    /\ UNCHANGED <<order, drawn, sortId, cursor, received>>

\* Cleanup deletes tombstones and events.
Purge(r) ==
    /\ state[r] = "hidden"
    /\ state' = [state EXCEPT ![r] = "absent"]
    /\ sortId' = [sortId EXCEPT ![r] = 0]
    /\ UNCHANGED <<order, drawn, cursor, received, steady>>

-----------------------------------------------------------------------------
Start == <<-1, 0>>
End   == <<-1, 1>>

\* what ORDER BY compares, and what the cursor encodes
Key(r) ==
    CASE order = "sort" -> <<0, sortId[r]>>
      [] order = "id"   -> <<0, r>>
      [] order = "name" -> <<NameOf[r], sortId[r]>>

Before(k, l) == k[1] < l[1] \/ (k[1] = l[1] /\ k[2] < l[2])

\* the rows that match, after the cursor
Ahead == {r \in Rows : state[r] = "matching" /\ Before(cursor, Key(r))}

Rank(r) == Cardinality({x \in Ahead : Before(Key(x), Key(r))})

\* Seeded defect: the cursor is the row that was read in excess.
FirstOfRest(r) == Rank(r) = Limit

\* the last row returned, when Limit + 1 rows were read
LastOfPage(r) == Rank(r) = Limit - 1

\* List, and the client that asks for the page after the cursor it holds
List ==
    /\ cursor # End
    /\ received' = [r \in Rows |-> IF r \in Ahead /\ Rank(r) < Limit THEN received[r] + 1 ELSE received[r]]
    /\ IF Cardinality(Ahead) > Limit
         THEN \E r \in Ahead : LastOfPage(r) /\ cursor' = Key(r)
         ELSE cursor' = End
    /\ steady' = IF cursor = Start THEN Ahead ELSE steady
    /\ UNCHANGED table

\* the client begins a new listing
Again ==
    /\ cursor = End
    /\ cursor' = Start
    /\ received' = [r \in Rows |-> 0]
    /\ steady' = {}
    /\ UNCHANGED table

-----------------------------------------------------------------------------
ListingInit ==
    /\ order \in {"sort", "id", "name"}
    /\ drawn = 0
    /\ sortId = [r \in Rows |-> 0]
    /\ state = [r \in Rows |-> "absent"]
    /\ cursor = Start
    /\ received = [r \in Rows |-> 0]
    /\ steady = {}

ListingNext ==
    \/ \E r \in Rows :
         \/ Insert(r) \/ Update(r) \/ Purge(r)
         \/ \E outcome \in {"absent", "matching"} : EndInsert(r, outcome)
    \/ List \/ Again

ListingSpec == ListingInit /\ [][ListingNext]_listingVars

-----------------------------------------------------------------------------
\* A row that matches the filter from the first page to the last is received exactly
\* once, whatever is inserted, removed or shown again around it, in every order.
SteadyRowsOnce ==
    \A r \in steady : received[r] <= 1 /\ (cursor = End => received[r] = 1)
=============================================================================
