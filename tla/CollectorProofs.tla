--------------------------- MODULE CollectorProofs ---------------------------
(***************************************************************************)
(* What module Collector promises for any number of objects and replicas,  *)
(* any number of changes, lost Leases, failed lists and interrupted        *)
(* watches, as long as Send returns no error while its context is live: a  *)
(* marker spares what its snapshot listed, and a collector that has caught *)
(* up has made the inventory equal to the cluster.  Send errors or not,    *)
(* rows change by the rules of module Inventory only.                      *)
(*                                                                         *)
(* The messages under way are in lanes: the channel of each replica, and   *)
(* the batch of the watch goroutine as the lane None.  A message is a      *)
(* claim about an object that counts by its observation time alone, so     *)
(* the argument is about the set of messages under way and the row, not    *)
(* about the order in which the lanes are emptied.                         *)
(***************************************************************************)
EXTENDS Collector, SequenceTheorems, TLAPS

Actions == {"upsert", "delete"}
Ids     == (Objects \cup {None}) \X Nat \X {"upsert", "delete", "reconcile"} \X Nat

Messages ==
    [kind: Actions, object: Objects, version: Nat, observed: Nat, id: Ids, listed: {{}}]
    \cup [kind: {"reconcile"}, object: {None}, version: {0}, observed: Nat, id: Ids,
          listed: SUBSET Objects]

Watchers ==
    [pc: {"off", "start", "list", "pages", "open", "watch"}, started: Nat, rv: Nat,
     listed: SUBSET Objects, batch: Seq(Messages)]

\* The values of the variables.
CollectorTypeOK ==
    /\ log \in Seq([object: Objects, action: Actions])
    /\ now \in Nat
    /\ leader \in Replicas \cup {None}
    /\ watcher \in Watchers
    /\ channel \in [Replicas -> Seq(Messages)]
    /\ seen \in SUBSET Ids
    /\ row \in [Objects -> RowType \cup {NoRow}]
    /\ watermark \in Nat

-----------------------------------------------------------------------------
(***************************************************************************)
(* Lanes.                                                                  *)
(***************************************************************************)
Lanes == Replicas \cup {None}

lane == [x \in Lanes |-> IF x = None THEN watcher.batch ELSE channel[x]]

\* the messages in the lanes q
Contents(q) == {m \in Messages : \E x \in Lanes : \E i \in 1..Len(q[x]) : q[x][i] = m}

\* No id is under way twice, and none that the inbox knows is under way.
Distinct(q, known) ==
    /\ \A x \in Lanes : \A i \in 1..Len(q[x]) : q[x][i].id \notin known
    /\ \A x, y \in Lanes : \A i \in 1..Len(q[x]), j \in 1..Len(q[y]) :
         q[x][i].id = q[y][j].id => x = y /\ i = j

UnderWay == Contents(lane)

-----------------------------------------------------------------------------
(***************************************************************************)
(* The log.                                                                *)
(***************************************************************************)
\* VersionAt for a log given as l
VersionIn(l, o, n) ==
    LET own == {i \in 1..n : l[i].object = o} IN
    IF own = {} THEN 0
    ELSE LET last == CHOOSE i \in own : \A j \in own : j <= i IN
         IF l[last].action = "delete" THEN 0 ELSE last

\* the last change of o among the first n of log l is at i
Latest(l, o, n, i) ==
    i \in 1..n /\ l[i].object = o /\ \A j \in 1..n : l[j].object = o => j <= i

\* An object that has changed has changed for a last time.
Lasts(l) ==
    \A o \in Objects, n \in 0..Len(l) :
      (\A i \in 1..n : l[i].object # o) \/ \E i \in 1..n : Latest(l, o, n, i)

-----------------------------------------------------------------------------
(***************************************************************************)
(* What the messages P under way and the row x will make of object o.      *)
(***************************************************************************)
About(o, m) == m.kind # "reconcile" /\ m.object = o

\* Nothing about o was observed since t.
Unlisted(o, t, P, x) ==
    /\ \A m \in P : About(o, m) => m.observed < t
    /\ x # NoRow => x.observed < t

\* The latest claim about o, not older than t, is that it exists with version v; it is
\* on the way or applied.
Exists(o, t, v, P, x) ==
    \/ \E d \in P :
         /\ About(o, d) /\ d.kind = "upsert" /\ d.version = v /\ d.observed >= t
         /\ x # NoRow => x.observed <= d.observed
         /\ \A m \in P : About(o, m) /\ m # d => m.observed < d.observed
    \/ /\ x # NoRow /\ ~x.deleted /\ x.version = v /\ x.observed >= t
       /\ \A m \in P : About(o, m) => m.observed < x.observed

\* A deletion of o observed after t is on the way or applied.
DeletedAfter(o, t, P, x) ==
    \/ x # NoRow /\ x.deleted /\ x.observed > t
    \/ \E m \in P : About(o, m) /\ m.kind = "delete" /\ m.observed > t

\* Every claim that o exists is older than t or followed by its deletion.
Gone(o, t, P, x) ==
    /\ \A m \in P : About(o, m) /\ m.kind = "upsert" =>
         m.observed < t \/ DeletedAfter(o, m.observed, P, x)
    /\ x # NoRow /\ ~x.deleted => x.observed < t \/ DeletedAfter(o, x.observed, P, x)

-----------------------------------------------------------------------------
(***************************************************************************)
(* The inductive invariant.                                                *)
(***************************************************************************)
\* The goroutine of the holder and its position in the log.
WatcherIsSound ==
    /\ watcher.pc # "off" => leader # None
    /\ watcher.pc # "watch" => watcher.batch = <<>>
    /\ watcher.rv <= Len(log)
    /\ watcher.pc \in {"list", "pages"} => watcher.started \in 1..now
    /\ \A i \in 1..Len(watcher.batch) : watcher.batch[i].listed = {}

\* No observation is of the future, and no live row is older than the watermark.
TimesAreSound ==
    /\ watermark <= now
    /\ \A m \in UnderWay : m.observed <= now
    /\ \A o \in Objects : row[o] # NoRow => row[o].observed <= now
    /\ \A o \in Objects : Live(o) => row[o].observed >= watermark

\* The ids in use leave those free that the holder is about to use: a watch event has
\* the version it was received at, a snapshot event the start of its snapshot.
Used == seen \cup {m.id : m \in UnderWay}

Reached == IF watcher.pc \in {"pages", "open", "watch"} THEN watcher.rv ELSE Len(log)

IdsAreFresh ==
    \A id \in Used :
      /\ id[4] = 0 => id[2] <= Reached
      /\ id[4] <= now
      /\ watcher.pc \in {"list", "pages"} /\ id[4] = watcher.started =>
           id[3] = "upsert" /\ id[1] \in watcher.listed

\* no marker is later than t
MarkersBy(t) ==
    watermark <= t /\ \A m \in UnderWay : m.kind = "reconcile" => m.observed <= t

\* Before the marker: what the snapshot listed is on the way, all else is older.
Snapshot ==
    /\ watcher.pc \in {"list", "pages"} =>
         /\ MarkersBy(watcher.started - 1)
         /\ \A o \in Objects \ watcher.listed : Unlisted(o, watcher.started, UnderWay, row[o])
    /\ watcher.pc = "list" => watcher.listed = {}
    /\ watcher.pc = "pages" =>
         \A o \in watcher.listed :
           /\ VersionIn(log, o, watcher.rv) # 0
           /\ Exists(o, watcher.started, VersionIn(log, o, watcher.rv), UnderWay, row[o])

\* After it: the latest marker is on the way or applied, and the claims about each
\* object amount to the cluster as of the holder's position in the log.
Follows(t) ==
    /\ MarkersBy(t)
    /\ watermark = t \/ \E m \in UnderWay : m.kind = "reconcile" /\ m.observed = t
    /\ \A o \in Objects :
         IF VersionIn(log, o, watcher.rv) = 0
           THEN Gone(o, t, UnderWay, row[o])
           ELSE Exists(o, t, VersionIn(log, o, watcher.rv), UnderWay, row[o])

Watching == watcher.pc \in {"open", "watch"} => \E t \in Nat : Follows(t)

\* Ahead of place i in lane r, or applied, is an observation of o since t; or a later
\* marker has been applied.
Ahead(r, i, o, t) ==
    \/ \E j \in 1..(i - 1) :
         About(o, channel[r][j]) /\ channel[r][j].observed >= t
    \/ row[o] # NoRow /\ row[o].observed >= t
    \/ watermark > t

\* A marker comes after everything its snapshot listed.
SentBehind ==
    \A r \in Replicas : \A i \in 1..Len(channel[r]) :
      \A o \in channel[r][i].listed : Ahead(r, i, o, channel[r][i].observed)

MarkersFollow ==
    /\ SentBehind
    /\ watcher.pc = "pages" => \A o \in watcher.listed :
         Ahead(leader, Len(channel[leader]) + 1, o, watcher.started)

CollectorInv ==
    /\ CollectorTypeOK
    /\ Lasts(log)
    /\ Distinct(lane, seen)
    /\ WatcherIsSound
    /\ TimesAreSound
    /\ IdsAreFresh
    /\ Snapshot
    /\ Watching
    /\ MarkersFollow

-----------------------------------------------------------------------------
(***************************************************************************)
(* Lemmas about lanes.                                                     *)
(***************************************************************************)
LaneType == [Lanes -> Seq(Messages)]

LEMMA LaneFacts ==
    ASSUME NEW q \in LaneType, NEW x \in Lanes
    PROVE  /\ q[x] \in Seq(Messages) /\ Len(q[x]) \in Nat
           /\ \A i \in 1..Len(q[x]) : q[x][i] \in Messages /\ q[x][i] \in Contents(q)
<1>1. q[x] \in Seq(Messages) /\ Len(q[x]) \in Nat
  BY LenProperties DEF LaneType
<1>2. \A i \in 1..Len(q[x]) : q[x][i] \in Messages
  BY <1>1, ElementOfSeq
<1> QED
  BY <1>1, <1>2 DEF Contents

\* How the lanes n follow from q: the first message of lane r is taken, m joins lane r,
\* the batch is dropped, or the batch moves to the end of lane r.
Takes(q, r, m, n) == q[r] # <<>> /\ m = Head(q[r]) /\ n = [q EXCEPT ![r] = Tail(q[r])]
Posts(q, r, m, n) == n = [q EXCEPT ![r] = Append(q[r], m)]
Drops(q, n)       == n = [q EXCEPT ![None] = <<>>]
Moves(q, r, n)    == n = [q EXCEPT ![r] = q[r] \o q[None], ![None] = <<>>]

\* The first message of a lane is taken.
LEMMA TakeFromLane ==
    ASSUME NEW q \in LaneType, NEW r \in Lanes, NEW known, Distinct(q, known),
           NEW m, NEW n, Takes(q, r, m, n)
    PROVE  /\ n \in LaneType /\ m \in Contents(q) /\ m.id \notin known
           /\ Contents(n) = Contents(q) \ {m}
           /\ Distinct(n, known \cup {m.id})
<1> q[r] # <<>> /\ m = Head(q[r]) /\ n = [q EXCEPT ![r] = Tail(q[r])]
  BY DEF Takes
<1>1. /\ n \in LaneType /\ Len(q[r]) \in Nat /\ Len(q[r]) # 0
      /\ Len(n[r]) = Len(q[r]) - 1
      /\ \A i \in 1..Len(n[r]) : n[r][i] = q[r][i + 1]
      /\ m = q[r][1] /\ 1 \in 1..Len(q[r])
  <2>1. q[r] \in Seq(Messages) /\ Len(q[r]) \in Nat /\ Len(q[r]) # 0
    BY LaneFacts, EmptySeq
  <2>2. /\ Tail(q[r]) \in Seq(Messages) /\ Len(Tail(q[r])) = Len(q[r]) - 1
        /\ \A i \in 1..Len(Tail(q[r])) : Tail(q[r])[i] = q[r][i + 1]
    BY <2>1, HeadTailProperties
  <2>3. n[r] = Tail(q[r]) /\ n \in LaneType
    BY <2>2 DEF LaneType
  <2>4. m = q[r][1]
    <3>1. PICK s \in Seq(Messages) : s = q[r]
      BY <2>1
    <3>2. Head(s) = s[1]
      BY <2>1, <3>1
    <3> QED
      BY <3>1, <3>2
  <2>5. Len(n[r]) = Len(q[r]) - 1 /\ \A i \in 1..Len(n[r]) : n[r][i] = q[r][i + 1]
    BY <2>2, <2>3, Zenon
  <2>6. 1 \in 1..Len(q[r])
    BY <2>1
  <2> QED
    BY <2>1, <2>3, <2>4, <2>5, <2>6, Zenon
<1>2. \A x \in Lanes : x # r => n[x] = q[x]
  BY DEF LaneType
<1>3. m \in Contents(q) /\ m.id \notin known
  BY <1>1, LaneFacts DEF Distinct
<1>4. \A i \in 1..Len(n[r]) : i + 1 \in 1..Len(q[r]) /\ i + 1 # 1
  BY <1>1
<1>5. \A x \in Lanes : \A i \in 1..Len(n[x]) :
        \E j \in 1..Len(q[x]) : n[x][i] = q[x][j] /\ (x = r => j = i + 1) /\ (x # r => j = i)
  BY <1>1, <1>2, <1>4
<1>6. \A x \in Lanes : \A i \in 1..Len(n[x]) : n[x][i].id # m.id
  <2> SUFFICES ASSUME NEW x \in Lanes, NEW i \in 1..Len(n[x]) PROVE n[x][i].id # m.id
    OBVIOUS
  <2>1. PICK j \in 1..Len(q[x]) : n[x][i] = q[x][j] /\ (x = r => j = i + 1)
    BY <1>5
  <2>2. x = r => j # 1
    BY <1>4, <2>1
  <2> QED
    BY <1>1, <2>1, <2>2 DEF Distinct
<1>7. Contents(n) = Contents(q) \ {m}
  <2>1. ASSUME NEW a \in Contents(n) PROVE a \in Contents(q) \ {m}
    <3>1. PICK x \in Lanes : \E i \in 1..Len(n[x]) : n[x][i] = a
      BY <2>1 DEF Contents
    <3>2. PICK i \in 1..Len(n[x]) : n[x][i] = a
      BY <3>1
    <3>3. PICK j \in 1..Len(q[x]) : q[x][j] = a
      BY <1>5, <3>2
    <3>4. a.id # m.id
      BY <1>6, <3>2
    <3> QED
      BY <3>3, <3>4, LaneFacts
  <2>2. ASSUME NEW a \in Contents(q), a # m PROVE a \in Contents(n)
    <3>0. PICK x \in Lanes : \E j \in 1..Len(q[x]) : q[x][j] = a
      BY <2>2 DEF Contents
    <3>1. PICK j \in 1..Len(q[x]) : q[x][j] = a
      BY <3>0
    <3>2. \E i \in 1..Len(n[x]) : n[x][i] = a
      <4>1. CASE x # r
        BY <1>2, <3>1, <4>1
      <4>2. CASE x = r
        <5>1. j # 1
          BY <1>1, <2>2, <3>1, <4>2
        <5>2. j - 1 \in 1..Len(n[r]) /\ (j - 1) + 1 = j
          BY <1>1, <3>1, <4>2, <5>1
        <5> QED
          BY <1>1, <3>1, <4>2, <5>2
      <4> QED
        BY <4>1, <4>2
    <3> QED
      BY <2>2, <3>1, <3>2 DEF Contents
  <2> QED
    BY <2>1, <2>2, <1>6 DEF Contents
<1>8. Distinct(n, known \cup {m.id})
  <2>1. ASSUME NEW x \in Lanes, NEW i \in 1..Len(n[x])
        PROVE  n[x][i].id \notin known \cup {m.id}
    <3>1. PICK j \in 1..Len(q[x]) : n[x][i] = q[x][j]
      BY <1>5
    <3>2. q[x][j].id \notin known
      BY DEF Distinct
    <3> QED
      BY <1>6, <3>1, <3>2
  <2>2. ASSUME NEW x \in Lanes, NEW y \in Lanes, NEW i \in 1..Len(n[x]), NEW j \in 1..Len(n[y]),
               n[x][i].id = n[y][j].id
        PROVE  x = y /\ i = j
    <3>1. PICK a \in 1..Len(q[x]) :
            n[x][i] = q[x][a] /\ (x = r => a = i + 1) /\ (x # r => a = i)
      BY <1>5
    <3>2. PICK b \in 1..Len(q[y]) :
            n[y][j] = q[y][b] /\ (y = r => b = j + 1) /\ (y # r => b = j)
      BY <1>5
    <3>3. x = y /\ a = b
      BY <2>2, <3>1, <3>2 DEF Distinct
    <3>4. Len(n[x]) \in Nat /\ Len(n[y]) \in Nat
      BY <1>1, LaneFacts
    <3> QED
      BY <3>1, <3>2, <3>3, <3>4
  <2> QED
    BY <2>1, <2>2 DEF Distinct
<1> QED
  BY <1>1, <1>3, <1>7, <1>8

\* A message with an id that is not in use joins a lane.
LEMMA PostToLane ==
    ASSUME NEW q \in LaneType, NEW r \in Lanes, NEW known, Distinct(q, known),
           NEW m \in Messages, m.id \notin known, \A a \in Contents(q) : a.id # m.id,
           NEW n, Posts(q, r, m, n)
    PROVE  n \in LaneType /\ Contents(n) = Contents(q) \cup {m} /\ Distinct(n, known)
<1> n = [q EXCEPT ![r] = Append(q[r], m)]
  BY DEF Posts
<1>1. /\ n \in LaneType /\ Len(q[r]) \in Nat
      /\ Len(n[r]) = Len(q[r]) + 1
      /\ \A i \in 1..Len(q[r]) : n[r][i] = q[r][i]
      /\ n[r][Len(q[r]) + 1] = m
  <2>1. q[r] \in Seq(Messages) /\ Len(q[r]) \in Nat
    BY LaneFacts
  <2>2. n[r] = Append(q[r], m) /\ n \in LaneType
    BY <2>1, AppendProperties DEF LaneType
  <2> QED
    BY <2>1, <2>2, AppendProperties
<1>2. \A x \in Lanes : x # r => n[x] = q[x]
  BY DEF LaneType
<1>3. \A x \in Lanes : \A i \in 1..Len(n[x]) :
        \/ i \in 1..Len(q[x]) /\ n[x][i] = q[x][i]
        \/ x = r /\ i = Len(q[r]) + 1 /\ n[x][i] = m
  BY <1>1, <1>2
<1>4. \A x \in Lanes : \A i \in 1..Len(q[x]) :
        i \in 1..Len(n[x]) /\ n[x][i] = q[x][i] /\ q[x][i].id # m.id
  BY <1>1, <1>2, LaneFacts
<1>5. Contents(n) = Contents(q) \cup {m}
  <2>1. ASSUME NEW a \in Contents(n) PROVE a \in Contents(q) \cup {m}
    BY <1>3, <2>1 DEF Contents
  <2>2. ASSUME NEW a \in Contents(q) PROVE a \in Contents(n)
    BY <1>4, <2>2 DEF Contents
  <2>3. m \in Contents(n)
    <3>1. Len(q[r]) + 1 \in 1..Len(n[r])
      BY <1>1
    <3> QED
      BY <1>1, <3>1 DEF Contents
  <2> QED
    BY <2>1, <2>2, <2>3
<1>6. Distinct(n, known)
  <2>1. \A x \in Lanes : \A i \in 1..Len(n[x]) : n[x][i].id \notin known
    BY <1>3 DEF Distinct
  <2>2. ASSUME NEW x \in Lanes, NEW y \in Lanes, NEW i \in 1..Len(n[x]), NEW j \in 1..Len(n[y]),
               n[x][i].id = n[y][j].id
        PROVE  x = y /\ i = j
    BY <1>3, <1>4, <2>2 DEF Distinct
  <2> QED
    BY <2>1, <2>2 DEF Distinct
<1> QED
  BY <1>1, <1>5, <1>6

\* The batch is dropped.
LEMMA DropBatch ==
    ASSUME NEW q \in LaneType, NEW known, Distinct(q, known),
           NEW n, Drops(q, n)
    PROVE  /\ n \in LaneType /\ Distinct(n, known) /\ Contents(n) \subseteq Contents(q)
           /\ q[None] = <<>> => n = q
<1> n = [q EXCEPT ![None] = <<>>]
  BY DEF Drops
<1>1. None \in Lanes /\ n \in LaneType /\ n[None] = <<>>
  BY EmptySeq DEF LaneType, Lanes
<1>2. \A x \in Lanes : x # None => n[x] = q[x]
  BY DEF LaneType
<1>3. Len(n[None]) = 0
  BY <1>1
<1>4. \A x \in Lanes : \A i \in 1..Len(n[x]) : i \in 1..Len(q[x]) /\ n[x][i] = q[x][i]
  BY <1>1, <1>2, <1>3
<1>5. Distinct(n, known)
  BY <1>4 DEF Distinct
<1>6. Contents(n) \subseteq Contents(q)
  BY <1>4 DEF Contents
<1>7. q[None] = <<>> => n = q
  BY DEF LaneType
<1> QED
  BY <1>1, <1>5, <1>6, <1>7

\* c, of length k, is s on its first a places and u on the b others.
Spliced(c, s, u, k, a, b) ==
    /\ \A i \in 1..k : \/ i \in 1..a /\ c[i] = s[i]
                       \/ \E j \in 1..b : i = a + j /\ c[i] = u[j]
    /\ \A i \in 1..a : i \in 1..k /\ c[i] = s[i]
    /\ \A j \in 1..b : a + j \in 1..k /\ c[a + j] = u[j]

LEMMA PlacesSplit ==
    ASSUME NEW a \in Nat, NEW b \in Nat, NEW s, NEW u, NEW c,
           \A i \in 1..(a + b) : c[i] = IF i <= a THEN s[i] ELSE u[i - a]
    PROVE  Spliced(c, s, u, a + b, a, b)
<1>1. ASSUME NEW i \in 1..(a + b)
      PROVE  \/ i \in 1..a /\ c[i] = s[i]
             \/ \E j \in 1..b : i = a + j /\ c[i] = u[j]
  <2>1. CASE i <= a
    <3>1. c[i] = s[i]
      BY <2>1
    <3>2. i \in 1..a
      BY <2>1
    <3> QED
      BY <3>1, <3>2
  <2>2. CASE ~(i <= a)
    <3>1. i - a \in 1..b /\ i = a + (i - a)
      BY <2>2
    <3>2. c[i] = u[i - a]
      BY <2>2
    <3> QED
      BY <3>1, <3>2, Zenon
  <2> QED
    BY <2>1, <2>2
<1>2. \A i \in 1..a : i \in 1..(a + b) /\ c[i] = s[i]
  OBVIOUS
<1>3. ASSUME NEW j \in 1..b PROVE a + j \in 1..(a + b) /\ c[a + j] = u[j]
  <2>1. a + j \in 1..(a + b) /\ ~(a + j <= a) /\ (a + j) - a = j
    OBVIOUS
  <2> QED
    BY <2>1
<1> QED
  BY <1>1, <1>2, <1>3 DEF Spliced

\* The places of a concatenation.
LEMMA ConcatPlaces ==
    ASSUME NEW S, NEW s \in Seq(S), NEW u \in Seq(S), NEW c, c = s \o u
    PROVE  c \in Seq(S) /\ Spliced(c, s, u, Len(c), Len(s), Len(u))
<1>1. PICK a \in Nat, b \in Nat : a = Len(s) /\ b = Len(u)
  BY LenProperties
<1>2. /\ c \in Seq(S) /\ Len(c) = a + b
      /\ \A i \in 1..(a + b) : c[i] = IF i <= a THEN s[i] ELSE u[i - a]
  BY <1>1, ConcatProperties
<1>3. Spliced(c, s, u, a + b, a, b)
  BY <1>2, PlacesSplit
<1> QED
  BY <1>1, <1>2, <1>3, Zenon

\* The lanes n are q with lane z moved to the end of lane r.
Moved(q, n, r, z) ==
    /\ \A x \in Lanes : x # r /\ x # z => n[x] = q[x]
    /\ Len(n[z]) = 0
    /\ Spliced(n[r], q[r], q[z], Len(n[r]), Len(q[r]), Len(q[z]))

LEMMA MovedLane ==
    ASSUME NEW q \in LaneType, NEW n \in LaneType, NEW r \in Lanes, NEW z \in Lanes, r # z,
           Moved(q, n, r, z), NEW known, Distinct(q, known)
    PROVE  Distinct(n, known) /\ Contents(n) = Contents(q)
<1>1. \A x \in Lanes : Len(q[x]) \in Nat /\ Len(n[x]) \in Nat
  BY LaneFacts
<1>2. ASSUME NEW x \in Lanes, NEW i \in 1..Len(n[x])
      PROVE  /\ x # z
             /\ \/ i \in 1..Len(q[x]) /\ n[x][i] = q[x][i]
                \/ x = r /\ \E j \in 1..Len(q[z]) : i = Len(q[r]) + j /\ n[x][i] = q[z][j]
  <2>1. x # z
    BY DEF Moved, Spliced
  <2>2. CASE x = r
    BY <2>1, <2>2, Zenon DEF Moved, Spliced
  <2>3. CASE x # r
    <3>1. n[x] = q[x]
      BY <2>1, <2>3 DEF Moved, Spliced
    <3> QED
      BY <2>1, <3>1
  <2> QED
    BY <2>2, <2>3
<1>3. Contents(n) \subseteq Contents(q)
  <2> SUFFICES ASSUME NEW a \in Contents(n) PROVE a \in Contents(q)
    OBVIOUS
  <2>1. PICK x \in Lanes : \E i \in 1..Len(n[x]) : n[x][i] = a
    BY DEF Contents
  <2>2. PICK i \in 1..Len(n[x]) : n[x][i] = a
    BY <2>1
  <2>3. CASE i \in 1..Len(q[x]) /\ n[x][i] = q[x][i]
    BY <2>2, <2>3, LaneFacts
  <2>4. CASE \E j \in 1..Len(q[z]) : i = Len(q[r]) + j /\ n[x][i] = q[z][j]
    BY <2>2, <2>4, LaneFacts
  <2> QED
    BY <1>2, <2>3, <2>4
<1>4. Contents(q) \subseteq Contents(n)
  <2> SUFFICES ASSUME NEW a \in Contents(q) PROVE a \in Contents(n)
    OBVIOUS
  <2>1. PICK y \in Lanes : \E j \in 1..Len(q[y]) : q[y][j] = a
    BY DEF Contents
  <2>2. PICK j \in 1..Len(q[y]) : q[y][j] = a
    BY <2>1
  <2>3. CASE y # r /\ y # z
    <3>1. j \in 1..Len(n[y]) /\ n[y][j] = a
      BY <2>2, <2>3 DEF Moved, Spliced
    <3> QED
      BY <3>1, LaneFacts
  <2>4. CASE y = r
    <3>1. j \in 1..Len(n[r]) /\ n[r][j] = a
      BY <2>2, <2>4 DEF Moved, Spliced
    <3> QED
      BY <3>1, LaneFacts
  <2>5. CASE y = z
    <3>1. Len(q[r]) + j \in 1..Len(n[r]) /\ n[r][Len(q[r]) + j] = a
      BY <2>2, <2>5 DEF Moved, Spliced
    <3> QED
      BY <3>1, LaneFacts
  <2> QED
    BY <2>3, <2>4, <2>5
<1>5. Distinct(n, known)
  <2>1. ASSUME NEW x \in Lanes, NEW i \in 1..Len(n[x]) PROVE n[x][i].id \notin known
    BY <1>2 DEF Distinct
  <2>2. ASSUME NEW x \in Lanes, NEW y \in Lanes, NEW i \in 1..Len(n[x]), NEW k \in 1..Len(n[y]),
               n[x][i].id = n[y][k].id
        PROVE  x = y /\ i = k
    <3>1. x # z /\ y # z
      BY <1>2
    <3>2. CASE i \in 1..Len(q[x]) /\ n[x][i] = q[x][i]
      <4>1. CASE k \in 1..Len(q[y]) /\ n[y][k] = q[y][k]
        BY <2>2, <3>2, <4>1 DEF Distinct
      <4>2. CASE y = r /\ \E l \in 1..Len(q[z]) : k = Len(q[r]) + l /\ n[y][k] = q[z][l]
        BY <2>2, <3>1, <3>2, <4>2 DEF Distinct
      <4> QED
        BY <1>2, <4>1, <4>2
    <3>3. CASE x = r /\ \E j \in 1..Len(q[z]) : i = Len(q[r]) + j /\ n[x][i] = q[z][j]
      <4>0. PICK j \in 1..Len(q[z]) : i = Len(q[r]) + j /\ n[x][i] = q[z][j]
        BY <3>3
      <4>1. CASE k \in 1..Len(q[y]) /\ n[y][k] = q[y][k]
        BY <2>2, <3>1, <4>0, <4>1 DEF Distinct
      <4>2. CASE y = r /\ \E l \in 1..Len(q[z]) : k = Len(q[r]) + l /\ n[y][k] = q[z][l]
        <5>1. PICK l \in 1..Len(q[z]) : k = Len(q[r]) + l /\ n[y][k] = q[z][l]
          BY <4>2
        <5>2. j = l
          BY <2>2, <4>0, <5>1 DEF Distinct
        <5> QED
          BY <3>3, <4>0, <4>2, <5>1, <5>2
      <4> QED
        BY <1>2, <4>1, <4>2
    <3> QED
      BY <1>2, <3>2, <3>3
  <2> QED
    BY <2>1, <2>2 DEF Distinct
<1> QED
  BY <1>3, <1>4, <1>5

\* The batch is sent: it moves to the end of a replica's channel.
LEMMA MoveBatch ==
    ASSUME NEW q \in LaneType, NEW r \in Replicas, NEW known, Distinct(q, known),
           NEW n, Moves(q, r, n)
    PROVE  n \in LaneType /\ Distinct(n, known) /\ Contents(n) = Contents(q)
<1> n = [q EXCEPT ![r] = q[r] \o q[None], ![None] = <<>>]
  BY DEF Moves
<1>1. r \in Lanes /\ None \in Lanes /\ r # None
  BY CollectorAssumption DEF Lanes
<1>2. PICK s \in Seq(Messages), u \in Seq(Messages) : s = q[r] /\ u = q[None]
  BY <1>1, LaneFacts
<1>3. PICK c : c = s \o u
  OBVIOUS
<1>4. c \in Seq(Messages) /\ Spliced(c, s, u, Len(c), Len(s), Len(u))
  BY <1>3, ConcatPlaces
<1>5. n \in LaneType /\ n[r] = c /\ n[None] = <<>>
  <2>1. n = [q EXCEPT ![r] = c, ![None] = <<>>]
    BY <1>2, <1>3
  <2>2. <<>> \in Seq(Messages)
    BY EmptySeq
  <2> QED
    BY <1>1, <1>4, <2>1, <2>2 DEF LaneType
<1>6. \A x \in Lanes : x # r /\ x # None => n[x] = q[x]
  BY DEF LaneType
<1>7. Len(n[None]) = 0
  BY <1>5
<1>8. Moved(q, n, r, None)
  BY <1>2, <1>4, <1>5, <1>6, <1>7, Zenon DEF Moved
<1> QED
  BY <1>1, <1>5, <1>8, MovedLane

-----------------------------------------------------------------------------
(***************************************************************************)
(* Lemmas about the log.                                                   *)
(***************************************************************************)
LEMMA VersionNever ==
    ASSUME NEW l, NEW o, NEW n \in Nat, \A i \in 1..n : l[i].object # o
    PROVE  VersionIn(l, o, n) = 0
BY DEF VersionIn

LEMMA VersionLatest ==
    ASSUME NEW l, NEW o, NEW n \in Nat, NEW i, Latest(l, o, n, i)
    PROVE  VersionIn(l, o, n) = IF l[i].action = "delete" THEN 0 ELSE i
<1>1. PICK own : own = {k \in 1..n : l[k].object = o}
  OBVIOUS
<1>2. i \in own /\ \A j \in own : j <= i
  BY <1>1 DEF Latest
<1>3. \A k \in own : k \in Nat
  BY <1>1
<1>4. PICK last : last = CHOOSE k \in own : \A j \in own : j <= k
  OBVIOUS
<1>5. last \in own /\ \A j \in own : j <= last
  BY <1>2, <1>4
<1>6. last = i
  BY <1>2, <1>3, <1>5
<1> QED
  BY <1>1, <1>2, <1>4, <1>6 DEF VersionIn

\* What happened up to n does not change when the log grows.
LEMMA VersionStays ==
    ASSUME NEW l, Len(l) \in Nat, Lasts(l), NEW o \in Objects, NEW n \in 0..Len(l), NEW k,
           \A i \in 1..n : k[i] = l[i]
    PROVE  VersionIn(k, o, n) = VersionIn(l, o, n) /\ VersionIn(l, o, n) \in 0..n
<1>1. n \in Nat
  OBVIOUS
<1>2. CASE \A i \in 1..n : l[i].object # o
  <2>1. \A i \in 1..n : k[i].object # o
    BY <1>2
  <2> QED
    BY <1>1, <1>2, <2>1, VersionNever
<1>3. CASE \E i \in 1..n : Latest(l, o, n, i)
  <2>1. PICK i \in 1..n : Latest(l, o, n, i)
    BY <1>3
  <2>2. Latest(k, o, n, i) /\ k[i] = l[i]
    BY <2>1 DEF Latest
  <2>3. /\ VersionIn(k, o, n) = IF k[i].action = "delete" THEN 0 ELSE i
        /\ VersionIn(l, o, n) = IF l[i].action = "delete" THEN 0 ELSE i
    BY <1>1, <2>1, <2>2, VersionLatest
  <2> QED
    BY <1>1, <2>2, <2>3
<1> QED
  BY <1>2, <1>3 DEF Lasts

\* The next change decides about its object and about no other.
LEMMA VersionNext ==
    ASSUME NEW l, Len(l) \in Nat, Lasts(l), NEW o \in Objects, NEW n \in Nat, n < Len(l)
    PROVE  VersionIn(l, o, n + 1) =
             IF l[n + 1].object = o
             THEN IF l[n + 1].action = "delete" THEN 0 ELSE n + 1
             ELSE VersionIn(l, o, n)
<1>1. n + 1 \in Nat /\ n + 1 \in 1..(n + 1) /\ \A j \in 1..(n + 1) : j \in 1..n \/ j = n + 1
  OBVIOUS
<1>2. CASE l[n + 1].object = o
  <2>1. Latest(l, o, n + 1, n + 1)
    BY <1>1, <1>2 DEF Latest
  <2> QED
    BY <1>1, <1>2, <2>1, VersionLatest
<1>3. CASE l[n + 1].object # o
  <2>1. CASE \A i \in 1..n : l[i].object # o
    <3>1. \A i \in 1..(n + 1) : l[i].object # o
      BY <1>1, <1>3, <2>1
    <3> QED
      BY <1>1, <1>3, <2>1, <3>1, VersionNever
  <2>2. CASE \E i \in 1..n : Latest(l, o, n, i)
    <3>1. PICK i \in 1..n : Latest(l, o, n, i)
      BY <2>2
    <3>2. i \in 1..(n + 1)
      OBVIOUS
    <3>3. Latest(l, o, n + 1, i)
      BY <1>1, <1>3, <3>1, <3>2 DEF Latest
    <3> QED
      BY <1>1, <1>3, <3>1, <3>3, VersionLatest
  <2>3. n \in 0..Len(l)
    OBVIOUS
  <2> QED
    BY <2>1, <2>2, <2>3 DEF Lasts
<1> QED
  BY <1>2, <1>3

\* A change keeps the log sound.
LEMMA LastsExtends ==
    ASSUME NEW l, NEW c \in Nat, Len(l) = c, Lasts(l), NEW k, Len(k) = c + 1,
           \A i \in 1..c : k[i] = l[i]
    PROVE  Lasts(k)
<1>1. ASSUME NEW o \in Objects, NEW n \in 0..(c + 1)
      PROVE  (\A i \in 1..n : k[i].object # o) \/ \E i \in 1..n : Latest(k, o, n, i)
  <2>1. CASE n \in 0..c
    <3>1. (\A i \in 1..n : l[i].object # o) \/ \E i \in 1..n : Latest(l, o, n, i)
      BY <2>1 DEF Lasts
    <3>2. \A i \in 1..n : k[i] = l[i]
      BY <2>1
    <3> QED
      BY <3>1, <3>2 DEF Latest
  <2>2. CASE n = c + 1 /\ k[n].object = o
    <3>1. n \in 1..n /\ \A j \in 1..n : j <= n
      BY <2>2
    <3>2. Latest(k, o, n, n)
      BY <2>2, <3>1 DEF Latest
    <3> QED
      BY <3>1, <3>2
  <2>3. CASE n = c + 1 /\ k[n].object # o
    <3>0. c \in 0..c /\ \A j \in 1..n : j \in 1..c \/ j = n
      BY <2>3
    <3>1. \A i \in 1..c : k[i] = l[i] /\ i \in 1..n
      BY <2>3
    <3>2. CASE \A i \in 1..c : l[i].object # o
      BY <2>3, <3>0, <3>1, <3>2
    <3>3. CASE \E i \in 1..c : Latest(l, o, c, i)
      <4>1. PICK i \in 1..c : Latest(l, o, c, i)
        BY <3>3
      <4>2. Latest(k, o, n, i) /\ i \in 1..n
        BY <2>3, <3>0, <3>1, <4>1 DEF Latest
      <4> QED
        BY <4>2
    <3> QED
      BY <3>0, <3>2, <3>3 DEF Lasts
  <2>4. n \in 0..c \/ n = c + 1
    OBVIOUS
  <2> QED
    BY <2>1, <2>2, <2>3, <2>4
<1> QED
  BY <1>1 DEF Lasts

Grows(l, e, k) == k = Append(l, e)

LEMMA LastsGrows ==
    ASSUME NEW S, NEW l \in Seq(S), Lasts(l), NEW e \in S, NEW k, Grows(l, e, k)
    PROVE  Lasts(k) /\ k \in Seq(S) /\ Len(k) = Len(l) + 1 /\ \A i \in 1..Len(l) : k[i] = l[i]
<1> k = Append(l, e)
  BY DEF Grows
<1>1. /\ Len(l) \in Nat /\ k \in Seq(S) /\ Len(k) = Len(l) + 1
      /\ \A i \in 1..Len(l) : k[i] = l[i]
  BY AppendProperties, LenProperties
<1>2. PICK c \in Nat : c = Len(l)
  BY <1>1
<1> QED
  BY <1>1, <1>2, LastsExtends

-----------------------------------------------------------------------------
(***************************************************************************)
(* Lemmas about the claims.  A message that is delivered leaves P and      *)
(* makes y of the row x of object o; w is the watermark.                   *)
(***************************************************************************)
Rows == RowType \cup {NoRow}

LEMMA MessageFacts ==
    ASSUME NEW m \in Messages
    PROVE  /\ m.observed \in Nat /\ m.version \in Nat /\ m.id \in Ids
           /\ m.kind \in {"upsert", "delete", "reconcile"}
           /\ m.kind = "reconcile" => m.listed \subseteq Objects
           /\ m.kind # "reconcile" => m.object \in Objects /\ m.listed = {}
           /\ m.listed \subseteq Objects
BY DEF Messages, Actions

LEMMA RowFacts ==
    ASSUME NEW x \in Rows, x # NoRow
    PROVE  x.observed \in Nat /\ x.deleted \in BOOLEAN /\ x.version \in Nat
BY DEF Rows, RowType

\* m replaces the row
Replaces(o, m, x, w, y) ==
    /\ About(o, m) /\ m.observed >= w /\ (x # NoRow => m.observed >= x.observed)
    /\ y # NoRow /\ y.version = m.version /\ y.observed = m.observed
    /\ y.deleted <=> m.kind = "delete"

\* m is a marker that finds the row too old
Tombstones(m, x, w, y) ==
    /\ m.kind = "reconcile" /\ m.observed >= w
    /\ x # NoRow /\ ~x.deleted /\ x.observed < m.observed
    /\ y # NoRow /\ y.deleted /\ y.observed = m.observed /\ y.version = x.version

\* m leaves the row alone
Spares(o, m, x, w, y) ==
    /\ y = x
    /\ About(o, m) => m.observed < w \/ (x # NoRow /\ m.observed < x.observed)
    /\ m.kind = "reconcile" /\ m.observed >= w /\ x # NoRow /\ ~x.deleted => x.observed >= m.observed

Turns(o, m, x, w, y) ==
    y \in Rows /\ (Replaces(o, m, x, w, y) \/ Tombstones(m, x, w, y) \/ Spares(o, m, x, w, y))

LEMMA DeliveryKeepsUnlisted ==
    ASSUME NEW o, NEW t \in Nat, NEW P \in SUBSET Messages, NEW m \in P, NEW x \in Rows,
           NEW w \in Nat, NEW y, Turns(o, m, x, w, y), Unlisted(o, t, P, x),
           m.kind = "reconcile" => m.observed < t
    PROVE  Unlisted(o, t, P \ {m}, y)
<1>1. y # NoRow => y.observed < t
  BY DEF Turns, Replaces, Tombstones, Spares, Unlisted
<1> QED
  BY <1>1 DEF Unlisted

LEMMA DeliveryKeepsExists ==
    ASSUME NEW o, NEW t \in Nat, NEW v, NEW P \in SUBSET Messages, NEW m \in P, NEW x \in Rows,
           NEW w \in Nat, w <= t, NEW y, Turns(o, m, x, w, y), Exists(o, t, v, P, x),
           m.kind = "reconcile" => m.observed <= t
    PROVE  Exists(o, t, v, P \ {m}, y)
<1>1. /\ \A a \in P : a.observed \in Nat
      /\ x # NoRow => x.observed \in Nat
      /\ y # NoRow => y.observed \in Nat
  BY MessageFacts, RowFacts DEF Turns
<1>2. CASE \E d \in P :
             /\ About(o, d) /\ d.kind = "upsert" /\ d.version = v /\ d.observed >= t
             /\ x # NoRow => x.observed <= d.observed
             /\ \A a \in P : About(o, a) /\ a # d => a.observed < d.observed
  <2>1. PICK d \in P :
             /\ About(o, d) /\ d.kind = "upsert" /\ d.version = v /\ d.observed >= t
             /\ x # NoRow => x.observed <= d.observed
             /\ \A a \in P : About(o, a) /\ a # d => a.observed < d.observed
    BY <1>2
  <2>2. CASE m = d
    <3>1. Replaces(o, m, x, w, y)
      BY <1>1, <2>1, <2>2 DEF Turns, Tombstones, Spares
    <3>2. y # NoRow /\ ~y.deleted /\ y.version = v /\ y.observed = d.observed
      BY <2>1, <2>2, <3>1 DEF Replaces
    <3>3. \A a \in P \ {m} : About(o, a) => a.observed < y.observed
      BY <2>1, <2>2, <3>2
    <3> QED
      BY <2>1, <3>2, <3>3 DEF Exists
  <2>3. CASE m # d
    <3>1. y # NoRow => y.observed <= d.observed
      BY <1>1, <2>1, <2>3 DEF Turns, Replaces, Tombstones, Spares
    <3>2. d \in P \ {m} /\ \A a \in P \ {m} : About(o, a) /\ a # d => a.observed < d.observed
      BY <2>1, <2>3
    <3> QED
      BY <2>1, <3>1, <3>2 DEF Exists
  <2> QED
    BY <2>2, <2>3
<1>3. CASE /\ x # NoRow /\ ~x.deleted /\ x.version = v /\ x.observed >= t
           /\ \A a \in P : About(o, a) => a.observed < x.observed
  <2>1. y = x
    BY <1>1, <1>3 DEF Turns, Replaces, Tombstones, Spares
  <2> QED
    BY <1>3, <2>1 DEF Exists
<1> QED
  BY <1>2, <1>3 DEF Exists

\* A deletion stays on the way or applied, until it no longer matters.
LEMMA DeliveryKeepsDeleted ==
    ASSUME NEW o, NEW t \in Nat, NEW P \in SUBSET Messages, NEW m \in P, NEW x \in Rows,
           NEW w \in Nat, w <= t, NEW y, Turns(o, m, x, w, y), Gone(o, t, P, x),
           NEW s \in Nat, DeletedAfter(o, s, P, x)
    PROVE  s < t \/ DeletedAfter(o, s, P \ {m}, y)
<1>1. /\ \A a \in P : a.observed \in Nat
      /\ x # NoRow => x.observed \in Nat
      /\ y # NoRow => y.observed \in Nat
  BY MessageFacts, RowFacts DEF Turns
<1>2. m.kind \in {"upsert", "delete", "reconcile"}
  BY MessageFacts
<1>3. CASE x # NoRow /\ x.deleted /\ x.observed > s
  <2>1. CASE ~Replaces(o, m, x, w, y)
    <3>1. y = x
      BY <1>3, <2>1 DEF Turns, Tombstones, Spares
    <3> QED
      BY <1>3, <3>1 DEF DeletedAfter
  <2>2. CASE Replaces(o, m, x, w, y) /\ m.kind = "delete"
    <3>1. y # NoRow /\ y.deleted /\ y.observed > s
      BY <1>1, <1>3, <2>2 DEF Replaces
    <3> QED
      BY <3>1 DEF DeletedAfter
  <2>3. CASE Replaces(o, m, x, w, y) /\ m.kind = "upsert"
    <3>1. m.observed > s /\ About(o, m) /\ m.observed >= x.observed
      BY <1>1, <1>3, <2>3 DEF Replaces
    <3>2. m.observed < t \/ DeletedAfter(o, m.observed, P, x)
      BY <2>3, <3>1 DEF Gone
    <3>3. CASE m.observed < t
      BY <1>1, <3>1, <3>3
    <3>4. CASE DeletedAfter(o, m.observed, P, x)
      <4>1. PICK e \in P : About(o, e) /\ e.kind = "delete" /\ e.observed > m.observed
        BY <1>1, <1>3, <3>1, <3>4 DEF DeletedAfter
      <4>2. e \in P \ {m} /\ e.observed > s
        BY <1>1, <3>1, <4>1
      <4> QED
        BY <4>1, <4>2 DEF DeletedAfter
    <3> QED
      BY <3>2, <3>3, <3>4
  <2> QED
    BY <1>2, <2>1, <2>2, <2>3 DEF Replaces, About
<1>4. CASE \E e \in P : About(o, e) /\ e.kind = "delete" /\ e.observed > s
  <2>1. PICK e \in P : About(o, e) /\ e.kind = "delete" /\ e.observed > s
    BY <1>4
  <2>2. CASE e # m
    <3>1. e \in P \ {m}
      BY <2>2
    <3> QED
      BY <2>1, <3>1 DEF DeletedAfter
  <2>3. CASE e = m /\ Replaces(o, m, x, w, y)
    <3>1. y # NoRow /\ y.deleted /\ y.observed > s
      BY <1>1, <2>1, <2>3 DEF Replaces
    <3> QED
      BY <3>1 DEF DeletedAfter
  <2>4. CASE e = m /\ ~Replaces(o, m, x, w, y)
    <3>1. Spares(o, m, x, w, y) /\ m.kind # "reconcile" /\ About(o, m)
      BY <2>1, <2>4 DEF Turns, Tombstones
    <3>2. CASE m.observed < w
      BY <1>1, <2>1, <2>4, <3>2
    <3>3. CASE x # NoRow /\ m.observed < x.observed /\ x.deleted
      <4>1. y = x /\ x.observed > s
        BY <1>1, <2>1, <2>4, <3>1, <3>3 DEF Spares
      <4> QED
        BY <3>3, <4>1 DEF DeletedAfter
    <3>4. CASE x # NoRow /\ m.observed < x.observed /\ ~x.deleted
      <4>1. x.observed > s
        BY <1>1, <2>1, <2>4, <3>4
      <4>2. x.observed < t \/ DeletedAfter(o, x.observed, P, x)
        BY <3>4 DEF Gone
      <4>3. CASE x.observed < t
        BY <1>1, <3>4, <4>1, <4>3
      <4>4. CASE DeletedAfter(o, x.observed, P, x)
        <5>1. PICK f \in P : About(o, f) /\ f.kind = "delete" /\ f.observed > x.observed
          BY <3>4, <4>4 DEF DeletedAfter
        <5>2. f \in P \ {m} /\ f.observed > s
          BY <1>1, <3>4, <4>1, <5>1
        <5> QED
          BY <5>1, <5>2 DEF DeletedAfter
      <4> QED
        BY <4>2, <4>3, <4>4
    <3> QED
      BY <3>1, <3>2, <3>3, <3>4 DEF Spares
  <2> QED
    BY <2>2, <2>3, <2>4
<1> QED
  BY <1>3, <1>4 DEF DeletedAfter

LEMMA DeliveryKeepsGone ==
    ASSUME NEW o, NEW t \in Nat, NEW P \in SUBSET Messages, NEW m \in P, NEW x \in Rows,
           NEW w \in Nat, w <= t, NEW y, Turns(o, m, x, w, y), Gone(o, t, P, x)
    PROVE  Gone(o, t, P \ {m}, y)
<1>1. /\ \A a \in P : a.observed \in Nat
      /\ x # NoRow => x.observed \in Nat
  BY MessageFacts, RowFacts
<1>2. \A s \in Nat : DeletedAfter(o, s, P, x) => s < t \/ DeletedAfter(o, s, P \ {m}, y)
  BY DeliveryKeepsDeleted
<1>3. \A a \in P : About(o, a) /\ a.kind = "upsert" =>
        a.observed < t \/ DeletedAfter(o, a.observed, P \ {m}, y)
  BY <1>1, <1>2 DEF Gone
<1>4. ASSUME y # NoRow, ~y.deleted
      PROVE  y.observed < t \/ DeletedAfter(o, y.observed, P \ {m}, y)
  <2>1. CASE y = x
    BY <1>1, <1>2, <1>4, <2>1 DEF Gone
  <2>2. CASE y # x
    <3>1. Replaces(o, m, x, w, y)
      BY <1>4, <2>2 DEF Turns, Tombstones, Spares
    <3>2. About(o, m) /\ m.kind = "upsert" /\ y.observed = m.observed
      BY <1>4, <3>1, MessageFacts DEF Replaces, About
    <3> QED
      BY <1>3, <3>2
  <2> QED
    BY <2>1, <2>2
<1> QED
  BY <1>3, <1>4 DEF Gone

\* A message that is not about o leaves the claims about it alone.
LEMMA OtherPosts ==
    ASSUME NEW o, NEW t, NEW v, NEW P, NEW m, ~About(o, m), NEW x
    PROVE  /\ Unlisted(o, t, P, x) => Unlisted(o, t, P \cup {m}, x)
           /\ Exists(o, t, v, P, x) => Exists(o, t, v, P \cup {m}, x)
           /\ Gone(o, t, P, x) => Gone(o, t, P \cup {m}, x)
<1>1. \A a \in P \cup {m} : About(o, a) => a \in P
  OBVIOUS
<1>2. Unlisted(o, t, P, x) => Unlisted(o, t, P \cup {m}, x)
  BY <1>1 DEF Unlisted
<1>3. Exists(o, t, v, P, x) => Exists(o, t, v, P \cup {m}, x)
  BY <1>1 DEF Exists
<1>4. \A s : DeletedAfter(o, s, P, x) => DeletedAfter(o, s, P \cup {m}, x)
  BY DEF DeletedAfter
<1>5. Gone(o, t, P, x) => Gone(o, t, P \cup {m}, x)
  BY <1>1, <1>4 DEF Gone
<1> QED
  BY <1>2, <1>3, <1>5

\* The latest observation of o decides.
LEMMA LatestPost ==
    ASSUME NEW o, NEW n \in Nat, NEW t \in Nat, t <= n, NEW P \in SUBSET Messages,
           \A a \in P : a.observed <= n, NEW x \in Rows, x # NoRow => x.observed <= n,
           NEW m, About(o, m), m.observed = n + 1
    PROVE  /\ m.kind = "upsert" => Exists(o, t, m.version, P \cup {m}, x)
           /\ m.kind = "delete" => Gone(o, t, P \cup {m}, x)
<1>1. \A a \in P : a.observed \in Nat /\ a.observed < n + 1
  BY MessageFacts
<1>2. x # NoRow => x.observed \in Nat /\ x.observed < n + 1
  BY RowFacts
<1>3. ASSUME m.kind = "upsert" PROVE Exists(o, t, m.version, P \cup {m}, x)
  <2>1. m \in P \cup {m} /\ m.observed >= t
    OBVIOUS
  <2>2. x # NoRow => x.observed <= m.observed
    BY <1>2
  <2>3. \A a \in P \cup {m} : About(o, a) /\ a # m => a.observed < m.observed
    BY <1>1
  <2> QED
    BY <1>3, <2>1, <2>2, <2>3 DEF Exists
<1>4. ASSUME m.kind = "delete" PROVE Gone(o, t, P \cup {m}, x)
  <2>1. \A s \in Nat : s < n + 1 => DeletedAfter(o, s, P \cup {m}, x)
    BY <1>4 DEF DeletedAfter
  <2>2. \A a \in P \cup {m} : a.kind = "upsert" => a \in P
    BY <1>4
  <2> QED
    BY <1>1, <1>2, <2>1, <2>2 DEF Gone
<1> QED
  BY <1>3, <1>4

LEMMA UnlistedIsGone ==
    ASSUME NEW o, NEW t, NEW P, NEW x, Unlisted(o, t, P, x)
    PROVE  Gone(o, t, P, x)
BY DEF Unlisted, Gone

-----------------------------------------------------------------------------
(***************************************************************************)
(* Lemmas about the state.                                                 *)
(***************************************************************************)
LEMMA TypeFacts ==
    ASSUME CollectorTypeOK
    PROVE  /\ Len(log) \in Nat /\ now \in Nat /\ watermark \in Nat
           /\ leader # None => leader \in Replicas
           /\ watcher.pc \in {"off", "start", "list", "pages", "open", "watch"}
           /\ watcher.started \in Nat /\ watcher.rv \in Nat
           /\ watcher.listed \subseteq Objects /\ watcher.batch \in Seq(Messages)
           /\ \A r \in Replicas : channel[r] \in Seq(Messages) /\ Len(channel[r]) \in Nat
           /\ \A r \in Replicas : \A i \in 1..Len(channel[r]) : channel[r][i] \in Messages
           /\ \A o \in Objects : row[o] \in Rows
           /\ DOMAIN row = Objects
<1>1. Len(log) \in Nat
  BY LenProperties DEF CollectorTypeOK
<1>2. \A r \in Replicas : channel[r] \in Seq(Messages) /\ Len(channel[r]) \in Nat
  BY LenProperties DEF CollectorTypeOK
<1>3. \A r \in Replicas : \A i \in 1..Len(channel[r]) : channel[r][i] \in Messages
  BY <1>2, ElementOfSeq
<1>4. /\ watcher.pc \in {"off", "start", "list", "pages", "open", "watch"}
      /\ watcher.started \in Nat /\ watcher.rv \in Nat
      /\ watcher.listed \subseteq Objects /\ watcher.batch \in Seq(Messages)
  BY DEF CollectorTypeOK, Watchers
<1> QED
  BY <1>1, <1>2, <1>3, <1>4 DEF CollectorTypeOK, Rows

LEMMA LaneIsTyped ==
    ASSUME CollectorTypeOK
    PROVE  /\ lane \in LaneType /\ UnderWay \in SUBSET Messages
           /\ lane[None] = watcher.batch /\ \A r \in Replicas : lane[r] = channel[r] /\ r # None
<1>1. \A r \in Replicas : channel[r] \in Seq(Messages)
  BY TypeFacts
<1>2. watcher.batch \in Seq(Messages)
  BY TypeFacts
<1>3. \A x \in Lanes : x # None => x \in Replicas
  BY DEF Lanes
<1>4. lane \in LaneType
  BY <1>1, <1>2, <1>3 DEF lane, LaneType
<1>5. None \in Lanes /\ \A r \in Replicas : r \in Lanes /\ r # None
  BY CollectorAssumption DEF Lanes
<1>6. lane[None] = watcher.batch /\ \A r \in Replicas : lane[r] = channel[r] /\ r # None
  BY <1>5 DEF lane
<1>7. UnderWay \in SUBSET Messages
  BY DEF UnderWay, Contents
<1> QED
  BY <1>4, <1>6, <1>7

\* The lanes follow from the batch and the channels.
LEMMA LaneIs ==
    ASSUME NEW q \in LaneType,
           watcher'.batch = q[None], \A r \in Replicas : channel'[r] = q[r]
    PROVE  lane' = q
<1>1. lane' = [x \in Lanes |-> IF x = None THEN watcher'.batch ELSE channel'[x]]
  BY DEF lane
<1>2. \A x \in Lanes : x # None => x \in Replicas
  BY DEF Lanes
<1>3. \A x \in Lanes : lane'[x] = q[x]
  BY <1>1, <1>2
<1> QED
  BY <1>1, <1>3 DEF LaneType

LEMMA VersionIsIn ==
    ASSUME NEW o, NEW n
    PROVE  VersionAt(o, n) = VersionIn(log, o, n)
BY DEF VersionAt, VersionIn

LEMMA VersionType ==
    ASSUME CollectorTypeOK, Lasts(log), NEW o \in Objects, NEW n \in 0..Len(log)
    PROVE  VersionAt(o, n) \in 0..n /\ VersionIn(log, o, n) = VersionAt(o, n)
<1>1. Len(log) \in Nat
  BY TypeFacts
<1> QED
  BY <1>1, VersionStays, VersionIsIn

\* Send loses nothing.
LEMMA AllSent ==
    ASSUME SendErrors = FALSE, CollectorTypeOK, NEW ms \in Seq(Messages), Sent(ms)
    PROVE  channel' = [channel EXCEPT ![leader] = channel[leader] \o ms]
<1>1. PICK n \in 0..Len(ms) : /\ n = Len(ms) \/ SendErrors
                              /\ channel' = [channel EXCEPT ![leader] = @ \o SubSeq(ms, 1, n)]
  BY DEF Sent
<1>2. SubSeq(ms, 1, Len(ms)) = ms
  BY SubSeqFull
<1> QED
  BY <1>1, <1>2

LEMMA OneSent ==
    ASSUME SendErrors = FALSE, CollectorTypeOK, leader \in Replicas, NEW m \in Messages,
           Sent(<<m>>)
    PROVE  channel' = [channel EXCEPT ![leader] = Append(channel[leader], m)]
<1>1. <<m>> \in Seq(Messages)
  OBVIOUS
<1>2. channel[leader] \in Seq(Messages)
  BY TypeFacts
<1>3. channel[leader] \o <<m>> = Append(channel[leader], m)
  BY <1>2, AppendIsConcat
<1> QED
  BY <1>1, <1>3, AllSent

LEMMA EventFacts ==
    ASSUME NEW action \in Actions, NEW o \in Objects, NEW v \in Nat, NEW t \in Nat,
           NEW m, m = Event(action, o, v, t)
    PROVE  /\ m \in Messages /\ m.kind = action /\ m.object = o /\ m.version = v
           /\ m.observed = t /\ m.id = <<o, v, action, 0>> /\ m.listed = {}
<1>1. <<o, v, action, 0>> \in Ids
  BY DEF Ids, Actions
<1> QED
  BY <1>1 DEF Event, Messages

LEMMA SnapshotEventFacts ==
    ASSUME NEW o \in Objects, NEW v \in Nat, NEW s \in Nat, NEW t \in Nat,
           NEW m, m = SnapshotEvent(o, v, s, t)
    PROVE  /\ m \in Messages /\ m.kind = "upsert" /\ m.object = o /\ m.version = v
           /\ m.observed = t /\ m.id = <<o, v, "upsert", s>> /\ m.listed = {}
<1>1. <<o, v, "upsert", s>> \in Ids /\ "upsert" \in Actions
  BY DEF Ids, Actions
<1>2. m = [kind |-> "upsert", object |-> o, version |-> v, observed |-> t,
           id |-> <<o, v, "upsert", s>>, listed |-> {}]
  BY DEF SnapshotEvent, Event
<1> QED
  BY <1>1, <1>2 DEF Messages

LEMMA MarkerFacts ==
    ASSUME NEW s \in Nat, NEW L \in SUBSET Objects, NEW m, m = Marker(s, L)
    PROVE  /\ m \in Messages /\ m.kind = "reconcile" /\ m.observed = s
           /\ m.id = <<None, 0, "reconcile", s>> /\ m.listed = L
<1>1. <<None, 0, "reconcile", s>> \in Ids
  BY DEF Ids
<1> QED
  BY <1>1 DEF Marker, Messages

\* The goroutine that has just started.
LEMMA FreshWatcher ==
    ASSUME NEW pc \in {"off", "start", "list", "pages", "open", "watch"}, NEW s \in Nat,
           NEW n \in Nat
    PROVE  /\ Off \in Watchers /\ Off.pc = "off" /\ Off.batch = <<>> /\ Off.rv = 0
           /\ Off.started = 0 /\ Off.listed = {}
           /\ [Off EXCEPT !.pc = pc] \in Watchers
           /\ [Off EXCEPT !.pc = pc, !.started = s] \in Watchers
           /\ [Off EXCEPT !.pc = pc, !.rv = n] \in Watchers
<1>1. <<>> \in Seq(Messages)
  BY EmptySeq
<1> QED
  BY <1>1 DEF Off, Watchers

LEMMA StampIs ==
    ASSUME CollectorTypeOK, Stamp
    PROVE  now' = now + 1 /\ now' \in Nat
BY DEF Stamp, CollectorTypeOK

\* What Page, SendMarker, Receive, Flush and Deliver handle.
LEMMA PageSends ==
    ASSUME SendErrors = FALSE, CollectorTypeOK, WatcherIsSound, Lasts(log),
           NEW o \in Objects, Page(o)
    PROVE  /\ leader \in Replicas /\ now' = now + 1
           /\ VersionIn(log, o, watcher.rv) # 0
           /\ \E m \in Messages :
                /\ m.kind = "upsert" /\ m.object = o /\ m.version = VersionIn(log, o, watcher.rv)
                /\ m.observed = now + 1 /\ m.listed = {}
                /\ m.id = <<o, VersionIn(log, o, watcher.rv), "upsert", watcher.started>>
                /\ channel' = [channel EXCEPT ![leader] = Append(channel[leader], m)]
<1>1. leader \in Replicas /\ now' = now + 1 /\ now + 1 \in Nat /\ watcher.started \in Nat
  BY TypeFacts, StampIs DEF Page, WatcherIsSound
<1>2. watcher.rv \in 0..Len(log)
  BY TypeFacts DEF WatcherIsSound
<1>3. PICK v : v = VersionIn(log, o, watcher.rv)
  OBVIOUS
<1>4. v = VersionAt(o, watcher.rv) /\ v \in Nat
  BY <1>2, <1>3, VersionType
<1>5. v # 0
  BY <1>4 DEF Page, Listed
<1>6. PICK m : m = SnapshotEvent(o, v, watcher.started, now + 1)
  OBVIOUS
<1>7. PICK s \in Nat, t \in Nat, u \in Nat : s = watcher.started /\ t = now + 1 /\ u = v
  BY <1>1, <1>4
<1>8. /\ m \in Messages /\ m.kind = "upsert" /\ m.object = o /\ m.version = u
      /\ m.observed = t /\ m.id = <<o, u, "upsert", s>> /\ m.listed = {}
  BY <1>6, <1>7, SnapshotEventFacts
<1>9. /\ m \in Messages /\ m.kind = "upsert" /\ m.object = o /\ m.version = v
      /\ m.observed = now + 1 /\ m.id = <<o, v, "upsert", watcher.started>> /\ m.listed = {}
  BY <1>7, <1>8
<1>10. Sent(<<m>>)
  BY <1>1, <1>4, <1>6 DEF Page
<1>11. channel' = [channel EXCEPT ![leader] = Append(channel[leader], m)]
  BY <1>1, <1>9, <1>10, OneSent
<1> QED
  BY <1>1, <1>3, <1>5, <1>9, <1>11

LEMMA MarkerSends ==
    ASSUME SendErrors = FALSE, CollectorTypeOK, WatcherIsSound, SendMarker
    PROVE  /\ leader \in Replicas
           /\ \E m \in Messages :
                /\ m.kind = "reconcile" /\ m.observed = watcher.started
                /\ m.listed = watcher.listed
                /\ m.id = <<None, 0, "reconcile", watcher.started>>
                /\ channel' = [channel EXCEPT ![leader] = Append(channel[leader], m)]
<1>1. leader \in Replicas /\ watcher.started \in Nat /\ watcher.listed \in SUBSET Objects
  BY TypeFacts DEF SendMarker, WatcherIsSound
<1>2. PICK m : m = Marker(watcher.started, watcher.listed)
  OBVIOUS
<1>3. /\ m \in Messages /\ m.kind = "reconcile" /\ m.observed = watcher.started
      /\ m.id = <<None, 0, "reconcile", watcher.started>> /\ m.listed = watcher.listed
  BY <1>1, <1>2, MarkerFacts
<1>4. Sent(<<m>>)
  BY <1>2 DEF SendMarker, Cutoff
<1>5. channel' = [channel EXCEPT ![leader] = Append(channel[leader], m)]
  BY <1>1, <1>3, <1>4, OneSent
<1> QED
  BY <1>1, <1>3, <1>5

LEMMA ReceiveTakes ==
    ASSUME CollectorTypeOK, WatcherIsSound, Receive
    PROVE  /\ now' = now + 1 /\ watcher.rv + 1 \in 1..Len(log)
           /\ log[watcher.rv + 1].action \in Actions /\ log[watcher.rv + 1].object \in Objects
           /\ \E m \in Messages :
                /\ m.kind = log[watcher.rv + 1].action /\ m.object = log[watcher.rv + 1].object
                /\ m.version = watcher.rv + 1 /\ m.observed = now + 1 /\ m.listed = {}
                /\ m.id = <<log[watcher.rv + 1].object, watcher.rv + 1,
                            log[watcher.rv + 1].action, 0>>
                /\ watcher' = [watcher EXCEPT !.rv = watcher.rv + 1,
                                              !.batch = Append(watcher.batch, m)]
<1>1. now' = now + 1 /\ now + 1 \in Nat
  BY TypeFacts, StampIs DEF Receive
<1>2. PICK n \in Nat : n = watcher.rv + 1
  BY TypeFacts
<1>3. n \in 1..Len(log)
  BY <1>2, TypeFacts DEF Receive
<1>4. log[n] \in [object: Objects, action: Actions]
  BY <1>3, ElementOfSeq DEF CollectorTypeOK
<1>5. log[n].action \in Actions /\ log[n].object \in Objects
  BY <1>4
<1>6. PICK m : m = Event(log[n].action, log[n].object, n, now + 1)
  OBVIOUS
<1>7. /\ m \in Messages /\ m.kind = log[n].action /\ m.object = log[n].object /\ m.version = n
      /\ m.observed = now + 1 /\ m.id = <<log[n].object, n, log[n].action, 0>> /\ m.listed = {}
  BY <1>1, <1>5, <1>6, EventFacts
<1>8. watcher' = [watcher EXCEPT !.rv = n, !.batch = Append(watcher.batch, m)]
  BY <1>1, <1>2, <1>6 DEF Receive
<1> QED
  BY <1>1, <1>2, <1>3, <1>5, <1>7, <1>8

LEMMA DeliverTurns ==
    ASSUME CollectorTypeOK, Distinct(lane, seen), NEW r \in Replicas, Deliver(r)
    PROVE  \E m \in UnderWay :
             /\ m = Head(channel[r]) /\ m = channel[r][1] /\ Len(channel[r]) \in Nat \ {0}
             /\ Len(channel'[r]) = Len(channel[r]) - 1
             /\ \A i \in 1..Len(channel'[r]) : channel'[r][i] = channel[r][i + 1]
             /\ \A s \in Replicas \ {r} : channel'[s] = channel[s]
             /\ UnderWay' = UnderWay \ {m} /\ Distinct(lane', seen')
             /\ seen' = seen \cup {m.id}
             /\ \A o \in Objects : Turns(o, m, row[o], watermark, row'[o])
             /\ row' \in [Objects -> Rows] /\ channel' \in [Replicas -> Seq(Messages)]
             /\ watermark' = IF m.kind = "reconcile" /\ m.observed >= watermark
                             THEN m.observed ELSE watermark
<1>1. PICK m : m = Head(channel[r])
  OBVIOUS
<1>2. PICK c : c = channel[r]
  OBVIOUS
<1>3. PICK u : u = Tail(c)
  OBVIOUS
<1>4. c \in Seq(Messages) /\ c # <<>> /\ Len(c) \in Nat
  BY <1>2, TypeFacts DEF Deliver
<1>5. /\ m = c[1] /\ Len(c) \in Nat \ {0} /\ u \in Seq(Messages) /\ Len(u) = Len(c) - 1
      /\ \A i \in 1..Len(u) : u[i] = c[i + 1]
  <2>1. Len(c) # 0
    BY <1>4, EmptySeq
  <2>2. m = c[1]
    BY <1>1, <1>2, <1>4
  <2>3. /\ u \in Seq(Messages) /\ Len(u) = Len(c) - 1
        /\ \A i \in 1..Len(u) : u[i] = c[i + 1]
    BY <1>3, <1>4, HeadTailProperties
  <2> QED
    BY <1>4, <2>1, <2>2, <2>3
<1>6. channel \in [Replicas -> Seq(Messages)] /\ channel' = [channel EXCEPT ![r] = u]
  BY <1>2, <1>3 DEF Deliver, CollectorTypeOK
<1>7. /\ channel'[r] = u /\ channel' \in [Replicas -> Seq(Messages)]
      /\ \A s \in Replicas \ {r} : channel'[s] = channel[s]
  BY <1>5, <1>6
<1>8. PICK q : q = [lane EXCEPT ![r] = Tail(lane[r])]
  OBVIOUS
<1>9. /\ lane \in LaneType /\ r \in Lanes /\ lane[r] = c /\ lane[None] = watcher.batch
      /\ \A s \in Replicas : lane[s] = channel[s] /\ s # None /\ s \in Lanes
  BY <1>2, LaneIsTyped DEF Lanes
<1>10. /\ q \in LaneType /\ m \in UnderWay /\ m.id \notin seen
       /\ Contents(q) = UnderWay \ {m} /\ Distinct(q, seen \cup {m.id})
  <2>0. PICK known : known = seen
    OBVIOUS
  <2>1. PICK p \in LaneType : p = lane
    BY <1>9
  <2>2. Distinct(p, known) /\ Takes(p, r, m, q)
    BY <1>1, <1>2, <1>4, <1>8, <1>9, <2>0, <2>1 DEF Takes
  <2>3. /\ q \in LaneType /\ m \in Contents(p) /\ m.id \notin known
        /\ Contents(q) = Contents(p) \ {m} /\ Distinct(q, known \cup {m.id})
    BY <1>9, <2>2, TakeFromLane
  <2> QED
    BY <2>0, <2>1, <2>3 DEF UnderWay
<1>11. lane' = q
  <2>1. watcher'.batch = q[None]
    BY <1>8, <1>9 DEF Deliver, LaneType
  <2>2. \A s \in Replicas : channel'[s] = q[s]
    BY <1>3, <1>7, <1>8, <1>9 DEF LaneType
  <2> QED
    BY <1>10, <2>1, <2>2, LaneIs
<1>12. seen' = seen \cup {m.id}
  BY <1>1 DEF Deliver
<1>13. UnderWay' = UnderWay \ {m} /\ Distinct(lane', seen')
  BY <1>10, <1>11, <1>12 DEF UnderWay
<1>14. m \in Messages /\ m.observed \in Nat /\ watermark \in Nat
  BY <1>10, LaneIsTyped, MessageFacts, TypeFacts
<1>15. /\ row' = IF Accepted(m) THEN Applied(m) ELSE row
       /\ watermark' = IF Accepted(m) /\ m.kind = "reconcile" THEN m.observed ELSE watermark
  BY <1>1, <1>10 DEF Deliver
<1>16. watermark' = IF m.kind = "reconcile" /\ m.observed >= watermark
                    THEN m.observed ELSE watermark
  BY <1>15 DEF Accepted
<1>17. row \in [Objects -> Rows]
  BY DEF CollectorTypeOK, Rows
<1>18. row' \in [Objects -> Rows] /\ \A o \in Objects : Turns(o, m, row[o], watermark, row'[o])
  <2>1. CASE ~Accepted(m)
    <3>1. row' = row
      BY <1>15, <2>1
    <3>2. ASSUME NEW o \in Objects PROVE Spares(o, m, row[o], watermark, row[o])
      BY <1>14, <1>17, <2>1, RowFacts DEF Accepted, Spares, About
    <3> QED
      BY <1>17, <3>1, <3>2 DEF Turns
  <2>2. CASE Accepted(m) /\ m.kind = "reconcile"
    <3>1. row' = [o \in Objects |-> IF Live(o) /\ row[o].observed < m.observed
                            THEN [row[o] EXCEPT !.deleted = TRUE, !.observed = m.observed]
                            ELSE row[o]]
      BY <1>15, <2>2 DEF Applied
    <3>2. ASSUME NEW o \in Objects PROVE Turns(o, m, row[o], watermark, row'[o])
      <4>1. CASE Live(o) /\ row[o].observed < m.observed
        <5>1. row[o] \in RowType
          BY <1>17, <4>1 DEF Rows, Live
        <5>2. PICK y : y = [row[o] EXCEPT !.deleted = TRUE, !.observed = m.observed]
          OBVIOUS
        <5>3. y \in RowType /\ y.deleted /\ y.observed = m.observed /\ y.version = row[o].version
          BY <1>14, <5>1, <5>2 DEF RowType
        <5>4. row'[o] = y
          BY <3>1, <4>1, <5>2
        <5>5. y # NoRow
          BY <5>3, CollectorSentinel
        <5>6. Tombstones(m, row[o], watermark, y)
          BY <2>2, <4>1, <5>3, <5>5 DEF Tombstones, Accepted, Live
        <5> QED
          BY <5>3, <5>4, <5>6 DEF Turns, Rows
      <4>2. CASE ~(Live(o) /\ row[o].observed < m.observed)
        <5>1. row'[o] = row[o]
          BY <3>1, <4>2
        <5>2. Spares(o, m, row[o], watermark, row[o])
          BY <1>14, <1>17, <2>2, <4>2, RowFacts DEF Spares, About, Live
        <5> QED
          BY <1>17, <5>1, <5>2 DEF Turns
      <4> QED
        BY <4>1, <4>2
    <3> QED
      BY <3>1, <3>2 DEF Turns
  <2>3. CASE Accepted(m) /\ m.kind # "reconcile"
    <3>1. PICK y : y = [version |-> m.version, observed |-> m.observed,
                        deleted |-> m.kind = "delete"]
      OBVIOUS
    <3>2. /\ y \in RowType /\ y.version = m.version /\ y.observed = m.observed
          /\ y.deleted <=> m.kind = "delete"
      BY <1>14, <3>1, MessageFacts DEF RowType
    <3>3. m.object \in Objects /\ row' = [row EXCEPT ![m.object] = y]
      BY <1>14, <1>15, <2>3, <3>1, MessageFacts DEF Applied
    <3>4. y \in Rows /\ y # NoRow
      BY <3>2, CollectorSentinel DEF Rows
    <3>5. row' \in [Objects -> Rows]
      BY <1>17, <3>3, <3>4
    <3>6. ASSUME NEW o \in Objects PROVE Turns(o, m, row[o], watermark, row'[o])
      <4>1. CASE o = m.object
        <5>1. row'[o] = y
          BY <1>17, <3>3, <4>1
        <5>2. Replaces(o, m, row[o], watermark, y)
          BY <2>3, <3>2, <3>4, <4>1 DEF Replaces, Accepted, About
        <5> QED
          BY <3>4, <5>1, <5>2 DEF Turns
      <4>2. CASE o # m.object
        <5>1. row'[o] = row[o]
          BY <1>17, <3>3, <4>2
        <5>2. Spares(o, m, row[o], watermark, row[o])
          BY <2>3, <4>2 DEF Spares, About
        <5> QED
          BY <1>17, <5>1, <5>2 DEF Turns
      <4> QED
        BY <4>1, <4>2
    <3> QED
      BY <3>5, <3>6
  <2> QED
    BY <2>1, <2>2, <2>3
<1> QED
  BY <1>1, <1>2, <1>5, <1>7, <1>10, <1>12, <1>13, <1>16, <1>18

\* What the other steps do to the messages under way.
LEMMA LanePost ==
    ASSUME CollectorTypeOK, Distinct(lane, seen), seen' = seen, NEW r \in Lanes,
           NEW m \in Messages, m.id \notin Used, NEW q, Posts(lane, r, m, q),
           q \in LaneType => lane' = q
    PROVE  Distinct(lane', seen') /\ UnderWay' = UnderWay \cup {m}
<1>1. PICK p \in LaneType : p = lane
  BY LaneIsTyped
<1>2. PICK known : known = seen
  OBVIOUS
<1>3. Distinct(p, known) /\ Posts(p, r, m, q) /\ m.id \notin known
  BY <1>1, <1>2 DEF Used
<1>4. \A a \in Contents(p) : a.id # m.id
  BY <1>1 DEF Used, UnderWay
<1>5. q \in LaneType /\ Contents(q) = Contents(p) \cup {m} /\ Distinct(q, known)
  BY <1>3, <1>4, PostToLane
<1> QED
  BY <1>1, <1>2, <1>5 DEF UnderWay

LEMMA ChannelPost ==
    ASSUME CollectorTypeOK, Distinct(lane, seen), seen' = seen, leader \in Replicas,
           NEW m \in Messages, m.id \notin Used, watcher'.batch = watcher.batch,
           channel' = [channel EXCEPT ![leader] = Append(channel[leader], m)]
    PROVE  Distinct(lane', seen') /\ UnderWay' = UnderWay \cup {m}
<1>1. PICK q : q = [lane EXCEPT ![leader] = Append(lane[leader], m)]
  OBVIOUS
<1>2. /\ lane \in LaneType /\ lane[None] = watcher.batch /\ leader \in Lanes /\ None \in Lanes
      /\ \A r \in Replicas : lane[r] = channel[r] /\ r # None /\ r \in Lanes
  BY LaneIsTyped DEF Lanes
<1>3. watcher'.batch = q[None]
  BY <1>1, <1>2 DEF LaneType
<1>4. \A r \in Replicas : channel'[r] = q[r]
  BY <1>1, <1>2 DEF LaneType, CollectorTypeOK
<1>5. q \in LaneType => lane' = q
  BY <1>3, <1>4, LaneIs
<1>6. Posts(lane, leader, m, q)
  BY <1>1 DEF Posts
<1> QED
  BY <1>2, <1>5, <1>6, LanePost

LEMMA BatchPost ==
    ASSUME CollectorTypeOK, Distinct(lane, seen), seen' = seen,
           NEW m \in Messages, m.id \notin Used, channel' = channel,
           watcher'.batch = Append(watcher.batch, m)
    PROVE  Distinct(lane', seen') /\ UnderWay' = UnderWay \cup {m}
<1>1. PICK q : q = [lane EXCEPT ![None] = Append(lane[None], m)]
  OBVIOUS
<1>2. /\ lane \in LaneType /\ lane[None] = watcher.batch /\ None \in Lanes
      /\ \A r \in Replicas : lane[r] = channel[r] /\ r # None /\ r \in Lanes
  BY LaneIsTyped DEF Lanes
<1>3. watcher'.batch = q[None]
  BY <1>1, <1>2 DEF LaneType
<1>4. \A r \in Replicas : channel'[r] = q[r]
  BY <1>1, <1>2 DEF LaneType
<1>5. q \in LaneType => lane' = q
  BY <1>3, <1>4, LaneIs
<1>6. Posts(lane, None, m, q)
  BY <1>1 DEF Posts
<1> QED
  BY <1>2, <1>5, <1>6, LanePost

LEMMA BatchMoves ==
    ASSUME CollectorTypeOK, Distinct(lane, seen), seen' = seen, leader \in Replicas,
           watcher'.batch = <<>>,
           channel' = [channel EXCEPT ![leader] = channel[leader] \o watcher.batch]
    PROVE  Distinct(lane', seen') /\ UnderWay' = UnderWay
<1>1. PICK q : q = [lane EXCEPT ![leader] = lane[leader] \o lane[None], ![None] = <<>>]
  OBVIOUS
<1>2. /\ lane \in LaneType /\ lane[None] = watcher.batch /\ leader \in Lanes /\ None \in Lanes
      /\ \A r \in Replicas : lane[r] = channel[r] /\ r # None /\ r \in Lanes
  BY LaneIsTyped DEF Lanes
<1>3. PICK p \in LaneType : p = lane
  BY <1>2
<1>4. PICK r \in Replicas : r = leader
  OBVIOUS
<1>5. PICK known : known = seen
  OBVIOUS
<1>6. q \in LaneType /\ Distinct(q, known) /\ Contents(q) = Contents(p)
  <2>1. Moves(p, r, q) /\ Distinct(p, known)
    BY <1>1, <1>3, <1>4, <1>5 DEF Moves
  <2> QED
    BY <2>1, MoveBatch
<1>7. watcher'.batch = q[None]
  BY <1>1, <1>2 DEF LaneType
<1>8. \A s \in Replicas : channel'[s] = q[s]
  BY <1>1, <1>2 DEF LaneType, CollectorTypeOK
<1>9. lane' = q
  BY <1>6, <1>7, <1>8, LaneIs
<1> QED
  BY <1>3, <1>5, <1>6, <1>9 DEF UnderWay

LEMMA BatchStays ==
    ASSUME CollectorTypeOK, Distinct(lane, seen), seen' = seen, channel' = channel,
           watcher'.batch = watcher.batch
    PROVE  Distinct(lane', seen') /\ UnderWay' = UnderWay
<1>1. lane' = lane
  BY DEF lane
<1> QED
  BY <1>1 DEF UnderWay

LEMMA BatchDropped ==
    ASSUME CollectorTypeOK, Distinct(lane, seen), seen' = seen, channel' = channel,
           watcher'.batch = <<>>
    PROVE  Distinct(lane', seen') /\ UnderWay' \subseteq UnderWay
<1>1. PICK q : q = [lane EXCEPT ![None] = <<>>]
  OBVIOUS
<1>2. /\ lane \in LaneType /\ None \in Lanes
      /\ \A r \in Replicas : lane[r] = channel[r] /\ r # None /\ r \in Lanes
  BY LaneIsTyped DEF Lanes
<1>3. PICK p \in LaneType : p = lane
  BY <1>2
<1>4. PICK known : known = seen
  OBVIOUS
<1>5. Drops(p, q) /\ Distinct(p, known)
  BY <1>1, <1>3, <1>4 DEF Drops
<1>6. q \in LaneType /\ Distinct(q, known) /\ Contents(q) \subseteq Contents(p)
  BY <1>5, DropBatch
<1>7. watcher'.batch = q[None] /\ \A r \in Replicas : channel'[r] = q[r]
  BY <1>1, <1>2 DEF LaneType
<1>8. lane' = q
  BY <1>6, <1>7, LaneIs
<1> QED
  BY <1>3, <1>4, <1>6, <1>8 DEF UnderWay

-----------------------------------------------------------------------------
(***************************************************************************)
(* The steps.                                                              *)
(***************************************************************************)
\* Flush and WatchEnds send the batch.
LEMMA BatchSends ==
    ASSUME SendErrors = FALSE, CollectorTypeOK, WatcherIsSound, watcher.pc = "watch",
           Sent(watcher.batch)
    PROVE  /\ leader \in Replicas /\ channel' \in [Replicas -> Seq(Messages)]
           /\ channel' = [channel EXCEPT ![leader] = channel[leader] \o watcher.batch]
<1>1. leader \in Replicas
  BY TypeFacts DEF WatcherIsSound
<1>2. watcher.batch \in Seq(Messages) /\ channel[leader] \in Seq(Messages)
  BY <1>1, TypeFacts
<1>3. channel' = [channel EXCEPT ![leader] = channel[leader] \o watcher.batch]
  BY <1>2, AllSent
<1>4. channel[leader] \o watcher.batch \in Seq(Messages)
  BY <1>2, ConcatProperties
<1> QED
  BY <1>1, <1>3, <1>4 DEF CollectorTypeOK

LEMMA ChannelGrows ==
    ASSUME CollectorTypeOK, leader \in Replicas, NEW m \in Messages,
           channel' = [channel EXCEPT ![leader] = Append(channel[leader], m)]
    PROVE  /\ channel' \in [Replicas -> Seq(Messages)]
           /\ Len(channel'[leader]) = Len(channel[leader]) + 1
           /\ \A i \in 1..Len(channel[leader]) : channel'[leader][i] = channel[leader][i]
           /\ channel'[leader][Len(channel[leader]) + 1] = m
           /\ \A r \in Replicas \ {leader} : channel'[r] = channel[r]
<1>1. PICK c \in Seq(Messages) : c = channel[leader]
  BY TypeFacts
<1>2. PICK u : u = Append(c, m)
  OBVIOUS
<1>3. /\ u \in Seq(Messages) /\ Len(u) = Len(c) + 1
      /\ \A i \in 1..Len(c) : u[i] = c[i]
      /\ u[Len(c) + 1] = m
  BY <1>2, AppendProperties
<1>4. channel' = [channel EXCEPT ![leader] = u] /\ channel \in [Replicas -> Seq(Messages)]
  BY <1>1, <1>2 DEF CollectorTypeOK
<1>5. /\ channel'[leader] = u /\ channel' \in [Replicas -> Seq(Messages)]
      /\ \A r \in Replicas \ {leader} : channel'[r] = channel[r]
  BY <1>3, <1>4
<1> QED
  BY <1>1, <1>3, <1>5

LEMMA TypeNext ==
    ASSUME SendErrors = FALSE, CollectorTypeOK, Lasts(log), WatcherIsSound, Distinct(lane, seen),
           Next
    PROVE  CollectorTypeOK'
<1> USE DEF CollectorTypeOK
<1>1. ASSUME NEW o \in Objects, NEW action \in {"upsert", "delete"}, Change(o, action)
      PROVE  CollectorTypeOK'
  <2>1. [object |-> o, action |-> action] \in [object: Objects, action: Actions]
    BY DEF Actions
  <2>2. log' \in Seq([object: Objects, action: Actions])
    BY <1>1, <2>1, AppendProperties DEF Change
  <2> QED
    BY <1>1, <2>2 DEF Change
<1>2. ASSUME NEW r \in Replicas, Acquire(r) PROVE CollectorTypeOK'
  BY <1>2, FreshWatcher DEF Acquire
<1>3. ASSUME NEW r \in Replicas, Deliver(r) PROVE CollectorTypeOK'
  <2>1. PICK m \in UnderWay : /\ seen' = seen \cup {m.id}
                              /\ row' \in [Objects -> Rows]
                              /\ channel' \in [Replicas -> Seq(Messages)]
                              /\ watermark' = IF m.kind = "reconcile" /\ m.observed >= watermark
                                              THEN m.observed ELSE watermark
    BY <1>3, DeliverTurns
  <2>2. m.id \in Ids /\ m.observed \in Nat
    BY LaneIsTyped, MessageFacts
  <2> QED
    BY <1>3, <2>1, <2>2 DEF Deliver, Rows
<1>4. CASE Stop
  BY <1>4, FreshWatcher DEF Stop
<1>5. CASE StartSnapshot
  <2>1. now' \in Nat
    BY <1>5, StampIs DEF StartSnapshot
  <2> QED
    BY <1>5, <2>1, FreshWatcher DEF StartSnapshot
<1>6. CASE FirstPage
  <2>1. Len(log) \in Nat
    BY TypeFacts
  <2>2. watcher' \in Watchers
    BY <1>6, <2>1 DEF FirstPage, Watchers
  <2> QED
    BY <1>6, <2>2 DEF FirstPage
<1>7. ASSUME NEW o \in Objects, Page(o) PROVE CollectorTypeOK'
  <2>1. /\ leader \in Replicas /\ now' = now + 1
        /\ \E m \in Messages : channel' = [channel EXCEPT ![leader] = Append(channel[leader], m)]
    BY <1>7, PageSends
  <2>2. channel' \in [Replicas -> Seq(Messages)]
    BY <2>1, ChannelGrows
  <2>3. watcher' \in Watchers
    BY <1>7 DEF Page, Watchers
  <2> QED
    BY <1>7, <2>1, <2>2, <2>3 DEF Page
<1>8. CASE ListFails
  BY <1>8, FreshWatcher DEF ListFails
<1>9. CASE SendMarker
  <2>1. /\ leader \in Replicas
        /\ \E m \in Messages : channel' = [channel EXCEPT ![leader] = Append(channel[leader], m)]
    BY <1>9, MarkerSends
  <2>2. channel' \in [Replicas -> Seq(Messages)]
    BY <2>1, ChannelGrows
  <2>3. watcher.rv \in Nat
    BY TypeFacts
  <2> QED
    BY <1>9, <2>2, <2>3, FreshWatcher DEF SendMarker
<1>10. CASE OpenWatch
  <2>1. watcher' \in Watchers
    BY <1>10 DEF OpenWatch, WatchFrom, Watchers
  <2> QED
    BY <1>10, <2>1 DEF OpenWatch
<1>11. CASE OpenFails
  BY <1>11, FreshWatcher DEF OpenFails
<1>12. CASE Receive
  <2>1. now' = now + 1
    BY <1>12, ReceiveTakes
  <2>2. PICK m \in Messages : watcher' = [watcher EXCEPT !.rv = watcher.rv + 1,
                                                         !.batch = Append(watcher.batch, m)]
    BY <1>12, ReceiveTakes
  <2>3. watcher.batch \in Seq(Messages) /\ watcher.rv \in Nat
    BY TypeFacts
  <2>4. Append(watcher.batch, m) \in Seq(Messages) /\ watcher.rv + 1 \in Nat
    BY <2>3, AppendProperties
  <2>5. watcher' \in Watchers
    <3>1. PICK b \in Seq(Messages) : b = Append(watcher.batch, m)
      BY <2>4
    <3>2. PICK n \in Nat : n = watcher.rv + 1
      BY <2>4
    <3>3. watcher' = [watcher EXCEPT !.rv = n, !.batch = b]
      BY <2>2, <3>1, <3>2
    <3> QED
      BY <3>3 DEF Watchers
  <2> QED
    BY <1>12, <2>1, <2>5 DEF Receive
<1>13. CASE Flush
  <2>1. channel' \in [Replicas -> Seq(Messages)]
    BY <1>13, BatchSends DEF Flush
  <2>2. watcher' \in Watchers
    BY <1>13, EmptySeq DEF Flush, Watchers
  <2> QED
    BY <1>13, <2>1, <2>2 DEF Flush
<1>14. CASE WatchEnds
  <2>1. channel' \in [Replicas -> Seq(Messages)]
    BY <1>14, BatchSends DEF WatchEnds
  <2> QED
    BY <1>14, <2>1, FreshWatcher DEF WatchEnds
<1> QED
  BY <1>1, <1>2, <1>3, <1>4, <1>5, <1>6, <1>7, <1>8, <1>9, <1>10, <1>11, <1>12, <1>13, <1>14
  DEF Next

LEMMA TimesKept ==
    ASSUME CollectorTypeOK, CollectorTypeOK', TimesAreSound, now' >= now,
           row' = row, watermark' = watermark,
           \A m \in UnderWay' : m \in UnderWay \/ m.observed <= now'
    PROVE  TimesAreSound'
<1>1. now \in Nat /\ now' \in Nat /\ watermark \in Nat
  BY DEF CollectorTypeOK
<1>2. \A m \in UnderWay' : m.observed <= now'
  <2>1. \A m \in UnderWay : m.observed \in Nat /\ m.observed <= now
    BY LaneIsTyped, MessageFacts DEF TimesAreSound
  <2> QED
    BY <1>1, <2>1
<1>3. \A o \in Objects : row[o] # NoRow => row[o].observed <= now'
  <2>1. \A o \in Objects : row[o] # NoRow => row[o].observed \in Nat
    BY TypeFacts, RowFacts
  <2> QED
    BY <1>1, <2>1 DEF TimesAreSound
<1>4. watermark <= now'
  BY <1>1 DEF TimesAreSound
<1>5. \A o \in Objects : Live(o)' => row[o].observed >= watermark
  BY DEF TimesAreSound, Live
<1> QED
  BY <1>2, <1>3, <1>4, <1>5 DEF TimesAreSound

LEMMA UsedKept ==
    ASSUME CollectorTypeOK, seen' = seen
    PROVE  /\ UnderWay' \subseteq UnderWay => Used' \subseteq Used
           /\ \A m : UnderWay' = UnderWay \cup {m} => Used' = Used \cup {m.id}
           /\ \A id \in Used : id[2] \in Nat /\ id[4] \in Nat
<1>1. UnderWay' \subseteq UnderWay => Used' \subseteq Used
  BY DEF Used
<1>2. \A m : UnderWay' = UnderWay \cup {m} => Used' = Used \cup {m.id}
  BY DEF Used
<1>3. \A id \in Used : id \in Ids
  BY LaneIsTyped, MessageFacts DEF Used, CollectorTypeOK
<1>4. \A id \in Ids : id[2] \in Nat /\ id[4] \in Nat
  BY DEF Ids
<1> QED
  BY <1>1, <1>2, <1>3, <1>4

\* A marker stays behind what its snapshot listed.
LEMMA FollowKept ==
    ASSUME MarkersFollow, channel' = channel, row' = row, watermark' = watermark,
           watcher'.pc = "pages" =>
             \/ watcher'.listed = {}
             \/ /\ watcher.pc = "pages" /\ watcher'.listed = watcher.listed
                /\ watcher'.started = watcher.started /\ leader' = leader
    PROVE  MarkersFollow'
<1>1. \A r, i, o, t : Ahead(r, i, o, t)' = Ahead(r, i, o, t)
  BY DEF Ahead
<1>2. \A r \in Replicas : \A i \in 1..Len(channel[r]) :
        \A o \in channel[r][i].listed : Ahead(r, i, o, channel[r][i].observed)'
  BY <1>1 DEF MarkersFollow, SentBehind
<1>3. ASSUME watcher'.pc = "pages", NEW o \in watcher'.listed
      PROVE  Ahead(leader, Len(channel[leader]) + 1, o, watcher.started)'
  <2>1. /\ watcher.pc = "pages" /\ watcher'.listed = watcher.listed
        /\ watcher'.started = watcher.started /\ leader' = leader
    BY <1>3
  <2>2. Ahead(leader, Len(channel[leader]) + 1, o, watcher.started)
    BY <1>3, <2>1 DEF MarkersFollow
  <2> QED
    BY <2>1, <2>2 DEF Ahead
<1> QED
  BY <1>2, <1>3 DEF MarkersFollow, SentBehind

\* The goroutine stops or starts over.
LEMMA IdleStep ==
    ASSUME CollectorInv, CollectorTypeOK', watcher'.pc \in {"off", "start"},
           watcher'.pc = "start" => leader' # None, watcher'.batch = <<>>, watcher'.rv = 0,
           log' = log, now' = now, channel' = channel, seen' = seen, row' = row,
           watermark' = watermark
    PROVE  CollectorInv'
<1> USE DEF CollectorInv
<1>1. Distinct(lane', seen') /\ UnderWay' \subseteq UnderWay
  BY BatchDropped
<1>2. Len(log) \in Nat /\ now \in Nat /\ watcher.rv \in Nat /\ Len(log') = Len(log)
  BY TypeFacts
<1>3. TimesAreSound'
  <2>1. now' >= now
    BY <1>2
  <2> QED
    BY <1>1, <2>1, TimesKept
<1>4. WatcherIsSound'
  <2>1. \A i \in 1..Len(watcher'.batch) : watcher'.batch[i].listed = {}
    OBVIOUS
  <2> QED
    BY <1>2, <2>1 DEF WatcherIsSound
<1>5. IdsAreFresh'
  <2>1. Used' \subseteq Used /\ \A id \in Used : id[2] \in Nat /\ id[4] \in Nat
    BY <1>1, UsedKept
  <2>2. Reached \in Nat /\ Reached <= Len(log) /\ Reached' = Len(log)
    BY <1>2 DEF Reached, WatcherIsSound
  <2> QED
    BY <1>2, <2>1, <2>2 DEF IdsAreFresh
<1>6. Snapshot'
  BY DEF Snapshot
<1>7. Watching'
  BY DEF Watching
<1>8. MarkersFollow'
  BY FollowKept
<1> QED
  BY <1>1, <1>3, <1>4, <1>5, <1>6, <1>7, <1>8 DEF Lasts, Latest, Distinct

\* The parts of the invariant in the next state.
LEMMA InvariantParts ==
    ASSUME CollectorTypeOK', Lasts(log'), Distinct(lane', seen'), WatcherIsSound',
           TimesAreSound', IdsAreFresh', Snapshot', Watching', MarkersFollow'
    PROVE  CollectorInv'
BY DEF CollectorInv, Lasts, Latest, Distinct

LEMMA StartSnapshotStep ==
    ASSUME CollectorInv, CollectorTypeOK', StartSnapshot
    PROVE  CollectorInv'
<1> USE DEF CollectorInv
<1>1. /\ now \in Nat /\ now' = now + 1 /\ watcher'.pc = "list" /\ watcher'.started = now + 1
      /\ watcher'.rv = 0 /\ watcher'.listed = {} /\ watcher'.batch = <<>> /\ watcher.pc = "start"
      /\ log' = log /\ leader' = leader /\ channel' = channel /\ seen' = seen /\ row' = row
      /\ watermark' = watermark /\ Len(log) \in Nat
  <2>1. now \in Nat /\ now' = now + 1 /\ Len(log) \in Nat
    BY StampIs, TypeFacts DEF StartSnapshot
  <2> QED
    BY <2>1 DEF StartSnapshot, Off
<1>2. watcher'.batch = watcher.batch
  BY <1>1 DEF WatcherIsSound
<1>3. Distinct(lane', seen') /\ UnderWay' = UnderWay
  BY <1>1, <1>2, BatchStays
<1>4. TimesAreSound'
  BY <1>1, <1>3, TimesKept
<1>5. WatcherIsSound'
  <2>1. \A i \in 1..Len(watcher'.batch) : watcher'.batch[i].listed = {}
    BY <1>2 DEF WatcherIsSound
  <2> QED
    BY <1>1, <2>1 DEF WatcherIsSound
<1>6. IdsAreFresh'
  <2>1. Used' \subseteq Used /\ \A id \in Used : id[2] \in Nat /\ id[4] \in Nat
    BY <1>1, <1>3, UsedKept
  <2>2. Reached = Len(log) /\ Reached' = Len(log)
    BY <1>1 DEF Reached
  <2>3. \A id \in Used : id[4] <= now
    BY DEF IdsAreFresh
  <2>4. \A id \in Used : id[4] = 0 => id[2] <= Len(log)
    BY <2>2 DEF IdsAreFresh
  <2> QED
    BY <1>1, <2>1, <2>2, <2>3, <2>4 DEF IdsAreFresh
<1>7. Snapshot'
  <2>1. \A m \in UnderWay : m.observed \in Nat /\ m.observed <= now
    BY LaneIsTyped, MessageFacts DEF TimesAreSound
  <2>2. \A o \in Objects : row[o] # NoRow => row[o].observed \in Nat /\ row[o].observed <= now
    BY TypeFacts, RowFacts DEF TimesAreSound
  <2>3. MarkersBy(watcher.started - 1)'
    <3>1. watcher'.started - 1 = now
      BY <1>1
    <3>2. watermark <= now
      BY DEF TimesAreSound
    <3> QED
      BY <1>1, <1>3, <2>1, <3>1, <3>2 DEF MarkersBy
  <2>4. \A o \in Objects : Unlisted(o, now + 1, UnderWay, row[o])
    BY <1>1, <2>1, <2>2 DEF Unlisted
  <2> QED
    BY <1>1, <1>3, <2>3, <2>4 DEF Snapshot
<1>8. Watching'
  BY <1>1 DEF Watching
<1>9. MarkersFollow'
  BY <1>1, FollowKept
<1> QED
  BY <1>1, <1>3, <1>4, <1>5, <1>6, <1>7, <1>8, <1>9, InvariantParts

LEMMA FirstPageStep ==
    ASSUME CollectorInv, CollectorTypeOK', FirstPage
    PROVE  CollectorInv'
<1> USE DEF CollectorInv
<1>1. /\ watcher.pc = "list" /\ watcher'.pc = "pages" /\ watcher'.rv = Len(log)
      /\ watcher'.started = watcher.started /\ watcher'.listed = watcher.listed
      /\ watcher'.batch = watcher.batch /\ now' = now
      /\ log' = log /\ leader' = leader /\ channel' = channel /\ seen' = seen /\ row' = row
      /\ watermark' = watermark
  BY DEF FirstPage, CollectorTypeOK, Watchers
<1>2. Len(log) \in Nat /\ now \in Nat
  BY TypeFacts
<1>3. Distinct(lane', seen') /\ UnderWay' = UnderWay
  BY <1>1, BatchStays
<1>4. TimesAreSound'
  BY <1>1, <1>2, <1>3, TimesKept
<1>5. WatcherIsSound'
  BY <1>1, <1>2 DEF WatcherIsSound
<1>6. watcher.listed = {}
  BY <1>1 DEF Snapshot
<1>7. IdsAreFresh'
  <2>1. Used' \subseteq Used
    BY <1>1, <1>3, UsedKept
  <2>2. Reached = Len(log) /\ Reached' = Len(log)
    BY <1>1 DEF Reached
  <2> QED
    BY <1>1, <2>1, <2>2 DEF IdsAreFresh
<1>8. Snapshot'
  <2>1. MarkersBy(watcher.started - 1)'
    BY <1>1, <1>3 DEF Snapshot, MarkersBy
  <2>2. \A o \in Objects : Unlisted(o, watcher.started, UnderWay, row[o])
    BY <1>1, <1>6 DEF Snapshot
  <2> QED
    BY <1>1, <1>3, <1>6, <2>1, <2>2 DEF Snapshot
<1>9. Watching'
  BY <1>1 DEF Watching
<1>10. MarkersFollow'
  BY <1>1, <1>6, FollowKept
<1> QED
  BY <1>1, <1>3, <1>4, <1>5, <1>7, <1>8, <1>9, <1>10, InvariantParts

\* The claims stay true while nothing is posted and nothing delivered.
LEMMA WatchingKept ==
    ASSUME Watching, watcher'.pc \in {"open", "watch"} => watcher.pc \in {"open", "watch"},
           row' = row, watermark' = watermark, UnderWay' = UnderWay,
           \A o \in Objects : VersionIn(log', o, watcher'.rv) = VersionIn(log, o, watcher.rv)
    PROVE  Watching'
<1>1. ASSUME NEW t \in Nat, Follows(t) PROVE Follows(t)'
  <2>1. MarkersBy(t)'
    BY <1>1 DEF Follows, MarkersBy
  <2> QED
    BY <1>1, <2>1 DEF Follows
<1> QED
  BY <1>1 DEF Watching

LEMMA OpenWatchStep ==
    ASSUME CollectorInv, CollectorTypeOK', OpenWatch
    PROVE  CollectorInv'
<1> USE DEF CollectorInv
<1>1. /\ watcher.pc = "open" /\ watcher'.pc = "watch" /\ watcher'.rv = watcher.rv
      /\ watcher'.started = watcher.started /\ watcher'.listed = watcher.listed
      /\ watcher'.batch = watcher.batch /\ now' = now
      /\ log' = log /\ leader' = leader /\ channel' = channel /\ seen' = seen /\ row' = row
      /\ watermark' = watermark
  BY DEF OpenWatch, WatchFrom, CollectorTypeOK, Watchers
<1>2. Len(log) \in Nat /\ now \in Nat
  BY TypeFacts
<1>3. Distinct(lane', seen') /\ UnderWay' = UnderWay
  BY <1>1, BatchStays
<1>4. TimesAreSound'
  BY <1>1, <1>2, <1>3, TimesKept
<1>5. WatcherIsSound'
  BY <1>1, <1>2 DEF WatcherIsSound
<1>6. IdsAreFresh'
  <2>1. Used' \subseteq Used
    BY <1>1, <1>3, UsedKept
  <2>2. Reached' = Reached
    BY <1>1 DEF Reached
  <2> QED
    BY <1>1, <2>1, <2>2 DEF IdsAreFresh
<1>7. Snapshot'
  BY <1>1 DEF Snapshot
<1>8. Watching'
  BY <1>1, <1>3, WatchingKept
<1>9. MarkersFollow'
  BY <1>1, FollowKept
<1> QED
  BY <1>1, <1>3, <1>4, <1>5, <1>6, <1>7, <1>8, <1>9, InvariantParts

LEMMA ChangeStep ==
    ASSUME CollectorInv, CollectorTypeOK', NEW o \in Objects, NEW action \in Actions,
           Change(o, action)
    PROVE  CollectorInv'
<1> USE DEF CollectorInv
<1>1. /\ watcher' = watcher /\ now' = now /\ leader' = leader /\ channel' = channel
      /\ seen' = seen /\ row' = row /\ watermark' = watermark
  BY DEF Change
<1>2. Len(log) \in Nat /\ now \in Nat /\ watcher.rv \in Nat /\ watcher.rv \in 0..Len(log)
  BY TypeFacts DEF WatcherIsSound
<1>3. Lasts(log') /\ Len(log') = Len(log) + 1 /\ \A i \in 1..Len(log) : log'[i] = log[i]
  <2>1. PICK S : S = [object: Objects, action: Actions]
    OBVIOUS
  <2>2. PICK e : e = [object |-> o, action |-> action]
    OBVIOUS
  <2>3. e \in S /\ log \in Seq(S) /\ Grows(log, e, log')
    BY <2>1, <2>2 DEF Change, CollectorTypeOK, Grows
  <2>4. Lasts(log)
    OBVIOUS
  <2> QED
    BY <2>3, <2>4, LastsGrows
<1>4. \A p \in Objects : VersionIn(log', p, watcher.rv) = VersionIn(log, p, watcher.rv)
  <2>1. \A i \in 1..watcher.rv : log'[i] = log[i]
    BY <1>2, <1>3
  <2> QED
    BY <1>2, <2>1, VersionStays
<1>5. Distinct(lane', seen') /\ UnderWay' = UnderWay
  BY <1>1, BatchStays
<1>6. TimesAreSound'
  BY <1>1, <1>2, <1>5, TimesKept
<1>7. WatcherIsSound'
  BY <1>1, <1>2, <1>3 DEF WatcherIsSound
<1>8. IdsAreFresh'
  <2>1. Used' \subseteq Used /\ \A id \in Used : id[2] \in Nat /\ id[4] \in Nat
    BY <1>1, <1>5, UsedKept
  <2>2. Reached \in Nat /\ Reached' \in Nat /\ Reached <= Reached'
    BY <1>1, <1>2, <1>3 DEF Reached
  <2>3. \A id \in Used : id[4] = 0 => id[2] <= Reached'
    BY <2>1, <2>2 DEF IdsAreFresh
  <2> QED
    BY <1>1, <2>1, <2>3 DEF IdsAreFresh
<1>9. Snapshot'
  <2>1. watcher.pc \in {"list", "pages"} => MarkersBy(watcher.started - 1)'
    BY <1>1, <1>5 DEF Snapshot, MarkersBy
  <2>2. watcher.pc = "pages" =>
         \A p \in watcher.listed :
           /\ VersionIn(log', p, watcher.rv) # 0
           /\ Exists(p, watcher.started, VersionIn(log', p, watcher.rv), UnderWay, row[p])
    <3>1. watcher.listed \subseteq Objects
      BY TypeFacts
    <3> QED
      BY <1>4, <3>1 DEF Snapshot
  <2> QED
    BY <1>1, <1>5, <2>1, <2>2 DEF Snapshot
<1>10. Watching'
  BY <1>1, <1>4, <1>5, WatchingKept
<1>11. MarkersFollow'
  BY <1>1, FollowKept
<1> QED
  BY <1>3, <1>5, <1>6, <1>7, <1>8, <1>9, <1>10, <1>11, InvariantParts

\* What is appended to a channel stays behind what is in it.
LEMMA AheadGrows ==
    ASSUME row' = row, watermark' = watermark, NEW r, NEW c \in Nat,
           \A j \in 1..c : channel'[r][j] = channel[r][j],
           NEW i \in 1..(c + 1), NEW o, NEW t, Ahead(r, i, o, t)
    PROVE  Ahead(r, i, o, t)'
<1>1. \A j \in 1..(i - 1) : j \in 1..c
  OBVIOUS
<1> QED
  BY <1>1 DEF Ahead

LEMMA BehindGrows ==
    ASSUME CollectorTypeOK, MarkersFollow, row' = row, watermark' = watermark,
           leader \in Replicas, \A r \in Replicas \ {leader} : channel'[r] = channel[r],
           \A i \in 1..Len(channel[leader]) : channel'[leader][i] = channel[leader][i],
           \A i \in 1..Len(channel'[leader]) :
             \/ i \in 1..Len(channel[leader])
             \/ channel'[leader][i].listed = {}
             \/ /\ i = Len(channel[leader]) + 1 /\ watcher.pc = "pages"
                /\ channel'[leader][i].listed = watcher.listed
                /\ channel'[leader][i].observed = watcher.started
    PROVE  SentBehind'
<1>1. PICK c \in Nat : c = Len(channel[leader])
  BY TypeFacts
<1>2. ASSUME NEW r \in Replicas, r # leader, NEW i \in 1..Len(channel'[r]),
             NEW o \in channel'[r][i].listed
      PROVE  Ahead(r, i, o, channel[r][i].observed)'
  <2>1. channel'[r] = channel[r]
    BY <1>2
  <2>2. Ahead(r, i, o, channel[r][i].observed)
    BY <1>2, <2>1 DEF MarkersFollow, SentBehind
  <2> QED
    BY <2>1, <2>2 DEF Ahead
<1>3. ASSUME NEW r \in Replicas, r = leader, NEW i \in 1..Len(channel'[r]),
             NEW o \in channel'[r][i].listed
      PROVE  Ahead(r, i, o, channel[r][i].observed)'
  <2>1. r = leader
    BY <1>3
  <2>2. PICK t : t = channel'[r][i].observed
    OBVIOUS
  <2>3. i \in 1..(c + 1) /\ Ahead(r, i, o, t)
    <3>1. CASE i \in 1..Len(channel[leader])
      <4>1. channel'[leader][i] = channel[leader][i]
        BY <3>1
      <4> QED
        BY <1>1, <2>1, <2>2, <3>1, <4>1 DEF MarkersFollow, SentBehind
    <3>2. CASE /\ i = Len(channel[leader]) + 1 /\ watcher.pc = "pages"
               /\ channel'[leader][i].listed = watcher.listed
               /\ channel'[leader][i].observed = watcher.started
      BY <1>1, <2>1, <2>2, <3>2 DEF MarkersFollow
    <3> QED
      BY <2>1, <3>1, <3>2
  <2>4. \A j \in 1..c : channel'[r][j] = channel[r][j]
    BY <1>1, <2>1
  <2>5. Ahead(r, i, o, t)'
    BY <2>3, <2>4, AheadGrows
  <2>6. t = channel[r][i].observed'
    BY <2>2
  <2> QED
    BY <2>5, <2>6 DEF Ahead
<1>4. ASSUME NEW r \in Replicas, NEW i \in 1..Len(channel'[r]), NEW o \in channel'[r][i].listed
      PROVE  Ahead(r, i, o, channel[r][i].observed)'
  <2>1. CASE r # leader
    BY <1>2, <1>4, <2>1
  <2>2. CASE r = leader
    BY <1>3, <1>4, <2>2
  <2> QED
    BY <2>1, <2>2
<1> QED
  BY <1>4 DEF SentBehind

LEMMA BatchBehind ==
    ASSUME CollectorTypeOK, WatcherIsSound, MarkersFollow, row' = row, watermark' = watermark,
           leader \in Replicas,
           channel' = [channel EXCEPT ![leader] = channel[leader] \o watcher.batch]
    PROVE  SentBehind'
<1>1. PICK c \in Seq(Messages), u \in Seq(Messages) : c = channel[leader] /\ u = watcher.batch
  BY TypeFacts
<1>2. PICK d : d = c \o u
  OBVIOUS
<1>3. Spliced(d, c, u, Len(d), Len(c), Len(u))
  BY <1>2, ConcatPlaces
<1>4. channel' = [channel EXCEPT ![leader] = d] /\ channel \in [Replicas -> Seq(Messages)]
  BY <1>1, <1>2 DEF CollectorTypeOK
<1>5. channel'[leader] = d /\ \A r \in Replicas \ {leader} : channel'[r] = channel[r]
  BY <1>4
<1>6. \A i \in 1..Len(c) : d[i] = c[i]
  BY <1>3 DEF Spliced
<1>7. \A i \in 1..Len(d) : i \in 1..Len(c) \/ d[i].listed = {}
  <2>1. \A j \in 1..Len(u) : u[j].listed = {}
    BY <1>1 DEF WatcherIsSound
  <2> QED
    BY <1>3, <2>1 DEF Spliced
<1> QED
  BY <1>1, <1>5, <1>6, <1>7, BehindGrows

LEMMA FlushStep ==
    ASSUME SendErrors = FALSE, CollectorInv, CollectorTypeOK', Flush
    PROVE  CollectorInv'
<1> USE DEF CollectorInv
<1>1. /\ watcher.pc = "watch" /\ watcher'.pc = "watch" /\ watcher'.rv = watcher.rv
      /\ watcher'.started = watcher.started /\ watcher'.listed = watcher.listed
      /\ watcher'.batch = <<>> /\ now' = now
      /\ log' = log /\ leader' = leader /\ seen' = seen /\ row' = row
      /\ watermark' = watermark /\ Sent(watcher.batch)
  BY DEF Flush, CollectorTypeOK, Watchers
<1>2. Len(log) \in Nat /\ now \in Nat
  BY TypeFacts
<1>3. /\ leader \in Replicas
      /\ channel' = [channel EXCEPT ![leader] = channel[leader] \o watcher.batch]
  BY <1>1, BatchSends
<1>4. Distinct(lane', seen') /\ UnderWay' = UnderWay
  BY <1>1, <1>3, BatchMoves
<1>5. TimesAreSound'
  BY <1>1, <1>2, <1>4, TimesKept
<1>6. WatcherIsSound'
  <2>1. \A i \in 1..Len(watcher'.batch) : watcher'.batch[i].listed = {}
    BY <1>1
  <2> QED
    BY <1>1, <2>1 DEF WatcherIsSound
<1>7. IdsAreFresh'
  <2>1. Used' \subseteq Used
    BY <1>1, <1>4, UsedKept
  <2>2. Reached' = Reached
    BY <1>1 DEF Reached
  <2> QED
    BY <1>1, <2>1, <2>2 DEF IdsAreFresh
<1>8. Snapshot'
  BY <1>1 DEF Snapshot
<1>9. Watching'
  BY <1>1, <1>4, WatchingKept
<1>10. MarkersFollow'
  BY <1>1, <1>3, BatchBehind DEF MarkersFollow
<1> QED
  BY <1>1, <1>4, <1>5, <1>6, <1>7, <1>8, <1>9, <1>10, InvariantParts

LEMMA WatchEndsStep ==
    ASSUME SendErrors = FALSE, CollectorInv, CollectorTypeOK', WatchEnds
    PROVE  CollectorInv'
<1> USE DEF CollectorInv
<1>1. /\ watcher.pc = "watch" /\ watcher'.pc = "start" /\ watcher'.rv = 0
      /\ watcher'.batch = <<>> /\ now' = now
      /\ log' = log /\ leader' = leader /\ seen' = seen /\ row' = row
      /\ watermark' = watermark /\ Sent(watcher.batch)
  BY DEF WatchEnds, Off
<1>2. Len(log) \in Nat /\ now \in Nat /\ watcher.rv \in Nat
  BY TypeFacts
<1>3. /\ leader \in Replicas
      /\ channel' = [channel EXCEPT ![leader] = channel[leader] \o watcher.batch]
  BY <1>1, BatchSends
<1>4. Distinct(lane', seen') /\ UnderWay' = UnderWay
  BY <1>1, <1>3, BatchMoves
<1>5. TimesAreSound'
  BY <1>1, <1>2, <1>4, TimesKept
<1>6. WatcherIsSound'
  <2>1. \A i \in 1..Len(watcher'.batch) : watcher'.batch[i].listed = {}
    BY <1>1
  <2> QED
    BY <1>1, <1>2, <2>1 DEF WatcherIsSound
<1>7. IdsAreFresh'
  <2>1. Used' \subseteq Used /\ \A id \in Used : id[2] \in Nat /\ id[4] \in Nat
    BY <1>1, <1>4, UsedKept
  <2>2. Reached \in Nat /\ Reached' \in Nat /\ Reached <= Reached'
    BY <1>1, <1>2 DEF Reached, WatcherIsSound
  <2>3. \A id \in Used : id[4] = 0 => id[2] <= Reached'
    BY <2>1, <2>2 DEF IdsAreFresh
  <2> QED
    BY <1>1, <2>1, <2>3 DEF IdsAreFresh
<1>8. Snapshot'
  BY <1>1 DEF Snapshot
<1>9. Watching'
  BY <1>1 DEF Watching
<1>10. MarkersFollow'
  BY <1>1, <1>3, BatchBehind DEF MarkersFollow
<1> QED
  BY <1>1, <1>4, <1>5, <1>6, <1>7, <1>8, <1>9, <1>10, InvariantParts

LEMMA PageStep ==
    ASSUME SendErrors = FALSE, CollectorInv, CollectorTypeOK', NEW o \in Objects, Page(o)
    PROVE  CollectorInv'
<1> USE DEF CollectorInv
<1>1. /\ watcher.pc = "pages" /\ watcher'.pc = "pages" /\ watcher'.rv = watcher.rv
      /\ watcher'.started = watcher.started /\ watcher'.listed = watcher.listed \cup {o}
      /\ watcher'.batch = watcher.batch /\ o \notin watcher.listed
      /\ log' = log /\ leader' = leader /\ seen' = seen /\ row' = row
      /\ watermark' = watermark
  BY DEF Page, CollectorTypeOK, Watchers
<1>2. /\ Len(log) \in Nat /\ now \in Nat /\ watcher.started \in 1..now /\ watcher.started \in Nat
      /\ watcher.listed \subseteq Objects
  BY <1>1, TypeFacts DEF WatcherIsSound
<1>3. PICK v : v = VersionIn(log, o, watcher.rv)
  OBVIOUS
<1>4. leader \in Replicas /\ now' = now + 1 /\ v # 0
  BY <1>3, PageSends
<1>5. PICK m \in Messages :
        /\ m.kind = "upsert" /\ m.object = o /\ m.version = v
        /\ m.observed = now + 1 /\ m.listed = {}
        /\ m.id = <<o, v, "upsert", watcher.started>>
        /\ channel' = [channel EXCEPT ![leader] = Append(channel[leader], m)]
  BY <1>3, PageSends
<1>6. m.id[1] = o /\ m.id[2] = v /\ m.id[3] = "upsert" /\ m.id[4] = watcher.started
  BY <1>5
<1>7. m.id \notin Used
  BY <1>1, <1>6 DEF IdsAreFresh
<1>8. Distinct(lane', seen') /\ UnderWay' = UnderWay \cup {m}
  BY <1>1, <1>4, <1>5, <1>7, ChannelPost
<1>9. TimesAreSound'
  <2>1. now' >= now /\ m.observed <= now'
    BY <1>2, <1>4, <1>5
  <2> QED
    BY <1>1, <1>8, <2>1, TimesKept
<1>10. WatcherIsSound'
  BY <1>1, <1>2, <1>4 DEF WatcherIsSound
<1>11. IdsAreFresh'
  <2>1. Used' = Used \cup {m.id} /\ \A id \in Used : id[2] \in Nat /\ id[4] \in Nat
    BY <1>1, <1>8, UsedKept
  <2>2. Reached' = Reached
    BY <1>1 DEF Reached
  <2>3. \A id \in Used :
          /\ id[4] = 0 => id[2] <= Reached
          /\ id[4] <= now + 1
          /\ id[4] = watcher.started => id[3] = "upsert" /\ id[1] \in watcher.listed \cup {o}
    BY <1>1, <1>2, <2>1 DEF IdsAreFresh
  <2>4. m.id[4] # 0 /\ m.id[4] <= now + 1
    BY <1>2, <1>6
  <2> QED
    BY <1>1, <1>4, <1>6, <2>1, <2>2, <2>3, <2>4 DEF IdsAreFresh
<1>12. Snapshot'
  <2>1. MarkersBy(watcher.started - 1)'
    <3>1. MarkersBy(watcher.started - 1)
      BY <1>1 DEF Snapshot
    <3> QED
      BY <1>1, <1>5, <1>8, <3>1 DEF MarkersBy
  <2>2. \A p \in Objects \ (watcher.listed \cup {o}) :
          Unlisted(p, watcher.started, UnderWay \cup {m}, row[p])
    <3> SUFFICES ASSUME NEW p \in Objects \ (watcher.listed \cup {o})
                 PROVE  Unlisted(p, watcher.started, UnderWay \cup {m}, row[p])
      OBVIOUS
    <3>1. ~About(p, m)
      BY <1>5 DEF About
    <3>2. Unlisted(p, watcher.started, UnderWay, row[p])
      BY <1>1 DEF Snapshot
    <3> QED
      BY <3>1, <3>2, OtherPosts
  <2>3. ASSUME NEW p \in watcher.listed
        PROVE  /\ VersionIn(log, p, watcher.rv) # 0
               /\ Exists(p, watcher.started, VersionIn(log, p, watcher.rv), UnderWay \cup {m}, row[p])
    <3>1. ~About(p, m)
      BY <1>1, <1>5 DEF About
    <3>2. /\ VersionIn(log, p, watcher.rv) # 0
          /\ Exists(p, watcher.started, VersionIn(log, p, watcher.rv), UnderWay, row[p])
      BY <1>1 DEF Snapshot
    <3> QED
      BY <3>1, <3>2, OtherPosts
  <2>4. Exists(o, watcher.started, v, UnderWay \cup {m}, row[o])
    <3>1. UnderWay \in SUBSET Messages /\ \A a \in UnderWay : a.observed <= now
      BY LaneIsTyped DEF TimesAreSound
    <3>2. row[o] \in Rows /\ (row[o] # NoRow => row[o].observed <= now)
      BY TypeFacts DEF TimesAreSound
    <3>3. About(o, m) /\ watcher.started <= now
      BY <1>2, <1>5 DEF About
    <3>4. PICK P \in SUBSET Messages : P = UnderWay
      BY <3>1
    <3>5. PICK x \in Rows : x = row[o]
      BY <3>2
    <3>6. PICK s \in Nat : s = watcher.started
      BY <1>2
    <3>7. Exists(o, s, m.version, P \cup {m}, x)
      BY <1>2, <1>5, <3>1, <3>2, <3>3, <3>4, <3>5, <3>6, LatestPost
    <3> QED
      BY <1>5, <3>4, <3>5, <3>6, <3>7
  <2> QED
    BY <1>1, <1>3, <1>4, <1>8, <2>1, <2>2, <2>3, <2>4 DEF Snapshot
<1>13. Watching'
  BY <1>1 DEF Watching
<1>14. MarkersFollow'
  <2>0. PICK c \in Nat, r \in Replicas : c = Len(channel[leader]) /\ r = leader
    BY <1>4, TypeFacts
  <2>1. /\ Len(channel'[leader]) = c + 1
        /\ \A i \in 1..c : channel'[leader][i] = channel[leader][i]
        /\ channel'[leader][c + 1] = m
        /\ \A s \in Replicas \ {leader} : channel'[s] = channel[s]
    BY <1>4, <1>5, <2>0, ChannelGrows
  <2>2. \A i \in 1..(c + 1) : i \in 1..c \/ channel'[leader][i].listed = {}
    BY <1>5, <2>1
  <2>3. SentBehind'
    BY <1>1, <1>4, <2>0, <2>1, <2>2, BehindGrows
  <2>4. PICK s : s = watcher.started
    OBVIOUS
  <2>5. ASSUME NEW p \in watcher.listed PROVE Ahead(r, c + 2, p, s)'
    <3>1. Ahead(r, c + 1, p, s)
      BY <1>1, <2>0, <2>4 DEF MarkersFollow
    <3>2. Ahead(r, c + 1, p, s)'
      <4>1. c + 1 \in 1..(c + 1) /\ \A j \in 1..c : channel'[r][j] = channel[r][j]
        BY <2>0, <2>1
      <4> QED
        BY <1>1, <3>1, <4>1, AheadGrows
    <3>3. \A j \in 1..((c + 1) - 1) : j \in 1..((c + 2) - 1)
      OBVIOUS
    <3> QED
      BY <3>2, <3>3 DEF Ahead
  <2>6. Ahead(r, c + 2, o, s)'
    <3>1. c + 1 \in 1..((c + 2) - 1)
      OBVIOUS
    <3>2. About(o, m) /\ m.observed >= s
      BY <1>2, <1>5, <2>4 DEF About
    <3> QED
      BY <2>0, <2>1, <3>1, <3>2 DEF Ahead
  <2>7. c + 2 = (c + 1) + 1
    OBVIOUS
  <2>8. \A p \in watcher.listed \cup {o} :
          Ahead(leader, Len(channel[leader]) + 1, p, watcher.started)'
    <3>1. (leader = r /\ Len(channel[leader]) + 1 = c + 2 /\ watcher.started = s)'
      BY <1>1, <2>0, <2>1, <2>4, <2>7
    <3> QED
      BY <2>5, <2>6, <3>1 DEF Ahead
  <2> QED
    BY <1>1, <2>3, <2>8 DEF MarkersFollow
<1> QED
  BY <1>1, <1>8, <1>9, <1>10, <1>11, <1>12, <1>13, <1>14, InvariantParts

LEMMA SendMarkerStep ==
    ASSUME SendErrors = FALSE, CollectorInv, CollectorTypeOK', SendMarker
    PROVE  CollectorInv'
<1> USE DEF CollectorInv
<1>1. /\ watcher.pc = "pages" /\ watcher'.pc = "open" /\ watcher'.rv = watcher.rv
      /\ watcher'.batch = <<>> /\ watcher.listed = Listed(watcher.rv) /\ now' = now
      /\ log' = log /\ leader' = leader /\ seen' = seen /\ row' = row
      /\ watermark' = watermark
  BY DEF SendMarker, Off
<1>2. /\ Len(log) \in Nat /\ now \in Nat /\ watcher.started \in 1..now /\ watcher.started \in Nat
      /\ watcher.listed \subseteq Objects /\ watcher.rv \in 0..Len(log)
  BY <1>1, TypeFacts DEF WatcherIsSound
<1>3. leader \in Replicas
  BY MarkerSends
<1>4. PICK m \in Messages :
        /\ m.kind = "reconcile" /\ m.observed = watcher.started /\ m.listed = watcher.listed
        /\ m.id = <<None, 0, "reconcile", watcher.started>>
        /\ channel' = [channel EXCEPT ![leader] = Append(channel[leader], m)]
  BY MarkerSends
<1>5. m.id[2] = 0 /\ m.id[3] = "reconcile" /\ m.id[4] = watcher.started
  BY <1>4
<1>6. m.id \notin Used
  BY <1>1, <1>5 DEF IdsAreFresh
<1>7. watcher'.batch = watcher.batch
  BY <1>1 DEF WatcherIsSound
<1>8. Distinct(lane', seen') /\ UnderWay' = UnderWay \cup {m}
  BY <1>1, <1>3, <1>4, <1>6, <1>7, ChannelPost
<1>9. TimesAreSound'
  <2>1. now' >= now /\ m.observed <= now'
    BY <1>1, <1>2, <1>4
  <2> QED
    BY <1>1, <1>8, <2>1, TimesKept
<1>10. WatcherIsSound'
  <2>1. \A i \in 1..Len(watcher'.batch) : watcher'.batch[i].listed = {}
    BY <1>7 DEF WatcherIsSound
  <2> QED
    BY <1>1, <2>1 DEF WatcherIsSound
<1>11. IdsAreFresh'
  <2>1. Used' = Used \cup {m.id}
    BY <1>1, <1>8, UsedKept
  <2>2. Reached' = Reached
    BY <1>1 DEF Reached
  <2>3. m.id[4] # 0 /\ m.id[4] <= now
    BY <1>2, <1>5
  <2> QED
    BY <1>1, <2>1, <2>2, <2>3 DEF IdsAreFresh
<1>12. Snapshot'
  BY <1>1 DEF Snapshot
<1>13. Watching'
  <2>1. PICK t \in Nat : t = watcher.started
    BY <1>2
  <2>2. MarkersBy(t)'
    <3>1. MarkersBy(t - 1)
      BY <1>1, <2>1 DEF Snapshot
    <3>2. watermark \in Nat /\ \A a \in UnderWay : a.observed \in Nat
      BY TypeFacts, LaneIsTyped, MessageFacts
    <3>3. watermark <= t /\ \A a \in UnderWay : a.kind = "reconcile" => a.observed <= t
      BY <1>2, <2>1, <3>1, <3>2 DEF MarkersBy
    <3>4. m.observed <= t
      BY <1>4, <2>1
    <3> QED
      BY <1>1, <1>8, <3>3, <3>4 DEF MarkersBy
  <2>3. ASSUME NEW o \in Objects, VersionIn(log, o, watcher.rv) = 0
        PROVE  Gone(o, t, UnderWay \cup {m}, row[o])
    <3>1. o \notin watcher.listed
      BY <1>1, <2>3 DEF Snapshot
    <3>2. Gone(o, t, UnderWay, row[o])
      BY <1>1, <2>1, <3>1, UnlistedIsGone DEF Snapshot
    <3>3. ~About(o, m)
      BY <1>4 DEF About
    <3> QED
      BY <3>2, <3>3, OtherPosts
  <2>4. ASSUME NEW o \in Objects, VersionIn(log, o, watcher.rv) # 0
        PROVE  Exists(o, t, VersionIn(log, o, watcher.rv), UnderWay \cup {m}, row[o])
    <3>1. VersionAt(o, watcher.rv) # 0
      BY <1>2, <2>4, VersionType
    <3>2. o \in watcher.listed
      BY <1>1, <3>1 DEF Listed
    <3>3. Exists(o, t, VersionIn(log, o, watcher.rv), UnderWay, row[o])
      BY <1>1, <2>1, <3>2 DEF Snapshot
    <3>4. ~About(o, m)
      BY <1>4 DEF About
    <3> QED
      BY <3>3, <3>4, OtherPosts
  <2>5. Follows(t)'
    BY <1>1, <1>4, <1>8, <2>1, <2>2, <2>3, <2>4 DEF Follows
  <2> QED
    BY <2>5 DEF Watching
<1>14. MarkersFollow'
  <2>1. PICK c \in Nat : c = Len(channel[leader])
    BY <1>3, TypeFacts
  <2>2. /\ Len(channel'[leader]) = c + 1
        /\ \A i \in 1..c : channel'[leader][i] = channel[leader][i]
        /\ channel'[leader][c + 1] = m
        /\ \A s \in Replicas \ {leader} : channel'[s] = channel[s]
    BY <1>3, <1>4, <2>1, ChannelGrows
  <2>3. \A i \in 1..(c + 1) : i \in 1..c \/ i = c + 1
    OBVIOUS
  <2>4. SentBehind'
    BY <1>1, <1>3, <1>4, <2>1, <2>2, <2>3, BehindGrows
  <2> QED
    BY <1>1, <2>4 DEF MarkersFollow
<1> QED
  BY <1>1, <1>8, <1>9, <1>10, <1>11, <1>12, <1>13, <1>14, InvariantParts

LEMMA ReceiveStep ==
    ASSUME CollectorInv, CollectorTypeOK', Receive
    PROVE  CollectorInv'
<1> USE DEF CollectorInv
<1>1. PICK n \in Nat : n = watcher.rv + 1
  BY TypeFacts
<1>2. PICK obj, act : obj = log[n].object /\ act = log[n].action
  OBVIOUS
<1>3. /\ now' = now + 1 /\ n \in 1..Len(log) /\ act \in Actions /\ obj \in Objects
      /\ \E m \in Messages :
           /\ m.kind = act /\ m.object = obj
           /\ m.version = n /\ m.observed = now + 1 /\ m.listed = {}
           /\ m.id = <<obj, n, act, 0>>
           /\ watcher' = [watcher EXCEPT !.rv = n, !.batch = Append(watcher.batch, m)]
  BY <1>1, <1>2, ReceiveTakes
<1>4. PICK m \in Messages :
        /\ m.kind = act /\ m.object = obj
        /\ m.version = n /\ m.observed = now + 1 /\ m.listed = {}
        /\ m.id = <<obj, n, act, 0>>
        /\ watcher' = [watcher EXCEPT !.rv = n, !.batch = Append(watcher.batch, m)]
  BY <1>3
<1>5. /\ watcher.pc = "watch" /\ watcher'.pc = "watch" /\ watcher'.rv = n
      /\ watcher'.batch = Append(watcher.batch, m)
      /\ log' = log /\ leader' = leader /\ channel' = channel /\ seen' = seen /\ row' = row
      /\ watermark' = watermark
  BY <1>4 DEF Receive, CollectorTypeOK, Watchers
<1>6. Len(log) \in Nat /\ now \in Nat /\ watcher.rv \in Nat /\ watcher.batch \in Seq(Messages)
  BY TypeFacts
<1>7. m.id[2] = n /\ m.id[4] = 0
  BY <1>4
<1>8. m.id \notin Used
  <2>1. Reached = watcher.rv
    BY <1>5 DEF Reached
  <2>2. \A id \in Used : id[4] = 0 => id[2] <= watcher.rv
    BY <2>1 DEF IdsAreFresh
  <2>3. ~(n <= watcher.rv)
    BY <1>1, <1>6
  <2> QED
    BY <1>7, <2>2, <2>3
<1>9. Distinct(lane', seen') /\ UnderWay' = UnderWay \cup {m}
  BY <1>5, <1>8, BatchPost
<1>10. TimesAreSound'
  <2>1. now' >= now /\ m.observed <= now'
    BY <1>3, <1>4, <1>6
  <2> QED
    BY <1>5, <1>9, <2>1, TimesKept
<1>11. WatcherIsSound'
  <2>1. PICK b \in Seq(Messages) : b = watcher.batch
    BY <1>6
  <2>2. PICK d : d = Append(b, m)
    OBVIOUS
  <2>3. Len(b) \in Nat /\ Len(d) = Len(b) + 1 /\ d[Len(b) + 1] = m /\ \A i \in 1..Len(b) : d[i] = b[i]
    BY <2>2, AppendProperties, LenProperties
  <2>4. \A i \in 1..Len(b) : b[i].listed = {}
    BY <2>1 DEF WatcherIsSound
  <2>5. \A i \in 1..(Len(b) + 1) : i \in 1..Len(b) \/ i = Len(b) + 1
    BY <2>3
  <2>6. \A i \in 1..Len(d) : d[i].listed = {}
    BY <1>4, <2>3, <2>4, <2>5
  <2>7. watcher'.batch = d
    BY <1>5, <2>1, <2>2
  <2> QED
    BY <1>3, <1>5, <1>6, <2>6, <2>7 DEF WatcherIsSound
<1>12. IdsAreFresh'
  <2>1. Used' = Used \cup {m.id} /\ \A id \in Used : id[2] \in Nat /\ id[4] \in Nat
    BY <1>5, <1>9, UsedKept
  <2>2. Reached = watcher.rv /\ Reached' = n
    BY <1>5 DEF Reached
  <2>3. \A id \in Used : (id[4] = 0 => id[2] <= n) /\ id[4] <= now + 1
    BY <1>1, <1>6, <2>1, <2>2 DEF IdsAreFresh
  <2>4. n <= n /\ 0 <= now + 1
    BY <1>6
  <2> QED
    BY <1>3, <1>5, <1>7, <2>1, <2>2, <2>3, <2>4 DEF IdsAreFresh
<1>13. Snapshot'
  BY <1>5 DEF Snapshot
<1>14. Watching'
  <2>1. PICK t \in Nat : Follows(t)
    BY <1>5 DEF Watching
  <2>2. t <= now
    BY <2>1 DEF Follows, TimesAreSound
  <2>3. MarkersBy(t)'
    <3>1. m.kind # "reconcile"
      BY <1>3, <1>4 DEF Actions
    <3> QED
      BY <1>5, <1>9, <2>1, <3>1 DEF Follows, MarkersBy
  <2>4. \A o \in Objects :
          VersionIn(log, o, n) = IF obj = o THEN IF act = "delete" THEN 0 ELSE n
                                 ELSE VersionIn(log, o, watcher.rv)
    <3>1. PICK l : l = log
      OBVIOUS
    <3>2. PICK k \in Nat : k = watcher.rv
      BY <1>6
    <3>3. Len(l) \in Nat /\ Lasts(l) /\ k < Len(l) /\ n = k + 1
      BY <1>1, <1>3, <1>6, <3>1, <3>2
    <3>4. \A o \in Objects :
            VersionIn(l, o, k + 1) =
              IF l[k + 1].object = o
              THEN IF l[k + 1].action = "delete" THEN 0 ELSE k + 1
              ELSE VersionIn(l, o, k)
      BY <3>3, VersionNext
    <3> QED
      BY <1>2, <3>1, <3>2, <3>3, <3>4
  <2>5. ASSUME NEW o \in Objects
        PROVE  IF VersionIn(log, o, n) = 0
               THEN Gone(o, t, UnderWay \cup {m}, row[o])
               ELSE Exists(o, t, VersionIn(log, o, n), UnderWay \cup {m}, row[o])
    <3>1. CASE o # obj
      <4>1. ~About(o, m) /\ VersionIn(log, o, n) = VersionIn(log, o, watcher.rv)
        BY <1>4, <2>4, <3>1 DEF About
      <4>2. IF VersionIn(log, o, n) = 0
            THEN Gone(o, t, UnderWay, row[o])
            ELSE Exists(o, t, VersionIn(log, o, n), UnderWay, row[o])
        BY <2>1, <4>1 DEF Follows
      <4> QED
        BY <4>1, <4>2, OtherPosts
    <3>2. CASE o = obj
      <4>1. UnderWay \in SUBSET Messages /\ \A a \in UnderWay : a.observed <= now
        BY LaneIsTyped DEF TimesAreSound
      <4>2. row[o] \in Rows /\ (row[o] # NoRow => row[o].observed <= now)
        BY TypeFacts DEF TimesAreSound
      <4>3. About(o, m)
        BY <1>3, <1>4, <3>2 DEF About, Actions
      <4>4. PICK P \in SUBSET Messages : P = UnderWay
        BY <4>1
      <4>5. PICK x \in Rows : x = row[o]
        BY <4>2
      <4>6. /\ m.kind = "upsert" => Exists(o, t, n, UnderWay \cup {m}, row[o])
            /\ m.kind = "delete" => Gone(o, t, UnderWay \cup {m}, row[o])
        <5>1. /\ m.kind = "upsert" => Exists(o, t, m.version, P \cup {m}, x)
              /\ m.kind = "delete" => Gone(o, t, P \cup {m}, x)
          BY <1>4, <1>6, <2>2, <4>1, <4>2, <4>3, <4>4, <4>5, LatestPost
        <5> QED
          BY <1>4, <4>4, <4>5, <5>1
      <4>7. VersionIn(log, o, n) = IF act = "delete" THEN 0 ELSE n
        BY <2>4, <3>2
      <4>8. n # 0 /\ act \in {"upsert", "delete"}
        BY <1>3 DEF Actions
      <4> QED
        BY <1>4, <4>6, <4>7, <4>8
    <3> QED
      BY <3>1, <3>2
  <2>6. Follows(t)'
    BY <1>5, <1>9, <2>1, <2>3, <2>5 DEF Follows
  <2> QED
    BY <2>6 DEF Watching
<1>15. MarkersFollow'
  BY <1>5, FollowKept
<1> QED
  BY <1>5, <1>9, <1>10, <1>11, <1>12, <1>13, <1>14, <1>15, InvariantParts

\* Observations and watermarks only grow.
LEMMA TurnsForward ==
    ASSUME NEW o, NEW m \in Messages, NEW x \in Rows, NEW w \in Nat, NEW y, Turns(o, m, x, w, y),
           NEW t \in Nat
    PROVE  /\ x # NoRow /\ x.observed >= t => y # NoRow /\ y.observed >= t
           /\ About(o, m) /\ m.observed >= t => (y # NoRow /\ y.observed >= t) \/ w > t
<1>1. /\ m.observed \in Nat
      /\ x # NoRow => x.observed \in Nat
      /\ y # NoRow => y.observed \in Nat
  BY MessageFacts, RowFacts DEF Turns
<1>2. CASE Replaces(o, m, x, w, y)
  BY <1>1, <1>2 DEF Replaces
<1>3. CASE Tombstones(m, x, w, y)
  BY <1>1, <1>3 DEF Tombstones, About
<1>4. CASE Spares(o, m, x, w, y)
  BY <1>1, <1>4 DEF Spares
<1> QED
  BY <1>2, <1>3, <1>4 DEF Turns

LEMMA DeliverStep ==
    ASSUME CollectorInv, CollectorTypeOK', NEW r \in Replicas, Deliver(r)
    PROVE  CollectorInv'
<1> USE DEF CollectorInv
<1>1. log' = log /\ now' = now /\ leader' = leader /\ watcher' = watcher
  BY DEF Deliver
<1>2. PICK m \in UnderWay :
        /\ m = Head(channel[r]) /\ m = channel[r][1] /\ Len(channel[r]) \in Nat \ {0}
        /\ Len(channel'[r]) = Len(channel[r]) - 1
        /\ \A i \in 1..Len(channel'[r]) : channel'[r][i] = channel[r][i + 1]
        /\ \A s \in Replicas \ {r} : channel'[s] = channel[s]
        /\ UnderWay' = UnderWay \ {m} /\ Distinct(lane', seen')
        /\ seen' = seen \cup {m.id}
        /\ \A o \in Objects : Turns(o, m, row[o], watermark, row'[o])
        /\ row' \in [Objects -> Rows] /\ channel' \in [Replicas -> Seq(Messages)]
        /\ watermark' = IF m.kind = "reconcile" /\ m.observed >= watermark
                        THEN m.observed ELSE watermark
  BY DeliverTurns
<1>3. PICK w \in Nat, P \in SUBSET Messages : w = watermark /\ P = UnderWay
  BY TypeFacts, LaneIsTyped
<1>4. /\ m \in P /\ m \in Messages /\ m.observed \in Nat /\ m.observed <= now /\ now \in Nat
      /\ watermark' \in Nat /\ watermark' >= w
      /\ m.kind \in {"upsert", "delete", "reconcile"}
  <2>1. m \in P /\ m \in Messages /\ m.observed \in Nat
    BY <1>3, MessageFacts
  <2> QED
    BY <1>2, <1>3, <2>1, MessageFacts, TypeFacts DEF TimesAreSound
<1>5. \A o \in Objects : row[o] \in Rows /\ row'[o] \in Rows /\ Turns(o, m, row[o], w, row'[o])
  BY <1>2, <1>3, TypeFacts
<1>6. WatcherIsSound'
  BY <1>1 DEF WatcherIsSound
<1>7. TimesAreSound'
  <2>1. watermark' <= now
    BY <1>2, <1>4 DEF TimesAreSound
  <2>2. \A a \in UnderWay' : a.observed <= now
    BY <1>2 DEF TimesAreSound
  <2>3. ASSUME NEW o \in Objects
        PROVE  /\ row'[o] # NoRow => row'[o].observed <= now
               /\ row'[o] # NoRow /\ ~row'[o].deleted => row'[o].observed >= watermark'
    <3>1. PICK x \in Rows, y \in Rows : x = row[o] /\ y = row'[o]
      BY <1>5
    <3>2. /\ x # NoRow => x.observed <= now /\ x.observed \in Nat
          /\ x # NoRow /\ ~x.deleted => x.observed >= w
          /\ Turns(o, m, x, w, y)
      BY <1>3, <1>5, <3>1, RowFacts DEF TimesAreSound, Live
    <3>3. y # NoRow => y.observed <= now
      BY <1>4, <3>2 DEF Turns, Replaces, Tombstones, Spares
    <3>4. y # NoRow /\ ~y.deleted => y.observed >= watermark'
      <4>1. CASE Replaces(o, m, x, w, y)
        <5>1. watermark' = w
          BY <1>2, <1>3, <4>1 DEF Replaces, About
        <5> QED
          BY <4>1, <5>1 DEF Replaces
      <4>2. CASE Tombstones(m, x, w, y)
        BY <4>2 DEF Tombstones
      <4>3. CASE Spares(o, m, x, w, y)
        BY <1>2, <1>3, <1>4, <3>2, <4>3 DEF Spares
      <4> QED
        BY <3>2, <4>1, <4>2, <4>3 DEF Turns
    <3> QED
      BY <3>1, <3>3, <3>4
  <2> QED
    BY <1>1, <2>1, <2>2, <2>3 DEF TimesAreSound, Live
<1>8. IdsAreFresh'
  <2>1. Used' \subseteq Used
    BY <1>2 DEF Used
  <2>2. Reached' = Reached
    BY <1>1 DEF Reached
  <2> QED
    BY <1>1, <2>1, <2>2 DEF IdsAreFresh
<1>9. ASSUME NEW t \in Nat, MarkersBy(t)
      PROVE  /\ MarkersBy(t)' /\ w <= t /\ (m.kind = "reconcile" => m.observed <= t)
             /\ \A o \in Objects : Gone(o, t, P, row[o]) => Gone(o, t, P \ {m}, row'[o])
             /\ \A o \in Objects : \A v : Exists(o, t, v, P, row[o]) => Exists(o, t, v, P \ {m}, row'[o])
  <2>1. w <= t /\ (m.kind = "reconcile" => m.observed <= t)
    BY <1>3, <1>4, <1>9 DEF MarkersBy
  <2>2. MarkersBy(t)'
    BY <1>2, <1>3, <1>9, <2>1 DEF MarkersBy
  <2>3. \A o \in Objects : Gone(o, t, P, row[o]) => Gone(o, t, P \ {m}, row'[o])
    BY <1>4, <1>5, <2>1, DeliveryKeepsGone
  <2>4. \A o \in Objects : \A v : Exists(o, t, v, P, row[o]) => Exists(o, t, v, P \ {m}, row'[o])
    BY <1>4, <1>5, <2>1, DeliveryKeepsExists
  <2> QED
    BY <2>1, <2>2, <2>3, <2>4
<1>10. Snapshot'
  <2> SUFFICES ASSUME watcher.pc \in {"list", "pages"} PROVE Snapshot'
    BY <1>1 DEF Snapshot
  <2>1. PICK t \in Nat : t = watcher.started
    BY TypeFacts
  <2>2. PICK u \in Nat : u = t - 1 /\ u <= t /\ u < t
    BY <2>1 DEF WatcherIsSound
  <2>3. MarkersBy(u)
    BY <2>1, <2>2 DEF Snapshot
  <2>4. MarkersBy(u)' /\ (m.kind = "reconcile" => m.observed <= u)
    BY <1>9, <2>3
  <2>5. MarkersBy(watcher.started - 1)'
    BY <1>1, <2>1, <2>2, <2>4 DEF MarkersBy
  <2>6. MarkersBy(t)
    BY <1>3, <2>2, <2>3, TypeFacts, LaneIsTyped, MessageFacts DEF MarkersBy
  <2>7. ASSUME NEW o \in Objects \ watcher.listed
        PROVE  Unlisted(o, t, P \ {m}, row'[o])
    <3>1. Unlisted(o, t, P, row[o])
      BY <1>3, <2>1 DEF Snapshot
    <3>2. m.kind = "reconcile" => m.observed < t
      BY <1>4, <2>2, <2>4
    <3> QED
      BY <1>4, <1>5, <3>1, <3>2, DeliveryKeepsUnlisted
  <2>8. ASSUME watcher.pc = "pages", NEW o \in watcher.listed
        PROVE  /\ VersionIn(log, o, watcher.rv) # 0
               /\ Exists(o, t, VersionIn(log, o, watcher.rv), P \ {m}, row'[o])
    <3>1. /\ VersionIn(log, o, watcher.rv) # 0
          /\ Exists(o, t, VersionIn(log, o, watcher.rv), P, row[o])
      BY <1>3, <2>1, <2>8 DEF Snapshot
    <3>2. o \in Objects
      BY TypeFacts
    <3> QED
      BY <1>9, <2>6, <3>1, <3>2
  <2> QED
    BY <1>1, <1>2, <1>3, <2>1, <2>5, <2>7, <2>8 DEF Snapshot
<1>11. Watching'
  <2> SUFFICES ASSUME watcher.pc \in {"open", "watch"} PROVE \E t \in Nat : Follows(t)'
    BY <1>1 DEF Watching
  <2>1. PICK t \in Nat : Follows(t)
    BY DEF Watching
  <2>2. MarkersBy(t)
    BY <2>1 DEF Follows
  <2>3. watermark' = t \/ \E a \in UnderWay' : a.kind = "reconcile" /\ a.observed = t
    <3>1. w <= t /\ (m.kind = "reconcile" => m.observed <= t)
      BY <1>9, <2>2
    <3>2. CASE watermark = t
      BY <1>2, <1>3, <1>4, <3>1, <3>2
    <3>3. CASE \E a \in UnderWay : a.kind = "reconcile" /\ a.observed = t
      <4>1. PICK a \in UnderWay : a.kind = "reconcile" /\ a.observed = t
        BY <3>3
      <4>2. CASE a = m
        BY <1>2, <1>3, <3>1, <4>1, <4>2
      <4>3. CASE a # m
        BY <1>2, <4>1, <4>3
      <4> QED
        BY <4>2, <4>3
    <3> QED
      BY <2>1, <3>2, <3>3 DEF Follows
  <2>4. MarkersBy(t)'
    BY <1>9, <2>2
  <2>5. ASSUME NEW o \in Objects
        PROVE  IF VersionIn(log, o, watcher.rv) = 0
               THEN Gone(o, t, UnderWay \ {m}, row'[o])
               ELSE Exists(o, t, VersionIn(log, o, watcher.rv), UnderWay \ {m}, row'[o])
    <3>1. IF VersionIn(log, o, watcher.rv) = 0
          THEN Gone(o, t, P, row[o])
          ELSE Exists(o, t, VersionIn(log, o, watcher.rv), P, row[o])
      BY <1>3, <2>1 DEF Follows
    <3> QED
      BY <1>3, <1>9, <2>2, <3>1
  <2>6. Follows(t)'
    BY <1>1, <1>2, <2>3, <2>4, <2>5 DEF Follows
  <2> QED
    BY <2>6
<1>12. ASSUME NEW o \in Objects, NEW t \in Nat
       PROVE  /\ row[o] # NoRow /\ row[o].observed >= t => row'[o] # NoRow /\ row'[o].observed >= t
              /\ About(o, m) /\ m.observed >= t =>
                   (row'[o] # NoRow /\ row'[o].observed >= t) \/ watermark' > t
              /\ watermark > t => watermark' > t
  <2>1. /\ row[o] # NoRow /\ row[o].observed >= t => row'[o] # NoRow /\ row'[o].observed >= t
        /\ About(o, m) /\ m.observed >= t => (row'[o] # NoRow /\ row'[o].observed >= t) \/ w > t
    BY <1>4, <1>5, TurnsForward
  <2>2. w > t => watermark' > t
    BY <1>4
  <2> QED
    BY <1>3, <2>1, <2>2
<1>13. ASSUME NEW s \in Replicas, s # r, NEW i, NEW o \in Objects, NEW t \in Nat, Ahead(s, i, o, t)
       PROVE  Ahead(s, i, o, t)'
  <2>1. channel'[s] = channel[s]
    BY <1>2, <1>13
  <2> QED
    BY <1>12, <1>13, <2>1 DEF Ahead
<1>14. ASSUME NEW i \in 1..Len(channel[r]), NEW o \in Objects, NEW t \in Nat, Ahead(r, i + 1, o, t)
       PROVE  Ahead(r, i, o, t)'
  <2>1. CASE \E j \in 1..i : About(o, channel[r][j]) /\ channel[r][j].observed >= t
    <3>1. PICK j \in 1..i : About(o, channel[r][j]) /\ channel[r][j].observed >= t
      BY <2>1
    <3>2. CASE j = 1
      BY <1>2, <1>12, <3>1, <3>2 DEF Ahead
    <3>3. CASE j # 1
      <4>1. j - 1 \in 1..(i - 1) /\ j - 1 \in 1..(Len(channel[r]) - 1) /\ (j - 1) + 1 = j
        BY <1>2, <3>1, <3>3
      <4>2. channel'[r][j - 1] = channel[r][j]
        BY <1>2, <4>1
      <4> QED
        BY <3>1, <4>1, <4>2 DEF Ahead
    <3> QED
      BY <3>2, <3>3
  <2>2. CASE row[o] # NoRow /\ row[o].observed >= t
    BY <1>12, <2>2 DEF Ahead
  <2>3. CASE watermark > t
    BY <1>12, <2>3 DEF Ahead
  <2>4. (i + 1) - 1 = i
    BY <1>2
  <2> QED
    BY <1>14, <2>1, <2>2, <2>3, <2>4 DEF Ahead
<1>15. MarkersFollow'
  <2>1. ASSUME NEW s \in Replicas, NEW i \in 1..Len(channel'[s]), NEW o \in channel'[s][i].listed
        PROVE  Ahead(s, i, o, channel[s][i].observed)'
    <3>1. CASE s # r
      <4>1. channel'[s] = channel[s]
        BY <1>2, <3>1
      <4>2. PICK t : t = channel[s][i].observed
        OBVIOUS
      <4>3. channel[s][i] \in Messages
        BY <4>1, TypeFacts
      <4>4. t \in Nat /\ o \in Objects
        BY <4>1, <4>2, <4>3, MessageFacts
      <4>5. Ahead(s, i, o, t)
        BY <4>1, <4>2 DEF MarkersFollow, SentBehind
      <4>6. Ahead(s, i, o, t)'
        BY <1>13, <3>1, <4>4, <4>5
      <4> QED
        BY <4>1, <4>2, <4>6 DEF Ahead
    <3>2. CASE s = r
      <4>1. PICK n \in Nat : n = Len(channel[r]) /\ n # 0
        BY <1>2
      <4>2. i \in 1..(n - 1)
        BY <1>2, <3>2, <4>1
      <4>3. i \in 1..Len(channel[r]) /\ i + 1 \in 1..Len(channel[r]) /\ i \in 1..Len(channel'[r])
        BY <3>2, <4>1, <4>2
      <4>4. channel'[r][i] = channel[r][i + 1]
        BY <1>2, <4>3
      <4>5. PICK t : t = channel[r][i + 1].observed
        OBVIOUS
      <4>6. channel[r][i + 1] \in Messages
        BY <4>3, TypeFacts
      <4>7. t \in Nat /\ o \in Objects
        BY <3>2, <4>4, <4>5, <4>6, MessageFacts
      <4>8. Ahead(r, i + 1, o, t)
        BY <3>2, <4>3, <4>4, <4>5 DEF MarkersFollow, SentBehind
      <4>9. Ahead(r, i, o, t)'
        BY <1>14, <4>3, <4>7, <4>8
      <4> QED
        BY <3>2, <4>4, <4>5, <4>9 DEF Ahead
    <3> QED
      BY <3>1, <3>2
  <2>2. ASSUME watcher.pc = "pages", NEW o \in watcher.listed
        PROVE  Ahead(leader, Len(channel[leader]) + 1, o, watcher.started)'
    <3>1. PICK s \in Replicas : s = leader
      BY <2>2, TypeFacts DEF WatcherIsSound
    <3>2. PICK t \in Nat : t = watcher.started
      BY TypeFacts
    <3>3. PICK n \in Nat : n = Len(channel[s])
      BY TypeFacts
    <3>4. o \in Objects /\ Ahead(s, n + 1, o, t)
      BY <2>2, <3>1, <3>2, <3>3, TypeFacts DEF MarkersFollow
    <3>5. CASE s # r
      <4>1. Ahead(s, n + 1, o, t)'
        BY <1>13, <3>4, <3>5
      <4>2. channel'[s] = channel[s]
        BY <1>2, <3>5
      <4> QED
        BY <1>1, <3>1, <3>2, <3>3, <4>1, <4>2 DEF Ahead
    <3>6. CASE s = r
      <4>1. n \in 1..Len(channel[r]) /\ Len(channel'[r]) + 1 = n
        BY <1>2, <3>3, <3>6
      <4>2. Ahead(r, n, o, t)'
        BY <1>14, <3>4, <3>6, <4>1
      <4> QED
        BY <1>1, <3>1, <3>2, <3>6, <4>1, <4>2 DEF Ahead
    <3> QED
      BY <3>5, <3>6
  <2> QED
    BY <1>1, <2>1, <2>2 DEF MarkersFollow, SentBehind
<1> QED
  BY <1>1, <1>2, <1>6, <1>7, <1>8, <1>10, <1>11, <1>15, InvariantParts

-----------------------------------------------------------------------------
(***************************************************************************)
(* The theorems.                                                           *)
(***************************************************************************)
LEMMA CollectorInitInv == Init => CollectorInv
<1> SUFFICES ASSUME Init PROVE CollectorInv
  OBVIOUS
<1> USE DEF Init
<1>1. CollectorTypeOK
  <2>1. <<>> \in Seq(Messages) /\ <<>> \in Seq([object: Objects, action: Actions])
    BY EmptySeq
  <2>2. Off \in Watchers
    BY <2>1 DEF Off, Watchers
  <2> QED
    BY <2>1, <2>2 DEF CollectorTypeOK
<1>2. Len(log) = 0 /\ watcher.pc = "off" /\ watcher.batch = <<>> /\ watcher.rv = 0
  BY DEF Off
<1>3. Lasts(log)
  <2>1. \A n \in 0..Len(log) : 1..n = {}
    BY <1>2
  <2> QED
    BY <2>1 DEF Lasts
<1>4. \A x \in Lanes : Len(lane[x]) = 0
  <2>1. \A x \in Lanes : lane[x] = <<>>
    BY <1>2 DEF lane, Lanes
  <2> QED
    BY <2>1
<1>5. Distinct(lane, seen)
  BY <1>4 DEF Distinct
<1>6. UnderWay = {}
  BY <1>4 DEF UnderWay, Contents
<1>7. WatcherIsSound
  BY <1>2 DEF WatcherIsSound
<1>8. TimesAreSound
  BY <1>6 DEF TimesAreSound, Live
<1>9. IdsAreFresh
  BY <1>6 DEF IdsAreFresh, Used
<1>10. Snapshot /\ Watching
  BY <1>2 DEF Snapshot, Watching
<1>11. MarkersFollow
  <2>1. \A r \in Replicas : Len(channel[r]) = 0
    OBVIOUS
  <2> QED
    BY <1>2, <2>1 DEF MarkersFollow, SentBehind
<1> QED
  BY <1>1, <1>3, <1>5, <1>7, <1>8, <1>9, <1>10, <1>11 DEF CollectorInv

LEMMA CollectorNextInv ==
    ASSUME SendErrors = FALSE, CollectorInv, [Next]_vars
    PROVE  CollectorInv'
<1>1. CASE UNCHANGED vars
  <2> USE DEF CollectorInv
  <2>1. /\ log' = log /\ now' = now /\ leader' = leader /\ watcher' = watcher
        /\ channel' = channel /\ seen' = seen /\ row' = row /\ watermark' = watermark
    BY <1>1 DEF vars
  <2>2. CollectorTypeOK'
    BY <2>1 DEF CollectorTypeOK
  <2>3. Distinct(lane', seen') /\ UnderWay' = UnderWay
    BY <2>1, BatchStays
  <2>4. WatcherIsSound'
    BY <2>1 DEF WatcherIsSound
  <2>5. TimesAreSound'
    BY <2>1, <2>3 DEF TimesAreSound, Live
  <2>6. IdsAreFresh'
    BY <2>1, <2>3 DEF IdsAreFresh, Used, Reached
  <2>7. Snapshot'
    <3>1. watcher.pc \in {"list", "pages"} => MarkersBy(watcher.started - 1)'
      BY <2>1, <2>3 DEF Snapshot, MarkersBy
    <3> QED
      BY <2>1, <2>3, <3>1 DEF Snapshot
  <2>8. Watching'
    BY <2>1, <2>3, WatchingKept
  <2>9. MarkersFollow'
    BY <2>1, FollowKept
  <2> QED
    BY <2>1, <2>2, <2>3, <2>4, <2>5, <2>6, <2>7, <2>8, <2>9, InvariantParts
<1>2. CASE Next
  <2>0. CollectorTypeOK /\ WatcherIsSound /\ Lasts(log) /\ Distinct(lane, seen)
    BY DEF CollectorInv
  <2>1. CollectorTypeOK'
    BY <1>2, <2>0, TypeNext
  <2>2. ASSUME NEW o \in Objects, NEW action \in {"upsert", "delete"}, Change(o, action)
        PROVE  CollectorInv'
    <3>1. action \in Actions
      BY DEF Actions
    <3> QED
      BY <2>1, <2>2, <3>1, ChangeStep
  <2>3. ASSUME NEW r \in Replicas, Acquire(r) PROVE CollectorInv'
    <3>1. /\ watcher'.pc = "start" /\ watcher'.batch = <<>> /\ watcher'.rv = 0 /\ leader' # None
          /\ log' = log /\ now' = now /\ channel' = channel /\ seen' = seen /\ row' = row
          /\ watermark' = watermark
      BY <2>3, CollectorAssumption DEF Acquire, Off
    <3> QED
      BY <2>1, <3>1, IdleStep
  <2>4. ASSUME NEW r \in Replicas, Deliver(r) PROVE CollectorInv'
    BY <2>1, <2>4, DeliverStep
  <2>5. CASE Stop
    <3>1. /\ watcher'.pc = "off" /\ watcher'.batch = <<>> /\ watcher'.rv = 0
          /\ log' = log /\ now' = now /\ channel' = channel /\ seen' = seen /\ row' = row
          /\ watermark' = watermark
      BY <2>5 DEF Stop, Off
    <3> QED
      BY <2>1, <3>1, IdleStep
  <2>6. CASE StartSnapshot
    BY <2>1, <2>6, StartSnapshotStep
  <2>7. CASE FirstPage
    BY <2>1, <2>7, FirstPageStep
  <2>8. ASSUME NEW o \in Objects, Page(o) PROVE CollectorInv'
    BY <2>1, <2>8, PageStep
  <2>9. CASE ListFails \/ OpenFails
    <3>1. /\ watcher'.pc = "start" /\ watcher'.batch = <<>> /\ watcher'.rv = 0 /\ leader' # None
          /\ log' = log /\ now' = now /\ channel' = channel /\ seen' = seen /\ row' = row
          /\ watermark' = watermark
      BY <2>0, <2>9 DEF ListFails, OpenFails, Off, WatcherIsSound
    <3> QED
      BY <2>1, <3>1, IdleStep
  <2>10. CASE SendMarker
    BY <2>1, <2>10, SendMarkerStep
  <2>11. CASE OpenWatch
    BY <2>1, <2>11, OpenWatchStep
  <2>12. CASE Receive
    BY <2>1, <2>12, ReceiveStep
  <2>13. CASE Flush
    BY <2>1, <2>13, FlushStep
  <2>14. CASE WatchEnds
    BY <2>1, <2>14, WatchEndsStep
  <2> QED
    BY <1>2, <2>2, <2>3, <2>4, <2>5, <2>6, <2>7, <2>8, <2>9, <2>10, <2>11, <2>12, <2>13, <2>14
    DEF Next
<1> QED
  BY <1>1, <1>2

\* The inductive invariant, as long as Send returns no error while its context is live:
\* flush and watch only log such an error, and run MCCollectorLoss shows what then is
\* lost.
THEOREM CollectorInvariant ==
    ASSUME SendErrors = FALSE
    PROVE  Spec => []CollectorInv
<1>1. CollectorInv /\ [Next]_vars => CollectorInv'
  BY CollectorNextInv
<1> QED
  BY <1>1, CollectorInitInv, PTL DEF Spec

\* Whatever Leases were lost, lists and watches interrupted, and however late the
\* batches of former holders arrive: once the holder's watch has caught up and all is
\* applied, the inventory is the cluster (collector.go: watch, consume; store.go:
\* applyResource, reconcile).
THEOREM InventoryIsTheCluster ==
    ASSUME SendErrors = FALSE
    PROVE  Spec => []CaughtUpIsExact
<1>1. CollectorInv => CaughtUpIsExact
  <2> SUFFICES ASSUME CollectorInv, Quiescent, NEW o \in Objects
               PROVE  IF VersionAt(o, Len(log)) = 0 THEN ~Live(o)
                      ELSE Live(o) /\ row[o].version = VersionAt(o, Len(log))
    BY DEF CaughtUpIsExact
  <2>1. CollectorTypeOK /\ Lasts(log) /\ TimesAreSound
    BY DEF CollectorInv
  <2>2. UnderWay = {}
    <3>1. /\ lane[None] = <<>> /\ \A r \in Replicas : lane[r] = <<>>
      BY <2>1, LaneIsTyped DEF Quiescent
    <3>2. \A x \in Lanes : Len(lane[x]) = 0
      BY <3>1 DEF Lanes
    <3> QED
      BY <3>2 DEF UnderWay, Contents
  <2>3. PICK t \in Nat : Follows(t)
    BY DEF CollectorInv, Watching, Quiescent
  <2>4. watermark = t
    BY <2>2, <2>3 DEF Follows
  <2>5. VersionAt(o, Len(log)) = VersionIn(log, o, watcher.rv)
    BY VersionIsIn DEF Quiescent
  <2>6. row[o] # NoRow => row[o].observed \in Nat
    BY <2>1, TypeFacts, RowFacts
  <2>7. CASE VersionAt(o, Len(log)) = 0
    <3>1. Gone(o, t, UnderWay, row[o])
      BY <2>3, <2>5, <2>7 DEF Follows
    <3>2. Live(o) => row[o].observed < t
      BY <2>2, <3>1 DEF Gone, DeletedAfter, Live
    <3>3. Live(o) => row[o].observed >= t
      BY <2>1, <2>4 DEF TimesAreSound
    <3> QED
      BY <2>6, <2>7, <3>2, <3>3 DEF Live
  <2>8. CASE VersionAt(o, Len(log)) # 0
    <3>1. Exists(o, t, VersionAt(o, Len(log)), UnderWay, row[o])
      BY <2>3, <2>5, <2>8 DEF Follows
    <3> QED
      BY <2>2, <2>8, <3>1 DEF Exists, Live
  <2> QED
    BY <2>7, <2>8
<1> QED
  BY <1>1, CollectorInvariant, PTL

\* A reconcile marker never deletes an object that its snapshot listed, in whatever
\* order the channels of the replicas are emptied (collector.go: snapshotEvent and the
\* Reconcile call after the last page).
THEOREM MarkersSpareTheListed ==
    ASSUME SendErrors = FALSE
    PROVE  Spec => ListedSurvivesMarker
<1> DEFINE Step == \A r \in Replicas :
                     channel[r] # <<>> /\ channel'[r] = Tail(channel[r]) =>
                       \A o \in Head(channel[r]).listed : Live(o) => ~row'[o].deleted
<1>1. CollectorInv /\ [Next]_vars => [Step]_vars
  <2> SUFFICES ASSUME CollectorInv, Next, NEW r \in Replicas,
                      channel[r] # <<>>, channel'[r] = Tail(channel[r]),
                      NEW o \in Head(channel[r]).listed, Live(o)
               PROVE  ~row'[o].deleted
    OBVIOUS
  <2>0. CollectorTypeOK /\ Distinct(lane, seen) /\ MarkersFollow /\ TimesAreSound
    BY DEF CollectorInv
  <2>1. CASE row' = row
    BY <2>1 DEF Live
  <2>2. ASSUME NEW s \in Replicas, Deliver(s) PROVE ~row'[o].deleted
    <3>1. PICK m \in UnderWay :
        /\ m = Head(channel[s]) /\ m = channel[s][1] /\ Len(channel[s]) \in Nat \ {0}
        /\ \A p \in Replicas \ {s} : channel'[p] = channel[p]
        /\ \A p \in Objects : Turns(p, m, row[p], watermark, row'[p])
      BY <2>0, <2>2, DeliverTurns
    <3>2. s = r
      <4>1. PICK c \in Seq(Messages) : c = channel[r]
        BY <2>0, TypeFacts
      <4>2. c # Tail(c)
        <5>1. Len(c) \in Nat /\ Len(Tail(c)) = Len(c) - 1
          BY <4>1, LenProperties, HeadTailProperties
        <5> QED
          BY <5>1
      <4>3. channel'[r] # channel[r]
        BY <4>1, <4>2
      <4> QED
        BY <3>1, <4>3
    <3>3. m \in Messages /\ m.observed \in Nat /\ o \in m.listed
      BY <2>0, <3>1, <3>2, LaneIsTyped, MessageFacts
    <3>4. m.kind = "reconcile" /\ o \in Objects
      BY <3>3, MessageFacts
    <3>5. Ahead(r, 1, o, m.observed)
      <4>1. 1 \in 1..Len(channel[r])
        BY <3>1, <3>2
      <4> QED
        BY <2>0, <3>1, <3>2, <3>3, <4>1 DEF MarkersFollow, SentBehind
    <3>6. row[o].observed >= m.observed \/ watermark > m.observed
      BY <3>5 DEF Ahead
    <3>7. row[o].observed \in Nat /\ watermark \in Nat /\ row[o] # NoRow /\ ~row[o].deleted
      BY <2>0, <3>4, TypeFacts, RowFacts DEF Live
    <3>8. Turns(o, m, row[o], watermark, row'[o])
      BY <3>1, <3>4
    <3>9. row'[o] = row[o]
      BY <3>3, <3>4, <3>6, <3>7, <3>8 DEF Turns, Replaces, Tombstones, Spares, About
    <3> QED
      BY <3>7, <3>9
  <2>3. row' = row \/ \E s \in Replicas : Deliver(s)
    BY DEF Next, Change, Acquire, Stop, StartSnapshot, FirstPage, Page, ListFails, SendMarker,
       OpenWatch, OpenFails, Receive, Flush, WatchEnds
  <2> QED
    BY <2>1, <2>2, <2>3
<1> QED
  BY <1>1, CollectorInvariant, PTL DEF Spec, ListedSurvivesMarker

-----------------------------------------------------------------------------
(***************************************************************************)
(* The rules for observation times are those of module Inventory.          *)
(***************************************************************************)
\* an absent table row
Absent == [absent |-> TRUE]

\* A row of this shard as module Inventory has it: a healthy object that is no Event.
InStore(x) ==
    IF x = NoRow THEN Absent
    ELSE [shard |-> "shard", state |-> "ok", detail |-> None, version |-> x.version,
          occurred |-> 0, resolved |-> FALSE, observed |-> x.observed, deleted |-> x.deleted]

\* The inventory, whose last transaction wrote `changed` into the change log.
Store(changed) == INSTANCE Inventory WITH
    Resources <- Objects, Shards <- {"shard"}, Details <- {None}, Recovered <- None,
    WarningKinds <- {}, Referent <- [e \in {} |-> e], HealthKinds <- {}, Window <- 0,
    Projections <- [id: Objects, state: {"ok"}, detail: {None}, version: Nat, occurred: {0}],
    NoRow <- Absent, Closed <- None,
    row <- [o \in Objects |-> InStore(row[o])],
    watermark <- [s \in {"shard"} |-> watermark], cutoff <- [s \in {"shard"} |-> watermark],
    now <- 1, incident <- [o \in Objects |-> None], retired <- {}, logged <- changed

\* One of its steps.  No step of Inventory reads the change log, so that hiding it takes
\* no history.
StoreNext == \E changed \in SUBSET Objects : Store(changed)!Next

\* The rows and the watermark of the shard start and change as module Inventory says.
ImplementsInventory ==
    /\ Store({})!Init
    /\ [][StoreNext]_<<row, watermark>>

\* The fields of such a row.
LEMMA StoreRow ==
    ASSUME NEW x \in Rows
    PROVE  IF x = NoRow THEN InStore(x) = Absent
           ELSE /\ InStore(x) # Absent
                /\ InStore(x).shard = "shard" /\ InStore(x).state = "ok" /\ InStore(x).detail = None
                /\ InStore(x).observed = x.observed /\ InStore(x).deleted = x.deleted
                /\ InStore(x).version = x.version
BY DEF InStore, Absent

\* An accepted marker is a Reconcile of the inventory.
LEMMA MarkerIsReconcile ==
    ASSUME row \in [Objects -> Rows], watermark \in Nat,
           NEW m \in Messages, m.kind = "reconcile", m.observed \in 1..MaxTime,
           Accepted(m), row' = Applied(m), watermark' = m.observed
    PROVE  StoreNext
<1> DEFINE t == m.observed
           old == {o \in Objects : row[o] # NoRow /\ ~row[o].deleted /\ row[o].observed < t}
<1>1. t \in Nat /\ watermark <= t /\ t >= watermark
  BY MessageFacts DEF Accepted
<1>2. \A o \in Objects : row[o] \in Rows
  OBVIOUS
<1>3. PICK c \in SUBSET Objects : c = old
  OBVIOUS
<1>4. Store(c)!Outdated("shard", t) = c
  BY <1>2, <1>3, StoreRow DEF Store!Outdated, Store!Live
<1>5. {r \in c : [o \in Objects |-> InStore(row[o])][r].state # "ok"} = {}
  BY <1>2, <1>3, StoreRow
<1>6. ASSUME NEW o \in Objects
      PROVE  InStore(row'[o]) = IF o \in c THEN [InStore(row[o]) EXCEPT !.deleted = TRUE, !.observed = t]
                                ELSE InStore(row[o])
  <2>1. CASE o \in old
    <3>1. row'[o] = [row[o] EXCEPT !.deleted = TRUE, !.observed = t]
      BY <2>1 DEF Applied, Live
    <3>2. row[o] \in RowType
      BY <1>2, <2>1 DEF Rows
    <3>3. /\ row'[o] \in RowType /\ row'[o].version = row[o].version /\ row'[o].deleted = TRUE
          /\ row'[o].observed = t
      BY <1>1, <3>1, <3>2 DEF RowType
    <3>4. row'[o] # NoRow /\ row[o] # NoRow
      BY <3>2, <3>3, CollectorSentinel
    <3> QED
      BY <1>3, <2>1, <3>3, <3>4 DEF InStore
  <2>2. CASE o \notin old
    BY <1>3, <2>2 DEF Applied, Live
  <2> QED
    BY <2>1, <2>2
<1> HIDE DEF old
<1>7. [o \in Objects |-> InStore(row'[o])] =
        [r \in Objects |->
           IF r \in c THEN [[o \in Objects |-> InStore(row[o])][r] EXCEPT !.deleted = TRUE, !.observed = t]
           ELSE [o \in Objects |-> InStore(row[o])][r]]
  BY <1>6, Zenon
<1>8. /\ [s \in {"shard"} |-> watermark'] = [[s \in {"shard"} |-> watermark] EXCEPT !["shard"] = t]
      /\ [s \in {"shard"} |-> watermark'] =
           [[s \in {"shard"} |-> watermark] EXCEPT
             !["shard"] = IF [s \in {"shard"} |-> watermark]["shard"] < t THEN t
                          ELSE [s \in {"shard"} |-> watermark]["shard"]]
      /\ t >= [s \in {"shard"} |-> watermark]["shard"]
  <2>1. [s \in {"shard"} |-> watermark]["shard"] = watermark
    OBVIOUS
  <2>2. (IF watermark < t THEN t ELSE watermark) = t
    BY <1>1
  <2>3. [s \in {"shard"} |-> watermark'] = [[s \in {"shard"} |-> watermark] EXCEPT !["shard"] = t]
    OBVIOUS
  <2> QED
    BY <1>1, <2>1, <2>2, <2>3
<1>9. [o \in Objects |-> None] = [r \in Objects |-> IF r \in {} THEN None ELSE [o \in Objects |-> None][r]]
  OBVIOUS
<1>10. Store(c)!Reconcile("shard", t)
  BY <1>4, <1>5, <1>7, <1>8, <1>9, Zenon DEF Store!Reconcile, Store!RemovalsLogged
<1>11. Store(c)!Next
  BY <1>10 DEF Store!Next, Store!Times
<1> QED
  BY <1>11 DEF StoreNext

\* An accepted event is an upsert or a delete of the inventory.
LEMMA EventIsApply ==
    ASSUME row \in [Objects -> Rows], watermark \in Nat,
           NEW m \in Messages, m.kind # "reconcile", m.observed \in 1..MaxTime,
           Accepted(m), row' = Applied(m), watermark' = watermark
    PROVE  StoreNext
<1> DEFINE t == m.observed
           p == [id |-> m.object, state |-> "ok", detail |-> None, version |-> m.version, occurred |-> 0]
           rows == [o \in Objects |-> InStore(row[o])]
<1>1. t \in Nat /\ m.object \in Objects /\ m.version \in Nat /\ m.kind \in {"upsert", "delete"}
  BY MessageFacts
<1>2. \A o \in Objects : row[o] \in Rows
  OBVIOUS
<1>3. PICK c : c = {m.object}
  OBVIOUS
<1>4. Store(c)!Accepted("shard", p, t)
  BY <1>1, <1>2, StoreRow DEF Store!Accepted, Accepted
<1>5. PICK new : new = Store(c)!Stored(m.kind, "shard", p, t)
  OBVIOUS
<1>6. new = [shard |-> "shard", version |-> m.version, occurred |-> 0, observed |-> t, state |-> "ok",
             detail |-> None, resolved |-> FALSE, deleted |-> m.kind = "delete"]
  BY <1>5 DEF Store!Stored, Store!Resolves
<1>7. ~Store(c)!ShouldNotify(m.kind, m.object, new)
  BY <1>1, <1>2, <1>6, StoreRow DEF Store!ShouldNotify, Store!Problem, Store!Live
<1>8. row' = [row EXCEPT ![m.object] = [version |-> m.version, observed |-> t,
                                         deleted |-> m.kind = "delete"]]
  BY DEF Applied
<1>9. InStore(row'[m.object]) = new
  <2>1. [version |-> m.version, observed |-> t, deleted |-> m.kind = "delete"] \in RowType
    BY <1>1 DEF RowType
  <2>2. row'[m.object] = [version |-> m.version, observed |-> t, deleted |-> m.kind = "delete"]
    BY <1>1, <1>8
  <2>3. row'[m.object] # NoRow
    BY <2>1, <2>2, CollectorSentinel
  <2> QED
    BY <1>6, <2>2, <2>3 DEF InStore
<1>10. [o \in Objects |-> InStore(row'[o])] = [[o \in Objects |-> InStore(row[o])] EXCEPT ![m.object] = new]
  <2>1. \A o \in Objects \ {m.object} : row'[o] = row[o]
    BY <1>8
  <2> QED
    BY <1>1, <1>9, <2>1
<1>11. [o \in Objects |-> None] = [[o \in Objects |-> None] EXCEPT ![m.object] = [o \in Objects |-> None][m.object]]
  BY <1>1
<1>12. Store(c)!Apply(m.kind, "shard", p, t)
  BY <1>3, <1>4, <1>5, <1>7, <1>10, <1>11, Zenon DEF Store!Apply
<1>13. p \in [id: Objects, state: {"ok"}, detail: {None}, version: Nat, occurred: {0}]
  BY <1>1
<1>14. c \in SUBSET Objects
  BY <1>1, <1>3
<1> QED
  BY <1>1, <1>12, <1>13, <1>14 DEF StoreNext, Store!Next, Store!Times

\* Messages stamped with an observation time the clock has shown.
Stamped == {m \in Messages : m.observed \in 1..MaxTime}

StampedWatchers ==
    [pc: {"off", "start", "list", "pages", "open", "watch"}, started: 0..MaxTime, rv: Nat,
     listed: SUBSET Objects, batch: Seq(Stamped)]

\* What holds of the messages even when Send loses some of them.
StampInv ==
    /\ log \in Seq([object: Objects, action: Actions]) /\ Lasts(log)
    /\ now \in 0..MaxTime
    /\ watcher \in StampedWatchers /\ watcher.rv <= Len(log)
    /\ watcher.pc \in {"list", "pages"} => watcher.started # 0
    /\ channel \in [Replicas -> Seq(Stamped)]
    /\ row \in [Objects -> Rows] /\ watermark \in Nat

\* Events and markers are stamped messages.
LEMMA StampedMessages ==
    ASSUME NEW t \in 1..MaxTime
    PROVE  /\ \A a \in Actions, o \in Objects, v \in Nat : Event(a, o, v, t) \in Stamped
           /\ \A o \in Objects, v, s \in Nat : SnapshotEvent(o, v, s, t) \in Stamped
           /\ \A L \in SUBSET Objects : Marker(t, L) \in Stamped
<1>0. t \in Nat
  OBVIOUS
<1>1. ASSUME NEW a \in Actions, NEW o \in Objects, NEW v \in Nat PROVE Event(a, o, v, t) \in Stamped
  <2>1. PICK m : m = Event(a, o, v, t)
    OBVIOUS
  <2>2. m \in Messages /\ m.observed = t
    BY <1>0, <2>1, EventFacts
  <2> QED
    BY <2>1, <2>2 DEF Stamped
<1>2. ASSUME NEW o \in Objects, NEW v \in Nat, NEW s \in Nat PROVE SnapshotEvent(o, v, s, t) \in Stamped
  <2>1. PICK m : m = SnapshotEvent(o, v, s, t)
    OBVIOUS
  <2>2. <<o, v, "upsert", s>> \in Ids /\ "upsert" \in Actions
    BY DEF Ids, Actions
  <2>3. m = [kind |-> "upsert", object |-> o, version |-> v, observed |-> t,
             id |-> <<o, v, "upsert", s>>, listed |-> {}]
    BY <2>1 DEF SnapshotEvent, Event
  <2>4. m \in Messages /\ m.observed = t
    BY <1>0, <2>2, <2>3 DEF Messages
  <2> QED
    BY <2>1, <2>4 DEF Stamped
<1>3. ASSUME NEW L \in SUBSET Objects PROVE Marker(t, L) \in Stamped
  <2>1. PICK m : m = Marker(t, L)
    OBVIOUS
  <2>2. m \in Messages /\ m.observed = t
    BY <1>0, <2>1, MarkerFacts, Zenon
  <2> QED
    BY <2>1, <2>2 DEF Stamped
<1> QED
  BY <1>1, <1>2, <1>3

\* Whatever part of the messages Send gets through.
LEMMA SentStamped ==
    ASSUME channel \in [Replicas -> Seq(Stamped)], NEW ms \in Seq(Stamped), Sent(ms)
    PROVE  channel' \in [Replicas -> Seq(Stamped)]
<1>1. PICK n \in 0..Len(ms) : channel' = [channel EXCEPT ![leader] = @ \o SubSeq(ms, 1, n)]
  BY DEF Sent
<1>2. PICK part : part = SubSeq(ms, 1, n)
  OBVIOUS
<1>3. part \in Seq(Stamped)
  <2>1. Len(ms) \in Nat
    BY LenProperties
  <2>2. \A i \in 1..n : ms[i] \in Stamped
    BY <2>1, ElementOfSeq
  <2> QED
    BY <1>2, <2>1, <2>2, SubSeqProperties
<1>4. CASE leader \in Replicas
  <2>1. channel[leader] \o part \in Seq(Stamped)
    BY <1>3, <1>4, ConcatProperties
  <2> QED
    BY <1>1, <1>2, <2>1
<1>5. CASE leader \notin Replicas
  BY <1>1, <1>2, <1>5
<1> QED
  BY <1>4, <1>5

\* A goroutine that starts over holds nothing.
LEMMA FreshStamped ==
    ASSUME NEW pc \in {"off", "start", "list", "pages", "open", "watch"}, NEW s \in 0..MaxTime,
           NEW n \in Nat
    PROVE  /\ Off \in StampedWatchers /\ Off.rv = 0 /\ Off.pc = "off"
           /\ [Off EXCEPT !.pc = pc] \in StampedWatchers
           /\ [Off EXCEPT !.pc = pc, !.started = s] \in StampedWatchers
           /\ [Off EXCEPT !.pc = pc, !.rv = n] \in StampedWatchers
<1>1. <<>> \in Seq(Stamped) /\ 0 \in 0..MaxTime
  BY EmptySeq, CollectorAssumption
<1> QED
  BY <1>1 DEF Off, StampedWatchers

\* Every message is stamped by the clock, whatever Send loses.
LEMMA StampStep ==
    ASSUME StampInv, [Next]_vars
    PROVE  StampInv'
<1> USE DEF StampInv
<1>0. Len(log) \in Nat /\ MaxTime \in Nat /\ now \in Nat /\ watcher.rv \in Nat
  BY LenProperties, CollectorAssumption DEF StampedWatchers
<1>1. ASSUME NEW o \in Objects, NEW action \in {"upsert", "delete"}, Change(o, action)
      PROVE  StampInv'
  <2>1. PICK S : S = [object: Objects, action: Actions]
    OBVIOUS
  <2>2. PICK e \in S : e = [object |-> o, action |-> action]
    BY <2>1 DEF Actions
  <2>3. log \in Seq(S) /\ Grows(log, e, log') /\ Lasts(log)
    BY <1>1, <2>1, <2>2 DEF Change, Grows
  <2>4. Lasts(log') /\ log' \in Seq(S) /\ Len(log') = Len(log) + 1
    BY <2>3, LastsGrows
  <2> QED
    BY <1>0, <1>1, <2>1, <2>4 DEF Change
<1>2. ASSUME NEW r \in Replicas, Deliver(r) PROVE StampInv'
  <2>1. PICK c \in Seq(Stamped) : c = channel[r] /\ c # <<>>
    BY <1>2 DEF Deliver
  <2>2. Head(c) \in Stamped /\ Tail(c) \in Seq(Stamped)
    BY <2>1
  <2>3. PICK m \in Stamped : m = Head(channel[r])
    BY <2>1, <2>2
  <2>4. channel' \in [Replicas -> Seq(Stamped)]
    BY <1>2, <2>1, <2>2 DEF Deliver
  <2>5. Applied(m) \in [Objects -> Rows]
    <3>1. m \in Messages /\ m.observed \in Nat
      BY MessageFacts DEF Stamped
    <3>2. CASE m.kind = "reconcile"
      <4>1. ASSUME NEW o \in Objects, Live(o)
            PROVE  [row[o] EXCEPT !.deleted = TRUE, !.observed = m.observed] \in Rows
        <5>1. row[o] \in RowType
          BY <4>1 DEF Live, Rows
        <5> QED
          BY <3>1, <5>1 DEF Rows, RowType
      <4> QED
        BY <3>2, <4>1 DEF Applied
    <3>3. CASE m.kind # "reconcile"
      <4>1. m.object \in Objects /\ m.version \in Nat
        BY <3>1, <3>3, MessageFacts
      <4>2. [version |-> m.version, observed |-> m.observed, deleted |-> m.kind = "delete"] \in Rows
        BY <3>1, <4>1 DEF Rows, RowType
      <4> QED
        BY <3>3, <4>1, <4>2 DEF Applied
    <3> QED
      BY <3>2, <3>3
  <2>6. row' \in [Objects -> Rows] /\ watermark' \in Nat
    <3>1. m.observed \in Nat
      BY MessageFacts DEF Stamped
    <3>2. (row' = row \/ row' = Applied(m)) /\ (watermark' = watermark \/ watermark' = m.observed)
      BY <1>2, <2>3 DEF Deliver
    <3> QED
      BY <2>5, <3>1, <3>2
  <2> QED
    BY <1>2, <2>4, <2>6 DEF Deliver
<1>3. ASSUME (\E r \in Replicas : Acquire(r)) \/ Stop \/ ListFails \/ OpenFails PROVE StampInv'
  <2>1. watcher' = Off \/ watcher' = [Off EXCEPT !.pc = "start"]
    BY <1>3 DEF Acquire, Stop, ListFails, OpenFails
  <2>2. watcher' \in StampedWatchers /\ watcher'.rv = 0 /\ watcher'.pc \in {"off", "start"}
    BY <2>1, FreshStamped DEF Off
  <2>3. UNCHANGED <<log, now, channel, row, watermark>>
    BY <1>3 DEF Acquire, Stop, ListFails, OpenFails
  <2> QED
    BY <1>0, <2>2, <2>3
<1>4. CASE StartSnapshot
  <2>1. now' \in 1..MaxTime /\ watcher' = [Off EXCEPT !.pc = "list", !.started = now']
    BY <1>0, <1>4 DEF StartSnapshot, Stamp
  <2>2. watcher' \in StampedWatchers /\ watcher'.rv = 0 /\ watcher'.started = now'
    <3>1. PICK s \in 0..MaxTime : s = now'
      BY <2>1
    <3>2. watcher' = [Off EXCEPT !.pc = "list", !.started = s]
      BY <2>1, <3>1
    <3>3. watcher'.rv = 0 /\ watcher'.started = s
      BY <3>2 DEF Off
    <3> QED
      BY <3>1, <3>2, <3>3, FreshStamped
  <2> QED
    BY <1>0, <1>4, <2>1, <2>2 DEF StartSnapshot
<1>5. CASE FirstPage
  <2>1. watcher' \in StampedWatchers /\ watcher'.rv = Len(log) /\ watcher'.started = watcher.started
    BY <1>0, <1>5 DEF FirstPage, StampedWatchers
  <2> QED
    BY <1>0, <1>5, <2>1 DEF FirstPage
<1>6. ASSUME NEW o \in Objects, Page(o) PROVE StampInv'
  <2>1. now' \in 1..MaxTime /\ watcher.started \in Nat
    BY <1>0, <1>6 DEF Page, Stamp, StampedWatchers
  <2>2. VersionAt(o, watcher.rv) \in Nat
    BY <1>0, VersionStays, VersionIsIn
  <2>3. SnapshotEvent(o, VersionAt(o, watcher.rv), watcher.started, now') \in Stamped
    BY <2>1, <2>2, StampedMessages
  <2>4. <<SnapshotEvent(o, VersionAt(o, watcher.rv), watcher.started, now')>> \in Seq(Stamped)
    BY <2>3
  <2>5. channel' \in [Replicas -> Seq(Stamped)]
    BY <1>6, <2>4, SentStamped DEF Page
  <2>6. watcher' \in StampedWatchers /\ watcher'.rv = watcher.rv /\ watcher'.started = watcher.started
    BY <1>6 DEF Page, StampedWatchers
  <2> QED
    BY <1>6, <2>1, <2>5, <2>6 DEF Page
<1>7. CASE SendMarker
  <2>1. watcher.started \in 1..MaxTime /\ watcher.listed \in SUBSET Objects
    BY <1>0, <1>7 DEF SendMarker, StampedWatchers
  <2>2. Marker(Cutoff, watcher.listed) \in Stamped
    BY <2>1, StampedMessages DEF Cutoff
  <2>3. <<Marker(Cutoff, watcher.listed)>> \in Seq(Stamped)
    BY <2>2
  <2>4. channel' \in [Replicas -> Seq(Stamped)]
    BY <1>7, <2>3, SentStamped DEF SendMarker
  <2>5. watcher' \in StampedWatchers /\ watcher'.rv = watcher.rv /\ watcher'.pc = "open"
    BY <1>0, <1>7, FreshStamped DEF SendMarker, Off
  <2> QED
    BY <1>7, <2>4, <2>5 DEF SendMarker
<1>8. CASE OpenWatch
  <2>1. watcher' \in StampedWatchers /\ watcher'.rv = watcher.rv /\ watcher'.pc = "watch"
    BY <1>8 DEF OpenWatch, WatchFrom, StampedWatchers
  <2> QED
    BY <1>8, <2>1 DEF OpenWatch
<1>9. CASE Receive
  <2>1. now' \in 1..MaxTime /\ watcher.rv + 1 \in 1..Len(log) /\ watcher.pc = "watch"
    BY <1>0, <1>9 DEF Receive, Stamp
  <2>2. PICK n \in 1..Len(log) : n = watcher.rv + 1
    BY <2>1
  <2>3. log[n] \in [object: Objects, action: Actions]
    BY ElementOfSeq
  <2>4. PICK m : m = Event(log[n].action, log[n].object, n, now')
    OBVIOUS
  <2>5. m \in Stamped
    <3>1. log[n].object \in Objects /\ log[n].action \in Actions /\ n \in Nat
      BY <2>3
    <3> QED
      BY <2>1, <2>4, <3>1, StampedMessages
  <2>6. PICK b \in Seq(Stamped) : b = Append(watcher.batch, m)
    BY <2>5, AppendProperties DEF StampedWatchers
  <2>7. watcher' = [watcher EXCEPT !.rv = n, !.batch = b]
    BY <1>9, <2>2, <2>4, <2>6 DEF Receive
  <2>8. watcher' \in StampedWatchers /\ watcher'.rv = n /\ watcher'.pc = "watch"
    <3>1. n \in Nat
      BY <1>0, <2>2
    <3>2. watcher' \in StampedWatchers
      BY <2>7, <3>1 DEF StampedWatchers
    <3>3. watcher'.rv = n /\ watcher'.pc = watcher.pc
      BY <2>7 DEF StampedWatchers
    <3> QED
      BY <2>1, <3>2, <3>3
  <2> QED
    BY <1>0, <1>9, <2>1, <2>8 DEF Receive
<1>10. CASE Flush \/ WatchEnds
  <2>1. watcher.batch \in Seq(Stamped) /\ <<>> \in Seq(Stamped)
    BY EmptySeq DEF StampedWatchers
  <2>2. channel' \in [Replicas -> Seq(Stamped)]
    BY <1>10, <2>1, SentStamped DEF Flush, WatchEnds
  <2>3. CASE Flush
    <3>1. watcher' \in StampedWatchers /\ watcher'.rv = watcher.rv /\ watcher'.pc = "watch"
      BY <2>1, <2>3 DEF Flush, StampedWatchers
    <3> QED
      BY <2>2, <2>3, <3>1 DEF Flush
  <2>4. CASE WatchEnds
    <3>1. watcher' \in StampedWatchers /\ watcher'.rv = 0 /\ watcher'.pc = "start"
      BY <2>4, FreshStamped DEF WatchEnds, Off
    <3> QED
      BY <1>0, <2>2, <2>4, <3>1 DEF WatchEnds
  <2> QED
    BY <1>10, <2>3, <2>4
<1>11. CASE UNCHANGED vars
  BY <1>11 DEF vars
<1> QED
  BY <1>1, <1>2, <1>3, <1>4, <1>5, <1>6, <1>7, <1>8, <1>9, <1>10, <1>11 DEF Next

\* A delivered message is a step of the inventory, or it leaves the rows alone.
LEMMA DeliveryImplements ==
    ASSUME StampInv, [Next]_vars
    PROVE  [StoreNext]_<<row, watermark>>
<1>1. ASSUME NEW r \in Replicas, Deliver(r) PROVE [StoreNext]_<<row, watermark>>
  <2>1. PICK c \in Seq(Stamped) : c = channel[r] /\ c # <<>>
    BY <1>1 DEF Deliver, StampInv
  <2>2. PICK m \in Stamped : m = Head(channel[r])
    BY <2>1
  <2>3. m \in Messages /\ m.observed \in 1..MaxTime /\ row \in [Objects -> Rows] /\ watermark \in Nat
    BY DEF Stamped, StampInv
  <2>4. CASE m.id \notin seen /\ Accepted(m) /\ m.kind = "reconcile"
    <3>1. row' = Applied(m) /\ watermark' = m.observed
      BY <1>1, <2>2, <2>4 DEF Deliver
    <3> QED
      BY <2>3, <2>4, <3>1, MarkerIsReconcile
  <2>5. CASE m.id \notin seen /\ Accepted(m) /\ m.kind # "reconcile"
    <3>1. row' = Applied(m) /\ watermark' = watermark
      BY <1>1, <2>2, <2>5 DEF Deliver
    <3> QED
      BY <2>3, <2>5, <3>1, EventIsApply
  <2>6. CASE ~(m.id \notin seen /\ Accepted(m))
    BY <1>1, <2>2, <2>6 DEF Deliver
  <2> QED
    BY <2>4, <2>5, <2>6
<1>2. (\E r \in Replicas : Deliver(r)) \/ UNCHANGED <<row, watermark>>
  BY DEF Next, Change, Acquire, Stop, StartSnapshot, FirstPage, Page, ListFails, SendMarker, OpenWatch,
     OpenFails, Receive, Flush, WatchEnds, vars
<1> QED
  BY <1>1, <1>2

\* Whatever replicas, delayed channels, repeated ids, failed sends and handed-over Leases
\* do, the rows of the shard change only by the rules of applyResource and reconcile that
\* module Inventory models with their notifications: what is proved there of rows and
\* watermarks holds of the collected shard, with SendErrors as well as without.
THEOREM CollectorImplementsInventory == Spec => ImplementsInventory
<1>1. Init => StampInv
  <2> SUFFICES ASSUME Init PROVE StampInv
    OBVIOUS
  <2>1. log = <<>> /\ Len(log) = 0 /\ log \in Seq([object: Objects, action: Actions])
    BY EmptySeq DEF Init
  <2>2. Lasts(log)
    BY <2>1 DEF Lasts
  <2>3. \A r \in Replicas : <<>> \in Seq(Stamped)
    BY EmptySeq
  <2>4. watcher \in StampedWatchers /\ watcher.rv = 0 /\ watcher.pc = "off"
    <3>1. 0 \in 0..MaxTime /\ 0 \in Nat /\ "off" \in {"off", "start", "list", "pages", "open", "watch"}
      BY CollectorAssumption
    <3>2. Off \in StampedWatchers /\ Off.rv = 0 /\ Off.pc = "off"
      BY <3>1, FreshStamped, Zenon
    <3> QED
      BY <3>2 DEF Init
  <2>5. now \in 0..MaxTime /\ watermark \in Nat /\ row \in [Objects -> Rows]
    BY CollectorAssumption DEF Init, Rows
  <2>6. channel \in [Replicas -> Seq(Stamped)]
    BY <2>3 DEF Init
  <2> QED
    BY <2>1, <2>2, <2>4, <2>5, <2>6 DEF StampInv
<1>2. Init => Store({})!Init
  BY DEF Init, Store!Init, InStore
<1>3. StampInv /\ [Next]_vars => StampInv'
  BY StampStep
<1>4. StampInv /\ [Next]_vars => [StoreNext]_<<row, watermark>>
  BY DeliveryImplements
<1> QED
  BY <1>1, <1>2, <1>3, <1>4, PTL DEF Spec, ImplementsInventory
=============================================================================
