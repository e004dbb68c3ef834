----------------------------- MODULE SpoolProofs -----------------------------
(***************************************************************************)
(* What module Spool promises for any number of watchers and batches, any  *)
(* sizes and any capacity: nothing accepted is lost, first arrivals are in *)
(* order as long as the wall clock does not step back, and the byte        *)
(* counter is exact and within the capacity.                               *)
(***************************************************************************)
EXTENDS Spool, SequenceTheorems, WellFoundedInduction, TLAPS

FileType == Batches \cup {Beat}

\* A sequence with one more element is a sequence.
LEMMA InsertedFiles ==
    ASSUME NEW S, NEW s \in Seq(S), NEW b \in S, NEW i \in 0..Len(s)
    PROVE  /\ Inserted(s, i, b) \in Seq(S)
           /\ Len(Inserted(s, i, b)) = Len(s) + 1
<1> DEFINE n == Len(s) + 1
           f == [j \in 1..n |-> IF j <= i THEN s[j] ELSE IF j = i + 1 THEN b ELSE s[j - 1]]
<1>1. n \in Nat
  BY LenProperties
<1>2. \A j \in 1..n : (IF j <= i THEN s[j] ELSE IF j = i + 1 THEN b ELSE s[j - 1]) \in S
  BY ElementOfSeq, LenProperties
<1>3. f \in [1..n -> S]
  BY <1>2, Zenon
<1>4. f \in Seq(S)
  BY <1>1, <1>3, IsASeq
<1>5. Len(f) = n
  BY <1>1, <1>4, LenProperties
<1> QED
  BY <1>4, <1>5 DEF Inserted

\* The heartbeat's batches are not recorded, all others are.
LEMMA RecordedBatches ==
    /\ \A b \in Batches : Recorded({b}) = {b}
    /\ \A S \in SUBSET FileType : Recorded(S) \subseteq Batches
<1>1. Beat \notin Batches
  BY SpoolAssumption DEF Beat, Batches
<1> QED
  BY <1>1, Zenon DEF Recorded, FileType

\* What a sender inside Send works on.
LEMMA CurrentBatch ==
    ASSUME TypeOK, NEW p \in Senders, pc[p] # "idle"
    PROVE  /\ Current(p) \in FileType
           /\ Recorded({Current(p)}) \subseteq Batches
           /\ p \in Watchers => Current(p) \in Batches /\ Recorded({Current(p)}) = {Current(p)}
           /\ p = Heartbeat => Current(p) = Beat
<1>1. CASE p \in Watchers
  <2>1. Current(p) \in Batches
    BY <1>1, SpoolAssumption DEF TypeOK, Current, Batches, Senders
  <2> QED
    BY <1>1, <2>1, RecordedBatches, SpoolAssumption DEF FileType
<1>2. CASE p = Heartbeat
  <2>1. Current(p) = Beat
    BY <1>2 DEF TypeOK, Current, Beat
  <2> QED
    BY <1>2, <2>1, RecordedBatches, SpoolAssumption DEF FileType
<1> QED
  BY <1>1, <1>2 DEF Senders

\* What a replay works on.
LEMMA FirstFile ==
    ASSUME TypeOK, spool # <<>>
    PROVE  /\ Head(spool) \in FileType /\ Recorded({Head(spool)}) \subseteq Batches
           /\ Tail(spool) \in Seq(FileType)
<1>1. Head(spool) \in FileType /\ Tail(spool) \in Seq(FileType)
  BY DEF TypeOK, FileType
<1> QED
  BY <1>1, RecordedBatches

\* What a rename does to the files.
LEMMA RenamedFiles ==
    ASSUME TypeOK, NEW p \in Senders, Rename(p)
    PROVE  /\ spool' \in Seq(FileType)
           /\ Files' = Files \cup {Current(p)}
           /\ ~ClockSteps => /\ Len(spool') = Len(spool) + 1
                             /\ \A j \in 1..Len(spool) : spool'[j] = spool[j]
                             /\ spool'[Len(spool) + 1] = Current(p)
<1>1. spool \in Seq(FileType) /\ Len(spool) \in Nat /\ DOMAIN spool = 1..Len(spool)
  BY DEF TypeOK, FileType
<1>2. Current(p) \in FileType
  BY CurrentBatch DEF Rename
<1>3. PICK i \in Positions : spool' = Inserted(spool, i, Current(p))
  BY DEF Rename
<1>4. i \in 0..Len(spool)
  <2>1. Positions = 0..Len(spool) \/ Positions = {Len(spool)}
    BY Zenon DEF Positions
  <2> QED
    BY <1>1, <1>3, <2>1
<1>5. ASSUME ~ClockSteps PROVE i = Len(spool)
  BY <1>5, <1>3, Zenon DEF Positions
<1> DEFINE new == Inserted(spool, i, Current(p))
<1>6. /\ new \in Seq(FileType)
       /\ Len(new) = Len(spool) + 1
       /\ \A j \in 1..(Len(spool) + 1) :
            new[j] = IF j <= i THEN spool[j]
                     ELSE IF j = i + 1 THEN Current(p) ELSE spool[j - 1]
  <2>1. \A j \in 1..(Len(spool) + 1) :
            new[j] = IF j <= i THEN spool[j]
                     ELSE IF j = i + 1 THEN Current(p) ELSE spool[j - 1]
    BY DEF Inserted
  <2> QED
    BY <1>1, <1>2, <1>4, <2>1, InsertedFiles
<1>7. /\ spool' \in Seq(FileType)
      /\ Len(spool') = Len(spool) + 1
      /\ \A j \in 1..(Len(spool) + 1) :
           spool'[j] = IF j <= i THEN spool[j]
                       ELSE IF j = i + 1 THEN Current(p) ELSE spool[j - 1]
  BY <1>3, <1>6, Zenon
<1>8. DOMAIN spool' = 1..(Len(spool) + 1)
  BY <1>7
<1>9. Files' \subseteq Files \cup {Current(p)}
  BY <1>1, <1>4, <1>7, <1>8 DEF Files
<1>10. Current(p) \in Files'
  <2>1. i + 1 \in DOMAIN spool' /\ spool'[i + 1] = Current(p)
    BY <1>1, <1>4, <1>7, <1>8
  <2> QED
    BY <2>1 DEF Files
<1>11. ASSUME NEW j \in 1..Len(spool) PROVE spool[j] \in Files'
  <2>1. CASE j <= i
    BY <1>1, <1>4, <1>7, <1>8, <2>1 DEF Files
  <2>2. CASE j > i
    <3>1. j + 1 \in DOMAIN spool' /\ spool'[j + 1] = spool[j]
      BY <1>1, <1>4, <1>7, <1>8, <2>2
    <3> QED
      BY <3>1 DEF Files
  <2> QED
    BY <1>1, <1>4, <2>1, <2>2
<1>12. Files \subseteq Files'
  BY <1>1, <1>11 DEF Files
<1>13. i = Len(spool) => /\ \A j \in 1..Len(spool) : spool'[j] = spool[j]
                         /\ spool'[Len(spool) + 1] = Current(p)
  BY <1>1, <1>7
<1>14. Files' = Files \cup {Current(p)}
  BY <1>9, <1>10, <1>12
<1> QED
  BY <1>5, <1>7, <1>13, <1>14, Zenon

\* What a replayed file leaves behind.
LEMMA RemainingFiles ==
    ASSUME TypeOK, spool # <<>>, spool' = Tail(spool)
    PROVE  /\ Files = Files' \cup {Head(spool)}
           /\ Len(spool') = Len(spool) - 1
           /\ \A j \in 1..(Len(spool) - 1) : spool'[j] = spool[j + 1]
<1>1. /\ spool \in Seq(FileType) /\ Len(spool) \in Nat \ {0}
      /\ DOMAIN spool = 1..Len(spool) /\ Head(spool) = spool[1]
  BY DEF TypeOK, FileType
<1>2. /\ Len(spool') = Len(spool) - 1 /\ DOMAIN spool' = 1..(Len(spool) - 1)
      /\ \A j \in 1..(Len(spool) - 1) : spool'[j] = spool[j + 1]
  BY <1>1
<1>3. Files' \cup {Head(spool)} \subseteq Files
  BY <1>1, <1>2 DEF Files
<1>4. ASSUME NEW j \in 1..Len(spool) PROVE spool[j] \in Files' \cup {Head(spool)}
  <2>1. CASE j = 1
    BY <1>1, <2>1
  <2>2. CASE j # 1
    <3>1. j - 1 \in DOMAIN spool' /\ spool'[j - 1] = spool[j]
      BY <1>1, <1>2, <2>2
    <3> QED
      BY <3>1 DEF Files
  <2> QED
    BY <2>1, <2>2
<1>5. Files \subseteq Files' \cup {Head(spool)}
  BY <1>1, <1>4 DEF Files
<1> QED
  BY <1>2, <1>3, <1>5

\* Every variable keeps its type, and the mutex is held exactly where the code
\* holds it.
THEOREM SpoolTypeOK == Spec => []TypeOK
<1>1. Init => TypeOK
  BY SpoolAssumption DEF Init, TypeOK, Senders, FileType
<1>2. TypeOK /\ [Next]_vars => TypeOK'
  <2> SUFFICES ASSUME TypeOK, [Next]_vars PROVE TypeOK'
    OBVIOUS
  <2> USE SpoolAssumption
  <2>1. ASSUME NEW p \in Senders, Send(p) PROVE TypeOK'
    BY <2>1 DEF Send, Goto, FirstStep, TypeOK, Senders, FileType
  <2>2. ASSUME NEW p \in Senders, RejectOversized(p) PROVE TypeOK'
    BY <2>2 DEF RejectOversized, TypeOK, Senders, FileType, Batches
  <2>3. ASSUME NEW p \in Senders, LockReplay(p) PROVE TypeOK'
    BY <2>3 DEF LockReplay, Goto, TypeOK, Senders, FileType
  <2>4. ASSUME NEW p \in Senders, SpoolFull(p) PROVE TypeOK'
    BY <2>4 DEF SpoolFull, Goto, TypeOK, Senders, FileType
  <2>5. ASSUME NEW p \in Senders, SpoolError(p) PROVE TypeOK'
    BY <2>5, CurrentBatch DEF SpoolError, Return, TypeOK, Senders, FileType
  <2>6. ASSUME NEW p \in Senders, WriteTemporary(p) PROVE TypeOK'
    BY <2>6 DEF WriteTemporary, Goto, TypeOK, Senders, FileType
  <2>7. ASSUME NEW p \in Senders, ReplayFile(p) PROVE TypeOK'
    BY <2>7, FirstFile DEF ReplayFile, Posted, TypeOK, Senders, FileType
  <2>8. ASSUME NEW p \in Senders, ReplayDone(p) PROVE TypeOK'
    BY <2>8 DEF ReplayDone, Goto, TypeOK, Senders, FileType
  <2>9. ASSUME NEW p \in Senders, ReplayFails(p) PROVE TypeOK'
    BY <2>9, FirstFile DEF ReplayFails, NotPosted, AfterFailedReplay, Goto, TypeOK, Senders, FileType
  <2>10. ASSUME NEW p \in Senders, PostSucceeds(p) PROVE TypeOK'
    BY <2>10, CurrentBatch DEF PostSucceeds, Posted, Return, TypeOK, Senders, FileType
  <2>11. ASSUME NEW p \in Senders, PostFails(p) PROVE TypeOK'
    BY <2>11, CurrentBatch DEF PostFails, NotPosted, Goto, TypeOK, Senders, FileType
  <2>12. ASSUME NEW p \in Senders, CheckContext(p) PROVE TypeOK'
    BY <2>12, CurrentBatch DEF CheckContext, Goto, Return, TypeOK, Senders, FileType
  <2>13. ASSUME NEW p \in Senders, WriteFails(p) PROVE TypeOK'
    BY <2>13, CurrentBatch DEF WriteFails, Goto, Return, TypeOK, Senders, FileType
  <2>14. ASSUME NEW p \in Senders, Rename(p) PROVE TypeOK'
    <3>1. spool' \in Seq(FileType)
      BY <2>14, RenamedFiles
    <3> QED
      BY <2>14, <3>1, CurrentBatch DEF Rename, Return, TypeOK, Senders, FileType
  <2>15. ASSUME NEW p \in Senders, Cancel(p) PROVE TypeOK'
    BY <2>15 DEF Cancel, TypeOK, Senders, FileType, history
  <2>16. ASSUME NEW p \in Senders, Restart(p) PROVE TypeOK'
    BY <2>16 DEF Restart, TypeOK, Senders, FileType, history
  <2>17. ASSUME NEW b \in Batches, ArriveLate(b) PROVE TypeOK'
    BY <2>17 DEF ArriveLate, TypeOK, Senders, FileType
  <2>18. CASE Crash
    <3> DEFINE sending == {Current(p) : p \in {q \in Senders : pc[q] # "idle"}}
    <3>1. sending \subseteq FileType
      BY CurrentBatch
    <3>2. Recorded(sending) \subseteq Batches
      BY <3>1, RecordedBatches
    <3>3. dropped' \subseteq Batches
      BY <2>18, <3>2 DEF Crash, TypeOK
    <3>4. /\ crashes < MaxCrashes /\ crashes' = crashes + 1
          /\ pc' = [p \in Senders |-> "idle"] /\ ctx' = [p \in Senders |-> TRUE]
          /\ replayMu' = None
          /\ UNCHANGED <<batch, spool, late, arrived, accepted>>
      BY <2>18, Zenon DEF Crash
    <3> HIDE DEF sending
    <3> QED
      BY <3>3, <3>4 DEF TypeOK, Senders, FileType
  <2>19. CASE UNCHANGED vars
    BY <2>19 DEF vars, history, TypeOK, Senders, FileType
  <2> QED
    BY <2>1, <2>2, <2>3, <2>4, <2>5, <2>6, <2>7, <2>8, <2>9, <2>10, <2>11, <2>12, <2>13,
       <2>14, <2>15, <2>16, <2>17, <2>18, <2>19 DEF Next, Proceed, LockSpool
<1> QED
  BY <1>1, <1>2, PTL DEF Spec

-----------------------------------------------------------------------------
\* A batch that Send returned nil for is at the API or in a file, whatever fails,
\* wherever the process dies and whatever the clock does.
THEOREM AcceptedIsSafe == Spec => []NothingLost
<1>1. Init => NothingLost
  BY DEF Init, NothingLost
<1>2. TypeOK /\ NothingLost /\ [Next]_vars => NothingLost'
  <2> SUFFICES ASSUME TypeOK, NothingLost, [Next]_vars PROVE NothingLost'
    OBVIOUS
  <2>1. ASSUME NEW p \in Senders, ReplayFile(p) PROVE NothingLost'
    <3>1. Files = Files' \cup {Head(spool)} /\ Head(spool) \in FileType
      BY <2>1, RemainingFiles, FirstFile DEF ReplayFile
    <3>2. arrived' = arrived \cup Recorded({Head(spool)}) /\ accepted' = accepted
      BY <2>1 DEF ReplayFile, Posted
    <3>3. accepted \subseteq Batches
      BY DEF TypeOK
    <3> QED
      BY <3>1, <3>2, <3>3, RecordedBatches DEF NothingLost
  <2>2. ASSUME NEW p \in Senders, PostSucceeds(p) PROVE NothingLost'
    BY <2>2 DEF PostSucceeds, Posted, Return, NothingLost, Files
  <2>3. ASSUME NEW p \in Senders, Rename(p) PROVE NothingLost'
    <3>1. Files' = Files \cup {Current(p)} /\ arrived' = arrived
      BY <2>3, RenamedFiles DEF Rename
    <3>2. accepted' = accepted \cup Recorded({Current(p)})
      BY <2>3 DEF Rename, Return
    <3> QED
      BY <3>1, <3>2 DEF NothingLost, Recorded
  <2>4. ASSUME accepted' = accepted, spool' = spool, arrived \subseteq arrived'
        PROVE  NothingLost'
    BY <2>4 DEF NothingLost, Files
  <2>5. ASSUME NEW p \in Senders, Send(p) \/ RejectOversized(p) \/ LockReplay(p) \/ SpoolFull(p)
        PROVE  NothingLost'
    BY <2>4, <2>5 DEF Send, RejectOversized, LockReplay, SpoolFull, Goto
  <2>6. ASSUME NEW p \in Senders, SpoolError(p) \/ WriteTemporary(p) \/ WriteFails(p)
        PROVE  NothingLost'
    BY <2>4, <2>6 DEF SpoolError, WriteTemporary, WriteFails, Goto, Return
  <2>7. ASSUME NEW p \in Senders, ReplayDone(p) \/ ReplayFails(p) \/ PostFails(p) \/ CheckContext(p)
        PROVE  NothingLost'
    BY <2>4, <2>7 DEF ReplayDone, ReplayFails, PostFails, CheckContext, NotPosted, Goto, Return
  <2>8. ASSUME NEW p \in Senders, Cancel(p) \/ Restart(p) PROVE NothingLost'
    BY <2>4, <2>8 DEF Cancel, Restart, history
  <2>9. ASSUME NEW b \in Batches, ArriveLate(b) PROVE NothingLost'
    BY <2>4, <2>9 DEF ArriveLate
  <2>10. CASE Crash
    BY <2>4, <2>10, Zenon DEF Crash
  <2>11. CASE UNCHANGED vars
    BY <2>4, <2>11 DEF vars, history
  <2> QED
    BY <2>1, <2>2, <2>3, <2>5, <2>6, <2>7, <2>8, <2>9, <2>10, <2>11 DEF Next, Proceed, LockSpool
<1> QED
  BY <1>1, <1>2, SpoolTypeOK, PTL DEF Spec

-----------------------------------------------------------------------------
(***************************************************************************)
(* Order.  FirstArrivalsInOrder alone is not inductive: that a batch may   *)
(* arrive rests on where the earlier ones are.                             *)
(***************************************************************************)
\* a file's number is below the batch its sender is sending, or not above the
\* one it sent last
FilesBehind ==
    \A p \in Watchers, n \in 1..MaxBatch :
      <<p, n>> \in Files => n <= batch[p] /\ (pc[p] # "idle" => n < batch[p])

\* what Send was called for is at the API, in a file, given up, or in hand
Accounted ==
    \A p \in Watchers : \A n \in 1..batch[p] :
      \/ <<p, n>> \in arrived \cup dropped \cup Files
      \/ n = batch[p] /\ pc[p] # "idle"

\* the files of a shard are in order
Sorted ==
    \A p \in Watchers : \A n, m \in 1..MaxBatch : \A i, j \in 1..Len(spool) :
      spool[i] = <<p, n>> /\ spool[j] = <<p, m>> /\ i < j => n < m

\* a sender that posts directly has no file of its own
NoFileWhilePosting ==
    \A p \in Watchers, n \in 1..MaxBatch : pc[p] = "post" => <<p, n>> \notin Files

\* everything before batch n of p has arrived or was given up
Preceded(p, n) == \A m \in 1..(n - 1) : <<p, m>> \in arrived \cup dropped

\* ... which holds for whatever has arrived and for whatever may still do so
Ordered ==
    \A p \in Watchers, n \in 1..MaxBatch :
      <<p, n>> \in arrived \cup late => Preceded(p, n)

OrderInv == FilesBehind /\ Accounted /\ Sorted /\ NoFileWhilePosting /\ Ordered

\* The first file may arrive.
LEMMA FirstFilePreceded ==
    ASSUME TypeOK, OrderInv, spool # <<>>,
           NEW p \in Watchers, NEW n \in 1..MaxBatch, Head(spool) = <<p, n>>
    PROVE  Preceded(p, n)
<1>1. /\ Len(spool) \in Nat \ {0} /\ DOMAIN spool = 1..Len(spool) /\ spool[1] = <<p, n>>
  BY DEF TypeOK
<1>2. n <= batch[p] /\ batch[p] \in 0..MaxBatch /\ MaxBatch \in Nat
  BY <1>1, SpoolAssumption DEF OrderInv, FilesBehind, Files, TypeOK, Senders
<1>3. ASSUME NEW m \in 1..(n - 1) PROVE <<p, m>> \in arrived \cup dropped
  <2>1. m \in 1..batch[p] /\ m \in 1..MaxBatch /\ m # batch[p] /\ m < n
    BY <1>2
  <2>2. <<p, m>> \notin Files
    <3> SUFFICES ASSUME NEW j \in 1..Len(spool), spool[j] = <<p, m>> PROVE FALSE
      BY <1>1 DEF Files
    <3>1. CASE j = 1
      BY <1>1, <2>1, <3>1
    <3>2. CASE 1 < j
      BY <1>1, <2>1, <3>2 DEF OrderInv, Sorted
    <3> QED
      BY <3>1, <3>2
  <2> QED
    BY <2>1, <2>2 DEF OrderInv, Accounted
<1> QED
  BY <1>3 DEF Preceded

\* A batch that is posted directly may arrive.
LEMMA PostedPreceded ==
    ASSUME TypeOK, OrderInv, NEW p \in Watchers, pc[p] = "post"
    PROVE  Preceded(p, batch[p])
<1>1. batch[p] \in 0..MaxBatch /\ MaxBatch \in Nat
  BY SpoolAssumption DEF TypeOK, Senders
<1>2. ASSUME NEW m \in 1..(batch[p] - 1) PROVE <<p, m>> \in arrived \cup dropped
  <2>1. m \in 1..batch[p] /\ m \in 1..MaxBatch /\ m # batch[p]
    BY <1>1
  <2> QED
    BY <2>1 DEF OrderInv, Accounted, NoFileWhilePosting
<1> QED
  BY <1>2 DEF Preceded

\* New arrivals and new late requests are the only way to disturb the order.
LEMMA OrderedStep ==
    ASSUME Ordered, arrived \cup dropped \subseteq arrived' \cup dropped',
           \A p \in Watchers, n \in 1..MaxBatch :
             <<p, n>> \in arrived' \cup late' =>
               <<p, n>> \in arrived \cup late \/ Preceded(p, n)
    PROVE  Ordered'
BY DEF Ordered, Preceded

\* A sender moves on inside Send, at most leaving a request behind.
LEMMA OrderMove ==
    ASSUME TypeOK, OrderInv, NEW p \in Senders, NEW l, l \notin {"idle", "post"},
           pc[p] # "idle", pc' = [pc EXCEPT ![p] = l],
           UNCHANGED <<batch, spool, arrived, dropped>>,
           \A q \in Watchers, n \in 1..MaxBatch :
             <<q, n>> \in late' => <<q, n>> \in late \/ Preceded(q, n)
    PROVE  OrderInv'
<1>1. Files' = Files
  BY DEF Files
<1>2. \A q \in Senders : (pc'[q] = "idle" <=> pc[q] = "idle") /\ (pc'[q] = "post" => pc[q] = "post")
  BY DEF TypeOK
<1>3. FilesBehind'
  BY <1>1, <1>2 DEF OrderInv, FilesBehind, Senders
<1>4. Accounted'
  BY <1>1, <1>2 DEF OrderInv, Accounted, Senders
<1>5. Sorted'
  BY DEF OrderInv, Sorted
<1>6. NoFileWhilePosting'
  BY <1>1, <1>2 DEF OrderInv, NoFileWhilePosting, Senders
<1>7. Ordered'
  BY OrderedStep DEF OrderInv
<1> QED
  BY <1>3, <1>4, <1>5, <1>6, <1>7 DEF OrderInv

\* Senders leave Send with an error.
LEMMA OrderGiveUp ==
    ASSUME TypeOK, OrderInv, NEW P \in SUBSET Senders,
           pc' = [q \in Senders |-> IF q \in P THEN "idle" ELSE pc[q]],
           dropped' = dropped \cup Recorded({Current(q) : q \in {r \in P : pc[r] # "idle"}}),
           UNCHANGED <<batch, spool, arrived, late>>
    PROVE  OrderInv'
<1>1. Files' = Files
  BY DEF Files
<1>2. \A q \in Senders : /\ q \notin P => pc'[q] = pc[q]
                         /\ q \in P => pc'[q] = "idle"
  OBVIOUS
<1>3. \A q \in Watchers : q \in P /\ pc[q] # "idle" => <<q, batch[q]>> \in dropped'
  <2> TAKE q \in Watchers
  <2> HAVE q \in P /\ pc[q] # "idle"
  <2>1. Current(q) \in Batches /\ Recorded({Current(q)}) = {Current(q)}
    BY CurrentBatch DEF Senders
  <2>2. Current(q) \in {Current(r) : r \in {r \in P : pc[r] # "idle"}}
    OBVIOUS
  <2>3. Current(q) \in dropped'
    BY <2>1, <2>2, Zenon DEF Recorded
  <2> QED
    BY <2>3 DEF Current
<1>4. dropped \subseteq dropped'
  OBVIOUS
<1>5. FilesBehind'
  BY <1>1, <1>2 DEF OrderInv, FilesBehind, Senders
<1>6. Accounted'
  BY <1>1, <1>2, <1>3, <1>4 DEF OrderInv, Accounted, Senders
<1>7. Sorted'
  BY DEF OrderInv, Sorted
<1>8. NoFileWhilePosting'
  BY <1>1, <1>2 DEF OrderInv, NoFileWhilePosting, Senders
<1>9. Ordered'
  BY <1>4, OrderedStep DEF OrderInv
<1> QED
  BY <1>5, <1>6, <1>7, <1>8, <1>9 DEF OrderInv

\* Send and splitBatch's refusal: the next number.
LEMMA OrderBegin ==
    ASSUME TypeOK, OrderInv, NEW p \in Senders, Send(p) \/ RejectOversized(p)
    PROVE  OrderInv'
<1>1. Files' = Files /\ spool' = spool /\ arrived' = arrived /\ late' = late /\ dropped \subseteq dropped'
  BY DEF Files, Send, RejectOversized, Goto
<1>2. pc[p] = "idle" /\ \A q \in Senders : q # p => pc'[q] = pc[q] /\ batch'[q] = batch[q]
  BY DEF TypeOK, Send, RejectOversized, Goto
<1>3. pc'[p] # "post"
  BY DEF TypeOK, Send, RejectOversized, Goto, FirstStep
<1>4. p \in Watchers => /\ batch'[p] = batch[p] + 1
                        /\ pc'[p] # "idle" \/ <<p, batch'[p]>> \in dropped'
  BY SpoolAssumption DEF TypeOK, Send, RejectOversized, Goto, FirstStep, Senders
<1>5. \A q \in Senders : batch[q] \in Nat
  BY SpoolAssumption DEF TypeOK
<1>6. FilesBehind'
  BY <1>1, <1>2, <1>4, <1>5 DEF OrderInv, FilesBehind, Senders
<1>7. Accounted'
  <2> SUFFICES ASSUME NEW q \in Watchers, NEW n \in 1..batch'[q]
               PROVE  \/ <<q, n>> \in arrived' \cup dropped' \cup Files'
                      \/ n = batch'[q] /\ pc'[q] # "idle"
    BY DEF Accounted
  <2>1. CASE q # p
    BY <1>1, <1>2, <2>1 DEF OrderInv, Accounted, Senders
  <2>2. CASE q = p /\ n = batch'[q]
    BY <1>4, <2>2
  <2>3. CASE q = p /\ n # batch'[q]
    <3>1. n \in 1..batch[q] /\ pc[q] = "idle"
      BY <1>2, <1>4, <1>5, <2>3 DEF Senders
    <3> QED
      BY <1>1, <3>1 DEF OrderInv, Accounted
  <2> QED
    BY <2>1, <2>2, <2>3
<1>8. Sorted'
  BY <1>1 DEF OrderInv, Sorted
<1>9. NoFileWhilePosting'
  BY <1>1, <1>2, <1>3 DEF OrderInv, NoFileWhilePosting, Senders
<1>10. Ordered'
  BY <1>1, OrderedStep DEF OrderInv
<1> QED
  BY <1>6, <1>7, <1>8, <1>9, <1>10 DEF OrderInv

\* A file is posted and removed.
LEMMA OrderReplayFile ==
    ASSUME TypeOK, OrderInv, NEW p \in Senders, ReplayFile(p)
    PROVE  OrderInv'
<1>1. /\ spool # <<>> /\ spool' = Tail(spool) /\ arrived' = arrived \cup Recorded({Head(spool)})
      /\ UNCHANGED <<pc, batch, late, dropped>>
  BY DEF ReplayFile, Posted
<1>2. /\ Files = Files' \cup {Head(spool)} /\ Len(spool') = Len(spool) - 1
      /\ \A j \in 1..(Len(spool) - 1) : spool'[j] = spool[j + 1]
      /\ Len(spool) \in Nat
  BY <1>1, RemainingFiles DEF TypeOK
<1>3. \A q \in Watchers, n \in 1..MaxBatch : <<q, n>> \in Batches
  BY DEF Batches
<1>4. \A q \in Watchers, n \in 1..MaxBatch :
        /\ <<q, n>> = Head(spool) => <<q, n>> \in arrived'
        /\ <<q, n>> \in arrived' => <<q, n>> \in arrived \/ <<q, n>> = Head(spool)
  BY <1>1, <1>3, RecordedBatches DEF Recorded
<1>5. FilesBehind'
  BY <1>1, <1>2 DEF OrderInv, FilesBehind
<1>6. Accounted'
  <2> SUFFICES ASSUME NEW q \in Watchers, NEW n \in 1..batch[q]
               PROVE  \/ <<q, n>> \in arrived' \cup dropped' \cup Files'
                      \/ n = batch[q] /\ pc[q] # "idle"
    BY <1>1 DEF Accounted
  <2>1. n \in 1..MaxBatch
    <3>1. batch[q] \in 0..MaxBatch
      BY DEF TypeOK, Senders
    <3> QED
      BY <3>1, SpoolAssumption
  <2>2. <<q, n>> \in arrived \cup dropped \cup Files \/ (n = batch[q] /\ pc[q] # "idle")
    BY DEF OrderInv, Accounted
  <2>3. arrived \subseteq arrived' /\ dropped' = dropped
    BY <1>1
  <2>4. <<q, n>> \in Files => <<q, n>> \in Files' \/ <<q, n>> \in arrived'
    BY <1>2, <1>4, <2>1, Zenon
  <2> QED
    BY <2>2, <2>3, <2>4, Zenon
<1>7. Sorted'
  <2> SUFFICES ASSUME NEW q \in Watchers, NEW n \in 1..MaxBatch, NEW m \in 1..MaxBatch,
                      NEW i \in 1..Len(spool'), NEW j \in 1..Len(spool'),
                      spool'[i] = <<q, n>>, spool'[j] = <<q, m>>, i < j
               PROVE  n < m
    BY DEF Sorted
  <2>1. /\ i + 1 \in 1..Len(spool) /\ j + 1 \in 1..Len(spool) /\ i + 1 < j + 1
        /\ spool[i + 1] = <<q, n>> /\ spool[j + 1] = <<q, m>>
    BY <1>2
  <2> QED
    BY <2>1 DEF OrderInv, Sorted
<1>8. NoFileWhilePosting'
  BY <1>1, <1>2 DEF OrderInv, NoFileWhilePosting
<1>9. Ordered'
  BY <1>1, <1>4, FirstFilePreceded, OrderedStep DEF OrderInv
<1> QED
  BY <1>5, <1>6, <1>7, <1>8, <1>9 DEF OrderInv

\* A batch is posted directly.
LEMMA OrderPostSucceeds ==
    ASSUME TypeOK, OrderInv, NEW p \in Senders, PostSucceeds(p)
    PROVE  OrderInv'
<1>1. /\ pc[p] = "post" /\ arrived' = arrived \cup Recorded({Current(p)})
      /\ UNCHANGED <<batch, spool, late, dropped>>
      /\ \A q \in Senders : pc'[q] = IF q = p THEN "idle" ELSE pc[q]
  BY DEF PostSucceeds, Posted, Return, TypeOK
<1>2. Files' = Files
  BY <1>1 DEF Files
<1>3. p \in Watchers => <<p, batch[p]>> \in arrived'
  BY <1>1, CurrentBatch DEF Current
<1>4. \A q \in Watchers, n \in 1..MaxBatch :
        <<q, n>> \in arrived' => <<q, n>> \in arrived \/ (q = p /\ n = batch[p])
  BY <1>1 DEF Recorded, Current
<1>5. FilesBehind'
  BY <1>1, <1>2 DEF OrderInv, FilesBehind, Senders
<1>6. Accounted'
  BY <1>1, <1>2, <1>3 DEF OrderInv, Accounted, Senders
<1>7. Sorted'
  BY <1>1 DEF OrderInv, Sorted
<1>8. NoFileWhilePosting'
  BY <1>1, <1>2 DEF OrderInv, NoFileWhilePosting, Senders
<1>9. Ordered'
  BY <1>1, <1>4, PostedPreceded, OrderedStep DEF OrderInv
<1> QED
  BY <1>5, <1>6, <1>7, <1>8, <1>9 DEF OrderInv

\* A batch is spooled behind the others.
LEMMA OrderRename ==
    ASSUME TypeOK, OrderInv, ~ClockSteps, NEW p \in Senders, Rename(p)
    PROVE  OrderInv'
<1>1. /\ pc[p] = "writing" /\ UNCHANGED <<batch, late, arrived, dropped>>
      /\ \A q \in Senders : pc'[q] = IF q = p THEN "idle" ELSE pc[q]
  BY DEF Rename, Return, TypeOK
<1>2. /\ Files' = Files \cup {Current(p)}
      /\ Len(spool') = Len(spool) + 1
      /\ \A j \in 1..Len(spool) : spool'[j] = spool[j]
      /\ spool'[Len(spool) + 1] = Current(p)
  BY RenamedFiles, Zenon
<1>3. /\ Len(spool) \in Nat /\ DOMAIN spool = 1..Len(spool)
      /\ \A q \in Senders : batch[q] \in Nat
  BY SpoolAssumption DEF TypeOK
<1>4. \A q \in Watchers, n \in 1..MaxBatch : <<q, n>> = Current(p) => q = p /\ n = batch[p]
  BY DEF Current
<1>5. FilesBehind'
  BY <1>1, <1>2, <1>3, <1>4 DEF OrderInv, FilesBehind, Senders
<1>6. Accounted'
  BY <1>1, <1>2 DEF OrderInv, Accounted, Senders, Current
<1>7. Sorted'
  <2> SUFFICES ASSUME NEW q \in Watchers, NEW n \in 1..MaxBatch, NEW m \in 1..MaxBatch,
                      NEW i \in 1..Len(spool'), NEW j \in 1..Len(spool'),
                      spool'[i] = <<q, n>>, spool'[j] = <<q, m>>, i < j
               PROVE  n < m
    BY DEF Sorted
  <2>1. i \in 1..Len(spool) /\ spool[i] = <<q, n>>
    BY <1>2, <1>3
  <2>2. CASE j \in 1..Len(spool)
    BY <1>2, <2>1, <2>2 DEF OrderInv, Sorted
  <2>3. CASE j = Len(spool) + 1
    <3>1. q = p /\ m = batch[p]
      BY <1>2, <1>4, <2>3
    <3>2. <<q, n>> \in Files
      BY <1>3, <2>1 DEF Files
    <3> QED
      BY <1>1, <3>1, <3>2 DEF OrderInv, FilesBehind
  <2> QED
    BY <1>2, <1>3, <2>2, <2>3
<1>8. NoFileWhilePosting'
  BY <1>1, <1>2, <1>4 DEF OrderInv, NoFileWhilePosting, Senders
<1>9. Ordered'
  BY <1>1, OrderedStep DEF OrderInv
<1> QED
  BY <1>5, <1>6, <1>7, <1>8, <1>9 DEF OrderInv

\* A replay that finds no file lets the batch be posted.
LEMMA OrderReplayDone ==
    ASSUME TypeOK, OrderInv, NEW p \in Senders, ReplayDone(p)
    PROVE  OrderInv'
<1>1. /\ pc[p] # "idle" /\ UNCHANGED <<batch, spool, late, arrived, dropped>>
      /\ \A q \in Senders : pc'[q] = IF q = p THEN "post" ELSE pc[q]
  BY DEF ReplayDone, Goto, TypeOK
<1>2. Files' = Files /\ Files = {}
  BY <1>1 DEF Files, ReplayDone
<1>3. FilesBehind' /\ NoFileWhilePosting'
  BY <1>2 DEF FilesBehind, NoFileWhilePosting
<1>4. Accounted'
  BY <1>1, <1>2 DEF OrderInv, Accounted, Senders
<1>5. Sorted'
  BY <1>1 DEF OrderInv, Sorted
<1>6. Ordered'
  BY <1>1, OrderedStep DEF OrderInv
<1> QED
  BY <1>3, <1>4, <1>5, <1>6 DEF OrderInv

\* A late request arrives, or nothing the invariant looks at changes.
LEMMA OrderLate ==
    ASSUME OrderInv, UNCHANGED <<pc, batch, spool, dropped>>,
           arrived \subseteq arrived', arrived' \cup late' \subseteq arrived \cup late
    PROVE  OrderInv'
<1>1. Files' = Files
  BY DEF Files
<1>2. FilesBehind' /\ Accounted' /\ Sorted' /\ NoFileWhilePosting'
  BY <1>1 DEF OrderInv, FilesBehind, Accounted, Sorted, NoFileWhilePosting
<1>3. Ordered'
  BY OrderedStep DEF OrderInv
<1> QED
  BY <1>2, <1>3 DEF OrderInv

\* A failed post leaves only requests behind that may arrive.
LEMMA OrderNotPosted ==
    ASSUME TypeOK, OrderInv, NEW b, NotPosted(b),
           \A q \in Watchers, n \in 1..MaxBatch : b = <<q, n>> => Preceded(q, n)
    PROVE  \A q \in Watchers, n \in 1..MaxBatch :
             <<q, n>> \in late' => <<q, n>> \in late \/ Preceded(q, n)
BY DEF NotPosted, Recorded

\* Every step keeps the order.
LEMMA OrderStep ==
    ASSUME TypeOK, OrderInv, ~ClockSteps, [Next]_vars
    PROVE  OrderInv'
<1>1. ASSUME NEW p \in Senders, LockReplay(p) \/ SpoolFull(p) \/ WriteTemporary(p)
      PROVE  OrderInv'
  BY <1>1, OrderMove DEF LockReplay, SpoolFull, WriteTemporary, Goto
<1>2. ASSUME NEW p \in Senders, ReplayFails(p) PROVE OrderInv'
  <2>1. \A q \in Watchers, n \in 1..MaxBatch :
          <<q, n>> \in late' => <<q, n>> \in late \/ Preceded(q, n)
    <3>1. CASE spool = <<>>
      BY <1>2, <3>1 DEF ReplayFails
    <3>2. CASE spool # <<>>
      BY <1>2, <3>2, OrderNotPosted, FirstFilePreceded DEF ReplayFails
    <3> QED
      BY <3>1, <3>2
  <2>2. /\ pc[p] # "idle" /\ pc' = [pc EXCEPT ![p] = "spool"]
        /\ UNCHANGED <<batch, spool, arrived, dropped>>
    BY <1>2 DEF ReplayFails, AfterFailedReplay, Goto, NotPosted
  <2> QED
    BY <2>1, <2>2, OrderMove
<1>3. ASSUME NEW p \in Senders, PostFails(p) PROVE OrderInv'
  <2>1. \A q \in Watchers, n \in 1..MaxBatch : Current(p) = <<q, n>> => Preceded(q, n)
    BY <1>3, PostedPreceded DEF PostFails, Current
  <2>2. \A q \in Watchers, n \in 1..MaxBatch :
          <<q, n>> \in late' => <<q, n>> \in late \/ Preceded(q, n)
    BY <1>3, <2>1, OrderNotPosted DEF PostFails
  <2>3. /\ pc[p] # "idle" /\ pc' = [pc EXCEPT ![p] = "spool"]
        /\ UNCHANGED <<batch, spool, arrived, dropped>>
    BY <1>3 DEF PostFails, Goto, NotPosted
  <2> QED
    BY <2>2, <2>3, OrderMove
<1>4. ASSUME NEW p \in Senders, pc[p] # "idle", Return(p, FALSE),
             UNCHANGED <<batch, spool, arrived, late>>
      PROVE  OrderInv'
  <2>1. pc' = [q \in Senders |-> IF q \in {p} THEN "idle" ELSE pc[q]]
    BY <1>4 DEF Return, TypeOK
  <2>2. {Current(q) : q \in {r \in {p} : pc[r] # "idle"}} = {Current(p)}
    BY <1>4
  <2>3. dropped' = dropped \cup Recorded({Current(q) : q \in {r \in {p} : pc[r] # "idle"}})
    BY <1>4, <2>2 DEF Return
  <2> QED
    BY <1>4, <2>1, <2>3, OrderGiveUp
<1>5. ASSUME NEW p \in Senders, SpoolError(p) PROVE OrderInv'
  BY <1>4, <1>5 DEF SpoolError
<1>6. ASSUME NEW p \in Senders, CheckContext(p) PROVE OrderInv'
  <2>1. CASE Goto(p, "lock")
    BY <1>6, <2>1, OrderMove DEF CheckContext, Goto
  <2>2. CASE Return(p, FALSE)
    BY <1>4, <1>6, <2>2 DEF CheckContext
  <2> QED
    BY <1>6, <2>1, <2>2 DEF CheckContext
<1>7. ASSUME NEW p \in Senders, WriteFails(p) PROVE OrderInv'
  <2>1. CASE Goto(p, "replay")
    BY <1>7, <2>1, OrderMove DEF WriteFails, Goto
  <2>2. CASE Return(p, FALSE)
    BY <1>4, <1>7, <2>2 DEF WriteFails
  <2> QED
    BY <1>7, <2>1, <2>2 DEF WriteFails
<1>8. CASE Crash
  <2>1. pc' = [q \in Senders |-> IF q \in Senders THEN "idle" ELSE pc[q]]
    BY <1>8 DEF Crash
  <2>2. /\ dropped' = dropped \cup Recorded({Current(q) : q \in {r \in Senders : pc[r] # "idle"}})
        /\ UNCHANGED <<batch, spool, arrived, late>>
    BY <1>8, Zenon DEF Crash
  <2> QED
    BY <2>1, <2>2, OrderGiveUp
<1>9. ASSUME NEW b \in Batches, ArriveLate(b) PROVE OrderInv'
  BY <1>9, OrderLate DEF ArriveLate
<1>10. ASSUME NEW p \in Senders, Cancel(p) \/ Restart(p) PROVE OrderInv'
  BY <1>10, OrderLate DEF Cancel, Restart, history
<1>11. CASE UNCHANGED vars
  BY <1>11, OrderLate DEF vars, history
<1> QED
  BY <1>1, <1>2, <1>3, <1>5, <1>6, <1>7, <1>8, <1>9, <1>10, <1>11, OrderBegin, OrderReplayFile,
     OrderReplayDone, OrderPostSucceeds, OrderRename DEF Next, Proceed, LockSpool

\* As long as the wall clock does not step back, the API never stores a batch of a
\* shard for the first time before an earlier one that was not given up.
THEOREM ArrivalOrder ==
    ASSUME ~ClockSteps
    PROVE  Spec => []FirstArrivalsInOrder
<1>1. Init => OrderInv
  <2> SUFFICES ASSUME Init PROVE OrderInv
    OBVIOUS
  <2>1. Files = {} /\ \A p \in Watchers : 1..batch[p] = {}
    BY DEF Init, Files, Senders
  <2> QED
    BY <2>1 DEF Init, OrderInv, FilesBehind, Accounted, Sorted, NoFileWhilePosting, Ordered
<1>2. TypeOK /\ OrderInv /\ [Next]_vars => OrderInv'
  BY OrderStep
<1>3. OrderInv => FirstArrivalsInOrder
  BY SpoolAssumption DEF OrderInv, Ordered, Preceded, FirstArrivalsInOrder
<1> QED
  BY <1>1, <1>2, <1>3, SpoolTypeOK, PTL DEF Spec

-----------------------------------------------------------------------------
\* Every set of numbers has a least element.
LEMMA LeastNumber ==
    ASSUME NEW T \in SUBSET Nat, T # {}
    PROVE  \E x \in T : \A y \in T : x <= y
<1> DEFINE less == OpToRel(<, Nat)
<1>1. \A x, y \in Nat : x < y => <<x, y>> \in less
  BY DEF OpToRel
<1>2. IsWellFoundedOn(less, Nat)
  BY NatLessThanWellFounded, Zenon
<1> HIDE DEF less
<1>3. PICK x \in T : \A y \in T : <<y, x>> \notin less
  BY <1>2, WFMin, Zenon
<1>4. \A y \in T : y \in Nat /\ x \in Nat /\ ~(y < x)
  BY <1>1, <1>3
<1> QED
  BY <1>4

\* Induction up to n: a set with 0 that has the successors of its elements has all.
LEMMA UpTo ==
    ASSUME NEW n \in Nat, NEW S, 0 \in S, \A i \in 0..(n - 1) : i \in S => i + 1 \in S
    PROVE  \A i \in 0..n : i \in S
<1> DEFINE T == (0..n) \ S
<1> SUFFICES ASSUME T # {} PROVE FALSE
  OBVIOUS
<1>0. T \in SUBSET Nat
  OBVIOUS
<1> HIDE DEF T
<1>1. PICK x \in T : \A y \in T : x <= y
  BY <1>0, LeastNumber
<1> USE DEF T
<1>2. x # 0 /\ x \in 0..n /\ x - 1 \in 0..(n - 1) /\ x - 1 \notin T
  BY <1>1
<1> QED
  BY <1>1, <1>2

\* Up to n, u is the sum of the sizes of the files before.
Sums(u, f, n) == u = [i \in 0..n |-> IF i = 0 THEN 0 ELSE u[i - 1] + Size[f[i][1]]]

\* Every spooled file, heartbeats included, has a size.
LEMMA FileSize == \A b \in FileType : Size[b[1]] \in Nat
BY SpoolAssumption DEF FileType, Batches, Beat, Senders

\* spoolUsage is the last of the partial sums.
LEMMA UsageSums ==
    ASSUME NEW f \in Seq(FileType)
    PROVE  \E u \in [0..Len(f) -> Nat] :
             /\ u[0] = 0
             /\ \A i \in 1..Len(f) : u[i] = u[i - 1] + Size[f[i][1]]
             /\ Usage(f) = u[Len(f)]
<1>1. Len(f) \in Nat /\ \A i \in 1..Len(f) : Size[f[i][1]] \in Nat
  BY FileSize, LenProperties, ElementOfSeq
<1>2. \E u : Sums(u, f, Len(f))
  <2> DEFINE S == {n \in Nat : \E u : Sums(u, f, n)}
  <2>1. 0 \in S
    <3>1. Sums([i \in 0..0 |-> 0], f, 0)
      BY DEF Sums
    <3> QED
      BY <3>1
  <2>2. ASSUME NEW n \in 0..(Len(f) - 1), n \in S PROVE n + 1 \in S
    <3>1. PICK u : Sums(u, f, n)
      BY <2>2
    <3> DEFINE v == [i \in 0..(n + 1) |-> IF i = n + 1 THEN u[n] + Size[f[n + 1][1]] ELSE u[i]]
    <3>2. \A i \in 0..(n + 1) : v[i] = IF i = 0 THEN 0 ELSE v[i - 1] + Size[f[i][1]]
      BY <3>1 DEF Sums
    <3>3. Sums(v, f, n + 1)
      BY <3>2 DEF Sums
    <3> QED
      BY <2>2, <3>3
  <2> HIDE DEF S
  <2>3. \A n \in 0..Len(f) : n \in S
    BY <1>1, <2>1, <2>2, UpTo
  <2>4. Len(f) \in S
    BY <1>1, <2>3
  <2> QED
    BY <2>4 DEF S
<1>3. PICK u : Sums(u, f, Len(f)) /\ Usage(f) = u[Len(f)]
  <2> DEFINE u == CHOOSE v : Sums(v, f, Len(f))
  <2>1. Sums(u, f, Len(f))
    BY <1>2, Zenon
  <2>2. Usage(f) = u[Len(f)]
    BY DEF Usage, Sums
  <2> HIDE DEF u
  <2> QED
    BY <2>1, <2>2, Zenon
<1>4. u[0] = 0 /\ \A i \in 1..Len(f) : u[i] = u[i - 1] + Size[f[i][1]]
  BY <1>1, <1>3 DEF Sums
<1>5. \A i \in 0..Len(f) : u[i] \in Nat
  <2> DEFINE S == {i \in 0..Len(f) : u[i] \in Nat}
  <2>1. 0 \in S
    BY <1>1, <1>4
  <2>2. ASSUME NEW i \in 0..(Len(f) - 1), i \in S PROVE i + 1 \in S
    <3>1. i + 1 \in 1..Len(f) /\ i + 1 \in 0..Len(f) /\ (i + 1) - 1 = i
      BY <1>1
    <3>2. u[i + 1] = u[i] + Size[f[i + 1][1]] /\ Size[f[i + 1][1]] \in Nat
      BY <1>1, <1>4, <3>1
    <3> QED
      BY <2>2, <3>1, <3>2
  <2> HIDE DEF S
  <2>3. \A i \in 0..Len(f) : i \in S
    BY <1>1, <2>1, <2>2, UpTo
  <2> QED
    BY <2>3 DEF S
<1>6. u \in [0..Len(f) -> Nat]
  BY <1>3, <1>5, Zenon DEF Sums
<1> QED
  BY <1>3, <1>4, <1>6, Zenon

\* spoolUsage is a number of bytes.
LEMMA UsageType == \A f \in Seq(FileType) : Usage(f) \in Nat
<1> SUFFICES ASSUME NEW f \in Seq(FileType) PROVE Usage(f) \in Nat
  OBVIOUS
<1>1. PICK u \in [0..Len(f) -> Nat] : Usage(f) = u[Len(f)]
  BY UsageSums
<1> QED
  BY <1>1, LenProperties

\* An empty directory uses no bytes.
LEMMA UsageEmpty == Usage(<<>>) = 0
BY UsageSums, EmptySeq

\* A summand put between the k-th and the next adds to the sum of all.
LEMMA Displaced ==
    ASSUME NEW n \in Nat, NEW k \in 0..n, NEW c \in Nat, NEW x \in [1..n -> Nat],
           NEW u \in [0..n -> Nat], NEW v \in [0..(n + 1) -> Nat],
           u[0] = 0, v[0] = 0, v[k + 1] = v[k] + c,
           \A i \in 1..n : u[i] = u[i - 1] + x[i],
           \A i \in 1..k : v[i] = v[i - 1] + x[i],
           \A i \in (k + 1)..n : v[i + 1] = v[i] + x[i]
    PROVE  v[n + 1] = u[n] + c
<1>1. \A i \in 0..k : v[i] = u[i]
  <2> DEFINE S == {i \in 0..k : v[i] = u[i]}
  <2>1. 0 \in S /\ k \in Nat
    OBVIOUS
  <2>2. ASSUME NEW i \in 0..(k - 1), i \in S PROVE i + 1 \in S
    <3>1. i + 1 \in 1..k /\ i + 1 \in 1..n /\ (i + 1) - 1 = i /\ i + 1 \in 0..k
      OBVIOUS
    <3>2. v[i + 1] = v[i] + x[i + 1] /\ u[i + 1] = u[i] + x[i + 1]
      BY <3>1
    <3> QED
      BY <2>2, <3>1, <3>2
  <2> HIDE DEF S
  <2>3. \A i \in 0..k : i \in S
    BY <2>1, <2>2, UpTo
  <2> QED
    BY <2>3 DEF S
<1>2. \A i \in 0..n : k <= i => v[i + 1] = u[i] + c
  <2> DEFINE S == {i \in 0..n : k <= i => v[i + 1] = u[i] + c}
  <2>1. 0 \in S
    BY <1>1
  <2>2. ASSUME NEW i \in 0..(n - 1), i \in S PROVE i + 1 \in S
    <3>1. i + 1 \in 1..n /\ (i + 1) - 1 = i /\ i + 1 \in 0..n /\ i \in 0..n /\ i + 1 \in 0..(n + 1)
      OBVIOUS
    <3>2. u[i + 1] = u[i] + x[i + 1] /\ u[i] \in Nat /\ x[i + 1] \in Nat
      BY <3>1
    <3>3. CASE k < i + 1
      <4>1. v[i + 1] = u[i] + c /\ v[(i + 1) + 1] = v[i + 1] + x[i + 1]
        BY <2>2, <3>1, <3>3
      <4> QED
        BY <3>1, <3>2, <4>1
    <3>4. CASE k = i + 1
      BY <1>1, <3>1, <3>4
    <3>5. CASE k > i + 1
      BY <3>1, <3>5
    <3> QED
      BY <3>3, <3>4, <3>5
  <2> HIDE DEF S
  <2>3. \A i \in 0..n : i \in S
    BY <2>1, <2>2, UpTo
  <2> QED
    BY <2>3 DEF S
<1> QED
  BY <1>2

\* A spooled file adds its size, wherever its name puts it.
LEMMA UsageInserted ==
    ASSUME NEW f \in Seq(FileType), NEW k \in 0..Len(f), NEW b \in FileType
    PROVE  Usage(Inserted(f, k, b)) = Usage(f) + Size[b[1]]
<1>1. PICK n \in Nat : n = Len(f)
  BY LenProperties
<1>2. PICK u \in [0..n -> Nat] :
         u[0] = 0 /\ (\A i \in 1..n : u[i] = u[i - 1] + Size[f[i][1]]) /\ Usage(f) = u[n]
  BY <1>1, UsageSums
<1>3. PICK g : g = Inserted(f, k, b)
  OBVIOUS
<1>4. g \in Seq(FileType) /\ Len(g) = n + 1
  BY <1>1, <1>3, InsertedFiles
<1>5. \A i \in 1..(n + 1) :
         g[i] = IF i <= k THEN f[i] ELSE IF i = k + 1 THEN b ELSE f[i - 1]
  BY <1>1, <1>3 DEF Inserted
<1>6. PICK v \in [0..(n + 1) -> Nat] :
         /\ v[0] = 0 /\ Usage(g) = v[n + 1]
         /\ \A i \in 1..(n + 1) : v[i] = v[i - 1] + Size[g[i][1]]
  BY <1>4, UsageSums
<1> DEFINE x == [i \in 1..n |-> Size[f[i][1]]]
<1>7. Size[b[1]] \in Nat /\ x \in [1..n -> Nat]
  BY <1>1, FileSize, ElementOfSeq
<1>8. \A i \in 1..n : u[i] = u[i - 1] + x[i]
  BY <1>2
<1>9. ASSUME NEW i \in 1..k PROVE v[i] = v[i - 1] + x[i]
  <2>1. i \in 1..(n + 1) /\ i \in 1..n /\ i <= k
    BY <1>1
  <2>2. g[i] = f[i] /\ v[i] = v[i - 1] + Size[g[i][1]]
    BY <1>5, <1>6, <2>1
  <2> QED
    BY <2>1, <2>2
<1>10. v[k + 1] = v[k] + Size[b[1]]
  <2>1. k + 1 \in 1..(n + 1) /\ ~(k + 1 <= k) /\ (k + 1) - 1 = k
    BY <1>1
  <2> QED
    BY <1>5, <1>6, <2>1
<1>11. ASSUME NEW i \in (k + 1)..n PROVE v[i + 1] = v[i] + x[i]
  <2>1. i + 1 \in 1..(n + 1) /\ i \in 1..n /\ (i + 1) - 1 = i /\ ~(i + 1 <= k) /\ i + 1 # k + 1
    BY <1>1
  <2>2. g[i + 1] = f[i] /\ v[i + 1] = v[i] + Size[g[i + 1][1]]
    BY <1>5, <1>6, <2>1
  <2> QED
    BY <2>1, <2>2
<1> HIDE DEF x
<1>12. u[0] = 0 /\ v[0] = 0 /\ k \in 0..n
  BY <1>1, <1>2, <1>6
<1>13. v[n + 1] = u[n] + Size[b[1]]
  BY <1>7, <1>8, <1>9, <1>10, <1>11, <1>12, Displaced, Zenon
<1> QED
  BY <1>2, <1>3, <1>6, <1>13

\* A replayed file gives its size back.
LEMMA UsageTail ==
    ASSUME NEW f \in Seq(FileType), f # <<>>
    PROVE  Usage(f) = Usage(Tail(f)) + Size[Head(f)[1]]
<1>1. PICK g : g = Tail(f)
  OBVIOUS
<1>2. /\ g \in Seq(FileType) /\ Len(f) \in Nat \ {0} /\ Len(g) = Len(f) - 1
      /\ \A i \in 1..Len(g) : g[i] = f[i + 1]
      /\ Head(f) = f[1] /\ f[1] \in FileType
  BY <1>1
<1>3. /\ Inserted(g, 0, f[1]) \in Seq(FileType) /\ Len(Inserted(g, 0, f[1])) = Len(f)
      /\ Usage(Inserted(g, 0, f[1])) = Usage(g) + Size[f[1][1]]
  <2>1. 0 \in 0..Len(g) /\ Len(g) + 1 = Len(f)
    BY <1>2
  <2> QED
    BY <1>2, <2>1, InsertedFiles, UsageInserted, Zenon
<1>4. \A i \in 1..Len(f) : Inserted(g, 0, f[1])[i] = f[i]
  BY <1>2 DEF Inserted
<1>5. Inserted(g, 0, f[1]) = f
  BY <1>2, <1>3, <1>4, SeqEqual
<1> QED
  BY <1>1, <1>2, <1>3, <1>5

\* A temporary file is written only for a batch that fits, and nobody else changes
\* the counter meanwhile.
WritersFit == \A p \in Senders : pc[p] = "writing" => Fits(p)

CapacityInv == SpoolAccounted /\ WritersFit

\* Steps that leave the files alone and begin no write.
LEMMA CapacityKept ==
    ASSUME CapacityInv, UNCHANGED <<spool, spoolBytes>>,
           \A q \in Senders : pc'[q] = "writing" => pc[q] = "writing"
    PROVE  CapacityInv'
BY DEF CapacityInv, SpoolAccounted, WritersFit, Fits

\* Whoever holds the lock is alone with the counter.
LEMMA OneWriter ==
    ASSUME TypeOK, NEW p \in Senders, replayMu = p \/ replayMu = None,
           NEW q \in Senders, pc[q] = "writing"
    PROVE  q = p
BY SpoolAssumption DEF TypeOK

\* Every step keeps the counter exact and within the capacity.
LEMMA CapacityStep ==
    ASSUME TypeOK, CapacityInv, [Next]_vars
    PROVE  CapacityInv'
<1>1. spool \in Seq(FileType) /\ Usage(spool) \in Nat /\ spoolBytes = Usage(spool)
  BY UsageType DEF TypeOK, FileType, CapacityInv, SpoolAccounted
<1>2. \A q \in Senders : Size[q] \in Nat
  BY SpoolAssumption
<1>3. ASSUME NEW p \in Senders, ReplayFile(p) PROVE CapacityInv'
  <2>1. /\ spool # <<>> /\ spool' = Tail(spool) /\ pc' = pc /\ pc[p] = "replaying"
        /\ spoolBytes' = spoolBytes - Size[Head(spool)[1]]
    BY <1>3 DEF ReplayFile, Released
  <2>2. /\ Usage(spool) = Usage(Tail(spool)) + Size[Head(spool)[1]]
        /\ Usage(Tail(spool)) \in Nat /\ Size[Head(spool)[1]] \in Nat
    <3>1. Head(spool) \in FileType /\ Tail(spool) \in Seq(FileType)
      BY <2>1, FirstFile, Zenon
    <3>2. Usage(Tail(spool)) \in Nat /\ Size[Head(spool)[1]] \in Nat
      BY <3>1, UsageType, FileSize, Zenon
    <3> QED
      BY <1>1, <2>1, <3>2, UsageTail, Zenon
  <2>3. SpoolAccounted'
    BY <1>1, <2>1, <2>2, SpoolAssumption DEF CapacityInv, SpoolAccounted
  <2>4. \A q \in Senders : pc[q] # "writing"
    BY <2>1, OneWriter DEF TypeOK
  <2> QED
    BY <2>1, <2>3, <2>4 DEF CapacityInv, WritersFit
<1>4. ASSUME NEW p \in Senders, Rename(p) PROVE CapacityInv'
  <2>1. PICK i \in Positions : spool' = Inserted(spool, i, Current(p))
    BY <1>4 DEF Rename
  <2>2. i \in 0..Len(spool) /\ Len(spool) \in Nat
    <3>1. Positions = 0..Len(spool) \/ Positions = {Len(spool)}
      BY Zenon DEF Positions
    <3> QED
      BY <1>1, <2>1, <3>1, LenProperties
  <2>3. Current(p) \in FileType /\ Current(p)[1] = p
    BY <1>4, CurrentBatch DEF Rename, Current
  <2>4. Usage(spool') = Usage(spool) + Size[p]
    BY <1>1, <2>1, <2>2, <2>3, UsageInserted
  <2>5. spoolBytes' = spoolBytes + Size[p] /\ pc[p] = "writing" /\ pc' = [pc EXCEPT ![p] = "idle"]
    BY <1>4 DEF Rename, Return
  <2>6. SpoolAccounted'
    BY <1>1, <2>4, <2>5 DEF CapacityInv, SpoolAccounted, WritersFit, Fits
  <2>7. \A q \in Senders : pc'[q] # "writing"
    BY <2>5, OneWriter DEF TypeOK
  <2> QED
    BY <2>6, <2>7 DEF CapacityInv, WritersFit
<1>5. ASSUME NEW p \in Senders, WriteTemporary(p) PROVE CapacityInv'
  BY <1>5, OneWriter DEF WriteTemporary, Goto, CapacityInv, SpoolAccounted, WritersFit, Fits, TypeOK
<1>6. CASE Crash
  <2>1. /\ spool' = spool /\ spoolBytes' = Usage(spool)
        /\ \A q \in Senders : pc'[q] = "idle"
    BY <1>6, Zenon DEF Crash
  <2> QED
    BY <1>1, <2>1 DEF CapacityInv, SpoolAccounted, WritersFit
<1>7. ASSUME NEW p \in Senders,
             Send(p) \/ RejectOversized(p) \/ LockReplay(p) \/ SpoolFull(p) \/ SpoolError(p)
      PROVE  CapacityInv'
  BY <1>7, CapacityKept
  DEF Send, RejectOversized, LockReplay, SpoolFull, SpoolError, Goto, Return, FirstStep, TypeOK
<1>8. ASSUME NEW p \in Senders,
             ReplayDone(p) \/ ReplayFails(p) \/ PostSucceeds(p) \/ PostFails(p) \/ CheckContext(p)
             \/ WriteFails(p)
      PROVE  CapacityInv'
  BY <1>8, CapacityKept
  DEF ReplayDone, ReplayFails, AfterFailedReplay, PostSucceeds, PostFails, CheckContext,
      WriteFails, Goto, Return, TypeOK
<1>9. ASSUME NEW p \in Senders, Cancel(p) \/ Restart(p) PROVE CapacityInv'
  BY <1>9, CapacityKept DEF Cancel, Restart
<1>10. ASSUME NEW b \in Batches, ArriveLate(b) PROVE CapacityInv'
  BY <1>10, CapacityKept DEF ArriveLate
<1>11. CASE UNCHANGED vars
  BY <1>11, CapacityKept DEF vars
<1> QED
  BY <1>3, <1>4, <1>5, <1>6, <1>7, <1>8, <1>9, <1>10, <1>11 DEF Next, Proceed, LockSpool

\* The byte counter is the size of the files, through every failed write, restart and
\* replay, and it never exceeds the capacity: what is checked before the temporary file
\* is written still holds at the rename.
THEOREM CapacityHolds == Spec => []SpoolAccounted
<1>1. Init => CapacityInv
  BY UsageEmpty, SpoolAssumption DEF Init, CapacityInv, SpoolAccounted, WritersFit
<1>2. TypeOK /\ CapacityInv /\ [Next]_vars => CapacityInv'
  BY CapacityStep
<1>3. CapacityInv => SpoolAccounted
  BY DEF CapacityInv
<1> QED
  BY <1>1, <1>2, <1>3, SpoolTypeOK, PTL DEF Spec
=============================================================================
