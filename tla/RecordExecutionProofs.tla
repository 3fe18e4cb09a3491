----------------------- MODULE RecordExecutionProofs -----------------------
(***************************************************************************)
(* Proofs about RecordExecution, for every number of coordinates, sessions *)
(* and every mix of window and batch sizes.                                *)
(***************************************************************************)
EXTENDS RecordExecution, WellFoundedInduction, TLAPS

(* The first unfulfilled ordinal is what its definition says.              *)
LEMMA FirstExists ==
  ASSUME NEW r \in SUBSET Ordinals
  PROVE  /\ First(r) \in 1..(N + 1)
         /\ First(r) \notin r
         /\ \A i \in Ordinals : i < First(r) => i \in r
         /\ \A i \in Ordinals : i \notin r => First(r) <= i
<1> DEFINE S == (1..(N + 1)) \ r
<1> USE RecordExecutionAssumption
<1>1. S \in SUBSET Nat
  OBVIOUS
<1>2. N + 1 \in S
  BY DEF Ordinals
<1>3. IsWellFoundedOn(OpToRel(<, Nat), Nat)
  BY NatLessThanWellFounded
<1>4. PICK m \in S : \A k \in S : ~ (<<k, m>> \in OpToRel(<, Nat))
  BY <1>1, <1>2, <1>3, WFMin
<1>5. \A k \in S : ~ (k < m)
  BY <1>1, <1>4 DEF OpToRel
<1>6. m \in 1..(N + 1) /\ m \notin r /\ 1..(m - 1) \subseteq r
  BY <1>5
<1>7. First(r) \in 1..(N + 1) /\ First(r) \notin r /\ 1..(First(r) - 1) \subseteq r
  BY <1>6 DEF First
<1>8. QED
  BY <1>7 DEF Ordinals

(* A window ends at an ordinal, at or after its start.                     *)
LEMMA LastIsOrdinal ==
  ASSUME NEW from \in Ordinals, NEW count \in Ordinals
  PROVE  Last(from, count) \in Ordinals /\ from <= Last(from, count)
BY RecordExecutionAssumption DEF Ordinals, Last

(* A window that is selected, from whatever rows and receipts were read,   *)
(* begins inside its batch.                                                *)
LEMMA WindowType ==
  ASSUME NEW r \in SUBSET Ordinals, NEW v, v \subseteq [batch : Batches, ordinal : Ordinals],
         NEW count \in Ordinals, NEW start \in 0..N, ~ NoWindow(r, v, count, start)
  PROVE  /\ Window(r, v, count, start) \in Windows
         /\ Window(r, v, count, start).batch.start <= Window(r, v, count, start).from
         /\ Window(r, v, count, start).from <= Window(r, v, count, start).batch.end
         /\ RecordPreview(r, v, count, start) \in Plans
<1> USE RecordExecutionAssumption
<1> DEFINE w == Window(r, v, count, start)
<1>1. /\ First(r) \in 1..(N + 1)
      /\ \A i \in Ordinals : i \notin r => First(r) <= i
  BY FirstExists
<1>2. IncompleteBatches(r, v) \subseteq Batches
  BY DEF IncompleteBatches
<1>3. HasActive(r, v) => ActiveBatch(r, v) \in IncompleteBatches(r, v)
  BY DEF HasActive, ActiveBatch
<1>4. ActiveBatch(r, v) \in Batches \cup {None}
  BY <1>2, <1>3 DEF ActiveBatch
<1>5. /\ w \in Windows /\ w.batch.start <= w.from /\ w.from <= w.batch.end
  <2>1. CASE Resumes(r, v, start)
    <3>1. ActiveBatch(r, v) \in IncompleteBatches(r, v)
      BY <2>1, <1>3 DEF Resumes
    <3>2. First(r) \in ActiveBatch(r, v).start..ActiveBatch(r, v).end
      BY <3>1 DEF NoWindow, AssessRaises
    <3>3. ActiveBatch(r, v) \in Batches
      BY <3>1, <1>2
    <3>4. First(r) \in Ordinals
      BY <3>2, <3>3, <1>1 DEF Batches, Ordinals
    <3>5. w = [batch |-> ActiveBatch(r, v), from |-> First(r)]
      BY <2>1 DEF Window
    <3>6. QED
      BY <3>2, <3>3, <3>4, <3>5 DEF Windows, Batches, Ordinals
  <2>2. CASE ~ Resumes(r, v, start)
    <3> DEFINE from == IF start = 0 THEN First(r) ELSE start
    <3>1. from \in Ordinals
      <4>1. CASE start = 0
        <5>1. ~ Complete(r)
          BY <4>1 DEF NoWindow
        <5>2. QED
          BY <4>1, <5>1, <1>1 DEF Complete, Ordinals
      <4>2. CASE start # 0
        BY <4>2 DEF Ordinals
      <4>3. QED
        BY <4>1, <4>2
    <3>2. w = [batch |-> [start |-> from, end |-> Last(from, count)], from |-> from]
      BY <2>2 DEF Window
    <3> HIDE DEF from
    <3>3. Last(from, count) \in Ordinals /\ from <= Last(from, count)
      BY <3>1, LastIsOrdinal
    <3>4. QED
      BY <3>1, <3>2, <3>3 DEF Windows, Batches, Ordinals
  <2>3. QED
    BY <2>1, <2>2
<1>6. (w.from..w.batch.end) \ r \subseteq Ordinals
  BY <1>5 DEF Windows, Batches, Ordinals
<1> HIDE DEF w
<1>7. RecordPreview(r, v, count, start) =
        [command |-> "records", count |-> count, first |-> First(r), active |-> ActiveBatch(r, v),
         window |-> w, explicit |-> start # 0, inserts |-> (w.from..w.batch.end) \ r]
  BY DEF RecordPreview, w
<1>8. RecordPreview(r, v, count, start) \in Plans
  BY <1>1, <1>4, <1>5, <1>6, <1>7 DEF Plans
<1>9. QED
  BY <1>5, <1>8 DEF w

LEMMA SpatialType ==
  ASSUME NEW r \in SUBSET Ordinals, NEW size \in Ordinals
  PROVE  SpatialPreview(r, size) \in Plans
<1>1. First(r) \in 1..(N + 1)
  BY FirstExists
<1>2. [batch |-> [start |-> 1, end |-> N], from |-> 1] \in Windows
  BY RecordExecutionAssumption DEF Windows, Batches, Ordinals
<1>3. QED
  BY <1>1, <1>2 DEF SpatialPreview, Plans

(* The first missing ordinal lies in an incomplete batch that begins at or *)
(* before it.                                                              *)
LEMMA FirstInIncomplete ==
  ASSUME NEW r \in SUBSET Ordinals, NEW b \in Batches,
         ~ (b.start..b.end \subseteq r), b.start <= First(r)
  PROVE  First(r) \in b.start..b.end
<1>1. PICK i \in b.start..b.end : i \notin r
  OBVIOUS
<1>2. i \in Ordinals
  BY <1>1, RecordExecutionAssumption DEF Batches, Ordinals
<1>3. First(r) <= i /\ First(r) \in 1..(N + 1)
  BY <1>1, <1>2, FirstExists
<1>4. QED
  BY <1>1, <1>3, RecordExecutionAssumption DEF Batches, Ordinals

-----------------------------------------------------------------------------
(* The steps that end a session keep its type.                             *)
LEMMA EndSessionType ==
  ASSUME TypeOK, NEW s \in Sessions, EndSession(s), UNCHANGED <<dbVars, approved>>
  PROVE  TypeOK'
BY DEF TypeOK, EndSession, dbVars

(* What the loop of a confirmed run works on.                              *)
LEMMA RunBounds ==
  ASSUME Inv, NEW s \in Sessions, pc[s] \in Running
  PROVE  /\ plan[s] \in Plans /\ plan[s].count \in Nat \ {0}
         /\ plan[s].window.batch \in Batches
         /\ next[s] \in Nat \ {0}
         /\ next[s] <= plan[s].window.batch.end =>
              /\ next[s] \in plan[s].window.batch.start..plan[s].window.batch.end
              /\ next[s] \in Ordinals
              /\ Batch(s) \subseteq Ordinals
<1> USE RecordExecutionAssumption
<1>1. RunOK(s) /\ TypeOK
  BY DEF Inv
<1>2. plan[s] \in Plans /\ plan[s].window.batch.start <= plan[s].window.from
         /\ plan[s].window.from <= next[s] /\ next[s] \in Nat
  BY <1>1 DEF RunOK, TypeOK
<1>3. /\ plan[s].count \in Ordinals /\ plan[s].window.batch \in Batches
      /\ plan[s].window.batch.start \in Ordinals /\ plan[s].window.batch.end \in Ordinals
      /\ plan[s].window.from \in Ordinals
  BY <1>2 DEF Plans, Windows, Batches
<1>4. next[s] <= plan[s].window.batch.end => next[s] \in Ordinals
  BY <1>2, <1>3 DEF Ordinals
<1>5. next[s] \in Ordinals => Batch(s) \subseteq Ordinals
  BY <1>3 DEF Batch, Last, Ordinals
<1>6. QED
  BY <1>2, <1>3, <1>4, <1>5 DEF Ordinals

LEMMA TypeStep ==
  ASSUME Inv, [Next]_vars
  PROVE  TypeOK'
<1> USE RecordExecutionAssumption
<1>0. TypeOK
  BY DEF Inv
<1>1. ASSUME NEW s \in Sessions, ReadTarget(s) PROVE TypeOK'
  BY <1>0, <1>1 DEF ReadTarget, TypeOK, dbVars, runVars
<1>2. ASSUME NEW s \in Sessions, NEW count \in Counts, NEW start \in 0..N, PreviewRecords(s, count, start)
      PROVE  TypeOK'
  <2>1. approved' \in Plans \cup {None}
    <3>1. snapshot[s] \in SUBSET Ordinals /\ receipts \subseteq [batch : Batches, ordinal : Ordinals]
      BY <1>0 DEF TypeOK
    <3>2. ~ NoWindow(snapshot[s], receipts, count, start) =>
            RecordPreview(snapshot[s], receipts, count, start) \in Plans
      BY <3>1, WindowType
    <3>3. QED
      BY <1>0, <1>2, <3>2 DEF PreviewRecords, TypeOK
  <2>2. QED
    BY <1>0, <1>2, <2>1 DEF PreviewRecords, TypeOK, dbVars, runVars
<1>3. ASSUME NEW s \in Sessions, NEW size \in Sizes, PreviewSpatial(s, size) PROVE TypeOK'
  <2>1. approved' \in Plans
    BY <1>0, <1>3, SpatialType DEF PreviewSpatial, TypeOK
  <2>2. QED
    BY <1>0, <1>3, <2>1 DEF PreviewSpatial, TypeOK, dbVars, runVars
<1>4. ASSUME NEW s \in Sessions, Acquire(s) PROVE TypeOK'
  BY <1>0, <1>4 DEF Acquire, TypeOK, dbVars, runVars, Locked, Running
<1>5. ASSUME NEW s \in Sessions, NEW p \in Plans, Confirm(s, p), pc' = [pc EXCEPT ![s] = "records"]
                                                   \/ pc' = [pc EXCEPT ![s] = "batches"]
      PROVE  TypeOK'
  <2>1. p.window.from \in Nat /\ p.inserts \in SUBSET Ordinals
    BY DEF Plans, Windows, Ordinals
  <2>2. approved.inserts \in SUBSET Ordinals
    BY <1>5, <2>1 DEF Confirm, Matches
  <2>3. QED
    BY <1>0, <1>5, <2>1, <2>2 DEF Confirm, TypeOK, dbVars, Locked, Running
<1>6. ASSUME NEW s \in Sessions, NEW count \in Counts, NEW start \in 0..N, ConfirmRecords(s, count, start)
      PROVE  TypeOK'
  <2>1. rows \in SUBSET Ordinals /\ receipts \subseteq [batch : Batches, ordinal : Ordinals]
    BY <1>0 DEF TypeOK
  <2>2. RecordPreview(rows, receipts, count, start) \in Plans
    BY <1>6, <2>1, WindowType DEF ConfirmRecords
  <2>3. QED
    BY <1>5, <1>6, <2>2 DEF ConfirmRecords
<1>7. ASSUME NEW s \in Sessions, NEW size \in Sizes, ConfirmSpatial(s, size) PROVE TypeOK'
  <2>1. SpatialPreview(rows, size) \in Plans
    BY <1>0, SpatialType DEF TypeOK
  <2>2. QED
    BY <1>5, <1>7, <2>1 DEF ConfirmSpatial
<1>9. ASSUME NEW s \in Sessions, ReuseRecord(s) \/ OpenRecord(s) \/ SkipBatch(s) \/ OpenBatch(s)
      PROVE  TypeOK'
  <2>1. pc[s] \in Running
    BY <1>9 DEF ReuseRecord, OpenRecord, SkipBatch, OpenBatch, Running
  <2>2. next[s] + 1 \in Nat /\ next[s] + plan[s].count \in Nat
    BY <2>1, RunBounds
  <2>3. QED
    BY <1>0, <1>9, <2>2 DEF ReuseRecord, OpenRecord, SkipBatch, OpenBatch, Advance, TypeOK, Locked,
       Running, dbVars, runVars
<1>10. ASSUME NEW s \in Sessions, CommitRecord(s) PROVE TypeOK'
  <2>1. pc[s] \in Running /\ next[s] <= plan[s].window.batch.end
    BY <1>10 DEF CommitRecord, Running, Inv, RunOK
  <2>2. /\ next[s] \in Ordinals /\ next[s] + 1 \in Nat /\ plan[s].window.batch \in Batches
        /\ next[s] \in plan[s].window.batch.start..plan[s].window.batch.end
    BY <2>1, RunBounds
  <2>3. rows' \subseteq Ordinals
    BY <1>0, <1>10, <2>2 DEF CommitRecord, TypeOK
  <2>4. /\ receipts' \subseteq [batch : Batches, ordinal : Ordinals]
        /\ \A x \in receipts' : x.ordinal \in x.batch.start..x.batch.end
    BY <1>0, <1>10, <2>2 DEF CommitRecord, RecordReceipt, TypeOK
  <2>5. /\ inserted' \in [Sessions -> SUBSET Ordinals]
        /\ next' \in [Sessions -> Nat]
    BY <1>0, <1>10, <2>2 DEF CommitRecord, Advance, TypeOK
  <2>6. QED
    BY <1>0, <1>10, <2>3, <2>4, <2>5 DEF CommitRecord, TypeOK, Locked, Running
<1>11. ASSUME NEW s \in Sessions, CommitBatch(s) PROVE TypeOK'
  <2>1. pc[s] \in Running /\ next[s] <= plan[s].window.batch.end
    BY <1>11 DEF CommitBatch, Running, Inv, RunOK
  <2>2. Batch(s) \subseteq Ordinals /\ next[s] + plan[s].count \in Nat
    BY <2>1, RunBounds
  <2>3. rows' \subseteq Ordinals /\ legacy' \subseteq Ordinals
    BY <1>0, <1>11, <2>2 DEF CommitBatch, ItemsInserted, TypeOK
  <2>4. /\ inserted' \in [Sessions -> SUBSET Ordinals]
        /\ next' \in [Sessions -> Nat]
    BY <1>0, <1>11, <2>2 DEF CommitBatch, ItemsInserted, Advance, TypeOK
  <2>5. QED
    BY <1>0, <1>11, <2>3, <2>4 DEF CommitBatch, TypeOK, Locked, Running
<1>12. ASSUME NEW s \in Sessions, Finish(s) \/ Interrupt(s) \/ DiscardSession(s) PROVE TypeOK'
  BY <1>0, <1>12, EndSessionType DEF Finish, Interrupt, DiscardSession
<1>13. ASSUME NEW s \in Sessions, LoseConnection(s) PROVE TypeOK'
  BY <1>0, <1>13 DEF LoseConnection, TypeOK, dbVars, runVars
<1>14. CASE UNCHANGED vars
  BY <1>0, <1>14 DEF TypeOK, vars, dbVars, runVars
<1>15. QED
  BY <1>1, <1>2, <1>3, <1>4, <1>6, <1>7, <1>9, <1>10, <1>11, <1>12, <1>13, <1>14 DEF Next, RunStep

-----------------------------------------------------------------------------
(* Only the holder of the lock executes.                                   *)
LEMMA LockStep ==
  ASSUME Inv, [Next]_vars
  PROVE  LockInv'
<1> USE DEF Locked, Running
<1>0. TypeOK /\ LockInv
  BY DEF Inv
<1>1. ASSUME NEW s \in Sessions, pc[s] \notin Locked, pc' = [pc EXCEPT ![s] = "idle"]
                                      \/ pc' = [pc EXCEPT ![s] = "previewing"],
             UNCHANGED <<lock, connected>>
      PROVE  LockInv'
  BY <1>0, <1>1 DEF LockInv, TypeOK
<1>2. ASSUME NEW s \in Sessions, NEW l \in Locked, pc[s] \in Locked, pc' = [pc EXCEPT ![s] = l],
             UNCHANGED <<lock, connected>>
      PROVE  LockInv'
  BY <1>0, <1>2 DEF LockInv, TypeOK
<1>3. ASSUME NEW s \in Sessions, EndSession(s) PROVE LockInv'
  BY <1>0, <1>3 DEF LockInv, EndSession, TypeOK
<1>4. ASSUME NEW s \in Sessions, Acquire(s) PROVE LockInv'
  BY <1>0, <1>4, RecordExecutionAssumption DEF LockInv, Acquire, LockFree, TypeOK
<1>5. ASSUME NEW s \in Sessions, LoseConnection(s) PROVE LockInv'
  BY <1>0, <1>5 DEF LockInv, LoseConnection, TypeOK
<1>6. CASE UNCHANGED <<pc, lock, connected>>
  BY <1>0, <1>6 DEF LockInv
<1>7. ASSUME NEW s \in Sessions, ReadTarget(s) PROVE LockInv'
  BY <1>1, <1>7 DEF ReadTarget
<1>8. ASSUME NEW s \in Sessions, NEW n \in Nat, NEW k \in Nat, PreviewRecords(s, n, k) PROVE LockInv'
  BY <1>1, <1>8 DEF PreviewRecords
<1>9. ASSUME NEW s \in Sessions, NEW n \in Nat, PreviewSpatial(s, n) PROVE LockInv'
  BY <1>1, <1>9 DEF PreviewSpatial
<1>10. ASSUME NEW s \in Sessions, NEW n \in Nat, NEW k \in Nat, ConfirmRecords(s, n, k) PROVE LockInv'
  BY <1>2, <1>10 DEF ConfirmRecords, Confirm
<1>11. ASSUME NEW s \in Sessions, NEW n \in Nat, ConfirmSpatial(s, n) PROVE LockInv'
  BY <1>2, <1>11 DEF ConfirmSpatial, Confirm
<1>12. ASSUME NEW s \in Sessions, ReuseRecord(s) \/ SkipBatch(s) PROVE LockInv'
  BY <1>6, <1>12 DEF ReuseRecord, SkipBatch
<1>13. ASSUME NEW s \in Sessions, OpenRecord(s) \/ CommitRecord(s) \/ OpenBatch(s) \/ CommitBatch(s)
       PROVE  LockInv'
  BY <1>2, <1>13 DEF OpenRecord, CommitRecord, OpenBatch, CommitBatch
<1>14. ASSUME NEW s \in Sessions, Finish(s) \/ Interrupt(s) \/ DiscardSession(s) PROVE LockInv'
  BY <1>3, <1>14 DEF Finish, Interrupt, DiscardSession
<1>15. Counts \subseteq Nat /\ Sizes \subseteq Nat /\ 0..N \subseteq Nat
  BY RecordExecutionAssumption DEF Ordinals
<1>16. CASE UNCHANGED vars
  BY <1>6, <1>16 DEF vars
<1>17. QED
  BY <1>4, <1>5, <1>7, <1>8, <1>9, <1>10, <1>11, <1>12, <1>13, <1>14, <1>15, <1>16 DEF Next, RunStep

(* The two commits are the only steps that change the database.            *)
LEMMA OnlyCommitsWrite ==
  ASSUME [Next]_vars
  PROVE  UNCHANGED dbVars \/ \E s \in Sessions : CommitRecord(s) \/ CommitBatch(s)
<1>1. ASSUME NEW s \in Sessions, NEW n, NEW k, PreviewRecords(s, n, k) \/ ConfirmRecords(s, n, k)
      PROVE  UNCHANGED dbVars
  BY <1>1 DEF PreviewRecords, ConfirmRecords, Confirm
<1>2. ASSUME NEW s \in Sessions, NEW n, PreviewSpatial(s, n) \/ ConfirmSpatial(s, n)
      PROVE  UNCHANGED dbVars
  BY <1>2 DEF PreviewSpatial, ConfirmSpatial, Confirm
<1>3. ASSUME NEW s \in Sessions, ReadTarget(s) \/ Acquire(s) \/ Interrupt(s) \/ LoseConnection(s)
      PROVE  UNCHANGED dbVars
  BY <1>3 DEF ReadTarget, Acquire, Interrupt, LoseConnection
<1>4. ASSUME NEW s \in Sessions, ReuseRecord(s) \/ OpenRecord(s) \/ SkipBatch(s) \/ OpenBatch(s)
                                   \/ Finish(s) \/ DiscardSession(s)
      PROVE  UNCHANGED dbVars
  BY <1>4 DEF ReuseRecord, OpenRecord, SkipBatch, OpenBatch, Finish, DiscardSession
<1>5. CASE UNCHANGED vars
  BY <1>5 DEF vars
<1>6. QED
  BY <1>1, <1>2, <1>3, <1>4, <1>5 DEF Next, RunStep

(* A record commits the first missing ordinal, in the only window that can *)
(* be incomplete.                                                          *)
LEMMA CommitRecordFacts ==
  ASSUME Inv, NEW s \in Sessions, CommitRecord(s)
  PROVE  /\ next[s] \in Ordinals /\ next[s] \notin rows
         /\ \A i \in Ordinals : i < next[s] => i \in rows
         /\ plan[s].window.batch \in Batches
         /\ next[s] \in plan[s].window.batch.start..plan[s].window.batch.end
         /\ IncompleteBatches(rows, receipts) \subseteq {plan[s].window.batch}
<1>1. pc[s] \in Running /\ pc[s] = "record"
  BY DEF CommitRecord, Running
<1>2. RunOK(s)
  BY <1>1 DEF Inv
<1>3. /\ next[s] <= plan[s].window.batch.end /\ next[s] \notin rows
      /\ \A i \in Ordinals : i < next[s] => i \in rows
  BY <1>1, <1>2 DEF RunOK
<1>4. /\ next[s] \in Ordinals /\ plan[s].window.batch \in Batches
      /\ next[s] \in plan[s].window.batch.start..plan[s].window.batch.end
  BY <1>1, <1>3, RunBounds
<1>5. IncompleteBatches(rows, receipts) \subseteq {plan[s].window.batch}
        \/ plan[s].window.batch.start..plan[s].window.batch.end \subseteq rows
  BY <1>1, <1>2 DEF RunOK
<1>6. QED
  BY <1>3, <1>4, <1>5

(* A batch is written over the snapshot that is still current, and leaves  *)
(* nothing missing up to its end.                                          *)
LEMMA CommitBatchFacts ==
  ASSUME Inv, NEW s \in Sessions, CommitBatch(s)
  PROVE  /\ Batch(s) \subseteq Ordinals
         /\ ItemsInserted(s) = Batch(s) \ rows
         /\ next[s] \in Nat \ {0} /\ plan[s].count \in Nat \ {0}
         /\ \A i \in Ordinals : i < next[s] => i \in rows
         /\ \A i \in Ordinals : next[s] <= i => (i < next[s] + plan[s].count <=> i \in Batch(s))
         /\ \A i \in Batch(s) : next[s] <= i
<1>1. pc[s] \in Running /\ pc[s] = "batch"
  BY DEF CommitBatch, Running
<1>2. RunOK(s)
  BY <1>1 DEF Inv
<1>3. /\ next[s] <= plan[s].window.batch.end /\ snapshot[s] = rows
      /\ \A i \in Ordinals : i < next[s] => i \in rows
  BY <1>1, <1>2 DEF RunOK
<1>4. /\ Batch(s) \subseteq Ordinals /\ next[s] \in Ordinals
      /\ next[s] \in Nat \ {0} /\ plan[s].count \in Nat \ {0}
  BY <1>1, <1>3, RunBounds
<1>5. \A i \in Ordinals : next[s] <= i => (i < next[s] + plan[s].count <=> i \in Batch(s))
  BY <1>4, RecordExecutionAssumption DEF Batch, Last, Ordinals
<1>6. \A i \in Batch(s) : next[s] <= i
  BY <1>4, RecordExecutionAssumption DEF Batch, Last, Ordinals
<1>7. QED
  BY <1>3, <1>4, <1>5, <1>6 DEF ItemsInserted

LEMMA OrderStep ==
  ASSUME Inv, [Next]_vars
  PROVE  InGovernedOrder'
<1>0. InGovernedOrder /\ rows \subseteq Ordinals
  BY DEF Inv, TypeOK
<1>1. ASSUME NEW s \in Sessions, CommitRecord(s) PROVE InGovernedOrder'
  <2>1. 1..next[s] \subseteq rows \cup {next[s]}
    BY <1>1, CommitRecordFacts, RecordExecutionAssumption DEF Ordinals
  <2>2. QED
    BY <1>0, <1>1, <2>1 DEF CommitRecord, InGovernedOrder
<1>2. ASSUME NEW s \in Sessions, CommitBatch(s) PROVE InGovernedOrder'
  <2>1. \A i \in Batch(s) : 1..i \subseteq rows \cup Batch(s)
    <3> SUFFICES ASSUME NEW i \in Batch(s), NEW j \in 1..i PROVE j \in rows \cup Batch(s)
      OBVIOUS
    <3>1. i \in Ordinals /\ i < next[s] + plan[s].count /\ next[s] \in Nat /\ plan[s].count \in Nat
      BY <1>2, CommitBatchFacts
    <3>2. j \in Ordinals /\ j < next[s] + plan[s].count
      BY <3>1, RecordExecutionAssumption DEF Ordinals
    <3>3. CASE j < next[s]
      BY <1>2, <3>2, <3>3, CommitBatchFacts
    <3>4. CASE next[s] <= j
      BY <1>2, <3>2, <3>4, CommitBatchFacts
    <3>5. QED
      BY <3>1, <3>2, <3>3, <3>4 DEF Ordinals
  <2>2. QED
    BY <1>0, <1>2, <2>1 DEF CommitBatch, InGovernedOrder
<1>3. CASE UNCHANGED dbVars
  BY <1>0, <1>3 DEF InGovernedOrder, dbVars
<1>4. QED
  BY <1>1, <1>2, <1>3, OnlyCommitsWrite

LEMMA ReceiptsStep ==
  ASSUME Inv, [Next]_vars
  PROVE  ReceiptsInv'
<1>0. ReceiptsInv
  BY DEF Inv
<1>1. ASSUME NEW s \in Sessions, CommitRecord(s) PROVE ReceiptsInv'
  <2>1. next[s] \notin rows /\ RecordReceipt(s).ordinal = next[s]
    BY <1>1, CommitRecordFacts DEF RecordReceipt
  <2>2. /\ rows' = rows \cup {next[s]} /\ receipts' = receipts \cup {RecordReceipt(s)}
        /\ legacy' = legacy
    BY <1>1 DEF CommitRecord
  <2>3. QED
    BY <1>0, <2>1, <2>2 DEF ReceiptsInv
<1>2. ASSUME NEW s \in Sessions, CommitBatch(s) PROVE ReceiptsInv'
  <2>1. /\ rows' = rows \cup Batch(s) /\ receipts' = receipts
        /\ legacy' = legacy \cup (Batch(s) \ rows)
    BY <1>2, CommitBatchFacts DEF CommitBatch
  <2>2. QED
    BY <1>0, <2>1 DEF ReceiptsInv
<1>3. CASE UNCHANGED dbVars
  BY <1>0, <1>3 DEF ReceiptsInv, dbVars
<1>4. QED
  BY <1>1, <1>2, <1>3, OnlyCommitsWrite

LEMMA AssessStep ==
  ASSUME Inv, [Next]_vars
  PROVE  AlwaysAssessable'
<1> USE RecordExecutionAssumption
<1>0. /\ rows \in SUBSET Ordinals /\ rows' \in SUBSET Ordinals
      /\ receipts \subseteq [batch : Batches, ordinal : Ordinals]
      /\ \A b, c \in IncompleteBatches(rows, receipts) : b = c /\ First(rows) \in b.start..b.end
  BY TypeStep DEF Inv, TypeOK, AlwaysAssessable, AssessRaises
<1>1. ASSUME NEW s \in Sessions, CommitRecord(s) PROVE AlwaysAssessable'
  <2> DEFINE b == plan[s].window.batch
  <2>1. /\ b \in Batches /\ next[s] \in b.start..b.end /\ next[s] \in Ordinals
        /\ IncompleteBatches(rows, receipts) \subseteq {b}
        /\ \A i \in Ordinals : i < next[s] => i \in rows
    BY <1>1, CommitRecordFacts
  <2>2. rows' = rows \cup {next[s]} /\ receipts' = receipts \cup {RecordReceipt(s)}
    BY <1>1 DEF CommitRecord
  <2>3. RecordReceipt(s).batch = b
    BY DEF RecordReceipt
  <2>4. \A c \in IncompleteBatches(rows', receipts') : c = b /\ ~ (b.start..b.end \subseteq rows')
    BY <2>1, <2>2, <2>3 DEF IncompleteBatches
  <2>5. b.start <= First(rows')
    <3>1. First(rows') \in 1..(N + 1) /\ First(rows') \notin rows'
      BY <1>0, FirstExists
    <3>2. \A i \in Ordinals : i <= next[s] => i \in rows'
      BY <2>1, <2>2 DEF Ordinals
    <3>3. QED
      BY <2>1, <3>1, <3>2 DEF Batches, Ordinals
  <2> HIDE DEF b
  <2>6. ~ (b.start..b.end \subseteq rows') => First(rows') \in b.start..b.end
    BY <1>0, <2>1, <2>5, FirstInIncomplete
  <2>7. \A c, d \in IncompleteBatches(rows', receipts') : c = d /\ First(rows') \in c.start..c.end
    BY <2>4, <2>6
  <2>8. QED
    BY <2>7 DEF AlwaysAssessable, AssessRaises
<1>2. ASSUME NEW s \in Sessions, CommitBatch(s) PROVE AlwaysAssessable'
  <2>1. rows \subseteq rows' /\ receipts' = receipts
    BY <1>2 DEF CommitBatch
  <2>2. IncompleteBatches(rows', receipts') \subseteq IncompleteBatches(rows, receipts)
    BY <2>1 DEF IncompleteBatches
  <2>3. ASSUME NEW c \in IncompleteBatches(rows', receipts') PROVE First(rows') \in c.start..c.end
    <3>1. c \in Batches /\ ~ (c.start..c.end \subseteq rows')
      BY <1>0, <2>1, <2>3 DEF IncompleteBatches
    <3>2. First(rows) \in c.start..c.end
      BY <1>0, <2>2, <2>3
    <3>3. First(rows') \in 1..(N + 1) /\ First(rows') \notin rows /\ First(rows) \in 1..(N + 1)
      BY <1>0, <2>1, FirstExists
    <3>4. First(rows) <= First(rows')
      <4>1. First(rows') \in Ordinals => First(rows) <= First(rows')
        BY <1>0, <3>3, FirstExists
      <4>2. QED
        BY <3>3, <4>1 DEF Ordinals
    <3>5. c.start <= First(rows')
      BY <3>1, <3>2, <3>3, <3>4 DEF Batches, Ordinals
    <3>6. QED
      BY <1>0, <3>1, <3>5, FirstInIncomplete
  <2>4. QED
    BY <1>0, <2>2, <2>3 DEF AlwaysAssessable, AssessRaises
<1>3. CASE UNCHANGED dbVars
  BY <1>0, <1>3 DEF AlwaysAssessable, AssessRaises, dbVars
<1>4. QED
  BY <1>1, <1>2, <1>3, OnlyCommitsWrite

-----------------------------------------------------------------------------
(* What a step of one session leaves to the others.                        *)
OthersKeep(s) ==
  \A t \in Sessions \ {s} :
    /\ pc'[t] = pc[t] /\ plan'[t] = plan[t] /\ next'[t] = next[t]
    /\ granted'[t] = granted[t] /\ inserted'[t] = inserted[t] /\ snapshot'[t] = snapshot[t]

(* A run is not disturbed: who writes holds the lock and is alone.         *)
LEMMA OthersOK ==
  ASSUME Inv, NEW s \in Sessions, OthersKeep(s), UNCHANGED <<rows, receipts>> \/ pc[s] \in Locked,
         NEW t \in Sessions \ {s}, pc'[t] \in Running
  PROVE  RunOK(t)'
<1>1. pc[t] \in Running /\ pc[t] \in Locked
  BY DEF OthersKeep, Locked
<1>2. ~ (pc[s] \in Locked)
  BY <1>1 DEF Inv, LockInv
<1>3. RunOK(t)
  BY <1>1 DEF Inv
<1>4. QED
  BY <1>2, <1>3 DEF RunOK, OthersKeep, IncompleteBatches

(* The window a run starts with: everything before it is there, and no     *)
(* other window is incomplete unless this one inserts nothing.             *)
LEMMA SelectedWindow ==
  ASSUME Inv, NEW count \in Ordinals, NEW start \in 0..N, ~ NoWindow(rows, receipts, count, start),
         NEW w, w = Window(rows, receipts, count, start)
  PROVE  /\ \A i \in Ordinals : i < w.from => i \in rows
         /\ \/ IncompleteBatches(rows, receipts) \subseteq {w.batch}
            \/ w.batch.start..w.batch.end \subseteq rows
<1> USE RecordExecutionAssumption
<1>0. rows \in SUBSET Ordinals /\ receipts \subseteq [batch : Batches, ordinal : Ordinals]
  BY DEF Inv, TypeOK
<1>1. /\ First(rows) \in 1..(N + 1) /\ First(rows) \notin rows
      /\ \A i \in Ordinals : i < First(rows) => i \in rows
  BY <1>0, FirstExists
<1>2. w \in Windows /\ w.from <= w.batch.end
  BY <1>0, WindowType
<1>3. CASE Resumes(rows, receipts, start)
  <2>1. w = [batch |-> ActiveBatch(rows, receipts), from |-> First(rows)]
    BY <1>3 DEF Window
  <2>2. ActiveBatch(rows, receipts) \in IncompleteBatches(rows, receipts)
    BY <1>3 DEF Resumes, ActiveBatch, HasActive
  <2>3. \A b, c \in IncompleteBatches(rows, receipts) : b = c
    BY DEF NoWindow, AssessRaises
  <2>4. QED
    BY <1>1, <2>1, <2>2, <2>3
<1>4. CASE ~ Resumes(rows, receipts, start) /\ start = 0
  <2>1. w.from = First(rows)
    BY <1>4 DEF Window
  <2>2. IncompleteBatches(rows, receipts) = {}
    BY <1>4 DEF Resumes, HasActive
  <2>3. QED
    BY <1>1, <2>1, <2>2
<1>5. CASE start # 0
  <2>1. w = [batch |-> [start |-> start, end |-> Last(start, count)], from |-> start]
    BY <1>5 DEF Window, Resumes
  <2>2. start \in Ordinals /\ Last(start, count) \in Ordinals /\ start <= Last(start, count)
    BY <1>5, LastIsOrdinal DEF Ordinals
  <2>3. CASE Complete(rows)
    BY <2>1, <2>2, <2>3 DEF Complete, Ordinals
  <2>4. CASE ~ Complete(rows) /\ HasActive(rows, receipts)
    <3>1. Last(start, count) < First(rows)
      BY <1>1, <1>5, <2>2, <2>4 DEF NoWindow, SelectRaises, RangeRefused, Ordinals
    <3>2. \A i \in Ordinals : i <= Last(start, count) => i \in rows
      BY <1>1, <2>2, <3>1 DEF Ordinals
    <3>3. QED
      BY <2>1, <2>2, <3>2 DEF Ordinals
  <2>5. CASE ~ Complete(rows) /\ ~ HasActive(rows, receipts)
    <3>1. start <= First(rows) /\ IncompleteBatches(rows, receipts) = {}
      BY <1>1, <1>5, <2>2, <2>5 DEF NoWindow, SelectRaises, RangeRefused, HasActive, Ordinals
    <3>2. QED
      BY <1>1, <2>1, <2>2, <3>1 DEF Ordinals
  <2>6. QED
    BY <2>3, <2>4, <2>5
<1>6. QED
  BY <1>3, <1>4, <1>5

(* A run that is confirmed starts as RunOK asks.                           *)
LEMMA ConfirmOK ==
  ASSUME Inv, NEW s \in Sessions, NEW p \in Plans, Confirm(s, p),
         NEW l \in {"records", "batches"}, pc' = [pc EXCEPT ![s] = l],
         p.window.batch.start <= p.window.from,
         p.inserts = (p.window.from..p.window.batch.end) \ rows,
         \A i \in Ordinals : i < p.window.from => i \in rows,
         l = "batches" => p.window.batch.end = N,
         l = "records" => \/ IncompleteBatches(rows, receipts) \subseteq {p.window.batch}
                          \/ p.window.batch.start..p.window.batch.end \subseteq rows
  PROVE  RunOK(s)' /\ OthersKeep(s) /\ UNCHANGED dbVars
<1> USE RecordExecutionAssumption
<1>0. TypeOK
  BY DEF Inv
<1>1. /\ pc'[s] = l /\ plan'[s] = p /\ next'[s] = p.window.from
      /\ granted'[s] = p.inserts /\ inserted'[s] = {} /\ rows' = rows /\ receipts' = receipts
  BY <1>0 DEF Confirm, Matches, TypeOK, dbVars
<1>2. /\ p.window.from \in Ordinals /\ p.window.batch.start \in Ordinals
      /\ p.window.batch.end \in Ordinals
  BY DEF Plans, Windows, Batches
<1>3. /\ \A i \in Ordinals : i < p.window.from => i \notin p.inserts
      /\ \A i \in Ordinals : p.window.from <= i /\ i <= p.window.batch.end => (i \in p.inserts <=> i \notin rows)
  BY <1>2 DEF Ordinals
<1>4. IncompleteBatches(rows', receipts') = IncompleteBatches(rows, receipts)
  BY <1>1
<1>5. p.window.from <= p.window.from
  BY <1>2 DEF Ordinals
<1>6. RunOK(s)'
  BY <1>1, <1>3, <1>4, <1>5 DEF RunOK
<1>7. OthersKeep(s)
  BY <1>0 DEF OthersKeep, Confirm, TypeOK
<1>8. QED
  BY <1>6, <1>7 DEF Confirm

LEMMA RunsStep ==
  ASSUME Inv, [Next]_vars
  PROVE  \A t \in Sessions : pc'[t] \in Running => RunOK(t)'
<1> USE RecordExecutionAssumption
<1>0. TypeOK /\ rows \in SUBSET Ordinals /\ receipts \subseteq [batch : Batches, ordinal : Ordinals]
  BY DEF Inv, TypeOK
<1> DEFINE Goal == \A t \in Sessions : pc'[t] \in Running => RunOK(t)'
<1>A. ASSUME NEW s \in Sessions, OthersKeep(s), UNCHANGED <<rows, receipts>> \/ pc[s] \in Locked,
             pc'[s] \in Running => RunOK(s)'
      PROVE  Goal
  BY <1>A, OthersOK
<1> HIDE DEF Goal
<1>1. ASSUME NEW s \in Sessions, NEW l \in {"idle", "previewing", "prompt"}, pc' = [pc EXCEPT ![s] = l],
             UNCHANGED <<dbVars, runVars>>,
             \A t \in Sessions \ {s} : snapshot'[t] = snapshot[t]
      PROVE  Goal
  <2>1. OthersKeep(s) /\ pc'[s] \notin Running
    BY <1>0, <1>1 DEF OthersKeep, TypeOK, runVars, Running
  <2>2. QED
    BY <1>1, <1>A, <2>1 DEF dbVars
<1>2. ASSUME NEW s \in Sessions, ReadTarget(s) \/ Acquire(s) PROVE Goal
  BY <1>0, <1>1, <1>2 DEF ReadTarget, Acquire, TypeOK
<1>3. ASSUME NEW s \in Sessions, NEW count \in Counts, NEW start \in 0..N, PreviewRecords(s, count, start)
      PROVE  Goal
  BY <1>0, <1>1, <1>3 DEF PreviewRecords, TypeOK
<1>4. ASSUME NEW s \in Sessions, NEW size \in Sizes, PreviewSpatial(s, size) PROVE Goal
  BY <1>0, <1>1, <1>4 DEF PreviewSpatial, TypeOK
<1>5. ASSUME NEW s \in Sessions, NEW count \in Counts, NEW start \in 0..N, ConfirmRecords(s, count, start)
      PROVE  Goal
  <2> DEFINE w == Window(rows, receipts, count, start)
             p == RecordPreview(rows, receipts, count, start)
  <2>1. ~ NoWindow(rows, receipts, count, start) /\ Confirm(s, p) /\ pc' = [pc EXCEPT ![s] = "records"]
    BY <1>5 DEF ConfirmRecords
  <2>2. p \in Plans /\ w.batch.start <= w.from
    BY <1>0, <2>1, WindowType
  <2>3. p.window = w /\ p.inserts = (w.from..w.batch.end) \ rows
    BY DEF RecordPreview
  <2>4. /\ \A i \in Ordinals : i < w.from => i \in rows
        /\ \/ IncompleteBatches(rows, receipts) \subseteq {w.batch}
           \/ w.batch.start..w.batch.end \subseteq rows
    BY <2>1, SelectedWindow
  <2> HIDE DEF w, p
  <2>5. RunOK(s)' /\ OthersKeep(s) /\ UNCHANGED dbVars
    BY <2>1, <2>2, <2>3, <2>4, ConfirmOK
  <2>6. QED
    BY <1>A, <2>5 DEF dbVars
<1>6. ASSUME NEW s \in Sessions, NEW size \in Sizes, ConfirmSpatial(s, size) PROVE Goal
  <2> DEFINE p == SpatialPreview(rows, size)
  <2>1. Confirm(s, p) /\ pc' = [pc EXCEPT ![s] = "batches"] /\ p \in Plans
    BY <1>0, <1>6, SpatialType DEF ConfirmSpatial
  <2>2. /\ p.window.from = 1 /\ p.window.batch.start = 1 /\ p.window.batch.end = N
        /\ p.inserts = (1..N) \ rows
    BY DEF SpatialPreview, Ordinals
  <2>3. /\ \A i \in Ordinals : i < 1 => i \in rows
        /\ 1 <= 1
    BY DEF Ordinals
  <2> HIDE DEF p
  <2>4. RunOK(s)' /\ OthersKeep(s) /\ UNCHANGED dbVars
    BY <2>1, <2>2, <2>3, ConfirmOK
  <2>5. QED
    BY <1>A, <2>4 DEF dbVars
<1>7. ASSUME NEW s \in Sessions, ReuseRecord(s) PROVE Goal
  <2>1. pc[s] \in Running /\ pc[s] = "records" /\ next[s] <= plan[s].window.batch.end /\ next[s] \in rows
    BY <1>7 DEF ReuseRecord, InWindow, Running
  <2>2. RunOK(s)
    BY <2>1 DEF Inv
  <2>3. next[s] \in Ordinals /\ plan[s].window.from \in Nat
    BY <2>1, RunBounds DEF Plans, Windows, Ordinals
  <2>4. /\ next'[s] = next[s] + 1
        /\ UNCHANGED <<dbVars, pc, snapshot, plan, granted, inserted>>
        /\ OthersKeep(s)
    BY <1>0, <1>7 DEF ReuseRecord, Advance, OthersKeep, TypeOK
  <2>5. next[s] \notin granted[s] /\ next[s] \notin inserted[s]
    BY <2>1, <2>2, <2>3 DEF RunOK, Ordinals
  <2>6. inserted[s] \subseteq Ordinals
    BY <1>0 DEF TypeOK
  <2>7. RunOK(s)'
    BY <2>1, <2>2, <2>3, <2>4, <2>5, <2>6 DEF RunOK, Ordinals, dbVars
  <2>8. QED
    BY <1>A, <2>4, <2>7 DEF dbVars
<1>8. ASSUME NEW s \in Sessions, OpenRecord(s) PROVE Goal
  <2>1. pc[s] \in Running /\ pc[s] = "records" /\ next[s] <= plan[s].window.batch.end /\ next[s] \notin rows
    BY <1>8 DEF OpenRecord, InWindow, Running
  <2>2. RunOK(s)
    BY <2>1 DEF Inv
  <2>3. /\ pc'[s] = "record"
        /\ UNCHANGED <<dbVars, snapshot, plan, next, granted, inserted>>
        /\ OthersKeep(s)
    BY <1>0, <1>8 DEF OpenRecord, OthersKeep, TypeOK, runVars
  <2>4. RunOK(s)'
    BY <2>1, <2>2, <2>3 DEF RunOK, dbVars
  <2>5. QED
    BY <1>A, <2>3, <2>4 DEF dbVars
<1>9. ASSUME NEW s \in Sessions, CommitRecord(s) PROVE Goal
  <2>1. pc[s] \in Running /\ pc[s] = "record" /\ pc[s] \in Locked
    BY <1>9 DEF CommitRecord, Running, Locked
  <2>2. RunOK(s)
    BY <2>1 DEF Inv
  <2>3. /\ next[s] \in Ordinals /\ next[s] \notin rows
        /\ next[s] \in plan[s].window.batch.start..plan[s].window.batch.end
        /\ IncompleteBatches(rows, receipts) \subseteq {plan[s].window.batch}
    BY <1>9, CommitRecordFacts
  <2>4. /\ next'[s] = next[s] + 1 /\ pc'[s] = "records"
        /\ rows' = rows \cup {next[s]} /\ receipts' = receipts \cup {RecordReceipt(s)}
        /\ inserted'[s] = inserted[s] \cup {next[s]}
        /\ UNCHANGED <<snapshot, plan, granted>>
        /\ OthersKeep(s)
    BY <1>0, <1>9 DEF CommitRecord, Advance, OthersKeep, TypeOK
  <2>5. /\ plan[s].window.from \in Ordinals /\ plan[s].window.batch.end \in Ordinals
        /\ inserted[s] \subseteq Ordinals
    BY <1>0, <2>2 DEF RunOK, Plans, Windows, Batches, TypeOK
  <2>6. next[s] \in granted[s]
    BY <2>2, <2>3 DEF RunOK, Ordinals
  <2>7. IncompleteBatches(rows', receipts') \subseteq {plan[s].window.batch}
    <3>1. RecordReceipt(s).batch = plan[s].window.batch
      BY DEF RecordReceipt
    <3>2. QED
      BY <2>3, <2>4, <3>1 DEF IncompleteBatches
  <2>8. \A i \in Ordinals : i < next[s] + 1 => i \in rows' /\ (i \in inserted'[s] <=> i \in granted[s])
    <3>1. \A i \in Ordinals : i < next[s] + 1 => i < next[s] \/ i = next[s]
      BY <2>3 DEF Ordinals
    <3>2. QED
      BY <2>2, <2>4, <2>6, <3>1 DEF RunOK
  <2>9. \A i \in inserted'[s] : i < next[s] + 1
    BY <2>2, <2>3, <2>4, <2>5 DEF RunOK, Ordinals
  <2>10. \A i \in Ordinals : next[s] + 1 <= i /\ i <= plan[s].window.batch.end =>
           (i \in granted[s] <=> i \notin rows')
    BY <2>2, <2>3, <2>4, <2>5 DEF RunOK, Ordinals
  <2>11. plan[s].window.from <= next[s] + 1
    BY <2>2, <2>3, <2>5 DEF RunOK, Ordinals
  <2>12. RunOK(s)'
    <3>1. /\ plan'[s] = plan[s] /\ granted'[s] = granted[s] /\ next'[s] = next[s] + 1
          /\ pc'[s] = "records"
      BY <2>4
    <3>2. plan[s] \in Plans /\ plan[s].window.batch.start <= plan[s].window.from
      BY <2>2 DEF RunOK
    <3>3. QED
      BY <2>7, <2>8, <2>9, <2>10, <2>11, <3>1, <3>2 DEF RunOK
  <2>13. QED
    BY <1>A, <2>1, <2>4, <2>12
<1>10. ASSUME NEW s \in Sessions, SkipBatch(s) PROVE Goal
  <2>1. pc[s] = "batches" /\ pc[s] \in Running /\ next[s] <= plan[s].window.batch.end /\ Batch(s) \subseteq rows
    BY <1>10 DEF SkipBatch, InWindow, Running
  <2>2. RunOK(s)
    BY <2>1 DEF Inv
  <2>3. /\ next[s] \in Ordinals /\ plan[s].count \in Nat \ {0}
        /\ plan[s].window.from \in Ordinals /\ plan[s].window.batch.end = N
    BY <2>1, <2>2, RunBounds DEF RunOK, Plans, Windows
  <2>4. /\ next'[s] = next[s] + plan[s].count
        /\ UNCHANGED <<dbVars, pc, snapshot, plan, granted, inserted>>
        /\ OthersKeep(s)
    BY <1>0, <1>10 DEF SkipBatch, Advance, OthersKeep, TypeOK
  <2>5. \A i \in Ordinals : next[s] <= i /\ i < next[s] + plan[s].count =>
          i \in rows /\ i \notin granted[s] /\ i \notin inserted[s]
    <3>1. \A i \in Ordinals : next[s] <= i /\ i < next[s] + plan[s].count => i \in Batch(s)
      BY <2>3 DEF Batch, Last, Ordinals
    <3>2. \A i \in Ordinals : next[s] <= i => i <= plan[s].window.batch.end /\ ~ (i < next[s])
      BY <2>3 DEF Ordinals
    <3>3. QED
      BY <2>1, <2>2, <3>1, <3>2 DEF RunOK
  <2>6. \A i \in Ordinals : i < next[s] + plan[s].count => i \in rows /\ (i \in inserted[s] <=> i \in granted[s])
    <3>1. \A i \in Ordinals : i < next[s] \/ next[s] <= i
      BY <2>3 DEF Ordinals
    <3>2. QED
      BY <2>2, <2>5, <3>1 DEF RunOK
  <2>7. /\ plan[s].window.from <= next[s] + plan[s].count
        /\ \A i \in Ordinals : i < next[s] => i < next[s] + plan[s].count
        /\ \A i \in Ordinals : next[s] + plan[s].count <= i => next[s] <= i
    BY <2>2, <2>3 DEF RunOK, Ordinals
  <2>8. inserted[s] \subseteq Ordinals
    BY <1>0 DEF TypeOK
  <2>9. RunOK(s)'
    BY <2>1, <2>2, <2>4, <2>6, <2>7, <2>8 DEF RunOK, dbVars
  <2>10. QED
    BY <1>A, <2>4, <2>9 DEF dbVars
<1>11. ASSUME NEW s \in Sessions, OpenBatch(s) PROVE Goal
  <2>1. pc[s] \in Running /\ pc[s] = "batches" /\ next[s] <= plan[s].window.batch.end
    BY <1>11 DEF OpenBatch, InWindow, Running
  <2>2. RunOK(s)
    BY <2>1 DEF Inv
  <2>3. /\ pc'[s] = "batch" /\ snapshot'[s] = rows
        /\ UNCHANGED <<dbVars, plan, next, granted, inserted>>
        /\ OthersKeep(s)
    BY <1>0, <1>11 DEF OpenBatch, OthersKeep, TypeOK, runVars
  <2>4. RunOK(s)'
    BY <2>1, <2>2, <2>3 DEF RunOK, dbVars
  <2>5. QED
    BY <1>A, <2>3, <2>4 DEF dbVars
<1>12. ASSUME NEW s \in Sessions, CommitBatch(s) PROVE Goal
  <2>1. pc[s] = "batch" /\ pc[s] \in Running /\ pc[s] \in Locked
    BY <1>12 DEF CommitBatch, Running, Locked
  <2>2. RunOK(s) /\ inserted[s] \subseteq Ordinals /\ granted[s] \subseteq Ordinals
    BY <1>0, <2>1 DEF Inv, TypeOK
  <2>3. /\ next[s] \in Ordinals /\ plan[s].count \in Nat \ {0}
        /\ plan[s].window.from \in Ordinals /\ plan[s].window.batch.end = N
    BY <2>1, <2>2, RunBounds DEF RunOK, Plans, Windows
  <2>4. /\ next'[s] = next[s] + plan[s].count /\ pc'[s] = "batches"
        /\ rows' = rows \cup Batch(s) /\ inserted'[s] = inserted[s] \cup (Batch(s) \ rows)
        /\ UNCHANGED <<receipts, plan, granted>>
        /\ OthersKeep(s)
    BY <1>0, <1>12, CommitBatchFacts DEF CommitBatch, Advance, OthersKeep, TypeOK
  <2>5. /\ Batch(s) \subseteq Ordinals
        /\ \A i \in Batch(s) : next[s] <= i /\ i < next[s] + plan[s].count
        /\ \A i \in Ordinals : next[s] <= i /\ i < next[s] + plan[s].count => i \in Batch(s)
    BY <1>12, CommitBatchFacts
  <2>6. /\ \A i \in Ordinals : i < next[s] \/ next[s] <= i
        /\ \A i \in Ordinals : next[s] <= i => i <= plan[s].window.batch.end /\ ~ (i < next[s])
        /\ plan[s].window.from <= next[s] + plan[s].count
        /\ \A i \in Ordinals : i < next[s] => i < next[s] + plan[s].count
        /\ \A i \in Ordinals : next[s] + plan[s].count <= i => next[s] <= i /\ ~ (i < next[s] + plan[s].count)
    BY <2>2, <2>3 DEF RunOK, Ordinals
  <2>7. \A i \in Ordinals : i < next[s] + plan[s].count =>
          i \in rows' /\ (i \in inserted'[s] <=> i \in granted[s])
    <3> SUFFICES ASSUME NEW i \in Ordinals, i < next[s] + plan[s].count
                 PROVE  i \in rows' /\ (i \in inserted'[s] <=> i \in granted[s])
      OBVIOUS
    <3>1. CASE i < next[s]
      BY <2>2, <2>4, <3>1 DEF RunOK
    <3>2. CASE next[s] <= i
      <4>1. i \in Batch(s) /\ i <= plan[s].window.batch.end /\ i \notin inserted[s]
        BY <2>2, <2>5, <2>6, <3>2 DEF RunOK
      <4>2. QED
        BY <2>2, <2>4, <3>2, <4>1 DEF RunOK
    <3>3. QED
      BY <2>6, <3>1, <3>2
  <2>8. \A i \in inserted'[s] : i < next[s] + plan[s].count
    BY <2>2, <2>4, <2>5, <2>6 DEF RunOK
  <2>9. \A i \in Ordinals : next[s] + plan[s].count <= i /\ i <= plan[s].window.batch.end =>
           (i \in granted[s] <=> i \notin rows')
    BY <2>2, <2>4, <2>5, <2>6 DEF RunOK
  <2>10. RunOK(s)'
    BY <2>2, <2>3, <2>4, <2>6, <2>7, <2>8, <2>9 DEF RunOK
  <2>11. QED
    BY <1>A, <2>1, <2>4, <2>10
<1>13. ASSUME NEW s \in Sessions, Finish(s) \/ Interrupt(s) \/ DiscardSession(s) PROVE Goal
  <2>1. pc'[s] \notin Running /\ OthersKeep(s) /\ UNCHANGED dbVars
    BY <1>0, <1>13 DEF Finish, Interrupt, DiscardSession, EndSession, OthersKeep, TypeOK, Running
  <2>2. QED
    BY <1>A, <2>1 DEF dbVars
<1>14. ASSUME UNCHANGED <<dbVars, pc, snapshot, runVars>> PROVE Goal
  <2>1. \A t \in Sessions : pc[t] \in Running => RunOK(t)
    BY DEF Inv
  <2>2. QED
    BY <1>14, <2>1 DEF RunOK, IncompleteBatches, dbVars, runVars, Goal
<1>15. ASSUME NEW s \in Sessions, LoseConnection(s) PROVE Goal
  BY <1>14, <1>15 DEF LoseConnection, dbVars, runVars
<1>16. ASSUME UNCHANGED vars PROVE Goal
  BY <1>14, <1>16 DEF vars
<1>17. Goal
  BY <1>2, <1>3, <1>4, <1>5, <1>6, <1>7, <1>8, <1>9, <1>10, <1>11, <1>12, <1>13, <1>15, <1>16
     DEF Next, RunStep
<1>18. QED
  BY <1>17 DEF Goal

-----------------------------------------------------------------------------
(* The inductive invariant: the lock and the comparison of the fingerprint *)
(* leave one run, and that run works on what it previewed; each commit     *)
(* extends the prefix of migrated ordinals by what the run owns.           *)
THEOREM InvHolds == Spec => []Inv
<1>1. Init => Inv
  <2> SUFFICES ASSUME Init PROVE Inv
    OBVIOUS
  <2>1. TypeOK /\ LockInv
    BY RecordExecutionAssumption DEF Init, TypeOK, LockInv, Locked, Running
  <2>2. InGovernedOrder /\ ReceiptsInv /\ AlwaysAssessable
    BY DEF Init, InGovernedOrder, ReceiptsInv, AlwaysAssessable, AssessRaises, IncompleteBatches
  <2>3. \A s \in Sessions : pc[s] \notin Running
    BY DEF Init, Running
  <2>4. QED
    BY <2>1, <2>2, <2>3 DEF Inv
<1>2. Inv /\ [Next]_vars => Inv'
  BY TypeStep, LockStep, OrderStep, ReceiptsStep, AssessStep, RunsStep DEF Inv
<1>3. QED
  BY <1>1, <1>2, PTL DEF Spec

(* The migrated coordinates are always the first ones in governed order.   *)
THEOREM OrderHolds == Spec => []InGovernedOrder
<1>1. Inv => InGovernedOrder
  BY DEF Inv
<1>2. QED
  BY <1>1, InvHolds, PTL

(* Progress can always be assessed under the lock: no second incomplete    *)
(* window, and none away from the first missing ordinal.                   *)
THEOREM AssessableHolds == Spec => []AlwaysAssessable
<1>1. Inv => AlwaysAssessable
  BY DEF Inv
<1>2. QED
  BY <1>1, InvHolds, PTL

(* Each migrated coordinate has exactly one receipt that says INSERTED, of *)
(* one of the two plans, and no other coordinate has one.                  *)
THEOREM ReceiptsHold == Spec => []ReceiptsMatchRows
<1>1. ASSUME Inv PROVE ReceiptsMatchRows
  <2> SUFFICES ASSUME NEW i \in Ordinals
               PROVE  /\ i \in rows <=> InsertedReceipts(i) # {}
                      /\ \A x, y \in InsertedReceipts(i) : x = y
    BY DEF ReceiptsMatchRows
  <2>1. ReceiptsInv
    BY <1>1 DEF Inv
  <2>2. CASE i \in legacy
    <3>1. i \in rows /\ {y \in receipts : y.ordinal = i} = {}
      BY <2>1, <2>2 DEF ReceiptsInv
    <3>2. InsertedReceipts(i) = {[version |-> 2, batch |-> None]}
      BY <2>2, <3>1 DEF InsertedReceipts
    <3>3. QED
      BY <3>1, <3>2
  <2>3. CASE i \in rows \ legacy
    <3>1. PICK x \in receipts : x.ordinal = i /\ \A y \in receipts : y.ordinal = i => y = x
      BY <2>1, <2>3 DEF ReceiptsInv
    <3>2. InsertedReceipts(i) = {[version |-> 3, batch |-> x.batch]}
      BY <2>3, <3>1 DEF InsertedReceipts
    <3>3. QED
      BY <2>3, <3>2
  <2>4. CASE i \notin rows
    <3>1. i \notin legacy /\ {y \in receipts : y.ordinal = i} = {}
      BY <2>1, <2>4 DEF ReceiptsInv
    <3>2. InsertedReceipts(i) = {}
      BY <3>1 DEF InsertedReceipts
    <3>3. QED
      BY <2>4, <3>2
  <2>5. QED
    BY <2>2, <2>3, <2>4
<1>2. QED
  BY <1>1, InvHolds, PTL

(* A run commits exactly what the approved preview announced up to where   *)
(* it stands.                                                              *)
THEOREM ApprovedHolds == Spec => []ExecutesApprovedPlan
<1>1. ASSUME Inv PROVE ExecutesApprovedPlan
  <2> SUFFICES ASSUME NEW s \in Sessions, pc[s] \in Running
               PROVE  inserted[s] = granted[s] \cap (1..(next[s] - 1))
    BY DEF ExecutesApprovedPlan
  <2>1. /\ inserted[s] \subseteq Ordinals /\ granted[s] \subseteq Ordinals /\ next[s] \in Nat
        /\ RunOK(s)
    BY <1>1 DEF Inv, TypeOK
  <2>2. \A i \in Ordinals : i \in 1..(next[s] - 1) <=> i < next[s]
    BY <2>1, RecordExecutionAssumption DEF Ordinals
  <2>3. QED
    BY <2>1, <2>2 DEF RunOK
<1>2. QED
  BY <1>1, InvHolds, PTL

(* A record is written into the window that is incomplete, if there is one.*)
THEOREM IncompleteFirst == Spec => IncompleteWindowFirst
<1>1. Inv /\ [Next]_vars =>
        [\A x \in receipts' \ receipts : IncompleteBatches(rows, receipts) \subseteq {x.batch}]_vars
  <2> SUFFICES ASSUME Inv, [Next]_vars, NEW x \in receipts' \ receipts
               PROVE  IncompleteBatches(rows, receipts) \subseteq {x.batch}
    OBVIOUS
  <2>1. PICK s \in Sessions : CommitRecord(s) \/ CommitBatch(s)
    BY OnlyCommitsWrite DEF dbVars
  <2>2. CommitRecord(s) /\ x = RecordReceipt(s)
    BY <2>1 DEF CommitRecord, CommitBatch
  <2>3. QED
    BY <2>2, CommitRecordFacts DEF RecordReceipt
<1>2. QED
  BY <1>1, InvHolds, PTL DEF Spec, IncompleteWindowFirst

-----------------------------------------------------------------------------
(* The executions implement WindowedMigration.                             *)

(* What is missing right after a prefix is the first missing ordinal.      *)
LEMMA FirstIs ==
  ASSUME NEW r \in SUBSET Ordinals, NEW m \in 1..(N + 1), m \notin r,
         \A i \in Ordinals : i < m => i \in r
  PROVE  First(r) = m
<1>1. First(r) \in 1..(N + 1) /\ First(r) \notin r /\ \A i \in Ordinals : i < First(r) => i \in r
  BY FirstExists
<1>2. QED
  BY <1>1, RecordExecutionAssumption DEF Ordinals

(* The incomplete window, when there is one.                               *)
LEMMA TheActive ==
  ASSUME NEW r, NEW v
  PROVE  /\ IncompleteBatches(r, v) = {} => ActiveBatch(r, v) = None
         /\ \A b : IncompleteBatches(r, v) = {b} => ActiveBatch(r, v) = b
BY DEF ActiveBatch, HasActive

(* Every window that holds the first missing ordinal is complete exactly   *)
(* if it ends before the next one that is missing.                         *)
LEMMA CompleteUpTo ==
  ASSUME NEW r \in SUBSET Ordinals, NEW b \in Batches, NEW m \in 1..(N + 1), m \notin r,
         \A i \in Ordinals : i < m => i \in r, b.start <= m
  PROVE  b.start..b.end \subseteq r <=> b.end < m
<1>1. b.start \in Ordinals /\ b.end \in Ordinals
  BY DEF Batches
<1>2. CASE b.end < m
  BY <1>1, <1>2, RecordExecutionAssumption DEF Ordinals
<1>3. CASE m <= b.end
  <2>1. m \in b.start..b.end
    BY <1>1, <1>3, RecordExecutionAssumption DEF Ordinals
  <2>2. QED
    BY <1>1, <1>3, <2>1, RecordExecutionAssumption DEF Ordinals
<1>4. QED
  BY <1>1, <1>2, <1>3, RecordExecutionAssumption DEF Ordinals

(* The one incomplete window holds the first missing ordinal.              *)
LEMMA OneActive ==
  ASSUME Inv, HasActive(rows, receipts)
  PROVE  \E b \in Batches :
           /\ IncompleteBatches(rows, receipts) = {b}
           /\ First(rows) \in b.start..b.end
<1>1. PICK b \in IncompleteBatches(rows, receipts) : TRUE
  BY DEF HasActive
<1>2. \A c \in IncompleteBatches(rows, receipts) : c = b
  BY <1>1 DEF Inv, AlwaysAssessable, AssessRaises
<1>3. First(rows) \in b.start..b.end
  BY <1>1 DEF Inv, AlwaysAssessable, AssessRaises
<1>4. b \in Batches
  BY <1>1 DEF Inv, TypeOK, IncompleteBatches
<1>5. QED
  BY <1>1, <1>2, <1>3, <1>4

(* A record commits the next ordinal into the window that may be open.     *)
LEMMA RecordStep ==
  ASSUME Inv, Inv', NEW s \in Sessions, CommitRecord(s)
  PROVE  Migration!Record
<1> USE RecordExecutionAssumption
<1>1. PICK b \in Batches, n \in Ordinals :
        /\ b = plan[s].window.batch /\ n = next[s]
        /\ n \notin rows /\ n \in b.start..b.end
        /\ \A i \in Ordinals : i < n => i \in rows
        /\ IncompleteBatches(rows, receipts) \subseteq {b}
        /\ rows' = rows \cup {n}
        /\ receipts' = receipts \cup {[batch |-> b, ordinal |-> n]}
  BY CommitRecordFacts DEF CommitRecord, RecordReceipt
<1>2. rows \in SUBSET Ordinals /\ rows' \in SUBSET Ordinals /\ InGovernedOrder'
  BY DEF Inv, TypeOK
<1>3. First(rows) = n
  BY <1>1, <1>2, FirstIs DEF Ordinals
<1>4. n + 1 \notin rows' /\ \A i \in Ordinals : i < n + 1 => i \in rows'
  <2>1. n + 1 \notin rows
    BY <1>1 DEF Inv, InGovernedOrder, TypeOK, Ordinals
  <2>2. QED
    BY <1>1, <2>1 DEF Ordinals
<1>5. First(rows') = n + 1
  BY <1>2, <1>4, FirstIs DEF Ordinals
<1>6. b.start \in 1..n /\ b.end \in n..N
  BY <1>1 DEF Batches, Ordinals
<1>7. ActiveBatch(rows', receipts') = IF b.end = n THEN None ELSE b
  <2>1. b.start..b.end \subseteq rows' <=> b.end = n
    <3>1. b.start..b.end \subseteq rows' <=> b.end < n + 1
      BY <1>2, <1>4, <1>6, CompleteUpTo DEF Ordinals
    <3>2. QED
      BY <1>6, <3>1 DEF Ordinals
  <2>2. IncompleteBatches(rows', receipts') = IF b.end = n THEN {} ELSE {b}
    <3> DEFINE y == [batch |-> b, ordinal |-> n]
    <3>0. y.batch = b /\ receipts' = receipts \cup {y}
      BY <1>1
    <3> HIDE DEF y
    <3>1. {x.batch : x \in receipts'} = {x.batch : x \in receipts} \cup {b}
      BY <3>0
    <3>2. \A c \in IncompleteBatches(rows', receipts') : c = b
      BY <1>1, <3>1 DEF IncompleteBatches
    <3>3. b \in IncompleteBatches(rows', receipts') <=> b.end # n
      BY <2>1, <3>1 DEF IncompleteBatches
    <3>4. QED
      BY <3>2, <3>3
  <2>3. QED
    BY <2>2, TheActive
<1>8. b \in IF ActiveBatch(rows, receipts) # None THEN {ActiveBatch(rows, receipts)}
            ELSE [start : 1..n, end : n..N]
  <2>1. CASE IncompleteBatches(rows, receipts) = {}
    <3>1. b \in [start : 1..n, end : n..N]
      BY <1>6 DEF Batches
    <3>2. QED
      BY <2>1, <3>1, TheActive
  <2>2. CASE IncompleteBatches(rows, receipts) = {b}
    BY <2>2, TheActive DEF Batches
  <2>3. QED
    BY <1>1, <2>1, <2>2
<1>9. (First(rows) - 1) + 1 = n /\ First(rows') - 1 = n /\ First(rows) - 1 < N
  BY <1>3, <1>5 DEF Ordinals
<1>10. QED
  BY <1>1, <1>7, <1>8, <1>9 DEF Migration!Record, Migration!Eligible

(* A batch extends the prefix to its end, and finishes the window that it  *)
(* reaches the end of; or it finds everything there and changes nothing.   *)
LEMMA BatchStep ==
  ASSUME Inv, Inv', NEW s \in Sessions, CommitBatch(s)
  PROVE  Migration!Batch \/ UNCHANGED <<rows, receipts>>
<1> USE RecordExecutionAssumption
<1>1. /\ rows' = rows \cup Batch(s) /\ receipts' = receipts /\ Batch(s) \subseteq Ordinals
      /\ next[s] \in Nat \ {0} /\ plan[s].count \in Nat \ {0}
      /\ \A i \in Ordinals : i < next[s] => i \in rows
  BY CommitBatchFacts DEF CommitBatch
<1>2. rows \in SUBSET Ordinals /\ rows' \in SUBSET Ordinals /\ InGovernedOrder /\ InGovernedOrder'
  BY DEF Inv, TypeOK
<1>3. CASE Batch(s) \subseteq rows
  BY <1>1, <1>3
<1>4. CASE ~ (Batch(s) \subseteq rows)
  <2>1. PICK i \in Batch(s) : i \notin rows
    BY <1>4
  <2>2. PICK f \in Ordinals : f = First(rows) /\ f <= i /\ f \notin rows
                              /\ \A j \in Ordinals : j < f => j \in rows
    BY <1>1, <1>2, <2>1, FirstExists DEF Ordinals
  <2>3. PICK c \in Ordinals : Batch(s) = next[s]..c /\ f <= c
    <3>1. next[s] <= i /\ i <= Last(next[s], plan[s].count) /\ i \in Ordinals
      BY <1>1, <2>1 DEF Batch, Last, Ordinals
    <3>2. Last(next[s], plan[s].count) \in Ordinals
      BY <1>1, <3>1 DEF Last, Ordinals
    <3>3. QED
      BY <2>2, <3>1, <3>2 DEF Batch, Ordinals
  <2>4. c + 1 \notin rows' /\ \A j \in Ordinals : j < c + 1 => j \in rows'
    <3>1. c + 1 \notin rows
      BY <1>2, <2>2, <2>3 DEF InGovernedOrder, Ordinals
    <3>2. QED
      BY <1>1, <2>3, <3>1 DEF Ordinals
  <2>5. First(rows') = c + 1
    BY <1>2, <2>4, FirstIs DEF Ordinals
  <2>6. ActiveBatch(rows', receipts') =
          IF ActiveBatch(rows, receipts) # None /\ ActiveBatch(rows, receipts).end <= c
            THEN None ELSE ActiveBatch(rows, receipts)
    <3>1. IncompleteBatches(rows', receipts') \subseteq IncompleteBatches(rows, receipts)
      BY <1>1 DEF IncompleteBatches
    <3>2. CASE ~ HasActive(rows, receipts)
      BY <3>1, <3>2, TheActive DEF HasActive
    <3>3. CASE HasActive(rows, receipts)
      <4>1. PICK b \in Batches : IncompleteBatches(rows, receipts) = {b} /\ f \in b.start..b.end
        BY <2>2, <3>3, OneActive
      <4>2. ActiveBatch(rows, receipts) = b /\ b # None
        BY <4>1, TheActive DEF Batches
      <4>3. b.start \in Ordinals /\ b.end \in Ordinals /\ b.start <= c + 1
        BY <2>3, <4>1 DEF Batches, Ordinals
      <4>4. b.start..b.end \subseteq rows' <=> b.end <= c
        <5>1. b.start..b.end \subseteq rows' <=> b.end < c + 1
          BY <1>2, <2>4, <4>3, CompleteUpTo DEF Ordinals
        <5>2. QED
          BY <4>3, <5>1 DEF Ordinals
      <4>5. IncompleteBatches(rows', receipts') = IF b.end <= c THEN {} ELSE {b}
        BY <1>1, <3>1, <4>1, <4>4 DEF IncompleteBatches
      <4>6. QED
        BY <4>2, <4>5, TheActive
    <3>4. QED
      BY <3>2, <3>3
  <2>7. First(rows') - 1 = c /\ c \in ((First(rows) - 1) + 1)..N
    BY <2>2, <2>3, <2>5 DEF Ordinals
  <2>8. QED
    BY <1>1, <2>6, <2>7 DEF Migration!Batch
<1>5. QED
  BY <1>3, <1>4

(* Sessions that preview, run, repeat and lose their connections implement *)
(* one migration in order, window after window (execute_records,           *)
(* execute_spatial).                                                       *)
THEOREM Refinement == Spec => ImplementsMigration
<1>1. Init => Migration!Init
  <2> SUFFICES ASSUME Init PROVE Migration!Init
    OBVIOUS
  <2>1. First(rows) = 1
    BY FirstIs, RecordExecutionAssumption DEF Init, Ordinals
  <2>2. ActiveBatch(rows, receipts) = None
    BY TheActive DEF Init, IncompleteBatches
  <2>3. QED
    BY <2>1, <2>2 DEF Init, Migration!Init
<1>2. Inv /\ Inv' /\ [Next]_vars => [Migration!Next]_(Migration!migrationVars)
  <2> SUFFICES ASSUME Inv, Inv', [Next]_vars
               PROVE  Migration!Next \/ UNCHANGED Migration!migrationVars
    OBVIOUS
  <2>1. CASE UNCHANGED <<rows, receipts>>
    BY <2>1 DEF Migration!migrationVars
  <2>2. ASSUME NEW s \in Sessions, CommitRecord(s) PROVE Migration!Next
    BY <2>2, RecordStep DEF Migration!Next
  <2>3. ASSUME NEW s \in Sessions, CommitBatch(s)
        PROVE  Migration!Next \/ UNCHANGED <<rows, receipts>>
    BY <2>3, BatchStep DEF Migration!Next
  <2>4. QED
    BY <2>1, <2>2, <2>3, OnlyCommitsWrite DEF dbVars
<1>3. QED
  BY <1>1, <1>2, InvHolds, PTL DEF Spec, ImplementsMigration, Migration!Spec
=============================================================================
