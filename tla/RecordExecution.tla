--------------------------- MODULE RecordExecution ---------------------------
(***************************************************************************)
(* The NNGLA coordinate migration (registries/nngla/migration_ready):      *)
(* sessions of the operational CLI that preview and execute the migration  *)
(* of the governed coordinates 1..N.  execute-records commits a logical    *)
(* window one coordinate at a time, each with its receipt (plan version    *)
(* 3); the predecessor execute-spatial commits batches (plan version 2).   *)
(* Both resume from what PostgreSQL holds and nothing else.  Executions    *)
(* hold a session advisory lock; previews do not.                          *)
(*                                                                         *)
(* A coordinate is in rows when its feature, geometry and crosswalk are;   *)
(* the three are only ever written together.  A fingerprint is the record  *)
(* of what is hashed.  Source, revision, database and actors do not change *)
(* and the confirmation token is typed correctly.                          *)
(***************************************************************************)
EXTENDS Integers

CONSTANTS
  Sessions,    \* connections of the CLI; one that ended stands for the next
  N,           \* number of governed coordinates, 2411 in the code
  Counts,      \* window sizes operators ask for
  Sizes,       \* batch sizes operators ask for
  None         \* no holder, no preview, no batch

Ordinals == 1..N

ASSUME RecordExecutionAssumption ==
  /\ N \in Nat \ {0}
  /\ Counts \subseteq Ordinals /\ Sizes \subseteq Ordinals
  /\ None \notin Sessions /\ None \notin [start : Ordinals, end : Ordinals]

VARIABLES
  rows,       \* coordinates the canonical tables hold
  receipts,   \* receipts of plan version 3, with their logical batch
  legacy,     \* coordinates with an INSERTED item in a receipt of version 2
  lock,       \* holder of the advisory lock
  approved,   \* the last preview an operator was shown, or None
  pc,         \* where a session is
  connected,  \* whether its client still is
  snapshot,   \* rows as the session last read them, if it uses them later
  plan,       \* the preview a run rebuilt when it was confirmed
  next,       \* next ordinal of the loop over the window or batches
  granted,    \* history: insertions the approved preview announced
  inserted    \* history: insertions the run committed

dbVars  == <<rows, receipts, legacy>>
runVars == <<plan, next, granted, inserted>>
vars == <<dbVars, lock, approved, pc, connected, snapshot, runVars>>

Running == {"records", "record", "batches", "batch"}
Locked  == Running \cup {"prompt"}

(* The identity of a logical batch is a digest of its bounds.              *)
Batches == [start : Ordinals, end : Ordinals]
Windows == [batch : Batches, from : Ordinals]
Plans == [command : {"records", "spatial"}, count : Ordinals, first : 1..(N + 1),
          active : Batches \cup {None}, window : Windows, explicit : BOOLEAN,
          inserts : SUBSET Ordinals]

TypeOK ==
  /\ rows \subseteq Ordinals
  /\ receipts \subseteq [batch : Batches, ordinal : Ordinals]
  /\ \A x \in receipts : x.ordinal \in x.batch.start..x.batch.end
  /\ legacy \subseteq Ordinals
  /\ lock \in Sessions \cup {None}
  /\ approved \in Plans \cup {None}
  /\ pc \in [Sessions -> Locked \cup {"idle", "previewing"}]
  /\ connected \in [Sessions -> BOOLEAN]
  /\ snapshot \in [Sessions -> SUBSET Ordinals]
  /\ plan \in [Sessions -> Plans \cup {None}]
  /\ next \in [Sessions -> Nat]
  /\ granted \in [Sessions -> SUBSET Ordinals]
  /\ inserted \in [Sessions -> SUBSET Ordinals]

Init ==
  /\ rows = {} /\ receipts = {} /\ legacy = {}
  /\ lock = None
  /\ approved = None
  /\ pc = [s \in Sessions |-> "idle"]
  /\ connected = [s \in Sessions |-> TRUE]
  /\ snapshot = [s \in Sessions |-> {}]
  /\ plan = [s \in Sessions |-> None]
  /\ next = [s \in Sessions |-> 0]
  /\ granted = [s \in Sessions |-> {}]
  /\ inserted = [s \in Sessions |-> {}]

-----------------------------------------------------------------------------
(* record_progress.py: progress from the rows r and the receipts v.        *)

(* The first unfulfilled ordinal, N + 1 when there is none.                *)
First(r) == CHOOSE i \in 1..(N + 1) : i \notin r /\ 1..(i - 1) \subseteq r

Complete(r) == Ordinals \subseteq r

IncompleteBatches(r, v) ==
  {b \in {x.batch : x \in v} : ~ (b.start..b.end \subseteq r)}

AssessRaises(r, v) ==
  \E b, c \in IncompleteBatches(r, v) : b # c \/ First(r) \notin b.start..b.end

HasActive(r, v) == IncompleteBatches(r, v) # {}

ActiveBatch(r, v) ==
  IF HasActive(r, v) THEN CHOOSE b \in IncompleteBatches(r, v) : TRUE ELSE None

Last(start, count) == IF start + count - 1 <= N THEN start + count - 1 ELSE N

(* With an incomplete window an explicit range stays below the first       *)
(* missing ordinal; without, it does not begin above it.                   *)
RangeRefused(r, v, count, start) ==
  IF HasActive(r, v) THEN Last(start, count) >= First(r) ELSE start > First(r)

(* start = 0: --start-ordinal is omitted.                                  *)
SelectRaises(r, v, count, start) ==
  start # 0 /\ ~ Complete(r) /\ RangeRefused(r, v, count, start)

(* Mutated form: a normal run opens the window the count asks for.         *)
NeverResumes(r, v, start) == FALSE

Resumes(r, v, start) == start = 0 /\ HasActive(r, v)

Window(r, v, count, start) ==
  IF Resumes(r, v, start)
    THEN [batch |-> ActiveBatch(r, v), from |-> First(r)]
    ELSE LET from == IF start = 0 THEN First(r) ELSE start IN
           [batch |-> [start |-> from, end |-> Last(from, count)], from |-> from]

(* build_record_preview raises, or finds nothing left to select.           *)
NoWindow(r, v, count, start) ==
  \/ AssessRaises(r, v)
  \/ SelectRaises(r, v, count, start)
  \/ start = 0 /\ Complete(r)

RecordPreview(r, v, count, start) ==
  LET w == Window(r, v, count, start) IN
    [command |-> "records", count |-> count, first |-> First(r), active |-> ActiveBatch(r, v),
     window |-> w, explicit |-> start # 0, inserts |-> (w.from..w.batch.end) \ r]

(* build_spatial_preview over fixed windows of the given size.             *)
SpatialPreview(r, size) ==
  [command |-> "spatial", count |-> size, first |-> First(r), active |-> None,
   window |-> [batch |-> [start |-> 1, end |-> N], from |-> 1], explicit |-> FALSE,
   inserts |-> Ordinals \ r]

-----------------------------------------------------------------------------
(* preview-records and preview-spatial read the target without the lock:   *)
(* first the rows, the receipts after them.  A row committed between the   *)
(* queries for the rows makes the preview raise: those are one read here.  *)

ReadTarget(s) ==
  /\ pc[s] = "idle"
  /\ pc' = [pc EXCEPT ![s] = "previewing"]
  /\ snapshot' = [snapshot EXCEPT ![s] = rows]
  /\ UNCHANGED <<dbVars, lock, approved, connected, runVars>>

PreviewRecords(s, count, start) ==
  /\ pc[s] = "previewing"
  /\ pc' = [pc EXCEPT ![s] = "idle"]
  /\ snapshot' = [snapshot EXCEPT ![s] = {}]
  /\ approved' = IF NoWindow(snapshot[s], receipts, count, start) THEN approved
                 ELSE RecordPreview(snapshot[s], receipts, count, start)
  /\ UNCHANGED <<dbVars, lock, connected, runVars>>

PreviewSpatial(s, size) ==
  /\ pc[s] = "previewing"
  /\ pc' = [pc EXCEPT ![s] = "idle"]
  /\ snapshot' = [snapshot EXCEPT ![s] = {}]
  /\ approved' = SpatialPreview(snapshot[s], size)
  /\ UNCHANGED <<dbVars, lock, connected, runVars>>

-----------------------------------------------------------------------------
(* execute-records and execute-spatial: the lock, tried and not waited     *)
(* for; the prompt; the preview built again and compared; the loop.        *)

(* Mutated form: the executions take no lock.                              *)
LockAlwaysFree == TRUE

LockFree == lock = None

Acquire(s) ==
  /\ pc[s] = "idle"
  /\ LockFree
  /\ lock' = s
  /\ pc' = [pc EXCEPT ![s] = "prompt"]
  /\ UNCHANGED <<dbVars, approved, connected, snapshot, runVars>>

(* The session ends: its transaction is rolled back, its lock released.    *)
EndSession(s) ==
  /\ pc' = [pc EXCEPT ![s] = "idle"]
  /\ connected' = [connected EXCEPT ![s] = TRUE]
  /\ snapshot' = [snapshot EXCEPT ![s] = {}]
  /\ plan' = [plan EXCEPT ![s] = None]
  /\ next' = [next EXCEPT ![s] = 0]
  /\ granted' = [granted EXCEPT ![s] = {}]
  /\ inserted' = [inserted EXCEPT ![s] = {}]
  /\ lock' = IF lock = s THEN None ELSE lock

(* Mutated form: a stale fingerprint for the same window is accepted.      *)
MatchesWindow(p) == approved # None /\ approved.window = p.window

Matches(p) == approved = p

Confirm(s, p) ==
  /\ pc[s] = "prompt" /\ connected[s]
  /\ Matches(p)
  /\ plan' = [plan EXCEPT ![s] = p]
  /\ next' = [next EXCEPT ![s] = p.window.from]
  /\ granted' = [granted EXCEPT ![s] = approved.inserts]
  /\ inserted' = [inserted EXCEPT ![s] = {}]
  /\ UNCHANGED <<dbVars, lock, approved, connected, snapshot>>

ConfirmRecords(s, count, start) ==
  /\ ~ NoWindow(rows, receipts, count, start)
  /\ Confirm(s, RecordPreview(rows, receipts, count, start))
  /\ pc' = [pc EXCEPT ![s] = "records"]

ConfirmSpatial(s, size) ==
  /\ Confirm(s, SpatialPreview(rows, size))
  /\ pc' = [pc EXCEPT ![s] = "batches"]

InWindow(s) == next[s] <= plan[s].window.batch.end

Advance(s, n) == next' = [next EXCEPT ![s] = @ + n]

(* Mutated form: a record that is there already is looked at again.        *)
StayOnReused(s) ==
  /\ pc[s] = "records" /\ connected[s]
  /\ InWindow(s)
  /\ next[s] \in rows
  /\ UNCHANGED vars

ReuseRecord(s) ==
  /\ pc[s] = "records" /\ connected[s]
  /\ InWindow(s)
  /\ next[s] \in rows
  /\ Advance(s, 1)
  /\ UNCHANGED <<dbVars, lock, approved, pc, connected, snapshot, plan, granted, inserted>>

(* persist_point, verification and receipt, up to the commit.              *)
OpenRecord(s) ==
  /\ pc[s] = "records" /\ connected[s]
  /\ InWindow(s)
  /\ next[s] \notin rows
  /\ pc' = [pc EXCEPT ![s] = "record"]
  /\ UNCHANGED <<dbVars, lock, approved, connected, snapshot, runVars>>

RecordReceipt(s) == [batch |-> plan[s].window.batch, ordinal |-> next[s]]

(* Mutated form: the receipt is written after the commit, by a client that *)
(* may be gone.                                                            *)
CommitWithoutReceipt(s) ==
  /\ pc[s] = "record"
  /\ rows' = rows \cup {next[s]}
  /\ receipts' = IF connected[s] THEN receipts \cup {RecordReceipt(s)} ELSE receipts
  /\ inserted' = [inserted EXCEPT ![s] = @ \cup {next[s]}]
  /\ Advance(s, 1)
  /\ pc' = [pc EXCEPT ![s] = "records"]
  /\ UNCHANGED <<legacy, lock, approved, connected, snapshot, plan, granted>>

(* COMMIT was sent: it may take effect when the client is gone.            *)
CommitRecord(s) ==
  /\ pc[s] = "record"
  /\ rows' = rows \cup {next[s]}
  /\ receipts' = receipts \cup {RecordReceipt(s)}
  /\ inserted' = [inserted EXCEPT ![s] = @ \cup {next[s]}]
  /\ Advance(s, 1)
  /\ pc' = [pc EXCEPT ![s] = "records"]
  /\ UNCHANGED <<legacy, lock, approved, connected, snapshot, plan, granted>>

Batch(s) == next[s]..Last(next[s], plan[s].count)

SkipBatch(s) ==
  /\ pc[s] = "batches" /\ connected[s]
  /\ InWindow(s)
  /\ Batch(s) \subseteq rows
  /\ Advance(s, plan[s].count)
  /\ UNCHANGED <<dbVars, lock, approved, pc, connected, snapshot, plan, granted, inserted>>

(* The actions are decided on a snapshot read before the transaction.      *)
OpenBatch(s) ==
  /\ pc[s] = "batches" /\ connected[s]
  /\ InWindow(s)
  /\ ~ (Batch(s) \subseteq rows)
  /\ snapshot' = [snapshot EXCEPT ![s] = rows]
  /\ pc' = [pc EXCEPT ![s] = "batch"]
  /\ UNCHANGED <<dbVars, lock, approved, connected, runVars>>

ItemsInserted(s) == Batch(s) \ snapshot[s]

CommitBatch(s) ==
  /\ pc[s] = "batch"
  /\ rows' = rows \cup Batch(s)
  /\ legacy' = legacy \cup ItemsInserted(s)
  /\ inserted' = [inserted EXCEPT ![s] = @ \cup ItemsInserted(s)]
  /\ Advance(s, plan[s].count)
  /\ pc' = [pc EXCEPT ![s] = "batches"]
  /\ snapshot' = [snapshot EXCEPT ![s] = {}]
  /\ UNCHANGED <<receipts, lock, approved, connected, plan, granted>>

Finish(s) ==
  /\ pc[s] \in {"records", "batches"} /\ connected[s]
  /\ ~ InWindow(s)
  /\ EndSession(s)
  /\ UNCHANGED <<dbVars, approved>>

(* An error, or the operator gives up or is refused.                       *)
Interrupt(s) ==
  /\ pc[s] \in Locked /\ connected[s]
  /\ EndSession(s)
  /\ UNCHANGED <<dbVars, approved>>

(* The connection is lost; the server notices some time later.             *)
LoseConnection(s) ==
  /\ pc[s] \in Locked /\ connected[s]
  /\ connected' = [connected EXCEPT ![s] = FALSE]
  /\ UNCHANGED <<dbVars, lock, approved, pc, snapshot, runVars>>

DiscardSession(s) ==
  /\ ~ connected[s]
  /\ EndSession(s)
  /\ UNCHANGED <<dbVars, approved>>

RunStep(s) ==
  \/ ReuseRecord(s) \/ OpenRecord(s) \/ CommitRecord(s)
  \/ SkipBatch(s) \/ OpenBatch(s) \/ CommitBatch(s)
  \/ Finish(s) \/ DiscardSession(s)

Next ==
  \E s \in Sessions :
    \/ ReadTarget(s)
    \/ \E count \in Counts, start \in 0..N :
         PreviewRecords(s, count, start) \/ ConfirmRecords(s, count, start)
    \/ \E size \in Sizes : PreviewSpatial(s, size) \/ ConfirmSpatial(s, size)
    \/ Acquire(s) \/ Interrupt(s) \/ LoseConnection(s)
    \/ RunStep(s)

Spec == Init /\ [][Next]_vars

(* The loops run on once confirmed, and PostgreSQL ends the session of a   *)
(* client that is gone.  The operator at the prompt is not fair.           *)
Fairness == \A s \in Sessions : WF_vars(RunStep(s))

FairSpec == Spec /\ Fairness

-----------------------------------------------------------------------------
(* However windows, ranges, batches and lost connections mix, the migrated *)
(* coordinates are the first ones in governed order: no ordinal is passed  *)
(* over. (record_progress.py: "no new data may be inserted around it")     *)
InGovernedOrder == \A i \in rows : 1..i \subseteq rows

(* Each migrated coordinate has exactly one receipt that says INSERTED, of *)
(* either plan, and there is no such receipt for any other coordinate: the *)
(* coverage that the final verification counts is complete with the rows.  *)
InsertedReceipts(i) ==
  {[version |-> 3, batch |-> x.batch] : x \in {y \in receipts : y.ordinal = i}} \cup
  {[version |-> 2, batch |-> None] : x \in legacy \cap {i}}

ReceiptsMatchRows ==
  \A i \in Ordinals :
    /\ i \in rows <=> InsertedReceipts(i) # {}
    /\ \A x, y \in InsertedReceipts(i) : x = y

(* The progress can always be assessed: there is never a second incomplete *)
(* window, or one away from the first missing ordinal, so a preview under  *)
(* the lock never raises and the migration can always be resumed.          *)
AlwaysAssessable == ~ AssessRaises(rows, receipts)

(* A run commits exactly the insertions the approved preview announced, in *)
(* order, although the preview was made without the lock and other runs    *)
(* may have ended in between.                                              *)
ExecutesApprovedPlan ==
  \A s \in Sessions : pc[s] \in Running =>
    inserted[s] = granted[s] \cap (1..(next[s] - 1))

(* A durable incomplete window is finished, by records of its own batch,   *)
(* before another window writes, whatever count is typed on the reconnect. *)
IncompleteWindowFirst ==
  [][\A x \in receipts' \ receipts : IncompleteBatches(rows, receipts) \subseteq {x.batch}]_vars

(* Whatever sessions preview, confirm, repeat and lose their connections,  *)
(* the database goes through the steps of one migration in order, window   *)
(* after window (execute_records and execute_spatial over what             *)
(* record_progress.py reads).                                              *)
Migration == INSTANCE WindowedMigration WITH
  done <- First(rows) - 1,
  open <- ActiveBatch(rows, receipts)

ImplementsMigration == Migration!Spec

(* A confirmed run ends, also when its client is gone.                     *)
RunEnds == \A s \in Sessions : pc[s] \in Running ~> pc[s] = "idle"

-----------------------------------------------------------------------------
(* The inductive invariant: the lock is held by whoever runs, each row has *)
(* one receipt, and a run has everything before its next ordinal and only  *)
(* its own window, if any, incomplete.                                     *)
LockInv ==
  \A s \in Sessions :
    /\ pc[s] \in Locked => lock = s
    /\ ~ connected[s] => pc[s] \in Locked

ReceiptsInv ==
  /\ legacy \subseteq rows
  /\ \A x \in receipts : x.ordinal \in rows \ legacy
  /\ \A i \in rows \ legacy : \E x \in receipts : x.ordinal = i
  /\ \A x, y \in receipts : x.ordinal = y.ordinal => x = y

RunOK(s) ==
  LET w == plan[s].window IN
    /\ plan[s] \in Plans
    /\ w.batch.start <= w.from /\ w.from <= next[s]
    /\ \A i \in Ordinals : i < next[s] => i \in rows /\ (i \in inserted[s] <=> i \in granted[s])
    /\ \A i \in inserted[s] : i < next[s]
    /\ \A i \in Ordinals : next[s] <= i /\ i <= w.batch.end => (i \in granted[s] <=> i \notin rows)
    /\ pc[s] \in {"record", "batch"} => next[s] <= w.batch.end
    /\ pc[s] = "record" => next[s] \notin rows
    /\ pc[s] = "batch" => snapshot[s] = rows
    /\ pc[s] \in {"batches", "batch"} => w.batch.end = N
    /\ pc[s] \in {"records", "record"} =>
         \/ IncompleteBatches(rows, receipts) \subseteq {w.batch}
         \/ w.batch.start..w.batch.end \subseteq rows

Inv ==
  /\ TypeOK
  /\ LockInv
  /\ InGovernedOrder
  /\ ReceiptsInv
  /\ AlwaysAssessable
  /\ \A s \in Sessions : pc[s] \in Running => RunOK(s)
==============================================================================
