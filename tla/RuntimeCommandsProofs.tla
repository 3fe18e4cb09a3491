------------------------ MODULE RuntimeCommandsProofs ------------------------
(***************************************************************************)
(* Proofs about RuntimeCommands, for every set of callers, keys, commands  *)
(* and batches, with or without transactions.                              *)
(***************************************************************************)
EXTENDS RuntimeCommands, TLAPS

(* What is common to the outcomes of an item: everything but the call's    *)
(* own position stays, and the call moves on or ends.                      *)
MovesOn(t) ==
  /\ item' \in [Callers -> Nat \ {0}]
  /\ \A u \in Callers \ {t} : item'[u] = item[u] /\ pc'[u] = pc[u]
  /\ pc'[t] \in {"idle", "dispatching", "returning"}
  /\ pc' \in [Callers -> InCall \cup {"idle", "returning"}]
  /\ pc'[t] = "dispatching" => item'[t] \in 1..Len(batch[t])

(* Every call works on a sequence of commands.                             *)
LEMMA BatchIsSequence ==
  ASSUME TypeOK, NEW t \in Callers
  PROVE  batch[t] \in Seq(Commands)
<1>1. batch[t] \in Batches \cup {<<>>}
  BY DEF TypeOK
<1>2. <<>> \in Seq(Commands)
  OBVIOUS
<1>3. QED
  BY <1>1, <1>2, CommandsAssumption

(* The command being executed is one of Commands.                          *)
LEMMA CurrentIsCommand ==
  ASSUME TypeOK, NEW t \in Callers, pc[t] \in InCall
  PROVE  Current(t) \in Commands /\ Current(t).key \in Keys /\ ThisRun(t) \in Runs
<1>1. batch[t] \in Seq(Commands) /\ item[t] \in 1..Len(batch[t])
  BY BatchIsSequence DEF TypeOK
<1>2. Current(t) \in Commands
  BY <1>1 DEF Current
<1>3. Current(t).key \in Keys
  BY <1>2, CommandsAssumption
<1>4. calls[t] \in Nat /\ item[t] \in Nat
  BY DEF TypeOK
<1>5. QED
  BY <1>2, <1>3, <1>4 DEF ThisRun, Runs

(* After an item the call is at the next one or at its end.                *)
LEMMA NextItemMovesOn ==
  ASSUME TypeOK, NEW t \in Callers, NextItem(t)
  PROVE  MovesOn(t)
<1>0. item[t] \in Nat \ {0}
  BY DEF TypeOK
<1>1. item[t] + 1 \in Nat \ {0} /\ batch[t] \in Seq(Commands)
  BY <1>0, BatchIsSequence
<1>2. Position(batch[t], item[t] + 1) \in {"dispatching", "returning"}
  BY DEF Position
<1>3. Position(batch[t], item[t] + 1) = "dispatching" => item[t] + 1 \in 1..Len(batch[t])
  BY <1>1 DEF Position
<1>4. item' = [item EXCEPT ![t] = item[t] + 1]
      /\ pc' = [pc EXCEPT ![t] = Position(batch[t], item[t] + 1)]
  BY DEF NextItem
<1>5. item \in [Callers -> Nat \ {0}] /\ pc \in [Callers -> InCall \cup {"idle", "returning"}]
  BY DEF TypeOK
<1>6. item' \in [Callers -> Nat \ {0}] /\ item'[t] = item[t] + 1
  BY <1>1, <1>4, <1>5
<1>7. pc' \in [Callers -> InCall \cup {"idle", "returning"}]
      /\ pc'[t] = Position(batch[t], item[t] + 1)
  BY <1>2, <1>4, <1>5 DEF InCall
<1>8. \A u \in Callers \ {t} : item'[u] = item[u] /\ pc'[u] = pc[u]
  BY <1>4, <1>5
<1>9. QED
  BY <1>2, <1>3, <1>6, <1>7, <1>8 DEF MovesOn

(* A receipt for the current command.                                      *)
Fits(t, run, replayed) ==
  /\ run \in Runs
  /\ run.command.key = Current(t).key
  /\ run.command.fingerprint = Current(t).fingerprint
  /\ ~ replayed => run.caller = t

AnswersType == [asked : Commands, run : Runs, replayed : BOOLEAN]

(* The parts of TypeOK and ReceiptAnswersCommand about the results.        *)
ResultsOK ==
  /\ receipts \in [Callers -> Seq(AnswersType)]
  /\ failures \in [Callers -> Nat]
  /\ outcome \in [Callers -> {"none", "returned", "raised"}]
  /\ uncommitted \in [Callers -> SUBSET Runs]
  /\ ReceiptAnswersCommand

(* A fitting receipt is added to the results.                              *)
LEMMA AnswerStep ==
  ASSUME TypeOK, ReceiptAnswersCommand, NEW t \in Callers, pc[t] \in InCall,
         NEW run \in Runs, NEW replayed \in BOOLEAN, Fits(t, run, replayed),
         Answer(t, run, replayed)
  PROVE  MovesOn(t) /\ ResultsOK'
<1>1. MovesOn(t)
  BY NextItemMovesOn DEF Answer
<1> DEFINE new == [asked |-> Current(t), run |-> run, replayed |-> replayed]
<1>2. new \in AnswersType
  BY CurrentIsCommand DEF AnswersType
<1>3. receipts \in [Callers -> Seq(AnswersType)]
  BY DEF TypeOK, AnswersType
<1>4. receipts' = [receipts EXCEPT ![t] = Append(receipts[t], new)]
  BY DEF Answer
<1>5. receipts[t] \in Seq(AnswersType) /\ Append(receipts[t], new) \in Seq(AnswersType)
  BY <1>2, <1>3
<1>6. receipts' \in [Callers -> Seq(AnswersType)]
  BY <1>3, <1>4, <1>5
<1>7. ReceiptAnswersCommand'
  <2> SUFFICES ASSUME NEW u \in Callers, NEW i \in 1..Len(receipts'[u])
               PROVE  LET r == receipts'[u][i] IN
                        /\ r.run.command.key = r.asked.key
                        /\ r.run.command.fingerprint = r.asked.fingerprint
                        /\ ~ r.replayed => r.run.caller = u
    BY DEF ReceiptAnswersCommand
  <2>1. CASE u # t
    <3>1. receipts'[u] = receipts[u]
      BY <1>3, <1>4, <2>1
    <3>2. QED
      BY <3>1 DEF ReceiptAnswersCommand
  <2>2. CASE u = t
    <3>1. receipts'[u] = Append(receipts[t], new)
      BY <1>3, <1>4, <2>2
    <3>2. CASE i = Len(receipts[t]) + 1
      <4>1. receipts'[u][i] = new
        BY <1>5, <3>1, <3>2
      <4>2. QED
        BY <2>2, <4>1 DEF Fits
    <3>3. CASE i # Len(receipts[t]) + 1
      <4>1. i \in 1..Len(receipts[t]) /\ receipts'[u][i] = receipts[t][i]
        BY <1>2, <1>5, <3>1, <3>3
      <4>2. QED
        BY <2>2, <4>1 DEF ReceiptAnswersCommand
    <3>4. QED
      BY <3>2, <3>3
  <2>3. QED
    BY <2>1, <2>2
<1>8. UNCHANGED <<failures, outcome, uncommitted>>
  BY DEF Answer
<1>9. QED
  BY <1>1, <1>6, <1>7, <1>8 DEF ResultsOK, TypeOK

(* An exception ends the call without results.                             *)
LEMMA RaiseStep ==
  ASSUME TypeOK, ReceiptAnswersCommand, NEW t \in Callers, Raise(t)
  PROVE  MovesOn(t) /\ ResultsOK'
<1>1. MovesOn(t)
  BY DEF Raise, MovesOn, TypeOK
<1>2. receipts \in [Callers -> Seq(AnswersType)]
  BY DEF TypeOK, AnswersType
<1>3. receipts' = [receipts EXCEPT ![t] = <<>>]
  BY DEF Raise
<1>4. receipts' \in [Callers -> Seq(AnswersType)]
  BY <1>2, <1>3
<1>5. ReceiptAnswersCommand'
  <2>1. \A u \in Callers : receipts'[u] = receipts[u] \/ receipts'[u] = <<>>
    BY <1>2, <1>3
  <2>2. QED
    BY <2>1 DEF ReceiptAnswersCommand
<1>6. failures' \in [Callers -> Nat] /\ outcome' \in [Callers -> {"none", "returned", "raised"}]
      /\ uncommitted' \in [Callers -> SUBSET Runs]
  BY DEF Raise, TypeOK
<1>7. QED
  BY <1>1, <1>4, <1>5, <1>6 DEF ResultsOK

(* A failed item ends the call or is counted.                              *)
LEMMA FailStep ==
  ASSUME TypeOK, ReceiptAnswersCommand, NEW t \in Callers, Fail(t)
  PROVE  MovesOn(t) /\ ResultsOK'
<1>1. CASE ContinuesAfterFailure(t)
  <2>1. MovesOn(t)
    BY <1>1, NextItemMovesOn DEF Fail
  <2>2. failures' \in [Callers -> Nat] /\ UNCHANGED <<receipts, outcome, uncommitted>>
    BY <1>1 DEF Fail, TypeOK
  <2>3. QED
    BY <2>1, <2>2 DEF ResultsOK, TypeOK, AnswersType, ReceiptAnswersCommand
<1>2. CASE ~ ContinuesAfterFailure(t)
  BY <1>2, RaiseStep DEF Fail
<1>3. QED
  BY <1>1, <1>2

(* An item that ends without a new receipt keeps the invariant, provided   *)
(* that a run without receipt is not forgotten.                            *)
LEMMA ItemEnds ==
  ASSUME ReceiptInv, NEW t \in Callers, MovesOn(t), ResultsOK',
         UNCHANGED <<handlers, records, runs, effects, callVars, restarts>>,
         pc[t] = "storing" => records[Current(t).key] # NoRecord
  PROVE  ReceiptInv'
<1> USE DEF ReceiptInv, callVars
<1>1. TypeOK'
  <2>1. \A u \in Callers : pc'[u] \in InCall => item'[u] \in 1..Len(batch[u])
    BY DEF MovesOn, TypeOK, InCall
  <2>2. pc' \in [Callers -> InCall \cup {"idle", "returning"}] /\ item' \in [Callers -> Nat \ {0}]
    BY DEF MovesOn
  <2>3. QED
    BY <2>1, <2>2 DEF TypeOK, ResultsOK, AnswersType
<1>2. ReceiptAnswersCommand' /\ CallerRunsOnce' /\ ReceiptMeansEffect' /\ RecordsMatchKeys' /\ RunsOfHandlers'
  BY DEF ResultsOK, CallerRunsOnce, ReceiptMeansEffect, RecordsMatchKeys, RunsOfHandlers
<1>3. \A u \in Callers \ {t} : pc'[u] = pc[u] /\ Current(u)' = Current(u) /\ ThisRun(u)' = ThisRun(u)
  BY DEF MovesOn, Current, ThisRun
<1>4. pc'[t] \notin {"handling", "storing"}
  BY DEF MovesOn
<1>5. RunsLeadToReceipts'
  <2> SUFFICES ASSUME NEW r \in runs
               PROVE  \/ records[r.command.key] # NoRecord
                      \/ pc'[r.caller] = "storing" /\ Current(r.caller)'.key = r.command.key
    BY DEF RunsLeadToReceipts
  <2>1. r.caller \in Callers
    BY DEF TypeOK, Runs
  <2>2. QED
    BY <2>1, <1>3 DEF RunsLeadToReceipts
<1>6. HandlingIsFirst' /\ StoringHasRun'
  BY <1>3, <1>4 DEF HandlingIsFirst, StoringHasRun
<1>7. QED
  BY <1>1, <1>2, <1>5, <1>6

(* The receipt of a run is stored.                                         *)
LEMMA ReceiptStored ==
  ASSUME ReceiptInv, NEW t \in Callers, pc[t] = "storing", MovesOn(t), ResultsOK',
         records[Current(t).key] = NoRecord,
         records' = [records EXCEPT ![Current(t).key] = ThisRun(t)],
         UNCHANGED <<handlers, runs, effects, callVars, restarts>>
  PROVE  ReceiptInv'
<1> USE DEF ReceiptInv, callVars
<1>0. Current(t).key \in Keys /\ ThisRun(t) \in Runs /\ ThisRun(t).command = Current(t)
  BY CurrentIsCommand DEF InCall, ThisRun
<1>1. TypeOK'
  <2>1. \A u \in Callers : pc'[u] \in InCall => item'[u] \in 1..Len(batch[u])
    BY DEF MovesOn, TypeOK, InCall
  <2>2. pc' \in [Callers -> InCall \cup {"idle", "returning"}] /\ item' \in [Callers -> Nat \ {0}]
    BY DEF MovesOn
  <2>3. records' \in [Keys -> Runs \cup {NoRecord}]
    BY <1>0 DEF TypeOK
  <2>4. QED
    BY <2>1, <2>2, <2>3 DEF TypeOK, ResultsOK, AnswersType
<1>2. ReceiptAnswersCommand' /\ CallerRunsOnce'
  BY DEF ResultsOK, CallerRunsOnce
<1>3. \A k \in Keys : records'[k] = IF k = Current(t).key THEN ThisRun(t) ELSE records[k]
  BY DEF TypeOK
<1>4. ReceiptMeansEffect' /\ RecordsMatchKeys' /\ RunsOfHandlers'
  <2>1. ThisRun(t).caller = t
    BY DEF ThisRun
  <2>2. QED
    BY <2>1, <1>0, <1>3 DEF ReceiptMeansEffect, RecordsMatchKeys, StoringHasRun, RunsOfHandlers
<1>5. \A u \in Callers \ {t} : pc'[u] = pc[u] /\ Current(u)' = Current(u) /\ ThisRun(u)' = ThisRun(u)
  BY DEF MovesOn, Current, ThisRun
<1>6. pc'[t] \notin {"handling", "storing"}
  BY DEF MovesOn
<1>7. RunsLeadToReceipts'
  <2> SUFFICES ASSUME NEW r \in runs
               PROVE  \/ records'[r.command.key] # NoRecord
                      \/ pc'[r.caller] = "storing" /\ Current(r.caller)'.key = r.command.key
    BY DEF RunsLeadToReceipts
  <2>1. r.caller \in Callers /\ r.command.key \in Keys
    BY CommandsAssumption DEF TypeOK, Runs
  <2>2. CASE r.command.key = Current(t).key
    BY <1>0, <1>3, <2>1, <2>2, NoRecordAssumption
  <2>3. CASE r.command.key # Current(t).key
    BY <1>3, <1>5, <2>1, <2>3 DEF RunsLeadToReceipts
  <2>4. QED
    BY <2>2, <2>3
<1>8. HandlingIsFirst' /\ StoringHasRun'
  BY <1>5, <1>6 DEF HandlingIsFirst, StoringHasRun
<1>9. QED
  BY <1>1, <1>2, <1>4, <1>7, <1>8

(* Nothing has happened: the invariant holds to begin with.                *)
LEMMA InitInv == Init => ReceiptInv
<1> SUFFICES ASSUME Init PROVE ReceiptInv
  OBVIOUS
<1> USE DEF Init
<1>1. TypeOK
  <2>1. <<>> \in Seq([asked : Commands, run : Runs, replayed : BOOLEAN])
    OBVIOUS
  <2>2. receipts \in [Callers -> Seq([asked : Commands, run : Runs, replayed : BOOLEAN])]
    BY <2>1
  <2>3. records \in [Keys -> Runs \cup {NoRecord}] /\ uncommitted \in [Callers -> SUBSET Runs]
    OBVIOUS
  <2>4. pc \in [Callers -> InCall \cup {"idle", "returning"}]
        /\ \A t \in Callers : pc[t] \in InCall => item[t] \in 1..Len(batch[t])
    BY DEF InCall
  <2>5. /\ calls \in [Callers -> Nat] /\ policy \in [Callers -> Policies]
        /\ batch \in [Callers -> Batches \cup {<<>>}] /\ item \in [Callers -> Nat \ {0}]
        /\ failures \in [Callers -> Nat] /\ outcome \in [Callers -> {"none", "returned", "raised"}]
    BY DEF Policies
  <2>6. QED
    BY <2>2, <2>3, <2>4, <2>5 DEF TypeOK
<1>2. ReceiptAnswersCommand
  BY DEF ReceiptAnswersCommand
<1>3. CallerRunsOnce /\ ReceiptMeansEffect /\ RunsLeadToReceipts /\ HandlingIsFirst
  BY DEF CallerRunsOnce, ReceiptMeansEffect, RunsLeadToReceipts, HandlingIsFirst
<1>4. StoringHasRun /\ RecordsMatchKeys /\ RunsOfHandlers
  BY DEF StoringHasRun, RecordsMatchKeys, RunsOfHandlers
<1>5. QED
  BY <1>1, <1>2, <1>3, <1>4 DEF ReceiptInv

(* A caller between two calls begins one.                                  *)
LEMMA BeginStep ==
  ASSUME ReceiptInv, NEW t \in Callers, NEW p \in Policies, NEW b \in Batches, Begin(t, p, b)
  PROVE  ReceiptInv'
<1> USE DEF ReceiptInv, effectVars
<1>1. pc[t] = "idle" /\ UNCHANGED <<handlers, records, runs, effects, uncommitted, restarts>>
  BY DEF Begin
<1>2. pc'[t] \in {"idle", "dispatching", "returning"} /\ (pc'[t] = "dispatching" => 1 \in 1..Len(b))
  <2>1. b \in Seq(Commands)
    BY CommandsAssumption
  <2>2. pc[t] = "idle" /\ pc' = [pc EXCEPT ![t] = pc'[t]]
    BY DEF Begin, TypeOK
  <2>3. pc'[t] = "idle" \/ pc'[t] = Position(b, 1)
    BY DEF Begin, TypeOK
  <2>4. QED
    BY <2>1, <2>3 DEF Position
<1>3. \A u \in Callers \ {t} : pc'[u] = pc[u] /\ item'[u] = item[u] /\ batch'[u] = batch[u]
                               /\ calls'[u] = calls[u] /\ receipts'[u] = receipts[u]
  BY DEF Begin, TypeOK
<1>4. item'[t] = 1 /\ batch'[t] = b /\ receipts'[t] = <<>>
  BY DEF Begin, TypeOK
<1>5. TypeOK'
  <2>1. pc' \in [Callers -> InCall \cup {"idle", "returning"}]
    <3>1. DOMAIN pc' = Callers /\ pc' = [pc EXCEPT ![t] = pc'[t]]
      BY DEF Begin, TypeOK
    <3>2. QED
      BY <1>2, <3>1 DEF TypeOK, InCall
  <2>2. calls' \in [Callers -> Nat] /\ policy' \in [Callers -> Policies]
        /\ batch' \in [Callers -> Batches \cup {<<>>}] /\ item' \in [Callers -> Nat \ {0}]
        /\ failures' \in [Callers -> Nat]
    BY DEF Begin, TypeOK
  <2>3. outcome' \in [Callers -> {"none", "returned", "raised"}]
    BY DEF Begin, TypeOK
  <2>4. receipts' \in [Callers -> Seq(AnswersType)]
    <3>1. receipts' = [receipts EXCEPT ![t] = <<>>] /\ receipts \in [Callers -> Seq(AnswersType)]
      BY DEF Begin, TypeOK, AnswersType
    <3>2. QED
      BY <3>1
  <2>5. \A u \in Callers : pc'[u] \in InCall => item'[u] \in 1..Len(batch'[u])
    BY <1>2, <1>3, <1>4 DEF TypeOK, InCall
  <2>6. QED
    BY <1>1, <2>1, <2>2, <2>3, <2>4, <2>5 DEF TypeOK, AnswersType
<1>6. ReceiptAnswersCommand'
  BY <1>3, <1>4 DEF ReceiptAnswersCommand
<1>7. CallerRunsOnce' /\ ReceiptMeansEffect' /\ RecordsMatchKeys' /\ RunsOfHandlers'
  BY <1>1 DEF CallerRunsOnce, ReceiptMeansEffect, RecordsMatchKeys, RunsOfHandlers
<1>8. \A u \in Callers \ {t} : Current(u)' = Current(u) /\ ThisRun(u)' = ThisRun(u)
  BY <1>3 DEF Current, ThisRun
<1>9. RunsLeadToReceipts'
  <2> SUFFICES ASSUME NEW r \in runs
               PROVE  \/ records[r.command.key] # NoRecord
                      \/ pc'[r.caller] = "storing" /\ Current(r.caller)'.key = r.command.key
    BY <1>1 DEF RunsLeadToReceipts
  <2>1. r.caller \in Callers
    BY DEF TypeOK, Runs
  <2>2. QED
    BY <2>1, <1>1, <1>3, <1>8 DEF RunsLeadToReceipts
<1>10. HandlingIsFirst' /\ StoringHasRun'
  BY <1>1, <1>2, <1>3, <1>8 DEF HandlingIsFirst, StoringHasRun
<1>11. QED
  BY <1>5, <1>6, <1>7, <1>9, <1>10

(* The replay check: a receipt found, or none and so no run of this caller.*)
LEMMA DispatchStep ==
  ASSUME ReceiptInv, NEW t \in Callers, Dispatch(t)
  PROVE  ReceiptInv'
<1> USE DEF ReceiptInv
<1>0. pc[t] = "dispatching" /\ UNCHANGED <<handlers, records, runs, effects, callVars, restarts>>
  BY DEF Dispatch
<1>1. Current(t) \in Commands /\ Current(t).key \in Keys
  BY <1>0, CurrentIsCommand DEF InCall
<1> DEFINE found == records[Current(t).key]
<1>2. CASE Fail(t)
  BY <1>0, <1>2, FailStep, ItemEnds
<1>3. CASE found # NoRecord /\ SameCommand(Current(t), found) /\ Answer(t, found, TRUE)
  <2>1. found \in Runs
    BY <1>1, <1>3 DEF TypeOK
  <2>2. Fits(t, found, TRUE)
    BY <1>1, <1>3, <2>1 DEF Fits, SameCommand, RecordsMatchKeys
  <2>3. MovesOn(t) /\ ResultsOK'
    BY <1>0, <1>3, <2>1, <2>2, AnswerStep DEF InCall
  <2>4. QED
    BY <1>0, <2>3, ItemEnds
<1>4. CASE /\ found = NoRecord
           /\ pc' = [pc EXCEPT ![t] = "handling"]
           /\ UNCHANGED <<resultVars, uncommitted>>
  <2>1. TypeOK'
    BY <1>0, <1>4 DEF TypeOK, callVars, resultVars, InCall
  <2>2. /\ ReceiptAnswersCommand' /\ CallerRunsOnce' /\ ReceiptMeansEffect'
        /\ RecordsMatchKeys' /\ RunsOfHandlers'
    BY <1>0, <1>4 DEF ReceiptAnswersCommand, CallerRunsOnce, ReceiptMeansEffect,
                      RecordsMatchKeys, RunsOfHandlers, resultVars
  <2>3. \A u \in Callers : Current(u)' = Current(u) /\ ThisRun(u)' = ThisRun(u)
    BY <1>0, <1>4 DEF Current, ThisRun, callVars, resultVars
  <2>4. \A u \in Callers \ {t} : pc'[u] = pc[u]
    BY <1>4 DEF TypeOK
  <2>5. RunsLeadToReceipts'
    <3> SUFFICES ASSUME NEW r \in runs
                 PROVE  \/ records[r.command.key] # NoRecord
                        \/ pc'[r.caller] = "storing" /\ Current(r.caller)'.key = r.command.key
      BY <1>0 DEF RunsLeadToReceipts
    <3>1. r.caller \in Callers
      BY DEF TypeOK, Runs
    <3>2. QED
      BY <3>1, <1>0, <2>3, <2>4 DEF RunsLeadToReceipts
  <2>6. HandlingIsFirst'
    <3>1. \A r \in runs : r.caller = t => r.command.key # Current(t).key
      BY <1>0, <1>4 DEF RunsLeadToReceipts
    <3>2. QED
      BY <1>0, <2>3, <2>4, <3>1 DEF HandlingIsFirst
  <2>7. StoringHasRun'
    BY <1>0, <1>4, <2>3, <2>4 DEF StoringHasRun, TypeOK
  <2>8. QED
    BY <2>1, <2>2, <2>5, <2>6, <2>7
<1>5. QED
  BY <1>2, <1>3, <1>4 DEF Dispatch

(* A handler runs for a key this caller has not run before.                *)
LEMMA HandlerRunsStep ==
  ASSUME ReceiptInv, NEW t \in Callers, HandlerRuns(t)
  PROVE  ReceiptInv'
<1> USE DEF ReceiptInv, callVars, resultVars
<1>0. /\ pc[t] = "handling" /\ pc' = [pc EXCEPT ![t] = "storing"]
      /\ runs' = runs \cup {ThisRun(t)} /\ handlers # "none"
      /\ UNCHANGED <<handlers, records, callVars, resultVars, restarts>>
  BY DEF HandlerRuns
<1>1. ThisRun(t) \in Runs /\ ThisRun(t).caller = t /\ ThisRun(t).command = Current(t)
  BY <1>0, CurrentIsCommand DEF InCall, ThisRun
<1>2. effects \subseteq effects' /\ effects' \subseteq effects \cup {ThisRun(t)}
      /\ (t \notin Transacting \/ handlers = "committing" => ThisRun(t) \in effects')
  BY DEF HandlerRuns, Transactional
<1>3. uncommitted' \in [Callers -> SUBSET Runs]
  <2>1. uncommitted \in [Callers -> SUBSET Runs] /\ uncommitted[t] \cup {ThisRun(t)} \in SUBSET Runs
    BY <1>1 DEF TypeOK
  <2>2. uncommitted' = uncommitted
        \/ uncommitted' = [uncommitted EXCEPT ![t] = uncommitted[t] \cup {ThisRun(t)}]
    BY DEF HandlerRuns
  <2>3. QED
    BY <2>1, <2>2
<1>4. TypeOK'
  <2>1. runs' \subseteq Runs /\ effects' \subseteq Runs
    BY <1>0, <1>1, <1>2 DEF TypeOK
  <2>2. pc' \in [Callers -> InCall \cup {"idle", "returning"}]
        /\ \A u \in Callers : pc'[u] \in InCall => item[u] \in 1..Len(batch[u])
    BY <1>0 DEF TypeOK, InCall
  <2>3. QED
    BY <1>0, <1>3, <2>1, <2>2 DEF TypeOK
<1>5. ReceiptAnswersCommand' /\ ReceiptMeansEffect' /\ RecordsMatchKeys' /\ RunsOfHandlers'
  BY <1>0, <1>2 DEF ReceiptAnswersCommand, ReceiptMeansEffect, RecordsMatchKeys, RunsOfHandlers
<1>6. CallerRunsOnce'
  BY <1>0, <1>1 DEF CallerRunsOnce, HandlingIsFirst
<1>7. \A u \in Callers : Current(u)' = Current(u) /\ ThisRun(u)' = ThisRun(u)
  BY <1>0 DEF Current, ThisRun
<1>8. pc'[t] = "storing" /\ \A u \in Callers \ {t} : pc'[u] = pc[u]
  BY <1>0 DEF TypeOK
<1>9. RunsLeadToReceipts'
  <2> SUFFICES ASSUME NEW r \in runs'
               PROVE  \/ records[r.command.key] # NoRecord
                      \/ pc'[r.caller] = "storing" /\ Current(r.caller)'.key = r.command.key
    BY <1>0 DEF RunsLeadToReceipts
  <2>1. CASE r = ThisRun(t)
    BY <1>1, <1>7, <1>8, <2>1
  <2>2. CASE r \in runs
    <3>1. r.caller \in Callers
      BY <2>2 DEF TypeOK, Runs
    <3>2. QED
      BY <1>0, <1>7, <1>8, <2>2, <3>1 DEF RunsLeadToReceipts
  <2>3. QED
    BY <1>0, <2>1, <2>2
<1>10. HandlingIsFirst'
  BY <1>0, <1>1, <1>7, <1>8 DEF HandlingIsFirst
<1>11. StoringHasRun'
  BY <1>0, <1>2, <1>7, <1>8 DEF StoringHasRun
<1>12. QED
  BY <1>4, <1>5, <1>6, <1>9, <1>10, <1>11

(* The three ways store() ends.                                            *)
LEMMA StoreStep ==
  ASSUME ReceiptInv, NEW t \in Callers, Store(t)
  PROVE  ReceiptInv'
<1> USE DEF ReceiptInv
<1>0. pc[t] = "storing" /\ UNCHANGED <<handlers, runs, effects, callVars, restarts>>
  BY DEF Store
<1>1. Current(t) \in Commands /\ ThisRun(t) \in Runs
  BY <1>0, CurrentIsCommand DEF InCall
<1>2. Fits(t, ThisRun(t), FALSE)
  BY <1>1 DEF Fits, ThisRun
<1>3. Answer(t, ThisRun(t), FALSE) => MovesOn(t) /\ ResultsOK'
  BY <1>0, <1>1, <1>2, AnswerStep DEF InCall
<1>4. CASE /\ records[Current(t).key] = NoRecord
           /\ records' = [records EXCEPT ![Current(t).key] = ThisRun(t)]
           /\ Answer(t, ThisRun(t), FALSE)
  BY <1>0, <1>3, <1>4, ReceiptStored
<1>5. CASE /\ records[Current(t).key] # NoRecord
           /\ Answer(t, ThisRun(t), FALSE) \/ Fail(t)
           /\ UNCHANGED records
  <2>1. MovesOn(t) /\ ResultsOK'
    BY <1>3, <1>5, FailStep
  <2>2. QED
    BY <1>0, <1>5, <2>1, ItemEnds
<1>6. QED
  BY <1>4, <1>5 DEF Store

(* The end of a call that returns: its transaction commits.                *)
LEMMA ReturnStep ==
  ASSUME ReceiptInv, NEW t \in Callers, Return(t)
  PROVE  ReceiptInv'
<1> USE DEF ReceiptInv, callVars
<1>0. /\ pc[t] = "returning" /\ pc' = [pc EXCEPT ![t] = "idle"]
      /\ effects' = effects \cup uncommitted[t]
      /\ uncommitted' = [uncommitted EXCEPT ![t] = {}]
      /\ outcome' = [outcome EXCEPT ![t] = "returned"]
      /\ UNCHANGED <<handlers, records, runs, callVars, item, receipts, failures, restarts>>
  BY DEF Return
<1>1. uncommitted[t] \subseteq Runs
  BY DEF TypeOK
<1>2. TypeOK'
  BY <1>0, <1>1 DEF TypeOK, InCall
<1>3. /\ ReceiptAnswersCommand' /\ CallerRunsOnce' /\ ReceiptMeansEffect'
      /\ RecordsMatchKeys' /\ RunsOfHandlers'
  BY <1>0 DEF ReceiptAnswersCommand, CallerRunsOnce, ReceiptMeansEffect, RecordsMatchKeys, RunsOfHandlers
<1>4. \A u \in Callers : Current(u)' = Current(u) /\ ThisRun(u)' = ThisRun(u)
  BY <1>0 DEF Current, ThisRun
<1>5. pc'[t] = "idle" /\ \A u \in Callers \ {t} : pc'[u] = pc[u]
  BY <1>0 DEF TypeOK
<1>6. RunsLeadToReceipts'
  <2> SUFFICES ASSUME NEW r \in runs
               PROVE  \/ records[r.command.key] # NoRecord
                      \/ pc'[r.caller] = "storing" /\ Current(r.caller)'.key = r.command.key
    BY <1>0 DEF RunsLeadToReceipts
  <2>1. r.caller \in Callers
    BY DEF TypeOK, Runs
  <2>2. QED
    BY <2>1, <1>0, <1>4, <1>5 DEF RunsLeadToReceipts
<1>7. HandlingIsFirst' /\ StoringHasRun'
  BY <1>0, <1>4, <1>5 DEF HandlingIsFirst, StoringHasRun
<1>8. QED
  BY <1>2, <1>3, <1>6, <1>7

(* A restart forgets runs and receipts together.                           *)
LEMMA RestartStep ==
  ASSUME ReceiptInv, Restart
  PROVE  ReceiptInv'
<1> USE DEF ReceiptInv, callVars, Restart
<1>1. TypeOK'
  <2>1. <<>> \in Seq([asked : Commands, run : Runs, replayed : BOOLEAN])
    OBVIOUS
  <2>2. receipts' \in [Callers -> Seq([asked : Commands, run : Runs, replayed : BOOLEAN])]
    BY <2>1
  <2>3. records' \in [Keys -> Runs \cup {NoRecord}] /\ uncommitted' \in [Callers -> SUBSET Runs]
    OBVIOUS
  <2>4. pc' \in [Callers -> InCall \cup {"idle", "returning"}]
        /\ \A t \in Callers : pc'[t] \notin InCall
    BY DEF InCall
  <2>5. outcome' \in [Callers -> {"none", "returned", "raised"}]
    OBVIOUS
  <2>6. restarts' \in Nat
    BY DEF TypeOK
  <2>7. QED
    BY <2>2, <2>3, <2>4, <2>5, <2>6 DEF TypeOK
<1>2. /\ ReceiptAnswersCommand' /\ CallerRunsOnce' /\ ReceiptMeansEffect'
      /\ RecordsMatchKeys' /\ RunsOfHandlers'
  BY DEF ReceiptAnswersCommand, CallerRunsOnce, ReceiptMeansEffect, RecordsMatchKeys, RunsOfHandlers
<1>3. RunsLeadToReceipts' /\ HandlingIsFirst' /\ StoringHasRun'
  BY DEF RunsLeadToReceipts, HandlingIsFirst, StoringHasRun
<1>4. QED
  BY <1>1, <1>2, <1>3

(* Registration concerns no call.                                          *)
LEMMA UntouchedStep ==
  ASSUME ReceiptInv, handlers' \in {"none", "joining", "committing"},
         handlers' = handlers \/ handlers = "none",
         UNCHANGED <<records, effectVars, callVars, resultVars, pc, restarts>>
  PROVE  ReceiptInv'
<1> USE DEF ReceiptInv, callVars, effectVars, resultVars
<1>1. TypeOK'
  BY DEF TypeOK
<1>2. ReceiptAnswersCommand' /\ CallerRunsOnce' /\ RecordsMatchKeys' /\ RunsOfHandlers'
  BY DEF ReceiptAnswersCommand, CallerRunsOnce, RecordsMatchKeys, RunsOfHandlers
<1>5. ReceiptMeansEffect'
  BY DEF ReceiptMeansEffect, RecordsMatchKeys, RunsOfHandlers
<1>3. RunsLeadToReceipts' /\ HandlingIsFirst' /\ StoringHasRun'
  BY DEF RunsLeadToReceipts, HandlingIsFirst, StoringHasRun, Current, ThisRun
<1>4. QED
  BY <1>1, <1>2, <1>3, <1>5

(* What is said of receipts and runs holds in every state, whatever the    *)
(* callers interleave.                                                     *)
LEMMA ReceiptInvHolds == Spec => []ReceiptInv
<1>1. ReceiptInv /\ [Next]_vars => ReceiptInv'
  <2> SUFFICES ASSUME ReceiptInv, [Next]_vars PROVE ReceiptInv'
    OBVIOUS
  <2>1. CASE RegisterHandlers
    BY <2>1, UntouchedStep DEF RegisterHandlers
  <2>2. ASSUME NEW t \in Callers, NEW p \in Policies, NEW b \in Batches, Begin(t, p, b)
        PROVE  ReceiptInv'
    BY <2>2, BeginStep
  <2>3. ASSUME NEW t \in Callers, Dispatch(t) PROVE ReceiptInv'
    BY <2>3, DispatchStep
  <2>4. ASSUME NEW t \in Callers, HandlerRuns(t) PROVE ReceiptInv'
    BY <2>4, HandlerRunsStep
  <2>5. ASSUME NEW t \in Callers, HandlerFails(t) PROVE ReceiptInv'
    BY <2>5, FailStep, ItemEnds DEF HandlerFails, ReceiptInv
  <2>6. ASSUME NEW t \in Callers, Store(t) PROVE ReceiptInv'
    BY <2>6, StoreStep
  <2>7. ASSUME NEW t \in Callers, Return(t) PROVE ReceiptInv'
    BY <2>7, ReturnStep
  <2>8. ASSUME NEW t \in Callers, CommitFails(t) PROVE ReceiptInv'
    BY <2>8, RaiseStep, ItemEnds DEF CommitFails, ReceiptInv
  <2>9. CASE Restart
    BY <2>9, RestartStep
  <2>10. CASE UNCHANGED vars
    BY <2>10, UntouchedStep DEF vars, ReceiptInv, TypeOK
  <2>11. QED
    BY <2>1, <2>2, <2>3, <2>4, <2>5, <2>6, <2>7, <2>8, <2>9, <2>10 DEF Next
<1>2. QED
  BY InitInv, <1>1, PTL DEF Spec

(* No caller makes the handler of a key succeed twice before a restart.    *)
THEOREM CallerRunsOnceHolds == Spec => []CallerRunsOnce
<1>1. ReceiptInv => CallerRunsOnce
  BY DEF ReceiptInv
<1>2. QED
  BY ReceiptInvHolds, <1>1, PTL

(* Every receipt a caller gets is for the command it asked to execute.     *)
THEOREM ReceiptAnswersCommandHolds == Spec => []ReceiptAnswersCommand
<1>1. ReceiptInv => ReceiptAnswersCommand
  BY DEF ReceiptInv
<1>2. QED
  BY ReceiptInvHolds, <1>1, PTL

(* A stored receipt always reports a durable effect, unless its caller's   *)
(* bulk calls have transactions that the handlers join.                    *)
THEOREM ReceiptMeansEffectHolds == Spec => []ReceiptMeansEffect
<1>1. ReceiptInv => ReceiptMeansEffect
  BY DEF ReceiptInv
<1>2. QED
  BY ReceiptInvHolds, <1>1, PTL

(* The first receipt of a key stays until the process is restarted.        *)
THEOREM FirstReceiptStaysHolds == Spec => FirstReceiptStays
<1>1. ReceiptInv /\ [Next]_vars =>
        [\A k \in Keys : records[k] # NoRecord /\ restarts' = restarts =>
           records'[k] = records[k]]_vars
  <2> SUFFICES ASSUME ReceiptInv, Next, NEW k \in Keys, records[k] # NoRecord, restarts' = restarts
               PROVE  records'[k] = records[k]
    OBVIOUS
  <2>1. CASE UNCHANGED records
    BY <2>1
  <2>2. ASSUME NEW t \in Callers, Store(t)
        PROVE  records'[k] = records[k]
    <3>1. records \in [Keys -> Runs \cup {NoRecord}]
      BY DEF ReceiptInv, TypeOK
    <3>2. records' = records \/ \E q : records[q] = NoRecord
                                       /\ records' = [records EXCEPT ![q] = ThisRun(t)]
      BY <2>2 DEF Store
    <3>3. QED
      BY <3>1, <3>2
  <2>3. CASE Restart
    <3>1. restarts \in Nat
      BY DEF ReceiptInv, TypeOK
    <3>2. QED
      BY <2>3, <3>1 DEF Restart
  <2>4. ASSUME NEW t \in Callers, NEW p \in Policies, NEW b \in Batches, Begin(t, p, b)
        PROVE  UNCHANGED records
    BY <2>4 DEF Begin
  <2>5. ASSUME NEW t \in Callers,
               Dispatch(t) \/ HandlerRuns(t) \/ HandlerFails(t) \/ Return(t) \/ CommitFails(t)
        PROVE  UNCHANGED records
    BY <2>5 DEF Dispatch, HandlerRuns, HandlerFails, Return, CommitFails
  <2>6. QED
    BY <2>1, <2>2, <2>3, <2>4, <2>5 DEF Next, RegisterHandlers
<1>2. QED
  BY ReceiptInvHolds, <1>1, PTL DEF Spec, FirstReceiptStays

-----------------------------------------------------------------------------
(* Bulk calls: the parts of the invariant about one caller.                *)

(* What a step of the others may do: add effects of their own.             *)
LEMMA OthersUndisturbed ==
  ASSUME NEW u \in Callers, BulkState(u),
         effects \subseteq effects', \A r \in effects' \ effects : r.caller # u,
         runs \subseteq runs', \A r \in runs' \ runs : r.caller # u,
         handlers' = handlers,
         uncommitted'[u] = uncommitted[u], calls'[u] = calls[u], pc'[u] = pc[u],
         policy'[u] = policy[u], batch'[u] = batch[u], item'[u] = item[u],
         receipts'[u] = receipts[u], failures'[u] = failures[u], outcome'[u] = outcome[u]
  PROVE  BulkState(u)'
<1>1. OwnEffects(u)' = OwnEffects(u) /\ OwnRuns(u)' = OwnRuns(u)
  BY DEF OwnEffects, OwnRuns
<1>2. NewRuns(u)' = NewRuns(u) /\ Performed(u)' = Performed(u)
  BY DEF NewRuns, Performed, ThisRun, Current
<1>3. EffectsHaveCalls(u)'
  BY <1>1 DEF BulkState, EffectsHaveCalls
<1>4. BulkProgress(u)'
  BY <1>1, <1>2 DEF BulkState, BulkProgress
<1>5. AtomicEffects(u)' /\ AccountsForItems(u)'
  BY <1>1, <1>2 DEF BulkState, AtomicEffects, AccountsForItems
<1>6. QED
  BY <1>3, <1>4, <1>5 DEF BulkState

(* An item moves the call one position on, to the end after the last one.  *)
LEMMA OneItemOn ==
  ASSUME TypeOK, NEW t \in Callers, pc[t] \in InCall, NextItem(t)
  PROVE  /\ item'[t] = item[t] + 1 /\ item[t] \in Nat
         /\ pc'[t] \in {"dispatching", "returning"}
         /\ pc'[t] = "returning" => item'[t] = Len(batch[t]) + 1
<1>1. item[t] \in 1..Len(batch[t]) /\ batch[t] \in Seq(Commands)
  BY BatchIsSequence DEF TypeOK
<1>2. item'[t] = item[t] + 1 /\ pc'[t] = Position(batch[t], item[t] + 1)
  BY DEF NextItem, TypeOK
<1>3. QED
  BY <1>1, <1>2 DEF Position

(* What an answer adds to the results.                                     *)
LEMMA AnswerAdds ==
  ASSUME TypeOK, NEW t \in Callers, NEW run, NEW replayed \in BOOLEAN,
         Answer(t, run, replayed), Current(t) \in Commands, run \in Runs
  PROVE  /\ Len(receipts'[t]) = Len(receipts[t]) + 1 /\ Len(receipts[t]) \in Nat
         /\ NewRuns(t)' = NewRuns(t) \cup (IF replayed THEN {} ELSE {run})
<1> DEFINE new == [asked |-> Current(t), run |-> run, replayed |-> replayed]
           old == receipts[t]
<1>1. old \in Seq(AnswersType) /\ new \in AnswersType
  BY DEF TypeOK, AnswersType
<1>2. receipts'[t] = Append(old, new)
  BY DEF Answer, TypeOK
<1>3. Len(Append(old, new)) = Len(old) + 1 /\ Len(old) \in Nat
      /\ Append(old, new)[Len(old) + 1] = new
      /\ \A i \in 1..Len(old) : Append(old, new)[i] = old[i]
  BY <1>1
<1> DEFINE next == receipts'[t]
           own(q) == {q[i].run : i \in {j \in 1..Len(q) : ~ q[j].replayed}}
<1>4. NewRuns(t) = own(old) /\ NewRuns(t)' = own(next)
  BY DEF NewRuns
<1>5. own(next) = own(old) \cup (IF replayed THEN {} ELSE {run})
  <2>1. Len(next) = Len(old) + 1 /\ next[Len(old) + 1] = new
        /\ \A i \in 1..Len(old) : next[i] = old[i]
    BY <1>2, <1>3
  <2>2. new.run = run /\ new.replayed = replayed
    OBVIOUS
  <2> HIDE DEF new, next, old
  <2>3. 1..(Len(old) + 1) = 1..Len(old) \cup {Len(old) + 1}
    BY <1>3
  <2>4. QED
    BY <2>1, <2>2, <2>3
<1>6. QED
  BY <1>2, <1>3, <1>4, <1>5

(* An item of a bulk call ends with the receipt of its run, or of another. *)
LEMMA ItemAnswered ==
  ASSUME TypeOK, NEW t \in Callers, BulkState(t), pc[t] \in InCall,
         NEW run \in Runs, NEW replayed \in BOOLEAN, Answer(t, run, replayed),
         IF replayed THEN pc[t] # "storing" ELSE pc[t] = "storing" /\ run = ThisRun(t),
         UNCHANGED <<handlers, runs, effects, callVars>>
  PROVE  BulkState(t)'
<1> USE DEF callVars, InCall
<1>1. /\ item'[t] = item[t] + 1 /\ item[t] \in Nat
      /\ pc'[t] \in {"dispatching", "returning"}
      /\ pc'[t] = "returning" => item'[t] = Len(batch[t]) + 1
  BY OneItemOn DEF Answer
<1>2. /\ Len(receipts'[t]) = Len(receipts[t]) + 1 /\ Len(receipts[t]) \in Nat
      /\ NewRuns(t)' = NewRuns(t) \cup (IF replayed THEN {} ELSE {run})
  BY CurrentIsCommand, AnswerAdds
<1>3. Performed(t)' = Performed(t)
  BY <1>1, <1>2 DEF Performed
<1>4. failures' = failures /\ outcome' = outcome /\ uncommitted' = uncommitted
      /\ failures[t] \in Nat /\ batch' = batch /\ policy' = policy /\ calls' = calls
  BY DEF Answer, TypeOK
<1>a. OwnEffects(t)' = OwnEffects(t) /\ OwnRuns(t)' = OwnRuns(t)
  BY DEF OwnEffects, OwnRuns
<1>5. EffectsHaveCalls(t)'
  BY <1>1, <1>4, <1>a DEF BulkState, EffectsHaveCalls
<1>6. BulkProgress(t)'
  <2>1. Len(receipts[t]) + failures[t] + 1 = item[t]
        => Len(receipts'[t]) + failures'[t] + 1 = item'[t]
    BY <1>1, <1>2, <1>4
  <2>2. QED
    BY <1>1, <1>3, <1>4, <1>a, <2>1 DEF BulkState, BulkProgress
<1>7. outcome'[t] = "none"
  BY <1>4 DEF BulkState, EffectsHaveCalls
<1>8. AtomicEffects(t)' /\ AccountsForItems(t)'
  BY <1>4, <1>7, <1>a DEF BulkState, AtomicEffects, AccountsForItems
<1>9. QED
  BY <1>5, <1>6, <1>8 DEF BulkState

(* An exception leaves nothing of a transaction.                           *)
LEMMA CallRaises ==
  ASSUME TypeOK, NEW t \in Callers, BulkState(t), pc[t] # "idle", Raise(t),
         UNCHANGED <<handlers, runs, effects, callVars>>
  PROVE  BulkState(t)'
<1>1. pc'[t] = "idle" /\ outcome'[t] = "raised" /\ uncommitted'[t] = {}
  BY DEF Raise, TypeOK
<1>2. calls' = calls /\ policy' = policy /\ OwnEffects(t)' = OwnEffects(t) /\ OwnRuns(t)' = OwnRuns(t)
  BY DEF callVars, OwnEffects, OwnRuns
<1>3. EffectsHaveCalls(t)'
  BY <1>1, <1>2 DEF BulkState, EffectsHaveCalls
<1>4. BulkProgress(t)' /\ AccountsForItems(t)'
  BY <1>1 DEF BulkProgress, AccountsForItems
<1>5. AtomicEffects(t)'
  BY <1>1, <1>2 DEF BulkState, AtomicEffects
<1>6. QED
  BY <1>3, <1>4, <1>5 DEF BulkState

(* A failed item is counted, or ends the call.                             *)
LEMMA ItemFailed ==
  ASSUME TypeOK, NEW t \in Callers, BulkState(t), pc[t] \in InCall, Fail(t),
         UNCHANGED <<handlers, runs, effects, callVars>>
  PROVE  BulkState(t)'
<1> USE DEF callVars, InCall
<1>1. CASE ContinuesAfterFailure(t)
  <2>1. /\ failures'[t] = failures[t] + 1 /\ failures[t] \in Nat
        /\ NextItem(t) /\ UNCHANGED <<receipts, outcome, uncommitted>>
    BY <1>1 DEF Fail, TypeOK
  <2>2. /\ item'[t] = item[t] + 1 /\ item[t] \in Nat
        /\ pc'[t] \in {"dispatching", "returning"}
        /\ pc'[t] = "returning" => item'[t] = Len(batch[t]) + 1
    BY <2>1, OneItemOn
  <2>3. Len(receipts[t]) \in Nat
    BY DEF TypeOK
  <2>4. Performed(t)' \subseteq Performed(t)
    BY <2>1, <2>2 DEF Performed, NewRuns
  <2>5. policy[t] = "BULK_ITEM_ATOMIC" /\ policy' = policy /\ batch' = batch
    BY <1>1 DEF ContinuesAfterFailure
  <2>a. OwnEffects(t)' = OwnEffects(t)
    BY DEF OwnEffects
  <2>6. EffectsHaveCalls(t)'
    BY <2>1, <2>2, <2>a DEF BulkState, EffectsHaveCalls
  <2>7. BulkProgress(t)'
    <3>1. Len(receipts[t]) + failures[t] + 1 = item[t]
          => Len(receipts'[t]) + failures'[t] + 1 = item'[t]
      BY <2>1, <2>2, <2>3
    <3>2. Performed(t)' \subseteq effects' \cup uncommitted'[t]
      BY <2>1, <2>4, <2>5 DEF BulkState, BulkProgress, ContinuesAfterFailure
    <3>3. policy'[t] # "BULK_ATOMIC" /\ pc[t] # "idle" /\ policy[t] # "SINGLE"
      BY <2>5
    <3>4. Len(receipts'[t]) + failures'[t] + 1 = item'[t]
      BY <3>1, <3>3 DEF BulkState, BulkProgress
    <3>5. QED
      BY <2>2, <2>5, <3>2, <3>3, <3>4 DEF BulkProgress
  <2>8. outcome'[t] = "none"
    BY <2>1 DEF BulkState, EffectsHaveCalls
  <2>9. AtomicEffects(t)' /\ AccountsForItems(t)'
    BY <2>5, <2>8 DEF AtomicEffects, AccountsForItems
  <2>10. QED
    BY <2>6, <2>7, <2>9 DEF BulkState
<1>2. CASE ~ ContinuesAfterFailure(t)
  BY <1>2, CallRaises DEF Fail
<1>3. QED
  BY <1>1, <1>2

(* A new call has no effects yet; a bulk call that needs a transaction and *)
(* has none does not start.                                                *)
LEMMA CallBegins ==
  ASSUME TypeOK, RunsOfHandlers, NEW t \in Callers, BulkState(t),
         NEW p \in Policies, NEW b \in Batches, Begin(t, p, b)
  PROVE  BulkState(t)'
<1> DEFINE stops == p # "SINGLE" /\ (Refused(t, p, b) \/ p = "BULK_PREVIEW")
<1>1. /\ pc[t] = "idle" /\ UNCHANGED <<handlers, runs, effects, uncommitted>>
      /\ calls'[t] = calls[t] + 1 /\ calls[t] \in Nat
      /\ policy'[t] = p /\ batch'[t] = b /\ item'[t] = 1
      /\ receipts'[t] = <<>> /\ failures'[t] = 0
  BY DEF Begin, TypeOK, effectVars
<1>2. /\ pc'[t] = IF stops THEN "idle" ELSE Position(b, 1)
      /\ outcome'[t] = IF ~ stops THEN "none"
                       ELSE IF Refused(t, p, b) THEN "raised" ELSE "returned"
  BY DEF Begin, TypeOK
<1>3. Position(b, 1) \in {"dispatching", "returning"}
      /\ (Position(b, 1) = "returning" => Len(b) = 0)
  <2>1. b \in Seq(Commands) /\ Len(b) \in Nat
    BY CommandsAssumption
  <2>2. QED
    BY <2>1 DEF Position
<1>4. NewRuns(t)' = {} /\ Performed(t)' = {}
  <2>1. Len(receipts'[t]) = 0
    BY <1>1
  <2>2. pc'[t] # "storing"
    BY <1>2, <1>3
  <2>3. QED
    BY <2>1, <2>2 DEF NewRuns, Performed
<1>5. uncommitted[t] = {}
  BY <1>1 DEF BulkState, EffectsHaveCalls
<1>7. OwnEffects(t)' = {} /\ (handlers = "committing" => OwnRuns(t)' = {})
  <2>1. \A r \in effects : r.caller = t => r.call # calls[t] + 1
    BY <1>1 DEF BulkState, EffectsHaveCalls, TypeOK, Runs
  <2>2. OwnEffects(t)' = {}
    BY <1>1, <2>1 DEF OwnEffects
  <2>3. ASSUME handlers = "committing" PROVE OwnRuns(t)' = {}
    BY <1>1, <2>1, <2>3 DEF OwnRuns, RunsOfHandlers
  <2>4. QED
    BY <2>2, <2>3
<1>6. EffectsHaveCalls(t)'
  <2>1. \A r \in effects : r.caller = t => r.call < calls[t] + 1
    BY <1>1 DEF BulkState, EffectsHaveCalls, TypeOK, Runs
  <2>2. \A r \in effects : r.caller = t => r.call <= calls'[t]
    BY <2>1, <1>1 DEF TypeOK, Runs
  <2>3. pc'[t] # "idle" => outcome'[t] = "none"
    BY <1>2
  <2>4. QED
    BY <1>1, <1>5, <1>7, <2>2, <2>3 DEF EffectsHaveCalls
<1>8. BulkProgress(t)'
  <2>1. Len(receipts'[t]) = 0
    BY <1>1
  <2>2. pc'[t] # "idle" => ~ stops
    BY <1>2
  <2>3. pc'[t] # "idle" /\ p = "BULK_ATOMIC" => t \in Transacting
    BY <2>2 DEF Refused
  <2>4. pc'[t] = "returning" => Len(b) = 0
    BY <1>2, <1>3
  <2>5. QED
    BY <1>1, <1>4, <1>5, <1>7, <2>1, <2>3, <2>4 DEF BulkProgress
<1>9. p \in {"BULK_ATOMIC", "BULK_ITEM_ATOMIC"} => outcome'[t] # "returned"
  BY <1>2
<1>10. AtomicEffects(t)' /\ AccountsForItems(t)'
  BY <1>1, <1>7, <1>9 DEF AtomicEffects, AccountsForItems
<1>11. QED
  BY <1>6, <1>8, <1>10 DEF BulkState

(* The effect of a run is durable at once, or part of the transaction.     *)
LEMMA HandlerPerforms ==
  ASSUME TypeOK, RunsOfHandlers, NEW t \in Callers, BulkState(t), HandlerRuns(t)
  PROVE  BulkState(t)'
<1> USE DEF callVars, resultVars
<1>1. /\ pc[t] = "handling" /\ pc'[t] = "storing"
      /\ UNCHANGED <<handlers, callVars, resultVars>> /\ runs' = runs \cup {ThisRun(t)}
  BY DEF HandlerRuns, TypeOK
<1>2. IF handlers = "joining" /\ Transactional(t)
        THEN effects' = effects /\ uncommitted'[t] = uncommitted[t] \cup {ThisRun(t)}
        ELSE effects' = effects \cup {ThisRun(t)} /\ uncommitted'[t] = uncommitted[t]
  BY DEF HandlerRuns, TypeOK
<1>3. ThisRun(t)' = ThisRun(t) /\ NewRuns(t)' = NewRuns(t)
  BY <1>1 DEF ThisRun, Current, NewRuns
<1>4. Performed(t)' = Performed(t) \cup {ThisRun(t)}
  BY <1>1, <1>3 DEF Performed
<1>5. ThisRun(t).caller = t /\ ThisRun(t).call = calls[t] /\ calls[t] \in Nat
  BY DEF ThisRun, TypeOK
<1>a. OwnRuns(t)' = OwnRuns(t) \cup {ThisRun(t)}
  BY <1>1, <1>5 DEF OwnRuns
<1>b. OwnEffects(t)' = IF handlers = "joining" /\ Transactional(t)
                         THEN OwnEffects(t) ELSE OwnEffects(t) \cup {ThisRun(t)}
  <2>1. CASE handlers = "joining" /\ Transactional(t)
    BY <1>1, <1>2, <2>1 DEF OwnEffects
  <2>2. CASE ~ (handlers = "joining" /\ Transactional(t))
    BY <1>1, <1>2, <1>5, <2>2 DEF OwnEffects
  <2>3. QED
    BY <2>1, <2>2
<1>6. EffectsHaveCalls(t)'
  BY <1>1, <1>2, <1>5, <1>b DEF BulkState, EffectsHaveCalls
<1>7. BulkProgress(t)'
  BY <1>1, <1>2, <1>4, <1>b DEF BulkState, BulkProgress, Transactional
<1>8. outcome'[t] = "none"
  BY <1>1 DEF BulkState, EffectsHaveCalls
<1>9. AtomicEffects(t)'
  <2> SUFFICES ASSUME policy[t] = "BULK_ATOMIC"
               PROVE  OwnEffects(t)' = IF handlers = "committing" THEN OwnRuns(t)' ELSE {}
    BY <1>1, <1>8 DEF AtomicEffects
  <2>1. /\ Transactional(t) /\ handlers \in {"joining", "committing"}
        /\ OwnEffects(t) = IF handlers = "committing" THEN OwnRuns(t) ELSE {}
    BY <1>1 DEF BulkState, BulkProgress, AtomicEffects, Transactional, HandlerRuns, TypeOK
  <2>2. QED
    BY <1>a, <1>b, <2>1
<1>10. AccountsForItems(t)'
  BY <1>8 DEF AccountsForItems
<1>11. QED
  BY <1>6, <1>7, <1>9, <1>10 DEF BulkState

(* The commit makes exactly what the call performed durable.               *)
LEMMA CallReturns ==
  ASSUME TypeOK, NEW t \in Callers, BulkState(t), Return(t)
  PROVE  BulkState(t)'
<1> USE DEF callVars
<1>1. /\ pc[t] = "returning" /\ pc'[t] = "idle" /\ outcome'[t] = "returned"
      /\ effects' = effects \cup uncommitted[t] /\ uncommitted'[t] = {}
      /\ UNCHANGED <<handlers, runs, callVars, receipts, failures>>
  BY DEF Return, TypeOK
<1>2. NewRuns(t)' = NewRuns(t) /\ Performed(t) = NewRuns(t)
  BY <1>1 DEF NewRuns, Performed
<1>3. \A r \in uncommitted[t] : r \in runs /\ r.caller = t /\ r.call = calls[t] /\ calls[t] \in Nat
  BY DEF BulkState, EffectsHaveCalls, TypeOK
<1>4. OwnEffects(t)' = OwnEffects(t) \cup uncommitted[t]
  BY <1>1, <1>3 DEF OwnEffects
<1>5. EffectsHaveCalls(t)'
  BY <1>1, <1>3, <1>4 DEF BulkState, EffectsHaveCalls
<1>6. BulkProgress(t)'
  BY <1>1 DEF BulkProgress
<1>7. policy[t] # "SINGLE" =>
        /\ Len(receipts[t]) + failures[t] = Len(batch[t])
        /\ Len(receipts[t]) \in Nat /\ failures[t] \in Nat
  <2>1. Len(receipts[t]) \in Nat /\ failures[t] \in Nat /\ Len(batch[t]) \in Nat
    BY BatchIsSequence DEF TypeOK
  <2>2. policy[t] # "SINGLE" => Len(receipts[t]) + failures[t] + 1 = Len(batch[t]) + 1
    BY <1>1 DEF BulkState, BulkProgress
  <2>3. QED
    BY <2>1, <2>2
<1>8. AtomicEffects(t)'
  <2> SUFFICES ASSUME policy[t] = "BULK_ATOMIC"
               PROVE  /\ failures[t] = 0 /\ Len(receipts[t]) = Len(batch[t])
                      /\ OwnEffects(t)' = NewRuns(t)
    BY <1>1, <1>2 DEF AtomicEffects
  <2>1. OwnEffects(t) \cup uncommitted[t] = NewRuns(t) /\ failures[t] = 0
    BY <1>1, <1>2 DEF BulkState, BulkProgress
  <2>2. QED
    BY <1>4, <1>7, <2>1
<1>9. AccountsForItems(t)'
  BY <1>1, <1>2, <1>7 DEF BulkState, BulkProgress, AccountsForItems
<1>10. QED
  BY <1>5, <1>6, <1>8, <1>9 DEF BulkState

(* A restart ends the calls; the effects that are durable stay.            *)
LEMMA CallsForgotten ==
  ASSUME NEW t \in Callers, BulkState(t), Restart
  PROVE  BulkState(t)'
<1>1. /\ pc'[t] = "idle" /\ outcome'[t] = "none" /\ uncommitted'[t] = {}
      /\ effects' = effects /\ calls' = calls
  BY DEF Restart, callVars
<1>2. QED
  BY <1>1 DEF BulkState, EffectsHaveCalls, BulkProgress, AtomicEffects, AccountsForItems

(* The steps of one item.                                                  *)
LEMMA ItemStep ==
  ASSUME ReceiptInv, NEW t \in Callers, BulkState(t),
         Dispatch(t) \/ HandlerFails(t) \/ Store(t)
  PROVE  BulkState(t)'
<1> USE DEF ReceiptInv, InCall
<1>1. pc[t] \in InCall /\ UNCHANGED <<handlers, runs, effects, callVars>>
  BY DEF Dispatch, HandlerFails, Store
<1>2. CASE Fail(t)
  BY <1>1, <1>2, ItemFailed
<1>3. ThisRun(t) \in Runs /\ Current(t).key \in Keys
  BY <1>1, CurrentIsCommand
<1>4. CASE pc[t] = "storing" /\ Answer(t, ThisRun(t), FALSE)
  BY <1>1, <1>3, <1>4, ItemAnswered
<1>5. ASSUME pc[t] = "dispatching", NEW found, found = records[Current(t).key],
             found # NoRecord, Answer(t, found, TRUE)
      PROVE  BulkState(t)'
  <2>1. found \in Runs
    BY <1>3, <1>5 DEF TypeOK
  <2>2. QED
    BY <1>1, <1>5, <2>1, ItemAnswered
<1>6. CASE /\ pc[t] = "dispatching" /\ pc' = [pc EXCEPT ![t] = "handling"]
           /\ UNCHANGED <<resultVars, uncommitted>>
  <2>1. pc'[t] = "handling"
    BY <1>6 DEF TypeOK
  <2>2. Performed(t)' = Performed(t) /\ NewRuns(t)' = NewRuns(t) 
        /\ OwnEffects(t)' = OwnEffects(t) /\ OwnRuns(t)' = OwnRuns(t)
    BY <1>1, <1>6, <2>1 DEF Performed, NewRuns, OwnEffects, OwnRuns, callVars, resultVars
  <2>3. EffectsHaveCalls(t)'
    BY <1>1, <1>6, <2>1, <2>2 DEF BulkState, EffectsHaveCalls, callVars, resultVars
  <2>4. BulkProgress(t)'
    BY <1>1, <1>6, <2>1, <2>2 DEF BulkState, BulkProgress, callVars, resultVars
  <2>5. AtomicEffects(t)' /\ AccountsForItems(t)'
    BY <1>1, <1>6, <2>1, <2>2 DEF BulkState, AtomicEffects, AccountsForItems, callVars, resultVars
  <2>6. QED
    BY <2>3, <2>4, <2>5 DEF BulkState
<1>7. QED
  BY <1>2, <1>4, <1>5, <1>6 DEF Dispatch, HandlerFails, Store

(* A step of one caller leaves the others as they are, but for effects of  *)
(* its own that become durable.                                            *)
LEMMA StepLeavesOthers ==
  ASSUME TypeOK, NEW t \in Callers, BulkState(t), NEW u \in Callers \ {t}, BulkState(u),
         \/ \E p \in Policies, b \in Batches : Begin(t, p, b)
         \/ Dispatch(t) \/ HandlerRuns(t) \/ HandlerFails(t) \/ Store(t)
         \/ Return(t) \/ CommitFails(t)
  PROVE  BulkState(u)'
<1> USE DEF TypeOK, callVars, resultVars, effectVars
<1>1. ThisRun(t).caller = t /\ \A r \in uncommitted[t] : r.caller = t
  BY DEF ThisRun, BulkState, EffectsHaveCalls
<1>2. /\ effects \subseteq effects' /\ \A r \in effects' \ effects : r.caller # u
      /\ runs \subseteq runs' /\ \A r \in runs' \ runs : r.caller # u
      /\ handlers' = handlers
  <2>1. CASE HandlerRuns(t)
    BY <2>1, <1>1 DEF HandlerRuns
  <2>2. CASE Return(t)
    BY <2>2, <1>1 DEF Return
  <2>3. CASE ~ HandlerRuns(t) /\ ~ Return(t)
    BY <2>3 DEF Begin, Dispatch, HandlerFails, Store, CommitFails
  <2>4. QED
    BY <2>1, <2>2, <2>3
<1>3. calls'[u] = calls[u] /\ policy'[u] = policy[u] /\ batch'[u] = batch[u]
  BY DEF Begin, Dispatch, HandlerRuns, HandlerFails, Store, Return, CommitFails
<1>4. CASE Raise(t) \/ Fail(t) \/ \E run, replayed : Answer(t, run, replayed)
  <2>1. item'[u] = item[u] /\ pc'[u] = pc[u] /\ receipts'[u] = receipts[u]
        /\ failures'[u] = failures[u] /\ outcome'[u] = outcome[u]
        /\ uncommitted'[u] = uncommitted[u]
    BY <1>4 DEF Raise, Fail, Answer, NextItem
  <2>2. QED
    BY <1>2, <1>3, <2>1, OthersUndisturbed
<1>5. CASE ~ (Raise(t) \/ Fail(t) \/ \E run, replayed : Answer(t, run, replayed))
  <2>1. item'[u] = item[u] /\ pc'[u] = pc[u] /\ receipts'[u] = receipts[u]
        /\ failures'[u] = failures[u] /\ outcome'[u] = outcome[u]
        /\ uncommitted'[u] = uncommitted[u]
    <3>1. ASSUME NEW p \in Policies, NEW b \in Batches, Begin(t, p, b)
          PROVE  /\ item'[u] = item[u] /\ pc'[u] = pc[u] /\ receipts'[u] = receipts[u]
                 /\ failures'[u] = failures[u] /\ outcome'[u] = outcome[u]
                 /\ uncommitted'[u] = uncommitted[u]
      BY <3>1 DEF Begin
    <3>2. CASE Dispatch(t)
      BY <1>5, <3>2 DEF Dispatch
    <3>3. CASE HandlerRuns(t)
      BY <3>3 DEF HandlerRuns
    <3>4. CASE HandlerFails(t) \/ Store(t) \/ CommitFails(t)
      BY <1>5, <3>4 DEF HandlerFails, Store, CommitFails
    <3>5. CASE Return(t)
      BY <3>5 DEF Return
    <3>6. QED
      BY <3>1, <3>2, <3>3, <3>4, <3>5
  <2>2. QED
    BY <1>2, <1>3, <2>1, OthersUndisturbed
<1>6. QED
  BY <1>4, <1>5

(* Handlers are registered once; none has run before.                      *)
LEMMA HandlersRegistered ==
  ASSUME RunsOfHandlers, RegisterHandlers, NEW u \in Callers, BulkState(u)
  PROVE  BulkState(u)'
<1> USE DEF effectVars, callVars, resultVars
<1>1. /\ handlers = "none" /\ runs = {}
      /\ UNCHANGED <<effectVars, callVars, resultVars, pc>>
  BY DEF RegisterHandlers, RunsOfHandlers
<1>2. OwnEffects(u)' = OwnEffects(u) /\ NewRuns(u)' = NewRuns(u) /\ Performed(u)' = Performed(u)
      /\ OwnRuns(u)' = {}
  BY <1>1 DEF OwnEffects, OwnRuns, NewRuns, Performed, ThisRun, Current
<1>3. EffectsHaveCalls(u)' /\ BulkProgress(u)' /\ AccountsForItems(u)'
  BY <1>1, <1>2 DEF BulkState, EffectsHaveCalls, BulkProgress, AccountsForItems
<1>4. AtomicEffects(u)'
  <2> SUFFICES ASSUME policy[u] = "BULK_ATOMIC", pc[u] # "idle" \/ outcome[u] = "raised"
               PROVE  OwnEffects(u) = {}
    BY <1>1, <1>2 DEF AtomicEffects, BulkState
  <2>1. QED
    BY <1>1 DEF BulkState, AtomicEffects
<1>5. QED
  BY <1>3, <1>4 DEF BulkState

(* The invariant holds in every state, whatever the callers interleave:    *)
(* what is said of receipts and runs, and of every bulk call.              *)
THEOREM InvHolds == Spec => []Inv
<1>1. Init => \A t \in Callers : BulkState(t)
  BY DEF Init, BulkState, EffectsHaveCalls, BulkProgress, AtomicEffects, AccountsForItems, OwnEffects
<1>2. Inv /\ [Next]_vars => (\A t \in Callers : BulkState(t))'
  <2> SUFFICES ASSUME Inv, [Next]_vars, NEW u \in Callers PROVE BulkState(u)'
    OBVIOUS
  <2> USE DEF Inv, ReceiptInv
  <2>1. CASE UNCHANGED <<handlers, effectVars, callVars, resultVars, pc>>
    BY <2>1, OthersUndisturbed DEF effectVars, callVars, resultVars
  <2>5. CASE RegisterHandlers
    BY <2>5, HandlersRegistered
  <2>2. ASSUME NEW t \in Callers,
               \/ \E p \in Policies, b \in Batches : Begin(t, p, b)
               \/ Dispatch(t) \/ HandlerRuns(t) \/ HandlerFails(t) \/ Store(t)
               \/ Return(t) \/ CommitFails(t)
        PROVE  BulkState(u)'
    <3>1. CASE u # t
      BY <2>2, <3>1, StepLeavesOthers
    <3>2. CASE u = t
      <4>1. CASE \E p \in Policies, b \in Batches : Begin(t, p, b)
        BY <3>2, <4>1, CallBegins
      <4>2. CASE Dispatch(t) \/ HandlerFails(t) \/ Store(t)
        BY <3>2, <4>2, ItemStep
      <4>3. CASE HandlerRuns(t) \/ Return(t)
        BY <3>2, <4>3, HandlerPerforms, CallReturns
      <4>4. CASE CommitFails(t)
        BY <3>2, <4>4, CallRaises DEF CommitFails
      <4>5. QED
        BY <2>2, <4>1, <4>2, <4>3, <4>4
    <3>3. QED
      BY <3>1, <3>2
  <2>3. CASE Restart
    BY <2>3, CallsForgotten
  <2>4. QED
    BY <2>1, <2>2, <2>3, <2>5 DEF Next, vars
<1>3. QED
  BY ReceiptInvHolds, <1>1, <1>2, PTL DEF Spec, Inv

(* A bulk call under BULK_ATOMIC that returns has exactly the effects it   *)
(* reports; one that raises has none if the handlers join its transaction, *)
(* and those of every item it executed if they commit (bulk.py, and        *)
(* bundle19a/persistence.py, transaction).                                 *)
THEOREM BulkAtomicEffectsHolds == Spec => []BulkAtomicEffects
<1>1. Inv => BulkAtomicEffects
  BY DEF Inv, BulkState, BulkAtomicEffects
<1>2. QED
  BY InvHolds, <1>1, PTL

(* A bulk call that continues after failures accounts for every item, and  *)
(* what it reports as done is durable.                                     *)
THEOREM BulkAccountsForItemsHolds == Spec => []BulkAccountsForItems
<1>1. Inv => BulkAccountsForItems
  BY DEF Inv, BulkState, BulkAccountsForItems
<1>2. QED
  BY InvHolds, <1>1, PTL

-----------------------------------------------------------------------------
(* The refinement of CommandJournal.                                       *)

(* What the current call of each caller was told of.                       *)
Heard == [t \in Callers |-> {receipts[t][i].run : i \in 1..Len(receipts[t])}]

LEMMA JournalInit == Init => Journal!Init
<1> SUFFICES ASSUME Init PROVE Journal!Init
  OBVIOUS
<1>1. Heard = [t \in Callers |-> {}]
  BY DEF Init, Heard
<1>2. QED
  BY <1>1 DEF Init, Journal!Init, Heard

(* A step that leaves receipts, runs and effects alone is a stutter.       *)
LEMMA JournalStutters ==
  ASSUME UNCHANGED <<records, effectVars, receipts>>
  PROVE  UNCHANGED Journal!journalVars
BY DEF effectVars, Journal!journalVars

(* What one caller hears does not touch the others.                        *)
LEMMA HeardChanges ==
  ASSUME NEW t \in Callers, NEW S,
         \A u \in Callers \ {t} : receipts'[u] = receipts[u],
         {receipts'[t][i].run : i \in 1..Len(receipts'[t])} = S
  PROVE  Heard' = [Heard EXCEPT ![t] = S]
<1>1. \A u \in Callers : Heard'[u] = IF u = t THEN S ELSE Heard[u]
  <2>1. \A u \in Callers \ {t} : Heard'[u] = Heard[u]
    BY DEF Heard
  <2>2. Heard'[t] = S
    BY DEF Heard
  <2>3. QED
    BY <2>1, <2>2
<1>2. /\ Heard = [u \in Callers |-> Heard[u]]
      /\ Heard' = [u \in Callers |-> Heard'[u]]
  BY DEF Heard
<1>3. QED
  BY <1>1, <1>2

(* An answer tells its caller of one run more.                             *)
LEMMA AnswerTold ==
  ASSUME TypeOK, NEW t \in Callers, pc[t] \in InCall, NEW run \in Runs,
         NEW replayed \in BOOLEAN, Answer(t, run, replayed)
  PROVE  Heard' = [Heard EXCEPT ![t] = @ \cup {run}] /\ UNCHANGED uncommitted
<1> DEFINE new == [asked |-> Current(t), run |-> run, replayed |-> replayed]
<1>1. receipts \in [Callers -> Seq(AnswersType)] /\ new \in AnswersType /\ new.run = run
  BY CurrentIsCommand DEF TypeOK, AnswersType
<1>2. receipts' = [receipts EXCEPT ![t] = Append(receipts[t], new)]
  BY DEF Answer
<1> HIDE DEF new
<1>3. \A u \in Callers \ {t} : receipts'[u] = receipts[u]
  BY <1>1, <1>2
<1>4. receipts'[t] = Append(receipts[t], new) /\ receipts[t] \in Seq(AnswersType)
  BY <1>1, <1>2
<1>5. {receipts'[t][i].run : i \in 1..Len(receipts'[t])}
        = {receipts[t][i].run : i \in 1..Len(receipts[t])} \cup {run}
  <2>1. /\ Len(receipts'[t]) = Len(receipts[t]) + 1 /\ Len(receipts[t]) \in Nat
        /\ receipts'[t][Len(receipts[t]) + 1] = new
        /\ \A i \in 1..Len(receipts[t]) : receipts'[t][i] = receipts[t][i]
    BY <1>1, <1>4
  <2>2. 1..Len(receipts'[t]) = 1..Len(receipts[t]) \cup {Len(receipts[t]) + 1}
    BY <2>1
  <2>3. \A i \in 1..Len(receipts[t]) : receipts'[t][i].run = receipts[t][i].run
    BY <2>1
  <2>4. receipts'[t][Len(receipts[t]) + 1].run = run
    BY <1>1, <2>1
  <2>5. {receipts'[t][i].run : i \in 1..Len(receipts'[t])}
          = {receipts'[t][i].run : i \in 1..Len(receipts[t])}
            \cup {receipts'[t][Len(receipts[t]) + 1].run}
    BY <2>2, Zenon
  <2>6. {receipts'[t][i].run : i \in 1..Len(receipts[t])}
          = {receipts[t][i].run : i \in 1..Len(receipts[t])}
    BY <2>3, Zenon
  <2>7. QED
    BY <2>4, <2>5, <2>6
<1>6. Heard[t] = {receipts[t][i].run : i \in 1..Len(receipts[t])}
  BY DEF Heard
<1>7. Heard' = [Heard EXCEPT ![t] = Heard[t] \cup {run}]
  BY <1>3, <1>5, <1>6, HeardChanges
<1>8. QED
  BY <1>7 DEF Answer

(* A call without receipts has heard nothing.                              *)
LEMMA HeardNothing ==
  ASSUME NEW t \in Callers, receipts'[t] = <<>>,
         \A u \in Callers \ {t} : receipts'[u] = receipts[u]
  PROVE  Heard' = [Heard EXCEPT ![t] = {}]
<1>1. Len(receipts'[t]) = 0
  OBVIOUS
<1>2. {receipts'[t][i].run : i \in 1..Len(receipts'[t])} = {}
  BY <1>1
<1>3. QED
  BY <1>2, HeardChanges

(* An exception drops what the call was told and its transaction.          *)
LEMMA RaiseDrops ==
  ASSUME TypeOK, NEW t \in Callers, Raise(t), UNCHANGED <<records, runs, effects>>
  PROVE  Journal!Drop(t)
<1>1. receipts'[t] = <<>> /\ \A u \in Callers \ {t} : receipts'[u] = receipts[u]
  BY DEF Raise, TypeOK
<1>2. Heard' = [Heard EXCEPT ![t] = {}]
  BY <1>1, HeardNothing
<1>3. QED
  BY <1>2 DEF Raise, Journal!Drop, Heard

(* A failed item drops the call, or changes nothing the journal shows.     *)
LEMMA FailDrops ==
  ASSUME TypeOK, NEW t \in Callers, Fail(t), UNCHANGED <<records, runs, effects>>
  PROVE  Journal!Drop(t) \/ UNCHANGED Journal!journalVars
<1>1. CASE ContinuesAfterFailure(t)
  BY <1>1, JournalStutters DEF Fail, effectVars
<1>2. CASE ~ ContinuesAfterFailure(t)
  BY <1>2, RaiseDrops DEF Fail
<1>3. QED
  BY <1>1, <1>2

(* The next call begins without results; the last one left no transaction. *)
LEMMA BeginDrops ==
  ASSUME Inv, NEW t \in Callers, NEW p \in Policies, NEW b \in Batches, Begin(t, p, b)
  PROVE  Journal!Drop(t)
<1>1. TypeOK
  BY DEF Inv, ReceiptInv
<1>2. Heard' = [Heard EXCEPT ![t] = {}]
  <2>1. receipts'[t] = <<>> /\ \A u \in Callers \ {t} : receipts'[u] = receipts[u]
    BY <1>1 DEF Begin, TypeOK
  <2>2. QED
    BY <2>1, HeardNothing
<1>3. uncommitted[t] = {}
  BY DEF Inv, BulkState, EffectsHaveCalls, Begin
<1>4. uncommitted' = [uncommitted EXCEPT ![t] = {}]
  BY <1>1, <1>3 DEF TypeOK, Begin, effectVars
<1>5. QED
  BY <1>2, <1>4 DEF Begin, Journal!Drop, Heard, effectVars

(* A replayed receipt is the entry of its key, of a run that was made.     *)
LEMMA DispatchTells ==
  ASSUME Inv, NEW t \in Callers, Dispatch(t)
  PROVE  Journal!Tell(t) \/ Journal!Drop(t) \/ UNCHANGED Journal!journalVars
<1>0. /\ pc[t] = "dispatching" /\ UNCHANGED <<records, runs, effects>>
      /\ TypeOK /\ RecordsMatchKeys
  BY DEF Dispatch, Inv, ReceiptInv
<1>1. Current(t).key \in Keys
  BY <1>0, CurrentIsCommand DEF InCall
<1>2. PICK one : one = records[Current(t).key]
  OBVIOUS
<1>3. CASE Fail(t)
  BY <1>0, <1>3, FailDrops
<1>4. CASE one # NoRecord /\ Answer(t, one, TRUE)
  <2>1. one \in runs /\ records[one.command.key] = one /\ one \in Runs
    BY <1>0, <1>1, <1>2, <1>4 DEF RecordsMatchKeys, TypeOK
  <2>2. Heard' = [Heard EXCEPT ![t] = @ \cup {one}] /\ UNCHANGED uncommitted
    BY <1>0, <1>4, <2>1, AnswerTold DEF InCall
  <2>3. Journal!Tell(t)
    BY <1>0, <2>1, <2>2 DEF Journal!Tell, Journal!Told, Heard
  <2>4. QED
    BY <2>3
<1>5. CASE UNCHANGED <<resultVars, uncommitted>>
  BY <1>0, <1>5, JournalStutters DEF resultVars, effectVars
<1>6. QED
  BY <1>2, <1>3, <1>4, <1>5 DEF Dispatch

(* A handler runs for a key that its caller has not performed.             *)
LEMMA HandlerPerformsOnce ==
  ASSUME Inv, NEW t \in Callers, HandlerRuns(t)
  PROVE  Journal!Perform(t)
<1>1. PICK one : one = ThisRun(t)
  OBVIOUS
<1>2. one.caller = t /\ one.command.key = Current(t).key
  BY <1>1 DEF ThisRun
<1>3. \A old \in runs : old.caller = t => old.command.key # one.command.key
  BY <1>2 DEF Inv, ReceiptInv, HandlingIsFirst, HandlerRuns
<1>4. /\ runs' = runs \cup {one} /\ UNCHANGED <<records, receipts>>
      /\ \/ effects' = effects \cup {one} /\ UNCHANGED uncommitted
         \/ uncommitted' = [uncommitted EXCEPT ![t] = @ \cup {one}] /\ UNCHANGED effects
  BY <1>1 DEF HandlerRuns, resultVars
<1>5. one \in runs' /\ UNCHANGED Heard
  BY <1>4 DEF Heard
<1>6. QED
  BY <1>2, <1>3, <1>4, <1>5 DEF Journal!Perform, Heard

(* The first receipt of a key is entered; a later one is told.             *)
LEMMA StoreEnters ==
  ASSUME Inv, NEW t \in Callers, Store(t)
  PROVE  \/ Journal!Enter(t) \/ Journal!Tell(t) \/ Journal!Drop(t)
         \/ UNCHANGED Journal!journalVars
<1>1. PICK one : one = ThisRun(t)
  OBVIOUS
<1>2. /\ pc[t] = "storing" /\ UNCHANGED <<runs, effects>> /\ TypeOK /\ StoringHasRun
  BY DEF Store, Inv, ReceiptInv
<1>3. one \in runs /\ one.caller = t /\ one.command.key = Current(t).key
  <2>1. one \in runs
    BY <1>1, <1>2 DEF StoringHasRun
  <2>2. QED
    BY <1>1, <2>1 DEF ThisRun
<1>4. Answer(t, one, FALSE) =>
        Heard' = [Heard EXCEPT ![t] = @ \cup {one}] /\ UNCHANGED uncommitted
  <2>1. one \in Runs
    BY <1>2, <1>3 DEF TypeOK
  <2>2. QED
    BY <1>2, <2>1, AnswerTold DEF InCall
<1>5. CASE /\ records[one.command.key] = NoRecord
           /\ records' = [records EXCEPT ![one.command.key] = one]
           /\ Answer(t, one, FALSE)
  <2>1. Journal!Enter(t)
    BY <1>2, <1>3, <1>4, <1>5 DEF Journal!Enter, Journal!Told, Heard
  <2>2. QED
    BY <2>1
<1>6. CASE records[one.command.key] # NoRecord /\ Answer(t, one, FALSE) /\ UNCHANGED records
  <2>1. Journal!Tell(t)
    BY <1>2, <1>3, <1>4, <1>6 DEF Journal!Tell, Journal!Told, Heard
  <2>2. QED
    BY <2>1
<1>7. CASE Fail(t) /\ UNCHANGED records
  BY <1>2, <1>7, FailDrops
<1>8. QED
  BY <1>1, <1>3, <1>5, <1>6, <1>7 DEF Store

LEMMA ReturnCommits ==
  ASSUME NEW t \in Callers, Return(t)
  PROVE  Journal!Commit(t)
BY DEF Return, Journal!Commit

LEMMA RestartForgets ==
  ASSUME Restart
  PROVE  Journal!Forget
<1>1. Heard' = [t \in Callers |-> {}]
  BY DEF Restart, Heard
<1>2. QED
  BY <1>1 DEF Restart, Journal!Forget, Heard

LEMMA JournalStep == Inv /\ [Next]_vars => [Journal!Next]_(Journal!journalVars)
<1> SUFFICES ASSUME Inv, [Next]_vars
             PROVE  Journal!Next \/ UNCHANGED Journal!journalVars
  OBVIOUS
<1>0. TypeOK
  BY DEF Inv, ReceiptInv
<1>1. CASE RegisterHandlers \/ UNCHANGED vars
  BY <1>1, JournalStutters DEF RegisterHandlers, vars, resultVars
<1>2. ASSUME NEW t \in Callers, NEW p \in Policies, NEW b \in Batches, Begin(t, p, b)
      PROVE  Journal!Next
  BY <1>2, BeginDrops DEF Journal!Next
<1>3. ASSUME NEW t \in Callers, Dispatch(t)
      PROVE  Journal!Next \/ UNCHANGED Journal!journalVars
  BY <1>3, DispatchTells DEF Journal!Next
<1>4. ASSUME NEW t \in Callers, HandlerRuns(t) PROVE Journal!Next
  BY <1>4, HandlerPerformsOnce DEF Journal!Next
<1>5. ASSUME NEW t \in Callers, HandlerFails(t)
      PROVE  Journal!Next \/ UNCHANGED Journal!journalVars
  BY <1>0, <1>5, FailDrops DEF HandlerFails, Journal!Next
<1>6. ASSUME NEW t \in Callers, Store(t)
      PROVE  Journal!Next \/ UNCHANGED Journal!journalVars
  BY <1>6, StoreEnters DEF Journal!Next
<1>7. ASSUME NEW t \in Callers, Return(t) PROVE Journal!Next
  BY <1>7, ReturnCommits DEF Journal!Next
<1>8. ASSUME NEW t \in Callers, CommitFails(t) PROVE Journal!Next
  BY <1>0, <1>8, RaiseDrops DEF CommitFails, Journal!Next
<1>9. CASE Restart
  BY <1>9, RestartForgets DEF Journal!Next
<1>10. QED
  BY <1>1, <1>2, <1>3, <1>4, <1>5, <1>6, <1>7, <1>8, <1>9 DEF Next

(* Whatever the callers interleave, repeat and lose, the services are a    *)
(* journal: one performance of a key for each caller, first entries that   *)
(* stay, answers that are entries or the caller's own, and transactions    *)
(* that become durable as a whole.                                         *)
THEOREM Refinement == Spec => ImplementsJournal
<1>1. QED
  BY JournalInit, JournalStep, InvHolds, PTL DEF Spec, ImplementsJournal, Journal!Spec
==============================================================================
