--------------------------- MODULE NameSyncProofs ---------------------------
(* The offline name cache under any number of concurrent callers, for any    *)
(* catalogue.                                                                *)
EXTENDS NameSync, FiniteSetTheorems, TLAPS

\* The size of a cache is a number.
LEMMA CountIsNat ==
    ASSUME NEW S \in SUBSET Names
    PROVE  Cardinality(S) \in Nat
BY CatalogueAssumption, FS_Subset, FS_CardinalityType

\* A published change set leads from its first checkpoint to its last one.
LEMMA ChangeReachesEnd ==
    ASSUME NEW change \in Changes, Published(change), change.kind = "change_set"
    PROVE  Changed(change, Catalogue[change.from]) = Catalogue[change.to]
<1>1. change.from \in Checkpoints /\ change.to \in Checkpoints
  BY DEF Changes
<1>2. Catalogue[change.from] \in Catalogues /\ Catalogue[change.to] \in Catalogues
  BY <1>1, CatalogueAssumption
<1>3. \A n \in Names : Changed(change, Catalogue[change.from])[n] = Catalogue[change.to][n]
  BY <1>2 DEF Changed, Upserts, Removals, Cached, Catalogues
<1> QED BY <1>2, <1>3 DEF Changed, Catalogues

\* A finite set has another size than its proper parts.
LEMMA PartIsSmaller ==
    ASSUME NEW S, IsFiniteSet(S), NEW T, T \subseteq S, T # S
    PROVE  Cardinality(T) # Cardinality(S)
<1>1. T \in SUBSET S
  OBVIOUS
<1>2. Cardinality(S) = Cardinality(T) => S = T
  BY <1>1, FS_Subset
<1> QED BY <1>2

\* Changing a cache yields a cache.
LEMMA ChangedType ==
    ASSUME NEW change \in Changes, NEW old \in Catalogues
    PROVE  Changed(change, old) \in Catalogues
<1>1. Catalogue[change.to] \in Catalogues
  BY CatalogueAssumption DEF Changes
<1> QED BY <1>1 DEF Changed, Upserts, Cached, Catalogues

LEMMA IdleType == Idle \in Workings
BY CatalogueAssumption DEF Idle, Workings, Runtimes, Changes, Checkpoints, Statuses

LEMMA InitInv == Init => Inv /\ CacheIsCatalogue
<1> SUFFICES ASSUME Init PROVE Inv /\ CacheIsCatalogue
  OBVIOUS
<1>1. 0 \in Checkpoints
  BY CatalogueAssumption DEF Checkpoints
<1>2. Cached(Catalogue[0]) = {}
  BY CatalogueAssumption DEF Cached
<1>3. TypeOK
  <2>1. entries \in Catalogues
    BY <1>1, CatalogueAssumption DEF Init
  <2>2. worker \in [Workers -> Workings] /\ \A w \in Workers : worker[w].pc = "idle"
    BY IdleType DEF Init, Idle
  <2> QED BY <2>1, <2>2, <1>1 DEF Init, TypeOK
<1>4. CacheIsConsistent
  BY <1>2, FS_EmptySet DEF Init, CacheIsConsistent, NoConflict
<1>5. ChangesStartHere
  BY DEF Init, Idle, ChangesStartHere, Published
<1>6. CompletedWasApplied
  BY DEF Init, Idle, CompletedWasApplied
<1> QED BY <1>3, <1>4, <1>5, <1>6 DEF Inv, CacheIsCatalogue, Init

\* What a thread inside a call may rely on.
Sound(call) ==
    /\ call.pc # "idle" => call.request \in Requests
    /\ Published(call.change)
    /\ call.pc \in {"count", "apply"} /\ call.change.kind = "change_set" =>
          call.change.from = call.start /\ checkpoint # 0
    /\ call.status = "completed" => call.request \in applied

All == Inv /\ CacheIsCatalogue /\ AnswersAgree

LEMMA WorkerIsSound ==
    ASSUME Inv, NEW w \in Workers
    PROVE  worker[w] \in Workings /\ Sound(worker[w])
BY DEF Inv, TypeOK, ChangesStartHere, CompletedWasApplied, Sound

LEMMA IdleIsSound == Sound(Idle)
BY DEF Sound, Idle, Published

\* A step that moves one thread and leaves the cache and the receipts alone.
LEMMA WorkerMoves ==
    ASSUME All, NEW w \in Workers, NEW new \in Workings, Sound(new),
           worker' = [worker EXCEPT ![w] = new],
           UNCHANGED <<cacheVars, receipts, answers, applied, torn>>
    PROVE  All'
<1> USE DEF All, Inv, cacheVars
<1>1. worker' \in [Workers -> Workings]
  BY DEF TypeOK
<1>2. \A v \in Workers : Sound(worker'[v])
  <2>1. \A v \in Workers : worker'[v] = worker[v] \/ worker'[v] = new
    BY DEF TypeOK
  <2> QED BY <2>1, WorkerIsSound
<1>3. TypeOK'
  BY <1>1, <1>2 DEF TypeOK, Sound
<1>4. CacheIsConsistent' /\ CacheIsCatalogue' /\ AnswersAgree'
  BY DEF CacheIsConsistent, CacheIsCatalogue, AnswersAgree, NoConflict, Cached
<1>5. ChangesStartHere'
  BY <1>2 DEF ChangesStartHere, Sound
<1>6. CompletedWasApplied'
  BY <1>2 DEF CompletedWasApplied, Sound
<1> QED BY <1>3, <1>4, <1>5, <1>6

LEMMA CallStep ==
    ASSUME All, NEW w \in Workers, Call(w) PROVE All'
<1>1. PICK r \in Requests, offer \in Offers :
          worker' = [worker EXCEPT ![w] =
              [Idle EXCEPT !.pc = "called", !.request = r, !.runtime = offer.runtime,
                           !.change = offer.change]]
  BY DEF Call
<1> DEFINE new == [Idle EXCEPT !.pc = "called", !.request = r,
                               !.runtime = offer.runtime, !.change = offer.change]
<1>2. offer.runtime \in Runtimes /\ offer.change \in Changes /\ Published(offer.change)
  BY CatalogueAssumption
<1>3. new \in Workings
  BY <1>2, IdleType DEF Workings
<1>4. new.pc = "called" /\ new.request = r /\ new.change = offer.change
  BY IdleType DEF Workings
<1>5. new.status = "rejected"
  <2>1. Idle.status = "rejected"
    BY DEF Idle
  <2> QED BY <2>1, IdleType DEF Workings
<1>6. Sound(new)
  BY <1>2, <1>4, <1>5 DEF Sound
<1> HIDE DEF new
<1>7. worker' = [worker EXCEPT ![w] = new]
  BY <1>1 DEF new
<1> QED BY <1>3, <1>6, <1>7, WorkerMoves DEF Call

LEMMA LeaveStep ==
    ASSUME All, NEW w \in Workers, Leave(w),
           UNCHANGED <<cacheVars, receipts, answers, applied, torn>>
    PROVE  All'
BY IdleType, IdleIsSound, WorkerMoves DEF Leave

LEMMA LookupFindsNoneStep ==
    ASSUME All, NEW w \in Workers, LookupFindsNone(w) PROVE All'
<1> DEFINE new == [worker[w] EXCEPT !.pc = "looked"]
<1>1. worker[w] \in Workings /\ Sound(worker[w])
  BY WorkerIsSound DEF All
<1>2. new \in Workings
  BY <1>1 DEF Workings
<1>3. Sound(new)
  BY <1>1 DEF Sound, Workings, LookupFindsNone
<1>4. worker' = [worker EXCEPT ![w] = new]
  BY DEF LookupFindsNone
<1> HIDE DEF new
<1> QED BY <1>2, <1>3, <1>4, WorkerMoves DEF LookupFindsNone

LEMMA ReadStateStep ==
    ASSUME All, NEW w \in Workers, ReadState(w) PROVE All'
<1> DEFINE call == worker[w]
           accepted == call.runtime = "own" /\ call.change.fits
                       /\ StartsHere(call.change, checkpoint)
           next == IF ~ accepted THEN "receipt"
                   ELSE IF call.change.kind = "snapshot" THEN "apply" ELSE "count"
           new == [call EXCEPT !.start = checkpoint, !.pc = next]
<1>1. call \in Workings /\ Sound(call) /\ call.pc = "looked"
  BY WorkerIsSound DEF All, ReadState
<1>2. worker' = [worker EXCEPT ![w] = new]
  BY DEF ReadState
<1>3. checkpoint \in Checkpoints
  BY DEF All, Inv, TypeOK
<1>4. next \in {"receipt", "apply", "count"}
  OBVIOUS
<1>5. next \in {"apply", "count"} => StartsHere(call.change, checkpoint)
  OBVIOUS
<1> HIDE DEF next
<1>6. /\ new.start = checkpoint /\ new.pc = next /\ new.change = call.change
      /\ new.status = call.status /\ new.request = call.request /\ new \in Workings
  BY <1>1, <1>3, <1>4 DEF Workings
<1>7. Sound(new)
  <2>1. call.change.kind = "change_set" => call.change.from # 0
    BY <1>1 DEF Sound, Published
  <2> QED BY <1>1, <1>5, <1>6, <2>1 DEF Sound, StartsHere
<1> HIDE DEF new
<1> QED BY <1>2, <1>6, <1>7, WorkerMoves DEF ReadState

LEMMA CountEntriesStep ==
    ASSUME All, NEW w \in Workers, CountEntries(w) PROVE All'
<1>1. PICK found \in SUBSET Cached(entries) :
          worker' = [worker EXCEPT ![w].current = found, ![w].pc = "apply"]
  BY DEF CountEntries
<1> DEFINE new == [worker[w] EXCEPT !.current = found, !.pc = "apply"]
<1>2. worker[w] \in Workings /\ Sound(worker[w]) /\ worker[w].pc = "count"
  BY WorkerIsSound DEF All, CountEntries
<1>3. found \in SUBSET Names
  BY DEF Cached
<1>4. new \in Workings
  BY <1>2, <1>3 DEF Workings
<1>5. Sound(new)
  BY <1>2 DEF Sound, Workings
<1>6. worker' = [worker EXCEPT ![w] = new]
  BY <1>1
<1> HIDE DEF new
<1> QED BY <1>4, <1>5, <1>6, WorkerMoves DEF CountEntries

LEMMA LookupFindsReceiptStep ==
    ASSUME All, NEW w \in Workers, LookupFindsReceipt(w) PROVE All'
<1> DEFINE r == worker[w].request
<1>1. r \in Requests /\ receipts[r] \in Receipts
  BY WorkerIsSound DEF All, Inv, TypeOK, Sound, LookupFindsReceipt
<1>2. worker' = [worker EXCEPT ![w] = Idle]
  BY DEF LookupFindsReceipt, Leave
<1>3. answers' \in [Requests -> SUBSET Receipts]
  <2>1. answers \in [Requests -> SUBSET Receipts]
    BY DEF All, Inv, TypeOK
  <2>2. [answers EXCEPT ![r] = @ \cup {receipts[r]}] \in [Requests -> SUBSET Receipts]
    BY <1>1, <2>1
  <2> QED BY <2>1, <2>2 DEF LookupFindsReceipt
<1>4. \A q \in Requests : answers'[q] \subseteq answers[q] \cup {receipts[q]}
  <2>1. answers \in [Requests -> SUBSET Receipts]
    BY DEF All, Inv, TypeOK
  <2> QED BY <1>1, <2>1 DEF LookupFindsReceipt
<1>5. UNCHANGED <<cacheVars, receipts, applied, torn>>
  BY DEF LookupFindsReceipt
<1>6. worker' \in [Workers -> Workings] /\ \A v \in Workers : Sound(worker'[v])
  BY <1>2, IdleType, IdleIsSound, WorkerIsSound DEF All, Inv, TypeOK
<1>7. TypeOK'
  BY <1>3, <1>5, <1>6 DEF All, Inv, TypeOK, Sound, cacheVars
<1>8. CacheIsConsistent' /\ CacheIsCatalogue'
  BY <1>5 DEF All, Inv, cacheVars, CacheIsConsistent, CacheIsCatalogue, NoConflict, Cached
<1>9. ChangesStartHere' /\ CompletedWasApplied'
  BY <1>5, <1>6 DEF All, Inv, ChangesStartHere, CompletedWasApplied, Sound, cacheVars
<1>10. AnswersAgree'
  <2>1. \A q \in Requests : \A a \in answers'[q] : a \in answers[q] \/ a = receipts[q]
    BY <1>4
  <2>2. \A q \in Requests : \A a \in answers'[q] : a # NoReceipt
    BY <1>3, NoReceiptAssumption
  <2> QED BY <2>1, <2>2, <1>5 DEF All, Inv, AnswersAgree, CompletedWasApplied
<1> QED BY <1>7, <1>8, <1>9, <1>10 DEF All, Inv

LEMMA ApplySnapshotStep ==
    ASSUME All, NEW w \in Workers, ApplySnapshot(w) PROVE All'
<1> DEFINE call == worker[w]
           new == [call EXCEPT !.status = "completed", !.pc = "receipt"]
<1>1. call \in Workings /\ Sound(call) /\ call.pc = "apply"
  BY WorkerIsSound DEF All, ApplySnapshot
<1>2. call.change.to \in Checkpoints \ {0} /\ call.request \in Requests
  BY <1>1 DEF Workings, Changes, Sound
<1>3. /\ entries' = Catalogue[call.change.to] /\ checkpoint' = call.change.to
      /\ entryCount' = Cardinality(Cached(entries'))
      /\ applied' = applied \cup {call.request}
      /\ UNCHANGED <<receipts, answers>>
  BY DEF ApplySnapshot
<1>4. entries' \in Catalogues /\ NoConflict(entries')
  BY <1>2, <1>3, CatalogueAssumption
<1>5. entryCount' \in Nat
  <2>1. Cached(entries') \in SUBSET Names
    BY DEF Cached
  <2> HIDE DEF call
  <2> QED BY <2>1, <1>3, CountIsNat
<1>6. new \in Workings /\ new.pc = "receipt" /\ new.change = call.change
      /\ new.request = call.request
  BY <1>1 DEF Workings, Statuses
<1>7. worker' = [worker EXCEPT ![w] = new]
  BY DEF ApplySnapshot
<1>8. torn' = FALSE
  BY DEF ApplySnapshot
<1> HIDE DEF new
<1>9. \A v \in Workers : worker'[v] \in Workings /\ Sound(worker[v])'
  BY <1>1, <1>2, <1>3, <1>6, <1>7, WorkerIsSound DEF All, Inv, TypeOK, Sound
<1>10. TypeOK'
  BY <1>2, <1>3, <1>4, <1>5, <1>6, <1>7, <1>8, <1>9 DEF All, Inv, TypeOK, Sound
<1>11. CacheIsConsistent' /\ CacheIsCatalogue'
  BY <1>3, <1>4 DEF CacheIsConsistent, CacheIsCatalogue
<1>12. ChangesStartHere' /\ CompletedWasApplied'
  BY <1>3, <1>9 DEF All, Inv, ChangesStartHere, CompletedWasApplied, Sound
<1>13. AnswersAgree'
  BY <1>3 DEF All, AnswersAgree
<1> QED BY <1>10, <1>11, <1>12, <1>13 DEF All, Inv

LEMMA ApplyChangesStep ==
    ASSUME All, NEW w \in Workers, ApplyChanges(w) PROVE All'
<1> DEFINE call == worker[w]
           new == [call EXCEPT !.status = "completed", !.pc = "receipt"]
<1>1. call \in Workings /\ Sound(call) /\ call.pc = "apply"
      /\ call.change.kind = "change_set"
  BY WorkerIsSound DEF All, ApplyChanges
<1>2. /\ call.change \in Changes /\ call.change.to \in Checkpoints \ {0}
      /\ call.request \in Requests
  BY <1>1 DEF Workings, Changes, Sound
<1>3. /\ entries' = Changed(call.change, entries) /\ checkpoint' = call.change.to
      /\ entryCount' = NewCount(call)
      /\ applied' = applied \cup {call.request}
      /\ Acceptable(call, Changed(call.change, entries))
      /\ torn' = (torn \/ checkpoint # call.start)
      /\ UNCHANGED <<receipts, answers>>
  BY DEF ApplyChanges
<1>4. entries' \in Catalogues /\ entryCount' \in Nat
  <2>1. entries' \in Catalogues
    BY <1>2, <1>3, ChangedType DEF All, Inv, TypeOK
  <2>2. entryCount' = Cardinality(Cached(entries'))
    BY <1>3 DEF Acceptable, CountIsRight
  <2>3. Cached(entries') \in SUBSET Names
    BY DEF Cached
  <2> HIDE DEF call
  <2> QED BY <2>1, <2>2, <2>3, CountIsNat
<1>5. CacheIsConsistent'
  BY <1>3 DEF Acceptable, CountIsRight, CacheIsConsistent
<1>6. CacheIsCatalogue'
  <2> SUFFICES ASSUME ~ torn' PROVE entries' = Catalogue[checkpoint']
    BY DEF CacheIsCatalogue
  <2>1. ~ torn /\ checkpoint = call.start /\ call.start = call.change.from
    BY <1>1, <1>3 DEF All, Inv, TypeOK, Sound
  <2>2. entries = Catalogue[call.change.from]
    BY <2>1 DEF All, CacheIsCatalogue
  <2>3. Published(call.change)
    BY <1>1 DEF Sound
  <2> HIDE DEF call
  <2> QED BY <1>1, <1>2, <1>3, <2>2, <2>3, ChangeReachesEnd
<1>7. new \in Workings /\ new.pc = "receipt" /\ new.change = call.change
      /\ new.request = call.request
  BY <1>1 DEF Workings, Statuses
<1>8. worker' = [worker EXCEPT ![w] = new]
  BY DEF ApplyChanges
<1> HIDE DEF new
<1>9. \A v \in Workers : worker'[v] \in Workings /\ Sound(worker[v])'
  BY <1>1, <1>2, <1>3, <1>7, <1>8, WorkerIsSound DEF All, Inv, TypeOK, Sound
<1>10. TypeOK'
  <2>1. torn' \in BOOLEAN
    BY <1>3 DEF All, Inv, TypeOK
  <2> QED BY <1>2, <1>3, <1>4, <1>7, <1>8, <1>9, <2>1 DEF All, Inv, TypeOK, Sound
<1>11. ChangesStartHere' /\ CompletedWasApplied'
  BY <1>3, <1>9 DEF All, Inv, ChangesStartHere, CompletedWasApplied, Sound
<1>12. AnswersAgree'
  BY <1>3 DEF All, AnswersAgree
<1> QED BY <1>5, <1>6, <1>10, <1>11, <1>12 DEF All, Inv

LEMMA SaveReceiptStep ==
    ASSUME All, NEW w \in Workers, SaveReceipt(w) PROVE All'
<1> DEFINE call == worker[w]
           r == call.request
           receipt == Receipt(call)
<1>1. call \in Workings /\ Sound(call) /\ r \in Requests
  BY WorkerIsSound DEF All, SaveReceipt, Sound
<1>2. receipts[r] = NoReceipt
  BY DEF SaveReceipt, MaySave
<1>3. /\ receipts' = [receipts EXCEPT ![r] = receipt]
      /\ answers' = [answers EXCEPT ![r] = @ \cup {receipt}]
      /\ worker' = [worker EXCEPT ![w] = Idle]
      /\ UNCHANGED <<cacheVars, applied, torn>>
  BY DEF SaveReceipt, Leave
<1>4. receipt \in Receipts /\ receipt.status = call.status
  BY <1>1 DEF Receipt, Receipts, Workings, Changes
<1>5. receipt.status = "completed" => r \in applied
  BY <1>1, <1>4 DEF Sound
<1>6. worker' \in [Workers -> Workings] /\ \A v \in Workers : Sound(worker'[v])
  BY <1>3, IdleType, IdleIsSound, WorkerIsSound DEF All, Inv, TypeOK
<1> HIDE DEF call, r, receipt
<1>7. TypeOK'
  <2>1. receipts' \in [Requests -> Receipts \cup {NoReceipt}]
    BY <1>1, <1>3, <1>4 DEF All, Inv, TypeOK
  <2>2. answers' \in [Requests -> SUBSET Receipts]
    BY <1>1, <1>3, <1>4 DEF All, Inv, TypeOK
  <2> QED BY <1>3, <1>6, <2>1, <2>2 DEF All, Inv, TypeOK, Sound, cacheVars
<1>8. CacheIsConsistent' /\ CacheIsCatalogue'
  BY <1>3 DEF All, Inv, cacheVars, CacheIsConsistent, CacheIsCatalogue, NoConflict, Cached
<1>9. ChangesStartHere'
  BY <1>3, <1>6 DEF ChangesStartHere, Sound, cacheVars
<1>10. CompletedWasApplied'
  <2>1. \A q \in Requests : receipts'[q] = receipts[q] \/ (q = r /\ receipts'[q] = receipt)
    BY <1>1, <1>3 DEF All, Inv, TypeOK
  <2> QED BY <1>3, <1>5, <1>6, <2>1 DEF All, Inv, CompletedWasApplied, Sound
<1>11. AnswersAgree'
  <2>1. answers[r] = {}
    BY <1>1, <1>2, NoReceiptAssumption DEF All, Inv, TypeOK, AnswersAgree
  <2>2. answers'[r] = {receipt} /\ receipts'[r] = receipt
    BY <1>1, <1>3, <2>1 DEF All, Inv, TypeOK
  <2>3. \A q \in Requests \ {r} : answers'[q] = answers[q] /\ receipts'[q] = receipts[q]
    BY <1>1, <1>3 DEF All, Inv, TypeOK
  <2> QED BY <1>3, <1>5, <2>2, <2>3 DEF All, AnswersAgree
<1> QED BY <1>7, <1>8, <1>9, <1>10, <1>11 DEF All, Inv

LEMMA Preserved == All /\ [Next]_vars => All'
<1> SUFFICES ASSUME All, [Next]_vars PROVE All'
  OBVIOUS
<1>1. CASE UNCHANGED vars
  BY <1>1 DEF All, Inv, vars, TypeOK, CacheIsConsistent, ChangesStartHere,
              CompletedWasApplied, CacheIsCatalogue, AnswersAgree, NoConflict, Cached
<1>2. ASSUME NEW w \in Workers, Call(w) PROVE All'
  BY <1>2, CallStep
<1>3. ASSUME NEW w \in Workers, LookupFindsNone(w) PROVE All'
  BY <1>3, LookupFindsNoneStep
<1>4. ASSUME NEW w \in Workers, LookupFindsReceipt(w) PROVE All'
  BY <1>4, LookupFindsReceiptStep
<1>5. ASSUME NEW w \in Workers, ReadState(w) PROVE All'
  BY <1>5, ReadStateStep
<1>6. ASSUME NEW w \in Workers, CountEntries(w) PROVE All'
  BY <1>6, CountEntriesStep
<1>7. ASSUME NEW w \in Workers, ApplySnapshot(w) PROVE All'
  BY <1>7, ApplySnapshotStep
<1>8. ASSUME NEW w \in Workers, ApplyChanges(w) PROVE All'
  BY <1>8, ApplyChangesStep
<1>9. ASSUME NEW w \in Workers, RefuseChanges(w) \/ CallFails(w) PROVE All'
  BY <1>9, LeaveStep DEF RefuseChanges, CallFails
<1>10. ASSUME NEW w \in Workers, SaveReceipt(w) PROVE All'
  BY <1>10, SaveReceiptStep
<1> QED BY <1>1, <1>2, <1>3, <1>4, <1>5, <1>6, <1>7, <1>8, <1>9, <1>10 DEF Next

LEMMA AllHolds == Spec => []All
<1>1. Init => All
  BY InitInv DEF All, AnswersAgree, Init
<1> QED BY <1>1, Preserved, PTL DEF Spec

\* For any callers, requests and catalogue: the state never counts another
\* number of names than the cache holds, no two share an identity, and a
\* "completed" receipt stands for content that reached the cache.
THEOREM InvHolds == Spec => []Inv
<1>1. All => Inv
  BY DEF All
<1> QED BY <1>1, AllHolds, PTL

\* The cache is the catalogue of its checkpoint, until a change set is applied
\* after the checkpoint it was compared with had gone, and after each snapshot.
THEOREM CacheIsCatalogueHolds == Spec => []CacheIsCatalogue
<1>1. All => CacheIsCatalogue
  BY DEF All
<1> QED BY <1>1, AllHolds, PTL

\* All callers of a request that get an answer get the saved receipt.
THEOREM AnswersAgreeHolds == Spec => []AnswersAgree
<1>1. All => AnswersAgree
  BY DEF All
<1> QED BY <1>1, AllHolds, PTL

\* What is counted depends only on what the change set leaves alone.
LEMMA CountOfUntouched ==
    ASSUME NEW call, NEW old \in Catalogues
    PROVE  /\ NewCount(call) =
                  Cardinality(Untouched(call.change, call.current) \cup Upserts(call.change))
           /\ Cached(Changed(call.change, old)) =
                  Untouched(call.change, Cached(old)) \cup Upserts(call.change)
<1>1. (call.current \ Removals(call.change)) \cup Upserts(call.change)
          = Untouched(call.change, call.current) \cup Upserts(call.change)
  BY DEF Untouched
<1>2. Cached(Changed(call.change, old)) =
          Untouched(call.change, Cached(old)) \cup Upserts(call.change)
  BY DEF Changed, Untouched, Cached, Upserts, Removals
<1> QED BY <1>1, <1>2 DEF NewCount

LEMMA UnracedIsAccepted ==
    ASSUME All, NEW w \in Workers, RefuseChanges(w)
    PROVE  \/ torn \/ checkpoint # worker[w].start
           \/ Untouched(worker[w].change, worker[w].current)
                 # Untouched(worker[w].change, Cached(entries))
<1> DEFINE call == worker[w]
<1> SUFFICES ASSUME ~ torn, checkpoint = call.start,
                    Untouched(call.change, call.current) = Untouched(call.change, Cached(entries))
             PROVE  FALSE
  BY DEF All, Inv, TypeOK
<1>1. call \in Workings /\ Sound(call) /\ call.change.kind = "change_set"
      /\ call.pc = "apply"
  BY WorkerIsSound DEF All, RefuseChanges
<1>2. call.change \in Changes /\ Published(call.change) /\ call.change.to \in Checkpoints
      /\ call.change.from = call.start
  BY <1>1 DEF Workings, Changes, Sound
<1>3. entries = Catalogue[call.change.from]
  BY <1>2 DEF All, CacheIsCatalogue
<1>4. ~ Acceptable(call, Changed(call.change, entries))
  BY DEF RefuseChanges
<1>5. NewCount(call) = Cardinality(Cached(Changed(call.change, entries)))
  <2>1. entries \in Catalogues
    BY DEF All, Inv, TypeOK
  <2> QED BY <2>1, CountOfUntouched
<1> HIDE DEF call
<1>6. Changed(call.change, entries) = Catalogue[call.change.to]
  BY <1>1, <1>2, <1>3, ChangeReachesEnd
<1>7. NoConflict(Catalogue[call.change.to])
  BY <1>2, CatalogueAssumption
<1> QED BY <1>4, <1>5, <1>6, <1>7 DEF Acceptable, CountIsRight

\* A search that has left out a name the change set leaves alone counts less
\* than there is.
LEMMA CutIsRefused ==
    ASSUME All, NEW w \in Workers, ApplyChanges(w)
    PROVE  ~ (/\ Untouched(worker[w].change, worker[w].current)
                    \subseteq Untouched(worker[w].change, Cached(entries))
              /\ Untouched(worker[w].change, worker[w].current)
                    # Untouched(worker[w].change, Cached(entries)))
<1> DEFINE call == worker[w]
           found == Untouched(call.change, call.current)
           there == Untouched(call.change, Cached(entries))
           new == Changed(call.change, entries)
           ups == Upserts(call.change)
<1>1. NewCount(call) = Cardinality(Cached(new))
  BY DEF ApplyChanges, Acceptable, CountIsRight
<1>2. entries \in Catalogues
  BY DEF All, Inv, TypeOK
<1>3. NewCount(call) = Cardinality(found \cup ups) /\ Cached(new) = there \cup ups
  BY <1>2, CountOfUntouched
<1>4. found \cap ups = {} /\ there \cap ups = {}
  BY DEF Untouched
<1>5. IsFiniteSet(there \cup ups)
  <2>1. there \cup ups \subseteq Names
    BY DEF Untouched, Upserts, Cached
  <2> QED BY <2>1, CatalogueAssumption, FS_Subset
<1> HIDE DEF found, there, ups, new, call
<1>6. SUFFICES ASSUME found \subseteq there, found # there PROVE FALSE
  BY DEF found, there, call
<1>7. found \cup ups \subseteq there \cup ups /\ found \cup ups # there \cup ups
  BY <1>4, <1>6
<1>8. Cardinality(found \cup ups) # Cardinality(there \cup ups)
  BY <1>5, <1>7, PartIsSmaller
<1>9. Cardinality(found \cup ups) = Cardinality(there \cup ups)
  <2>1. Cardinality(Cached(new)) = Cardinality(there \cup ups)
    BY <1>3
  <2> QED BY <1>1, <1>3, <2>1
<1> QED BY <1>8, <1>9

\* The cache refuses a published change set only because of a race, or because
\* the search did not find the names the change set leaves alone; when it has
\* left out one of them, it is refused.
THEOREM RefusedWhenRacedOrCutHolds == Spec => RefusedWhenRacedOrCut
<1>1. All /\ [Next]_vars =>
        [\A w \in Workers :
          LET call == worker[w]
              found == Untouched(call.change, call.current)
              there == Untouched(call.change, Cached(entries))
          IN  /\ RefuseChanges(w) => torn \/ checkpoint # call.start \/ found # there
              /\ ApplyChanges(w) => ~ (found \subseteq there /\ found # there)]_vars
  BY UnracedIsAccepted, CutIsRefused
<1> QED BY <1>1, AllHolds, PTL DEF Spec, RefusedWhenRacedOrCut

-----------------------------------------------------------------------------
(* The refinement of CatalogueReplica.                                       *)

Completed == {r \in Requests : receipts[r] # NoReceipt /\ receipts[r].status = "completed"}

Rejected == {r \in Requests : receipts[r] # NoReceipt /\ receipts[r].status = "rejected"}

LEMMA ReplicaInit == Init => Replica!Init
<1> SUFFICES ASSUME Init PROVE Replica!Init
  OBVIOUS
<1>1. Completed = {} /\ Rejected = {}
  BY DEF Init, Completed, Rejected
<1> QED BY <1>1 DEF Init, Replica!Init, Completed, Rejected

\* A step that leaves cache and receipts alone is a stutter.
LEMMA ReplicaStutters ==
    ASSUME UNCHANGED <<cacheVars, receipts, applied, torn>>
    PROVE  UNCHANGED Replica!replicaVars
BY DEF cacheVars, Replica!replicaVars

LEMMA SnapshotReplaces ==
    ASSUME All, NEW w \in Workers, ApplySnapshot(w) PROVE Replica!Next
<1> DEFINE r == worker[w].request
           c == worker[w].change.to
<1>1. r \in Requests /\ c \in Checkpoints \ {0}
  BY WorkerIsSound DEF All, ApplySnapshot, Sound, Workings, Changes
<1>2. Replica!Moves(r, c)
  BY DEF ApplySnapshot, Replica!Moves
<1>3. Replica!Replace(r, c)
  BY <1>2 DEF ApplySnapshot, Replica!Replace
<1> QED BY <1>1, <1>3 DEF Replica!Next

\* Changes that land on the catalogue they were made for advance the replica,
\* others mix it up: the cache had been synchronised when they were compared,
\* and still does when they land.
LEMMA ChangesAdvanceOrMix ==
    ASSUME All, NEW w \in Workers, ApplyChanges(w) PROVE Replica!Next
<1> DEFINE call == worker[w]
           r == call.request
           c == call.change.to
<1>1. /\ call \in Workings /\ Sound(call) /\ call.pc = "apply"
      /\ call.change.kind = "change_set"
  BY WorkerIsSound DEF All, ApplyChanges
<1>2. r \in Requests /\ call.change \in Changes /\ c \in Checkpoints \ {0}
  BY <1>1 DEF Sound, Workings, Changes
<1>3. /\ entries' = Changed(call.change, entries) /\ NoConflict(entries')
      /\ checkpoint' = c /\ applied' = applied \cup {r}
      /\ torn' = (torn \/ checkpoint # call.start) /\ receipts' = receipts
  BY DEF ApplyChanges, Acceptable
<1>4. Replica!Moves(r, c)
  BY <1>3 DEF Replica!Moves
<1>5. call.change.from = call.start /\ checkpoint # 0 /\ Published(call.change)
  BY <1>1 DEF Sound
<1>6. CASE torn \/ checkpoint # call.start
  <2>1. Replica!Mix(r, c)
    BY <1>3, <1>4, <1>5, <1>6 DEF Replica!Mix
  <2> QED BY <1>2, <2>1 DEF Replica!Next
<1>7. CASE ~ torn /\ checkpoint = call.start
  <2>1. torn \in BOOLEAN /\ torn' = torn
    BY <1>3, <1>7 DEF All, Inv, TypeOK
  <2>2. 0 < checkpoint /\ checkpoint < c
    <3>1. checkpoint \in Nat
      BY DEF All, Inv, TypeOK, Checkpoints
    <3>2. checkpoint < c
      BY <1>1, <1>5, <1>7 DEF Published
    <3> HIDE DEF c
    <3> QED BY <3>1, <3>2, <1>5
  <2>3. entries = Catalogue[call.change.from]
    BY <1>5, <1>7 DEF All, CacheIsCatalogue
  <2>4. entries' = Catalogue[c]
    BY <1>1, <1>2, <1>3, <1>5, <2>3, ChangeReachesEnd
  <2>5. Replica!Advance(r, c)
    BY <1>4, <1>7, <2>1, <2>2, <2>4 DEF Replica!Advance
  <2> QED BY <1>2, <2>5 DEF Replica!Next
<1> QED BY <1>6, <1>7

\* The first receipt of a request is its answer.
LEMMA ReceiptAnswers ==
    ASSUME All, NEW w \in Workers, SaveReceipt(w) PROVE Replica!Next
<1> DEFINE call == worker[w]
           receipt == Receipt(call)
<1>1. call \in Workings /\ Sound(call)
  BY WorkerIsSound DEF All
<1>2. PICK r \in Requests : r = call.request
  BY <1>1 DEF SaveReceipt, Sound
<1>3. /\ receipts[r] = NoReceipt /\ receipts' = [receipts EXCEPT ![r] = receipt]
      /\ UNCHANGED <<cacheVars, applied, torn>>
  BY <1>2 DEF SaveReceipt, MaySave
<1>4. receipt \in Receipts /\ receipt.status = call.status
  BY <1>1 DEF Receipt, Receipts, Workings, Changes
<1>5. receipt # NoReceipt /\ call.status \in Statuses
  BY <1>1, <1>4, NoReceiptAssumption DEF Workings
<1>6. r \notin Completed \cup Rejected
  BY <1>3 DEF Completed, Rejected
<1>7. call.status = "completed" => r \in applied
  BY <1>1, <1>2 DEF Sound
<1> HIDE DEF call, receipt
<1>8. /\ receipts'[r] = receipt
      /\ \A q \in Requests \ {r} : receipts'[q] = receipts[q]
  BY <1>3 DEF All, Inv, TypeOK
<1>9. CASE call.status = "completed"
  <2>1. Completed' = Completed \cup {r} /\ Rejected' = Rejected
    BY <1>3, <1>4, <1>5, <1>8, <1>9 DEF Completed, Rejected
  <2>2. Replica!Complete(r)
    BY <1>3, <1>6, <1>7, <1>9, <2>1 DEF Replica!Complete, Completed, Rejected, cacheVars
  <2> QED BY <2>2 DEF Replica!Next
<1>10. CASE call.status = "rejected"
  <2>1. Rejected' = Rejected \cup {r} /\ Completed' = Completed
    BY <1>3, <1>4, <1>5, <1>8, <1>10 DEF Completed, Rejected
  <2>2. Replica!Reject(r)
    BY <1>3, <1>6, <2>1 DEF Replica!Reject, Completed, Rejected, cacheVars
  <2> QED BY <2>2 DEF Replica!Next
<1> QED BY <1>5, <1>9, <1>10 DEF Statuses

LEMMA ReplicaStep == All /\ [Next]_vars => [Replica!Next]_(Replica!replicaVars)
<1> SUFFICES ASSUME All, [Next]_vars
             PROVE  Replica!Next \/ UNCHANGED Replica!replicaVars
  OBVIOUS
<1>1. CASE UNCHANGED vars
  BY <1>1, ReplicaStutters DEF vars, cacheVars
<1>2. ASSUME NEW w \in Workers,
             \/ Call(w) \/ LookupFindsNone(w) \/ LookupFindsReceipt(w) \/ ReadState(w)
             \/ CountEntries(w) \/ RefuseChanges(w) \/ CallFails(w)
      PROVE  UNCHANGED Replica!replicaVars
  BY <1>2, ReplicaStutters DEF Call, LookupFindsNone, LookupFindsReceipt, ReadState,
                               CountEntries, RefuseChanges, CallFails
<1>3. ASSUME NEW w \in Workers, ApplySnapshot(w) \/ ApplyChanges(w) \/ SaveReceipt(w)
      PROVE  Replica!Next
  BY <1>3, SnapshotReplaces, ChangesAdvanceOrMix, ReceiptAnswers
<1> QED BY <1>1, <1>2, <1>3 DEF Next

\* Whatever the calls, and however their steps mix, the cache is a replica
\* that goes from catalogue to catalogue of the authority and marks when it has
\* left them, and every request has one answer.
THEOREM Refinement == Spec => ImplementsReplica
<1> QED BY ReplicaInit, ReplicaStep, AllHolds, PTL
           DEF Spec, ImplementsReplica, Replica!Spec
=============================================================================
