------------------------------ MODULE NameSync ------------------------------
(* The offline name catalogue of registries/name_sync and name_cache:        *)
(* NameSyncService applies snapshots and change sets to the cache and keeps  *)
(* a receipt per request.  The cache and the receipts lock each of their     *)
(* methods; the service holds no lock, so the calls of two threads           *)
(* interleave between its reads, the application and the receipt.  Clock,    *)
(* id factory and repository are injected and may raise, also after the      *)
(* application, and the request is then tried again.                         *)
EXTENDS Integers, FiniteSets

CONSTANTS
    Workers,        \* threads that call the service
    Requests,       \* request identifiers
    Names,          \* canonical name identifiers
    Identities,     \* identity keys (runtime, kind and search value)
    Absent,         \* not an identity: the name is not in the catalogue
    LastCheckpoint, \* checkpoints the authority has published, 1 and up
    Catalogue,      \* the names at each checkpoint, with their identities
    SearchLimit,    \* the most records a search returns: limit=1000
    Offers,         \* what a client may ask for: a runtime mode and a change
    NoReceipt       \* not a receipt and not a request

Checkpoints == 0 .. LastCheckpoint      \* 0: the cache was never synchronised

Catalogues == [Names -> Identities \cup {Absent}]

Cached(entries) == {n \in Names : entries[n] # Absent}

NoConflict(entries) ==
    \A n, other \in Cached(entries) : entries[n] = entries[other] => n = other

Runtimes == {"own", "other"}

\* A snapshot (from = 0) or a change set; it "fits" when its runtime mode and
\* schema version are the cache's.
Changes ==
    [kind : {"snapshot", "change_set"}, from : Checkpoints, to : Checkpoints \ {0},
     fits : BOOLEAN]

Published(change) ==
    /\ change.kind = "snapshot" => change.from = 0
    /\ change.kind = "change_set" => change.from # 0 /\ change.from < change.to

ASSUME CatalogueAssumption ==
    /\ LastCheckpoint \in Nat \ {0}
    /\ SearchLimit \in Nat \ {0}
    /\ Absent \notin Identities
    /\ IsFiniteSet(Names)
    /\ Catalogue \in [Checkpoints -> Catalogues]
    /\ Catalogue[0] = [n \in Names |-> Absent]
    /\ \A c \in Checkpoints : NoConflict(Catalogue[c])
    /\ Offers \subseteq [runtime : Runtimes, change : Changes]
    /\ \A offer \in Offers : Published(offer.change)

Statuses == {"completed", "rejected"}

Receipts ==
    [status : Statuses, runtime : Runtimes, start : Checkpoints, end : Checkpoints]

ASSUME NoReceiptAssumption == NoReceipt \notin Receipts

VARIABLES
    checkpoint,     \* NameCacheState.checkpoint
    entryCount,     \* NameCacheState.entry_count
    entries,        \* the cached entries
    receipts,       \* the receipt of each request
    worker,         \* each thread inside apply_snapshot or apply_change_set
    answers,        \* history: the receipts callers were given for each request
    applied,        \* history: the requests whose content reached the cache
    torn            \* history: the cache holds a change set that was applied
                    \* after the checkpoint it was compared with had gone

cacheVars == <<checkpoint, entryCount, entries>>
vars == <<checkpoint, entryCount, entries, receipts, worker, answers, applied, torn>>

Idle ==
    [pc |-> "idle", request |-> NoReceipt, runtime |-> "own",
     change |-> [kind |-> "snapshot", from |-> 0, to |-> 1, fits |-> TRUE],
     start |-> 0, current |-> {}, status |-> "rejected"]

Init ==
    /\ checkpoint = 0 /\ entryCount = 0 /\ entries = Catalogue[0]
    /\ receipts = [r \in Requests |-> NoReceipt]
    /\ worker = [w \in Workers |-> Idle]
    /\ answers = [r \in Requests |-> {}]
    /\ applied = {} /\ torn = FALSE

\* The call of a client, which may be the repetition of an earlier one.
Call(w) ==
    /\ worker[w].pc = "idle"
    /\ \E r \in Requests, offer \in Offers :
          worker' = [worker EXCEPT ![w] =
              [Idle EXCEPT !.pc = "called", !.request = r, !.runtime = offer.runtime,
                           !.change = offer.change]]
    /\ UNCHANGED <<cacheVars, receipts, answers, applied, torn>>

\* The call returns or raises.
Leave(w) == worker' = [worker EXCEPT ![w] = Idle]

LookupFindsNone(w) ==
    /\ worker[w].pc = "called"
    /\ receipts[worker[w].request] = NoReceipt
    /\ worker' = [worker EXCEPT ![w].pc = "looked"]
    /\ UNCHANGED <<cacheVars, receipts, answers, applied, torn>>

\* _existing: the first receipt is the answer, or the call raises because it
\* was given in another runtime mode.
LookupFindsReceipt(w) ==
    /\ worker[w].pc = "called"
    /\ LET r == worker[w].request
       IN  /\ receipts[r] # NoReceipt
           /\ answers' = IF receipts[r].runtime = worker[w].runtime
                         THEN [answers EXCEPT ![r] = @ \cup {receipts[r]}]
                         ELSE answers
    /\ Leave(w)
    /\ UNCHANGED <<cacheVars, receipts, applied, torn>>

\* Mutated form: change sets are taken from any checkpoint.
AnyStart(change, start) == TRUE

StartsHere(change, start) == change.kind = "change_set" => change.from = start

ReadState(w) ==
    /\ worker[w].pc = "looked"
    /\ LET call == worker[w]
           accepted == call.runtime = "own" /\ call.change.fits
                       /\ StartsHere(call.change, checkpoint)
           next == IF ~ accepted THEN "receipt"
                   ELSE IF call.change.kind = "snapshot" THEN "apply" ELSE "count"
       IN  worker' = [worker EXCEPT ![w].start = checkpoint, ![w].pc = next]
    /\ UNCHANGED <<cacheVars, receipts, answers, applied, torn>>

\* The identifiers of the entries the new count is computed from: a search,
\* which returns no more than its limit.
CountEntries(w) ==
    /\ worker[w].pc = "count"
    /\ \E found \in SUBSET Cached(entries) :
          /\ \/ found = Cached(entries) /\ Cardinality(found) <= SearchLimit
             \/ Cardinality(found) = SearchLimit
          /\ worker' = [worker EXCEPT ![w].current = found, ![w].pc = "apply"]
    /\ UNCHANGED <<cacheVars, receipts, answers, applied, torn>>

Upserts(change) ==
    {n \in Cached(Catalogue[change.to]) :
        Catalogue[change.from][n] # Catalogue[change.to][n]}

Removals(change) == Cached(Catalogue[change.from]) \ Cached(Catalogue[change.to])

Changed(change, old) ==
    [n \in Names |-> IF n \in Upserts(change) THEN Catalogue[change.to][n]
                     ELSE IF n \in Removals(change) THEN Absent ELSE old[n]]

\* Mutated form: removed names are still counted.
CountWithRemoved(call) == Cardinality(call.current \cup Upserts(call.change))

NewCount(call) ==
    Cardinality((call.current \ Removals(call.change)) \cup Upserts(call.change))

ApplySnapshot(w) ==
    /\ worker[w].pc = "apply" /\ worker[w].change.kind = "snapshot"
    /\ entries' = Catalogue[worker[w].change.to]
    /\ entryCount' = Cardinality(Cached(entries'))
    /\ checkpoint' = worker[w].change.to
    /\ applied' = applied \cup {worker[w].request}
    /\ torn' = FALSE
    /\ worker' = [worker EXCEPT ![w].status = "completed", ![w].pc = "receipt"]
    /\ UNCHANGED <<receipts, answers>>

\* Mutated form: the entries are taken as they are, whatever the state counts.
Unchecked(count, new) == TRUE

CountIsRight(count, new) == count = Cardinality(Cached(new))

Acceptable(call, new) == NoConflict(new) /\ CountIsRight(NewCount(call), new)

ApplyChanges(w) ==
    /\ worker[w].pc = "apply" /\ worker[w].change.kind = "change_set"
    /\ LET call == worker[w]
           new == Changed(call.change, entries)
       IN  /\ Acceptable(call, new)
           /\ entries' = new
           /\ entryCount' = NewCount(call)
           /\ checkpoint' = call.change.to
           /\ applied' = applied \cup {call.request}
           /\ torn' = (torn \/ checkpoint # call.start)
    /\ worker' = [worker EXCEPT ![w].status = "completed", ![w].pc = "receipt"]
    /\ UNCHANGED <<receipts, answers>>

\* apply_changes raises, and nothing has changed.
RefuseChanges(w) ==
    /\ worker[w].pc = "apply" /\ worker[w].change.kind = "change_set"
    /\ ~ Acceptable(worker[w], Changed(worker[w].change, entries))
    /\ Leave(w)
    /\ UNCHANGED <<cacheVars, receipts, answers, applied, torn>>

Receipt(call) ==
    [status |-> call.status, runtime |-> call.runtime, start |-> call.start,
     end |-> IF call.status = "completed" THEN call.change.to ELSE call.start]

\* Mutated form: the last receipt wins.
AlwaysSaves(r) == TRUE

\* save refuses a second receipt, which has an identifier of its own and so
\* never equals the first.
MaySave(r) == receipts[r] = NoReceipt

SaveReceipt(w) ==
    /\ worker[w].pc = "receipt"
    /\ LET r == worker[w].request
           receipt == Receipt(worker[w])
       IN  /\ MaySave(r)
           /\ receipts' = [receipts EXCEPT ![r] = receipt]
           /\ answers' = [answers EXCEPT ![r] = @ \cup {receipt}]
    /\ Leave(w)
    /\ UNCHANGED <<cacheVars, applied, torn>>

\* The clock, the factory of receipt identifiers or the repository raises, or
\* refuses a second receipt: before the application, or after it.
CallFails(w) ==
    /\ worker[w].pc \in {"apply", "receipt"}
    /\ Leave(w)
    /\ UNCHANGED <<cacheVars, receipts, answers, applied, torn>>

Next ==
    \E w \in Workers :
        \/ Call(w) \/ LookupFindsNone(w) \/ LookupFindsReceipt(w)
        \/ ReadState(w) \/ CountEntries(w)
        \/ ApplySnapshot(w) \/ ApplyChanges(w) \/ RefuseChanges(w)
        \/ SaveReceipt(w) \/ CallFails(w)

Spec == Init /\ [][Next]_vars

-----------------------------------------------------------------------------

Workings ==
    [pc : {"idle", "called", "looked", "count", "apply", "receipt"},
     request : Requests \cup {NoReceipt}, runtime : Runtimes, change : Changes,
     start : Checkpoints, current : SUBSET Names, status : Statuses]

TypeOK ==
    /\ checkpoint \in Checkpoints /\ entryCount \in Nat /\ entries \in Catalogues
    /\ receipts \in [Requests -> Receipts \cup {NoReceipt}]
    /\ worker \in [Workers -> Workings]
    /\ \A w \in Workers : worker[w].pc # "idle" => worker[w].request \in Requests
    /\ answers \in [Requests -> SUBSET Receipts]
    /\ applied \subseteq Requests
    /\ torn \in BOOLEAN

\* The state never tells another number of names than there are, and no two
\* names share an identity, even when calls overlap.
CacheIsConsistent ==
    /\ entryCount = Cardinality(Cached(entries))
    /\ NoConflict(entries)

\* A change set in work was compared with the checkpoint it starts from, so
\* the cache has been synchronised before.
ChangesStartHere ==
    \A w \in Workers :
        /\ Published(worker[w].change)
        /\ worker[w].pc \in {"count", "apply"} /\ worker[w].change.kind = "change_set" =>
              worker[w].change.from = worker[w].start /\ checkpoint # 0

\* Unless a change set was applied after the checkpoint it had been compared
\* with was gone, the cache is the catalogue of its checkpoint; a snapshot
\* makes it so again.
CacheIsCatalogue == ~ torn => entries = Catalogue[checkpoint]

\* To its readers the cache is a replica that goes from catalogue to catalogue
\* of the authority, however the steps of calls mix, and says when it is not.
Replica == INSTANCE CatalogueReplica WITH
    Sound     <- NoConflict,
    content   <- entries,
    mixed     <- torn,
    taken     <- applied,
    completed <- {r \in Requests : receipts[r] # NoReceipt /\ receipts[r].status = "completed"},
    rejected  <- {r \in Requests : receipts[r] # NoReceipt /\ receipts[r].status = "rejected"}

ImplementsReplica == Replica!Spec

\* Every caller of a request is given the same receipt, the saved one, and one
\* that says "completed" only when the content has reached the cache.
AnswersAgree ==
    \A r \in Requests : \A a \in answers[r] :
        /\ a = receipts[r]
        /\ a.status = "completed" => r \in applied

CompletedWasApplied ==
    /\ \A w \in Workers : worker[w].status = "completed" => worker[w].request \in applied
    /\ \A r \in Requests :
          receipts[r] # NoReceipt /\ receipts[r].status = "completed" => r \in applied

Inv ==
    /\ TypeOK
    /\ CacheIsConsistent
    /\ ChangesStartHere
    /\ CompletedWasApplied

Untouched(change, counted) == counted \ (Upserts(change) \cup Removals(change))

\* A change set the authority published is refused by the cache only when
\* another call got in between, or when the search that counts the names has
\* not found those the change set leaves alone; a search cut there, which has
\* left out one of them, is never taken.  What a search leaves out of the names
\* that are changed or removed does no harm.
RefusedWhenRacedOrCut ==
    [][\A w \in Workers :
          LET call == worker[w]
              found == Untouched(call.change, call.current)
              there == Untouched(call.change, Cached(entries))
          IN  /\ RefuseChanges(w) => torn \/ checkpoint # call.start \/ found # there
              /\ ApplyChanges(w) => ~ (found \subseteq there /\ found # there)]_vars
=============================================================================
