------------------------- MODULE CredentialDelivery -------------------------
(* The lifecycles that m006_10_02_credential_bundle_storage_delivery.sql     *)
(* gives credential bundles, their archive secrets and their deliveries,     *)
(* as any transactions may drive them: no service of the repository writes   *)
(* these tables yet (qualification.py does, in a transaction it rolls back), *)
(* so a statement is whatever the CHECK constraints, the unique indexes and  *)
(* the triggers let through.  A timestamp is modelled by being set or not;   *)
(* columns a trigger keeps as inserted are functions of the primary key.  An *)
(* insertion leaves the state columns to their defaults, as that writer does *)
(* for a bundle, though the schema would take any state.                     *)
EXTENDS ReadCommitted, FiniteSets, Naturals

CONSTANTS
    Principals,     \* developers, each with one Enigma profile assignment
    Bundles,
    Deliveries,
    Secrets,
    Owner,          \* the principal of each bundle
    BundleOf,       \* the bundle of each delivery and of each secret
    Confirmations,  \* what must be set before ready_at: integrity_verified_at
                    \* and object_confirmed_at, which behave alike
    MaxDownloads,   \* bound of download_count
    MaxLocks        \* bound of the rows a transaction writes

ASSUME SchemaAssumption ==
    /\ Ids = Principals \cup Bundles \cup Deliveries \cup Secrets
    /\ Principals \cap (Bundles \cup Deliveries \cup Secrets) = {}
    /\ Bundles \cap (Deliveries \cup Secrets) = {}
    /\ Deliveries \cap Secrets = {}
    /\ Owner \in [Bundles -> Principals]
    /\ BundleOf \in [Deliveries \cup Secrets -> Bundles]
    /\ "ready" \notin Confirmations
    /\ MaxDownloads \in Nat /\ MaxLocks \in Nat

VARIABLE
    pending     \* the row each transaction has begun to insert: its trigger has
                \* passed, and it is not in the table yet; or NoOne

vars == <<row, draft, writer, pending>>

Terminal == {"EXPIRED", "RETIRED", "INVALIDATED"}
Evidence == Confirmations \cup {"ready"}

ReadyEvidence(b) ==
    /\ b.state = "GENERATED" => "ready" \notin b.evidence
    /\ b.state \in {"READY", "RETIRED"} => "ready" \in b.evidence
    /\ "ready" \in b.evidence => b.evidence = Evidence

BundleRows ==
    {b \in [state : {"GENERATED", "READY"} \cup Terminal, evidence : SUBSET Evidence] :
        ReadyEvidence(b)}

\* "CLOSED" stands for CONSUMED, EXPIRED and REVOKED, which no rule tells apart.
DeliveryRows ==
    [state : {"ISSUED", "CLOSED"}, downloads : 0 .. MaxDownloads]

SecretRows == [state : {"ACTIVE", "RETIRED"}]

AssignmentRows == [state : {"ACTIVE", "ENDED"}]

RowsOf(x) ==
    {r \in AssignmentRows : x \in Principals} \cup {r \in BundleRows : x \in Bundles}
    \cup {r \in DeliveryRows : x \in Deliveries} \cup {r \in SecretRows : x \in Secrets}

AllRows == AssignmentRows \cup BundleRows \cup DeliveryRows \cup SecretRows

ASSUME NoRowAssumption == NoRow \notin AllRows

\* The partial unique indexes hold the rows in these states.
Current ==
    {r \in AllRows : r.state \in {"GENERATED", "READY", "ISSUED", "ACTIVE"}}

Rivals(x) ==
    {y \in Bundles : x \in Bundles /\ x # y /\ Owner[x] = Owner[y]}
    \cup {y \in Deliveries : x \in Deliveries /\ x # y /\ BundleOf[x] = BundleOf[y]}
    \cup {y \in Secrets : x \in Secrets /\ x # y /\ BundleOf[x] = BundleOf[y]}

\* An insertion leaves state, evidence and counter to their defaults.
Default(x) ==
    IF x \in Bundles THEN [state |-> "GENERATED", evidence |-> {}]
    ELSE IF x \in Deliveries THEN [state |-> "ISSUED", downloads |-> 0]
    ELSE [state |-> "ACTIVE"]

Init ==
    /\ row \in [Ids -> {NoRow} \cup AssignmentRows]
    /\ \A x \in Ids : row[x] = NoRow <=> x \notin Principals
    /\ draft = [x \in Ids |-> NoRow]
    /\ writer = [x \in Ids |-> NoOne]
    /\ pending = [t \in Transactions |-> NoOne]

MayWrite(t, x) ==
    /\ Lockable(t, x)
    /\ Cardinality({y \in Ids : y # x /\ writer[y] = t}) < MaxLocks

\* -- insertions: the trigger first, then the table and its indexes ----------

OwnerIsActive(t, b) == Visible(t, Owner[b]) = [state |-> "ACTIVE"]

\* Mutated form: the trigger is content with a bundle that exists.
BundleExists(t, d) == Visible(t, BundleOf[d]) # NoRow

BundleIsReady(t, d) ==
    /\ Visible(t, BundleOf[d]) # NoRow
    /\ Visible(t, BundleOf[d]).state = "READY"

BeginInsert(t, x) ==
    /\ pending[t] = NoOne
    /\ Visible(t, x) = NoRow
    /\ \/ x \in Bundles /\ OwnerIsActive(t, x)
       \/ x \in Deliveries /\ BundleIsReady(t, x)
       \/ x \in Secrets /\ Visible(t, BundleOf[x]) # NoRow
    /\ pending' = [pending EXCEPT ![t] = x]
    /\ UNCHANGED storeVars

\* Mutated form: the index does not see what others have not committed.
KeyLooksFree(t, x) == \A y \in Rivals(x) : Visible(t, y) \notin Current

KeyIsFree(t, x) == FreeKey(t, Rivals(x), Current)

FinishInsert(t) ==
    \E x \in Ids :
        /\ pending[t] = x
        /\ MayWrite(t, x) /\ Visible(t, x) = NoRow
        /\ KeyIsFree(t, x)
        /\ Write(t, x, Default(x))
        /\ pending' = [pending EXCEPT ![t] = NoOne]

\* -- updates: the row is locked, then its latest version meets the trigger --

\* Mutated form: an update may clear evidence.
AnyEvidence(old, new) == TRUE

EvidenceStays(old, new) == old.evidence \subseteq new.evidence

NoneIssued(t, b) ==
    \A d \in Deliveries : BundleOf[d] = b =>
        ~ (Visible(t, d) # NoRow /\ Visible(t, d).state = "ISSUED")

\* Mutated form: a row in a terminal state may be updated.
AnyRow(x, old) == TRUE

Mutable(x, old) ==
    /\ x \in Bundles => old.state \notin Terminal
    /\ x \in Deliveries => old.state = "ISSUED"
    /\ x \in Secrets => old.state = "ACTIVE"

BundleTransition(t, b, old, new) ==
    /\ new.state \in Terminal => NoneIssued(t, b)
    /\ old.state = "GENERATED" => new.state # "RETIRED"
    /\ old.state = "READY" => new.state # "GENERATED"
    /\ EvidenceStays(old, new)

Update(t, x) ==
    /\ pending[t] = NoOne
    /\ MayWrite(t, x) /\ Visible(t, x) # NoRow
    /\ Mutable(x, Visible(t, x))
    /\ \E new \in RowsOf(x) :
          /\ x \in Bundles => BundleTransition(t, x, Visible(t, x), new)
          /\ x \in Deliveries => new.downloads >= Visible(t, x).downloads
          /\ x \in Secrets => new.state = "RETIRED"
          /\ Write(t, x, new)
    /\ UNCHANGED pending

\* The assignments belong to m006_10_02_nexilabs_account_credential_authority:
\* no trigger guards them, and they are changed by transactions of their own.
ChangeAssignment(p) ==
    /\ \E new \in AssignmentRows : row' = [row EXCEPT ![p] = new]
    /\ UNCHANGED <<draft, writer, pending>>

\* -- the end of a transaction ------------------------------------------------

Commit(t) ==
    /\ pending[t] = NoOne /\ Open(t)
    /\ Publish(t) /\ Forget(t)
    /\ UNCHANGED pending

\* A statement that fails, a deadlock the server breaks, a client that gives
\* up or is lost: all the transaction wrote is gone.
Rollback(t) ==
    /\ pending[t] # NoOne \/ Open(t)
    /\ Forget(t)
    /\ row' = row
    /\ pending' = [pending EXCEPT ![t] = NoOne]

Next ==
    \/ \E p \in Principals : ChangeAssignment(p)
    \/ \E t \in Transactions :
        \/ \E x \in Ids \ Principals : BeginInsert(t, x) \/ Update(t, x)
        \/ FinishInsert(t)
        \/ Commit(t)
        \/ Rollback(t)

Spec == Init /\ [][Next]_vars

-----------------------------------------------------------------------------

\* What the reads of PostgreSQLCredentialBundleAuthority return.
ReadyBundles(p) ==
    {b \in Bundles : /\ Owner[b] = p /\ row[p] = [state |-> "ACTIVE"]
                     /\ row[b] # NoRow /\ row[b].state = "READY"}

IssuedDeliveries(b) ==
    {d \in Deliveries : /\ BundleOf[d] = b /\ row[b] # NoRow /\ row[b].state = "READY"
                        /\ row[d] # NoRow /\ row[d].state = "ISSUED"}

ActiveSecrets(b) ==
    {s \in Secrets : BundleOf[s] = b /\ row[s] = [state |-> "ACTIVE"]}

Versions(x) == {NoRow} \cup RowsOf(x)

AllVersions == UNION {Versions(x) : x \in Ids}

TypeOK ==
    /\ row \in [Ids -> AllVersions]
    /\ draft \in [Ids -> AllVersions]
    /\ \A x \in Ids : row[x] \in Versions(x) /\ draft[x] \in Versions(x)
    /\ writer \in [Ids -> Transactions \cup {NoOne}]
    /\ pending \in [Transactions -> (Ids \ Principals) \cup {NoOne}]

\* No trigger lets a row in these states change.
Final(x, version) == x \notin Principals /\ version.state \in Terminal \cup {"CLOSED"}

\* An uncommitted version exists while its writer is open, keeps the evidence
\* of the committed one, and never replaces a row that had become immutable.
DraftsFollowRows ==
    \A x \in Ids :
        /\ writer[x] = NoOne <=> draft[x] = NoRow
        /\ writer[x] # NoOne /\ row[x] # NoRow => ~ Final(x, row[x])
        /\ writer[x] # NoOne /\ row[x] # NoRow /\ x \in Bundles =>
              row[x].evidence \subseteq draft[x].evidence

\* Whatever commits next, no two rows with one key are in a unique index.
KeysStayUnique ==
    \A x \in Ids : \A y \in Rivals(x) :
        /\ ~ (row[x] \in Current /\ row[y] \in Current)
        /\ draft[x] \in Current =>
              draft[y] \notin Current /\ (row[y] \in Current => writer[y] = writer[x])

WasReady(b) == b # NoRow /\ "ready" \in b.evidence

\* A committed delivery belongs to a bundle that has been READY; what a
\* transaction has begun to insert, or sees as a delivery, belongs to one that
\* it sees to have been READY.
SeenDeliveriesWereReady ==
    \A d \in Deliveries :
        /\ row[d] # NoRow => WasReady(row[BundleOf[d]])
        /\ \A t \in Transactions :
              Visible(t, d) # NoRow \/ pending[t] = d => WasReady(Visible(t, BundleOf[d]))

Inv ==
    /\ TypeOK
    /\ DraftsFollowRows
    /\ KeysStayUnique
    /\ SeenDeliveriesWereReady

\* The readers ask for two rows and raise "multiple active ... records" when
\* they get them: concurrent writers never bring that about, for READY
\* bundles, issued deliveries and active archive secrets.
ReadersFindAtMostOne ==
    /\ \A p \in Principals : \A a, b \in ReadyBundles(p) : a = b
    /\ \A b \in Bundles :
          /\ \A d, e \in IssuedDeliveries(b) : d = e
          /\ \A s, u \in ActiveSecrets(b) : s = u

\* No delivery, in whatever state, is committed for a bundle whose object was
\* not verified, confirmed and ready before, although the trigger on deliveries
\* reads the bundle without a lock and the insertion may wait after it.
DeliveriesWereReady ==
    \A d \in Deliveries : row[d] # NoRow =>
        row[BundleOf[d]] # NoRow /\ row[BundleOf[d]].evidence = Evidence

\* A committed terminal bundle or delivery and a retired secret never change,
\* and evidence once committed is never lost, whatever was in flight.
TerminalIsFinal ==
    [][\A x \in Ids : row[x] # NoRow =>
          /\ row'[x] # NoRow
          /\ Final(x, row[x]) => row'[x] = row[x]
          /\ x \in Bundles => row[x].evidence \subseteq row'[x].evidence]_vars

\* "credential bundle cannot become terminal while a delivery remains ISSUED"
\* (the message of validate_credential_bundle_transition).
TerminalHasNoIssued ==
    \A d \in Deliveries :
        row[d] # NoRow /\ row[d].state = "ISSUED" =>
            row[BundleOf[d]].state \notin Terminal
=============================================================================
