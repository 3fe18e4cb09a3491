--------------------------- MODULE ReadCommitted ---------------------------
(* The rows of a PostgreSQL database as transactions at the level READ       *)
(* COMMITTED see and write them: the level every connection of this          *)
(* repository runs at, since none of them asks for another one.  A row has   *)
(* its committed version and at most one uncommitted one, because a          *)
(* transaction that writes a row holds its lock until it ends.  A statement  *)
(* sees what was committed when it started and what its own transaction has  *)
(* written.  Foreign keys and plain reads take no lock that an update of a   *)
(* column outside the unique keys would wait for.  The engine is not part of *)
(* the repository: this module says what the schemas under database/ are     *)
(* built on.                                                                 *)
CONSTANTS
    Transactions,   \* the transactions that may be open at a time
    Ids,            \* the primary keys of all tables
    NoRow,          \* the version of a row that does not exist
    NoOne           \* not a transaction and not a primary key

ASSUME StoreAssumption == NoOne \notin Transactions /\ NoOne \notin Ids

VARIABLES
    row,        \* the committed version of every row
    draft,      \* its uncommitted version, of the transaction that holds its lock
    writer      \* that transaction, or NoOne

storeVars == <<row, draft, writer>>

Open(t) == \E x \in Ids : writer[x] = t

Visible(t, x) == IF writer[x] = t THEN draft[x] ELSE row[x]

\* A second writer of a row waits until the first has ended.
Lockable(t, x) == writer[x] \in {t, NoOne}

Write(t, x, version) ==
    /\ draft' = [draft EXCEPT ![x] = version]
    /\ writer' = [writer EXCEPT ![x] = t]
    /\ row' = row

\* A unique index sees uncommitted rows of others: the insertion waits for
\* their end as long as either outcome could leave an entry with its key, and
\* fails when the entry is there to stay.  "indexed" are the versions that the
\* (partial) index holds an entry for.
FreeKey(t, rivals, indexed) ==
    \A y \in rivals :
        /\ Visible(t, y) \notin indexed
        /\ Lockable(t, y) \/ draft[y] \notin indexed

Publish(t) == row' = [x \in Ids |-> Visible(t, x)]

Forget(t) ==
    /\ draft' = [x \in Ids |-> IF writer[x] = t THEN NoRow ELSE draft[x]]
    /\ writer' = [x \in Ids |-> IF writer[x] = t THEN NoOne ELSE writer[x]]
=============================================================================
