---------------------------- MODULE NumberSeries ----------------------------
(* The functions that reserve official numbers in the database:              *)
(* nngla_reserve_parcel_reference, nngla_reserve_title_reference,            *)
(* nngla_reserve_address_number, nngla_reserve_geometry_id and               *)
(* nngla_reserve_feature_id.  Each locks its series, gives a key that was    *)
(* used before what it got then, and otherwise takes the next number; an     *)
(* address also gets an identifier from a sequence, which no rollback takes  *)
(* back.  The last two look the key up before they lock.  A transaction may  *)
(* reserve several times.  A caller may repeat a reservation whose outcome   *)
(* it did not see, under the same key and with a reservation_id of its       *)
(* choice.  Series are those that exist: the allocators of geometries and    *)
(* features are rows made by their first use.                                *)
EXTENDS ReadCommitted, Integers

CONSTANTS
    Series,         \* rows of the three series tables
    Reservations,   \* reservation identifiers
    Keys,           \* idempotency keys
    Kind,           \* "parcel", "title", "address" or "identifier"
    First,          \* next_sequence of each series when it is created
    Step,           \* sequence_step: 1 for parcels and titles
    Limit,          \* the first number wider than the format of a number
    Base,           \* the base numbers are written in: 10
    MaxAddress,     \* 999999, the last value the sequence may give
    MaxNumber       \* bound of the numbers of a series

Addresses == 0 .. MaxAddress    \* 0: not an address

SeriesRows == [next : Int]
ReservationRows == [series : Series, key : Keys, number : Int, address : Addresses]

ASSUME SeriesAssumption ==
    /\ Ids = Series \cup Reservations /\ Series \cap Reservations = {}
    /\ Kind \in [Series -> {"parcel", "title", "address", "identifier"}]
    /\ First \in [Series -> Nat] /\ Step \in [Series -> Nat \ {0}]
    /\ Limit \in Nat \ {0} /\ Base \in Nat \ {0, 1}
    /\ MaxAddress \in Nat /\ MaxNumber \in Nat
    /\ NoRow \notin SeriesRows /\ NoRow \notin ReservationRows

VARIABLES
    sequence,   \* the last value nngla_address_id_sequence has given
    call,       \* the function call each transaction is in
    told,       \* what its calls have returned before its end
    known       \* history: what committed transactions were told

vars == <<row, draft, writer, sequence, call, told, known>>

NoCall == [at |-> "none"]

CallRecords ==
    [at : {"looked", "locked", "numbered"}, series : Series, key : Keys, address : Addresses]

Init ==
    /\ row = [x \in Ids |-> IF x \in Series THEN [next |-> First[x]] ELSE NoRow]
    /\ draft = [x \in Ids |-> NoRow]
    /\ writer = [x \in Ids |-> NoOne]
    /\ sequence = 0
    /\ call = [t \in Transactions |-> NoCall]
    /\ told = [t \in Transactions |-> {}]
    /\ known = {}

\* Mutated form: the row is read without FOR UPDATE.
AnySeries(t, s) == TRUE

SeriesIsFree(t, s) == Lockable(t, s)

\* Mutated form: the series is left out of the lookup.
ReservedUnderKey(t, s, k) ==
    {x \in Reservations : Visible(t, x) # NoRow /\ Visible(t, x).key = k}

\* The reservations of a key that a transaction sees.
Reserved(t, s, k) ==
    {x \in Reservations : Visible(t, x) # NoRow /\ Visible(t, x).series = s
                                                /\ Visible(t, x).key = k}

\* A call, and how far it has come.
Calls(at, s, k) == [at |-> at, series |-> s, key |-> k, address |-> 0]

\* The allocators of geometries and features read before they lock.
LooksFirst(s) == Kind[s] = "identifier"

LookUp(t) ==
    /\ call[t] = NoCall
    /\ \E s \in Series, k \in Keys :
          /\ LooksFirst(s) /\ Reserved(t, s, k) = {}
          /\ call' = [call EXCEPT ![t] = Calls("looked", s, k)]
    /\ UNCHANGED <<storeVars, sequence, told, known>>

\* The row of the series is locked, and read as it is after the wait.
LockSeries(t) ==
    /\ \E s \in Series, k \in Keys :
          /\ call[t] = IF LooksFirst(s) THEN Calls("looked", s, k) ELSE NoCall
          /\ SeriesIsFree(t, s)
          /\ Write(t, s, Visible(t, s))
          /\ call' = [call EXCEPT ![t] = Calls("locked", s, k)]
    /\ UNCHANGED <<sequence, told, known>>

\* The call returns what the reservation holds, as the answer for its own key.
Return(t, s, k, held) ==
    /\ told' = [told EXCEPT ![t] = @ \cup
          {[series |-> s, key |-> k, number |-> held.number, address |-> held.address]}]
    /\ call' = [call EXCEPT ![t] = NoCall]

FindReservation(t) ==
    /\ \E s \in Series, k \in Keys :
          /\ call[t] = IF LooksFirst(s) THEN NoCall ELSE Calls("locked", s, k)
          /\ \E x \in Reserved(t, s, k) : Return(t, s, k, Visible(t, x))
    /\ UNCHANGED <<storeVars, sequence, known>>

\* Mutated form: the address after the highest one that is in the table.
AfterHighest ==
    CHOOSE a \in 1 .. (MaxAddress + 1) :
        /\ \A x \in Reservations : row[x] # NoRow => row[x].address < a
        /\ a = 1 \/ \E x \in Reservations : row[x] # NoRow /\ row[x].address = a - 1

NextAddress == sequence + 1

\* nextval, which no transaction waits for and no rollback undoes.
TakeAddress(t) ==
    /\ call[t].at = "locked" /\ Kind[call[t].series] = "address"
    /\ Reserved(t, call[t].series, call[t].key) = {}
    /\ sequence < MaxAddress
    /\ sequence' = NextAddress
    /\ call' = [call EXCEPT ![t].at = "numbered", ![t].address = sequence']
    /\ UNCHANGED <<storeVars, told, known>>

\* What lpad makes of a number: its leading digits when it is too wide (of one
\* digit too many, here).
Padded(n) == IF n < Limit THEN n ELSE n \div Base

Text(s, n) == IF Kind[s] = "address" THEN n ELSE Padded(n)

\* Two reservations that one of the unique constraints keeps apart.
Collide(a, b) ==
    \/ a.series = b.series /\ a.key = b.key
    \/ a.series = b.series /\ Text(a.series, a.number) = Text(b.series, b.number)
    \/ a.address # 0 /\ a.address = b.address

Numbered(t) == IF Kind[call[t].series] = "address" THEN "numbered" ELSE "locked"

\* Mutated form: every series counts by one.
AfterOne(s, n) == n + 1

After(s, n) == n + Step[s]

\* Under a reservation_id the caller has chosen.
Reserve(t) ==
    /\ call[t] # NoCall /\ call[t].at = Numbered(t)
    /\ \E r \in Reservations :
       LET s == call[t].series
           n == Visible(t, s).next
           new == [series |-> s, key |-> call[t].key, number |-> n,
                   address |-> call[t].address]
       IN  /\ Reserved(t, s, call[t].key) = {}
           /\ Kind[s] \in {"title", "identifier"} => n < Limit
           /\ n <= MaxNumber
           /\ Visible(t, r) = NoRow /\ Lockable(t, r)
           /\ FreeKey(t, Reservations \ {r}, {b \in ReservationRows : Collide(new, b)})
           /\ draft' = [draft EXCEPT ![r] = new, ![s] = [next |-> After(s, n)]]
           /\ writer' = [writer EXCEPT ![r] = t]
           /\ Return(t, s, call[t].key, new)
    /\ UNCHANGED <<row, sequence, known>>

Commit(t) ==
    /\ call[t] = NoCall /\ (Open(t) \/ told[t] # {})
    /\ Publish(t) /\ Forget(t)
    /\ known' = known \cup told[t]
    /\ told' = [told EXCEPT ![t] = {}]
    /\ UNCHANGED <<sequence, call>>

\* A constraint fails (that of the key, when another call has reserved it since
\* the lookup), a namespace is exhausted, the server breaks a deadlock, or the
\* client gives up: what the transaction wrote is gone.
Rollback(t) ==
    /\ Open(t) \/ call[t] # NoCall \/ told[t] # {}
    /\ Forget(t)
    /\ call' = [call EXCEPT ![t] = NoCall]
    /\ told' = [told EXCEPT ![t] = {}]
    /\ UNCHANGED <<row, sequence, known>>

Next ==
    \E t \in Transactions :
        \/ LookUp(t) \/ LockSeries(t) \/ FindReservation(t) \/ TakeAddress(t) \/ Reserve(t)
        \/ Commit(t) \/ Rollback(t)

Spec == Init /\ [][Next]_vars

-----------------------------------------------------------------------------

AllVersions == {NoRow} \cup SeriesRows \cup ReservationRows

TypeOK ==
    /\ row \in [Ids -> AllVersions] /\ draft \in [Ids -> AllVersions]
    /\ \A s \in Series : row[s] \in SeriesRows /\ draft[s] \in SeriesRows \cup {NoRow}
    /\ \A x \in Reservations :
          row[x] \in ReservationRows \cup {NoRow} /\ draft[x] \in ReservationRows \cup {NoRow}
    /\ writer \in [Ids -> Transactions \cup {NoOne}]
    /\ sequence \in Addresses
    /\ call \in [Transactions -> CallRecords \cup {NoCall}]
    /\ told \in [Transactions -> SUBSET ReservationRows] /\ known \subseteq ReservationRows

\* A transaction that has locked a series in its call, or has reserved from it,
\* holds it.
SeriesIsHeld ==
    /\ \A x \in Ids : writer[x] = NoOne <=> draft[x] = NoRow
    /\ \A t \in Transactions : call[t].at \in {"locked", "numbered"} =>
          writer[call[t].series] = t
    /\ \A x \in Reservations : draft[x] # NoRow =>
          row[x] = NoRow /\ writer[draft[x].series] = writer[x]

\* The numbers of a series, in a version of the database.
Given(s, version) ==
    {version[x].number : x \in {x \in Reservations :
        version[x] # NoRow /\ version[x].series = s}}

Gapless(s, version) ==
    \E j \in 0 .. version[s].next :
        /\ version[s].next = First[s] + j * Step[s]
        /\ Given(s, version) = {First[s] + i * Step[s] : i \in 0 .. (j - 1)}

View(t) == [x \in Ids |-> Visible(t, x)]

\* The official numbers of a series are those before its next one, without a
\* gap, whatever was rolled back and however reservations overlapped; each
\* open transaction will leave it so.
GaplessSeries ==
    \A s \in Series : Gapless(s, row) /\ \A t \in Transactions : Gapless(s, View(t))

\* No number is written twice in a series, and no address identifier is used
\* by two reservations or calls, committed or not, nor again after a rollback.
NoReferenceTwice ==
    /\ \A x, y \in Reservations : x # y /\ row[x] # NoRow /\ row[y] # NoRow =>
          ~ Collide(row[x], row[y])
    /\ \A x \in Reservations, t \in Transactions :
          call[t] # NoCall /\ call[t].address # 0 =>
              /\ row[x] # NoRow => row[x].address # call[t].address
              /\ draft[x] # NoRow => draft[x].address # call[t].address
    /\ \A t, u \in Transactions :
          t # u /\ call[t] # NoCall /\ call[u] # NoCall /\ call[t].address # 0 =>
              call[t].address # call[u].address

\* Every answer a committed transaction was given for a key is the committed
\* reservation of that key: repetitions, under whatever reservation_id, agree.
KeyKeepsItsNumber ==
    \A a \in known : \E x \in Reservations : row[x] = a

Register == INSTANCE OfficialRegister WITH
    entries <- {row[x] : x \in Reservations} \ {NoRow},
    next    <- [s \in Series |-> row[s].next],
    answers <- known

\* The functions, their locks and the transactions around them are a register
\* to which each commit adds at once the next numbers of some series, one for
\* a key; nothing that was given is ever changed, given again or forgotten.
ImplementsRegister == Register!Spec

\* What a transaction was told is what it sees.
ToldIsVisible ==
    \A t \in Transactions : \A a \in told[t] : \E x \in Reservations : Visible(t, x) = a

Existing(x) == {row[x], draft[x]} \ {NoRow}

\* The unique constraints hold of what will be committed, too.
VersionsApart ==
    \A x, y \in Reservations : x # y =>
        \A v \in Existing(x), w \in Existing(y) : ~ Collide(v, w)

AddressesWereGiven ==
    /\ \A x \in Reservations : \A v \in Existing(x) : v.address <= sequence
    /\ \A t \in Transactions : call[t] # NoCall => call[t].address <= sequence

Inv ==
    TypeOK /\ SeriesIsHeld /\ ToldIsVisible /\ VersionsApart /\ AddressesWereGiven
=============================================================================
