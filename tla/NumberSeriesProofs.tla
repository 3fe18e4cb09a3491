------------------------- MODULE NumberSeriesProofs -------------------------
(* The invariants of the number series for any number of transactions,       *)
(* series, reservations and keys, any first numbers, steps and widths.       *)
EXTENDS NumberSeries, TLAPS

\* A series and a reservation are different rows; numbers have their types.
LEMMA Shapes ==
    /\ Series \subseteq Ids /\ Reservations \subseteq Ids
    /\ \A s \in Series : s \notin Reservations
    /\ NoRow \notin SeriesRows /\ NoRow \notin ReservationRows
    /\ \A s \in Series : First[s] \in Nat /\ Step[s] \in Nat /\ Step[s] > 0
    /\ NoCall \notin CallRecords /\ NoCall.at = "none"
<1>1. NoCall \notin CallRecords /\ NoCall.at = "none"
  BY DEF NoCall, CallRecords
<1> QED BY <1>1, SeriesAssumption

\* A reservation is either committed and free, or an uncommitted one, or none.
LEMMA OneVersion ==
    ASSUME Inv, NEW x \in Reservations
    PROVE  /\ row[x] # NoRow => draft[x] = NoRow /\ writer[x] = NoOne
           /\ draft[x] # NoRow => row[x] = NoRow /\ writer[x] \in Transactions
BY Shapes DEF Inv, SeriesIsHeld, TypeOK

\* What a transaction sees of a reservation is one of its versions.
LEMMA SeenExists ==
    ASSUME Inv, NEW t \in Transactions, NEW x \in Reservations, Visible(t, x) # NoRow
    PROVE  Visible(t, x) \in ReservationRows /\ Visible(t, x) \in Existing(x)
BY DEF Inv, TypeOK, Visible, Existing

\* What a transaction sees of a series.
LEMMA SeriesSeen ==
    ASSUME Inv, NEW t \in Transactions, NEW s \in Series
    PROVE  Visible(t, s) \in SeriesRows /\ Visible(t, s) # NoRow
BY Shapes, StoreAssumption DEF Inv, TypeOK, SeriesIsHeld, Visible

\* Nothing has been reserved or asked.
LEMMA InitInv == Init => Inv
<1> SUFFICES ASSUME Init PROVE Inv
  OBVIOUS
<1>1. \A s \in Series : row[s] \in SeriesRows
  BY Shapes DEF Init, SeriesRows
<1>2. \A x \in Reservations : row[x] = NoRow
  BY Shapes DEF Init
<1>3. row \in [Ids -> AllVersions]
  BY <1>1, <1>2, SeriesAssumption DEF Init, AllVersions
<1>4. TypeOK
  BY <1>1, <1>2, <1>3, SeriesAssumption DEF Init, TypeOK, AllVersions, Addresses
<1>5. SeriesIsHeld /\ ToldIsVisible
  BY Shapes DEF Init, SeriesIsHeld, ToldIsVisible
<1>6. \A x \in Reservations : Existing(x) = {}
  BY <1>2, Shapes DEF Init, Existing
<1>7. VersionsApart
  BY <1>6 DEF VersionsApart
<1>8. AddressesWereGiven
  BY <1>6 DEF Init, AddressesWereGiven
<1> QED BY <1>4, <1>5, <1>7, <1>8 DEF Inv

\* A transaction that locks a series changes nothing that anyone sees.
LEMMA LockKeepsInv ==
    ASSUME Inv, NEW t \in Transactions, LockSeries(t)
    PROVE  /\ Inv' /\ row' = row
           /\ \A u \in Transactions, x \in Ids : Visible(u, x)' = Visible(u, x)
<1>1. PICK s \in Series, k \in Keys :
          /\ Lockable(t, s) /\ Write(t, s, Visible(t, s))
          /\ call' = [call EXCEPT ![t] =
                [at |-> "locked", series |-> s, key |-> k, address |-> 0]]
  BY DEF LockSeries, SeriesIsFree, Calls
<1>2. /\ row' = row /\ draft' = [draft EXCEPT ![s] = Visible(t, s)]
      /\ writer' = [writer EXCEPT ![s] = t]
      /\ UNCHANGED <<sequence, told, known>>
  BY <1>1 DEF LockSeries, Write
<1>3. Visible(t, s) \in SeriesRows /\ Visible(t, s) # NoRow
  BY SeriesSeen
<1>4. s \in Ids /\ s \notin Reservations
  BY Shapes
<1>5. \A x \in Reservations : row'[x] = row[x] /\ draft'[x] = draft[x] /\ writer'[x] = writer[x]
  BY <1>2, <1>4, Shapes DEF Inv, TypeOK
<1>6. \A u \in Transactions, x \in Ids : Visible(u, x)' = Visible(u, x)
  BY <1>1, <1>2, <1>4, StoreAssumption DEF Inv, TypeOK, Visible, Lockable
<1>7. TypeOK'
  <2>1. draft' \in [Ids -> AllVersions] /\ writer' \in [Ids -> Transactions \cup {NoOne}]
    BY <1>2, <1>3 DEF Inv, TypeOK, AllVersions
  <2>2. \A y \in Series : draft'[y] \in SeriesRows \cup {NoRow}
    BY <1>2, <1>3, Shapes DEF Inv, TypeOK
  <2>3. [at |-> "locked", series |-> s, key |-> k, address |-> 0] \in CallRecords
    BY SeriesAssumption DEF CallRecords, Addresses
  <2>4. call' \in [Transactions -> CallRecords \cup {NoCall}]
    BY <1>1, <2>3 DEF Inv, TypeOK
  <2> QED BY <1>2, <1>5, <2>1, <2>2, <2>4 DEF Inv, TypeOK
<1>8. SeriesIsHeld'
  <2>1. \A x \in Ids : writer'[x] = NoOne <=> draft'[x] = NoRow
    BY <1>2, <1>3, <1>4, StoreAssumption DEF Inv, TypeOK, SeriesIsHeld
  <2>2. ASSUME NEW u \in Transactions, call'[u].at \in {"locked", "numbered"}
        PROVE  writer'[call'[u].series] = u
    <3>1. CASE u = t
      BY <3>1, <1>1, <1>2, <1>4 DEF Inv, TypeOK
    <3>2. CASE u # t
      <4>1. call'[u] = call[u] /\ writer[call[u].series] = u
        BY <3>2, <2>2, <1>1 DEF Inv, TypeOK, SeriesIsHeld
      <4>2. call[u].series # s
        BY <3>2, <4>1, <1>1, StoreAssumption DEF Lockable
      <4> QED BY <4>1, <4>2, <1>2 DEF Inv, TypeOK
    <3> QED BY <3>1, <3>2
  <2>3. ASSUME NEW x \in Reservations, draft'[x] # NoRow
        PROVE  row'[x] = NoRow /\ writer'[draft'[x].series] = writer'[x]
    <3>1. /\ draft[x] # NoRow /\ row[x] = NoRow /\ writer[draft[x].series] = writer[x]
          /\ writer[x] \in Transactions /\ draft[x].series \in Series
      BY <1>5, <2>3, OneVersion DEF Inv, SeriesIsHeld, TypeOK, ReservationRows
    <3>2. draft[x].series = s => writer[x] = t
      BY <3>1, <1>1, StoreAssumption DEF Lockable
    <3> QED BY <3>1, <3>2, <1>2, <1>4, <1>5, Shapes DEF Inv, TypeOK
  <2> QED BY <2>1, <2>2, <2>3 DEF SeriesIsHeld
<1>9. ToldIsVisible'
  BY <1>2, <1>6, Shapes DEF Inv, ToldIsVisible
<1>10. \A x \in Reservations : Existing(x)' = Existing(x)
  BY <1>5 DEF Existing
<1>11. VersionsApart'
  <2>1. \A v, w : Collide(v, w)' <=> Collide(v, w)
    BY DEF Collide, Text, Padded
  <2> QED BY <1>10, <2>1 DEF Inv, VersionsApart
<1>12. AddressesWereGiven'
  <2>1. \A u \in Transactions : call'[u] # NoCall => call'[u].address <= sequence
    BY <1>1 DEF Inv, TypeOK, AddressesWereGiven, Addresses
  <2> QED BY <1>2, <1>10, <2>1 DEF Inv, AddressesWereGiven
<1> QED BY <1>2, <1>6, <1>7, <1>8, <1>9, <1>11, <1>12 DEF Inv

\* A key that was looked up and not found has been locked by nobody yet.
LEMMA LookUpKeepsInv ==
    ASSUME Inv, NEW t \in Transactions, LookUp(t)
    PROVE  /\ Inv' /\ UNCHANGED storeVars
           /\ \A u \in Transactions : call'[u] = call[u] \/ call'[u].address = 0
<1>1. PICK s \in Series, k \in Keys :
          call' = [call EXCEPT ![t] =
                     [at |-> "looked", series |-> s, key |-> k, address |-> 0]]
  BY DEF LookUp, Calls
<1>2. UNCHANGED <<row, draft, writer, sequence, told, known>>
  BY DEF LookUp, storeVars
<1>3. [at |-> "looked", series |-> s, key |-> k, address |-> 0] \in CallRecords
  BY SeriesAssumption DEF CallRecords, Addresses
<1>4. TypeOK'
  BY <1>1, <1>2, <1>3 DEF Inv, TypeOK
<1>5. SeriesIsHeld'
  <2>1. \A u \in Transactions : call'[u].at \in {"locked", "numbered"} => call'[u] = call[u]
    BY <1>1 DEF Inv, TypeOK
  <2> QED BY <1>2, <2>1 DEF Inv, SeriesIsHeld
<1>6. ToldIsVisible'
  BY <1>2 DEF Inv, ToldIsVisible, Visible
<1>7. VersionsApart'
  BY <1>2 DEF Inv, VersionsApart, Existing, Collide, Text, Padded
<1>8. \A u \in Transactions : call'[u] = call[u] \/ call'[u].address = 0
  BY <1>1 DEF Inv, TypeOK
<1>9. AddressesWereGiven'
  BY <1>2, <1>8, SeriesAssumption DEF Inv, TypeOK, AddressesWereGiven, Addresses, Existing
<1> QED BY <1>2, <1>4, <1>5, <1>6, <1>7, <1>8, <1>9 DEF Inv, storeVars

\* A key that was reserved is answered from its reservation.
LEMMA FindKeepsInv ==
    ASSUME Inv, NEW t \in Transactions, FindReservation(t)
    PROVE  Inv' /\ UNCHANGED storeVars
<1>1. PICK z \in Series, k \in Keys : \E x \in Reserved(t, z, k) :
          Return(t, z, k, Visible(t, x))
  BY DEF FindReservation
<1>2. PICK x \in Reserved(t, z, k) : Return(t, z, k, Visible(t, x))
  BY <1>1
<1>3. /\ x \in Reservations /\ Visible(t, x) # NoRow
      /\ Visible(t, x).series = z /\ Visible(t, x).key = k
  BY <1>2 DEF Reserved
<1>4. Visible(t, x) \in ReservationRows
  BY <1>3, SeenExists
<1>5. Visible(t, x) = [series |-> z, key |-> k,
                       number |-> Visible(t, x).number, address |-> Visible(t, x).address]
  BY <1>3, <1>4 DEF ReservationRows
<1>6. /\ told' = [told EXCEPT ![t] = @ \cup {Visible(t, x)}]
      /\ call' = [call EXCEPT ![t] = NoCall]
  BY <1>2, <1>5 DEF Return
<1>7. UNCHANGED <<row, draft, writer, sequence, known>>
  BY DEF FindReservation, storeVars
<1>8. TypeOK'
  <2>1. told' \in [Transactions -> SUBSET ReservationRows]
    BY <1>4, <1>6 DEF Inv, TypeOK
  <2>2. call' \in [Transactions -> CallRecords \cup {NoCall}]
    BY <1>6 DEF Inv, TypeOK
  <2> QED BY <1>7, <2>1, <2>2 DEF Inv, TypeOK
<1>9. SeriesIsHeld'
  <2>1. \A u \in Transactions : call'[u].at \in {"locked", "numbered"} => call'[u] = call[u]
    BY <1>6, Shapes DEF Inv, TypeOK
  <2> QED BY <1>7, <2>1 DEF Inv, SeriesIsHeld
<1>10. ToldIsVisible'
  <2> SUFFICES ASSUME NEW u \in Transactions, NEW a \in told'[u]
               PROVE  \E y \in Reservations : Visible(u, y)' = a
    BY DEF ToldIsVisible
  <2>1. \A y \in Reservations : Visible(u, y)' = Visible(u, y)
    BY <1>7 DEF Visible
  <2>2. a \in told[u] \/ (u = t /\ a = Visible(t, x))
    BY <1>6 DEF Inv, TypeOK
  <2>3. CASE a \in told[u]
    BY <2>1, <2>3 DEF Inv, ToldIsVisible
  <2>4. CASE u = t /\ a = Visible(t, x)
    BY <2>1, <2>4, <1>3
  <2> QED BY <2>2, <2>3, <2>4
<1>11. VersionsApart'
  BY <1>7 DEF Inv, VersionsApart, Existing, Collide, Text, Padded
<1>12. AddressesWereGiven'
  BY <1>6, <1>7 DEF Inv, TypeOK, AddressesWereGiven, Existing
<1> QED BY <1>7, <1>8, <1>9, <1>10, <1>11, <1>12 DEF Inv, storeVars

\* A call that takes the next address identifier holds one above all others.
LEMMA TakeKeepsInv ==
    ASSUME Inv, NEW t \in Transactions, TakeAddress(t)
    PROVE  Inv' /\ UNCHANGED storeVars
<1>1. call[t] # NoCall /\ call[t] \in CallRecords
  BY DEF TakeAddress, NoCall, Inv, TypeOK
<1>2. /\ UNCHANGED <<row, draft, writer, told, known>>
      /\ sequence' = sequence + 1 /\ sequence < MaxAddress
      /\ call' = [call EXCEPT ![t].at = "numbered", ![t].address = sequence']
  BY DEF TakeAddress, NextAddress, storeVars
<1>3. sequence' \in Addresses /\ sequence \in Nat
  BY <1>2, SeriesAssumption DEF Inv, TypeOK, Addresses
<1>4. /\ call'[t] \in CallRecords /\ call'[t].series = call[t].series
      /\ call'[t].address = sequence'
      /\ \A u \in Transactions : u # t => call'[u] = call[u]
  BY <1>1, <1>2, <1>3 DEF Inv, TypeOK, CallRecords
<1>5. TypeOK'
  <2>1. call' \in [Transactions -> CallRecords \cup {NoCall}]
    BY <1>2, <1>4 DEF Inv, TypeOK
  <2> QED BY <1>2, <1>3, <2>1 DEF Inv, TypeOK
<1>6. SeriesIsHeld'
  <2>1. writer[call[t].series] = t
    BY DEF TakeAddress, Inv, SeriesIsHeld
  <2> QED BY <1>2, <1>4, <2>1 DEF Inv, SeriesIsHeld
<1>7. ToldIsVisible'
  BY <1>2 DEF Inv, ToldIsVisible, Visible
<1>8. VersionsApart'
  BY <1>2 DEF Inv, VersionsApart, Existing, Collide, Text, Padded
<1>9. AddressesWereGiven'
  <2>1. \A x \in Reservations : \A v \in Existing(x)' : v.address <= sequence'
    <3> SUFFICES ASSUME NEW x \in Reservations, NEW v \in Existing(x)
                 PROVE  v.address <= sequence'
      BY <1>2 DEF Existing
    <3>1. v \in ReservationRows /\ v.address <= sequence
      BY DEF Inv, TypeOK, AddressesWereGiven, Existing
    <3> QED BY <3>1, <1>2, <1>3 DEF ReservationRows, Addresses
  <2>2. ASSUME NEW u \in Transactions, call'[u] # NoCall PROVE call'[u].address <= sequence'
    <3>1. CASE u = t
      BY <3>1, <1>2, <1>3, <1>4
    <3>2. CASE u # t
      <4>1. call[u] \in CallRecords /\ call[u].address <= sequence /\ call'[u] = call[u]
        BY <3>2, <2>2, <1>4 DEF Inv, TypeOK, AddressesWereGiven
      <4> QED BY <4>1, <1>2, <1>3 DEF CallRecords, Addresses
    <3> QED BY <3>1, <3>2
  <2> QED BY <2>1, <2>2 DEF AddressesWereGiven
<1> QED BY <1>2, <1>5, <1>6, <1>7, <1>8, <1>9 DEF Inv, storeVars

\* What a reservation writes, and what transactions see of it.
LEMMA ReserveEffect ==
    ASSUME Inv, NEW t \in Transactions, Reserve(t)
    PROVE  \E s \in Series, r \in Reservations, n \in Int, new \in ReservationRows :
           /\ call[t] # NoCall /\ n = Visible(t, s).next /\ new.number = n
           /\ new.series = s /\ new.key = call[t].key /\ new.address = call[t].address
           /\ row[r] = NoRow /\ draft[r] = NoRow /\ writer[r] = NoOne /\ writer[s] = t
           /\ FreeKey(t, Reservations \ {r}, {b \in ReservationRows : Collide(new, b)})
           /\ draft' = [draft EXCEPT ![r] = new, ![s] = [next |-> n + Step[s]]]
           /\ writer' = [writer EXCEPT ![r] = t]
           /\ told' = [told EXCEPT ![t] = @ \cup {new}]
           /\ call' = [call EXCEPT ![t] = NoCall]
           /\ UNCHANGED <<row, sequence, known>>
<1>1. call[t] \in CallRecords /\ call[t] # NoCall
  BY DEF Reserve, Inv, TypeOK
<1>0. PICK r \in Reservations :
       LET s == call[t].series
           n == Visible(t, s).next
           new == [series |-> s, key |-> call[t].key, number |-> n,
                   address |-> call[t].address]
       IN  /\ Visible(t, r) = NoRow /\ Lockable(t, r)
           /\ FreeKey(t, Reservations \ {r}, {b \in ReservationRows : Collide(new, b)})
           /\ draft' = [draft EXCEPT ![r] = new, ![s] = [next |-> After(s, n)]]
           /\ writer' = [writer EXCEPT ![r] = t]
           /\ Return(t, s, call[t].key, new)
  BY DEF Reserve
<1> DEFINE s == call[t].series
           n == Visible(t, s).next
           new == [series |-> s, key |-> call[t].key, number |-> n, address |-> call[t].address]
<1>2. s \in Series /\ call[t].key \in Keys /\ call[t].address \in Addresses
  BY <1>1 DEF CallRecords
<1>3. n \in Int
  BY <1>2, SeriesSeen DEF SeriesRows
<1>4. new \in ReservationRows
  BY <1>2, <1>3 DEF ReservationRows
<1>5. Visible(t, r) = NoRow /\ Lockable(t, r)
  BY <1>0
<1>6. row[r] = NoRow /\ draft[r] = NoRow /\ writer[r] = NoOne
  <2>1. writer[r] # t
    BY <1>2, <1>5, Shapes, StoreAssumption DEF Visible, Inv, SeriesIsHeld
  <2> QED BY <2>1, <1>2, <1>5, Shapes DEF Visible, Lockable, Inv, SeriesIsHeld
<1>7. writer[s] = t
  BY DEF Reserve, Numbered, Inv, SeriesIsHeld
<1>8. /\ FreeKey(t, Reservations \ {r}, {b \in ReservationRows : Collide(new, b)})
      /\ draft' = [draft EXCEPT ![r] = new, ![s] = [next |-> n + Step[s]]]
      /\ writer' = [writer EXCEPT ![r] = t]
      /\ Return(t, s, call[t].key, new)
      /\ UNCHANGED <<row, sequence, known>>
  BY <1>0 DEF Reserve, After
<1>9. told' = [told EXCEPT ![t] = @ \cup {new}] /\ call' = [call EXCEPT ![t] = NoCall]
  BY <1>8 DEF Return
<1>10. /\ new.number = n /\ new.series = s /\ new.key = call[t].key
       /\ new.address = call[t].address
  OBVIOUS
<1> HIDE DEF s, n, new
<1>11. n = Visible(t, s).next
  BY DEF n
<1> QED BY <1>1, <1>2, <1>3, <1>4, <1>6, <1>7, <1>8, <1>9, <1>10, <1>11

\* A version that the unique indexes let in collides with no other one.
LEMMA FreeKeyIsApart ==
    ASSUME Inv, NEW t \in Transactions, NEW r \in Reservations, NEW new \in ReservationRows,
           FreeKey(t, Reservations \ {r}, {b \in ReservationRows : Collide(new, b)}),
           NEW y \in Reservations, y # r, NEW v \in Existing(y)
    PROVE  ~ Collide(new, v)
<1>1. v \in ReservationRows
  BY DEF Inv, TypeOK, Existing
<1>2. /\ Visible(t, y) \notin {b \in ReservationRows : Collide(new, b)}
      /\ Lockable(t, y) \/ draft[y] \notin {b \in ReservationRows : Collide(new, b)}
  BY DEF FreeKey
<1>3. v = Visible(t, y) \/ (v = draft[y] /\ ~ Lockable(t, y))
  BY OneVersion, Shapes, StoreAssumption DEF Existing, Visible, Lockable, Inv, TypeOK, SeriesIsHeld
<1> QED BY <1>1, <1>2, <1>3

\* Colliding is symmetric.
LEMMA CollideSymmetric == ASSUME NEW a, NEW b, Collide(a, b) PROVE Collide(b, a)
BY DEF Collide

\* What a reservation of a number n writes to its rows s and r, and what it
\* changes of what transactions see.
Touches(t, s, r, n, new) ==
    /\ call[t] # NoCall /\ n = Visible(t, s).next /\ new.number = n
    /\ new.series = s /\ new.key = call[t].key /\ new.address = call[t].address
    /\ row[r] = NoRow /\ draft[r] = NoRow /\ writer[r] = NoOne /\ writer[s] = t
    /\ FreeKey(t, Reservations \ {r}, {b \in ReservationRows : Collide(new, b)})
    /\ told' = [told EXCEPT ![t] = @ \cup {new}]
    /\ call' = [call EXCEPT ![t] = NoCall]
    /\ UNCHANGED <<row, sequence, known>>
    /\ draft' \in [Ids -> AllVersions] /\ writer' \in [Ids -> Transactions \cup {NoOne}]
    /\ draft'[s] = [next |-> n + Step[s]] /\ draft'[s] \in SeriesRows /\ draft'[s] # NoRow
    /\ \A x \in Ids : x # r /\ x # s => draft'[x] = draft[x]
    /\ \A x \in Ids : x # r => writer'[x] = writer[x]
    /\ draft'[r] = new /\ writer'[r] = t
    /\ \A u \in Transactions, x \in Ids :
          u # t \/ (x # r /\ x # s) => Visible(u, x)' = Visible(u, x)
    /\ Visible(t, r)' = new /\ Visible(t, s)' = [next |-> n + Step[s]]

\* A reservation does just that.
LEMMA ReserveSeen ==
    ASSUME Inv, NEW t \in Transactions, Reserve(t)
    PROVE  \E s \in Series, r \in Reservations, n \in Int, new \in ReservationRows :
              Touches(t, s, r, n, new)
<1>1. PICK s \in Series, r \in Reservations, n \in Int, new \in ReservationRows :
      /\ call[t] # NoCall /\ n = Visible(t, s).next /\ new.number = n
      /\ new.series = s /\ new.key = call[t].key /\ new.address = call[t].address
      /\ row[r] = NoRow /\ draft[r] = NoRow /\ writer[r] = NoOne /\ writer[s] = t
      /\ FreeKey(t, Reservations \ {r}, {b \in ReservationRows : Collide(new, b)})
      /\ draft' = [draft EXCEPT ![r] = new, ![s] = [next |-> n + Step[s]]]
      /\ writer' = [writer EXCEPT ![r] = t]
      /\ told' = [told EXCEPT ![t] = @ \cup {new}]
      /\ call' = [call EXCEPT ![t] = NoCall]
      /\ UNCHANGED <<row, sequence, known>>
  BY ReserveEffect
<1>2. s \in Ids /\ r \in Ids /\ s # r
  BY Shapes
<1>3. draft \in [Ids -> AllVersions] /\ writer \in [Ids -> Transactions \cup {NoOne}]
  BY DEF Inv, TypeOK
<1>4. draft'[s] = [next |-> n + Step[s]]
  BY <1>1, <1>2, <1>3
<1>5. draft'[s] \in SeriesRows /\ draft'[s] # NoRow
  BY <1>4, Shapes DEF SeriesRows
<1>6. /\ draft'[r] = new /\ writer'[r] = t /\ writer'[s] = t
      /\ \A x \in Ids : x # r /\ x # s => draft'[x] = draft[x]
      /\ \A x \in Ids : x # r => writer'[x] = writer[x]
  BY <1>1, <1>2, <1>3
<1>7. ASSUME NEW u \in Transactions, NEW x \in Ids, u # t \/ (x # r /\ x # s)
      PROVE  Visible(u, x)' = Visible(u, x)
  <2>0. row' = row /\ writer[s] = t /\ writer[r] = NoOne
    BY <1>1
  <2>1. CASE x # r /\ x # s
    BY <1>6, <2>0, <2>1 DEF Visible
  <2>2. CASE x = s
    BY <1>2, <1>6, <1>7, <2>0, <2>2 DEF Visible
  <2>3. CASE x = r
    <3>1. u # t /\ writer[x] # u /\ writer'[x] # u
      BY <1>2, <1>6, <1>7, <2>0, <2>3, StoreAssumption
    <3> QED BY <2>0, <3>1 DEF Visible
  <2> QED BY <2>1, <2>2, <2>3
<1>8. Visible(t, r)' = new /\ Visible(t, s)' = [next |-> n + Step[s]]
  BY <1>4, <1>6 DEF Visible
<1>9. draft' \in [Ids -> AllVersions] /\ writer' \in [Ids -> Transactions \cup {NoOne}]
  <2>1. [next |-> n + Step[s]] \in AllVersions /\ new \in AllVersions
    BY <1>4, <1>5 DEF AllVersions
  <2> QED BY <2>1, <1>1, <1>3
<1>10. Touches(t, s, r, n, new)
  BY <1>1, <1>4, <1>5, <1>6, <1>7, <1>8, <1>9 DEF Touches
<1> QED BY <1>10

\* A reservation keeps the invariant.
LEMMA ReserveKeepsInv ==
    ASSUME Inv, NEW t \in Transactions, Reserve(t)
    PROVE  Inv'
<1>1. PICK s \in Series, r \in Reservations, n \in Int, new \in ReservationRows :
      Touches(t, s, r, n, new)
  BY ReserveSeen
<1>4. /\ call[t] # NoCall /\ n = Visible(t, s).next /\ new.number = n
      /\ new.series = s /\ new.key = call[t].key /\ new.address = call[t].address
      /\ row[r] = NoRow /\ draft[r] = NoRow /\ writer[r] = NoOne /\ writer[s] = t
      /\ FreeKey(t, Reservations \ {r}, {b \in ReservationRows : Collide(new, b)})
      /\ told' = [told EXCEPT ![t] = @ \cup {new}]
      /\ call' = [call EXCEPT ![t] = NoCall]
      /\ UNCHANGED <<row, sequence, known>>
      /\ draft' \in [Ids -> AllVersions] /\ writer' \in [Ids -> Transactions \cup {NoOne}]
      /\ draft'[s] = [next |-> n + Step[s]] /\ draft'[s] \in SeriesRows /\ draft'[s] # NoRow
      /\ \A x \in Ids : x # r /\ x # s => draft'[x] = draft[x]
      /\ \A x \in Ids : x # r => writer'[x] = writer[x]
      /\ draft'[r] = new /\ writer'[r] = t
      /\ \A u \in Transactions, x \in Ids :
            u # t \/ (x # r /\ x # s) => Visible(u, x)' = Visible(u, x)
      /\ Visible(t, r)' = new /\ Visible(t, s)' = [next |-> n + Step[s]]
  BY <1>1 DEF Touches
<1>2. /\ draft'[s] \in SeriesRows /\ draft'[s] # NoRow
      /\ \A x \in Ids : x # r /\ x # s => draft'[x] = draft[x]
      /\ \A x \in Ids : x # r => writer'[x] = writer[x]
      /\ draft'[r] = new /\ writer'[r] = t
      /\ \A u \in Transactions, x \in Ids :
            u # t \/ (x # r /\ x # s) => Visible(u, x)' = Visible(u, x)
      /\ Visible(t, r)' = new /\ row' = row
  BY <1>1 DEF Touches
<1>3. s \in Ids /\ r \in Ids /\ s # r /\ s \notin Reservations /\ new # NoRow
  BY Shapes
<1>5. TypeOK'
  <2>2. \A x \in Series : draft'[x] \in SeriesRows \cup {NoRow}
    BY <1>4, <1>2, Shapes DEF Inv, TypeOK
  <2>3. \A x \in Reservations : draft'[x] \in ReservationRows \cup {NoRow}
    BY <1>4, <1>2, <1>3, Shapes DEF Inv, TypeOK
  <2>5. told' \in [Transactions -> SUBSET ReservationRows]
    BY <1>4 DEF Inv, TypeOK
  <2>6. call' \in [Transactions -> CallRecords \cup {NoCall}]
    BY <1>4 DEF Inv, TypeOK
  <2> QED BY <1>4, <1>2, <2>2, <2>3, <2>5, <2>6 DEF Inv, TypeOK
<1>6. SeriesIsHeld'
  <2>1. \A x \in Ids : writer'[x] = NoOne <=> draft'[x] = NoRow
    <3> SUFFICES ASSUME NEW x \in Ids PROVE writer'[x] = NoOne <=> draft'[x] = NoRow
      OBVIOUS
    <3>1. CASE x = r
      BY <3>1, <1>2, <1>3, StoreAssumption
    <3>2. CASE x = s
      BY <3>2, <1>4, <1>2, <1>3, StoreAssumption
    <3>3. CASE x # r /\ x # s
      BY <3>3, <1>2 DEF Inv, SeriesIsHeld
    <3> QED BY <3>1, <3>2, <3>3
  <2>2. ASSUME NEW u \in Transactions, call'[u].at \in {"locked", "numbered"}
        PROVE  writer'[call'[u].series] = u
    <3>1. call'[u] = call[u] /\ call[u] \in CallRecords
      BY <2>2, <1>4, Shapes DEF Inv, TypeOK
    <3>2. call[u].series \in Ids /\ call[u].series # r
      BY <1>4, <3>1, Shapes DEF CallRecords
    <3> QED BY <2>2, <3>1, <3>2, <1>2 DEF Inv, SeriesIsHeld
  <2>3. ASSUME NEW x \in Reservations, draft'[x] # NoRow
        PROVE  row'[x] = NoRow /\ writer'[draft'[x].series] = writer'[x]
    <3>1. CASE x = r
      <4>1. row'[x] = NoRow /\ draft'[x].series = s /\ writer'[x] = t
        BY <3>1, <1>4, <1>2
      <4>2. writer'[s] = t
        BY <1>4, <1>2, <1>3
      <4> QED BY <4>1, <4>2
    <3>2. CASE x # r
      <4>1. /\ draft'[x] = draft[x] /\ writer'[x] = writer[x]
            /\ row[x] = NoRow /\ writer[draft[x].series] = writer[x]
        BY <3>2, <2>3, <1>2, <1>3, Shapes DEF Inv, SeriesIsHeld
      <4>2. draft[x].series \in Ids /\ draft[x].series # r
        BY <4>1, <2>3, <1>4, Shapes DEF Inv, TypeOK, ReservationRows
      <4> QED BY <4>1, <4>2, <1>4, <1>2
    <3> QED BY <3>1, <3>2
  <2> QED BY <2>1, <2>2, <2>3 DEF SeriesIsHeld
<1>7. ToldIsVisible'
  <2> SUFFICES ASSUME NEW u \in Transactions, NEW a \in told'[u]
               PROVE  \E y \in Reservations : Visible(u, y)' = a
    BY DEF ToldIsVisible
  <2>1. a \in told[u] \/ (u = t /\ a = new)
    BY <1>4 DEF Inv, TypeOK
  <2>2. CASE u = t /\ a = new
    BY <2>2, <1>4, <1>2
  <2>3. CASE a \in told[u]
    <3>1. PICK y \in Reservations : Visible(u, y) = a
      BY <2>3 DEF Inv, ToldIsVisible
    <3>2. a # NoRow
      BY <2>3, Shapes DEF Inv, TypeOK
    <3>3. y # r /\ y # s
      BY <3>1, <3>2, <1>4, <1>3 DEF Visible
    <3> QED BY <3>1, <3>3, <1>2, Shapes
  <2> QED BY <2>1, <2>2, <2>3
<1>8. /\ Existing(r)' = {new}
      /\ \A x \in Reservations : x # r => Existing(x)' = Existing(x)
  <2>1. row'[r] = NoRow /\ draft'[r] = new
    BY <1>4, <1>2
  <2>2. \A x \in Reservations : x # r => row'[x] = row[x] /\ draft'[x] = draft[x]
    BY <1>4, <1>2, <1>3, Shapes
  <2> QED BY <2>1, <2>2, <1>3 DEF Existing
<1>9. VersionsApart'
  <2> SUFFICES ASSUME NEW x \in Reservations, NEW y \in Reservations, x # y,
                      NEW v \in Existing(x)', NEW w \in Existing(y)'
               PROVE  ~ Collide(v, w)
    BY DEF VersionsApart, Collide, Text, Padded
  <2>1. CASE x # r /\ y # r
    BY <2>1, <1>8 DEF Inv, VersionsApart
  <2>2. CASE x = r
    BY <2>2, <1>4, <1>8, FreeKeyIsApart
  <2>3. CASE y = r
    BY <2>3, <1>4, <1>8, FreeKeyIsApart, CollideSymmetric
  <2> QED BY <2>1, <2>2, <2>3
<1>10. AddressesWereGiven'
  <2>1. new.address <= sequence
    BY <1>4, <1>3 DEF Inv, AddressesWereGiven
  <2>2. \A x \in Reservations : \A v \in Existing(x)' : v.address <= sequence'
    BY <2>1, <1>4, <1>8 DEF Inv, AddressesWereGiven
  <2>3. \A u \in Transactions : call'[u] # NoCall => call'[u].address <= sequence'
    BY <1>4 DEF Inv, TypeOK, AddressesWereGiven
  <2> QED BY <2>2, <2>3 DEF AddressesWereGiven
<1> QED BY <1>5, <1>6, <1>7, <1>9, <1>10 DEF Inv

\* What the end of a transaction leaves of the rows that were locked.
LEMMA ForgetEffect ==
    ASSUME Inv, NEW t \in Transactions, Forget(t)
    PROVE  /\ draft' \in [Ids -> AllVersions] /\ writer' \in [Ids -> Transactions \cup {NoOne}]
           /\ \A x \in Ids : writer[x] = t => draft'[x] = NoRow /\ writer'[x] = NoOne
           /\ \A x \in Ids : writer[x] # t => draft'[x] = draft[x] /\ writer'[x] = writer[x]
BY DEF Inv, TypeOK, Forget, AllVersions

\* A transaction that ends, with its rows committed or not, while no call of its
\* own is left: what is independent of the outcome.
LEMMA EndKeepsHeld ==
    ASSUME Inv, NEW t \in Transactions, Forget(t),
           \A x \in Ids : row'[x] = IF writer[x] = t THEN row'[x] ELSE row[x],
           \A u \in Transactions : call'[u] = IF u = t THEN NoCall ELSE call[u]
    PROVE  SeriesIsHeld'
<1>1. /\ \A x \in Ids : writer[x] = t => draft'[x] = NoRow /\ writer'[x] = NoOne
      /\ \A x \in Ids : writer[x] # t => draft'[x] = draft[x] /\ writer'[x] = writer[x]
  BY ForgetEffect
<1>2. \A x \in Ids : writer'[x] = NoOne <=> draft'[x] = NoRow
  BY <1>1 DEF Inv, SeriesIsHeld
<1>3. ASSUME NEW u \in Transactions, call'[u].at \in {"locked", "numbered"}
      PROVE  writer'[call'[u].series] = u
  <2>1. u # t /\ call'[u] = call[u] /\ call[u] \in CallRecords
    BY <1>3, Shapes DEF Inv, TypeOK
  <2>2. call[u].series \in Ids /\ writer[call[u].series] = u
    BY <1>3, <2>1, Shapes DEF Inv, SeriesIsHeld, CallRecords
  <2> QED BY <2>1, <2>2, <1>1
<1>4. ASSUME NEW x \in Reservations, draft'[x] # NoRow
      PROVE  row'[x] = NoRow /\ writer'[draft'[x].series] = writer'[x]
  <2>1. x \in Ids /\ writer[x] # t /\ draft'[x] = draft[x] /\ writer'[x] = writer[x]
    BY <1>1, <1>4, Shapes
  <2>2. row[x] = NoRow /\ writer[draft[x].series] = writer[x] /\ draft[x].series \in Ids
    BY <1>4, <2>1, Shapes DEF Inv, SeriesIsHeld, TypeOK, ReservationRows
  <2> QED BY <1>1, <2>1, <2>2
<1> QED BY <1>2, <1>3, <1>4 DEF SeriesIsHeld

\* A commit makes the view of its transaction the committed state.
LEMMA CommitEffect ==
    ASSUME Inv, NEW t \in Transactions, Commit(t)
    PROVE  /\ row' \in [Ids -> AllVersions]
           /\ \A x \in Ids : row'[x] = Visible(t, x)
           /\ \A x \in Reservations : row[x] # NoRow => row'[x] = row[x]
           /\ \A x \in Reservations : Existing(x)' = Existing(x)
           /\ \A x \in Ids : Visible(t, x)' = Visible(t, x)
           /\ \A u \in Transactions, x \in Reservations :
                 Visible(u, x) # NoRow => Visible(u, x)' = Visible(u, x)
<1>1. /\ \A x \in Ids : writer[x] = t => draft'[x] = NoRow /\ writer'[x] = NoOne
      /\ \A x \in Ids : writer[x] # t => draft'[x] = draft[x] /\ writer'[x] = writer[x]
  BY ForgetEffect DEF Commit
<1>2. row' \in [Ids -> AllVersions] /\ \A x \in Ids : row'[x] = Visible(t, x)
  BY DEF Commit, Publish, Visible, Inv, TypeOK
<1>3. \A x \in Reservations : row[x] # NoRow => row'[x] = row[x]
  BY <1>2, OneVersion, Shapes, StoreAssumption DEF Visible
<1>4. \A x \in Ids : Visible(t, x)' = Visible(t, x)
  BY <1>1, <1>2, StoreAssumption DEF Visible
<1>5. ASSUME NEW x \in Reservations
      PROVE  /\ Existing(x)' = Existing(x)
             /\ \A u \in Transactions : Visible(u, x) # NoRow => Visible(u, x)' = Visible(u, x)
  <2>1. x \in Ids
    BY Shapes
  <2>2. CASE writer[x] = t
    <3>1. row'[x] = draft[x] /\ draft'[x] = NoRow /\ writer'[x] = NoOne /\ row[x] = NoRow
      BY <2>1, <2>2, <1>1, <1>2, OneVersion, StoreAssumption DEF Visible, Inv, SeriesIsHeld
    <3> QED BY <2>2, <3>1, StoreAssumption DEF Existing, Visible
  <2>3. CASE writer[x] # t
    <3>1. row'[x] = row[x] /\ draft'[x] = draft[x] /\ writer'[x] = writer[x]
      BY <2>1, <2>3, <1>1, <1>2 DEF Visible
    <3> QED BY <3>1 DEF Existing, Visible
  <2> QED BY <2>2, <2>3
<1> QED BY <1>2, <1>3, <1>4, <1>5

\* A commit keeps the invariant.
LEMMA CommitKeepsInv ==
    ASSUME Inv, NEW t \in Transactions, Commit(t)
    PROVE  Inv'
<1>1. /\ draft' \in [Ids -> AllVersions] /\ writer' \in [Ids -> Transactions \cup {NoOne}]
      /\ \A x \in Ids : writer[x] = t => draft'[x] = NoRow /\ writer'[x] = NoOne
      /\ \A x \in Ids : writer[x] # t => draft'[x] = draft[x] /\ writer'[x] = writer[x]
  BY ForgetEffect DEF Commit
<1>2. /\ row' \in [Ids -> AllVersions]
      /\ \A x \in Ids : row'[x] = Visible(t, x)
      /\ \A x \in Reservations : Existing(x)' = Existing(x)
      /\ \A u \in Transactions, x \in Reservations :
            Visible(u, x) # NoRow => Visible(u, x)' = Visible(u, x)
  BY CommitEffect
<1>3. /\ known' = known \cup told[t] /\ told' = [told EXCEPT ![t] = {}]
      /\ sequence' = sequence /\ call' = call /\ call[t] = NoCall
  BY DEF Commit
<1>4. TypeOK'
  <2>1. \A s \in Series : row'[s] \in SeriesRows /\ draft'[s] \in SeriesRows \cup {NoRow}
    BY <1>1, <1>2, SeriesSeen, Shapes DEF Inv, TypeOK
  <2>2. \A x \in Reservations : row'[x] \in ReservationRows \cup {NoRow}
                                /\ draft'[x] \in ReservationRows \cup {NoRow}
    BY <1>1, <1>2, Shapes DEF Inv, TypeOK, Visible
  <2>3. told' \in [Transactions -> SUBSET ReservationRows] /\ known' \subseteq ReservationRows
    BY <1>3 DEF Inv, TypeOK
  <2> QED BY <1>1, <1>2, <1>3, <2>1, <2>2, <2>3 DEF Inv, TypeOK
<1>5. SeriesIsHeld'
  <2>1. \A x \in Ids : row'[x] = IF writer[x] = t THEN row'[x] ELSE row[x]
    BY <1>2 DEF Visible
  <2>2. \A u \in Transactions : call'[u] = IF u = t THEN NoCall ELSE call[u]
    BY <1>3
  <2> QED BY <2>1, <2>2, EndKeepsHeld DEF Commit
<1>6. ToldIsVisible'
  <2> SUFFICES ASSUME NEW u \in Transactions, NEW a \in told'[u]
               PROVE  \E y \in Reservations : Visible(u, y)' = a
    BY DEF ToldIsVisible
  <2>1. a \in told[u]
    BY <1>3 DEF Inv, TypeOK
  <2>2. a # NoRow
    BY <2>1, Shapes DEF Inv, TypeOK
  <2> QED BY <2>1, <2>2, <1>2 DEF Inv, ToldIsVisible
<1>7. VersionsApart'
  BY <1>2 DEF Inv, VersionsApart, Collide, Text, Padded
<1>8. AddressesWereGiven'
  BY <1>2, <1>3 DEF Inv, AddressesWereGiven
<1> QED BY <1>4, <1>5, <1>6, <1>7, <1>8 DEF Inv

\* A rollback leaves no trace but the sequence.
LEMMA RollbackKeepsInv ==
    ASSUME Inv, NEW t \in Transactions, Rollback(t)
    PROVE  /\ Inv' /\ row' = row
           /\ \A x \in Ids : Visible(t, x)' = row[x]
           /\ \A u \in Transactions \ {t}, x \in Ids : Visible(u, x)' = Visible(u, x)
<1>1. /\ draft' \in [Ids -> AllVersions] /\ writer' \in [Ids -> Transactions \cup {NoOne}]
      /\ \A x \in Ids : writer[x] = t => draft'[x] = NoRow /\ writer'[x] = NoOne
      /\ \A x \in Ids : writer[x] # t => draft'[x] = draft[x] /\ writer'[x] = writer[x]
  BY ForgetEffect DEF Rollback
<1>2. /\ row' = row /\ sequence' = sequence /\ known' = known
      /\ call' = [call EXCEPT ![t] = NoCall] /\ told' = [told EXCEPT ![t] = {}]
  BY DEF Rollback
<1>3. /\ \A x \in Ids : Visible(t, x)' = row[x]
      /\ \A u \in Transactions \ {t}, x \in Ids : Visible(u, x)' = Visible(u, x)
  BY <1>1, <1>2, StoreAssumption DEF Visible
<1>4. TypeOK'
  <2>1. \A s \in Series : draft'[s] \in SeriesRows \cup {NoRow}
    BY <1>1, Shapes DEF Inv, TypeOK
  <2>2. \A x \in Reservations : draft'[x] \in ReservationRows \cup {NoRow}
    BY <1>1, Shapes DEF Inv, TypeOK
  <2>3. /\ call' \in [Transactions -> CallRecords \cup {NoCall}]
        /\ told' \in [Transactions -> SUBSET ReservationRows]
    BY <1>2 DEF Inv, TypeOK
  <2> QED BY <1>1, <1>2, <2>1, <2>2, <2>3 DEF Inv, TypeOK
<1>5. SeriesIsHeld'
  <2>1. \A x \in Ids : row'[x] = IF writer[x] = t THEN row'[x] ELSE row[x]
    BY <1>2
  <2>2. \A u \in Transactions : call'[u] = IF u = t THEN NoCall ELSE call[u]
    BY <1>2 DEF Inv, TypeOK
  <2> QED BY <2>1, <2>2, EndKeepsHeld DEF Rollback
<1>6. ToldIsVisible'
  <2> SUFFICES ASSUME NEW u \in Transactions, NEW a \in told'[u]
               PROVE  \E y \in Reservations : Visible(u, y)' = a
    BY DEF ToldIsVisible
  <2>1. u # t /\ a \in told[u]
    BY <1>2 DEF Inv, TypeOK
  <2> QED BY <2>1, <1>3, Shapes DEF Inv, ToldIsVisible
<1>7. \A x \in Reservations : Existing(x)' \subseteq Existing(x)
  BY <1>1, <1>2, Shapes DEF Existing
<1>8. VersionsApart'
  BY <1>7 DEF Inv, VersionsApart, Collide, Text, Padded
<1>9. AddressesWereGiven'
  BY <1>2, <1>7 DEF Inv, TypeOK, AddressesWereGiven
<1> QED BY <1>2, <1>3, <1>4, <1>5, <1>6, <1>8, <1>9 DEF Inv

\* Every step keeps the invariant.
LEMMA InvStep == Inv /\ [Next]_vars => Inv'
<1> SUFFICES ASSUME Inv, [Next]_vars PROVE Inv'
  OBVIOUS
<1>1. CASE UNCHANGED vars
  BY <1>1 DEF vars, Inv, TypeOK, SeriesIsHeld, ToldIsVisible, VersionsApart, AddressesWereGiven,
              Existing, Visible, Collide, Text, Padded
<1>2. ASSUME NEW t \in Transactions,
             \/ LookUp(t) \/ LockSeries(t) \/ FindReservation(t) \/ TakeAddress(t)
             \/ Reserve(t) \/ Commit(t) \/ Rollback(t)
      PROVE  Inv'
  BY <1>2, LookUpKeepsInv, LockKeepsInv, FindKeepsInv, TakeKeepsInv, ReserveKeepsInv, CommitKeepsInv,
     RollbackKeepsInv
<1> QED BY <1>1, <1>2 DEF Next

\* The inductive invariant: a series is locked by whoever reserves from it, what
\* a transaction was told is what it sees, and no two reservations collide.
THEOREM InvHolds == Spec => []Inv
<1>1. Init => Inv
  BY InitInv
<1>2. Inv /\ [Next]_vars => Inv'
  BY InvStep
<1> QED BY <1>1, <1>2, PTL DEF Spec

-----------------------------------------------------------------------------

\* The three properties at the beginning.
LEMMA InitProperties == Init => NoReferenceTwice /\ KeyKeepsItsNumber /\ GaplessSeries
<1> SUFFICES ASSUME Init PROVE NoReferenceTwice /\ KeyKeepsItsNumber /\ GaplessSeries
  OBVIOUS
<1>1. \A x \in Reservations : row[x] = NoRow
  BY Shapes DEF Init
<1>2. \A s \in Series : row[s].next = First[s]
  BY Shapes DEF Init
<1>3. NoReferenceTwice /\ KeyKeepsItsNumber
  BY <1>1 DEF Init, NoReferenceTwice, KeyKeepsItsNumber
<1>4. ASSUME NEW s \in Series, NEW version,
             version[s].next = First[s], \A x \in Reservations : version[x] = NoRow
      PROVE  Gapless(s, version)
  <2>1. First[s] \in Nat /\ Step[s] \in Nat
    BY Shapes
  <2>2. version[s].next = First[s] + 0 * Step[s] /\ 0 \in 0 .. version[s].next
    BY <1>4, <2>1
  <2>3. Given(s, version) = {}
    BY <1>4 DEF Given
  <2>4. 0 .. (0 - 1) = {}
    OBVIOUS
  <2> QED BY <2>2, <2>3, <2>4 DEF Gapless
<1>5. \A t \in Transactions, x \in Ids : View(t)[x] = row[x]
  BY StoreAssumption DEF Init, View, Visible
<1>6. ASSUME NEW s \in Series, NEW t \in Transactions
      PROVE  Gapless(s, row) /\ Gapless(s, View(t))
  <2>1. row[s].next = First[s] /\ View(t)[s].next = First[s]
    BY <1>2, <1>5, Shapes
  <2>2. \A x \in Reservations : View(t)[x] = NoRow
    BY <1>1, <1>5, Shapes
  <2> QED BY <2>1, <2>2, <1>1, <1>4
<1>7. ASSUME NEW s \in Series PROVE Gapless(s, row)
  BY <1>1, <1>2, <1>4
<1>8. GaplessSeries
  BY <1>6, <1>7 DEF GaplessSeries
<1> QED BY <1>3, <1>8

\* Only an end of a transaction changes what is committed.
LEMMA RowsStay ==
    ASSUME Inv, NEW t \in Transactions,
           \/ LookUp(t) \/ LockSeries(t) \/ FindReservation(t) \/ TakeAddress(t)
           \/ Reserve(t) \/ Rollback(t)
    PROVE  row' = row /\ known' = known
BY LockKeepsInv, RollbackKeepsInv
   DEF LookUp, LockSeries, FindReservation, TakeAddress, Reserve, Rollback, storeVars

\* A committed answer stays the reservation of its key.
LEMMA KeyStep == Inv /\ KeyKeepsItsNumber /\ [Next]_vars => KeyKeepsItsNumber'
<1> SUFFICES ASSUME Inv, KeyKeepsItsNumber, [Next]_vars PROVE KeyKeepsItsNumber'
  OBVIOUS
<1>1. CASE UNCHANGED vars
  BY <1>1 DEF vars, KeyKeepsItsNumber
<1>2. ASSUME NEW t \in Transactions,
             \/ LookUp(t) \/ LockSeries(t) \/ FindReservation(t) \/ TakeAddress(t)
             \/ Reserve(t) \/ Rollback(t)
      PROVE  KeyKeepsItsNumber'
  BY <1>2, RowsStay DEF KeyKeepsItsNumber
<1>3. ASSUME NEW t \in Transactions, Commit(t) PROVE KeyKeepsItsNumber'
  <2> SUFFICES ASSUME NEW a \in known' PROVE \E x \in Reservations : row'[x] = a
    BY DEF KeyKeepsItsNumber
  <2>1. /\ \A x \in Ids : row'[x] = Visible(t, x)
        /\ \A x \in Reservations : row[x] # NoRow => row'[x] = row[x]
    BY <1>3, CommitEffect
  <2>2. a \in known \/ a \in told[t]
    BY <1>3 DEF Commit
  <2>3. CASE a \in known
    <3>1. a # NoRow
      BY <2>3, Shapes DEF Inv, TypeOK
    <3> QED BY <2>1, <2>3, <3>1 DEF KeyKeepsItsNumber
  <2>4. CASE a \in told[t]
    BY <2>1, <2>4, Shapes DEF Inv, ToldIsVisible
  <2> QED BY <2>2, <2>3, <2>4
<1> QED BY <1>1, <1>2, <1>3 DEF Next

\* No two calls hold one address, and none holds that of a reservation.
CallsApart ==
    /\ \A x \in Reservations, t \in Transactions :
          call[t] # NoCall /\ call[t].address # 0 =>
              \A v \in Existing(x) : v.address # call[t].address
    /\ \A t, u \in Transactions :
          t # u /\ call[t] # NoCall /\ call[u] # NoCall /\ call[t].address # 0 =>
              call[t].address # call[u].address

\* The unique constraints and the addresses of calls are all there is to it.
LEMMA ApartMeansOnce == Inv => (NoReferenceTwice <=> CallsApart)
BY DEF Inv, VersionsApart, NoReferenceTwice, CallsApart, Existing

\* A step in which no call gets an address and no reservation appears.
LEMMA FewerStayApart ==
    ASSUME CallsApart,
           \A x \in Reservations : Existing(x)' \subseteq Existing(x),
           \A t \in Transactions : call'[t] = call[t] \/ call'[t] = NoCall \/ call'[t].address = 0
    PROVE  CallsApart'
<1>1. ASSUME NEW x \in Reservations, NEW t \in Transactions,
             call'[t] # NoCall, call'[t].address # 0, NEW v \in Existing(x)'
      PROVE  v.address # call'[t].address
  BY <1>1 DEF CallsApart
<1>2. ASSUME NEW t \in Transactions, NEW u \in Transactions, t # u,
             call'[t] # NoCall, call'[u] # NoCall, call'[t].address # 0
      PROVE  call'[t].address # call'[u].address
  BY <1>2 DEF CallsApart
<1> QED BY <1>1, <1>2 DEF CallsApart

\* Addresses stay apart.
LEMMA ApartStep == Inv /\ CallsApart /\ [Next]_vars => CallsApart'
<1> SUFFICES ASSUME Inv, CallsApart, [Next]_vars PROVE CallsApart'
  OBVIOUS
<1>1. CASE UNCHANGED vars
  BY <1>1, FewerStayApart DEF vars, Existing
<1>2. ASSUME NEW t \in Transactions, LockSeries(t) PROVE CallsApart'
  <2>1. PICK s \in Series, k \in Keys :
          /\ Write(t, s, Visible(t, s))
          /\ call' = [call EXCEPT ![t] =
                [at |-> "locked", series |-> s, key |-> k, address |-> 0]]
    BY <1>2 DEF LockSeries, Calls
  <2>2. \A x \in Reservations : Existing(x)' = Existing(x)
    BY <2>1, Shapes DEF Write, Existing, Inv, TypeOK
  <2>3. \A u \in Transactions : call'[u] = call[u] \/ call'[u].address = 0
    BY <2>1 DEF Inv, TypeOK
  <2> QED BY <2>2, <2>3, FewerStayApart
<1>3. ASSUME NEW t \in Transactions, FindReservation(t) PROVE CallsApart'
  <2>1. \A u \in Transactions : call'[u] = call[u] \/ call'[u] = NoCall
    BY <1>3 DEF FindReservation, Return, Inv, TypeOK
  <2> QED BY <1>3, <2>1, FewerStayApart DEF FindReservation, storeVars, Existing
<1>4. ASSUME NEW t \in Transactions, TakeAddress(t) PROVE CallsApart'
  <2>1. /\ call[t] # NoCall /\ call[t] \in CallRecords
        /\ call' = [call EXCEPT ![t].at = "numbered", ![t].address = sequence + 1]
    BY <1>4 DEF TakeAddress, NextAddress, NoCall, Inv, TypeOK
  <2>2. call'[t].address = sequence + 1 /\ \A u \in Transactions : u # t => call'[u] = call[u]
    BY <2>1 DEF Inv, TypeOK, CallRecords
  <2>3. sequence \in Nat
    BY SeriesAssumption DEF Inv, TypeOK, Addresses
  <2>4. \A x \in Reservations : \A v \in Existing(x) : v.address \in Nat /\ v.address <= sequence
    BY SeriesAssumption DEF Inv, TypeOK, AddressesWereGiven, Existing, ReservationRows, Addresses
  <2>5. \A u \in Transactions : call[u] # NoCall => call[u].address \in Nat /\ call[u].address <= sequence
    BY SeriesAssumption DEF Inv, TypeOK, AddressesWereGiven, CallRecords, Addresses
  <2>6. \A x \in Reservations : Existing(x)' = Existing(x)
    BY <1>4 DEF TakeAddress, storeVars, Existing
  <2>7. ASSUME NEW x \in Reservations, NEW u \in Transactions,
               call'[u] # NoCall, call'[u].address # 0, NEW v \in Existing(x)'
        PROVE  v.address # call'[u].address
    BY <2>7, <2>2, <2>3, <2>4, <2>6 DEF CallsApart
  <2>8. ASSUME NEW u \in Transactions, NEW w \in Transactions, u # w,
               call'[u] # NoCall, call'[w] # NoCall, call'[u].address # 0
        PROVE  call'[u].address # call'[w].address
    BY <2>8, <2>2, <2>3, <2>5 DEF CallsApart
  <2> QED BY <2>7, <2>8 DEF CallsApart
<1>5. ASSUME NEW t \in Transactions, Reserve(t) PROVE CallsApart'
  <2>1. PICK s \in Series, r \in Reservations, n \in Int, new \in ReservationRows :
          /\ call[t] # NoCall /\ new.address = call[t].address
          /\ row[r] = NoRow /\ row' = row /\ draft'[r] = new
          /\ call' = [call EXCEPT ![t] = NoCall]
          /\ \A x \in Ids : x # r /\ x # s => draft'[x] = draft[x]
    <3>1. PICK s \in Series, r \in Reservations, n \in Int, new \in ReservationRows :
             Touches(t, s, r, n, new)
      BY <1>5, ReserveSeen
    <3> QED BY <3>1 DEF Touches
  <2>2. /\ \A v \in Existing(r)' : v.address = call[t].address
        /\ \A x \in Reservations : x # r => Existing(x)' = Existing(x)
    BY <2>1, Shapes DEF Existing
  <2>3. \A u \in Transactions : call'[u] = IF u = t THEN NoCall ELSE call[u]
    BY <2>1 DEF Inv, TypeOK
  <2>4. ASSUME NEW x \in Reservations, NEW u \in Transactions,
               call'[u] # NoCall, call'[u].address # 0, NEW v \in Existing(x)'
        PROVE  v.address # call'[u].address
    <3>1. u # t /\ call'[u] = call[u]
      BY <2>3, <2>4
    <3>2. CASE x = r
      BY <3>1, <3>2, <2>1, <2>2, <2>4 DEF CallsApart
    <3>3. CASE x # r
      BY <3>1, <3>3, <2>2, <2>4 DEF CallsApart
    <3> QED BY <3>2, <3>3
  <2>5. ASSUME NEW u \in Transactions, NEW w \in Transactions, u # w,
               call'[u] # NoCall, call'[w] # NoCall, call'[u].address # 0
        PROVE  call'[u].address # call'[w].address
    BY <2>5, <2>3 DEF CallsApart
  <2> QED BY <2>4, <2>5 DEF CallsApart
<1>8. ASSUME NEW t \in Transactions, LookUp(t) PROVE CallsApart'
  BY <1>8, LookUpKeepsInv, FewerStayApart DEF storeVars, Existing
<1>6. ASSUME NEW t \in Transactions, Commit(t) PROVE CallsApart'
  <2>1. \A x \in Reservations : Existing(x)' = Existing(x)
    BY <1>6, CommitEffect
  <2> QED BY <1>6, <2>1, FewerStayApart DEF Commit
<1>7. ASSUME NEW t \in Transactions, Rollback(t) PROVE CallsApart'
  <2>1. \A x \in Reservations : Existing(x)' \subseteq Existing(x)
    BY <1>7, ForgetEffect, Shapes DEF Rollback, Existing
  <2>2. \A u \in Transactions : call'[u] = call[u] \/ call'[u] = NoCall
    BY <1>7 DEF Rollback, Inv, TypeOK
  <2> QED BY <2>1, <2>2, FewerStayApart
<1> QED BY <1>1, <1>2, <1>3, <1>4, <1>5, <1>6, <1>7, <1>8 DEF Next

\* No number of a series is written twice and no address is given twice.
THEOREM NoReferenceTwiceHolds == Spec => []NoReferenceTwice
<1>1. Init => Inv /\ CallsApart
  BY InitInv, InitProperties, ApartMeansOnce
<1>2. (Inv /\ CallsApart) /\ [Next]_vars => (Inv /\ CallsApart)'
  BY InvStep, ApartStep
<1>3. Inv /\ CallsApart => NoReferenceTwice
  BY ApartMeansOnce
<1> QED BY <1>1, <1>2, <1>3, PTL DEF Spec

\* Repetitions of a reservation are answered alike for ever.
THEOREM KeyKeepsItsNumberHolds == Spec => []KeyKeepsItsNumber
<1>1. Init => KeyKeepsItsNumber
  BY InitProperties
<1>2. Inv /\ KeyKeepsItsNumber /\ [Next]_vars => KeyKeepsItsNumber'
  BY KeyStep
<1> QED BY <1>1, <1>2, InvHolds, PTL DEF Spec

-----------------------------------------------------------------------------

\* Two versions of the database that agree on a series.
Agree(s, v, w) ==
    /\ v[s] = w[s]
    /\ \A x \in Reservations :
          \/ v[x] = w[x]
          \/ (v[x] = NoRow \/ v[x].series # s) /\ (w[x] = NoRow \/ w[x].series # s)

\* They have the same numbers.
LEMMA AgreeGapless ==
    ASSUME NEW s \in Series, NEW v, NEW w, Agree(s, v, w), Gapless(s, v)
    PROVE  Gapless(s, w)
<1>1. Given(s, v) = Given(s, w)
  BY DEF Agree, Given
<1> QED BY <1>1 DEF Agree, Gapless

\* One more number, the next one, leaves no gap.
LEMMA NextIsGapless ==
    ASSUME NEW s \in Series, NEW r \in Reservations, NEW v, NEW w, Gapless(s, v),
           v[s].next \in Int, w[s].next = v[s].next + Step[s],
           v[r] = NoRow, w[r] # NoRow, w[r].series = s, w[r].number = v[s].next,
           \A x \in Reservations : x # r => w[x] = v[x]
    PROVE  Gapless(s, w)
<1> DEFINE n == v[s].next
<1>1. PICK j \in 0 .. n :
          /\ n = First[s] + j * Step[s]
          /\ Given(s, v) = {First[s] + i * Step[s] : i \in 0 .. (j - 1)}
  BY DEF Gapless
<1>2. First[s] \in Nat /\ Step[s] \in Nat /\ Step[s] > 0 /\ j \in Nat
  BY <1>1, Shapes
<1>3. (j + 1) * Step[s] = j * Step[s] + Step[s]
  BY <1>2
<1>4. w[s].next = First[s] + (j + 1) * Step[s]
  BY <1>1, <1>2, <1>3
<1>5. j + 1 \in 0 .. w[s].next
  BY <1>1, <1>2
<1>6. Given(s, w) = Given(s, v) \cup {n}
  BY DEF Given
<1>7. Given(s, w) = {First[s] + i * Step[s] : i \in 0 .. ((j + 1) - 1)}
  <2>1. 0 .. ((j + 1) - 1) = (0 .. (j - 1)) \cup {j}
    BY <1>2
  <2>2. {First[s] + i * Step[s] : i \in (0 .. (j - 1)) \cup {j}} =
            {First[s] + i * Step[s] : i \in 0 .. (j - 1)} \cup {First[s] + j * Step[s]}
    OBVIOUS
  <2> QED BY <2>1, <2>2, <1>1, <1>6
<1> QED BY <1>4, <1>5, <1>7 DEF Gapless

\* What a transaction sees, as a function.
LEMMA ViewIs ==
    /\ \A t \in Transactions, x \in Ids : View(t)[x] = Visible(t, x)
    /\ \A t \in Transactions, x \in Ids : View(t)'[x] = Visible(t, x)'
BY DEF View

\* In the view of a transaction that does not hold a series, the series is as
\* it was committed.
LEMMA ForeignSeries ==
    ASSUME Inv, NEW u \in Transactions, NEW s \in Series, writer[s] # u
    PROVE  /\ Visible(u, s) = row[s]
           /\ \A x \in Reservations : Visible(u, x) = row[x]
                                      \/ (row[x] = NoRow /\ Visible(u, x).series # s)
<1>1. ASSUME NEW x \in Reservations, Visible(u, x) # row[x]
      PROVE  row[x] = NoRow /\ Visible(u, x).series # s
  <2>1. writer[x] = u /\ Visible(u, x) = draft[x] /\ draft[x] # NoRow
    BY <1>1, Shapes, StoreAssumption DEF Visible, Inv, SeriesIsHeld
  <2> QED BY <2>1 DEF Inv, SeriesIsHeld
<1> QED BY <1>1 DEF Visible

\* The series stay gapless.
LEMMA GaplessStep == Inv /\ GaplessSeries /\ [Next]_vars => GaplessSeries'
<1> SUFFICES ASSUME Inv, GaplessSeries, [Next]_vars PROVE GaplessSeries'
  OBVIOUS
<1>a. ASSUME row' = row, \A u \in Transactions, x \in Ids : Visible(u, x)' = Visible(u, x)
      PROVE  GaplessSeries'
  <2>1. \A u \in Transactions : View(u)' = View(u)
    BY <1>a DEF View
  <2>2. \A s \in Series : Gapless(s, row') /\ \A u \in Transactions : Gapless(s, View(u)')
    BY <1>a, <2>1 DEF GaplessSeries
  <2> QED BY <2>2 DEF GaplessSeries, Gapless, Given
<1>1. CASE UNCHANGED vars
  BY <1>1, <1>a DEF vars, Visible
<1>2. ASSUME NEW t \in Transactions, LockSeries(t) PROVE GaplessSeries'
  BY <1>2, <1>a, LockKeepsInv
<1>3. ASSUME NEW t \in Transactions, LookUp(t) \/ FindReservation(t) \/ TakeAddress(t)
      PROVE  GaplessSeries'
  BY <1>3, <1>a DEF LookUp, FindReservation, TakeAddress, storeVars, Visible
<1>4. ASSUME NEW t \in Transactions, Reserve(t) PROVE GaplessSeries'
  <2>1. PICK s \in Series, r \in Reservations, n \in Int, new \in ReservationRows :
          /\ n = Visible(t, s).next /\ new.number = n /\ new.series = s
          /\ row[r] = NoRow /\ draft[r] = NoRow /\ row' = row
          /\ \A u \in Transactions, x \in Ids :
                u # t \/ (x # r /\ x # s) => Visible(u, x)' = Visible(u, x)
          /\ Visible(t, r)' = new /\ Visible(t, s)' = [next |-> n + Step[s]]
    <3>1. PICK s \in Series, r \in Reservations, n \in Int, new \in ReservationRows :
             Touches(t, s, r, n, new)
      BY <1>4, ReserveSeen
    <3> QED BY <3>1 DEF Touches
  <2>2. ASSUME NEW z \in Series PROVE Gapless(z, row')
    BY <2>1 DEF GaplessSeries
  <2>3. ASSUME NEW z \in Series, NEW u \in Transactions PROVE Gapless(z, View(u)')
    <3>1. Gapless(z, View(u))
      BY DEF GaplessSeries
    <3>2. CASE u # t
      <4>1. View(u)' = View(u)
        BY <2>1, <3>2 DEF View
      <4> QED BY <3>1, <4>1
    <3>3. CASE u = t /\ z = s
      <4>1. /\ View(u)[s].next = n /\ View(u)'[s].next = n + Step[s]
            /\ View(u)[r] = NoRow /\ View(u)'[r] = new
        BY <2>1, <3>3, ViewIs, Shapes DEF Visible
      <4>2. \A x \in Reservations : x # r => View(u)'[x] = View(u)[x]
        BY <2>1, <3>3, ViewIs, Shapes
      <4>3. new # NoRow
        BY Shapes
      <4> QED BY <2>1, <3>1, <3>3, <4>1, <4>2, <4>3, NextIsGapless
    <3>4. CASE u = t /\ z # s
      <4>1. /\ View(u)'[z] = View(u)[z]
            /\ View(u)[r] = NoRow /\ View(u)'[r] = new
        BY <2>1, <3>4, ViewIs, Shapes DEF Visible
      <4>2. \A x \in Reservations : x # r => View(u)'[x] = View(u)[x]
        BY <2>1, <3>4, ViewIs, Shapes
      <4>3. Agree(z, View(u), View(u)')
        BY <2>1, <3>4, <4>1, <4>2 DEF Agree
      <4> QED BY <3>1, <4>3, AgreeGapless
    <3> QED BY <3>2, <3>3, <3>4
  <2> QED BY <2>2, <2>3 DEF GaplessSeries, Gapless, Given
<1>5. ASSUME NEW t \in Transactions, Commit(t) PROVE GaplessSeries'
  <2>1. /\ \A x \in Ids : writer[x] = t => draft'[x] = NoRow /\ writer'[x] = NoOne
        /\ \A x \in Ids : writer[x] # t => draft'[x] = draft[x] /\ writer'[x] = writer[x]
        /\ \A x \in Ids : row'[x] = Visible(t, x)
    BY <1>5, ForgetEffect, CommitEffect DEF Commit
  <2>2. ASSUME NEW z \in Series PROVE Gapless(z, View(t)) /\ Gapless(z, row')
    <3>1. Gapless(z, View(t))
      BY DEF GaplessSeries
    <3>2. Agree(z, View(t), row')
      BY <2>1, ViewIs, Shapes DEF Agree
    <3> QED BY <3>1, <3>2, AgreeGapless
  <2>3. ASSUME NEW z \in Series, NEW u \in Transactions PROVE Gapless(z, View(u)')
    <3>1. CASE u = t
      <4>1. \A x \in Ids : View(u)'[x] = row'[x]
        BY <2>1, <3>1, ViewIs, StoreAssumption DEF Visible
      <4>2. Agree(z, row', View(u)')
        BY <4>1, Shapes DEF Agree
      <4> QED BY <2>2, <4>2, AgreeGapless
    <3>2. CASE u # t /\ writer[z] = u
      <4>1. View(u)'[z] = View(u)[z]
        BY <2>1, <3>2, ViewIs, Shapes DEF Visible
      <4>2. ASSUME NEW x \in Reservations, View(u)'[x] # View(u)[x]
            PROVE  View(u)[x] = NoRow /\ View(u)'[x].series # z
        <5>1. writer[x] = t /\ View(u)[x] = row[x] /\ View(u)'[x] = draft[x] /\ x \in Ids
          BY <2>1, <3>2, <4>2, ViewIs, Shapes, StoreAssumption DEF Visible
        <5>2. draft[x] # NoRow /\ row[x] = NoRow /\ writer[draft[x].series] = t
          BY <5>1, StoreAssumption DEF Inv, SeriesIsHeld
        <5> QED BY <5>1, <5>2, <3>2
      <4>3. Agree(z, View(u), View(u)')
        BY <4>1, <4>2 DEF Agree
      <4>4. Gapless(z, View(u))
        BY DEF GaplessSeries
      <4> QED BY <4>3, <4>4, AgreeGapless
    <3>3. CASE u # t /\ writer[z] # u
      <4>1. View(u)'[z] = row'[z]
        BY <2>1, <3>3, ViewIs, Shapes, StoreAssumption DEF Visible
      <4>2. ASSUME NEW x \in Reservations, View(u)'[x] # row'[x]
            PROVE  row'[x] = NoRow /\ View(u)'[x].series # z
        <5>1. writer[x] = u /\ row'[x] = row[x] /\ View(u)'[x] = draft[x] /\ x \in Ids
          BY <2>1, <3>3, <4>2, ViewIs, Shapes, StoreAssumption DEF Visible
        <5>2. draft[x] # NoRow /\ row[x] = NoRow /\ writer[draft[x].series] = u
          BY <5>1, StoreAssumption DEF Inv, SeriesIsHeld
        <5> QED BY <5>1, <5>2, <3>3
      <4>3. Agree(z, row', View(u)')
        BY <4>1, <4>2 DEF Agree
      <4> QED BY <2>2, <4>3, AgreeGapless
    <3> QED BY <3>1, <3>2, <3>3
  <2> QED BY <2>2, <2>3 DEF GaplessSeries, Gapless, Given
<1>6. ASSUME NEW t \in Transactions, Rollback(t) PROVE GaplessSeries'
  <2>1. /\ row' = row
        /\ \A x \in Ids : Visible(t, x)' = row[x]
        /\ \A u \in Transactions \ {t}, x \in Ids : Visible(u, x)' = Visible(u, x)
    BY <1>6, RollbackKeepsInv
  <2>2. ASSUME NEW z \in Series PROVE Gapless(z, row')
    BY <2>1 DEF GaplessSeries
  <2>3. ASSUME NEW z \in Series, NEW u \in Transactions PROVE Gapless(z, View(u)')
    <3>1. CASE u = t
      <4>1. Agree(z, row', View(u)')
        BY <2>1, <3>1, ViewIs, Shapes DEF Agree
      <4> QED BY <2>2, <4>1, AgreeGapless
    <3>2. CASE u # t
      <4>1. View(u)' = View(u)
        BY <2>1, <3>2 DEF View
      <4> QED BY <4>1 DEF GaplessSeries
    <3> QED BY <3>1, <3>2
  <2> QED BY <2>2, <2>3 DEF GaplessSeries, Gapless, Given
<1> QED BY <1>1, <1>2, <1>3, <1>4, <1>5, <1>6 DEF Next

\* The numbers of a series have no gap, committed or about to be.
THEOREM GaplessSeriesHolds == Spec => []GaplessSeries
<1>1. Init => GaplessSeries
  BY InitProperties
<1>2. Inv /\ GaplessSeries /\ [Next]_vars => GaplessSeries'
  BY GaplessStep
<1> QED BY <1>1, <1>2, InvHolds, PTL DEF Spec

-----------------------------------------------------------------------------

\* What the register of the mapping holds.
Entries == {row[x] : x \in Reservations} \ {NoRow}
NextNumbers == [s \in Series |-> row[s].next]

\* Numbers that follow each other: the later ones of a progression.
LEMMA LaterNumbers ==
    ASSUME NEW first \in Nat, NEW step \in Nat, step > 0, NEW j \in Nat, NEW k \in Nat,
           {first + i * step : i \in 0 .. (j - 1)} \subseteq {first + i * step : i \in 0 .. (k - 1)}
    PROVE  /\ j <= k
           /\ {first + i * step : i \in 0 .. (k - 1)} \ {first + i * step : i \in 0 .. (j - 1)}
                = {(first + j * step) + i * step : i \in 0 .. ((k - j) - 1)}
           /\ first + k * step = (first + j * step) + (k - j) * step
           /\ k - j \in 0 .. ((first + k * step) - (first + j * step))
<1>1. ASSUME NEW a \in Nat, NEW b \in Nat, a < b PROVE first + a * step < first + b * step
  BY <1>1
<1>2. ASSUME NEW a \in Nat, NEW b \in Nat, first + a * step = first + b * step PROVE a = b
  BY <1>1, <1>2
<1>3. j <= k
  <2> SUFFICES ASSUME k < j PROVE FALSE
    OBVIOUS
  <2> DEFINE at(i) == first + i * step
  <2>1. {at(i) : i \in 0 .. (j - 1)} \subseteq {at(i) : i \in 0 .. (k - 1)}
    OBVIOUS
  <2>2. \A a, b \in Nat : at(a) = at(b) => a = b
    BY <1>2
  <2>3. k \in 0 .. (j - 1) /\ k \notin 0 .. (k - 1) /\ 0 .. (k - 1) \subseteq Nat
    OBVIOUS
  <2> HIDE DEF at
  <2>4. PICK i \in 0 .. (k - 1) : at(k) = at(i)
    BY <2>1, <2>3
  <2> QED BY <2>2, <2>3, <2>4
<1>4. \A i \in Nat : first + (j + i) * step = (first + j * step) + i * step
  OBVIOUS
<1>5. first + k * step = (first + j * step) + (k - j) * step
  BY <1>3, <1>4
<1>6. k - j \in 0 .. ((first + k * step) - (first + j * step))
  BY <1>3, <1>5
<1> DEFINE at(i) == first + i * step
<1>7. {at(i) : i \in 0 .. (k - 1)} \ {at(i) : i \in 0 .. (j - 1)} = {at(i) : i \in j .. (k - 1)}
  <2>1. \A a, b \in Nat : at(a) = at(b) => a = b
    BY <1>2
  <2> HIDE DEF at
  <2> QED BY <1>3, <2>1
<1>8. {at(i) : i \in j .. (k - 1)} = {(first + j * step) + i * step : i \in 0 .. ((k - j) - 1)}
  <2> DEFINE later(h) == (first + j * step) + h * step
  <2>1. \A h \in Nat : at(j + h) = later(h)
    BY <1>4
  <2>2. \A i \in j .. (k - 1) : i - j \in 0 .. ((k - j) - 1) /\ i - j \in Nat /\ j + (i - j) = i
    BY <1>3
  <2>3. \A h \in 0 .. ((k - j) - 1) : h \in Nat /\ j + h \in j .. (k - 1)
    BY <1>3
  <2> HIDE DEF at, later
  <2>4. \A i \in j .. (k - 1) : at(i) = later(i - j)
    BY <2>1, <2>2
  <2>5. {at(i) : i \in j .. (k - 1)} \subseteq {later(h) : h \in 0 .. ((k - j) - 1)}
    BY <2>2, <2>4
  <2>6. {later(h) : h \in 0 .. ((k - j) - 1)} \subseteq {at(i) : i \in j .. (k - 1)}
    BY <2>1, <2>3
  <2>7. {at(i) : i \in j .. (k - 1)} = {later(h) : h \in 0 .. ((k - j) - 1)}
    BY <2>5, <2>6
  <2> QED BY <2>7 DEF later
<1> QED BY <1>3, <1>5, <1>6, <1>7, <1>8

\* After a step, too, reservations are apart as entries of a register are.
LEMMA EntriesApartLater ==
    ASSUME Inv', NEW e \in Entries', NEW f \in Entries', e # f
    PROVE  Register!Apart(e, f)
<1>1. PICK x \in Reservations, y \in Reservations : e = row'[x] /\ f = row'[y] /\ x # y
  BY DEF Entries
<1>2. e \in Existing(x)' /\ f \in Existing(y)'
  BY <1>1 DEF Existing, Entries
<1>3. ~ Collide(e, f)
  BY <1>1, <1>2 DEF Inv, VersionsApart, Collide, Text, Padded
<1> QED BY <1>3 DEF Collide, Register!Apart

\* The numbers that a commit adds to a series follow those it has.
LEMMA NumbersFollow ==
    ASSUME Inv, Inv', GaplessSeries, GaplessSeries', Entries \subseteq Entries', NEW s \in Series
    PROVE  Register!Follow(s)
<1> DEFINE numbers(j) == {First[s] + i * Step[s] : i \in 0 .. (j - 1)}
           added == Entries' \ Entries
<1>1. First[s] \in Nat /\ Step[s] \in Nat /\ Step[s] > 0
  BY Shapes
<1>2. PICK j \in Nat : row[s].next = First[s] + j * Step[s] /\ Given(s, row) = numbers(j)
  BY DEF GaplessSeries, Gapless
<1>3. PICK k \in Nat : row'[s].next = First[s] + k * Step[s] /\ Given(s, row') = numbers(k)
  <2>1. Gapless(s, row')
    BY DEF GaplessSeries, Gapless, Given
  <2> QED BY <2>1 DEF Gapless
<1>4. Given(s, row) = Register!NumbersOf(s, Entries)
  BY DEF Given, Entries, Register!NumbersOf
<1>5. Given(s, row') = Register!NumbersOf(s, Entries')
  BY DEF Given, Entries, Register!NumbersOf
<1>6. Register!NumbersOf(s, added) = Given(s, row') \ Given(s, row)
  <2>1. ASSUME NEW e \in added, e.series = s, NEW f \in Entries, f.series = s
        PROVE  e.number # f.number
    <3>1. e \in Entries' /\ f \in Entries' /\ e # f
      BY <2>1
    <3>2. Register!Apart(e, f)
      BY <3>1, EntriesApartLater
    <3> QED BY <2>1, <3>2 DEF Register!Apart
  <2> QED BY <1>4, <1>5, <2>1 DEF Register!NumbersOf
<1>7. numbers(j) \subseteq numbers(k)
  BY <1>2, <1>3, <1>4, <1>5 DEF Register!NumbersOf
<1>8. /\ j <= k
      /\ numbers(k) \ numbers(j) =
            {(First[s] + j * Step[s]) + i * Step[s] : i \in 0 .. ((k - j) - 1)}
      /\ First[s] + k * Step[s] = (First[s] + j * Step[s]) + (k - j) * Step[s]
      /\ k - j \in 0 .. ((First[s] + k * Step[s]) - (First[s] + j * Step[s]))
  BY <1>1, <1>7, LaterNumbers
<1> HIDE DEF numbers
<1>9. NextNumbers[s] = First[s] + j * Step[s] /\ NextNumbers'[s] = First[s] + k * Step[s]
  BY <1>2, <1>3 DEF NextNumbers
<1>10. Register!NumbersOf(s, added) =
          {NextNumbers[s] + i * Step[s] : i \in 0 .. ((k - j) - 1)}
  BY <1>2, <1>3, <1>6, <1>8, <1>9
<1>11. /\ k - j \in 0 .. (NextNumbers'[s] - NextNumbers[s])
       /\ NextNumbers'[s] = NextNumbers[s] + (k - j) * Step[s]
  BY <1>8, <1>9
<1> QED BY <1>10, <1>11 DEF Register!Follow, Register!Added, Entries, NextNumbers

\* A commit adds to the register, and nothing else touches it.
LEMMA RegisterStep ==
    Inv /\ Inv' /\ GaplessSeries /\ GaplessSeries' /\ [Next]_vars
    => [Register!Enter]_(Register!registerVars)
<1> SUFFICES ASSUME Inv, Inv', GaplessSeries, GaplessSeries', [Next]_vars
             PROVE  [Register!Enter]_(Register!registerVars)
  OBVIOUS
<1>1. ASSUME row' = row, known' = known PROVE UNCHANGED Register!registerVars
  BY <1>1 DEF Register!registerVars
<1>2. CASE UNCHANGED vars
  BY <1>1, <1>2 DEF vars
<1>3. ASSUME NEW t \in Transactions,
             \/ LookUp(t) \/ LockSeries(t) \/ FindReservation(t) \/ TakeAddress(t)
             \/ Reserve(t) \/ Rollback(t)
      PROVE  UNCHANGED Register!registerVars
  BY <1>1, <1>3, RowsStay
<1>4. ASSUME NEW t \in Transactions, Commit(t) PROVE Register!Enter
  <2>1. /\ \A x \in Ids : row'[x] = Visible(t, x)
        /\ \A x \in Reservations : row[x] # NoRow => row'[x] = row[x]
    BY <1>4, CommitEffect
  <2>2. Entries \subseteq Entries'
    BY <2>1 DEF Entries
  <2>3. \A s \in Series : Register!Follow(s)
    BY <2>2, NumbersFollow
  <2>4. \A e \in Entries' \ Entries : \A f \in Entries' \ {e} : Register!Apart(e, f)
    BY EntriesApartLater
  <2>5. NextNumbers' \in [Series -> Int]
    BY DEF NextNumbers, Inv, TypeOK, SeriesRows
  <2>6. known \subseteq known' /\ known' \subseteq known \cup Entries'
    <3>1. known' = known \cup told[t]
      BY <1>4 DEF Commit
    <3>2. ASSUME NEW a \in told[t] PROVE a \in Entries'
      <4>1. PICK x \in Reservations : Visible(t, x) = a
        BY DEF Inv, ToldIsVisible
      <4>2. row'[x] = a /\ a # NoRow
        BY <2>1, <4>1, Shapes DEF Inv, TypeOK
      <4> QED BY <4>2 DEF Entries
    <3> QED BY <3>1, <3>2
  <2> QED BY <2>2, <2>3, <2>4, <2>5, <2>6 DEF Register!Enter, Register!Added, Entries, NextNumbers
<1> QED BY <1>2, <1>3, <1>4 DEF Next

\* To begin with, the register is empty and every series at its first number.
LEMMA RegisterInit == Init => Register!Init
<1> SUFFICES ASSUME Init PROVE Register!Init
  OBVIOUS
<1>1. \A x \in Reservations : row[x] = NoRow
  BY Shapes DEF Init
<1>2. \A s \in Series : row[s].next = First[s]
  BY Shapes DEF Init
<1>3. [s \in Series |-> row[s].next] = First
  BY <1>2, SeriesAssumption
<1> QED BY <1>1, <1>3 DEF Init, Register!Init

\* Whatever overlaps, is repeated or rolled back, the committed reservations
\* are a register that grows by the next numbers and never changes otherwise.
THEOREM Refinement == Spec => ImplementsRegister
<1>1. Spec => []Inv /\ []GaplessSeries
  BY InvHolds, GaplessSeriesHolds, PTL
<1> QED BY <1>1, RegisterInit, RegisterStep, PTL DEF Spec, ImplementsRegister, Register!Spec
=============================================================================
