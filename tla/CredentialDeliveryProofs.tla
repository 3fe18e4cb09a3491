---------------------- MODULE CredentialDeliveryProofs ----------------------
(* The invariants of the credential bundle schema for any number of          *)
(* transactions, principals, bundles, deliveries and secrets.                *)
EXTENDS CredentialDelivery, TLAPS

\* A version of a row lies in the table its key belongs to.
LEMMA VersionShapes ==
    /\ \A x \in Bundles : RowsOf(x) = BundleRows
    /\ \A x \in Deliveries : RowsOf(x) = DeliveryRows
    /\ \A x \in Secrets : RowsOf(x) = SecretRows
    /\ \A x \in Principals : RowsOf(x) = AssignmentRows
BY SchemaAssumption DEF RowsOf

\* What a fresh row looks like.
LEMMA DefaultShape ==
    ASSUME NEW x \in Ids \ Principals
    PROVE  Default(x) \in RowsOf(x)
<1>1. CASE x \in Bundles
  BY <1>1, VersionShapes, SchemaAssumption DEF Default, BundleRows, ReadyEvidence, Evidence
<1>2. CASE x \in Deliveries
  <2>1. Default(x) = [state |-> "ISSUED", downloads |-> 0]
    BY <1>2, SchemaAssumption DEF Default
  <2>2. 0 \in 0 .. MaxDownloads
    BY SchemaAssumption
  <2>3. Default(x) \in DeliveryRows
    BY <2>1, <2>2 DEF DeliveryRows
  <2> QED BY <2>3, <1>2, VersionShapes
<1>3. CASE x \in Secrets
  BY <1>3, VersionShapes, SchemaAssumption DEF Default, SecretRows
<1> QED BY <1>1, <1>2, <1>3, SchemaAssumption

\* A row of some table is a version of it.
LEMMA RowsAreVersions ==
    ASSUME NEW x \in Ids, NEW r \in RowsOf(x)
    PROVE  r \in Versions(x) /\ r \in AllVersions /\ r # NoRow
BY NoRowAssumption, VersionShapes, SchemaAssumption DEF Versions, AllVersions, AllRows

\* A row version that exists is a row of its table.
LEMMA ExistingIsRow ==
    ASSUME TypeOK, NEW x \in Ids, NEW t \in Transactions
    PROVE  /\ row[x] # NoRow => row[x] \in RowsOf(x)
           /\ draft[x] # NoRow => draft[x] \in RowsOf(x)
           /\ Visible(t, x) # NoRow => Visible(t, x) \in RowsOf(x)
BY DEF TypeOK, Versions, Visible

\* Nothing is open or pending in an empty database.
LEMMA InitInv == Init => Inv
<1> SUFFICES ASSUME Init PROVE Inv
  OBVIOUS
<1>1. \A x \in Ids : row[x] \in Versions(x) /\ draft[x] = NoRow /\ writer[x] = NoOne
  BY VersionShapes, SchemaAssumption DEF Init, Versions
<1>2. TypeOK
  <2>1. row \in [Ids -> AllVersions]
    BY <1>1, SchemaAssumption DEF Init, AllVersions
  <2>2. draft \in [Ids -> AllVersions]
    BY DEF Init, AllVersions, Versions
  <2>3. \A x \in Ids : row[x] \in Versions(x) /\ draft[x] \in Versions(x)
    BY <1>1 DEF Versions
  <2> QED BY <2>1, <2>2, <2>3 DEF TypeOK, Init
<1>3. DraftsFollowRows
  BY <1>1 DEF DraftsFollowRows
<1>4. \A x \in Ids : row[x] \in Current => x \in Principals
  BY NoRowAssumption DEF Init, Current
<1>5. KeysStayUnique
  BY <1>1, <1>4, NoRowAssumption, SchemaAssumption DEF KeysStayUnique, Rivals, Current
<1>6. SeenDeliveriesWereReady
  BY <1>1, SchemaAssumption, StoreAssumption DEF SeenDeliveriesWereReady, Visible, Init
<1> QED BY <1>2, <1>3, <1>5, <1>6 DEF Inv

\* Two rows are rivals or not, and both belong to one table.
LEMMA RivalsSymmetric ==
    ASSUME NEW x \in Ids, NEW y \in Rivals(x)
    PROVE  y \in Ids /\ y # x /\ x \in Rivals(y)
BY SchemaAssumption DEF Rivals

\* Writing a row that was mutable, with more evidence, a key that is free and,
\* for a delivery, a bundle that was ready.
LEMMA WriteKeepsInv ==
    ASSUME Inv, NEW t \in Transactions, NEW x \in Ids \ Principals, NEW new \in RowsOf(x),
           Lockable(t, x), Write(t, x, new),
           pending' = pending \/ pending' = [pending EXCEPT ![t] = NoOne],
           row[x] # NoRow => ~ Final(x, row[x]),
           x \in Bundles /\ row[x] # NoRow => row[x].evidence \subseteq new.evidence,
           x \in Bundles /\ Visible(t, x) # NoRow =>
               Visible(t, x).evidence \subseteq new.evidence,
           new \in Current => \A y \in Rivals(x) :
               draft[y] \notin Current /\ (row[y] \in Current => writer[y] = t),
           x \in Deliveries => WasReady(Visible(t, BundleOf[x]))
    PROVE  Inv'
<1>0. /\ TypeOK /\ DraftsFollowRows /\ KeysStayUnique /\ SeenDeliveriesWereReady
      /\ t # NoOne /\ new # NoRow /\ new \in Versions(x) /\ new \in AllVersions
  BY RowsAreVersions, StoreAssumption DEF Inv
<1>1. /\ row' = row
      /\ \A y \in Ids : draft'[y] = IF y = x THEN new ELSE draft[y]
      /\ \A y \in Ids : writer'[y] = IF y = x THEN t ELSE writer[y]
  BY <1>0 DEF Write, TypeOK
<1>2. TypeOK'
  <2>1. draft' \in [Ids -> AllVersions] /\ writer' \in [Ids -> Transactions \cup {NoOne}]
    BY <1>0 DEF Write, TypeOK
  <2>2. \A y \in Ids : row'[y] \in Versions(y) /\ draft'[y] \in Versions(y)
    BY <1>0, <1>1 DEF TypeOK
  <2>3. pending' \in [Transactions -> (Ids \ Principals) \cup {NoOne}]
    BY <1>0 DEF TypeOK
  <2> QED BY <2>1, <2>2, <2>3, <1>0, <1>1 DEF TypeOK
<1>3. DraftsFollowRows'
  BY <1>0, <1>1 DEF DraftsFollowRows
<1>4. KeysStayUnique'
  <2> SUFFICES ASSUME NEW y \in Ids, NEW z \in Rivals(y)
               PROVE  /\ ~ (row'[y] \in Current /\ row'[z] \in Current)
                      /\ draft'[y] \in Current =>
                            /\ draft'[z] \notin Current
                            /\ row'[z] \in Current => writer'[z] = writer'[y]
    BY DEF KeysStayUnique
  <2>1. z \in Ids /\ z # y /\ y \in Rivals(z)
    BY RivalsSymmetric
  <2>2. CASE y = x
    BY <2>1, <2>2, <1>0, <1>1 DEF KeysStayUnique
  <2>3. CASE z = x
    <3>1. draft[y] \in Current /\ row[x] \in Current => writer[x] = writer[y]
      BY <2>3, <1>0 DEF KeysStayUnique
    <3>2. draft[y] \in Current => new \notin Current
      BY <2>1, <2>3
    <3>3. draft[y] \in Current => writer[y] # NoOne
      BY <1>0, NoRowAssumption DEF DraftsFollowRows, Current
    <3>4. writer[x] \in {t, NoOne}
      BY DEF Lockable
    <3> QED BY <3>1, <3>2, <3>3, <3>4, <2>1, <2>3, <1>0, <1>1 DEF KeysStayUnique
  <2>4. CASE y # x /\ z # x
    BY <2>1, <2>4, <1>0, <1>1 DEF KeysStayUnique
  <2> QED BY <2>2, <2>3, <2>4
<1>5. SeenDeliveriesWereReady'
  <2> SUFFICES ASSUME NEW d \in Deliveries
               PROVE  /\ row'[d] # NoRow => WasReady(row'[BundleOf[d]])
                      /\ \A u \in Transactions :
                            (Visible(u, d))' # NoRow \/ pending'[u] = d =>
                                WasReady((Visible(u, BundleOf[d]))')
    BY <1>1 DEF SeenDeliveriesWereReady
  <2>0. d \in Ids /\ BundleOf[d] \in Bundles /\ BundleOf[d] \in Ids /\ BundleOf[d] # d
        /\ d \notin Bundles
    BY SchemaAssumption
  <2>1. row'[d] # NoRow => WasReady(row'[BundleOf[d]])
    BY <1>0, <1>1 DEF SeenDeliveriesWereReady
  <2>2. ASSUME NEW u \in Transactions, (Visible(u, d))' # NoRow \/ pending'[u] = d
        PROVE  WasReady((Visible(u, BundleOf[d]))')
    <3>1. WasReady(Visible(u, BundleOf[d]))
      <4>1. CASE u = t /\ d = x
        BY <4>1
      <4>2. CASE ~ (u = t /\ d = x)
        <5>1. (Visible(u, d))' # NoRow => Visible(u, d) # NoRow
          BY <4>2, <2>0, <1>0, <1>1, StoreAssumption DEF Visible, Lockable
        <5>2. pending'[u] = d => pending[u] = d
          BY <2>0, <1>0, StoreAssumption DEF TypeOK
        <5> QED BY <5>1, <5>2, <2>2, <1>0 DEF SeenDeliveriesWereReady
      <4> QED BY <4>1, <4>2
    <3>2. CASE BundleOf[d] = x /\ u = t
      <4>1. (Visible(u, BundleOf[d]))' = new
        BY <3>2, <2>0, <1>1 DEF Visible
      <4> QED BY <4>1, <3>1, <3>2, <2>0, <1>0 DEF WasReady
    <3>3. CASE ~ (BundleOf[d] = x /\ u = t)
      <4>1. (Visible(u, BundleOf[d]))' = Visible(u, BundleOf[d])
        BY <3>3, <2>0, <1>0, <1>1, StoreAssumption DEF Visible, Lockable
      <4> QED BY <4>1, <3>1
    <3> QED BY <3>2, <3>3
  <2> QED BY <2>1, <2>2
<1> QED BY <1>2, <1>3, <1>4, <1>5 DEF Inv

\* A trigger that passes makes the insertion pending and changes no row.
LEMMA BeginInsertKeepsInv ==
    ASSUME Inv, NEW t \in Transactions, NEW x \in Ids \ Principals, BeginInsert(t, x)
    PROVE  Inv'
<1>1. /\ row' = row /\ draft' = draft /\ writer' = writer
      /\ pending' = [pending EXCEPT ![t] = x]
  BY DEF BeginInsert, storeVars
<1>2. TypeOK' /\ DraftsFollowRows' /\ KeysStayUnique'
  BY <1>1 DEF Inv, TypeOK, DraftsFollowRows, KeysStayUnique
<1>3. x \in Deliveries => WasReady(Visible(t, BundleOf[x]))
  <2> SUFFICES ASSUME x \in Deliveries PROVE WasReady(Visible(t, BundleOf[x]))
    OBVIOUS
  <2>1. BundleIsReady(t, x) /\ BundleOf[x] \in Bundles /\ BundleOf[x] \in Ids
    BY SchemaAssumption DEF BeginInsert
  <2>2. Visible(t, BundleOf[x]) \in BundleRows
    BY <2>1, ExistingIsRow, VersionShapes DEF Inv, BundleIsReady
  <2> QED BY <2>1, <2>2 DEF BundleIsReady, WasReady, BundleRows, ReadyEvidence
<1>4. SeenDeliveriesWereReady'
  BY <1>1, <1>3, SchemaAssumption DEF Inv, TypeOK, SeenDeliveriesWereReady, Visible
<1> QED BY <1>2, <1>4 DEF Inv

\* The row enters the table when its key is free.
LEMMA FinishInsertKeepsInv ==
    ASSUME Inv, NEW t \in Transactions, FinishInsert(t)
    PROVE  Inv'
<1>1. PICK x \in Ids : /\ pending[t] = x
                       /\ MayWrite(t, x) /\ Visible(t, x) = NoRow
                       /\ KeyIsFree(t, x)
                       /\ Write(t, x, Default(x))
                       /\ pending' = [pending EXCEPT ![t] = NoOne]
  BY DEF FinishInsert
<1>2. x \in Ids \ Principals /\ Default(x) \in RowsOf(x)
  BY <1>1, DefaultShape, StoreAssumption DEF Inv, TypeOK
<1>3. row[x] = NoRow
  BY <1>1, NoRowAssumption, StoreAssumption
     DEF MayWrite, Lockable, Visible, Inv, DraftsFollowRows
<1>4. \A y \in Rivals(x) :
         draft[y] \notin Current /\ (row[y] \in Current => writer[y] = t)
  <2> SUFFICES ASSUME NEW y \in Rivals(x)
               PROVE  draft[y] \notin Current /\ (row[y] \in Current => writer[y] = t)
    OBVIOUS
  <2>1. y \in Ids
    BY RivalsSymmetric
  <2>2. writer[y] = NoOne => draft[y] \notin Current
    BY <2>1, NoRowAssumption DEF Inv, DraftsFollowRows, Current
  <2> QED BY <1>1, <2>1, <2>2 DEF KeyIsFree, FreeKey, Visible, Lockable
<1>5. x \in Deliveries => WasReady(Visible(t, BundleOf[x]))
  BY <1>1 DEF Inv, SeenDeliveriesWereReady
<1>6. Lockable(t, x)
  BY <1>1 DEF MayWrite
<1> QED BY <1>1, <1>2, <1>3, <1>4, <1>5, <1>6, WriteKeepsInv

\* A row a trigger lets change is in the index of its table.
LEMMA MutableIsCurrent ==
    ASSUME NEW x \in Ids \ Principals, NEW r \in RowsOf(x), Mutable(x, r)
    PROVE  r \in Current /\ ~ Final(x, r)
<1>1. CASE x \in Bundles
  BY <1>1, VersionShapes, SchemaAssumption DEF Mutable, Current, AllRows, BundleRows, Final, Terminal
<1>2. CASE x \in Deliveries
  BY <1>2, VersionShapes, SchemaAssumption DEF Mutable, Current, AllRows, DeliveryRows, Final, Terminal
<1>3. CASE x \in Secrets
  BY <1>3, VersionShapes, SchemaAssumption DEF Mutable, Current, AllRows, SecretRows, Final, Terminal
<1> QED BY <1>1, <1>2, <1>3, SchemaAssumption

\* An update starts from a row that was current, so its key stays its own.
LEMMA UpdateKeepsInv ==
    ASSUME Inv, NEW t \in Transactions, NEW x \in Ids \ Principals, Update(t, x)
    PROVE  Inv'
<1> DEFINE old == Visible(t, x)
<1>1. PICK new \in RowsOf(x) :
         /\ x \in Bundles => BundleTransition(t, x, old, new)
         /\ Write(t, x, new)
  BY DEF Update
<1>2. /\ Lockable(t, x) /\ old # NoRow /\ Mutable(x, old) /\ pending' = pending
  BY DEF Update, MayWrite
<1>3. old \in RowsOf(x)
  BY <1>2, ExistingIsRow DEF Inv
<1>4. old \in Current /\ ~ Final(x, old)
  BY <1>2, <1>3, MutableIsCurrent
<1>5. row[x] # NoRow => ~ Final(x, row[x])
  BY <1>2, <1>4 DEF Inv, DraftsFollowRows, Visible, Lockable
<1>6. x \in Bundles => old.evidence \subseteq new.evidence
  BY <1>1 DEF BundleTransition, EvidenceStays
<1>7. x \in Bundles /\ row[x] # NoRow => row[x].evidence \subseteq new.evidence
  <2>1. CASE writer[x] = NoOne
    BY <2>1, <1>6, StoreAssumption DEF Visible
  <2>2. CASE writer[x] = t
    BY <2>2, <1>6, StoreAssumption DEF Visible, Inv, DraftsFollowRows
  <2> QED BY <2>1, <2>2, <1>2 DEF Lockable
<1>8. \A y \in Rivals(x) :
         draft[y] \notin Current /\ (row[y] \in Current => writer[y] = t)
  <2> SUFFICES ASSUME NEW y \in Rivals(x)
               PROVE  draft[y] \notin Current /\ (row[y] \in Current => writer[y] = t)
    OBVIOUS
  <2>1. y \in Ids /\ x \in Rivals(y)
    BY RivalsSymmetric
  <2>2. KeysStayUnique /\ DraftsFollowRows
    BY DEF Inv
  <2>3. CASE writer[x] = t
    <3>1. old = draft[x]
      BY <2>3 DEF Visible
    <3> QED BY <3>1, <2>1, <2>2, <2>3, <1>4 DEF KeysStayUnique
  <2>4. CASE writer[x] = NoOne
    <3>1. old = row[x]
      BY <2>4, StoreAssumption DEF Visible
    <3>2. writer[y] = NoOne => draft[y] \notin Current
      BY <2>1, <2>2, NoRowAssumption DEF DraftsFollowRows, Current
    <3> QED BY <3>1, <3>2, <2>1, <2>2, <2>4, <1>4 DEF KeysStayUnique
  <2> QED BY <2>3, <2>4, <1>2 DEF Lockable
<1>9. x \in Deliveries => WasReady(Visible(t, BundleOf[x]))
  BY <1>2 DEF Inv, SeenDeliveriesWereReady
<1> HIDE DEF old
<1>10. Visible(t, x) = old
  BY DEF old
<1> QED BY <1>1, <1>2, <1>5, <1>6, <1>7, <1>8, <1>9, <1>10, WriteKeepsInv

\* Changing who is active touches no index and no bundle.
LEMMA ChangeAssignmentKeepsInv ==
    ASSUME Inv, NEW p \in Principals, ChangeAssignment(p)
    PROVE  Inv'
<1>1. PICK new \in AssignmentRows : row' = [row EXCEPT ![p] = new]
  BY DEF ChangeAssignment
<1>2. draft' = draft /\ writer' = writer /\ pending' = pending /\ p \in Ids
  BY SchemaAssumption DEF ChangeAssignment
<1>3. /\ TypeOK /\ DraftsFollowRows /\ KeysStayUnique /\ SeenDeliveriesWereReady
  BY DEF Inv
<1>4. new \in Versions(p) /\ new \in AllVersions
  BY <1>2, VersionShapes, RowsAreVersions
<1>5. \A y \in Ids : y \notin Principals => row'[y] = row[y]
  BY <1>1, <1>2, <1>3 DEF TypeOK
<1>6. TypeOK'
  <2>1. row' \in [Ids -> AllVersions]
    BY <1>1, <1>3, <1>4 DEF TypeOK
  <2>2. \A y \in Ids : row'[y] \in Versions(y) /\ draft'[y] \in Versions(y)
    BY <1>1, <1>2, <1>3, <1>4 DEF TypeOK
  <2> QED BY <2>1, <2>2, <1>2, <1>3 DEF TypeOK
<1>7. DraftsFollowRows'
  BY <1>2, <1>3, <1>5, SchemaAssumption DEF DraftsFollowRows, Final
<1>8. KeysStayUnique'
  BY <1>2, <1>3, <1>5, SchemaAssumption DEF KeysStayUnique, Rivals
<1>9. SeenDeliveriesWereReady'
  BY <1>2, <1>3, <1>5, SchemaAssumption DEF SeenDeliveriesWereReady, Visible
<1> QED BY <1>6, <1>7, <1>8, <1>9 DEF Inv

\* A commit makes committed what its transaction saw.
LEMMA CommitKeepsInv ==
    ASSUME Inv, NEW t \in Transactions, Commit(t)
    PROVE  Inv'
<1>0. /\ TypeOK /\ DraftsFollowRows /\ KeysStayUnique /\ SeenDeliveriesWereReady
      /\ t # NoOne
  BY StoreAssumption DEF Inv
<1>1. /\ \A y \in Ids : row'[y] = IF writer[y] = t THEN draft[y] ELSE row[y]
      /\ \A y \in Ids : draft'[y] = IF writer[y] = t THEN NoRow ELSE draft[y]
      /\ \A y \in Ids : writer'[y] = IF writer[y] = t THEN NoOne ELSE writer[y]
      /\ pending' = pending
  BY DEF Commit, Publish, Forget, Visible
<1>2. TypeOK'
  <2>1. \A y \in Ids : row'[y] \in Versions(y) /\ draft'[y] \in Versions(y)
    BY <1>0, <1>1 DEF TypeOK, Versions
  <2>2. row' \in [Ids -> AllVersions] /\ draft' \in [Ids -> AllVersions]
    BY <2>1, <1>1 DEF Commit, Publish, Forget, AllVersions
  <2>3. writer' \in [Ids -> Transactions \cup {NoOne}]
    BY <1>0 DEF Commit, Forget, TypeOK
  <2> QED BY <2>1, <2>2, <2>3, <1>0, <1>1 DEF TypeOK
<1>3. DraftsFollowRows'
  BY <1>0, <1>1 DEF DraftsFollowRows
<1>4. KeysStayUnique'
  <2> SUFFICES ASSUME NEW y \in Ids, NEW z \in Rivals(y)
               PROVE  /\ ~ (row'[y] \in Current /\ row'[z] \in Current)
                      /\ draft'[y] \in Current =>
                            /\ draft'[z] \notin Current
                            /\ row'[z] \in Current => writer'[z] = writer'[y]
    BY DEF KeysStayUnique
  <2>1. z \in Ids /\ y \in Rivals(z) /\ NoRow \notin Current
    BY RivalsSymmetric, NoRowAssumption DEF Current
  <2>2. /\ ~ (row[y] \in Current /\ row[z] \in Current)
        /\ draft[y] \in Current =>
              draft[z] \notin Current /\ (row[z] \in Current => writer[z] = writer[y])
        /\ draft[z] \in Current =>
              draft[y] \notin Current /\ (row[y] \in Current => writer[y] = writer[z])
    BY <2>1, <1>0 DEF KeysStayUnique
  <2> QED BY <2>1, <2>2, <1>1
<1>5. SeenDeliveriesWereReady'
  <2> SUFFICES ASSUME NEW d \in Deliveries
               PROVE  /\ row'[d] # NoRow => WasReady(row'[BundleOf[d]])
                      /\ \A u \in Transactions :
                            (Visible(u, d))' # NoRow \/ pending'[u] = d =>
                                WasReady((Visible(u, BundleOf[d]))')
    BY <1>1 DEF SeenDeliveriesWereReady
  <2> DEFINE b == BundleOf[d]
  <2>0. d \in Ids /\ b \in Bundles /\ b \in Ids
    BY SchemaAssumption
  <2>1. row'[d] = Visible(t, d) /\ row'[b] = Visible(t, b)
    BY <2>0, <1>1 DEF Visible
  <2>2. row'[d] # NoRow => WasReady(row'[b])
    BY <2>1, <1>0 DEF SeenDeliveriesWereReady
  <2>3. WasReady(row[b]) /\ writer[b] # NoOne => WasReady(draft[b])
    BY <2>0, <1>0 DEF DraftsFollowRows, WasReady
  <2> HIDE DEF b
  <2>4. ASSUME NEW u \in Transactions, (Visible(u, d))' # NoRow \/ pending'[u] = d
        PROVE  WasReady((Visible(u, b))')
    <3>0. u # NoOne
      BY StoreAssumption
    <3>1. CASE Visible(u, d) # NoRow \/ pending[u] = d
      <4>1. WasReady(Visible(u, b))
        BY <3>1, <1>0 DEF SeenDeliveriesWereReady, b
      <4> QED BY <4>1, <3>0, <2>0, <2>3, <1>0, <1>1 DEF Visible
    <3>2. CASE Visible(u, d) = NoRow /\ pending[u] # d
      <4>1. (Visible(u, d))' = row'[d] /\ row'[d] # NoRow
        BY <3>2, <3>0, <2>0, <2>4, <1>0, <1>1 DEF Visible
      <4>2. WasReady(Visible(t, b))
        BY <4>1, <2>1, <2>2
      <4> QED BY <4>2, <3>0, <2>0, <2>3, <1>0, <1>1 DEF Visible
    <3> QED BY <3>1, <3>2
  <2> QED BY <2>2, <2>4 DEF b
<1> QED BY <1>2, <1>3, <1>4, <1>5 DEF Inv

\* A rollback leaves what was committed before, which others see already.
LEMMA RollbackKeepsInv ==
    ASSUME Inv, NEW t \in Transactions, Rollback(t)
    PROVE  Inv'
<1>0. /\ TypeOK /\ DraftsFollowRows /\ KeysStayUnique /\ SeenDeliveriesWereReady
      /\ t # NoOne
  BY StoreAssumption DEF Inv
<1>1. /\ row' = row
      /\ \A y \in Ids : draft'[y] = IF writer[y] = t THEN NoRow ELSE draft[y]
      /\ \A y \in Ids : writer'[y] = IF writer[y] = t THEN NoOne ELSE writer[y]
      /\ pending' = [pending EXCEPT ![t] = NoOne]
  BY DEF Rollback, Forget
<1>2. TypeOK'
  <2>1. \A y \in Ids : row'[y] \in Versions(y) /\ draft'[y] \in Versions(y)
    BY <1>0, <1>1 DEF TypeOK, Versions
  <2>2. draft' \in [Ids -> AllVersions]
    BY <2>1, <1>1 DEF Rollback, Forget, AllVersions
  <2>3. writer' \in [Ids -> Transactions \cup {NoOne}]
    BY <1>0 DEF Rollback, Forget, TypeOK
  <2>4. pending' \in [Transactions -> (Ids \ Principals) \cup {NoOne}]
    BY <1>0, <1>1 DEF TypeOK
  <2> QED BY <2>1, <2>2, <2>3, <2>4, <1>0, <1>1 DEF TypeOK
<1>3. DraftsFollowRows'
  BY <1>0, <1>1 DEF DraftsFollowRows
<1>4. KeysStayUnique'
  <2> SUFFICES ASSUME NEW y \in Ids, NEW z \in Rivals(y)
               PROVE  /\ ~ (row'[y] \in Current /\ row'[z] \in Current)
                      /\ draft'[y] \in Current =>
                            /\ draft'[z] \notin Current
                            /\ row'[z] \in Current => writer'[z] = writer'[y]
    BY DEF KeysStayUnique
  <2>1. z \in Ids /\ NoRow \notin Current
    BY RivalsSymmetric, NoRowAssumption DEF Current
  <2> QED BY <2>1, <1>0, <1>1 DEF KeysStayUnique
<1>5. SeenDeliveriesWereReady'
  <2> SUFFICES ASSUME NEW d \in Deliveries
               PROVE  /\ row'[d] # NoRow => WasReady(row'[BundleOf[d]])
                      /\ \A u \in Transactions :
                            (Visible(u, d))' # NoRow \/ pending'[u] = d =>
                                WasReady((Visible(u, BundleOf[d]))')
    BY <1>1 DEF SeenDeliveriesWereReady
  <2>0. d \in Ids /\ BundleOf[d] \in Ids /\ d # NoOne
    BY SchemaAssumption, StoreAssumption
  <2>1. row'[d] # NoRow => WasReady(row'[BundleOf[d]])
    BY <1>0, <1>1 DEF SeenDeliveriesWereReady
  <2>2. ASSUME NEW u \in Transactions, (Visible(u, d))' # NoRow \/ pending'[u] = d
        PROVE  WasReady((Visible(u, BundleOf[d]))')
    <3>0. u # NoOne
      BY StoreAssumption
    <3>1. CASE u = t
      <4>1. \A y \in Ids : (Visible(u, y))' = row[y]
        BY <3>1, <3>0, <1>1 DEF Visible
      <4>2. pending'[u] # d
        BY <3>1, <2>0, <1>0, <1>1 DEF TypeOK
      <4> QED BY <4>1, <4>2, <2>0, <2>1, <2>2, <1>1
    <3>2. CASE u # t
      <4>1. \A y \in Ids : (Visible(u, y))' = Visible(u, y)
        BY <3>2, <3>0, <1>1 DEF Visible
      <4>2. pending'[u] = pending[u]
        BY <3>2, <1>0, <1>1 DEF TypeOK
      <4> QED BY <4>1, <4>2, <2>0, <2>2, <1>0 DEF SeenDeliveriesWereReady
    <3> QED BY <3>1, <3>2
  <2> QED BY <2>1, <2>2
<1> QED BY <1>2, <1>3, <1>4, <1>5 DEF Inv

\* A step that changes nothing keeps everything.
LEMMA StutterKeepsInv == Inv /\ UNCHANGED vars => Inv'
BY DEF vars, Inv, TypeOK, DraftsFollowRows, KeysStayUnique, SeenDeliveriesWereReady, Visible

LEMMA NextKeepsInv == Inv /\ [Next]_vars => Inv'
<1> SUFFICES ASSUME Inv, [Next]_vars PROVE Inv'
  OBVIOUS
<1>1. ASSUME NEW p \in Principals, ChangeAssignment(p) PROVE Inv'
  BY <1>1, ChangeAssignmentKeepsInv
<1>2. ASSUME NEW t \in Transactions, NEW x \in Ids \ Principals, BeginInsert(t, x) PROVE Inv'
  BY <1>2, BeginInsertKeepsInv
<1>3. ASSUME NEW t \in Transactions, NEW x \in Ids \ Principals, Update(t, x) PROVE Inv'
  BY <1>3, UpdateKeepsInv
<1>4. ASSUME NEW t \in Transactions, FinishInsert(t) PROVE Inv'
  BY <1>4, FinishInsertKeepsInv
<1>5. ASSUME NEW t \in Transactions, Commit(t) PROVE Inv'
  BY <1>5, CommitKeepsInv
<1>6. ASSUME NEW t \in Transactions, Rollback(t) PROVE Inv'
  BY <1>6, RollbackKeepsInv
<1>7. CASE UNCHANGED vars
  BY <1>7, StutterKeepsInv
<1> QED BY <1>1, <1>2, <1>3, <1>4, <1>5, <1>6, <1>7 DEF Next

\* The invariant holds for any number of concurrent transactions.
THEOREM InvHolds == Spec => []Inv
<1> QED BY InitInv, NextKeepsInv, PTL DEF Spec

\* The readers' errors about multiple active records are unreachable.
THEOREM ReadersFindAtMostOneHolds == Spec => []ReadersFindAtMostOne
<1>1. Inv => ReadersFindAtMostOne
  <2> SUFFICES ASSUME Inv PROVE ReadersFindAtMostOne
    OBVIOUS
  <2>1. \A x \in Ids \ Principals :
           row[x] # NoRow /\ row[x].state \in {"READY", "ISSUED", "ACTIVE"} => row[x] \in Current
    BY VersionShapes, SchemaAssumption DEF Inv, TypeOK, Versions, Current, AllRows
  <2>2. \A x \in Ids : \A y \in Rivals(x) : ~ (row[x] \in Current /\ row[y] \in Current)
    BY DEF Inv, KeysStayUnique
  <2>3. [state |-> "ACTIVE"] \in Current
    BY DEF Current, AllRows, SecretRows, AssignmentRows
  <2>4. \A p \in Principals : \A a, b \in ReadyBundles(p) : a = b
    BY <2>1, <2>2, SchemaAssumption DEF ReadyBundles, Rivals
  <2>5. \A b \in Bundles : \A d, e \in IssuedDeliveries(b) : d = e
    BY <2>1, <2>2, SchemaAssumption DEF IssuedDeliveries, Rivals
  <2>6. \A b \in Bundles : \A s, u \in ActiveSecrets(b) : s = u
    BY <2>2, <2>3, SchemaAssumption DEF ActiveSecrets, Rivals
  <2> QED BY <2>4, <2>5, <2>6 DEF ReadersFindAtMostOne
<1> QED BY <1>1, InvHolds, PTL

\* Every committed delivery belongs to a bundle that was verified and ready.
THEOREM DeliveriesWereReadyHolds == Spec => []DeliveriesWereReady
<1>1. Inv => DeliveriesWereReady
  <2> SUFFICES ASSUME Inv, NEW d \in Deliveries, row[d] # NoRow
               PROVE  row[BundleOf[d]] # NoRow /\ row[BundleOf[d]].evidence = Evidence
    BY DEF DeliveriesWereReady
  <2>1. WasReady(row[BundleOf[d]])
    BY DEF Inv, SeenDeliveriesWereReady
  <2>2. BundleOf[d] \in Bundles /\ BundleOf[d] \in Ids
    BY SchemaAssumption
  <2>3. row[BundleOf[d]] \in BundleRows
    BY <2>1, <2>2, VersionShapes DEF Inv, TypeOK, Versions, WasReady
  <2> QED BY <2>1, <2>3 DEF WasReady, BundleRows, ReadyEvidence
<1> QED BY <1>1, InvHolds, PTL

\* What is terminal stays, and evidence is never lost.
THEOREM TerminalIsFinalHolds == Spec => TerminalIsFinal
<1> DEFINE Kept == \A x \in Ids : row[x] # NoRow =>
          /\ row'[x] # NoRow
          /\ Final(x, row[x]) => row'[x] = row[x]
          /\ x \in Bundles => row[x].evidence \subseteq row'[x].evidence
<1>1. Inv /\ [Next]_vars => [Kept]_vars
  <2> SUFFICES ASSUME Inv, Next PROVE Kept
    BY DEF vars
  <2>1. ASSUME row' = row PROVE Kept
    BY <2>1
  <2>2. ASSUME NEW p \in Principals, ChangeAssignment(p) PROVE Kept
    <3>1. PICK new \in AssignmentRows : row' = [row EXCEPT ![p] = new]
      BY <2>2 DEF ChangeAssignment
    <3>2. new # NoRow
      BY NoRowAssumption DEF AllRows
    <3>3. \A x \in Ids : row'[x] = IF x = p THEN new ELSE row[x]
      BY <3>1 DEF Inv, TypeOK
    <3> QED BY <3>2, <3>3, SchemaAssumption DEF Final
  <2>3. ASSUME NEW t \in Transactions, Commit(t) PROVE Kept
    <3>1. \A x \in Ids : row'[x] = IF writer[x] = t THEN draft[x] ELSE row[x]
      BY <2>3 DEF Commit, Publish, Visible
    <3> QED BY <3>1, StoreAssumption DEF Inv, DraftsFollowRows
  <2>4. ASSUME NEW t \in Transactions, NEW x \in Ids \ Principals,
               BeginInsert(t, x) \/ Update(t, x)
        PROVE  row' = row
    BY <2>4 DEF BeginInsert, Update, storeVars, Write
  <2>5. ASSUME NEW t \in Transactions, FinishInsert(t) \/ Rollback(t) PROVE row' = row
    BY <2>5 DEF FinishInsert, Rollback, Write
  <2> HIDE DEF Kept
  <2> QED BY <2>1, <2>2, <2>3, <2>4, <2>5 DEF Next
<1> QED BY <1>1, InvHolds, PTL DEF Spec, TerminalIsFinal
=============================================================================
