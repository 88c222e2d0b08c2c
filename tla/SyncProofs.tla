----------------------------- MODULE SyncProofs -----------------------------
(***************************************************************************)
(* The synchronisation of a shop: for any number of syncs, products, days, *)
(* orders and pages, the plan the workers read is never changed, and a     *)
(* sync nothing ran beside leaves in the tables what the shop has.         *)
(***************************************************************************)
EXTENDS PlatformSync, FiniteSetTheorems, TLAPS

(* Numbers and finite sets *)

\* Every nonempty set of numbers has a least one.
LEMMA LeastNat ==
  ASSUME NEW T \in SUBSET Nat, T # {}
  PROVE  \E x \in T : \A y \in T : x <= y
<1>1. PICK x \in T : \A y \in T : ~ (<<y, x>> \in OpToRel(<, Nat))
  BY NatLessThanWellFounded, WFMin
<1>2. ASSUME NEW y \in T, ~ (x <= y) PROVE FALSE
  <2>1. <<y, x>> \in Nat \X Nat /\ y < x
    BY <1>2
  <2>2. <<y, x>> \in OpToRel(<, Nat)
    BY <2>1 DEF OpToRel
  <2>. QED  BY <1>1, <2>2
<1>. QED  BY <1>2

\* A nonempty set of days has a last one.
LEMMA MaxIs ==
  ASSUME NEW S \in SUBSET Days, S # {}
  PROVE  Max(S) \in S /\ \A d \in S : d <= Max(S)
<1>. DEFINE Left == {LastDay - d : d \in S}
<1>1. Left \in SUBSET Nat /\ Left # {}
  <2>1. \A d \in S : LastDay - d \in Nat
    BY BoundsAssumption DEF Days
  <2>. QED  BY <2>1
<1>2. PICK x \in Left : \A y \in Left : x <= y
  <2>. HIDE DEF Left
  <2>. QED  BY <1>1, LeastNat
<1>3. PICK m \in S : x = LastDay - m
  BY <1>2
<1>4. ASSUME NEW d \in S PROVE m >= d
  <2>1. LastDay - m <= LastDay - d
    BY <1>2, <1>3
  <2>. QED  BY <2>1, BoundsAssumption DEF Days
<1>5. \E y \in S : \A d \in S : y >= d
  BY <1>3, <1>4
<1>6. Max(S) \in S /\ \A d \in S : Max(S) >= d
  <2>. HIDE DEF Left
  <2>. QED  BY <1>5 DEF Max
<1>. QED  BY <1>6 DEF Days

\* The orders a shop can have are finitely many.
LEMMA OrdersFinite == IsFiniteSet(Orders)
<1>. DEFINE T == (Skus \X Days) \X (1..PerDay)
            f == [o \in Orders |-> <<<<o.sku, o.day>>, o.no>>]
<1>1. IsFiniteSet(Days) /\ IsFiniteSet(1..PerDay)
  BY BoundsAssumption, FS_Interval DEF Days
<1>2. IsFiniteSet(Skus \X Days)
  BY <1>1, SkusAssumption, FS_Product
<1>3. IsFiniteSet(T)
  BY <1>1, <1>2, FS_Product
<1>4. f \in [Orders -> T]
  BY DEF Orders
<1>5. ASSUME NEW a \in Orders, NEW b \in Orders, f[a] = f[b] PROVE a = b
  BY <1>5 DEF Orders
<1>6. f \in Injection(Orders, T)
  <2>. HIDE DEF T, f
  <2>. QED  BY <1>4, <1>5 DEF Injection, IsInjective
<1>. QED
  <2>. HIDE DEF T, f
  <2>. QED  BY <1>3, <1>6, FS_Injection

\* Disjoint sets add up.
LEMMA AddUp ==
  ASSUME NEW S, NEW T, IsFiniteSet(S), IsFiniteSet(T), S \cap T = {}
  PROVE  Cardinality(S \cup T) = Cardinality(S) + Cardinality(T)
<1>1. Cardinality(S \cap T) = 0
  BY FS_EmptySet
<1>2. Cardinality(S) \in Nat /\ Cardinality(T) \in Nat
  BY FS_CardinalityType
<1>3. Cardinality(S \cup T) = Cardinality(S) + Cardinality(T) - Cardinality(S \cap T)
  BY FS_Union
<1>. QED  BY <1>1, <1>2, <1>3

----------------------------------------------------------------------------
(* Rows and writes *)

WriteType == [key : Keys, value : Nat \cup Plans, insert : BOOLEAN]

\* The plan the workers read.
Current(s) == rows[Plan(s, Newest(s))]

\* A snapshot and its plan come together.
RowsInv ==
  \A s \in Known, d \in Days : rows[Plan(s, d)] = Nil <=> rows[Stock(s, d)] = Nil

\* What a session holds: one value for a key; a new snapshot with its plan, and
\* a plan only for a new snapshot, that of the snapshot the workers read.
WritesInv(p) ==
  /\ pc[p] \notin {"stage_sales", "commit"} => writes[p] = {}
  /\ \A w, x \in writes[p] : w.key = x.key => w = x
  /\ \A w \in writes[p] : w.insert \/ rows[w.key] # Nil
  /\ \A s \in Known, d \in Days, w \in writes[p] :
       /\ w.key = Stock(s, d) =>
            /\ Snapshots(s) # {}
            /\ w.insert => \E x \in writes[p] : x.key = Plan(s, d)
       /\ w.key = Plan(s, d) =>
            /\ w.insert /\ Snapshots(s) # {} /\ w.value = Current(s)
            /\ \E x \in writes[p] : x.key = Stock(s, d) /\ x.insert
       /\ pc[p] = "stage_sales" => w.key # Sales(s, d)

SInv == TypeOK /\ RowsInv /\ \A p \in Syncs : WritesInv(p)

\* A key is of one kind, product and day.
LEMMA KeyIs ==
  ASSUME NEW s \in Known, NEW d \in Days
  PROVE  /\ {Product(s), Sales(s, d), Stock(s, d), Plan(s, d)} \subseteq Keys
         /\ \A t \in Known, e \in Days :
              /\ Product(s) = Product(t) => s = t
              /\ Sales(s, d) = Sales(t, e) => s = t /\ d = e
              /\ Stock(s, d) = Stock(t, e) => s = t /\ d = e
              /\ Plan(s, d) = Plan(t, e) => s = t /\ d = e
              /\ Product(s) \notin {Sales(t, e), Stock(t, e), Plan(t, e)}
              /\ Sales(s, d) \notin {Stock(t, e), Plan(t, e)}
              /\ Stock(s, d) # Plan(t, e)
<1>. DEFINE B == {{Sales(t, e), Stock(t, e), Plan(t, e)} : t \in Known, e \in Days}
<1>1. Product(s) \in {Product(t) : t \in Known}
  OBVIOUS
<1>2. {Sales(s, d), Stock(s, d), Plan(s, d)} \in B
  OBVIOUS
<1>3. {Sales(s, d), Stock(s, d), Plan(s, d)} \subseteq UNION B
  <2>. HIDE DEF B
  <2>. QED  BY <1>2
<1>4. {Product(s), Sales(s, d), Stock(s, d), Plan(s, d)} \subseteq Keys
  BY <1>1, <1>3 DEF Keys
<1>. QED  BY <1>4 DEF Product, Sales, Stock, Plan

\* Every key is one of these.
LEMMA KeyKinds ==
  ASSUME NEW k \in Keys
  PROVE  \E s \in Known : \/ k = Product(s)
                          \/ \E d \in Days : k \in {Sales(s, d), Stock(s, d), Plan(s, d)}
BY DEF Keys

\* The newest snapshot is one, and none is newer.
LEMMA NewestIs ==
  ASSUME NEW s \in Known, Snapshots(s) # {}
  PROVE  /\ Newest(s) \in Snapshots(s) /\ Newest(s) \in Days
         /\ \A d \in Snapshots(s) : d <= Newest(s)
<1>1. Snapshots(s) \in SUBSET Days
  BY DEF Snapshots
<1>. QED  BY <1>1, MaxIs DEF Newest

\* A write is an insert where there is no row.
LEMMA WriteIs ==
  ASSUME TypeOK, NEW k \in Keys, NEW v \in Nat \cup Plans
  PROVE  /\ Write(k, v) \in WriteType
         /\ Write(k, v).key = k /\ Write(k, v).value = v
         /\ Write(k, v).insert <=> rows[k] = Nil
<1>1. (rows[k] = Nil) \in BOOLEAN
  OBVIOUS
<1>2. Write(k, v) \in WriteType
  BY <1>1 DEF Write, WriteType
<1>3. Write(k, v).insert <=> rows[k] = Nil
  BY Zenon DEF Write
<1>. QED  BY <1>2, <1>3 DEF Write

\* What is written of an offer: the product, and a stock with, in a new
\* snapshot, the plan that is read now.
OfferWrite(p, s, w) ==
  \/ w = Write(Product(s), offers[p][s])
  \/ /\ Snapshots(s) # {}
     /\ \/ w = Write(Stock(s, SnapshotDay(p)), offers[p][s])
        \/ /\ rows[Stock(s, SnapshotDay(p))] = Nil
           /\ w = Write(Plan(s, SnapshotDay(p)), Current(s))

Offered(p) == {s \in Known : offers[p][s] > 0}
OffersOf(p) == UNION {OfferWrites(p, s) : s \in Offered(p)}

\* That is all.
LEMMA OffersOfIs ==
  ASSUME NEW p \in Syncs, NEW w
  PROVE  w \in OffersOf(p) <=> \E s \in Offered(p) : OfferWrite(p, s, w)
<1>1. ASSUME NEW s PROVE w \in OfferWrites(p, s) <=> OfferWrite(p, s, w)
  BY DEF OfferWrites, OfferWrite, SnapshotWrites, NewPlan, Current
<1>. HIDE DEF OfferWrite
<1>. QED  BY <1>1, Zenon DEF OffersOf

\* Such a write is well-formed, and an insert where there is no row.
LEMMA OfferWriteIs ==
  ASSUME SInv, NEW p \in Syncs, NEW s \in Offered(p), NEW w, OfferWrite(p, s, w)
  PROVE  /\ s \in Known /\ SnapshotDay(p) \in Days
         /\ w \in WriteType /\ (w.insert <=> rows[w.key] = Nil)
         /\ \/ w.key = Product(s) /\ w.value = offers[p][s]
            \/ /\ Snapshots(s) # {}
               /\ \/ w.key = Stock(s, SnapshotDay(p)) /\ w.value = offers[p][s]
                  \/ /\ rows[Stock(s, SnapshotDay(p))] = Nil
                     /\ w.key = Plan(s, SnapshotDay(p)) /\ w.value = Current(s) /\ w.insert
<1>1. TypeOK /\ s \in Known /\ s \in Skus
  BY SkusAssumption DEF SInv, Offered
<1>2. SnapshotDay(p) \in Days
  BY <1>1 DEF TypeOK, SnapshotDay, Windows
<1>3. offers[p][s] \in Nat
  BY <1>1, BoundsAssumption DEF TypeOK
<1>4. {Product(s), Stock(s, SnapshotDay(p)), Plan(s, SnapshotDay(p))} \subseteq Keys
  BY <1>1, <1>2, KeyIs
<1>5. CASE w = Write(Product(s), offers[p][s])
  BY <1>1, <1>2, <1>3, <1>4, <1>5, WriteIs
<1>6. CASE Snapshots(s) # {} /\ w = Write(Stock(s, SnapshotDay(p)), offers[p][s])
  BY <1>1, <1>2, <1>3, <1>4, <1>6, WriteIs
<1>7. CASE /\ Snapshots(s) # {} /\ rows[Stock(s, SnapshotDay(p))] = Nil
           /\ w = Write(Plan(s, SnapshotDay(p)), Current(s))
  <2>1. rows[Plan(s, SnapshotDay(p))] = Nil
    BY <1>1, <1>2, <1>7 DEF SInv, RowsInv
  <2>2. Newest(s) \in Days /\ rows[Stock(s, Newest(s))] # Nil
    BY <1>1, <1>7, NewestIs DEF Snapshots
  <2>3. Plan(s, Newest(s)) \in Keys /\ Current(s) # Nil
    BY <1>1, <2>2, KeyIs DEF SInv, RowsInv, Current
  <2>4. Current(s) \in Nat \cup Plans
    BY <1>1, <2>3 DEF TypeOK, Current
  <2>. QED  BY <1>1, <1>2, <1>4, <1>7, <2>1, <2>4, WriteIs
<1>. QED  BY <1>5, <1>6, <1>7 DEF OfferWrite

\* Of a key there is one such write.
LEMMA OneOfferWrite ==
  ASSUME SInv, NEW p \in Syncs, NEW w \in OffersOf(p), NEW x \in OffersOf(p), w.key = x.key
  PROVE  w = x
<1>1. PICK s \in Offered(p) : OfferWrite(p, s, w)
  BY OffersOfIs
<1>2. PICK t \in Offered(p) : OfferWrite(p, t, x)
  BY OffersOfIs
<1>. DEFINE D == SnapshotDay(p)
<1>3. s \in Known /\ t \in Known /\ D \in Days /\ w \in WriteType /\ x \in WriteType
  BY <1>1, <1>2, OfferWriteIs
<1>4. s = t /\ w.value = x.value
  <2>1. /\ w.key \in {Product(s), Stock(s, D), Plan(s, D)}
        /\ (w.key = Product(s) \/ w.key = Stock(s, D)) => w.value = offers[p][s]
        /\ w.key = Plan(s, D) => w.value = Current(s)
    BY <1>1, <1>3, OfferWriteIs, KeyIs
  <2>2. /\ x.key \in {Product(t), Stock(t, D), Plan(t, D)}
        /\ (x.key = Product(t) \/ x.key = Stock(t, D)) => x.value = offers[p][t]
        /\ x.key = Plan(t, D) => x.value = Current(t)
    BY <1>2, <1>3, OfferWriteIs, KeyIs
  <2>3. s = t
    <3>. HIDE DEF D
    <3>. QED  BY <1>3, <2>1, <2>2, KeyIs
  <2>. QED  BY <2>1, <2>2, <2>3
<1>5. w.insert = x.insert
  BY <1>1, <1>2, <1>3, OfferWriteIs DEF WriteType
<1>. QED  BY <1>3, <1>4, <1>5 DEF WriteType

----------------------------------------------------------------------------
(* Steps and what the tables hold *)

Pcs == {"none", "products", "orders", "stage_products", "stage_sales", "commit", "done", "failed"}

\* A step that changes no row, and the session of p only.
LEMMA SessionStep ==
  ASSUME SInv, NEW p \in Syncs, rows' = rows, TypeOK', WritesInv(p)',
         \A q \in Syncs : q # p => writes'[q] = writes[q] /\ pc'[q] = pc[q]
  PROVE  SInv'
<1>1. RowsInv'
  BY DEF SInv, RowsInv
<1>2. \A s : Snapshots(s)' = Snapshots(s)
  BY DEF Snapshots
<1>3. \A s : Current(s)' = Current(s)
  BY <1>2 DEF Current, Newest
<1>4. ASSUME NEW q \in Syncs, q # p PROVE WritesInv(q)'
  <2>1. WritesInv(q) /\ writes'[q] = writes[q] /\ pc'[q] = pc[q]
    BY <1>4 DEF SInv
  <2>. QED  BY <1>2, <1>3, <2>1 DEF WritesInv
<1>. QED  BY <1>1, <1>4 DEF SInv

\* The steps that leave the sessions' writes alone.
LEMMA NoWrites ==
  ASSUME SInv, NEW p \in Syncs,
         \/ ListProducts(p) \/ (ListOrders(p) /\ ~LastPage(p)) \/ \E w \in Windows : Start(p, w)
  PROVE  /\ TypeOK'
         /\ rows' = rows /\ writes' = writes
         /\ pc[p] \notin {"stage_sales", "commit"} /\ pc'[p] \notin {"stage_sales", "commit"}
         /\ \A q \in Syncs : q # p => pc'[q] = pc[q]
<1>1. TypeOK
  BY DEF SInv
<1>2. CASE ListProducts(p)
  BY <1>1, <1>2 DEF ListProducts, Goes, TypeOK, shop, ghosts
<1>3. CASE \E w \in Windows : Start(p, w)
  <2>1. PICK w \in Windows : Start(p, w)
    BY <1>3
  <2>2. /\ UNCHANGED <<finished, offer, changes, rows, offers, page, got, writes, ever, fresh>>
        /\ pc' = [pc EXCEPT ![p] = "products"] /\ pc[p] = "none"
        /\ window' \in [Syncs -> Windows] /\ alone' \in [Syncs -> BOOLEAN]
    BY <1>1, <2>1 DEF Start, Goes, TypeOK, shop
  <2>. QED  BY <1>1, <2>2 DEF TypeOK
<1>4. CASE ListOrders(p) /\ ~LastPage(p)
  <2>1. /\ UNCHANGED <<finished, offer, changes, rows, window, offers, writes, ever, alone, fresh>>
        /\ got' = [got EXCEPT ![p] = AddPage(p)] /\ pc[p] = "orders"
        /\ \/ HasNext(p) /\ page' = [page EXCEPT ![p] = @ + 1] /\ pc' = pc
           \/ page' = [page EXCEPT ![p] = 1] /\ pc' = [pc EXCEPT ![p] = "stage_products"]
    BY <1>4 DEF ListOrders, Goes, shop, ghosts
  <2>2. AddPage(p) \in Counts
    <3>1. ASSUME NEW k \in Skus \X Days
          PROVE  got[p][k] + Cardinality({o \in OnPage(p) : <<o.sku, o.day>> = k}) \in Nat
      <4>1. {o \in OnPage(p) : <<o.sku, o.day>> = k} \in SUBSET Orders
        BY <1>1 DEF OnPage, Listed, TypeOK
      <4>2. Cardinality({o \in OnPage(p) : <<o.sku, o.day>> = k}) \in Nat
        BY <4>1, OrdersFinite, FS_Subset, FS_CardinalityType
      <4>. QED  BY <1>1, <4>2 DEF TypeOK, Counts
    <3>. QED  BY <3>1 DEF AddPage, Counts
  <2>3. got' \in [Syncs -> Counts]
    BY <1>1, <2>1, <2>2 DEF TypeOK
  <2>4. page' \in [Syncs -> 1..MaxPages]
    <3>1. page[p] \in 1..MaxPages /\ (HasNext(p) => page[p] # MaxPages)
      BY <1>1, <1>4 DEF TypeOK, LastPage
    <3>2. HasNext(p) => page[p] + 1 \in 1..MaxPages
      BY <3>1, PagesAssumption
    <3>3. 1 \in 1..MaxPages
      BY PagesAssumption
    <3>. QED  BY <1>1, <2>1, <3>2, <3>3 DEF TypeOK
  <2>5. pc' \in [Syncs -> Pcs]
    BY <1>1, <2>1 DEF TypeOK, Pcs
  <2>6. TypeOK'
    BY <1>1, <2>1, <2>3, <2>4, <2>5 DEF TypeOK, Pcs
  <2>. QED  BY <1>1, <2>1, <2>6 DEF TypeOK
<1>. QED  BY <1>2, <1>3, <1>4

\* A failed sync takes its writes with it.
LEMMA FailS ==
  ASSUME SInv, NEW p \in Syncs, Fail(p)
  PROVE  SInv'
<1>1. TypeOK /\ UNCHANGED <<finished, offer, changes, rows, window, ever, alone, fresh>>
  BY DEF SInv, Fail, shop, ghosts
<1>2. /\ NoOffers \in [Skus -> 0..MaxVersion] /\ NoneGot \in Counts /\ 1 \in 1..MaxPages
  BY BoundsAssumption, PagesAssumption DEF NoOffers, NoneGot, Counts
<1>3. TypeOK'
  BY <1>1, <1>2 DEF Fail, Goes, TypeOK
<1>4. writes'[p] = {} /\ \A q \in Syncs : q # p => writes'[q] = writes[q] /\ pc'[q] = pc[q]
  BY <1>1 DEF Fail, Goes, TypeOK
<1>5. WritesInv(p)'
  BY <1>4 DEF WritesInv
<1>. QED  BY <1>1, <1>3, <1>4, <1>5, SessionStep

\* The shop changes nothing that syncs hold or have written.
LEMMA ShopChangesS ==
  ASSUME SInv, ShopChanges
  PROVE  SInv'
<1>1. TypeOK /\ UNCHANGED <<rows, pc, window, offers, page, got, writes>>
  BY DEF SInv, ShopChanges, local
<1>2. changes' \in 0..MaxChanges
  BY <1>1, BoundsAssumption DEF ShopChanges, TypeOK
<1>3. finished' \subseteq Orders /\ ever' \subseteq Orders
  BY <1>1 DEF ShopChanges, TypeOK
<1>4. offer' \in [Skus -> 0..MaxVersion]
  BY <1>1 DEF ShopChanges, TypeOK
<1>5. alone' \in [Syncs -> BOOLEAN] /\ fresh' \subseteq Windows
  BY DEF ShopChanges
<1>6. TypeOK'
  BY <1>1, <1>2, <1>3, <1>4, <1>5 DEF TypeOK
<1>7. \A s : Snapshots(s)' = Snapshots(s)
  BY <1>1 DEF Snapshots
<1>8. \A s : Current(s)' = Current(s)
  BY <1>1, <1>7 DEF Current, Newest
<1>9. RowsInv'
  BY <1>1 DEF SInv, RowsInv
<1>10. ASSUME NEW q \in Syncs PROVE WritesInv(q)'
  <2>1. WritesInv(q)
    BY DEF SInv
  <2>. QED  BY <1>1, <1>7, <1>8, <2>1 DEF WritesInv
<1>. QED  BY <1>6, <1>9, <1>10 DEF SInv

\* What is staged of the offers: a new snapshot has the plan that is read.
LEMMA StageProductsS ==
  ASSUME SInv, NEW p \in Syncs, StageProducts(p)
  PROVE  SInv'
<1>. DEFINE D == SnapshotDay(p)
<1>1. TypeOK /\ pc[p] = "stage_products"
      /\ UNCHANGED <<finished, offer, changes, rows, window, page, got, ever, alone, fresh>>
  BY DEF SInv, StageProducts, shop, ghosts
<1>2. /\ writes' = [writes EXCEPT ![p] = Changed(OffersOf(p))]
      /\ offers' = [offers EXCEPT ![p] = NoOffers] /\ pc' = [pc EXCEPT ![p] = "stage_sales"]
  BY DEF StageProducts, OffersOf, Offered, Goes
<1>3. \A w \in OffersOf(p) : w \in WriteType /\ (w.insert <=> rows[w.key] = Nil)
  BY OffersOfIs, OfferWriteIs
<1>4. TypeOK'
  <2>1. Changed(OffersOf(p)) \in SUBSET WriteType
    BY <1>3 DEF Changed
  <2>2. NoOffers \in [Skus -> 0..MaxVersion]
    BY BoundsAssumption DEF NoOffers
  <2>. QED  BY <1>1, <1>2, <2>1, <2>2 DEF TypeOK, WriteType
<1>5. writes'[p] = Changed(OffersOf(p)) /\ pc'[p] = "stage_sales"
  BY <1>1, <1>2 DEF TypeOK
<1>6. Changed(OffersOf(p)) = {w \in OffersOf(p) : w.insert \/ rows[w.key] # w.value}
  BY DEF Changed
<1>7. \A s : Snapshots(s)' = Snapshots(s)
  BY <1>1 DEF Snapshots
<1>8. \A s : Current(s)' = Current(s)
  BY <1>1, <1>7 DEF Current, Newest
<1>9. ASSUME NEW s \in Known, NEW d \in Days, NEW w \in writes'[p], w.key = Stock(s, d)
      PROVE  /\ Snapshots(s) # {}
             /\ w.insert => \E x \in writes'[p] : x.key = Plan(s, d)
  <2>1. PICK t \in Offered(p) : OfferWrite(p, t, w)
    BY <1>5, <1>6, <1>9, OffersOfIs
  <2>2. t = s /\ D = d /\ Snapshots(s) # {}
    BY <1>9, <2>1, OfferWriteIs, KeyIs
  <2>3. ASSUME w.insert PROVE \E x \in writes'[p] : x.key = Plan(s, d)
    <3>1. rows[Stock(s, d)] = Nil
      BY <1>3, <1>5, <1>6, <1>9, <2>3
    <3>2. PICK x : x = Write(Plan(s, d), Current(s))
      OBVIOUS
    <3>3. OfferWrite(p, s, x)
      BY <2>2, <3>1, <3>2 DEF OfferWrite
    <3>4. x.key = Plan(s, d)
      BY <3>2 DEF Write
    <3>5. x.insert
      BY <2>1, <2>2, <3>3, <3>4, OfferWriteIs, KeyIs
    <3>6. x \in OffersOf(p)
      BY <2>1, <2>2, <3>3, OffersOfIs
    <3>. QED  BY <1>5, <1>6, <3>4, <3>5, <3>6
  <2>. QED  BY <2>2, <2>3
<1>10. ASSUME NEW s \in Known, NEW d \in Days, NEW w \in writes'[p], w.key = Plan(s, d)
      PROVE  /\ w.insert /\ Snapshots(s) # {} /\ w.value = Current(s)
             /\ \E x \in writes'[p] : x.key = Stock(s, d) /\ x.insert
  <2>1. PICK t \in Offered(p) : OfferWrite(p, t, w)
    BY <1>5, <1>6, <1>10, OffersOfIs
  <2>2. /\ t = s /\ D = d /\ Snapshots(s) # {} /\ w.insert /\ w.value = Current(s)
        /\ rows[Stock(s, d)] = Nil
    BY <1>10, <2>1, OfferWriteIs, KeyIs
  <2>3. PICK x : x = Write(Stock(s, d), offers[p][s])
    OBVIOUS
  <2>4. OfferWrite(p, s, x)
    BY <2>2, <2>3 DEF OfferWrite
  <2>5. x.key = Stock(s, d)
    BY <2>3 DEF Write
  <2>6. x.insert
    BY <2>1, <2>2, <2>4, <2>5, OfferWriteIs
  <2>7. x \in OffersOf(p)
    BY <2>1, <2>2, <2>4, OffersOfIs
  <2>. QED  BY <1>5, <1>6, <2>2, <2>5, <2>6, <2>7
<1>11. ASSUME NEW s \in Known, NEW d \in Days, NEW w \in writes'[p] PROVE w.key # Sales(s, d)
  <2>1. PICK t \in Offered(p) : OfferWrite(p, t, w)
    BY <1>5, <1>6, OffersOfIs
  <2>. QED  BY <2>1, OfferWriteIs, KeyIs
<1>12. WritesInv(p)'
  <2>1. \A w, x \in writes'[p] : w.key = x.key => w = x
    BY <1>5, <1>6, OneOfferWrite
  <2>2. \A w \in writes'[p] : w.insert \/ rows[w.key] # Nil
    BY <1>3, <1>5, <1>6
  <2>. QED  BY <1>1, <1>5, <1>7, <1>8, <1>9, <1>10, <1>11, <2>1, <2>2 DEF WritesInv
<1>13. \A q \in Syncs : q # p => writes'[q] = writes[q] /\ pc'[q] = pc[q]
  BY <1>1, <1>2 DEF TypeOK
<1>. QED  BY <1>1, <1>4, <1>12, <1>13, SessionStep

\* What is staged of the orders.
LEMMA SalesWriteIs ==
  ASSUME SInv, NEW p \in Syncs, NEW w \in SalesWrites(p)
  PROVE  /\ w \in WriteType /\ (w.insert <=> rows[w.key] = Nil)
         /\ \E s \in Known, d \in Days :
              w.key = Sales(s, d) /\ got[p][<<s, d>>] > 0 /\ w.value = got[p][<<s, d>>]
<1>1. PICK k \in Known \X Days :
        got[p][k] > 0 /\ w = Write(Sales(k[1], k[2]), SalesTotal(got[p][k], rows[Sales(k[1], k[2])]))
  BY DEF SalesWrites
<1>2. PICK s \in Known, d \in Days : k = <<s, d>> /\ s = k[1] /\ d = k[2]
  OBVIOUS
<1>3. TypeOK /\ Sales(s, d) \in Keys /\ got[p][k] \in Nat
  <2>1. TypeOK /\ got[p] \in [Skus \X Days -> Nat]
    BY DEF SInv, TypeOK, Counts
  <2>2. k \in Skus \X Days
    BY <1>2, SkusAssumption
  <2>3. Sales(s, d) \in Keys
    BY KeyIs
  <2>. QED  BY <2>1, <2>2, <2>3
<1>4. w = Write(Sales(s, d), got[p][k])
  BY <1>1, <1>2 DEF SalesTotal
<1>. QED  BY <1>1, <1>2, <1>3, <1>4, WriteIs

\* They are of other keys than the offers', and one of a key.
LEMMA StageSalesS ==
  ASSUME SInv, NEW p \in Syncs, StageSales(p)
  PROVE  SInv'
<1>1. TypeOK /\ pc[p] = "stage_sales" /\ WritesInv(p)
      /\ UNCHANGED <<finished, offer, changes, rows, window, offers, page, got, ever, alone, fresh>>
  BY DEF SInv, StageSales, shop, ghosts
<1>2. /\ writes' = [writes EXCEPT ![p] = @ \cup Changed(SalesWrites(p))]
      /\ pc' = [pc EXCEPT ![p] = "commit"]
  BY DEF StageSales, Goes
<1>3. writes'[p] = writes[p] \cup Changed(SalesWrites(p)) /\ pc'[p] = "commit"
  BY <1>1, <1>2 DEF TypeOK
<1>4. Changed(SalesWrites(p)) \subseteq SalesWrites(p)
  BY DEF Changed
<1>5. TypeOK'
  <2>1. writes[p] \cup Changed(SalesWrites(p)) \in SUBSET WriteType
    BY <1>1, <1>4, SalesWriteIs DEF TypeOK, WriteType
  <2>. QED  BY <1>1, <1>2, <2>1 DEF TypeOK, WriteType
<1>6. ASSUME NEW w \in SalesWrites(p), NEW x \in SalesWrites(p), w.key = x.key PROVE w = x
  <2>1. PICK s \in Known, d \in Days : w.key = Sales(s, d) /\ w.value = got[p][<<s, d>>]
    BY SalesWriteIs
  <2>2. PICK t \in Known, e \in Days : x.key = Sales(t, e) /\ x.value = got[p][<<t, e>>]
    BY SalesWriteIs
  <2>3. s = t /\ d = e
    <3>1. Sales(s, d) = Sales(t, e)
      BY <1>6, <2>1, <2>2
    <3>. QED  BY <3>1, KeyIs
  <2>4. w \in WriteType /\ x \in WriteType /\ w.insert = x.insert
    BY <1>6, SalesWriteIs DEF WriteType
  <2>. QED  BY <1>6, <2>1, <2>2, <2>3, <2>4 DEF WriteType
<1>7. ASSUME NEW w \in writes[p], NEW x \in SalesWrites(p) PROVE w.key # x.key
  <2>1. PICK s \in Known, d \in Days : x.key = Sales(s, d)
    BY SalesWriteIs
  <2>. QED  BY <1>1, <2>1 DEF WritesInv
<1>8. \A s : Snapshots(s)' = Snapshots(s)
  BY <1>1 DEF Snapshots
<1>9. \A s : Current(s)' = Current(s)
  BY <1>1, <1>8 DEF Current, Newest
<1>10. ASSUME NEW w \in SalesWrites(p), NEW s \in Known, NEW d \in Days
       PROVE  w.key # Stock(s, d) /\ w.key # Plan(s, d)
  <2>1. PICK t \in Known, e \in Days : w.key = Sales(t, e)
    BY SalesWriteIs
  <2>. QED  BY <2>1, KeyIs
<1>11. WritesInv(p)'
  <2>1. \A w, x \in writes'[p] : w.key = x.key => w = x
    BY <1>1, <1>3, <1>4, <1>6, <1>7 DEF WritesInv
  <2>2. \A w \in writes'[p] : w.insert \/ rows[w.key] # Nil
    BY <1>1, <1>3, <1>4, SalesWriteIs DEF WritesInv
  <2>3. ASSUME NEW s \in Known, NEW d \in Days, NEW w \in writes'[p],
               w.key = Stock(s, d) \/ w.key = Plan(s, d)
        PROVE  w \in writes[p]
    BY <1>3, <1>4, <1>10, <2>3
  <2>. QED  BY <1>1, <1>3, <1>8, <1>9, <2>1, <2>2, <2>3 DEF WritesInv
<1>12. \A q \in Syncs : q # p => writes'[q] = writes[q] /\ pc'[q] = pc[q]
  BY <1>1, <1>2 DEF TypeOK
<1>. QED  BY <1>1, <1>5, <1>11, <1>12, SessionStep

\* What a commit that meets no other sync's row does to each key.
Commits(p) == Commit(p) /\ ~Conflict(p)

LEMMA AppliedIs ==
  ASSUME SInv, NEW p \in Syncs, Commits(p)
  PROVE  /\ rows' \in [Keys -> Nat \cup Plans \cup {Nil}]
         /\ \A k \in Keys : (\A w \in writes[p] : w.key # k) => rows'[k] = rows[k]
         /\ \A w \in writes[p] : /\ w.key \in Keys /\ w.value # Nil /\ rows'[w.key] = w.value
                                 /\ w.insert <=> rows[w.key] = Nil
         /\ \A k \in Keys : rows[k] # Nil => rows'[k] # Nil
<1>1. TypeOK /\ WritesInv(p)
  BY DEF SInv
<1>2. rows' = Applied(p) /\ \A w \in writes[p] : w.insert => rows[w.key] = Nil
  BY DEF Commits, Commit, Conflict
<1>3. \A w \in writes[p] : w.key \in Keys /\ w.value \in Nat \cup Plans /\ w.value # Nil
  BY <1>1, NilAssumption DEF TypeOK
<1>4. ASSUME NEW k \in Keys, \A w \in writes[p] : w.key # k PROVE rows'[k] = rows[k]
  BY <1>2, <1>4 DEF Applied
<1>5. ASSUME NEW w \in writes[p] PROVE rows'[w.key] = w.value
  <2>1. w.key \in Keys /\ \E x \in writes[p] : x.key = w.key
    BY <1>3
  <2>2. rows'[w.key] = (CHOOSE x \in writes[p] : x.key = w.key).value
    BY <1>2, <2>1 DEF Applied
  <2>3. (CHOOSE x \in writes[p] : x.key = w.key) \in writes[p]
        /\ (CHOOSE x \in writes[p] : x.key = w.key).key = w.key
    BY <2>1
  <2>4. \A x \in writes[p] : x.key = w.key => x = w
    BY <1>1 DEF WritesInv
  <2>5. (CHOOSE x \in writes[p] : x.key = w.key) = w
    BY <2>3, <2>4
  <2>. QED  BY <2>2, <2>5
<1>6. ASSUME NEW k \in Keys
      PROVE  /\ rows'[k] \in Nat \cup Plans \cup {Nil}
             /\ rows[k] # Nil => rows'[k] # Nil
  <2>1. CASE \A w \in writes[p] : w.key # k
    BY <1>1, <1>4, <2>1 DEF TypeOK
  <2>2. CASE \E w \in writes[p] : w.key = k
    BY <1>3, <1>5, <2>2
  <2>. QED  BY <2>1, <2>2
<1>7. rows' = [k \in Keys |-> rows'[k]]
  BY <1>2 DEF Applied
<1>8. rows' \in [Keys -> Nat \cup Plans \cup {Nil}]
  BY <1>6, <1>7
<1>9. \A w \in writes[p] : w.insert <=> rows[w.key] = Nil
  BY <1>1, <1>2 DEF WritesInv
<1>. QED  BY <1>3, <1>4, <1>5, <1>6, <1>8, <1>9

\* Snapshots are only added, to products that have one, with the plan read now.
LEMMA SnapshotsGrow ==
  ASSUME SInv, NEW p \in Syncs, Commits(p), NEW s \in Known
  PROVE  /\ Snapshots(s) \subseteq Snapshots(s)' /\ Snapshots(s)' \in SUBSET Days
         /\ \A d \in Snapshots(s) : rows'[Plan(s, d)] = rows[Plan(s, d)]
         /\ \A d \in Snapshots(s)' \ Snapshots(s) :
              Snapshots(s) # {} /\ rows'[Plan(s, d)] = Current(s)
         /\ \A d \in Days : rows'[Plan(s, d)] = Nil <=> rows'[Stock(s, d)] = Nil
<1>1. WritesInv(p) /\ RowsInv
  BY DEF SInv
<1>2. \A d \in Days : Stock(s, d) \in Keys /\ Plan(s, d) \in Keys
  BY KeyIs
<1>3. /\ Snapshots(s) = {d \in Days : rows[Stock(s, d)] # Nil}
      /\ Snapshots(s)' = {d \in Days : rows'[Stock(s, d)] # Nil}
  BY DEF Snapshots
<1>4. Snapshots(s) \subseteq Snapshots(s)' /\ Snapshots(s)' \in SUBSET Days
  BY <1>2, <1>3, AppliedIs
<1>5. ASSUME NEW d \in Snapshots(s) PROVE rows'[Plan(s, d)] = rows[Plan(s, d)]
  <2>1. d \in Days /\ rows[Plan(s, d)] # Nil
    BY <1>1, <1>3 DEF RowsInv
  <2>2. \A w \in writes[p] : w.key = Plan(s, d) => w.insert
    BY <1>1, <2>1 DEF WritesInv
  <2>3. \A w \in writes[p] : w.key # Plan(s, d)
    BY <2>1, <2>2, AppliedIs
  <2>. QED  BY <1>2, <2>1, <2>3, AppliedIs
<1>6. ASSUME NEW d \in Snapshots(s)' \ Snapshots(s)
      PROVE  Snapshots(s) # {} /\ rows'[Plan(s, d)] = Current(s) /\ rows'[Plan(s, d)] # Nil
  <2>1. d \in Days /\ rows[Stock(s, d)] = Nil /\ rows'[Stock(s, d)] # Nil
    BY <1>3
  <2>2. PICK w \in writes[p] : w.key = Stock(s, d)
    BY <1>2, <2>1, AppliedIs
  <2>3. w.insert
    BY <2>1, <2>2, AppliedIs
  <2>4. PICK x \in writes[p] : x.key = Plan(s, d)
    BY <1>1, <2>1, <2>2, <2>3 DEF WritesInv
  <2>5. Snapshots(s) # {} /\ x.value = Current(s)
    BY <1>1, <2>1, <2>4 DEF WritesInv
  <2>. QED  BY <2>4, <2>5, AppliedIs
<1>7. ASSUME NEW d \in Days PROVE rows'[Plan(s, d)] = Nil <=> rows'[Stock(s, d)] = Nil
  <2>1. CASE d \in Snapshots(s)
    <3>1. rows[Plan(s, d)] # Nil /\ rows[Stock(s, d)] # Nil
      BY <1>1, <1>3, <2>1 DEF RowsInv
    <3>. QED  BY <1>2, <3>1, AppliedIs
  <2>2. CASE d \in Snapshots(s)' \ Snapshots(s)
    BY <1>3, <1>6, <2>2
  <2>3. CASE d \notin Snapshots(s)'
    <3>1. rows'[Stock(s, d)] = Nil /\ rows[Stock(s, d)] = Nil /\ rows[Plan(s, d)] = Nil
      BY <1>1, <1>3, <1>4, <2>3 DEF RowsInv
    <3>2. \A w \in writes[p] : w.key = Plan(s, d) => \E x \in writes[p] : x.key = Stock(s, d)
      BY <1>1 DEF WritesInv
    <3>3. \A w \in writes[p] : w.key # Plan(s, d)
      BY <3>1, <3>2, AppliedIs
    <3>. QED  BY <1>2, <3>1, <3>3, AppliedIs
  <2>. QED  BY <2>1, <2>2, <2>3
<1>. QED  BY <1>4, <1>5, <1>6, <1>7

\* So the plan the workers read stays.
LEMMA CurrentStays ==
  ASSUME SInv, NEW p \in Syncs, Commits(p), NEW s \in Known, Snapshots(s) # {}
  PROVE  Snapshots(s)' # {} /\ Current(s)' = Current(s)
<1>. DEFINE N == Newest(s)
            M == Max(Snapshots(s)')
<1>1. N \in Snapshots(s) /\ N \in Days /\ \A d \in Snapshots(s) : d <= N
  BY NewestIs
<1>2. N \in Snapshots(s)' /\ Snapshots(s)' \in SUBSET Days
  BY <1>1, SnapshotsGrow
<1>3. M \in Snapshots(s)' /\ M \in Days /\ N <= M
  BY <1>2, MaxIs
<1>4. Current(s) = rows[Plan(s, N)] /\ Current(s)' = rows'[Plan(s, M)]
  BY DEF Current, Newest
<1>. HIDE DEF N, M
<1>5. CASE M \in Snapshots(s)
  <2>1. M = N
    BY <1>1, <1>3, <1>5 DEF Days
  <2>. QED  BY <1>2, <1>4, <1>5, <2>1, SnapshotsGrow
<1>6. CASE M \notin Snapshots(s)
  BY <1>2, <1>3, <1>4, <1>6, SnapshotsGrow
<1>. QED  BY <1>5, <1>6

\* Snapshots that are committed have their plan, and what the others staged stays
\* right: the plan that is read is the same.
LEMMA CommitS ==
  ASSUME SInv, NEW p \in Syncs, Commits(p)
  PROVE  SInv'
<1>1. TypeOK /\ pc[p] = "commit"
      /\ UNCHANGED <<finished, offer, changes, window, offers, page, got, ever>>
  BY DEF SInv, Commits, Commit, shop
<1>2. /\ writes' = [writes EXCEPT ![p] = {}] /\ pc' = [pc EXCEPT ![p] = "done"]
      /\ alone' = [q \in Syncs |-> FALSE]
      /\ fresh' = IF alone[p] THEN fresh \cup {window[p]} ELSE {}
  BY DEF Commits, Commit, Goes
<1>3. TypeOK'
  <2>1. rows' \in [Keys -> Nat \cup Plans \cup {Nil}]
    BY AppliedIs
  <2>2. fresh' \subseteq Windows /\ alone' \in [Syncs -> BOOLEAN]
    BY <1>1, <1>2 DEF TypeOK
  <2>3. /\ writes' \in [Syncs -> SUBSET [key : Keys, value : Nat \cup Plans, insert : BOOLEAN]]
        /\ pc' \in [Syncs -> Pcs]
    BY <1>1, <1>2 DEF TypeOK, Pcs
  <2>. QED  BY <1>1, <2>1, <2>2, <2>3 DEF TypeOK, Pcs
<1>4. RowsInv'
  BY SnapshotsGrow DEF RowsInv
<1>5. ASSUME NEW q \in Syncs, q # p PROVE WritesInv(q)'
  <2>1. WritesInv(q) /\ writes'[q] = writes[q] /\ pc'[q] = pc[q]
    BY <1>1, <1>2, <1>5 DEF SInv, TypeOK
  <2>2. \A w \in writes[q] : w.key \in Keys
    BY <1>1 DEF TypeOK
  <2>3. \A w \in writes'[q] : w.insert \/ rows'[w.key] # Nil
    BY <2>1, <2>2, AppliedIs DEF WritesInv
  <2>4. \A s \in Known : Snapshots(s) # {} => Snapshots(s)' # {} /\ Current(s)' = Current(s)
    BY CurrentStays
  <2>5. ASSUME NEW s \in Known, NEW d \in Days, NEW w \in writes'[q]
        PROVE  /\ w.key = Stock(s, d) =>
                    /\ Snapshots(s)' # {}
                    /\ w.insert => \E x \in writes'[q] : x.key = Plan(s, d)
               /\ w.key = Plan(s, d) =>
                    /\ w.insert /\ Snapshots(s)' # {} /\ w.value = Current(s)'
                    /\ \E x \in writes'[q] : x.key = Stock(s, d) /\ x.insert
               /\ pc'[q] = "stage_sales" => w.key # Sales(s, d)
    BY <2>1, <2>4 DEF WritesInv
  <2>6. /\ pc'[q] \notin {"stage_sales", "commit"} => writes'[q] = {}
        /\ \A w, x \in writes'[q] : w.key = x.key => w = x
    BY <2>1 DEF WritesInv
  <2>. QED  BY <2>3, <2>5, <2>6 DEF WritesInv
<1>6. WritesInv(p)'
  <2>1. writes'[p] = {}
    BY <1>1, <1>2 DEF TypeOK
  <2>. QED  BY <2>1 DEF WritesInv
<1>. QED  BY <1>3, <1>4, <1>5, <1>6 DEF SInv

\* It holds of the first tables.
LEMMA FirstS == Init => SInv
<1>. SUFFICES ASSUME Init PROVE SInv
  OBVIOUS
<1>1. PICK D \in SUBSET Days, f \in [Days -> Plans] : rows = FirstRows(D, f)
  BY DEF Init
<1>2. ASSUME NEW s \in Known, NEW d \in Days
      PROVE  /\ rows[Product(s)] = 0 /\ rows[Sales(s, d)] = Nil
             /\ rows[Stock(s, d)] = IF d \in D THEN 0 ELSE Nil
             /\ rows[Plan(s, d)] = IF d \in D THEN f[d] ELSE Nil
  <2>1. {Product(s), Sales(s, d), Stock(s, d), Plan(s, d)} \subseteq Keys
    BY KeyIs
  <2>2. /\ Product(s)[1] = "product" /\ Sales(s, d)[1] = "sales"
        /\ Stock(s, d)[1] = "stock" /\ Stock(s, d)[3] = d
        /\ Plan(s, d)[1] = "plan" /\ Plan(s, d)[3] = d
    BY DEF Product, Sales, Stock, Plan
  <2>. QED  BY <1>1, <2>1, <2>2 DEF FirstRows
<1>3. rows \in [Keys -> Nat \cup Plans \cup {Nil}]
  <2>1. ASSUME NEW k \in Keys PROVE rows[k] \in Nat \cup Plans \cup {Nil}
    <3>1. PICK s \in Known : \/ k = Product(s)
                             \/ \E d \in Days : k \in {Sales(s, d), Stock(s, d), Plan(s, d)}
      BY KeyKinds
    <3>2. CASE k = Product(s)
      <4>1. 1 \in Days
        BY BoundsAssumption DEF Days
      <4>. QED  BY <1>2, <3>2, <4>1
    <3>3. CASE \E d \in Days : k \in {Sales(s, d), Stock(s, d), Plan(s, d)}
      BY <1>2, <3>3
    <3>. QED  BY <3>1, <3>2, <3>3
  <2>2. rows = [k \in Keys |-> rows[k]]
    <3>. DEFINE F(k) == CASE k[1] = "product" -> 0
                          [] k[1] = "sales" -> Nil
                          [] k[1] = "stock" -> IF k[3] \in D THEN 0 ELSE Nil
                          [] k[1] = "plan" -> IF k[3] \in D THEN f[k[3]] ELSE Nil
    <3>1. rows = [k \in Keys |-> F(k)]
      BY <1>1 DEF FirstRows
    <3>. HIDE DEF F
    <3>. QED  BY <3>1
  <2>. QED  BY <2>1, <2>2
<1>4. RowsInv
  <2>1. \A d \in Days : f[d] # Nil /\ 0 # Nil
    BY NilAssumption
  <2>. QED  BY <1>2, <2>1 DEF RowsInv
<1>5. \A p \in Syncs : writes[p] = {}
  BY DEF Init
<1>6. \A p \in Syncs : WritesInv(p)
  BY <1>5 DEF WritesInv
<1>7. TypeOK
  <2>1. 1 \in 0..MaxVersion /\ 0 \in 0..MaxVersion /\ 0 \in 0..MaxChanges /\ 1 \in 1..MaxPages
    BY BoundsAssumption, PagesAssumption
  <2>2. <<1, 1>> \in Windows
    BY BoundsAssumption DEF Windows, Days
  <2>3. NoOffers \in [Skus -> 0..MaxVersion] /\ NoneGot \in Counts
    BY <2>1 DEF NoOffers, NoneGot, Counts
  <2>. QED  BY <1>3, <2>1, <2>2, <2>3 DEF Init, TypeOK
<1>. QED  BY <1>4, <1>6, <1>7 DEF SInv

\* What each step is: the syncs' own work, a failure, or the shop's.
LEMMA StepKinds ==
  ASSUME Next
  PROVE  \/ ShopChanges
         \/ \E p \in Syncs : \/ ListProducts(p) \/ (ListOrders(p) /\ ~LastPage(p))
                             \/ \E w \in Windows : Start(p, w)
                             \/ StageProducts(p) \/ StageSales(p) \/ Commits(p) \/ Fail(p)
<1>1. \A p : ListOrders(p) /\ LastPage(p) => Fail(p)
  BY DEF ListOrders
<1>2. \A p : Commit(p) /\ Conflict(p) => Fail(p)
  BY DEF Commit
<1>3. \A p : Raise(p) => Fail(p)
  BY DEF Raise
<1>. QED  BY <1>1, <1>2, <1>3 DEF Next, Step, Commits

\* So every step keeps it.
LEMMA StepS == SInv /\ [Next]_vars => SInv'
<1>. SUFFICES ASSUME SInv, [Next]_vars PROVE SInv'
  OBVIOUS
<1>1. CASE ShopChanges
  BY <1>1, ShopChangesS
<1>2. ASSUME NEW p \in Syncs, \/ ListProducts(p) \/ (ListOrders(p) /\ ~LastPage(p))
                              \/ \E w \in Windows : Start(p, w)
      PROVE  SInv'
  <2>1. /\ TypeOK' /\ rows' = rows /\ writes' = writes
        /\ pc[p] \notin {"stage_sales", "commit"} /\ pc'[p] \notin {"stage_sales", "commit"}
        /\ \A q \in Syncs : q # p => pc'[q] = pc[q]
    BY <1>2, NoWrites
  <2>2. writes'[p] = {}
    BY <2>1 DEF SInv, WritesInv
  <2>3. WritesInv(p)'
    BY <2>2 DEF WritesInv
  <2>. QED  BY <2>1, <2>3, SessionStep
<1>3. ASSUME NEW p \in Syncs, StageProducts(p) PROVE SInv'
  BY <1>3, StageProductsS
<1>4. ASSUME NEW p \in Syncs, StageSales(p) PROVE SInv'
  BY <1>4, StageSalesS
<1>5. ASSUME NEW p \in Syncs, Commits(p) PROVE SInv'
  BY <1>5, CommitS
<1>6. ASSUME NEW p \in Syncs, Fail(p) PROVE SInv'
  BY <1>6, FailS
<1>7. CASE Next
  BY <1>1, <1>2, <1>3, <1>4, <1>5, <1>6, <1>7, StepKinds
<1>8. CASE UNCHANGED vars
  <2>1. TypeOK' /\ RowsInv'
    BY <1>8 DEF vars, SInv, TypeOK, RowsInv
  <2>2. \A s : Snapshots(s)' = Snapshots(s)
    BY <1>8 DEF vars, Snapshots
  <2>3. \A s : Current(s)' = Current(s)
    BY <1>8, <2>2 DEF vars, Current, Newest
  <2>4. ASSUME NEW q \in Syncs PROVE WritesInv(q)'
    <3>1. WritesInv(q) /\ writes' = writes /\ pc' = pc /\ rows' = rows
      BY <1>8 DEF SInv, vars
    <3>. QED  BY <2>2, <2>3, <3>1 DEF WritesInv
  <2>. QED  BY <2>1, <2>4 DEF SInv
<1>. QED  BY <1>7, <1>8

----------------------------------------------------------------------------
(* The plan *)

\* The types, and that a snapshot and its plan come and are staged together.
THEOREM SyncType == Spec => []SInv
BY FirstS, StepS, PTL DEF Spec

\* A sync never changes or loses the plan (inbound stock, turnover) of the
\* snapshot the workers read, whatever ran beside it.
THEOREM SyncPlanIsKept == Spec => PlanIsKept
<1>1. ASSUME SInv, [Next]_vars
      PROVE  [\A s \in Known : Snapshots(s) # {} =>
                rows'[Plan(s, Max({d \in Days : rows'[Stock(s, d)] # Nil}))]
                  = rows[Plan(s, Newest(s))]]_rows
  <2>1. ASSUME NEW p \in Syncs, Commits(p), NEW s \in Known, Snapshots(s) # {}
        PROVE  rows'[Plan(s, Max({d \in Days : rows'[Stock(s, d)] # Nil}))]
                 = rows[Plan(s, Newest(s))]
    <3>1. Current(s)' = Current(s)
      BY <1>1, <2>1, CurrentStays
    <3>2. Current(s)' = rows'[Plan(s, Max({d \in Days : rows'[Stock(s, d)] # Nil}))]
      BY DEF Current, Newest, Snapshots
    <3>. QED  BY <3>1, <3>2 DEF Current
  <2>2. CASE UNCHANGED vars
    BY <2>2 DEF vars
  <2>3. CASE ShopChanges
    BY <2>3 DEF ShopChanges
  <2>4. ASSUME NEW p \in Syncs, \/ ListProducts(p) \/ (ListOrders(p) /\ ~LastPage(p))
                                \/ \E w \in Windows : Start(p, w)
        PROVE  UNCHANGED rows
    BY <1>1, <2>4, NoWrites
  <2>5. ASSUME NEW p \in Syncs, StageProducts(p) \/ StageSales(p) \/ Fail(p) PROVE UNCHANGED rows
    BY <2>5 DEF StageProducts, StageSales, Fail
  <2>. QED  BY <1>1, <2>1, <2>2, <2>3, <2>4, <2>5, StepKinds
<1>2. Spec => []SInv
  BY SyncType
<1>. QED  BY <1>1, <1>2, PTL DEF Spec, PlanIsKept

----------------------------------------------------------------------------
(* What an undisturbed sync holds: the pages so far, the writes to come *)

ListedAt(p, k) == {o \in Listed(p) : <<o.sku, o.day>> = k}
Before(p, n) == {o \in Listed(p) : Rank(o, Listed(p)) < n}

\* A write of what the shop has, that changes something.
OfTheShop(p, w) ==
  /\ w.insert <=> rows[w.key] = Nil
  /\ w.insert \/ rows[w.key] # w.value
  /\ \A s \in Known : w.key = Product(s) => offer[s] > 0 /\ w.value = offer[s]
  /\ \A s \in Known, d \in Days :
       /\ w.key = Stock(s, d) => offer[s] > 0 /\ w.value = offer[s] /\ d = SnapshotDay(p)
       /\ w.key = Sales(s, d) =>
            d \in InWindow(window[p]) /\ Sold(s, d) > 0 /\ w.value = Sold(s, d)

\* The row is there, or a write of it.
Has(p, k, v) == rows[k] = v \/ \E w \in writes[p] : w.key = k

NothingYet(p) == pc[p] \in {"none", "products"} => page[p] = 1 /\ got[p] = NoneGot
OffersHeld(p) == pc[p] \in {"orders", "stage_products"} => offers[p] = offer
PagesHeld(p) == pc[p] = "orders" => \A k \in Skus \X Days :
  got[p][k] = Cardinality(ListedAt(p, k) \cap Before(p, (page[p] - 1) * PageSize))
OrdersHeld(p) == pc[p] \in {"stage_products", "stage_sales", "commit"} =>
  \A k \in Skus \X Days : got[p][k] = Cardinality(ListedAt(p, k))
OffersStaged(p) == pc[p] \in {"stage_sales", "commit"} =>
  /\ \A w \in writes[p] : OfTheShop(p, w)
  /\ \A s \in Known : offer[s] > 0 =>
       /\ Has(p, Product(s), offer[s])
       /\ Snapshots(s) # {} => Has(p, Stock(s, SnapshotDay(p)), offer[s])
SalesStaged(p) == pc[p] = "commit" =>
  \A s \in Known, d \in Days :
    d \in InWindow(window[p]) /\ Sold(s, d) > 0 => Has(p, Sales(s, d), Sold(s, d))

AloneInv(p) == alone[p] =>
  OffersHeld(p) /\ PagesHeld(p) /\ OrdersHeld(p) /\ OffersStaged(p) /\ SalesStaged(p)

\* What is in the tables since an undisturbed sync.
FreshInv ==
  \A w \in fresh, s \in Known :
    /\ \A d \in Days : d \in InWindow(w) /\ Sold(s, d) > 0 => rows[Sales(s, d)] = Sold(s, d)
    /\ offer[s] > 0 => /\ rows[Product(s)] = offer[s]
                       /\ Snapshots(s) # {} => rows[Stock(s, w[2])] = offer[s]

FInv == (\A p \in Syncs : NothingYet(p) /\ AloneInv(p)) /\ FreshInv

\* The list is finite, and a place in it is below its length.
LEMMA ListedIs ==
  ASSUME TypeOK, NEW p \in Syncs
  PROVE  /\ Listed(p) \subseteq Orders /\ IsFiniteSet(Listed(p))
         /\ \A S \in SUBSET Listed(p) : IsFiniteSet(S) /\ Cardinality(S) \in Nat
         /\ \A o \in Listed(p) : /\ Rank(o, Listed(p)) \in Nat
                                 /\ Rank(o, Listed(p)) < Cardinality(Listed(p))
<1>1. Listed(p) \subseteq Orders
  BY DEF Listed, TypeOK
<1>2. IsFiniteSet(Listed(p))
  BY <1>1, OrdersFinite, FS_Subset
<1>3. \A S \in SUBSET Listed(p) : IsFiniteSet(S) /\ Cardinality(S) \in Nat
  BY <1>2, FS_Subset, FS_CardinalityType
<1>4. ASSUME NEW o \in Listed(p)
      PROVE  /\ Rank(o, Listed(p)) \in Nat
             /\ Rank(o, Listed(p)) < Cardinality(Listed(p))
  <2>. DEFINE L == Listed(p)
              A == {x \in L : Precedes(x, o)}
  <2>1. ~Precedes(o, o)
    <3>1. o \in Orders
      BY <1>1
    <3>2. o.sku \in Skus /\ o.day \in 1..LastDay /\ o.no \in 1..PerDay
      BY <3>1 DEF Orders, Days
    <3>3. o.sku \in Nat
      BY <3>2, SkusAssumption
    <3>4. o.day \in Nat
      BY <3>2, BoundsAssumption
    <3>5. o.no \in Nat
      BY <3>2, BoundsAssumption
    <3>. QED  BY <3>3, <3>4, <3>5 DEF Precedes
  <2>2. A \in SUBSET (L \ {o}) /\ L \ {o} \in SUBSET L /\ A \in SUBSET L
    BY <2>1
  <2>3. IsFiniteSet(L \ {o})
    BY <1>3
  <2>4. Cardinality(A) <= Cardinality(L \ {o})
    <3>. HIDE DEF A, L
    <3>. QED  BY <2>2, <2>3, FS_Subset
  <2>5. Cardinality(L \ {o}) = Cardinality(L) - 1
    <3>. HIDE DEF A
    <3>. QED  BY <1>2, FS_RemoveElement
  <2>6. Cardinality(A) \in Nat /\ Cardinality(L \ {o}) \in Nat /\ Cardinality(L) \in Nat
    <3>. HIDE DEF A
    <3>. QED  BY <1>3, <2>2
  <2>7. Rank(o, L) = Cardinality(A)
    BY DEF Rank
  <2>. QED
    <3>. HIDE DEF A
    <3>. QED  BY <2>4, <2>5, <2>6, <2>7
<1>. QED  BY <1>1, <1>2, <1>3, <1>4

\* A page of orders goes on where the pages before it end.
LEMMA PageIs ==
  ASSUME TypeOK, NEW p \in Syncs
  PROVE  LET n == page[p] IN
         /\ Before(p, (n - 1) * PageSize) \cap OnPage(p) = {}
         /\ Before(p, (n - 1) * PageSize) \cup OnPage(p) = Before(p, n * PageSize)
         /\ Before(p, 0) = {}
         /\ ~HasNext(p) => Before(p, n * PageSize) = Listed(p)
<1>. DEFINE n == page[p]
            a == (n - 1) * PageSize
            b == n * PageSize
<1>1. n \in Nat /\ n >= 1 /\ PageSize \in Nat
  BY PagesAssumption DEF TypeOK
<1>2. a \in Nat /\ b \in Nat /\ b = a + PageSize
  <2>1. b = a + PageSize
    BY <1>1
  <2>2. n - 1 \in Nat
    BY <1>1
  <2>3. a \in Nat
    BY <1>1, <2>2
  <2>. QED  BY <1>1, <2>1, <2>3
<1>3. \A o \in Listed(p) : Rank(o, Listed(p)) \in Nat /\ Rank(o, Listed(p)) < Cardinality(Listed(p))
  BY ListedIs
<1>4. OnPage(p) = {o \in Listed(p) : Rank(o, Listed(p)) \in a .. b - 1}
  BY DEF OnPage
<1>5. HasNext(p) <=> b < Cardinality(Listed(p))
  BY DEF HasNext
<1>6. Cardinality(Listed(p)) \in Nat
  BY ListedIs
<1>. HIDE DEF a, b
<1>7. Before(p, a) \cap OnPage(p) = {}
  BY <1>2, <1>3, <1>4 DEF Before
<1>8. ASSUME NEW o \in Listed(p)
      PROVE  Rank(o, Listed(p)) < b <=> Rank(o, Listed(p)) < a \/ Rank(o, Listed(p)) \in a .. b - 1
  BY <1>1, <1>2, <1>3
<1>9. Before(p, a) \cup OnPage(p) = Before(p, b)
  BY <1>4, <1>8 DEF Before
<1>10. Before(p, 0) = {}
  BY <1>3 DEF Before
<1>11. ASSUME ~HasNext(p) PROVE Before(p, b) = Listed(p)
  <2>1. \A o \in Listed(p) : Rank(o, Listed(p)) < b
    BY <1>2, <1>3, <1>5, <1>6, <1>11
  <2>. QED  BY <2>1 DEF Before
<1>. QED  BY <1>7, <1>9, <1>10, <1>11 DEF a, b

\* So what was got of a product and a day is counted once.
LEMMA GotIs ==
  ASSUME TypeOK, NEW p \in Syncs, NEW k \in Skus \X Days,
         got[p][k] = Cardinality(ListedAt(p, k) \cap Before(p, (page[p] - 1) * PageSize))
  PROVE  AddPage(p)[k] = Cardinality(ListedAt(p, k) \cap Before(p, page[p] * PageSize))
<1>. DEFINE L == ListedAt(p, k)
            A == Before(p, (page[p] - 1) * PageSize)
            B == OnPage(p)
            C == Before(p, page[p] * PageSize)
<1>1. A \cap B = {} /\ A \cup B = C
  BY PageIs
<1>2. {o \in OnPage(p) : <<o.sku, o.day>> = k} = L \cap B
  BY DEF ListedAt, OnPage
<1>3. AddPage(p)[k] = got[p][k] + Cardinality(L \cap B)
  BY <1>2 DEF AddPage
<1>4. L \in SUBSET Listed(p)
  BY DEF ListedAt
<1>. HIDE DEF L, A, B, C
<1>5. IsFiniteSet(L \cap A) /\ IsFiniteSet(L \cap B)
  <2>1. L \cap A \in SUBSET Listed(p) /\ L \cap B \in SUBSET Listed(p)
    BY <1>4
  <2>. QED  BY <2>1, ListedIs
<1>6. (L \cap A) \cap (L \cap B) = {} /\ (L \cap A) \cup (L \cap B) = L \cap C
  BY <1>1
<1>7. Cardinality(L \cap C) = Cardinality(L \cap A) + Cardinality(L \cap B)
  BY <1>5, <1>6, AddUp
<1>. QED  BY <1>3, <1>7 DEF L, A, C

\* The orders of a product and a day in the list are those sold, on the days of
\* the window.
LEMMA SoldIs ==
  ASSUME TypeOK, NEW p \in Syncs, NEW s \in Known, NEW d \in Days
  PROVE  /\ d \in InWindow(window[p]) => Cardinality(ListedAt(p, <<s, d>>)) = Sold(s, d)
         /\ d \notin InWindow(window[p]) => Cardinality(ListedAt(p, <<s, d>>)) = 0
         /\ Sold(s, d) \in Nat
<1>1. ListedAt(p, <<s, d>>) = {o \in finished : o.day \in InWindow(window[p]) /\ o.sku = s /\ o.day = d}
  BY DEF ListedAt, Listed, InWindow
<1>2. ASSUME d \in InWindow(window[p]) PROVE Cardinality(ListedAt(p, <<s, d>>)) = Sold(s, d)
  <2>1. ListedAt(p, <<s, d>>) = {o \in finished : o.sku = s /\ o.day = d}
    BY <1>1, <1>2
  <2>. QED  BY <2>1 DEF Sold
<1>3. ASSUME d \notin InWindow(window[p]) PROVE Cardinality(ListedAt(p, <<s, d>>)) = 0
  <2>1. ListedAt(p, <<s, d>>) = {}
    BY <1>1, <1>3
  <2>. QED  BY <2>1, FS_EmptySet
<1>4. Sold(s, d) \in Nat
  <2>1. {o \in finished : o.sku = s /\ o.day = d} \in SUBSET Orders
    BY DEF TypeOK
  <2>2. IsFiniteSet({o \in finished : o.sku = s /\ o.day = d})
    BY <2>1, OrdersFinite, FS_Subset
  <2>. QED  BY <2>2, FS_CardinalityType DEF Sold
<1>. QED  BY <1>2, <1>3, <1>4

----------------------------------------------------------------------------
(* Steps of an undisturbed sync *)

OthersStay(p) == \A q \in Syncs : q # p =>
  /\ pc'[q] = pc[q] /\ window'[q] = window[q] /\ offers'[q] = offers[q]
  /\ page'[q] = page[q] /\ got'[q] = got[q] /\ writes'[q] = writes[q]
  /\ alone'[q] = alone[q]

\* As long as rows and shop stay, what a sync has seen stays true.
LEMMA SameWorld ==
  ASSUME rows' = rows, finished' = finished, offer' = offer, NEW q \in Syncs,
         window'[q] = window[q]
  PROVE  /\ \A s, d : Sold(s, d)' = Sold(s, d)
         /\ \A s : Snapshots(s)' = Snapshots(s)
         /\ Listed(q)' = Listed(q) /\ SnapshotDay(q)' = SnapshotDay(q)
         /\ \A k : ListedAt(q, k)' = ListedAt(q, k)
         /\ \A n : Before(q, n)' = Before(q, n)
<1>1. Listed(q)' = Listed(q)
  BY DEF Listed
<1>. QED  BY <1>1 DEF Sold, Snapshots, SnapshotDay, ListedAt, Before, Rank

\* What another sync does on its own is nothing to a sync.
LEMMA OthersHold ==
  ASSUME rows' = rows, finished' = finished, offer' = offer, NEW q \in Syncs,
         window'[q] = window[q], pc'[q] = pc[q], offers'[q] = offers[q], page'[q] = page[q],
         got'[q] = got[q], writes'[q] = writes[q], alone'[q] = alone[q],
         NothingYet(q), AloneInv(q)
  PROVE  NothingYet(q)' /\ AloneInv(q)'
<1>1. /\ \A s, d : Sold(s, d)' = Sold(s, d)
      /\ \A s : Snapshots(s)' = Snapshots(s)
      /\ SnapshotDay(q)' = SnapshotDay(q)
      /\ \A k : ListedAt(q, k)' = ListedAt(q, k)
      /\ \A n : Before(q, n)' = Before(q, n)
  BY SameWorld
<1>2. NothingYet(q)'
  BY DEF NothingYet
<1>3. ASSUME alone'[q] PROVE AloneInv(q)'
  <2>1. OffersHeld(q) /\ PagesHeld(q) /\ OrdersHeld(q) /\ OffersStaged(q) /\ SalesStaged(q)
    BY <1>3 DEF AloneInv
  <2>2. OffersHeld(q)'
    BY <2>1 DEF OffersHeld
  <2>3. PagesHeld(q)'
    BY <1>1, <2>1 DEF PagesHeld
  <2>4. OrdersHeld(q)'
    BY <1>1, <2>1 DEF OrdersHeld
  <2>5. \A k, v : Has(q, k, v)' <=> Has(q, k, v)
    BY DEF Has
  <2>6. \A w : OfTheShop(q, w)' <=> OfTheShop(q, w)
    BY <1>1 DEF OfTheShop
  <2>7. OffersStaged(q)'
    BY <1>1, <2>1, <2>5, <2>6 DEF OffersStaged
  <2>8. SalesStaged(q)'
    BY <1>1, <2>1, <2>5 DEF SalesStaged
  <2>. QED  BY <2>2, <2>3, <2>4, <2>7, <2>8 DEF AloneInv
<1>4. CASE ~alone'[q]
  BY <1>2, <1>4 DEF AloneInv
<1>. QED  BY <1>2, <1>3, <1>4

\* A step of one session.
LEMMA SessionStepF ==
  ASSUME FInv, NEW p \in Syncs, OthersStay(p),
         rows' = rows, finished' = finished, offer' = offer, fresh' = fresh,
         NothingYet(p)', AloneInv(p)'
  PROVE  FInv'
<1>1. ASSUME NEW q \in Syncs, q # p PROVE NothingYet(q)' /\ AloneInv(q)'
  <2>1. NothingYet(q) /\ AloneInv(q)
    BY DEF FInv
  <2>2. /\ pc'[q] = pc[q] /\ window'[q] = window[q] /\ offers'[q] = offers[q]
        /\ page'[q] = page[q] /\ got'[q] = got[q] /\ writes'[q] = writes[q]
        /\ alone'[q] = alone[q]
    BY <1>1 DEF OthersStay
  <2>. QED  BY <2>1, <2>2, OthersHold
<1>2. \A s, d : Sold(s, d)' = Sold(s, d)
  BY DEF Sold
<1>3. \A s : Snapshots(s)' = Snapshots(s)
  BY DEF Snapshots
<1>4. FreshInv'
  BY <1>2, <1>3 DEF FInv, FreshInv
<1>. QED  BY <1>1, <1>4 DEF FInv

\* A sync that failed holds nothing.
LEMMA FailF ==
  ASSUME SInv, FInv, NEW p \in Syncs, Fail(p)
  PROVE  FInv'
<1>1. TypeOK /\ UNCHANGED <<finished, offer, rows, window, alone, fresh>>
  BY DEF SInv, Fail, shop, ghosts
<1>2. pc'[p] = "failed" /\ OthersStay(p)
  BY <1>1 DEF Fail, Goes, TypeOK, OthersStay
<1>3. NothingYet(p)' /\ AloneInv(p)'
  BY <1>2 DEF NothingYet, AloneInv, OffersHeld, PagesHeld, OrdersHeld, OffersStaged, SalesStaged
<1>. QED  BY <1>1, <1>2, <1>3, SessionStepF

\* A sync starts undisturbed, with nothing seen.
LEMMA StartF ==
  ASSUME SInv, FInv, NEW p \in Syncs, NEW w \in Windows, Start(p, w)
  PROVE  FInv'
<1>1. /\ TypeOK /\ pc[p] = "none" /\ NothingYet(p)
      /\ UNCHANGED <<finished, offer, rows, offers, page, got, writes, fresh>>
  BY DEF SInv, FInv, Start, shop
<1>2. pc'[p] = "products" /\ OthersStay(p)
  BY <1>1 DEF Start, Goes, TypeOK, OthersStay
<1>3. NothingYet(p)'
  BY <1>1 DEF NothingYet
<1>4. AloneInv(p)'
  BY <1>2 DEF AloneInv, OffersHeld, PagesHeld, OrdersHeld, OffersStaged, SalesStaged
<1>. QED  BY <1>1, <1>2, <1>3, <1>4, SessionStepF

\* The offers it is told are those of the shop.
LEMMA ListProductsF ==
  ASSUME SInv, FInv, NEW p \in Syncs, ListProducts(p)
  PROVE  FInv'
<1>1. /\ TypeOK /\ pc[p] = "products" /\ page[p] = 1 /\ got[p] = NoneGot
      /\ UNCHANGED <<finished, offer, rows, window, page, got, writes, alone, fresh>>
  BY DEF SInv, FInv, NothingYet, ListProducts, shop, ghosts
<1>2. pc'[p] = "orders" /\ offers'[p] = offer /\ OthersStay(p)
  BY <1>1 DEF ListProducts, Goes, TypeOK, OthersStay
<1>3. NothingYet(p)' /\ OffersHeld(p)' /\ OrdersHeld(p)' /\ OffersStaged(p)' /\ SalesStaged(p)'
  BY <1>1, <1>2 DEF NothingYet, OffersHeld, OrdersHeld, OffersStaged, SalesStaged
<1>4. ASSUME NEW k \in Skus \X Days
      PROVE  got'[p][k] = Cardinality(ListedAt(p, k) \cap Before(p, (page[p] - 1) * PageSize))
  <2>1. (page[p] - 1) * PageSize = 0
    BY <1>1, PagesAssumption
  <2>2. Before(p, (page[p] - 1) * PageSize) = {}
    BY <1>1, <2>1, PageIs
  <2>3. got'[p][k] = 0
    BY <1>1 DEF NoneGot
  <2>. QED  BY <2>2, <2>3, FS_EmptySet
<1>5. PagesHeld(p)'
  <2>1. /\ \A k : ListedAt(p, k)' = ListedAt(p, k)
        /\ \A n : Before(p, n)' = Before(p, n)
    BY <1>1, SameWorld
  <2>. QED  BY <1>1, <1>4, <2>1 DEF PagesHeld
<1>6. AloneInv(p)'
  BY <1>3, <1>5 DEF AloneInv
<1>. QED  BY <1>1, <1>2, <1>3, <1>6, SessionStepF

\* Page after page the orders are counted once, and all of them at the end.
LEMMA ListOrdersF ==
  ASSUME SInv, FInv, NEW p \in Syncs, ListOrders(p), ~LastPage(p)
  PROVE  FInv'
<1>1. /\ TypeOK /\ pc[p] = "orders" /\ AloneInv(p)
      /\ UNCHANGED <<finished, offer, rows, window, offers, writes, alone, fresh>>
      /\ got' = [got EXCEPT ![p] = AddPage(p)]
  BY DEF SInv, FInv, ListOrders, shop, ghosts
<1>2. \/ HasNext(p) /\ page' = [page EXCEPT ![p] = @ + 1] /\ pc' = pc
      \/ ~HasNext(p) /\ page' = [page EXCEPT ![p] = 1] /\ pc' = [pc EXCEPT ![p] = "stage_products"]
  BY DEF ListOrders, Goes
<1>3. \/ HasNext(p) /\ page'[p] = page[p] + 1 /\ pc'[p] = "orders"
      \/ ~HasNext(p) /\ pc'[p] = "stage_products"
  BY <1>1, <1>2 DEF TypeOK
<1>4. got'[p] = AddPage(p) /\ OthersStay(p)
  BY <1>1, <1>2 DEF TypeOK, OthersStay
<1>5. /\ \A k : ListedAt(p, k)' = ListedAt(p, k)
      /\ \A n : Before(p, n)' = Before(p, n)
  BY <1>1, SameWorld
<1>6. NothingYet(p)' /\ OffersStaged(p)' /\ SalesStaged(p)'
  BY <1>3 DEF NothingYet, OffersStaged, SalesStaged
<1>7. ASSUME alone[p], NEW k \in Skus \X Days
      PROVE  got'[p][k] = Cardinality(ListedAt(p, k) \cap Before(p, page[p] * PageSize))
  <2>1. got[p][k] = Cardinality(ListedAt(p, k) \cap Before(p, (page[p] - 1) * PageSize))
    BY <1>1, <1>7 DEF AloneInv, PagesHeld
  <2>. QED  BY <1>1, <1>4, <2>1, GotIs
<1>8. ASSUME alone[p] PROVE PagesHeld(p)'
  <2>1. CASE HasNext(p) /\ page'[p] = page[p] + 1 /\ pc'[p] = "orders"
    <3>1. page'[p] - 1 = page[p]
      BY <1>1, <2>1 DEF TypeOK
    <3>. QED  BY <1>5, <1>7, <1>8, <3>1 DEF PagesHeld
  <2>2. CASE ~HasNext(p) /\ pc'[p] = "stage_products"
    BY <2>2 DEF PagesHeld
  <2>. QED  BY <1>3, <2>1, <2>2
<1>9. ASSUME alone[p] PROVE OrdersHeld(p)'
  <2>1. CASE HasNext(p) /\ pc'[p] = "orders"
    BY <2>1 DEF OrdersHeld
  <2>2. CASE ~HasNext(p) /\ pc'[p] = "stage_products"
    <3>1. Before(p, page[p] * PageSize) = Listed(p)
      BY <1>1, <2>2, PageIs
    <3>2. \A k : ListedAt(p, k) \cap Listed(p) = ListedAt(p, k)
      BY DEF ListedAt
    <3>. QED  BY <1>5, <1>7, <1>9, <3>1, <3>2 DEF OrdersHeld
  <2>. QED  BY <1>3, <2>1, <2>2
<1>10. ASSUME alone[p] PROVE OffersHeld(p)'
  BY <1>1, <1>10 DEF AloneInv, OffersHeld
<1>11. AloneInv(p)'
  BY <1>1, <1>6, <1>8, <1>9, <1>10 DEF AloneInv
<1>. QED  BY <1>1, <1>4, <1>6, <1>11, SessionStepF

\* The shop's changes and the commits leave no sync undisturbed.
LEMMA ShopChangesF ==
  ASSUME SInv, FInv, ShopChanges
  PROVE  FInv'
<1>1. UNCHANGED <<pc, page, got>> /\ alone' = [p \in Syncs |-> FALSE] /\ fresh' = {}
  BY DEF ShopChanges, local
<1>2. \A q \in Syncs : NothingYet(q)'
  BY <1>1 DEF FInv, NothingYet
<1>3. \A q \in Syncs : AloneInv(q)'
  BY <1>1 DEF AloneInv
<1>. QED  BY <1>1, <1>2, <1>3 DEF FInv, FreshInv

\* What is staged of the offers is what the shop has and the tables have not.
LEMMA StageProductsF ==
  ASSUME SInv, FInv, NEW p \in Syncs, StageProducts(p)
  PROVE  FInv'
<1>. DEFINE D == SnapshotDay(p)
<1>1. /\ TypeOK /\ pc[p] = "stage_products" /\ AloneInv(p)
      /\ UNCHANGED <<finished, offer, changes, rows, window, page, got, ever, alone, fresh>>
      /\ writes' = [writes EXCEPT ![p] = Changed(OffersOf(p))]
  BY DEF SInv, FInv, StageProducts, shop, ghosts, OffersOf, Offered
<1>2. writes'[p] = Changed(OffersOf(p)) /\ pc'[p] = "stage_sales" /\ OthersStay(p)
  BY <1>1 DEF StageProducts, Goes, TypeOK, OthersStay
<1>3. /\ \A s, d : Sold(s, d)' = Sold(s, d)
      /\ \A s : Snapshots(s)' = Snapshots(s)
      /\ SnapshotDay(p)' = SnapshotDay(p)
      /\ \A k : ListedAt(p, k)' = ListedAt(p, k)
  BY <1>1, SameWorld
<1>4. NothingYet(p)' /\ OffersHeld(p)' /\ PagesHeld(p)' /\ SalesStaged(p)'
  BY <1>2 DEF NothingYet, OffersHeld, PagesHeld, SalesStaged
<1>5. ASSUME alone[p] PROVE OrdersHeld(p)'
  BY <1>1, <1>2, <1>3, <1>5 DEF AloneInv, OrdersHeld
<1>6. \A w : w \in writes'[p] <=> w \in OffersOf(p) /\ (w.insert \/ rows[w.key] # w.value)
  BY <1>2 DEF Changed
<1>7. ASSUME alone[p], NEW w \in writes'[p] PROVE OfTheShop(p, w)
  <2>1. w \in OffersOf(p) /\ (w.insert \/ rows[w.key] # w.value)
    BY <1>6
  <2>2. PICK s \in Offered(p) : OfferWrite(p, s, w)
    BY <2>1, OffersOfIs
  <2>3. offers[p] = offer
    BY <1>1, <1>7 DEF AloneInv, OffersHeld
  <2>4. s \in Known /\ D \in Days /\ offer[s] > 0
    BY <2>2, <2>3, OfferWriteIs DEF Offered
  <2>5. /\ w.insert <=> rows[w.key] = Nil
        /\ \/ w.key = Product(s) /\ w.value = offer[s]
           \/ w.key = Stock(s, D) /\ w.value = offer[s]
           \/ w.key = Plan(s, D)
    BY <2>2, <2>3, OfferWriteIs
  <2>6. \A t \in Known : w.key = Product(t) => t = s /\ w.value = offer[s]
    <3>. HIDE DEF D
    <3>. QED  BY <2>4, <2>5, KeyIs
  <2>7. \A t \in Known, d \in Days : w.key = Stock(t, d) => t = s /\ d = D /\ w.value = offer[s]
    <3>. HIDE DEF D
    <3>. QED  BY <2>4, <2>5, KeyIs
  <2>8. \A t \in Known, d \in Days : w.key # Sales(t, d)
    <3>. HIDE DEF D
    <3>. QED  BY <2>4, <2>5, KeyIs
  <2>. QED  BY <2>1, <2>4, <2>5, <2>6, <2>7, <2>8 DEF OfTheShop
<1>8. ASSUME alone[p], NEW s \in Known, offer[s] > 0
      PROVE  /\ Has(p, Product(s), offer[s])'
             /\ Snapshots(s) # {} => Has(p, Stock(s, D), offer[s])'
  <2>1. offers[p] = offer
    BY <1>1, <1>8 DEF AloneInv, OffersHeld
  <2>2. s \in Offered(p)
    BY <1>8, <2>1 DEF Offered
  <2>3. ASSUME NEW k, OfferWrite(p, s, Write(k, offer[s]))
        PROVE  rows[k] = offer[s] \/ \E w \in writes'[p] : w.key = k
    <3>1. PICK w : w = Write(k, offer[s])
      OBVIOUS
    <3>2. w.key = k /\ w.value = offer[s]
      BY <3>1 DEF Write
    <3>3. w \in OffersOf(p)
      BY <2>2, <2>3, <3>1, OffersOfIs
    <3>4. w \in writes'[p] \/ rows[k] = offer[s]
      BY <1>6, <3>2, <3>3
    <3>. QED  BY <3>2, <3>4
  <2>4. OfferWrite(p, s, Write(Product(s), offer[s]))
    BY <2>1 DEF OfferWrite
  <2>5. Snapshots(s) # {} => OfferWrite(p, s, Write(Stock(s, D), offer[s]))
    BY <2>1 DEF OfferWrite
  <2>6. rows[Product(s)] = offer[s] \/ \E w \in writes'[p] : w.key = Product(s)
    BY <2>3, <2>4
  <2>7. Snapshots(s) # {} =>
          rows[Stock(s, D)] = offer[s] \/ \E w \in writes'[p] : w.key = Stock(s, D)
    BY <2>3, <2>5
  <2>. QED  BY <1>1, <1>3, <2>6, <2>7 DEF Has
<1>9. ASSUME alone[p] PROVE OffersStaged(p)'
  <2>1. \A w \in writes'[p] : OfTheShop(p, w)'
    <3>1. \A w : OfTheShop(p, w)' <=> OfTheShop(p, w)
      BY <1>1, <1>3 DEF OfTheShop
    <3>. QED  BY <1>7, <1>9, <3>1
  <2>2. \A s \in Known : offer[s] > 0 =>
          /\ Has(p, Product(s), offer[s])'
          /\ Snapshots(s)' # {} => Has(p, Stock(s, SnapshotDay(p)), offer[s])'
    BY <1>3, <1>8, <1>9
  <2>. QED  BY <1>1, <2>1, <2>2 DEF OffersStaged
<1>10. AloneInv(p)'
  BY <1>1, <1>4, <1>5, <1>9 DEF AloneInv
<1>. QED  BY <1>1, <1>2, <1>4, <1>10, SessionStepF

\* What is staged of the orders is what was sold on the days of the window.
LEMMA StageSalesF ==
  ASSUME SInv, FInv, NEW p \in Syncs, StageSales(p)
  PROVE  FInv'
<1>1. /\ TypeOK /\ pc[p] = "stage_sales" /\ AloneInv(p)
      /\ UNCHANGED <<finished, offer, changes, rows, window, offers, page, got, ever, alone, fresh>>
      /\ writes' = [writes EXCEPT ![p] = @ \cup Changed(SalesWrites(p))]
  BY DEF SInv, FInv, StageSales, shop, ghosts
<1>2. writes'[p] = writes[p] \cup Changed(SalesWrites(p)) /\ pc'[p] = "commit" /\ OthersStay(p)
  BY <1>1 DEF StageSales, Goes, TypeOK, OthersStay
<1>3. /\ \A s, d : Sold(s, d)' = Sold(s, d)
      /\ \A s : Snapshots(s)' = Snapshots(s)
      /\ SnapshotDay(p)' = SnapshotDay(p)
      /\ \A k : ListedAt(p, k)' = ListedAt(p, k)
  BY <1>1, SameWorld
<1>4. NothingYet(p)' /\ OffersHeld(p)' /\ PagesHeld(p)'
  BY <1>2 DEF NothingYet, OffersHeld, PagesHeld
<1>5. ASSUME alone[p], NEW s \in Known, NEW d \in Days
      PROVE  /\ got[p][<<s, d>>] = Cardinality(ListedAt(p, <<s, d>>))
             /\ got[p][<<s, d>>] > 0 => d \in InWindow(window[p]) /\ got[p][<<s, d>>] = Sold(s, d)
             /\ d \in InWindow(window[p]) => got[p][<<s, d>>] = Sold(s, d)
  <2>1. <<s, d>> \in Skus \X Days
    BY SkusAssumption
  <2>2. got[p][<<s, d>>] = Cardinality(ListedAt(p, <<s, d>>))
    BY <1>1, <1>5, <2>1 DEF AloneInv, OrdersHeld
  <2>. QED  BY <1>1, <2>2, SoldIs
<1>6. ASSUME alone[p] PROVE OrdersHeld(p)'
  BY <1>1, <1>2, <1>3, <1>6 DEF AloneInv, OrdersHeld
<1>7. ASSUME alone[p], NEW w \in Changed(SalesWrites(p)) PROVE OfTheShop(p, w)
  <2>1. w \in SalesWrites(p) /\ (w.insert \/ rows[w.key] # w.value)
    BY DEF Changed
  <2>2. PICK s \in Known, d \in Days :
          w.key = Sales(s, d) /\ got[p][<<s, d>>] > 0 /\ w.value = got[p][<<s, d>>]
    BY <2>1, SalesWriteIs
  <2>3. w.insert <=> rows[w.key] = Nil
    BY <2>1, SalesWriteIs
  <2>4. d \in InWindow(window[p]) /\ w.value = Sold(s, d) /\ Sold(s, d) > 0
    BY <1>5, <1>7, <2>2
  <2>5. ASSUME NEW t \in Known, NEW e \in Days
        PROVE  /\ w.key # Product(t) /\ w.key # Stock(t, e)
               /\ w.key = Sales(t, e) => t = s /\ e = d
    BY <2>2, KeyIs
  <2>6. \A t \in Known : w.key # Product(t)
    BY <2>2, <2>5
  <2>. QED  BY <2>1, <2>3, <2>4, <2>5, <2>6 DEF OfTheShop
<1>8. \A k, v : Has(p, k, v) => Has(p, k, v)'
  BY <1>1, <1>2 DEF Has
<1>9. ASSUME alone[p] PROVE OffersStaged(p)'
  <2>1. OffersStaged(p)
    BY <1>1, <1>9 DEF AloneInv
  <2>2. \A w \in writes'[p] : OfTheShop(p, w)
    BY <1>1, <1>2, <1>7, <1>9, <2>1 DEF OffersStaged
  <2>3. \A w : OfTheShop(p, w)' <=> OfTheShop(p, w)
    BY <1>1, <1>3 DEF OfTheShop
  <2>4. \A s \in Known : offer[s] > 0 =>
          /\ Has(p, Product(s), offer[s])'
          /\ Snapshots(s)' # {} => Has(p, Stock(s, SnapshotDay(p)), offer[s])'
    BY <1>1, <1>3, <1>8, <2>1 DEF OffersStaged
  <2>. QED  BY <1>1, <1>3, <2>2, <2>3, <2>4 DEF OffersStaged
<1>10. ASSUME alone[p], NEW s \in Known, NEW d \in Days, d \in InWindow(window[p]), Sold(s, d) > 0
       PROVE  Has(p, Sales(s, d), Sold(s, d))'
  <2>1. got[p][<<s, d>>] = Sold(s, d)
    BY <1>5, <1>10
  <2>2. PICK w : w = Write(Sales(s, d), Sold(s, d))
    OBVIOUS
  <2>3. w.key = Sales(s, d) /\ w.value = Sold(s, d)
    BY <2>2 DEF Write
  <2>4. w \in SalesWrites(p)
    <3>1. <<s, d>> \in {x \in Known \X Days : got[p][x] > 0}
      BY <1>10, <2>1
    <3>. QED  BY <2>1, <2>2, <3>1 DEF SalesWrites, SalesTotal
  <2>5. w \in writes'[p] \/ rows[Sales(s, d)] = Sold(s, d)
    BY <1>2, <2>3, <2>4 DEF Changed
  <2>. QED  BY <1>1, <1>3, <2>3, <2>5 DEF Has
<1>11. ASSUME alone[p] PROVE SalesStaged(p)'
  BY <1>1, <1>3, <1>10, <1>11 DEF SalesStaged
<1>12. AloneInv(p)'
  BY <1>1, <1>4, <1>6, <1>9, <1>11 DEF AloneInv
<1>. QED  BY <1>1, <1>2, <1>4, <1>12, SessionStepF

\* A commit nothing ran beside brings the tables to what the shop has.
LEMMA CommitF ==
  ASSUME SInv, FInv, NEW p \in Syncs, Commits(p)
  PROVE  FInv'
<1>1. /\ TypeOK /\ pc[p] = "commit" /\ AloneInv(p)
      /\ UNCHANGED <<finished, offer, page, got, window>>
      /\ pc' = [pc EXCEPT ![p] = "done"] /\ alone' = [q \in Syncs |-> FALSE]
      /\ fresh' = IF alone[p] THEN fresh \cup {window[p]} ELSE {}
  BY DEF SInv, FInv, Commits, Commit, Goes, shop
<1>2. \A q \in Syncs : NothingYet(q)'
  BY <1>1 DEF FInv, NothingYet, TypeOK
<1>3. \A q \in Syncs : AloneInv(q)'
  BY <1>1 DEF AloneInv
<1>4. FreshInv'
  <2>1. CASE ~alone[p]
    BY <1>1, <2>1 DEF FreshInv
  <2>2. CASE alone[p]
    <3>1. OffersStaged(p) /\ SalesStaged(p)
      BY <1>1, <2>2 DEF AloneInv
    <3>2. \A w \in writes[p] : OfTheShop(p, w)
      BY <1>1, <3>1 DEF OffersStaged
    <3>3. ASSUME NEW k \in Keys, NEW v, rows[k] = v \/ \E w \in writes[p] : w.key = k,
                 \A w \in writes[p] : w.key = k => w.value = v
          PROVE  rows'[k] = v
      BY <3>3, AppliedIs
    <3>4. ASSUME NEW s \in Known, NEW w \in fresh' PROVE w \in Windows /\ w[2] \in Days
      BY <1>1, <3>4 DEF TypeOK, Windows
    <3>5. ASSUME NEW w \in fresh', NEW s \in Known, NEW d \in Days,
                 d \in InWindow(w), Sold(s, d) > 0
          PROVE  rows'[Sales(s, d)] = Sold(s, d)
      <4>1. Sales(s, d) \in Keys
        BY KeyIs
      <4>2. \A x \in writes[p] : x.key = Sales(s, d) => x.value = Sold(s, d)
        BY <3>2 DEF OfTheShop
      <4>3. CASE w \in fresh
        <5>1. rows[Sales(s, d)] = Sold(s, d)
          BY <3>5, <4>3 DEF FInv, FreshInv
        <5>. QED  BY <3>3, <4>1, <4>2, <5>1
      <4>4. CASE w = window[p]
        <5>1. Has(p, Sales(s, d), Sold(s, d))
          BY <1>1, <3>1, <3>5, <4>4 DEF SalesStaged
        <5>. QED  BY <3>3, <4>1, <4>2, <5>1 DEF Has
      <4>. QED  BY <1>1, <2>2, <4>3, <4>4
    <3>6. ASSUME NEW w \in fresh', NEW s \in Known, offer[s] > 0
          PROVE  rows'[Product(s)] = offer[s]
      <4>1. Product(s) \in Keys
        BY <3>4, KeyIs
      <4>2. \A x \in writes[p] : x.key = Product(s) => x.value = offer[s]
        BY <3>2 DEF OfTheShop
      <4>3. CASE w \in fresh
        <5>1. rows[Product(s)] = offer[s]
          BY <3>6, <4>3 DEF FInv, FreshInv
        <5>. QED  BY <3>3, <4>1, <4>2, <5>1
      <4>4. CASE w = window[p]
        <5>1. Has(p, Product(s), offer[s])
          BY <1>1, <3>1, <3>6, <4>4 DEF OffersStaged
        <5>. QED  BY <3>3, <4>1, <4>2, <5>1 DEF Has
      <4>. QED  BY <1>1, <2>2, <4>3, <4>4
    <3>7. ASSUME NEW w \in fresh', NEW s \in Known, offer[s] > 0, Snapshots(s)' # {}
          PROVE  rows'[Stock(s, w[2])] = offer[s]
      <4>1. Stock(s, w[2]) \in Keys
        BY <3>4, KeyIs
      <4>2. \A x \in writes[p] : x.key = Stock(s, w[2]) => x.value = offer[s]
        BY <3>2, <3>4 DEF OfTheShop
      <4>3. Snapshots(s) # {}
        BY <3>7, SnapshotsGrow
      <4>4. CASE w \in fresh
        <5>1. rows[Stock(s, w[2])] = offer[s]
          BY <3>7, <4>3, <4>4 DEF FInv, FreshInv
        <5>. QED  BY <3>3, <4>1, <4>2, <5>1
      <4>5. CASE w = window[p]
        <5>1. Has(p, Stock(s, w[2]), offer[s])
          BY <1>1, <3>1, <3>7, <4>3, <4>5 DEF OffersStaged, SnapshotDay
        <5>. QED  BY <3>3, <4>1, <4>2, <5>1 DEF Has
      <4>. QED  BY <1>1, <2>2, <4>4, <4>5
    <3>8. \A s, d : Sold(s, d)' = Sold(s, d)
      BY <1>1 DEF Sold
    <3>. QED  BY <1>1, <3>5, <3>6, <3>7, <3>8 DEF FreshInv
  <2>. QED  BY <2>1, <2>2
<1>. QED  BY <1>2, <1>3, <1>4 DEF FInv

\* Nothing is seen, staged or fresh at first.
LEMMA FirstF == Init => FInv
BY DEF Init, FInv, NothingYet, AloneInv, OffersHeld, PagesHeld, OrdersHeld, OffersStaged,
       SalesStaged, FreshInv

\* So every step keeps it, too.
LEMMA StepF == SInv /\ FInv /\ [Next]_vars => FInv'
<1>. SUFFICES ASSUME SInv, FInv, [Next]_vars PROVE FInv'
  OBVIOUS
<1>1. CASE ShopChanges
  BY <1>1, ShopChangesF
<1>2. ASSUME NEW p \in Syncs, ListProducts(p) PROVE FInv'
  BY <1>2, ListProductsF
<1>3. ASSUME NEW p \in Syncs, ListOrders(p), ~LastPage(p) PROVE FInv'
  BY <1>3, ListOrdersF
<1>4. ASSUME NEW p \in Syncs, NEW w \in Windows, Start(p, w) PROVE FInv'
  BY <1>4, StartF
<1>5. ASSUME NEW p \in Syncs, StageProducts(p) PROVE FInv'
  BY <1>5, StageProductsF
<1>6. ASSUME NEW p \in Syncs, StageSales(p) PROVE FInv'
  BY <1>6, StageSalesF
<1>7. ASSUME NEW p \in Syncs, Commits(p) PROVE FInv'
  BY <1>7, CommitF
<1>8. ASSUME NEW p \in Syncs, Fail(p) PROVE FInv'
  BY <1>8, FailF
<1>9. CASE Next
  BY <1>1, <1>2, <1>3, <1>4, <1>5, <1>6, <1>7, <1>8, <1>9, StepKinds
<1>10. CASE UNCHANGED vars
  <2>1. UNCHANGED <<finished, offer, rows, pc, window, offers, page, got, writes, alone, fresh>>
    BY <1>10 DEF vars
  <2>2. ASSUME NEW q \in Syncs PROVE NothingYet(q)' /\ AloneInv(q)'
    <3>1. NothingYet(q) /\ AloneInv(q)
      BY DEF FInv
    <3>. QED  BY <2>1, <3>1, OthersHold
  <2>3. FreshInv'
    <3>1. /\ \A s, d : Sold(s, d)' = Sold(s, d)
          /\ \A s : Snapshots(s)' = Snapshots(s)
      BY <2>1 DEF Sold, Snapshots
    <3>. QED  BY <2>1, <3>1 DEF FInv, FreshInv
  <2>. QED  BY <2>2, <2>3 DEF FInv
<1>. QED  BY <1>9, <1>10

----------------------------------------------------------------------------
(* The sales, the offer and the stock *)

\* What a sync has seen and staged while nothing ran beside it is the shop's,
\* and so is what the tables hold since.
THEOREM SyncSees == Spec => [](SInv /\ FInv)
BY FirstS, FirstF, StepS, StepF, PTL DEF Spec

\* After a sync nothing ran beside, the sales of its days are those of the
\* shop, however its list was cut into pages and whatever was in the tables;
\* and so are the offer and the stock the workers read, unless there is a
\* snapshot of a later day.
THEOREM SyncSyncedIsTheShops == Spec => []SyncedIsTheShops
<1>1. SInv /\ FInv => SyncedIsTheShops
  <2>. SUFFICES ASSUME SInv, FInv, NEW w \in fresh, NEW s \in Known
                PROVE  /\ \A d \in InWindow(w) : Sold(s, d) > 0 => rows[Sales(s, d)] = Sold(s, d)
                       /\ offer[s] > 0 =>
                            /\ rows[Product(s)] = offer[s]
                            /\ Snapshots(s) # {} /\ Newest(s) <= w[2] =>
                                 rows[Stock(s, Newest(s))] = offer[s]
    BY DEF SyncedIsTheShops
  <2>1. TypeOK /\ w[1] \in Days /\ w[2] \in Days /\ InWindow(w) \subseteq Days
    BY BoundsAssumption DEF SInv, TypeOK, Windows, InWindow, Days
  <2>2. \A d \in InWindow(w) : Sold(s, d) > 0 => rows[Sales(s, d)] = Sold(s, d)
    BY <2>1 DEF FInv, FreshInv
  <2>3. offer[s] > 0 => rows[Product(s)] = offer[s]
    BY DEF FInv, FreshInv
  <2>4. ASSUME offer[s] > 0, Snapshots(s) # {}, Newest(s) <= w[2]
        PROVE  rows[Stock(s, Newest(s))] = offer[s]
    <3>1. rows[Stock(s, w[2])] = offer[s]
      BY <2>4 DEF FInv, FreshInv
    <3>2. offer[s] \in Nat /\ offer[s] # Nil
      BY <2>1, SkusAssumption, BoundsAssumption, NilAssumption DEF TypeOK
    <3>3. w[2] \in Snapshots(s)
      BY <2>1, <3>1, <3>2 DEF Snapshots
    <3>4. w[2] <= Newest(s) /\ Newest(s) \in Days
      BY <2>4, <3>3, NewestIs
    <3>5. w[2] = Newest(s)
      BY <2>1, <2>4, <3>4, BoundsAssumption DEF Days
    <3>. QED  BY <3>1, <3>5
  <2>. QED  BY <2>2, <2>3, <2>4
<1>. QED  BY <1>1, SyncSees, PTL

\* Such a sync has nothing to write when its days are fresh already.
LEMMA NothingToWrite ==
  ASSUME SInv, FInv, NEW p \in Syncs, pc[p] = "commit", alone[p], window[p] \in fresh
  PROVE  writes[p] = {}
<1>. SUFFICES ASSUME NEW w \in writes[p] PROVE FALSE
  OBVIOUS
<1>. DEFINE D == SnapshotDay(p)
<1>1. TypeOK /\ WritesInv(p) /\ AloneInv(p) /\ FreshInv
  BY DEF SInv, FInv
<1>2. \A x \in writes[p] : OfTheShop(p, x)
  BY <1>1 DEF AloneInv, OffersStaged
<1>3. ASSUME NEW x \in writes[p], rows[x.key] = x.value PROVE FALSE
  <2>1. x.value # Nil
    BY <1>1, NilAssumption DEF TypeOK
  <2>. QED  BY <1>2, <1>3, <2>1 DEF OfTheShop
<1>4. ASSUME NEW x \in writes[p], NEW s \in Known, NEW d \in Days PROVE x.key # Stock(s, d)
  <2>. SUFFICES ASSUME x.key = Stock(s, d) PROVE FALSE
    OBVIOUS
  <2>1. offer[s] > 0 /\ x.value = offer[s] /\ d = window[p][2]
    BY <1>2 DEF OfTheShop, SnapshotDay
  <2>2. Snapshots(s) # {}
    BY <1>1 DEF WritesInv
  <2>3. rows[Stock(s, d)] = offer[s]
    BY <1>1, <2>1, <2>2 DEF FreshInv
  <2>. QED  BY <1>3, <2>1, <2>3
<1>5. w.key \in Keys
  BY <1>1 DEF TypeOK
<1>6. PICK s \in Known : \/ w.key = Product(s)
                         \/ \E d \in Days : w.key \in {Sales(s, d), Stock(s, d), Plan(s, d)}
  BY <1>5, KeyKinds
<1>7. CASE w.key = Product(s)
  <2>1. offer[s] > 0 /\ w.value = offer[s]
    BY <1>2, <1>7 DEF OfTheShop
  <2>2. rows[Product(s)] = offer[s]
    BY <1>1, <2>1 DEF FreshInv
  <2>. QED  BY <1>3, <1>7, <2>1, <2>2
<1>8. ASSUME NEW d \in Days, w.key = Sales(s, d) PROVE FALSE
  <2>1. d \in InWindow(window[p]) /\ Sold(s, d) > 0 /\ w.value = Sold(s, d)
    BY <1>2, <1>8 DEF OfTheShop
  <2>2. rows[Sales(s, d)] = Sold(s, d)
    BY <1>1, <2>1 DEF FreshInv
  <2>. QED  BY <1>3, <1>8, <2>1, <2>2
<1>9. ASSUME NEW d \in Days, w.key = Plan(s, d) PROVE FALSE
  BY <1>1, <1>4, <1>9 DEF WritesInv
<1>. QED  BY <1>4, <1>6, <1>7, <1>8, <1>9

\* A second sync of a window, when neither the shop nor another sync changed
\* anything since the first, changes no row.
THEOREM SyncSyncIsIdempotent == Spec => SyncIsIdempotent
<1>1. ASSUME SInv, FInv, [Next]_vars
      PROVE  [\A p \in Syncs : pc[p] = "commit" /\ pc'[p] = "done" /\ alone[p] /\ window[p] \in fresh
                => UNCHANGED rows]_vars
  <2>1. ASSUME NEW p \in Syncs, pc[p] = "commit", pc'[p] = "done", alone[p], window[p] \in fresh,
               NEW q \in Syncs, Commits(q)
        PROVE  UNCHANGED rows
    <3>1. TypeOK /\ pc' = [pc EXCEPT ![q] = "done"]
      BY <1>1, <2>1 DEF SInv, Commits, Commit, Goes
    <3>2. p = q
      BY <2>1, <3>1 DEF TypeOK
    <3>3. writes[p] = {}
      BY <1>1, <2>1, NothingToWrite
    <3>4. \A k \in Keys : rows'[k] = rows[k]
      BY <1>1, <2>1, <3>2, <3>3, AppliedIs
    <3>5. rows \in [Keys -> Nat \cup Plans \cup {Nil}] /\ rows' \in [Keys -> Nat \cup Plans \cup {Nil}]
      BY <1>1, <2>1, <3>1, AppliedIs DEF TypeOK
    <3>. QED  BY <3>4, <3>5
  <2>2. CASE ShopChanges
    BY <2>2 DEF ShopChanges
  <2>3. ASSUME NEW p \in Syncs, \/ ListProducts(p) \/ (ListOrders(p) /\ ~LastPage(p))
                                \/ \E w \in Windows : Start(p, w)
        PROVE  UNCHANGED rows
    BY <1>1, <2>3, NoWrites
  <2>4. ASSUME NEW p \in Syncs, StageProducts(p) \/ StageSales(p) \/ Fail(p) PROVE UNCHANGED rows
    BY <2>4 DEF StageProducts, StageSales, Fail
  <2>5. CASE Next
    BY <2>1, <2>2, <2>3, <2>4, <2>5, StepKinds
  <2>6. CASE UNCHANGED vars
    BY <2>6
  <2>. QED  BY <1>1, <2>5, <2>6
<1>. QED  BY <1>1, SyncSees, PTL DEF Spec, SyncIsIdempotent
=============================================================================
