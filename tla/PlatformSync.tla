----------------------------- MODULE PlatformSync ---------------------------
(***************************************************************************)
(* app/platform: the command that copies the offers and the finished       *)
(* orders of a shop into the tables the workers read, with the paging      *)
(* gateway (taobao.py), while the shop goes on selling.                    *)
(*                                                                         *)
(* An order counts 1, its revenue going with it.  What the shop offers of  *)
(* a product (price, title, status, stock) is a version, 0 while it is not *)
(* on sale.  The plan of a snapshot is its inbound stock and turnover.     *)
(***************************************************************************)
EXTENDS Naturals, FiniteSets, FiniteSetsExt

CONSTANTS
  Syncs,       \* runs of the command, each made once
  Skus,        \* of the shop, numbered
  Known,       \* those with a row in products
  LastDay,     \* days are 1..LastDay
  PerDay,      \* orders of a product and a day
  PageSize,
  MaxPages,    \* MAX_ORDER_PAGES
  MaxVersion,  \* bound of the versions of an offer
  MaxChanges,  \* bound of the changes of the shop
  Plans,
  Nil

ASSUME SkusAssumption == Known \subseteq Skus /\ Skus \subseteq Nat /\ IsFiniteSet(Skus)
ASSUME PagesAssumption == PageSize \in Nat \ {0} /\ MaxPages \in Nat \ {0}
ASSUME BoundsAssumption ==
  LastDay \in Nat \ {0} /\ PerDay \in Nat /\ MaxVersion \in Nat \ {0} /\ MaxChanges \in Nat
ASSUME NilAssumption == Nil \notin Plans \cup Nat

VARIABLES
  (* the shop *)
  finished,  \* orders it lists as TRADE_FINISHED
  offer,     \* version of each product
  changes,
  (* tables: a value at each key *)
  rows,
  (* each sync *)
  pc,
  window,    \* first and last day
  offers,    \* as listed to it
  page,      \* to be asked for next
  got,       \* orders of each product and day it was given
  writes,    \* of its session, flushed at the commit
  (* observation only *)
  ever,      \* orders that have been finished at some time
  alone,     \* neither the shop nor another sync changed anything since it began
  fresh      \* windows synchronised since the last change

shop == <<finished, offer, changes>>
local == <<window, offers, page, got, writes>>
ghosts == <<ever, alone, fresh>>
vars == <<finished, offer, changes, rows, pc, window, offers, page, got, writes,
          ever, alone, fresh>>

Days == 1..LastDay
Windows == {w \in Days \X Days : w[1] <= w[2]}
Orders == [sku : Skus, day : Days, no : 1..PerDay]
Counts == [Skus \X Days -> Nat]

Product(s) == <<"product", s, 0>>
Sales(s, d) == <<"sales", s, d>>
Stock(s, d) == <<"stock", s, d>>
Plan(s, d) == <<"plan", s, d>>
Keys == {Product(s) : s \in Known} \cup
        UNION {{Sales(s, d), Stock(s, d), Plan(s, d)} : s \in Known, d \in Days}

\* The newest snapshot is the one workers read.
Snapshots(s) == {d \in Days : rows[Stock(s, d)] # Nil}
Newest(s) == Max(Snapshots(s))

NoneGot == [k \in Skus \X Days |-> 0]
NoOffers == [s \in Skus |-> 0]

\* Before the first sync there are products, and snapshots of some days.
FirstRows(D, f) ==
  [k \in Keys |-> CASE k[1] = "product" -> 0
                    [] k[1] = "sales" -> Nil
                    [] k[1] = "stock" -> IF k[3] \in D THEN 0 ELSE Nil
                    [] k[1] = "plan" -> IF k[3] \in D THEN f[k[3]] ELSE Nil]

Init ==
  /\ finished \in SUBSET Orders
  /\ offer = [s \in Skus |-> 1]
  /\ changes = 0
  /\ \E D \in SUBSET Days, f \in [Days -> Plans] : rows = FirstRows(D, f)
  /\ pc = [p \in Syncs |-> "none"]
  /\ window = [p \in Syncs |-> <<1, 1>>]
  /\ offers = [p \in Syncs |-> NoOffers]
  /\ page = [p \in Syncs |-> 1]
  /\ got = [p \in Syncs |-> NoneGot]
  /\ writes = [p \in Syncs |-> {}]
  /\ ever = finished
  /\ alone = [p \in Syncs |-> TRUE]
  /\ fresh = {}

Goes(p, to) == pc' = [pc EXCEPT ![p] = to]

----------------------------------------------------------------------------
(* The shop: an order is finished, or is no longer (refunded, closed); an   *)
(* offer gets a new version, or goes off sale.                              *)

ShopChanges ==
  /\ changes < MaxChanges
  /\ changes' = changes + 1
  /\ \/ \E o \in Orders \ finished : finished' = finished \cup {o} /\ UNCHANGED offer
     \/ \E o \in finished : finished' = finished \ {o} /\ UNCHANGED offer
     \/ \E s \in Skus : /\ \E v \in {0, offer[s] + 1} \cap (0..MaxVersion) :
                              offer' = [offer EXCEPT ![s] = v]
                        /\ UNCHANGED finished
  /\ ever' = ever \cup finished'
  /\ alone' = [p \in Syncs |-> FALSE]
  /\ fresh' = {}
  /\ UNCHANGED <<rows, pc, local>>

----------------------------------------------------------------------------
(* The gateway *)

Start(p, w) ==
  /\ pc[p] = "none"
  /\ window' = [window EXCEPT ![p] = w]
  /\ alone' = [alone EXCEPT ![p] = TRUE]
  /\ Goes(p, "products")
  /\ UNCHANGED <<shop, rows, offers, page, got, writes, ever, fresh>>

ListProducts(p) ==
  /\ pc[p] = "products"
  /\ offers' = [offers EXCEPT ![p] = offer]
  /\ Goes(p, "orders")
  /\ UNCHANGED <<shop, rows, window, page, got, writes, ghosts>>

\* The platform lists the finished orders of the window in an order of its
\* own, and cuts the list anew for each request.
Listed(p) == {o \in finished : o.day \in window[p][1]..window[p][2]}

Precedes(a, b) ==
  \/ a.day > b.day
  \/ a.day = b.day /\ a.no > b.no
  \/ a.day = b.day /\ a.no = b.no /\ a.sku < b.sku

Rank(o, S) == Cardinality({x \in S : Precedes(x, o)})

OnPage(p) ==
  {o \in Listed(p) : Rank(o, Listed(p)) \in (page[p] - 1) * PageSize .. page[p] * PageSize - 1}

HasNext(p) == page[p] * PageSize < Cardinality(Listed(p))

\* A slip: the page that says there is no other is not looked at.
AddPageIfNext(p) ==
  IF HasNext(p)
  THEN [k \in Skus \X Days |-> got[p][k] + Cardinality({o \in OnPage(p) : <<o.sku, o.day>> = k})]
  ELSE got[p]

AddPage(p) ==
  [k \in Skus \X Days |-> got[p][k] + Cardinality({o \in OnPage(p) : <<o.sku, o.day>> = k})]

Fail(p) ==
  /\ Goes(p, "failed")
  /\ offers' = [offers EXCEPT ![p] = NoOffers]
  /\ got' = [got EXCEPT ![p] = NoneGot]
  /\ page' = [page EXCEPT ![p] = 1]
  /\ writes' = [writes EXCEPT ![p] = {}]
  /\ UNCHANGED <<shop, rows, window, ghosts>>

LastPage(p) == HasNext(p) /\ page[p] = MaxPages

ListOrders(p) ==
  /\ pc[p] = "orders"
  /\ IF LastPage(p)
     THEN Fail(p)
     ELSE /\ got' = [got EXCEPT ![p] = AddPage(p)]
          /\ IF HasNext(p)
             THEN page' = [page EXCEPT ![p] = @ + 1] /\ UNCHANGED pc
             ELSE page' = [page EXCEPT ![p] = 1] /\ Goes(p, "stage_products")
          /\ UNCHANGED <<shop, rows, window, offers, writes, ghosts>>

\* An error response, a page without its state, an order without a valid date
\* or outside the window; the database or the process fails.
Raise(p) ==
  /\ pc[p] \in {"products", "orders", "stage_products", "stage_sales", "commit"}
  /\ Fail(p)

----------------------------------------------------------------------------
(* sync_shop_data: assignments to the objects of the session. *)

Write(k, v) == [key |-> k, value |-> v, insert |-> rows[k] = Nil]

\* Of a loaded object only what differs is written.
Changed(W) == {w \in W : w.insert \/ rows[w.key] # w.value}

\* A slip: a new snapshot without a plan of its own gets the columns' defaults.
DefaultPlan(s, d) == IF rows[Stock(s, d)] # Nil THEN {}
                     ELSE {Write(Plan(s, d), CHOOSE n \in Plans : TRUE)}

\* A new snapshot has the plan of the newest.
NewPlan(s, d) == IF rows[Stock(s, d)] # Nil THEN {}
                 ELSE {Write(Plan(s, d), rows[Plan(s, Newest(s))])}

SnapshotWrites(s, d, v) ==
  IF Snapshots(s) = {} THEN {} ELSE {Write(Stock(s, d), v)} \cup NewPlan(s, d)

SnapshotDay(p) == window[p][2]

OfferWrites(p, s) ==
  {Write(Product(s), offers[p][s])} \cup SnapshotWrites(s, SnapshotDay(p), offers[p][s])

StageProducts(p) ==
  /\ pc[p] = "stage_products"
  /\ writes' = [writes EXCEPT ![p] =
       Changed(UNION {OfferWrites(p, s) : s \in {s \in Known : offers[p][s] > 0}})]
  /\ offers' = [offers EXCEPT ![p] = NoOffers]
  /\ Goes(p, "stage_sales")
  /\ UNCHANGED <<shop, rows, window, page, got, ghosts>>

\* A slip: the orders found are added to those of the row.
SalesAdded(n, old) == IF old = Nil THEN n ELSE old + n

SalesTotal(n, old) == n

\* Only days with orders have a total.
SalesWrites(p) ==
  {Write(Sales(k[1], k[2]), SalesTotal(got[p][k], rows[Sales(k[1], k[2])])) :
     k \in {x \in Known \X Days : got[p][x] > 0}}

StageSales(p) ==
  /\ pc[p] = "stage_sales"
  /\ writes' = [writes EXCEPT ![p] = @ \cup Changed(SalesWrites(p))]
  /\ Goes(p, "commit")
  /\ UNCHANGED <<shop, rows, window, offers, page, got, ghosts>>

\* A row another sync inserted meanwhile violates the unique key.
Conflict(p) == \E w \in writes[p] : w.insert /\ rows[w.key] # Nil

Applied(p) ==
  [k \in Keys |-> IF \E w \in writes[p] : w.key = k
                  THEN (CHOOSE w \in writes[p] : w.key = k).value ELSE rows[k]]

Commit(p) ==
  /\ pc[p] = "commit"
  /\ IF Conflict(p)
     THEN Fail(p)
     ELSE /\ rows' = Applied(p)
          /\ Goes(p, "done")
          /\ writes' = [writes EXCEPT ![p] = {}]
          /\ alone' = [q \in Syncs |-> FALSE]
          /\ fresh' = IF alone[p] THEN fresh \cup {window[p]} ELSE {}
          /\ UNCHANGED <<shop, window, offers, page, got, ever>>

----------------------------------------------------------------------------
Step(p) == ListProducts(p) \/ ListOrders(p) \/ StageProducts(p) \/ StageSales(p) \/ Commit(p)

Next ==
  \/ ShopChanges
  \/ \E p \in Syncs : Step(p) \/ Raise(p) \/ \E w \in Windows : Start(p, w)

Spec == Init /\ [][Next]_vars

----------------------------------------------------------------------------
(* Properties *)

TypeOK ==
  /\ finished \subseteq Orders /\ ever \subseteq Orders
  /\ offer \in [Skus -> 0..MaxVersion]
  /\ changes \in 0..MaxChanges
  /\ rows \in [Keys -> Nat \cup Plans \cup {Nil}]
  /\ pc \in [Syncs -> {"none", "products", "orders", "stage_products", "stage_sales",
                       "commit", "done", "failed"}]
  /\ window \in [Syncs -> Windows]
  /\ offers \in [Syncs -> [Skus -> 0..MaxVersion]]
  /\ page \in [Syncs -> 1..MaxPages]
  /\ got \in [Syncs -> Counts]
  /\ writes \in [Syncs -> SUBSET [key : Keys, value : Nat \cup Plans, insert : BOOLEAN]]
  /\ alone \in [Syncs -> BOOLEAN]
  /\ fresh \subseteq Windows

Sold(s, d) == Cardinality({o \in finished : o.sku = s /\ o.day = d})
InWindow(w) == w[1]..w[2]

\* After a sync nothing ran beside, the sales of its days are those of the
\* shop, whatever the pages they came on and whatever was in the tables; and so
\* are the offer and the stock the workers read, unless there is a snapshot of a
\* later day.
SyncedIsTheShops ==
  \A w \in fresh, s \in Known :
    /\ \A d \in InWindow(w) : Sold(s, d) > 0 => rows[Sales(s, d)] = Sold(s, d)
    /\ offer[s] > 0 =>
         /\ rows[Product(s)] = offer[s]
         /\ Snapshots(s) # {} /\ Newest(s) <= w[2] => rows[Stock(s, Newest(s))] = offer[s]

\* The plan the workers read is never changed by a sync, nor lost.
PlanIsKept ==
  [][\A s \in Known : Snapshots(s) # {} =>
       rows'[Plan(s, Max({d \in Days : rows'[Stock(s, d)] # Nil}))] = rows[Plan(s, Newest(s))]]_rows

\* A second sync of an unchanged shop changes nothing.
SyncIsIdempotent ==
  [][\A p \in Syncs : pc[p] = "commit" /\ pc'[p] = "done" /\ alone[p] /\ window[p] \in fresh
       => UNCHANGED rows]_vars

\* docs: paging is verified.  Not so when the list moves between two pages:
\* an order at the border of a page is counted twice.
NoOrderTwice ==
  \A p \in Syncs, s \in Skus, d \in Days :
    got[p][<<s, d>>] <= Cardinality({o \in ever : o.sku = s /\ o.day = d})

\* docs: statuses are verified, and workers read the synchronised tables.  Not
\* so when the only order of a day is refunded: its row is not looked at.
RefundsAreSynced ==
  \A w \in fresh, s \in Known : \A d \in InWindow(w) :
    rows[Sales(s, d)] \in {Nil, Sold(s, d)}

\* docs: workers read the synchronised stock.  Not so after a sync of a window
\* that ends before the newest snapshot.
StockIsRead ==
  \A w \in fresh, s \in Known :
    offer[s] > 0 /\ Snapshots(s) # {} => rows[Stock(s, Newest(s))] = offer[s]
=============================================================================
