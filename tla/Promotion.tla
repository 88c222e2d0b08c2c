------------------------------ MODULE Promotion -----------------------------
(***************************************************************************)
(* The numbers of a promotion: prices, margins and budgets from the        *)
(* simulation of a discount to the drafts, over repeated runs of one       *)
(* request (baseline and multi-agent alike) while products change.         *)
(*                                                                         *)
(* Money is in cents.  Rates of requests are in units of 1/100000, as they *)
(* may have any number of digits; the code rounds rates to 1/10000, which  *)
(* are the units of discount and margin here.  Which products are in the   *)
(* inventory and have sales is left open, as are the texts compliance      *)
(* reads.                                                                  *)
(***************************************************************************)
EXTENDS Naturals, FiniteSets, FiniteSetsExt

CONSTANTS
  Products,
  Costs, Sales,             \* prices in cents
  MaxDiscounts, MinMargins, \* rates of requests
  Budgets,                  \* in cents
  Limits,                   \* max_products
  MaxRuns,                  \* bound of the runs
  MaxChanges,               \* bound of the changes of prices
  NoDraft

Unit == 100000   \* 1 as a rate of a request
MaxRate == 90000 \* the largest max_discount_rate
Quant == 10000   \* 1 / RATE_QUANT

ASSUME ProductsAssumption == IsFiniteSet(Products)
ASSUME PricesAssumption == Costs \subseteq Nat \ {0} /\ Sales \subseteq Nat \ {0}
ASSUME BoundsAssumption == MaxRuns \in Nat /\ MaxChanges \in Nat
ASSUME RatesAssumption == MaxDiscounts \subseteq 0..MaxRate /\ MinMargins \subseteq 0..Unit - 1
ASSUME BudgetsAssumption == Budgets \subseteq Nat \ {0}

VARIABLES
  request,
  cost, sale,  \* of each product, in the table
  changes,
  runs,        \* begun so far
  pc,
  pricing,     \* of the candidates, as simulated in this run
  campaigns    \* draft of each product, NoDraft before

promotionVars == <<request, cost, sale, changes, runs, pc, pricing, campaigns>>

Drafts == [discount : 0..Quant, budget : Nat \ {0}]
ASSUME NoDraftAssumption == NoDraft \notin Drafts

Requests == [maxDiscount : MaxDiscounts, minMargin : MinMargins, budget : Budgets, limit : Limits]

----------------------------------------------------------------------------
(* Decimal arithmetic with ROUND_HALF_UP *)

\* n / d to an integer.
RoundHalfUp(n, d) == (2 * n + d) \div (2 * d)

\* One more digit of a quotient q with remainder r.
Digit(x, d) == [q |-> 10 * x.q + (10 * x.r) \div d, r |-> (10 * x.r) % d]

\* n / d < 1 to four digits, by long division: n * Quant may be too large.
Rate(n, d) ==
  LET x == Digit(Digit(Digit(Digit([q |-> 0, r |-> n], d), d), d), d)
  IN  x.q + IF 2 * x.r >= d THEN 1 ELSE 0

----------------------------------------------------------------------------
(* simulate_discount *)

\* The discount at which the margin is min_margin_rate, 0 if there is none.
ByMargin(c, s, r) ==
  LET d == s * (Unit - r.minMargin)
  IN  IF c * Unit >= d THEN 0 ELSE Rate(d - c * Unit, d)

\* Rounding is monotone: of the smaller is the smaller of the rounded.
Discount(c, s, r) == Min({RoundHalfUp(r.maxDiscount, 10), ByMargin(c, s, r)})

Discounted(s, discount) == RoundHalfUp(s * (Quant - discount), Quant)

\* A slip: the margin is that of the original price.
MarginOfOriginal(c, s, price) == IF s > c THEN Rate(s - c, s) ELSE 0

\* Only whether it is positive matters when it is not.
Margin(c, s, price) == IF price > c THEN Rate(price - c, price) ELSE 0

Simulated(c, s, r) ==
  IF c >= s
  THEN [cost |-> c, original |-> s, price |-> s, discount |-> 0, margin |-> 0, eligible |-> FALSE]
  ELSE LET discount == Discount(c, s, r)
           price == Discounted(s, discount)
           margin == Margin(c, s, price)
       IN  [cost |-> c, original |-> s, price |-> price, discount |-> discount, margin |-> margin,
            eligible |-> price > c /\ 10 * margin >= r.minMargin]

----------------------------------------------------------------------------
PromotionInit ==
  /\ request \in Requests
  /\ cost \in [Products -> Costs]
  /\ sale \in [Products -> Sales]
  /\ changes = 0
  /\ runs = 0
  /\ pc = "idle"
  /\ pricing = <<>>
  /\ campaigns = [p \in Products |-> NoDraft]

\* The platform sync writes another price.
PriceChanges ==
  /\ changes < MaxChanges
  /\ changes' = changes + 1
  /\ \E p \in Products : \E s \in Sales \ {sale[p]} : sale' = [sale EXCEPT ![p] = s]
  /\ UNCHANGED <<request, cost, runs, pc, pricing, campaigns>>

\* The same request is run (again): candidates are the first max_products of
\* those that have both stock and sales, each simulated with its price of now.
Simulate ==
  /\ pc = "idle" /\ runs < MaxRuns
  /\ runs' = runs + 1
  /\ pc' = "simulated"
  /\ \E C \in SUBSET Products :
       /\ Cardinality(C) <= request.limit
       /\ pricing' = [p \in C |-> Simulated(cost[p], sale[p], request)]
  /\ UNCHANGED <<request, cost, sale, changes, campaigns>>

Selected == {p \in DOMAIN pricing : pricing[p].eligible}

\* The price rules of check_compliance_rules.
PricePasses(x, r) ==
  x.eligible /\ 10 * x.discount <= r.maxDiscount /\ 10 * x.margin >= r.minMargin

\* Nothing passes without a selection, or without policies, or with a copy
\* that has forbidden terms.
Review ==
  /\ pc = "simulated"
  /\ \/ /\ Selected # {} /\ \A p \in Selected : PricePasses(pricing[p], request)
        /\ pc' = "passed"
     \/ pc' = "rejected"
  /\ UNCHANGED <<request, cost, sale, changes, runs, pricing, campaigns>>

\* A slip: the budget is spread over all candidates.
BudgetOfCandidates(r) == RoundHalfUp(r.budget, Cardinality(DOMAIN pricing))

PerProduct(r) == RoundHalfUp(r.budget, Cardinality(Selected))

PositiveBudget(b) == b > 0

\* All drafts of the batch or, if a draft may have no budget, none.  A draft
\* that exists is left as it is, whatever was computed now.
Execute ==
  /\ pc = "passed"
  /\ IF PositiveBudget(PerProduct(request))
     THEN /\ campaigns' = [p \in Products |->
               IF p \in Selected /\ campaigns[p] = NoDraft
               THEN [discount |-> pricing[p].discount, budget |-> PerProduct(request)]
               ELSE campaigns[p]]
          /\ pc' = "drafted"
     ELSE pc' = "failed" /\ UNCHANGED campaigns
  /\ UNCHANGED <<request, cost, sale, changes, runs, pricing>>

\* The run is answered.
Answer ==
  /\ pc \in {"rejected", "drafted", "failed"}
  /\ pc' = "idle"
  /\ pricing' = <<>>
  /\ UNCHANGED <<request, cost, sale, changes, runs, campaigns>>

PromotionNext == PriceChanges \/ Simulate \/ Review \/ Execute \/ Answer

PromotionSpec == PromotionInit /\ [][PromotionNext]_promotionVars

----------------------------------------------------------------------------
(* Properties *)

Simulation == [cost : Costs, original : Sales, price : Nat, discount : 0..Quant,
               margin : 0..Quant, eligible : BOOLEAN]

PromotionTypeOK ==
  /\ request \in Requests
  /\ cost \in [Products -> Costs] /\ sale \in [Products -> Sales]
  /\ changes \in 0..MaxChanges /\ runs \in 0..MaxRuns
  /\ pc \in {"idle", "simulated", "passed", "rejected", "drafted", "failed"}
  /\ DOMAIN pricing \subseteq Products
  /\ \A p \in DOMAIN pricing : pricing[p] \in Simulation
  /\ campaigns \in [Products -> Drafts \cup {NoDraft}]

Drafted == {p \in Products : campaigns[p] # NoDraft}

\* The exact margin of an eligible price is below the request's by half a unit
\* of rounding at the most, and the price is above cost and not above the old;
\* and simulation and compliance, which check prices independently, agree on
\* all requests whose rates have no more than four digits: what is selected
\* passes.
SelectionIsSound ==
  \A p \in Selected :
    LET x == pricing[p]
    IN  /\ x.cost < x.price /\ x.price <= x.original
        /\ (x.price - x.cost) * Unit + 5 * x.price >= request.minMargin * x.price
        /\ request.maxDiscount % 10 = 0 => PricePasses(x, request)

\* docs: products that break a constraint get no draft.  The discount of no
\* draft exceeds the request's, by however little, whatever was rounded and
\* whichever run made it; and each draft of a batch has its share, so that
\* together they spend the budget but for half a cent each.
DraftsKeepTheRequest ==
  /\ \A p \in Drafted : 10 * campaigns[p].discount <= request.maxDiscount
  /\ pc = "drafted" /\ runs = 1 => \A p \in Drafted :
       LET n == Cardinality(Drafted)
           spent == n * campaigns[p].budget
       IN  2 * spent <= 2 * request.budget + n /\ 2 * request.budget <= 2 * spent + n

\* policy BUDGET-001: execution must not exceed the budget.  Not so when the
\* budget is rounded up for each product.
BudgetIsKept ==
  MapThenSumSet(LAMBDA p : campaigns[p].budget, Drafted) <= request.budget

\* ... by more than rounding, when the same request is run again and selects
\* other products: the drafts there were keep their share.
BudgetIsKeptAcrossRuns ==
  MapThenSumSet(LAMBDA p : campaigns[p].budget, Drafted) <= request.budget + Cardinality(Drafted)

\* policy PROMO-PRICE-001: the margin after the discount is not below the
\* minimum.  Not so when it is rounded up to it.
MarginIsKept ==
  \A p \in Selected :
    LET x == pricing[p] IN (x.price - x.cost) * Unit >= request.minMargin * x.price

\* tests: the discount is at most the request's.  Not so when the request's
\* has more than four digits: the whole batch is then rejected.
DiscountIsKept ==
  \A p \in Selected : 10 * pricing[p].discount <= request.maxDiscount

\* code: "cannot satisfy both discount and minimal margin".  Not so: some
\* discount within the maximum has a sufficient margin, but the largest one,
\* once rounded, has not.
InfeasibleIsRejected ==
  \A p \in DOMAIN pricing :
    LET x == pricing[p]
    IN  x.eligible \/ x.original <= x.cost
        \/ ~ \E d \in 0..(request.maxDiscount \div 10) :
               LET price == Discounted(x.original, d)
               IN  /\ price > x.cost
                   /\ 10 * Margin(x.cost, x.original, price) >= request.minMargin
=============================================================================
