--------------------------- MODULE ApproverProofs ---------------------------
(***************************************************************************)
(* What an approver sees and decides about, in two components that share   *)
(* no state.                                                               *)
(*                                                                         *)
(* The queue of the approval centre is honest and its reports are true,    *)
(* for any number of threads.  Why a reported thread cannot come back: a   *)
(* snapshot taken before the decision can only be the one in flight, and   *)
(* success replaces it.                                                    *)
(*                                                                         *)
(* The numbers of the drafts keep the request, for any prices, rates and   *)
(* budgets: every rounding is off by half a unit at the most, and what is  *)
(* drafted is what passed the review.                                      *)
(***************************************************************************)
EXTENDS ApprovalCenter, Promotion, FiniteSetTheorems, TLAPS

----------------------------------------------------------------------------
(* The approval centre *)


\* A decision in flight is about a thread that was on the queue, and what is
\* recorded or reported is on record.
SentInv ==
  /\ \A s \in Slots :
       sent[s].at # "none" => /\ list # Nil
                             /\ sent[s].thread \in Threads /\ sent[s].decision \in Decisions
  /\ \A s \in Slots : sent[s].at = "none" => sent[s] = NotSent
  /\ \A s \in Slots : sent[s].at = "recorded" => record[sent[s].thread] = sent[s].decision
  /\ selected # Nil => list # Nil
  /\ ~mounted => selected = Nil /\ sent["mounted"] = NotSent
  /\ shown # NotSent => shown.thread \in Threads /\ shown.decision \in Decisions
  /\ ReportIsTrue
  /\ \A t \in told : record[t] \in Decisions

\* What is listed, or about to be, was started; what is missing from the next
\* queue was decided; and the next queue brings no reported thread back.
QueueInv ==
  /\ list # Nil => \A t \in list : record[t] # "NONE"
  /\ fetch.at = "answered" =>
       \A t \in Threads :
         /\ t \in fetch.rows => record[t] # "NONE"
         /\ t \in fetch.rows /\ t \in told => list # Nil /\ t \in list
         /\ list # Nil /\ t \in list \ fetch.rows => record[t] \in Decisions

CInv == TypeOK /\ SentInv /\ QueueInv

\* Nothing is listed, sent or reported at first.
LEMMA CInit == Init => CInv
<1>. SUFFICES ASSUME Init PROVE CInv
  OBVIOUS
<1>. USE NilAssumption DEF Init, NotSent, NoFetch
<1>1. TypeOK
  BY DEF TypeOK, Slots, Decisions
<1>2. SentInv
  BY DEF SentInv, ReportIsTrue, Slots
<1>3. QueueInv
  BY DEF QueueInv
<1>. QED  BY <1>1, <1>2, <1>3 DEF CInv

\* Every step of the page, of the API and of other approvers keeps it so.
LEMMA CStep == CInv /\ [Next]_vars => CInv'
<1>. SUFFICES ASSUME CInv, [Next]_vars PROVE CInv'
  OBVIOUS
<1>. USE NilAssumption
     DEF CInv, TypeOK, SentInv, QueueInv, ReportIsTrue, NotSent, NoFetch, Asked, Slots, Decisions,
         page, Pending
<1>1. ASSUME NEW t \in Threads, Started(t) PROVE CInv'
  BY <1>1 DEF Started
<1>2. ASSUME NEW t \in Threads, NEW d \in Decisions, DecidedByOther(t, d) PROVE CInv'
  BY <1>2 DEF DecidedByOther, Pending
<1>3. ASSUME NEW t \in Threads, NEW d \in Decisions, OpenDecision(t, d) PROVE CInv'
  BY <1>3 DEF OpenDecision, Rows
<1>4. CASE ListPending
  BY <1>4 DEF ListPending, Pending
<1>5. CASE Deliver
  <2>1. TypeOK'
    BY <1>5 DEF Deliver
  <2>2. SentInv'
    BY <1>5 DEF Deliver
  <2>3. QueueInv'
    BY <1>5 DEF Deliver
  <2>. QED  BY <2>1, <2>2, <2>3
<1>6. CASE FetchFails
  BY <1>6 DEF FetchFails
<1>7. CASE Refetch
  BY <1>7 DEF Refetch, AskAgain
<1>8. CASE Open
  BY <1>8 DEF Open
<1>9. CASE Leave
  <2>1. TypeOK'
    BY <1>9 DEF Leave
  <2>2. SentInv'
    BY <1>9 DEF Leave
  <2>3. QueueInv'
    BY <1>9 DEF Leave
  <2>. QED  BY <2>1, <2>2, <2>3
<1>10. CASE Cancel
  BY <1>10 DEF Cancel
<1>11. CASE Confirm
  BY <1>11 DEF Confirm
<1>12. ASSUME NEW s \in Slots, Decide(s) PROVE CInv'
  BY <1>12 DEF Decide, Pending
<1>13. ASSUME NEW s \in Slots, Succeeds(s) PROVE CInv'
  <2>1. TypeOK'
    <3>1. sent[s] \in [at : {"none", "recorded"}, thread : Threads \cup {Nil},
                       decision : Decisions \cup {"NONE"}]
      BY <1>13 DEF Succeeds
    <3>2. NotSent \in [at : {"none", "asked", "recorded", "refused"},
                       thread : Threads \cup {Nil}, decision : Decisions \cup {"NONE"}]
      OBVIOUS
    <3>3. sent' \in [Slots -> [at : {"none", "asked", "recorded", "refused"},
                              thread : Threads \cup {Nil}, decision : Decisions \cup {"NONE"}]]
      BY <3>2, <1>13 DEF Succeeds
    <3>4. /\ shown' \in [at : {"none", "recorded"}, thread : Threads \cup {Nil},
                          decision : Decisions \cup {"NONE"}]
          /\ told' \in SUBSET Threads
          /\ selected' \in Threads \cup {Nil}
      BY <3>1, <1>13 DEF Succeeds, Report
    <3>5. fetch' \in [at : {"idle", "asked", "answered"}, rows : SUBSET Threads] /\ stale' \in BOOLEAN
      <4>1. Asked \in [at : {"idle", "asked", "answered"}, rows : SUBSET Threads]
        OBVIOUS
      <4>2. fetch' \in {fetch, Asked} /\ stale' \in {stale, TRUE}
        BY <1>13 DEF Succeeds, AfterSuccess, Invalidate
      <4>3. fetch \in [at : {"idle", "asked", "answered"}, rows : SUBSET Threads] /\ stale \in BOOLEAN
        OBVIOUS
      <4>. HIDE DEF Asked
      <4>. QED  BY <4>1, <4>2, <4>3
    <3>. QED  BY <3>3, <3>4, <3>5, <1>13 DEF Succeeds, AfterSuccess
  <2>2. SentInv'
    BY <1>13 DEF Succeeds, AfterSuccess, Invalidate, Report
  <2>3. QueueInv'
    BY <1>13 DEF Succeeds, AfterSuccess, Invalidate, Report
  <2>. QED  BY <2>1, <2>2, <2>3
<1>14. ASSUME NEW s \in Slots, Errs(s) PROVE CInv'
  BY <1>14 DEF Errs
<1>15. CASE UNCHANGED vars
  BY <1>15 DEF vars
<1>. QED  BY <1>1, <1>2, <1>3, <1>4, <1>5, <1>6, <1>7, <1>8, <1>9, <1>10, <1>11, <1>12, <1>13, <1>14, <1>15 DEF Next

\* CInv holds in every reachable state.
THEOREM CenterInvariance == Spec => []CInv
BY CInit, CStep, PTL DEF Spec

\* The page reports what is on record, for any number of threads.
THEOREM ReportsAreTrue == Spec => []ReportIsTrue
<1>1. CInv => ReportIsTrue
  BY DEF CInv, SentInv
<1>. QED  BY <1>1, CenterInvariance, PTL

Honest ==
  mounted /\ mounted' =>
    /\ \A t \in Rows \ Rows' : record[t] \in Decisions
    /\ told \cap (Rows' \ Rows) = {}

\* Only the delivery of a fetch changes the rows of an open centre.
LEMMA HonestStep == CInv /\ [Next]_vars => Honest
<1>. SUFFICES ASSUME CInv, [Next]_vars PROVE Honest
  OBVIOUS
<1>1. CASE Deliver
  BY <1>1, NilAssumption DEF Deliver, CInv, QueueInv, TypeOK, Honest, Rows, page
<1>2. CASE ~Deliver
  <2>1. list' = list
    BY <1>2 DEF Next, vars, page, Started, DecidedByOther, OpenDecision, ListPending, FetchFails,
                Refetch, Open, Leave, Cancel, Confirm, Decide, Succeeds, AfterSuccess, Errs
  <2>. QED  BY <2>1 DEF Honest, Rows
<1>. QED  BY <1>1, <1>2

\* No row leaves but a decided one, and none comes back once reported.
THEOREM QueueHonest == Spec => QueueIsHonest
<1>1. CInv /\ [Next]_vars => [Honest]_vars
  BY HonestStep
<1>2. Spec => [][Honest]_vars
  BY <1>1, CenterInvariance, PTL DEF Spec
<1>. QED  BY <1>2 DEF QueueIsHonest, Honest

----------------------------------------------------------------------------
(* Rounding *)

\* Quotient and remainder.
LEMMA DivIs ==
  ASSUME NEW t \in Nat, NEW d \in Nat \ {0}
  PROVE  /\ t \div d \in Nat /\ t % d \in Nat /\ t % d < d
         /\ t = (t \div d) * d + (t % d)
<1>1. t \div d \in Nat
  OBVIOUS
<1>2. t % d \in Nat /\ t % d < d
  OBVIOUS
<1>3. t = (t \div d) * d + (t % d)
  OBVIOUS
<1>. QED  BY <1>1, <1>2, <1>3

\* What is rounded is off by half a unit at the most.
LEMMA HalfUpIs ==
  ASSUME NEW n \in Nat, NEW d \in Nat \ {0}
  PROVE  /\ RoundHalfUp(n, d) \in Nat
         /\ 2 * (RoundHalfUp(n, d) * d) <= 2 * n + d
         /\ 2 * n < 2 * (RoundHalfUp(n, d) * d) + d
<1>. DEFINE q == (2 * n + d) \div (2 * d)
            r == (2 * n + d) % (2 * d)
<1>1. 2 * n + d \in Nat /\ 2 * d \in Nat \ {0}
  OBVIOUS
<1>2. q \in Nat /\ r \in Nat /\ r < 2 * d /\ 2 * n + d = q * (2 * d) + r
  BY <1>1, DivIs
<1>3. RoundHalfUp(n, d) = q
  BY DEF RoundHalfUp
<1>. HIDE DEF q, r
<1>4. q * (2 * d) = 2 * (q * d)
  BY <1>2
<1>. QED  BY <1>2, <1>3, <1>4

\* x is the quotient of n by d with its remainder.
Quotient(n, d, x) ==
  \E q, r \in Nat : x = [q |-> q, r |-> r] /\ r < d /\ n = q * d + r

\* A digit more of the quotient of n is the quotient of 10 * n.
LEMMA DigitIs ==
  ASSUME NEW n \in Nat, NEW d \in Nat \ {0}, NEW x, Quotient(n, d, x)
  PROVE  Quotient(10 * n, d, Digit(x, d))
<1>1. PICK q, r \in Nat : x = [q |-> q, r |-> r] /\ r < d /\ n = q * d + r
  BY DEF Quotient
<1>. DEFINE a == (10 * r) \div d
            b == (10 * r) % d
<1>2. a \in Nat /\ b \in Nat /\ b < d /\ 10 * r = a * d + b
  <2>1. 10 * r \in Nat
    OBVIOUS
  <2>. QED  BY <2>1, DivIs
<1>3. Digit(x, d) = [q |-> 10 * q + a, r |-> b]
  BY <1>1 DEF Digit
<1>. HIDE DEF a, b
<1>4. (10 * q + a) * d + b = 10 * (q * d + r)
  BY <1>2
<1>5. 10 * n = (10 * q + a) * d + b /\ 10 * q + a \in Nat
  BY <1>1, <1>2, <1>4
<1>. QED  BY <1>2, <1>3, <1>5 DEF Quotient

\* A rate is off by half a unit at the most, too.
LEMMA RateIs ==
  ASSUME NEW n \in Nat, NEW d \in Nat, n < d
  PROVE  /\ Rate(n, d) \in 0..Quant
         /\ 2 * (Rate(n, d) * d) <= 2 * (Quant * n) + d
         /\ 2 * (Quant * n) < 2 * (Rate(n, d) * d) + d
<1>. DEFINE x0 == [q |-> 0, r |-> n]
            x1 == Digit(x0, d)
            x2 == Digit(x1, d)
            x3 == Digit(x2, d)
            x4 == Digit(x3, d)
<1>1. d \in Nat \ {0} /\ 10 * n \in Nat /\ 10 * (10 * n) \in Nat /\ 10 * (10 * (10 * n)) \in Nat
  OBVIOUS
<1>2. Quotient(n, d, x0)
  <2>1. 0 \in Nat /\ n = 0 * d + n
    OBVIOUS
  <2>. QED  BY <2>1 DEF Quotient
<1>3. x4.q + (IF 2 * x4.r >= d THEN 1 ELSE 0) = Rate(n, d)
  BY DEF Rate
<1>. HIDE DEF x0
<1>4. Quotient(10 * n, d, x1)
  BY <1>1, <1>2, DigitIs
<1>. HIDE DEF x1
<1>5. Quotient(10 * (10 * n), d, x2)
  BY <1>1, <1>4, DigitIs
<1>. HIDE DEF x2
<1>6. Quotient(10 * (10 * (10 * n)), d, x3)
  BY <1>1, <1>5, DigitIs
<1>. HIDE DEF x3
<1>7. Quotient(10 * (10 * (10 * (10 * n))), d, x4)
  BY <1>1, <1>6, DigitIs
<1>. HIDE DEF x4
<1>8. PICK e, v \in Nat : x4 = [q |-> e, r |-> v] /\ v < d /\ 10 * (10 * (10 * (10 * n))) = e * d + v
  BY <1>7 DEF Quotient
<1>9. Rate(n, d) = e + IF 2 * v >= d THEN 1 ELSE 0
  BY <1>3, <1>8
<1>10. Quant * n = e * d + v
  BY <1>8 DEF Quant
<1>11. e < Quant
  <2>. SUFFICES ASSUME e >= Quant PROVE FALSE
    BY DEF Quant
  <2>1. e * d >= Quant * d
    BY DEF Quant
  <2>2. Quant * n < Quant * d
    BY DEF Quant
  <2>3. e * d \in Nat /\ Quant * d \in Nat /\ Quant * n \in Nat
    BY DEF Quant
  <2>. QED  BY <1>10, <2>1, <2>2, <2>3
<1>12. (e + 1) * d = e * d + d /\ (e + 0) * d = e * d /\ e * d \in Nat
  OBVIOUS
<1>13. CASE 2 * v >= d
  <2>1. Rate(n, d) = e + 1
    BY <1>9, <1>13
  <2>. QED  BY <1>8, <1>10, <1>11, <1>12, <1>13, <2>1 DEF Quant
<1>14. CASE ~(2 * v >= d)
  <2>1. Rate(n, d) = e + 0
    BY <1>9, <1>14
  <2>. QED  BY <1>8, <1>10, <1>11, <1>12, <1>14, <2>1 DEF Quant
<1>. QED  BY <1>13, <1>14

\* The smaller of two numbers.
LEMMA LeastOf ==
  ASSUME NEW a \in Nat, NEW b \in Nat
  PROVE  Min({a, b}) \in {a, b} /\ Min({a, b}) <= a /\ Min({a, b}) <= b
<1>1. \E x \in {a, b} : \A y \in {a, b} : x <= y
  <2>1. CASE a <= b
    BY <2>1
  <2>2. CASE b <= a
    BY <2>2
  <2>. QED  BY <2>1, <2>2
<1>2. Min({a, b}) \in {a, b} /\ \A y \in {a, b} : Min({a, b}) <= y
  BY <1>1 DEF Min
<1>. QED  BY <1>2

----------------------------------------------------------------------------
(* A simulation *)

\* What a simulation is given.
LEMMA RequestIs ==
  ASSUME NEW c \in Costs, NEW s \in Sales, NEW r \in Requests
  PROVE  /\ c \in Nat \ {0} /\ s \in Nat \ {0}
         /\ r.maxDiscount \in Nat /\ r.minMargin \in Nat /\ Unit - r.minMargin \in Nat \ {0}
         /\ r.budget \in Nat \ {0}
<1>1. r.maxDiscount \in MaxDiscounts /\ r.minMargin \in MinMargins /\ r.budget \in Budgets
  BY DEF Requests
<1>2. c \in Nat \ {0} /\ s \in Nat \ {0}
  BY PricesAssumption
<1>3. r.maxDiscount \in Nat
  <2>1. r.maxDiscount \in 0..MaxRate
    BY <1>1, RatesAssumption
  <2>. QED  BY <2>1
<1>5. r.minMargin \in Nat /\ Unit - r.minMargin \in Nat \ {0}
  <2>1. r.minMargin \in 0..Unit - 1
    BY <1>1, RatesAssumption
  <2>2. Unit \in Nat
    BY DEF Unit
  <2>. QED  BY <2>1, <2>2
<1>4. r.budget \in Nat \ {0}
  BY <1>1, BudgetsAssumption
<1>. QED  BY <1>2, <1>3, <1>4, <1>5

\* The discount is within the rounded maximum.
LEMMA DiscountIs ==
  ASSUME NEW c \in Costs, NEW s \in Sales, NEW r \in Requests
  PROVE  /\ Discount(c, s, r) \in 0..Quant
         /\ r.maxDiscount % 10 = 0 => 10 * Discount(c, s, r) <= r.maxDiscount
<1>. DEFINE m == RoundHalfUp(r.maxDiscount, 10)
            b == ByMargin(c, s, r)
            d == s * (Unit - r.minMargin)
<1>1. /\ r.maxDiscount \in Nat /\ Unit - r.minMargin \in Nat \ {0}
      /\ c \in Nat \ {0} /\ s \in Nat \ {0}
  BY RequestIs
<1>2. m \in Nat /\ 2 * (m * 10) <= 2 * r.maxDiscount + 10 /\ 2 * r.maxDiscount < 2 * (m * 10) + 10
  <2>1. 10 \in Nat \ {0} /\ r.maxDiscount \in Nat
    BY <1>1
  <2>. QED  BY <2>1, HalfUpIs
<1>3. r.maxDiscount % 10 = 0 => 10 * m <= r.maxDiscount
  <2>. SUFFICES ASSUME r.maxDiscount % 10 = 0 PROVE 10 * m <= r.maxDiscount
    OBVIOUS
  <2>1. r.maxDiscount = 10 * (r.maxDiscount \div 10) /\ r.maxDiscount \div 10 \in Nat
    BY <1>1
  <2>. HIDE DEF m
  <2>. QED  BY <1>2, <2>1
<1>4. d \in Nat /\ c * Unit \in Nat \ {0}
  BY <1>1 DEF Unit
<1>5. b \in 0..Quant
  <2>1. b = IF c * Unit >= d THEN 0 ELSE Rate(d - c * Unit, d)
    BY DEF ByMargin
  <2>. HIDE DEF b, d
  <2>2. CASE c * Unit >= d
    BY <2>1, <2>2 DEF Quant
  <2>3. CASE c * Unit < d
    <3>1. d - c * Unit \in Nat /\ d - c * Unit < d
      BY <1>4, <2>3 DEF Unit
    <3>. QED  BY <1>4, <2>1, <2>3, <3>1, RateIs
  <2>. QED  BY <1>4, <2>2, <2>3
<1>6. Discount(c, s, r) = Min({m, b})
  BY DEF Discount
<1>. HIDE DEF m, b, d
<1>7. b \in Nat /\ b <= Quant
  BY <1>5 DEF Quant
<1>8. Min({m, b}) \in {m, b} /\ Min({m, b}) <= m /\ Min({m, b}) <= b
  BY <1>2, <1>7, LeastOf
<1>9. Discount(c, s, r) \in 0..Quant
  <2>1. Min({m, b}) \in Nat /\ Min({m, b}) <= Quant
    BY <1>2, <1>7, <1>8 DEF Quant
  <2>2. Quant \in Nat
    BY DEF Quant
  <2>. QED  BY <1>6, <2>1, <2>2
<1>10. r.maxDiscount % 10 = 0 => 10 * Discount(c, s, r) <= r.maxDiscount
  BY <1>1, <1>2, <1>3, <1>6, <1>7, <1>8
<1>. QED  BY <1>9, <1>10

\* A discounted price is not above the price.
LEMMA DiscountedIs ==
  ASSUME NEW s \in Nat \ {0}, NEW e \in 0..Quant
  PROVE  Discounted(s, e) \in Nat /\ Discounted(s, e) <= s
<1>. DEFINE n == s * (Quant - e)
            x == Discounted(s, e)
<1>1. n \in Nat /\ n <= s * Quant
  <2>1. Quant - e \in Nat /\ Quant - e <= Quant
    BY DEF Quant
  <2>. QED  BY <2>1 DEF Quant
<1>2. x \in Nat /\ 2 * (x * Quant) <= 2 * n + Quant
  <2>1. x = RoundHalfUp(n, Quant) /\ Quant \in Nat \ {0}
    BY DEF Discounted, Quant
  <2>. HIDE DEF x, n
  <2>. QED  BY <1>1, <2>1, HalfUpIs
<1>. HIDE DEF n, x
<1>3. x <= s
  BY <1>1, <1>2 DEF Quant
<1>. QED  BY <1>2, <1>3 DEF x

\* The exact margin is below the rounded by half a unit at the most.
LEMMA MarginIs ==
  ASSUME NEW c \in Nat \ {0}, NEW s, NEW price \in Nat
  PROVE  /\ Margin(c, s, price) \in 0..Quant
         /\ price > c => 10 * (Margin(c, s, price) * price) <= (price - c) * Unit + 5 * price
<1>1. CASE price > c
  <2>. DEFINE g == Rate(price - c, price)
  <2>1. price - c \in Nat /\ price - c < price
    BY <1>1
  <2>2. g \in 0..Quant /\ 2 * (g * price) <= 2 * (Quant * (price - c)) + price
    BY <2>1, RateIs
  <2>3. Margin(c, s, price) = g
    BY <1>1 DEF Margin
  <2>. HIDE DEF g
  <2>4. g \in Nat /\ g * price \in Nat
    BY <2>2 DEF Quant
  <2>5. Quant * (price - c) = 10000 * (price - c) /\ (price - c) * Unit = 100000 * (price - c)
    BY <2>1 DEF Quant, Unit
  <2>. QED  BY <2>1, <2>2, <2>3, <2>4, <2>5
<1>2. CASE ~(price > c)
  BY <1>2 DEF Margin, Quant
<1>. QED  BY <1>1, <1>2

\* What makes the price of an eligible product sound.
Sound(x, r) ==
  /\ x.cost < x.price /\ x.price <= x.original
  /\ (x.price - x.cost) * Unit + 5 * x.price >= r.minMargin * x.price
  /\ r.maxDiscount % 10 = 0 => PricePasses(x, r)

\* Every simulation of the tool is.
LEMMA SimulatedIs ==
  ASSUME NEW c \in Costs, NEW s \in Sales, NEW r \in Requests
  PROVE  /\ Simulated(c, s, r) \in Simulation
         /\ Simulated(c, s, r).eligible => Sound(Simulated(c, s, r), r)
<1>. DEFINE x == Simulated(c, s, r)
            discount == Discount(c, s, r)
            price == Discounted(s, discount)
            margin == Margin(c, s, price)
<1>1. c \in Nat \ {0} /\ s \in Nat \ {0} /\ r.minMargin \in Nat
  BY RequestIs
<1>2. CASE c >= s
  <2>1. x = [cost |-> c, original |-> s, price |-> s, discount |-> 0, margin |-> 0,
             eligible |-> FALSE]
    BY <1>2 DEF Simulated
  <2>. QED  BY <1>1, <2>1 DEF Simulation, Quant
<1>3. CASE ~(c >= s)
  <2>1. discount \in 0..Quant /\ (r.maxDiscount % 10 = 0 => 10 * discount <= r.maxDiscount)
    BY DiscountIs
  <2>2. price \in Nat /\ price <= s
    <3>. HIDE DEF discount
    <3>. QED  BY <1>1, <2>1, DiscountedIs
  <2>3. /\ margin \in 0..Quant
        /\ price > c => 10 * (margin * price) <= (price - c) * Unit + 5 * price
    <3>. HIDE DEF price
    <3>. QED  BY <1>1, <2>2, MarginIs
  <2>4. x = [cost |-> c, original |-> s, price |-> price, discount |-> discount,
             margin |-> margin, eligible |-> price > c /\ 10 * margin >= r.minMargin]
    BY <1>3 DEF Simulated
  <2>. HIDE DEF x, discount, price, margin
  <2>5. x \in Simulation
    BY <2>1, <2>2, <2>3, <2>4 DEF Simulation
  <2>6. ASSUME x.eligible PROVE Sound(x, r)
    <3>1. price > c /\ 10 * margin >= r.minMargin
      BY <2>4, <2>6
    <3>2. (10 * margin) * price >= r.minMargin * price
      BY <1>1, <2>2, <2>3, <3>1 DEF Quant
    <3>3. (10 * margin) * price = 10 * (margin * price)
      BY <2>2, <2>3 DEF Quant
    <3>4. (price - c) * Unit + 5 * price >= r.minMargin * price
      <4>1. /\ (price - c) * Unit + 5 * price \in Int /\ r.minMargin * price \in Int
            /\ 10 * (margin * price) \in Int
        BY <1>1, <2>2, <2>3 DEF Quant, Unit
      <4>. QED  BY <2>3, <3>1, <3>2, <3>3, <4>1
    <3>5. x.cost = c /\ x.original = s /\ x.price = price /\ x.discount = discount /\ x.margin = margin
      BY <2>4
    <3>6. c < price
      BY <1>1, <2>2, <3>1
    <3>. QED  BY <2>1, <2>2, <2>6, <3>1, <3>4, <3>5, <3>6 DEF Sound, PricePasses
  <2>. QED  BY <2>5, <2>6 DEF x
<1>. QED  BY <1>2, <1>3

----------------------------------------------------------------------------
(* The drafts *)

\* What was simulated is of some price the product had, what passed may be
\* drafted, and nothing is drafted before the first run is.
SimulatedInv ==
  \A p \in DOMAIN pricing :
    \E c \in Costs, s \in Sales : pricing[p] = Simulated(c, s, request)
PassedInv ==
  pc = "passed" => Selected # {} /\ \A p \in Selected : PricePasses(pricing[p], request)
NoDraftsYet ==
  /\ runs = 0 => pc = "idle"
  /\ runs = 0 \/ (runs = 1 /\ pc \in {"simulated", "passed"}) => Drafted = {}

NumbersInv ==
  PromotionTypeOK /\ SimulatedInv /\ PassedInv /\ NoDraftsYet /\ DraftsKeepTheRequest

\* Nothing is simulated or drafted at first.
LEMMA NumbersInit == PromotionInit => NumbersInv
<1>. SUFFICES ASSUME PromotionInit PROVE NumbersInv
  OBVIOUS
<1>1. DOMAIN pricing = {}
  BY DEF PromotionInit
<1>2. Drafted = {}
  BY DEF PromotionInit, Drafted
<1>3. PromotionTypeOK
  BY <1>1, BoundsAssumption DEF PromotionInit, PromotionTypeOK
<1>. QED  BY <1>1, <1>2, <1>3
          DEF PromotionInit, NumbersInv, SimulatedInv, PassedInv, NoDraftsYet, DraftsKeepTheRequest

\* A step that changes neither the request nor the drafts.
LEMMA SameDrafts ==
  ASSUME DraftsKeepTheRequest, request' = request, campaigns' = campaigns,
         pc' = "drafted" /\ runs' = 1 => pc = "drafted" /\ runs = 1
  PROVE  DraftsKeepTheRequest'
<1>1. Drafted' = Drafted
  BY DEF Drafted
<1>. QED  BY <1>1 DEF DraftsKeepTheRequest

\* Prices change under simulations that are made.
LEMMA PriceChangesN == NumbersInv /\ PriceChanges => NumbersInv'
<1>. SUFFICES ASSUME NumbersInv, PriceChanges PROVE NumbersInv'
  OBVIOUS
<1>1. /\ changes < MaxChanges /\ changes' = changes + 1
      /\ UNCHANGED <<request, cost, runs, pc, pricing, campaigns>>
  BY DEF PriceChanges
<1>2. PICK p \in Products, s \in Sales : sale' = [sale EXCEPT ![p] = s]
  BY DEF PriceChanges
<1>3. PromotionTypeOK'
  <2>1. changes' \in 0..MaxChanges
    BY <1>1, BoundsAssumption DEF NumbersInv, PromotionTypeOK
  <2>. QED  BY <1>1, <1>2, <2>1 DEF NumbersInv, PromotionTypeOK
<1>4. SimulatedInv' /\ PassedInv' /\ NoDraftsYet'
  BY <1>1 DEF NumbersInv, SimulatedInv, PassedInv, NoDraftsYet, Selected, Drafted
<1>5. DraftsKeepTheRequest'
  BY <1>1, SameDrafts DEF NumbersInv
<1>. QED  BY <1>3, <1>4, <1>5 DEF NumbersInv

\* A simulation is of the prices of now.
LEMMA SimulateN == NumbersInv /\ Simulate => NumbersInv'
<1>. SUFFICES ASSUME NumbersInv, Simulate PROVE NumbersInv'
  OBVIOUS
<1>1. /\ PromotionTypeOK /\ pc = "idle" /\ runs < MaxRuns /\ runs' = runs + 1
      /\ pc' = "simulated" /\ UNCHANGED <<request, cost, sale, changes, campaigns>>
  BY DEF NumbersInv, Simulate
<1>2. PICK C \in SUBSET Products :
        pricing' = [p \in C |-> Simulated(cost[p], sale[p], request)]
  BY DEF Simulate
<1>3. \A p \in C : cost[p] \in Costs /\ sale[p] \in Sales /\ request \in Requests
  BY <1>1 DEF PromotionTypeOK
<1>4. DOMAIN pricing' = C /\ \A p \in C : pricing'[p] = Simulated(cost[p], sale[p], request)
  BY <1>2
<1>5. PromotionTypeOK'
  <2>1. \A p \in C : pricing'[p] \in Simulation
    BY <1>3, <1>4, SimulatedIs
  <2>2. runs' \in 0..MaxRuns
    BY <1>1, BoundsAssumption DEF PromotionTypeOK
  <2>. QED  BY <1>1, <1>4, <2>1, <2>2 DEF PromotionTypeOK
<1>6. SimulatedInv'
  <2>1. \A p \in C : \E c \in Costs, s \in Sales : pricing'[p] = Simulated(c, s, request)
    BY <1>3, <1>4
  <2>. QED  BY <1>1, <1>4, <2>1 DEF SimulatedInv
<1>7. PassedInv' /\ NoDraftsYet'
  <2>1. Drafted' = Drafted /\ runs \in Nat
    BY <1>1, BoundsAssumption DEF Drafted, PromotionTypeOK
  <2>. QED  BY <1>1, <2>1 DEF NumbersInv, PassedInv, NoDraftsYet
<1>8. DraftsKeepTheRequest'
  BY <1>1, SameDrafts DEF NumbersInv
<1>. QED  BY <1>5, <1>6, <1>7, <1>8 DEF NumbersInv

\* What passes is what the price rules let pass.
LEMMA ReviewN == NumbersInv /\ Review => NumbersInv'
<1>. SUFFICES ASSUME NumbersInv, Review PROVE NumbersInv'
  OBVIOUS
<1>1. /\ pc = "simulated" /\ pc' \in {"passed", "rejected"}
      /\ pc' = "passed" => Selected # {} /\ \A p \in Selected : PricePasses(pricing[p], request)
      /\ UNCHANGED <<request, cost, sale, changes, runs, pricing, campaigns>>
  BY DEF Review
<1>2. PromotionTypeOK' /\ SimulatedInv'
  BY <1>1 DEF NumbersInv, PromotionTypeOK, SimulatedInv
<1>3. PassedInv' /\ NoDraftsYet'
  BY <1>1 DEF NumbersInv, PassedInv, NoDraftsYet, Selected, Drafted, PricePasses
<1>4. DraftsKeepTheRequest'
  BY <1>1, SameDrafts DEF NumbersInv
<1>. QED  BY <1>2, <1>3, <1>4 DEF NumbersInv

\* n shares of a rounded n-th are the whole but for n halves.
LEMMA ShareIs ==
  ASSUME PromotionTypeOK, Selected # {}
  PROVE  LET n == Cardinality(Selected)
             b == PerProduct(request)
         IN  /\ n \in Nat \ {0} /\ b \in Nat
             /\ 2 * (n * b) <= 2 * request.budget + n /\ 2 * request.budget <= 2 * (n * b) + n
<1>. DEFINE n == Cardinality(Selected)
            b == PerProduct(request)
<1>1. Selected \in SUBSET Products
  BY DEF PromotionTypeOK, Selected
<1>2. IsFiniteSet(Selected)
  BY <1>1, ProductsAssumption, FS_Subset
<1>3. n \in Nat \ {0}
  BY <1>2, FS_CardinalityType, FS_EmptySet
<1>4. request.budget \in Nat
  <2>1. request.budget \in Budgets
    BY DEF PromotionTypeOK, Requests
  <2>. QED  BY <2>1, BudgetsAssumption
<1>5. b = RoundHalfUp(request.budget, n)
  BY DEF PerProduct
<1>. HIDE DEF n, b
<1>6. b \in Nat /\ 2 * (b * n) <= 2 * request.budget + n /\ 2 * request.budget < 2 * (b * n) + n
  BY <1>3, <1>4, <1>5, HalfUpIs
<1>7. b * n = n * b /\ n * b \in Nat
  BY <1>3, <1>6
<1>8. 2 * (n * b) <= 2 * request.budget + n /\ 2 * request.budget <= 2 * (n * b) + n
  BY <1>3, <1>4, <1>6, <1>7
<1>. QED  BY <1>3, <1>6, <1>8 DEF n, b

\* Drafts are made of what passed, with the share of the batch.
LEMMA ExecuteN == NumbersInv /\ Execute => NumbersInv'
<1>. SUFFICES ASSUME NumbersInv, Execute PROVE NumbersInv'
  OBVIOUS
<1>. DEFINE b == PerProduct(request)
            n == Cardinality(Selected)
<1>1. /\ PromotionTypeOK /\ pc = "passed"
      /\ Selected # {} /\ \A p \in Selected : PricePasses(pricing[p], request)
      /\ UNCHANGED <<request, cost, sale, changes, runs, pricing>>
  BY DEF NumbersInv, PassedInv, Execute
<1>2. /\ n \in Nat \ {0} /\ b \in Nat
      /\ 2 * (n * b) <= 2 * request.budget + n /\ 2 * request.budget <= 2 * (n * b) + n
  BY <1>1, ShareIs
<1>3. Selected \subseteq Products /\ Selected \subseteq DOMAIN pricing
  BY <1>1 DEF PromotionTypeOK, Selected
<1>4. CASE pc' = "failed" /\ campaigns' = campaigns
  <2>1. PromotionTypeOK' /\ SimulatedInv' /\ PassedInv'
    BY <1>1, <1>4 DEF NumbersInv, PromotionTypeOK, SimulatedInv, PassedInv
  <2>2. NoDraftsYet'
    BY <1>1, <1>4 DEF NumbersInv, NoDraftsYet, Drafted
  <2>3. DraftsKeepTheRequest'
    BY <1>1, <1>4, SameDrafts DEF NumbersInv
  <2>. QED  BY <2>1, <2>2, <2>3 DEF NumbersInv
<1>5. CASE /\ b > 0 /\ pc' = "drafted"
           /\ campaigns' = [p \in Products |->
                IF p \in Selected /\ campaigns[p] = NoDraft
                THEN [discount |-> pricing[p].discount, budget |-> b]
                ELSE campaigns[p]]
  <2>1. ASSUME NEW p \in Products, p \in Selected, campaigns[p] = NoDraft
        PROVE  /\ campaigns'[p] = [discount |-> pricing[p].discount, budget |-> b]
               /\ campaigns'[p] \in Drafts /\ campaigns'[p] # NoDraft
    <3>1. campaigns'[p] = [discount |-> pricing[p].discount, budget |-> b]
      BY <1>5, <2>1
    <3>2. pricing[p].discount \in 0..Quant
      BY <1>1, <1>3, <2>1 DEF PromotionTypeOK, Simulation
    <3>3. b \in Nat \ {0}
      BY <1>2, <1>5
    <3>. HIDE DEF b
    <3>4. campaigns'[p] \in Drafts
      BY <3>1, <3>2, <3>3 DEF Drafts
    <3>. QED  BY <3>1, <3>4, NoDraftAssumption
  <2>2. ASSUME NEW p \in Products, ~(p \in Selected /\ campaigns[p] = NoDraft)
        PROVE  campaigns'[p] = campaigns[p]
    BY <1>5, <2>2
  <2>. HIDE DEF b, n
  <2>3. PromotionTypeOK'
    <3>1. \A p \in Products : campaigns'[p] \in Drafts \cup {NoDraft}
      BY <1>1, <2>1, <2>2 DEF PromotionTypeOK
    <3>2. campaigns' = [p \in Products |-> campaigns'[p]]
      BY <1>5
    <3>3. campaigns' \in [Products -> Drafts \cup {NoDraft}]
      BY <3>1, <3>2
    <3>. QED  BY <1>1, <1>5, <3>3 DEF PromotionTypeOK
  <2>4. SimulatedInv' /\ PassedInv'
    BY <1>1, <1>5 DEF NumbersInv, SimulatedInv, PassedInv
  <2>5. NoDraftsYet'
    <3>1. runs # 0
      BY <1>1 DEF NumbersInv, NoDraftsYet
    <3>. QED  BY <1>1, <1>5, <3>1 DEF NoDraftsYet
  <2>6. \A p \in Drafted' : 10 * campaigns'[p].discount <= request.maxDiscount
    <3>1. ASSUME NEW p \in Products, p \in Selected, campaigns[p] = NoDraft
          PROVE  10 * campaigns'[p].discount <= request.maxDiscount
      <4>1. campaigns'[p] = [discount |-> pricing[p].discount, budget |-> b]
        BY <2>1, <3>1
      <4>. QED  BY <1>1, <3>1, <4>1 DEF PricePasses
    <3>2. ASSUME NEW p \in Products, ~(p \in Selected /\ campaigns[p] = NoDraft), campaigns'[p] # NoDraft
          PROVE  10 * campaigns'[p].discount <= request.maxDiscount
      <4>1. campaigns'[p] = campaigns[p] /\ p \in Drafted
        BY <2>2, <3>2 DEF Drafted
      <4>. QED  BY <4>1 DEF NumbersInv, DraftsKeepTheRequest
    <3>. QED  BY <3>1, <3>2 DEF Drafted
  <2>7. ASSUME runs' = 1
        PROVE  Drafted' = Selected /\ \A p \in Drafted' : campaigns'[p].budget = b
    <3>1. \A p \in Products : campaigns[p] = NoDraft
      BY <1>1, <2>7 DEF NumbersInv, NoDraftsYet, Drafted
    <3>2. \A p \in Products : campaigns'[p] # NoDraft <=> p \in Selected
      BY <2>1, <2>2, <3>1
    <3>3. Drafted' = Selected
      BY <1>3, <3>2 DEF Drafted
    <3>4. \A p \in Selected : campaigns'[p] = [discount |-> pricing[p].discount, budget |-> b]
      BY <1>3, <2>1, <3>1
    <3>5. ASSUME NEW p \in Selected PROVE campaigns'[p].budget = b
      <4>1. campaigns'[p] = [discount |-> pricing[p].discount, budget |-> b]
        BY <3>4
      <4>. QED  BY <4>1
    <3>. QED  BY <3>3, <3>5
  <2>8. DraftsKeepTheRequest'
    <3>1. ASSUME runs' = 1, NEW p \in Drafted'
          PROVE  /\ Cardinality(Drafted') = n /\ campaigns'[p].budget = b
                 /\ 2 * (n * b) <= 2 * request.budget + n /\ 2 * request.budget <= 2 * (n * b) + n
      BY <1>2, <2>7, <3>1 DEF n
    <3>2. Cardinality(Drafted)' = Cardinality(Drafted')
      OBVIOUS
    <3>. QED  BY <1>1, <2>6, <3>1, <3>2 DEF DraftsKeepTheRequest
  <2>. QED  BY <2>3, <2>4, <2>5, <2>8 DEF NumbersInv
<1>. QED  BY <1>4, <1>5 DEF Execute, PositiveBudget

\* The next run starts from the drafts that are there.
LEMMA AnswerN == NumbersInv /\ Answer => NumbersInv'
<1>. SUFFICES ASSUME NumbersInv, Answer PROVE NumbersInv'
  OBVIOUS
<1>1. /\ pc \in {"rejected", "drafted", "failed"} /\ pc' = "idle" /\ pricing' = <<>>
      /\ UNCHANGED <<request, cost, sale, changes, runs, campaigns>>
  BY DEF Answer
<1>2. DOMAIN pricing' = {}
  BY <1>1
<1>3. PromotionTypeOK' /\ SimulatedInv' /\ PassedInv'
  BY <1>1, <1>2 DEF NumbersInv, PromotionTypeOK, SimulatedInv, PassedInv
<1>4. NoDraftsYet'
  BY <1>1 DEF NumbersInv, NoDraftsYet, Drafted
<1>5. DraftsKeepTheRequest'
  BY <1>1, SameDrafts DEF NumbersInv
<1>. QED  BY <1>3, <1>4, <1>5 DEF NumbersInv

\* So every step keeps the numbers.
LEMMA NumbersStep == NumbersInv /\ [PromotionNext]_promotionVars => NumbersInv'
<1>. SUFFICES ASSUME NumbersInv, [PromotionNext]_promotionVars PROVE NumbersInv'
  OBVIOUS
<1>1. CASE UNCHANGED promotionVars
  BY <1>1 DEF promotionVars, NumbersInv, PromotionTypeOK, SimulatedInv, PassedInv, NoDraftsYet,
              DraftsKeepTheRequest, Selected, Drafted
<1>. QED  BY <1>1, PriceChangesN, SimulateN, ReviewN, ExecuteN, AnswerN DEF PromotionNext

\* The numbers of every run are of their types, and of products' prices.
THEOREM NumbersType == PromotionSpec => []NumbersInv
BY NumbersInit, NumbersStep, PTL DEF PromotionSpec

\* For any prices in cents and rates of five digits: an eligible price is above cost, not
\* above the old price, and its exact margin below the request's by half a unit
\* of rounding at the most; and what the simulation selects passes the review
\* when the request's rates have four digits.
THEOREM SelectionSound == PromotionSpec => []SelectionIsSound
<1>1. NumbersInv => SelectionIsSound
  <2>. SUFFICES ASSUME NumbersInv, NEW p \in Selected PROVE Sound(pricing[p], request)
    BY DEF SelectionIsSound, Sound
  <2>1. p \in DOMAIN pricing /\ pricing[p].eligible
    BY DEF Selected
  <2>2. PICK c \in Costs, s \in Sales : pricing[p] = Simulated(c, s, request)
    BY <2>1 DEF NumbersInv, SimulatedInv
  <2>3. request \in Requests
    BY DEF NumbersInv, PromotionTypeOK
  <2>. QED  BY <2>1, <2>2, <2>3, SimulatedIs
<1>. QED  BY <1>1, NumbersType, PTL

\* No draft has a larger discount than the request allows, whichever run made
\* it, and the drafts of a batch have equal shares of its budget, for any budget
\* and number of products.
THEOREM DraftsKeep == PromotionSpec => []DraftsKeepTheRequest
<1>1. NumbersInv => DraftsKeepTheRequest
  BY DEF NumbersInv
<1>. QED  BY <1>1, NumbersType, PTL
=============================================================================
