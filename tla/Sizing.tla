------------------------------- MODULE Sizing -------------------------------
(***************************************************************************)
(* From an amount to an order Binance accepts                              *)
(* (exchange_vault/binance_preflight.py): the read-only preflight of a     *)
(* key, the quantity planned for an amount of USDT, the rounding every     *)
(* order passes on its way to the exchange, and the row that remembers     *)
(* what was asked for.  Quantities are counted in the smallest unit any    *)
(* step may have, prices in units too; what floats make of a quotient or a *)
(* product is a hair off at most, less than half a unit.                   *)
(***************************************************************************)
EXTENDS Integers, FiniteSets

CONSTANTS
    Filters,        \* sets of trading filters a symbol may have
    Amounts,        \* amounts of USDT to be risked
    PriceRange,
    Quantities,     \* quantities a caller of the API may ask for
    Hairs,          \* where a float may be: -1 below the number, 0 on it, 1 above it
    FailAt, WarnAt  \* CLOCK_FAIL_MS and CLOCK_WARN_MS

NoAmount == 0

ConstantsOK ==
    /\ Filters \subseteq [found : BOOLEAN, trading : BOOLEAN, step : Nat \ {0}, minQty : Nat,
                    maxQty : Nat, minNotional : Nat]
    /\ Hairs \subseteq {-1, 0, 1}
    /\ Amounts \subseteq Nat \ {NoAmount} /\ PriceRange \subseteq Nat \ {0} /\ Quantities \subseteq Nat
    /\ WarnAt \in Nat /\ FailAt \in Nat /\ WarnAt <= FailAt

VARIABLES
    filters, price,
    checks,     \* of the preflight, "ok", "warn" or "fail" by name
    asked,      \* the quantity asked for, the filters known then, and the amount it was planned for
    held,       \* the quantity the exchange holds
    row,        \* the quantity of the app's position
    at          \* "order", "open" or "done"

vars == <<filters, price, checks, asked, held, row, at>>

\* round_step_down and round_step_up of the quotient a / b, which is a hair h off.
Down(a, b, step, h) == step * ((2 * a + h) \div (2 * (b * step)))
Up(a, b, step, h) == step * ((2 * a + h + 2 * (b * step) - 1) \div (2 * (b * step)))
Larger(a, b) == IF a >= b THEN a ELSE b

\* Where the floats are: amount / price, min_notional / price, qty * price.
Noise == [paid : Hairs, least : Hairs, worth : Hairs]

\* What Binance takes: LOT_SIZE and MIN_NOTIONAL.  The most that LOT_SIZE allows is not read.
Accepts(f, qty, p) ==
    qty > 0 /\ qty % f.step = 0 /\ qty >= f.minQty /\ qty <= f.maxQty /\ qty * p >= f.minNotional

\* The quantity that pays the amount, rounded down, then up to what LOT_SIZE asks: decimals
\* of strings, which are exact.
Enough(f, p, amount, n) ==
    LET first == Down(amount, p, f.step, n.paid)
    IN IF first < f.minQty THEN Up(f.minQty, 1, f.step, 0) ELSE first
\* check_min_notional fails.
Low(f, p, qty, n) == f.minNotional > 0 /\ 2 * (qty * p) + n.worth < 2 * f.minNotional

\* Mutant of PlannedQty: the least quantity for the notional is rounded down.
PlannedBelow(f, p, amount, n) ==
    LET enough == Enough(f, p, amount, n)
    IN IF Low(f, p, enough, n) THEN Larger(enough, Down(f.minNotional, p, f.step, n.least)) ELSE enough

\* Then up to what the notional asks, with the minimal quantity once more.  What is low still
\* is refused, as nothing is.
PlannedQty(f, p, amount, n) ==
    LET enough == Enough(f, p, amount, n)
        least == Up(f.minNotional, p, f.step, n.least)
        bumped == IF least < f.minQty THEN Up(f.minQty, 1, f.step, 0) ELSE least
        planned == IF Low(f, p, enough, n) THEN bumped ELSE enough
    IN IF Low(f, p, planned, n) THEN 0 ELSE planned

\* plan_order_quantity; 0 is a refusal.
Plan(f, p, amount, n) == IF f.found /\ f.trading THEN PlannedQty(f, p, amount, n) ELSE 0

\* enforce_order_precision: rounded down, 0 being a refusal; without filters it is let through.
Enforced(f, qty) ==
    LET rounded == Down(qty, 1, f.step, 0)
    IN IF ~f.found THEN qty ELSE IF rounded < f.minQty THEN 0 ELSE rounded

-----------------------------------------------------------------------------
ClockCheck(skew) ==
    LET size == IF skew < 0 THEN -skew ELSE skew
    IN IF size >= FailAt THEN "fail" ELSE IF size >= WarnAt THEN "warn" ELSE "ok"

\* run_binance_preflight orders nothing: each read may fail; a balance of nothing is a warning that is not ok.
Reads == {"clock_skew", "account_read", "balance_positive", "symbol_filters", "positions_read"}
Outcome(skew, balance, answered) ==
    [c \in answered \cup (Reads \ {"balance_positive"}) |->
        IF c \notin answered THEN "fail"
        ELSE CASE c = "clock_skew" -> ClockCheck(skew)
               [] c = "balance_positive" -> IF balance > 0 THEN "ok" ELSE "empty"
               [] c = "symbol_filters" -> IF filters.found THEN "ok" ELSE "fail"
               [] OTHER -> "ok"]
\* finalize: every check is ok; a clock that is only warned of is.
Passed(outcome) == \A c \in DOMAIN outcome : outcome[c] \in {"ok", "warn"}

Init ==
    /\ filters \in Filters /\ price \in PriceRange
    /\ checks = <<>> /\ asked = [qty |-> 0, by |-> filters, amount |-> NoAmount]
    /\ held = 0 /\ row = 0 /\ at = "order"

Preflight ==
    /\ at = "order" /\ at' = "done"
    /\ \E skew \in {-FailAt, -WarnAt, 0, WarnAt, FailAt}, balance \in {0, 1}, answered \in SUBSET Reads :
        /\ "balance_positive" \in answered <=> "account_read" \in answered
        /\ checks' = Outcome(skew, balance, answered)
    /\ UNCHANGED <<filters, price, asked, held, row>>

\* An entry goes through the rounding; the row keeps the quantity that was asked for.
Enter(qty, amount) ==
    LET sent == Enforced(filters, qty)
    IN /\ at = "order" /\ asked' = [qty |-> qty, by |-> filters, amount |-> amount]
       /\ IF sent > 0 /\ Accepts(filters, sent, price)
          THEN held' = sent /\ row' = qty /\ at' = "open"
          ELSE at' = "done" /\ UNCHANGED <<held, row>>
       /\ UNCHANGED <<filters, price, checks>>

\* One quotient has one float.
EnterPlanned ==
    \E amount \in Amounts, n \in Noise :
        /\ amount = filters.minNotional => n.paid = n.least
        /\ Enter(Plan(filters, price, amount, n), amount)
EnterAsked == \E qty \in Quantities : Enter(qty, NoAmount)

\* A reduce-only close of the row's quantity; MIN_NOTIONAL does not hold for it.
Close ==
    LET sent == Enforced(filters, row)
    IN /\ at = "open" /\ at' = "done"
       /\ held' = IF sent = 0 THEN held ELSE Larger(0, held - sent)
       /\ UNCHANGED <<filters, price, checks, asked, row>>

\* The exchange changes a symbol's filters while a position is open.
FiltersChange ==
    /\ at = "open" /\ \E f \in Filters : f.found /\ filters' = f
    /\ UNCHANGED <<price, checks, asked, held, row, at>>

Next == Preflight \/ EnterPlanned \/ EnterAsked \/ Close \/ FiltersChange

Spec == Init /\ [][Next]_vars

-----------------------------------------------------------------------------
TypeOK ==
    /\ filters \in Filters /\ price \in PriceRange
    /\ {asked.qty, asked.amount, held, row} \subseteq Nat /\ at \in {"order", "open", "done"}

\* What a plan for an amount has to be: the largest quantity the exchange accepts within the
\* amount, or else the least it accepts at all.
Within(f, p, amount) == {q \in 1 .. amount : Accepts(f, q, p) /\ q * p <= amount}
IsBest(q, f, p, amount) ==
    /\ Accepts(f, q, p)
    /\ IF Within(f, p, amount) # {} THEN \A r \in Within(f, p, amount) : r <= q
       ELSE \A r \in 1 .. q - 1 : ~Accepts(f, r, p)
\* The best but for one step, in either direction.
IsNearBest(q, f, p, amount) ==
    /\ Accepts(f, q, p)
    /\ \A r \in Within(f, p, amount) : r <= q + f.step
    /\ q * p <= amount \/ \A r \in 1 .. q - f.step - 1 : ~Accepts(f, r, p)

\* x is worth a whole number of steps, so that a hair moves its quotient across a step.
Tied(x, f, p) == x > 0 /\ x % (p * f.step) = 0
Ties(f, p, amount) == Tied(amount, f, p) \/ Tied(f.minNotional, f, p)

\* plan_order_quantity returns "a Binance-valid quantity": the best one, up to a step where
\* the amount or the minimal notional is worth a whole number of them, and the rounding an
\* order passes later leaves it as it is.  It refuses only where no minimum asks for a
\* quantity and the amount does not pay one step; or, with such a whole number, where what
\* fits is that very quantity.  This holds of plans that LOT_SIZE's maximum allows.
PlansAreBest ==
    LET f == asked.by
        amount == asked.amount
        ties == Ties(f, price, amount)
    IN (amount # NoAmount /\ f.found /\ f.trading /\ asked.qty <= f.maxQty) =>
        /\ asked.qty # 0 =>
             /\ Enforced(f, asked.qty) = asked.qty
             /\ IF ties THEN IsNearBest(asked.qty, f, price, amount) ELSE IsBest(asked.qty, f, price, amount)
        /\ asked.qty = 0 =>
             IF ties THEN \A r \in Within(f, price, amount) : r * price \in {amount, f.minNotional}
             ELSE Within(f, price, amount) = {} /\ f.minQty = 0 /\ f.minNotional = 0

\* Violated: a plan is "a Binance-valid quantity" (binance_preflight.py:223).  The most that
\* LOT_SIZE allows is not asked.
PlansAreTaken == asked.amount # NoAmount /\ asked.qty > 0 => Accepts(asked.by, asked.qty, price)

\* Violated: a plan is the best quantity, where the amount pays a whole number of steps.
PlansAreExact ==
    asked.amount # NoAmount /\ asked.qty > 0 /\ asked.qty <= asked.by.maxQty =>
        IsBest(asked.qty, asked.by, price, asked.amount)

\* Violated: the row says what the exchange holds.  It keeps the quantity asked for.
RowIsWhatWasBought == at = "open" => row = held

\* Violated once filters change: a close leaves the account flat.
ClosesFlat == (at = "done" /\ row > 0) => held = 0

\* Violated: "WARN is tolerated".  An empty balance is a warning, and fails the preflight.
WarningsAreTolerated ==
    Passed(checks) <=> \A c \in DOMAIN checks : checks[c] # "fail"
=============================================================================
