------------------------------- MODULE Margin -------------------------------
(***************************************************************************)
(* One account's margin: its collateral, its positions in several markets, *)
(* the margin checks of trades, fills and withdrawals, and liquidation     *)
(* (math/margin.rs, math/slippage.rs, liquidate of lib.rs).  Other traders *)
(* move the markets; oracle prices, their validity and the mark twap are   *)
(* inputs.                                                                 *)
(*                                                                         *)
(* Collateral is the quote bank's, a token being worth one unit of quote   *)
(* and negative when borrowed; what conversions in the bank round is       *)
(* BankLedger's.  The account has one resting order at a time; position    *)
(* slots and several orders are UserOrders'.  The spread is 0, and so is   *)
(* curve_update_intensity: the prepeg amm of the margin check is the amm.  *)
(***************************************************************************)
EXTENDS OrderExecution, SequencesExt

CONSTANTS
    Markets,
    Collateral,                 \* what the account starts with
    MARGIN_PRECISION,
    InitialRatio, PartialRatio, MaintenanceRatio,
    MaxDivergence,              \* mark_oracle_divergence, in BID_ASK_SPREAD_PRECISION
    MAX_MARK_TWAP_DIVERGENCE, MAX_LIQUIDATION_SLIPPAGE,
    DustCollateral,             \* QUOTE_PRECISION
    PartialCloseNumerator, PartialCloseDenominator,
    PartialPenaltyNumerator, PartialPenaltyDenominator,
    FullPenaltyNumerator, FullPenaltyDenominator,
    PartialShareDenominator, FullShareDenominator,   \* of the liquidator
    QuoteSizes, OtherSizes,     \* trades tried
    Orders,                     \* orders tried, all in OrderMarket
    OrderMarket,
    Transfers,                  \* deposits and withdrawals tried
    FundingRates,
    Feeds,                      \* oracle prices and mark twaps tried
    MaxSteps                    \* bound on the length of a behaviour

ASSUME MarginAssumption ==
    /\ MARGIN_PRECISION \in Nat \ {0} /\ DustCollateral \in Nat
    /\ MaintenanceRatio \in Nat \ {0}        \* validate_margin
    /\ PartialRatio >= MaintenanceRatio /\ InitialRatio >= PartialRatio
    /\ MARGIN_PRECISION >= InitialRatio
    /\ OrderMarket \in Markets /\ Orders \subseteq Order
    /\ Feeds \subseteq [price : Nat \ {0}, is_valid : BOOLEAN, mark_twap : Nat \ {0}]

VARIABLES
    market,       \* market |-> its amm, aggregates and fees
    position,     \* market |-> the account's position in it
    collateral,
    feed,         \* market |-> oracle price and validity, and the mark twap
    order,        \* the resting order, or NoOrder
    last,         \* history: the last instruction, for the properties
    steps

vars == <<market, position, collateral, feed, order, last, steps>>

NoOrder == [order_type |-> "None"]

Init ==
    /\ market = [m \in Markets |-> initialize_market]
    /\ position = [m \in Markets |-> Flat]
    /\ collateral = Collateral
    /\ feed \in {[m \in Markets |-> f] : f \in {g \in Feeds : g.price = mark_price(initialize_market)
                                                             /\ g.is_valid}}
    /\ order = NoOrder
    /\ last = "init"
    /\ steps = 0

Step(name) == steps < MaxSteps /\ steps' = steps + 1 /\ last' = name

-----------------------------------------------------------------------------
(* Margin.                                                                 *)

value(M, p, m) == calculate_base_asset_value(p[m].base_asset_amount, M[m])
pnl_at(p, m, worth) ==
    IF p[m].base_asset_amount = 0 THEN 0
    ELSE calculate_pnl(worth, p[m].quote_asset_amount,
                       swap_direction_to_close_position(p[m].base_asset_amount))

ValuesPossible(M, p) == \A m \in Markets : ClosePossible(p[m].base_asset_amount, M[m])

calculate_updated_collateral(amount, pnl) ==
    IF pnl < 0 /\ - pnl > amount THEN 0 ELSE amount + pnl

unsettled_pnl(p) == LET unsettled(m) == p[m].unsettled_pnl IN MapThenSumSet(unsettled, Markets)

(* The deposit, with the pnl of open positions and then with settled pnl.  *)
updated_collateral(deposit, unrealized, p) ==
    calculate_updated_collateral(calculate_updated_collateral(deposit, unrealized),
                                 unsettled_pnl(p))

Deposit(c) == IF c > 0 THEN c ELSE 0
Borrow(c) == IF c < 0 THEN - c ELSE 0

total_collateral(M, p, c) ==
    LET unrealized(m) == pnl_at(p, m, value(M, p, m))
    IN updated_collateral(Deposit(c), MapThenSumSet(unrealized, Markets), p)

margin_requirement(M, p, c, ratio) ==
    LET weighted(m) == value(M, p, m) * ratio
    IN Borrow(c) + MapThenSumSet(weighted, Markets) \div MARGIN_PRECISION

(* Mutant: the deposit counts, the positions' losses do not.               *)
meets_initial_margin_requirement_DepositOnly(M, p, c) ==
    Deposit(c) >= margin_requirement(M, p, c, InitialRatio)

meets_initial_margin_requirement(M, p, c) ==
    total_collateral(M, p, c) >= margin_requirement(M, p, c, InitialRatio)

(* The requirement is divided by the precision a second time.              *)
meets_partial_margin_requirement(M, p, c) ==
    total_collateral(M, p, c) >= margin_requirement(M, p, c, PartialRatio) \div MARGIN_PRECISION

-----------------------------------------------------------------------------
(* The oracle's view of a market.                                          *)

calculate_oracle_mark_spread_pct(mk, m) ==
    Quotient((mark_price(mk) - feed[m].price) * BID_ASK_SPREAD_PRECISION, mark_price(mk))

calculate_mark_twap_spread_pct(m) ==
    Quotient((mark_price(market[m]) - feed[m].mark_twap) * BID_ASK_SPREAD_PRECISION,
             feed[m].mark_twap)

is_oracle_mark_too_divergent(pct) == Abs(pct) > MaxDivergence
use_oracle_price_for_margin_calculation(pct) == Abs(pct) > MaxDivergence \div 3

calculate_slippage(worth, base, mark) ==
    (worth * MARK_PRICE_TIMES_AMM_TO_QUOTE_PRECISION_RATIO) \div Abs(base) - mark
calculate_slippage_pct(slippage, mark) == Quotient(slippage * BID_ASK_SPREAD_PRECISION, mark)

value_with_oracle_price(base, price) ==
    (Abs(base) * (IF price > 0 THEN price ELSE 0))
        \div MARK_PRICE_TIMES_AMM_TO_QUOTE_PRECISION_RATIO

-----------------------------------------------------------------------------
(* Liquidation.                                                            *)

(* What the account has at stake in market m, funding settled (p).  Where  *)
(* the oracle is far from the mark, its price counts if that is better for *)
(* the account.                                                            *)
market_status(p, m) ==
    LET base == p[m].base_asset_amount
        worth == value(market, p, m)
        spread == calculate_oracle_mark_spread_pct(market[m], m)
        slippage == calculate_slippage(worth, base, mark_price(market[m]))
        oracle_worth == value_with_oracle_price(base, feed[m].price + slippage)
        better == /\ feed[m].is_valid
                  /\ use_oracle_price_for_margin_calculation(spread)
                  /\ pnl_at(p, m, oracle_worth) > pnl_at(p, m, worth)
        margin_value == IF better THEN oracle_worth ELSE worth
    IN IF base = 0 THEN [value |-> 0, pnl |-> 0, adjusted_pnl |-> 0, partial |-> 0,
                         maintenance |-> 0, slippage |-> 0, spread |-> 0]
       ELSE [value |-> worth, pnl |-> pnl_at(p, m, worth),
             adjusted_pnl |-> pnl_at(p, m, margin_value),
             partial |-> margin_value * PartialRatio,
             maintenance |-> margin_value * MaintenanceRatio,
             slippage |-> slippage, spread |-> spread]

calculate_liquidation_status(p, c) ==
    LET at == [m \in Markets |-> market_status(p, m)]
        sum(field) == LET f(m) == at[m][field] IN MapThenSumSet(f, Markets)
        partial == sum("partial") \div MARGIN_PRECISION
        maintenance == sum("maintenance") \div MARGIN_PRECISION
        adjusted == updated_collateral(c, sum("adjusted_pnl"), p)
        type == IF adjusted < maintenance THEN "FULL"
                ELSE IF adjusted < partial THEN "PARTIAL" ELSE "NONE"
    IN [markets |-> at, type |-> type, value |-> sum("value"),
        total |-> updated_collateral(c, sum("pnl"), p), adjusted |-> adjusted,
        requirement |-> IF type = "FULL" THEN maintenance ELSE partial,
        key |-> [m \in Markets |-> (IF type = "FULL" THEN at[m].maintenance ELSE at[m].partial)
                                       \div MARGIN_PRECISION]]

(* The markets with the largest requirements first; among equal ones the   *)
(* slots decide.                                                           *)
MarketSequences(status) ==
    {o \in SetToSeqs(Markets) :
        \A i, j \in DOMAIN o : i < j => status.key[o[i]] >= status.key[o[j]]}

(* Without a valid oracle a mark far from its twap blocks the market.      *)
TwapBlocks(m) == /\ ~ feed[m].is_valid
                 /\ Abs(calculate_mark_twap_spread_pct(m)) >= MAX_MARK_TWAP_DIVERGENCE

TooLarge(pct) == Abs(pct) > MAX_LIQUIDATION_SLIPPAGE

(* Trading with this slippage would take the mark further from the oracle  *)
(* than the limit, and further than it is.                                 *)
Diverges(status, m, pct) ==
    LET spread == status.markets[m].spread
        after == spread + (IF ~ TooLarge(pct) THEN pct
                           ELSE IF pct > 0 THEN 2 * MAX_LIQUIDATION_SLIPPAGE
                                           ELSE - 2 * MAX_LIQUIDATION_SLIPPAGE)
    IN feed[m].is_valid /\ is_oracle_mark_too_divergent(after) /\ Abs(spread) < Abs(after)

(* Mutant: the quotient is upside down.                                    *)
within_slippage_Inverted(amount, pct) ==
    IF TooLarge(pct) THEN (amount * Abs(pct)) \div MAX_LIQUIDATION_SLIPPAGE ELSE amount

(* As much of amount as slippage allows.                                   *)
within_slippage(amount, pct) ==
    IF TooLarge(pct)
    THEN (amount * MAX_LIQUIDATION_SLIPPAGE) \div Abs(pct) ELSE amount

(* Mutant: the direction of the position itself.                           *)
direction_to_close_Own(base) == IF base > 0 THEN "Long" ELSE "Short"

direction_to_close(base) == IF base > 0 THEN "Short" ELSE "Long"

(* The loops of liquidate: acc is what is done so far.                     *)
Failed(acc) == [acc EXCEPT !.ok = FALSE]

(* Mutant: the pnl of what is closed is dropped.                           *)
liquidated_market_DropsPnl(acc, status, m, t, requirement, penalty, largest, dust) ==
    LET required == acc.requirement - (requirement * t.quote) \div status.markets[m].value
        fee == acc.fee + (penalty * t.quote) \div largest
    IN IF ~ t.ok \/ largest = 0 THEN Failed(acc)
       ELSE IF required < 0 \/ fee > status.adjusted THEN Failed(acc)
       ELSE [acc EXCEPT
                !.market[m] = t.market, !.position[m] = t.position,
                !.closed = @ + t.quote, !.fee = fee, !.requirement = required,
                !.done = ~ dust /\ required < status.adjusted - fee]

(* Market m was traded with result t: the penalty is charged for the part  *)
(* of the largest amount to close that was closed.                         *)
liquidated_market(acc, status, m, t, requirement, penalty, largest, dust) ==
    LET required == acc.requirement - (requirement * t.quote) \div status.markets[m].value
        fee == acc.fee + (penalty * t.quote) \div largest
    IN IF ~ t.ok \/ largest = 0 THEN Failed(acc)
       ELSE IF required < 0 \/ fee > status.adjusted THEN Failed(acc)
       ELSE [acc EXCEPT
                !.market[m] = t.market,
                !.position[m] = [t.position EXCEPT !.unsettled_pnl = @ + t.pnl],
                !.closed = @ + t.quote, !.fee = fee, !.requirement = required,
                !.done = ~ dust /\ required < status.adjusted - fee]

(* An account with next to no collateral left is closed as well.           *)
IsFull(status) == status.type = "FULL" \/ status.adjusted =< DustCollateral

(* The slippage of what is to be closed: a quarter of that of the whole    *)
(* position when only a share of it is.                                    *)
slippage_pct(status, m) ==
    LET slippage == status.markets[m].slippage
    IN calculate_slippage_pct(IF IsFull(status) THEN slippage ELSE Quotient(slippage, 4),
                              mark_price(market[m]))

share_to_close(amount) == (amount * PartialCloseNumerator) \div PartialCloseDenominator

(* The quote amount to reduce the position by.                             *)
quote_to_close(status, m) ==
    within_slippage(IF IsFull(status) THEN status.markets[m].value
                                      ELSE share_to_close(status.markets[m].value),
                    slippage_pct(status, m))

Reduce(status, m, p) ==
    reduce(market[m], p, direction_to_close(p.base_asset_amount), quote_to_close(status, m), FALSE)

full_liquidation(acc, status, m) ==
    LET at == status.markets[m]
        p == acc.position[m]
        pct == slippage_pct(status, m)
    IN IF acc.done \/ at.value = 0 \/ TwapBlocks(m) \/ Diverges(status, m, pct) THEN acc
       ELSE liquidated_market(acc, status, m,
                IF TooLarge(pct) THEN Reduce(status, m, p) ELSE close(market[m], p, NoLimit, FALSE),
                at.maintenance \div MARGIN_PRECISION,
                (status.total * FullPenaltyNumerator) \div FullPenaltyDenominator,
                status.value, status.adjusted =< DustCollateral)

(* Mutant: the penalty of a full liquidation.                              *)
partial_liquidation_FullPenalty(acc, status, m) ==
    LET at == status.markets[m]
    IN IF acc.done \/ at.value = 0 \/ TwapBlocks(m) THEN acc
       ELSE IF Diverges(status, m, slippage_pct(status, m)) THEN Failed(acc)
       ELSE liquidated_market(acc, status, m, Reduce(status, m, acc.position[m]),
                at.partial \div MARGIN_PRECISION,
                (status.total * FullPenaltyNumerator) \div FullPenaltyDenominator,
                share_to_close(status.value), FALSE)

(* Here divergence fails the instruction.                                  *)
partial_liquidation(acc, status, m) ==
    LET at == status.markets[m]
    IN IF acc.done \/ at.value = 0 \/ TwapBlocks(m) THEN acc
       ELSE IF Diverges(status, m, slippage_pct(status, m)) THEN Failed(acc)
       ELSE liquidated_market(acc, status, m, Reduce(status, m, acc.position[m]),
                at.partial \div MARGIN_PRECISION,
                (status.total * PartialPenaltyNumerator) \div PartialPenaltyDenominator,
                share_to_close(status.value), FALSE)

settled == [m \in Markets |-> settle_funding(market[m], position[m])]

(* What liquidating the account does, its markets taken in this order.     *)
liquidation(status, sequence) ==
    FoldLeft(LAMBDA acc, m : IF ~ acc.ok THEN acc
                             ELSE IF IsFull(status) THEN full_liquidation(acc, status, m)
                             ELSE partial_liquidation(acc, status, m),
             [ok |-> TRUE, done |-> FALSE, market |-> market, position |-> settled,
              closed |-> 0, fee |-> 0, requirement |-> status.requirement], sequence)

(* Something was closed.                                                   *)
Done(l) == l.ok /\ l.closed # 0

liquidator_share(status) ==
    IF IsFull(status) THEN FullShareDenominator ELSE PartialShareDenominator

Applied(self, l, share) ==
    /\ Done(l)
    /\ market' = l.market
    /\ position' = l.position
    /\ collateral' = collateral - l.fee + (IF self THEN l.fee \div share ELSE 0)

(* Anyone may liquidate, the account itself included.                      *)
Liquidated(self, status) ==
    /\ status.type # "NONE"
    /\ \E sequence \in MarketSequences(status) :
          Applied(self, liquidation(status, sequence), liquidator_share(status))

(* An account that has borrowed makes the status panic.                    *)
CanBeAssessed == collateral >= 0 /\ ValuesPossible(market, settled)

liquidate(self) ==
    /\ Step(IF self THEN "self" ELSE "liquidate")
    /\ CanBeAssessed
    /\ Liquidated(self, calculate_liquidation_status(settled, collateral))
    /\ UNCHANGED <<feed, order>>

-----------------------------------------------------------------------------
(* Trades.                                                                 *)

(* It increases the position, or turns it round and leaves at least as     *)
(* much on the other side.                                                 *)
potentially_risk_increasing(existing, direction, amount, worth) ==
    SameSide(direction, existing) \/ amount >= 2 * worth

(* A valid oracle refuses a trade that takes the mark out of the limit, or *)
(* further out if it increases risk.                                       *)
DivergenceAllows(m, before, after, risk) ==
    LET pct_before == calculate_oracle_mark_spread_pct(before, m)
        pct_after == calculate_oracle_mark_spread_pct(after, m)
    IN (feed[m].is_valid /\ is_oracle_mark_too_divergent(pct_after)) =>
           /\ is_oracle_mark_too_divergent(pct_before)
           /\ risk => Abs(pct_after) < Abs(pct_before)

TradeName(m, direction) ==
    IF SameSide(direction, position[m].base_asset_amount) THEN "increase" ELSE "trade"

Traded(m, t, user_fee, to_market, rate) ==
    /\ LET f == funded(charge(t, to_market), rate)
       IN f.ok /\ market' = [market EXCEPT ![m] = f.market]
    /\ position' = [settled EXCEPT ![m] =
           [t.position EXCEPT !.unsettled_pnl = @ + t.pnl - user_fee]]
    /\ UNCHANGED <<collateral, feed>>

Realised(p, m, t, pnl) == [p EXCEPT ![m] = [t.position EXCEPT !.unsettled_pnl = @ + pnl]]

(* The checks on trade t in market m, p being the positions after it; a    *)
(* post-only fill need only meet the partial requirement.                  *)
TradeAllowed(m, t, p, risk, post_only) ==
    LET M == [market EXCEPT ![m] = t.market]
    IN /\ ValuesPossible(M, p)
       /\ risk => IF post_only THEN meets_partial_margin_requirement(M, p, collateral)
                               ELSE meets_initial_margin_requirement(M, p, collateral)
       /\ DivergenceAllows(m, market[m], t.market, risk)

(* The margin is checked before the pnl of the trade is realised.          *)
Opened(m, direction, t, rate) ==
    /\ t.ok
    /\ TradeAllowed(m, t, Realised(settled, m, t, 0),
                    potentially_risk_increasing(position[m].base_asset_amount, direction, t.quote,
                                                value(market, position, m)),
                    FALSE)
    /\ Traded(m, t, trade_fee(t), trade_fee(t) + t.surplus, rate)

open_position(m, direction, quote, rate) ==
    /\ Step(TradeName(m, direction)) /\ quote # 0
    /\ Opened(m, direction,
              update_position_with_quote_asset_amount(market[m], settled[m], direction, quote),
              rate)
    /\ UNCHANGED order

Closed(m, t, rate) ==
    /\ t.ok
    /\ DivergenceAllows(m, market[m], t.market, FALSE)
    /\ Traded(m, t, trade_fee(t), trade_fee(t) + t.surplus, rate)

close_position(m, rate) ==
    /\ Step("trade")
    /\ Closed(m, close(market[m], settled[m], NoLimit, TRUE), rate)
    /\ UNCHANGED order

-----------------------------------------------------------------------------
(* Orders.                                                                 *)

(* What is left of the collateral once the other markets' requirements are *)
(* met: of all markets, or of all but the one to be closed.                *)
calculate_free_collateral(p, open) ==
    LET weighted(m) == value(market, p, m) * InitialRatio
    IN Max({0, total_collateral(market, p, collateral)
                   - MapThenSumSet(weighted, open) \div MARGIN_PRECISION})

(* Mutant: all of the initial ratio's leverage.                            *)
max_leverage_Whole == MARGIN_PRECISION \div InitialRatio

(* One is added to the ratio so as not to fill up to the requirement.      *)
max_leverage == MARGIN_PRECISION \div (InitialRatio + 1)

calculate_available_quote_asset_user_can_execute(p, m, direction) ==
    IF SameSide(direction, p[m].base_asset_amount)
    THEN calculate_free_collateral(p, Markets) * max_leverage
    ELSE calculate_free_collateral(p, Markets \ {m}) * max_leverage + value(market, p, m)

(* The base that quote amount trades for.                                  *)
calculate_base_asset_amount_user_can_execute(o, p, m) ==
    LET amm == market[m]
        spread == ~ o.post_only /\ amm.base_spread > 0
        base_before == IF spread THEN spread_base_reserve(amm, o.direction)
                                 ELSE amm.base_asset_reserve
        quote_before == IF spread THEN spread_quote_reserve(amm, o.direction)
                                  ELSE amm.quote_asset_reserve
        available == calculate_available_quote_asset_user_can_execute(p, m, o.direction)
        quote == Min({amm.quote_asset_reserve - 1,
                      asset_to_reserve_amount(available, amm.peg_multiplier)})
    IN Abs(base_before
             - calculate_swap_output(quote, quote_before,
                                     IF o.direction = "Long" THEN "Add" ELSE "Remove", amm.sqrt_k))

(* A size that would leave less than the minimum is made up to all of the  *)
(* order; a size below the minimum is nothing.                             *)
made_up(o, size) ==
    LET left == left_to_fill(o) - size
    IN IF size = 0 \/ size < MinBaseTrade THEN 0
       ELSE IF left < MinBaseTrade THEN size + left ELSE size

(* What execute_non_market_order fills of an order.                        *)
SizeToFill(o, p, m) ==
    made_up(o, Min({calculate_base_asset_amount_user_can_execute(o, p, m),
                    calculate_base_asset_amount_market_can_execute(
                        o, market[m], mark_price(market[m]), feed[m])}))

(* update_order_after_trade and the reset of an order that is done.        *)
order_after(o, base) ==
    IF o.order_type = "Market" \/ left_to_fill(o) = base THEN NoOrder
    ELSE [o EXCEPT !.base_asset_amount_filled = @ + base]

FillName(o, m) ==
    IF ~ SameSide(o.direction, position[m].base_asset_amount) THEN "trade"
    ELSE IF o.post_only THEN "increase as maker" ELSE "increase"

(* The account's order is filled by itself or without reward.  The pnl is  *)
(* realised before the check, the fee after it.                            *)
Filled(o, m, t, risk, rate) ==
    LET fees == calculate_fee_for_order(t, o.post_only, 0)
    IN /\ t.ok
       /\ TradeAllowed(m, t, Realised(settled, m, t, t.pnl), risk, o.post_only)
       /\ Traded(m, t, fees.user, fees.to_market, rate)
       /\ order' = order_after(o, t.base)

execute_market_order(o, m, rate) ==
    LET existing == settled[m].base_asset_amount
        by_base == o.base_asset_amount > 0
        risk(t) == IF by_base
                   THEN potentially_risk_increasing(existing, o.direction, t.base, Abs(existing))
                   ELSE potentially_risk_increasing(existing, o.direction, t.quote,
                                                    value(market, position, m))
    IN \E t \in {IF by_base
                 THEN update_position_with_base_asset_amount(market[m], settled[m], o.direction,
                                                             o.base_asset_amount, NoLimit)
                 ELSE update_position_with_quote_asset_amount(market[m], settled[m], o.direction,
                                                              o.quote_asset_amount)} :
          /\ t.ok /\ t.base >= MinBaseTrade
          /\ o.price > 0 => limit_price_satisfied(o.price, t.quote, t.base, o.direction)
          /\ Filled(o, m, t, risk(t), rate)

(* A maker trades at its limit price.                                      *)
execute_non_market_order(o, m, base, rate) ==
    LET existing == settled[m].base_asset_amount
        limit == IF o.post_only THEN get_limit_price(o, feed[m]) ELSE NoLimit
    IN \E t \in {update_position_with_base_asset_amount(market[m], settled[m], o.direction,
                                                       base, limit)} :
          Filled(o, m, t, potentially_risk_increasing(existing, o.direction, base, Abs(existing)),
                 rate)

(* Sizing looks at the free collateral, which panics for a borrower.       *)
SizePossible(o, m) ==
    CanBeAssessed /\ LimitPriceKnown(o, feed[m])

execute_order(o, m, rate) ==
    \/ o.order_type = "Market" /\ execute_market_order(o, m, rate)
    \/ /\ o.order_type # "Market" /\ SizePossible(o, m)
       /\ \E base \in {SizeToFill(o, settled, m)} :
             base > 0 /\ execute_non_market_order(o, m, base, rate)

fill_order(rate) ==
    /\ order # NoOrder
    /\ Step(FillName(order, OrderMarket))
    /\ execute_order(order, OrderMarket, rate)

place_order(o) ==
    /\ Step("place_order")
    /\ order = NoOrder
    /\ validate_order(o, market[OrderMarket], feed[OrderMarket])
    /\ order' = o
    /\ position' = settled
    /\ UNCHANGED <<market, collateral, feed>>

(* An order that is not a market order and cannot be filled now rests.     *)
place_and_fill_order(o, rate) ==
    LET m == OrderMarket
    IN /\ order = NoOrder
       /\ validate_order(o, market[m], feed[m])
       /\ \/ Step(FillName(o, m)) /\ execute_order(o, m, rate)
          \/ /\ Step("place_order")
             /\ o.order_type # "Market" /\ SizePossible(o, m)
             /\ SizeToFill(o, settled, m) = 0
             /\ order' = o
             /\ position' = settled
             /\ UNCHANGED <<market, collateral, feed>>

(* A maker whose price is reached must stay, unless it lacks margin.       *)
check_if_order_can_be_canceled(o, m) ==
    (o.post_only /\ calculate_base_asset_amount_to_trade_for_limit(o, market[m], feed[m]) > 0)
    => /\ ValuesPossible(market, settled)
       /\ ~ meets_initial_margin_requirement(market, settled, collateral)

cancel_order ==
    /\ Step("cancel_order")
    /\ order # NoOrder
    /\ LimitPriceKnown(order, feed[OrderMarket])
    /\ check_if_order_can_be_canceled(order, OrderMarket)
    /\ order' = NoOrder
    /\ position' = settled
    /\ UNCHANGED <<market, collateral, feed>>

-----------------------------------------------------------------------------
(* The rest.                                                               *)

deposit(amount) ==
    /\ Step("deposit")
    /\ collateral' = collateral + amount
    /\ position' = settled
    /\ UNCHANGED <<market, feed, order>>

withdraw(amount) ==
    /\ Step("withdraw")
    /\ ValuesPossible(market, settled)
    /\ collateral' = collateral - amount
    /\ meets_initial_margin_requirement(market, settled, collateral')
    /\ position' = settled
    /\ UNCHANGED <<market, feed, order>>

(* Of a profit, what the pnl pool has; a loss in full, borrowing if need   *)
(* be.                                                                     *)
settle_pnl(m, amount) ==
    /\ Step("settle_pnl")
    /\ LET unsettled == position[m].unsettled_pnl
       IN \/ unsettled > 0 /\ amount \in 1 .. unsettled
          \/ unsettled < 0 /\ amount = unsettled
    /\ position' = [position EXCEPT ![m].unsettled_pnl = @ - amount]
    /\ collateral' = collateral + amount
    /\ UNCHANGED <<market, feed, order>>

update_funding_rate(m, rate) ==
    /\ Step("update_funding_rate")
    /\ funded(market[m], rate).ok
    /\ market' = [market EXCEPT ![m] = funded(@, rate).market]
    /\ UNCHANGED <<position, collateral, feed, order>>

(* Somebody else trades: as far as this account is concerned, a new        *)
(* position.                                                               *)
OthersTrade(m, direction, base) ==
    LET t == increase_with_base_asset_amount(market[m], Flat, direction, base, NoLimit)
    IN /\ Step("OthersTrade")
       /\ t.ok
       /\ DivergenceAllows(m, market[m], t.market, TRUE)
       /\ market' = [market EXCEPT ![m] = charge(t, trade_fee(t) + t.surplus)]
       /\ UNCHANGED <<position, collateral, feed, order>>

FeedMoves(m, f) ==
    /\ Step("FeedMoves")
    /\ feed' = [feed EXCEPT ![m] = f]
    /\ UNCHANGED <<market, position, collateral, order>>

Next ==
    \/ \E m \in Markets, rate \in FundingRates :
         \/ \E direction \in Direction, quote \in QuoteSizes :
              open_position(m, direction, quote, rate)
         \/ close_position(m, rate)
         \/ update_funding_rate(m, rate)
    \/ \E m \in Markets :
         \/ \E amount \in {position[m].unsettled_pnl, position[m].unsettled_pnl \div 2} :
              settle_pnl(m, amount)
         \/ \E direction \in Direction, base \in OtherSizes : OthersTrade(m, direction, base)
         \/ \E f \in Feeds : FeedMoves(m, f)
    \/ \E rate \in FundingRates :
         \/ fill_order(rate)
         \/ \E o \in Orders : place_and_fill_order(o, rate)
    \/ \E o \in Orders : place_order(o)
    \/ cancel_order
    \/ \E amount \in Transfers : deposit(amount) \/ withdraw(amount)
    \/ \E self \in BOOLEAN : liquidate(self)

Spec == Init /\ [][Next]_vars

-----------------------------------------------------------------------------
(* What the account is worth if it closed everything now, debts included.  *)
Equity(M, p, c) ==
    LET unrealized(m) == pnl_at(p, m, value(M, p, m))
    IN c + unsettled_pnl(p) + MapThenSumSet(unrealized, Markets)

BaseAssetValue(M, p) == LET v(m) == value(M, p, m) IN MapThenSumSet(v, Markets)

StatusNow == calculate_liquidation_status(settled, collateral)

(* A liquidation only makes positions smaller: whatever the slippage, the  *)
(* share and the rounding of the amount to close, none grows and none is   *)
(* turned round (lib.rs, liquidate; controller/position.rs, reduce).       *)
LiquidationOnlyReduces ==
    [][last' \in {"liquidate", "self"} =>
          \A m \in Markets :
              LET before == position[m].base_asset_amount
                  after == position'[m].base_asset_amount
              IN IF before >= 0 THEN after \in 0 .. before ELSE after \in before .. 0]_vars

(* Being liquidated costs the penalty and nothing else: over all markets   *)
(* the fees add up to no more than the penalty on the total collateral,    *)
(* and but for rounding the account is poorer by just that (the penalty is *)
(* charged market by market, in proportion to what is closed).             *)
LiquidationCostsThePenalty ==
    [][last' = "liquidate" =>
          LET fee == collateral - collateral'
              status == StatusNow
          IN /\ fee >= 0
             /\ IF IsFull(status)
                THEN fee * FullPenaltyDenominator =< status.total * FullPenaltyNumerator
                ELSE fee * PartialPenaltyDenominator =< status.total * PartialPenaltyNumerator
             /\ Abs(Equity(market', position', collateral') + fee
                        - Equity(market, settled, collateral)) =< 2 * Cardinality(Markets)]_vars

(* A partial liquidation leaves the account less leveraged: what it is     *)
(* worth is a larger part of the value of its positions than before, the   *)
(* penalty included.  (In the terms of total_collateral, which cuts losses *)
(* above the deposit off before it adds settled pnl, this does not hold.)  *)
PartialLiquidationHelps ==
    [][(last' = "liquidate" /\ Equity(market, settled, collateral) > 0
          /\ ~ IsFull(StatusNow)) =>
          Equity(market', position', collateral') * BaseAssetValue(market, settled)
            >= Equity(market, settled, collateral) * BaseAssetValue(market', position')]_vars

AlwaysDone(status) == 
    \A sequence \in MarketSequences(status) : Done(liquidation(status, sequence))

(* Neither the minimum trade size nor the guard rails stop a liquidation   *)
(* in market m.                                                            *)
Unhindered(status, m) ==
    /\ feed[m].is_valid
    /\ Abs(status.markets[m].spread) + 2 * MAX_LIQUIDATION_SLIPPAGE =< MaxDivergence
    /\ \/ IsFull(status) /\ ~ TooLarge(slippage_pct(status, m))
       \/ asset_to_reserve_amount(quote_to_close(status, m), market[m].peg_multiplier)
              >= MinQuoteTrade

DueIsPossible(status) ==
    (status.type # "NONE"
       /\ \A m \in Markets : position[m].base_asset_amount = 0 \/ Unhindered(status, m))
    => AlwaysDone(status)

(* Whoever may be liquidated can be: if every position's oracle is valid   *)
(* and near the mark and the amount to close is above the minimum, none of *)
(* the checked subtractions and divisions in the loops of liquidate fails, *)
(* in whichever order equal markets are taken.                             *)
LiquidationPossible == CanBeAssessed => DueIsPossible(StatusNow)

(* Nobody is let into a position, or out with collateral, and fully        *)
(* liquidated right after: the initial requirement, checked before fee and *)
(* funding are booked and at the mark alone, keeps a distance to the       *)
(* maintenance requirement that liquidate computes with the oracle.        *)
NewRiskAboveMaintenance ==
    (last \in {"increase", "withdraw"} /\ CanBeAssessed) => StatusNow.type # "FULL"

(* A resting limit order that increases a position trades at its limit or  *)
(* better, but for a unit of each reserve: it is sized by where the mark   *)
(* would end up, a square root rounded down, and then made up to the rest  *)
(* of the order (math/orders.rs, execute_non_market_order).                *)
FilledWithinLimit ==
    [][(/\ order # NoOrder /\ order' # order
        /\ last' \in {"increase", "increase as maker"}
        /\ order.order_type \in {"Limit", "TriggerLimit"}) =>
          LET m == OrderMarket
              base == Abs(position'[m].base_asset_amount - position[m].base_asset_amount)
              quote == position'[m].quote_asset_amount - position[m].quote_asset_amount
              worth == base * get_limit_price(order, feed[m])
              unit == MARK_PRICE_TIMES_AMM_TO_QUOTE_PRECISION_RATIO
              rounding == 2 + reserve_to_asset_amount(1, market[m].peg_multiplier)
          IN IF order.direction = "Long" THEN (quote - rounding) * unit =< worth
                                         ELSE (quote + rounding) * unit >= worth]_vars

(* A taker's order sized by the free collateral is not refused for lack of *)
(* margin, whatever the account holds: the sizing, which never looks at    *)
(* the trade, and the check of the requirement after it agree.             *)
SizedFillIsAffordable ==
    \A o \in Orders :
        (o.order_type # "Market" /\ ~ o.post_only /\ SizePossible(o, OrderMarket)) =>
            \A base \in {SizeToFill(o, settled, OrderMarket)} :
                \A t \in {update_position_with_base_asset_amount(
                             market[OrderMarket], settled[OrderMarket], o.direction, base, NoLimit)} :
                    LET M == [market EXCEPT ![OrderMarket] = t.market]
                        p == Realised(settled, OrderMarket, t, t.pnl)
                        existing == position[OrderMarket].base_asset_amount
                    IN ( /\ base > 0 /\ t.ok /\ ValuesPossible(M, p)
                         /\ potentially_risk_increasing(existing, o.direction, base,
                                                        Abs(existing)) ) =>
                          meets_initial_margin_requirement(M, p, collateral)

(* "for post only orders allow user to fill up to partial margin           *)
(* requirement" (controller/orders.rs:450): a maker's fill that increases  *)
(* a position leaves the account with the partial requirement.             *)
PostOnlyMeetsPartial ==
    last = "increase as maker" =>
        total_collateral(market, position, collateral)
            >= margin_requirement(market, position, collateral, PartialRatio)
=============================================================================
