----------------------------- MODULE PerpMarket -----------------------------
(***************************************************************************)
(* One perpetual market: its AMM, its aggregates and its fee pool, and the *)
(* positions its users hold in it.  Actions are the instructions that move *)
(* them: trades (open_position, close_position, fill_order), liquidate,    *)
(* funding, and the curve changes and withdrawals of the admin.            *)
(*                                                                         *)
(* The margin, oracle-divergence and slippage checks only refuse trades    *)
(* and are left out: every trade the arithmetic allows may happen.  Order  *)
(* bookkeeping is UserOrders, settlement of unsettled_pnl is BankLedger.   *)
(* What the oracle says is an input of every instruction that reads it.    *)
(* Discounts and referrals are 0.                                          *)
(***************************************************************************)
EXTENDS Curve

CONSTANTS
    Users,
    MinBaseTrade,        \* minimum_base_asset_trade_size
    RewardDenominator,   \* of the filler's share of the fee: 10 by default
    QuoteSizes, BaseSizes, LimitPrices,   \* trades tried
    LiquidationShares,   \* n: a liquidation takes 1/n of a position's value
    FundingRates,        \* rates an update computes; 0 is also "not due"
    FundedSteps,         \* bound: the steps whose trades may bring funding
    OraclePrices,        \* what the oracle may say
    KTargets, Pegs, BaseSpreads, Intensities, Withdrawals,   \* admin inputs
    RoundingGain, RoundingLoss,   \* quote one step may create or lose by rounding
    MaxSteps             \* bound on the length of a behaviour

ASSUME MarketAssumption ==
    /\ MaxSteps \in Nat /\ RewardDenominator \in Nat \ {0}
    /\ OraclePrices \subseteq OraclePriceData
    /\ LimitPrices \subseteq Nat \ {0} /\ 0 \in FundingRates

VARIABLES
    market,
    position,    \* user |-> the user's MarketPosition in this market
    unbooked,    \* history: what was taken from positions and credited to nobody
    steps

vars == <<market, position, unbooked, steps>>

(* A new market, with the spread and the intensity the admin gives it      *)
(* before anyone trades.                                                   *)
Init ==
    /\ \E base_spread \in BaseSpreads, intensity \in Intensities :
          market = [initialize_market EXCEPT !.base_spread = base_spread,
                                             !.curve_update_intensity = intensity]
    /\ position = [u \in Users |-> Flat]
    /\ unbooked = 0
    /\ steps = 0

-----------------------------------------------------------------------------
(* Instructions.                                                           *)

(* A behaviour is followed less far where a spread or curve updates give   *)
(* every step more outcomes.                                               *)
Horizon == MaxSteps - (IF market.base_spread > 0 THEN 1 ELSE 0)
                    - (IF market.curve_update_intensity > 0 THEN 1 ELSE 0)

Step == steps < Horizon /\ steps' = steps + 1

settled(u) == settle_funding(market, position[u])

(* The answers that are told apart: without curve updates only repegs look *)
(* at the oracle.                                                          *)
OraclesNow == IF market.curve_update_intensity > 0 THEN OraclePrices
              ELSE {CHOOSE o \in OraclePrices : TRUE}

seen(oracle) == observed(market, mark_price(market), oracle)

(* Without a valid oracle no funding is due.                               *)
RateFrom(rate, oracle) == rate # 0 => oracle.is_valid

(* The tail of every trade: fee and pnl, and funding if it is due.         *)
Traded(u, t, user_fee, to_market, rate) ==
    /\ t.ok
    /\ LET f == funded(charge(t, to_market), rate)
       IN f.ok /\ market' = f.market
    /\ position' = [position EXCEPT ![u] =
           [t.position EXCEPT !.unsettled_pnl = @ + t.pnl - user_fee]]

open_position(u, direction, quote, rate, oracle) ==
    /\ Step /\ quote # 0 /\ RateFrom(rate, oracle)
    /\ LET t == update_position_with_quote_asset_amount(seen(oracle), settled(u), direction, quote)
       IN t.ok /\ Traded(u, t, trade_fee(t), trade_fee(t) + t.surplus, rate)
    /\ UNCHANGED unbooked

close_position(u, rate, oracle) ==
    /\ Step /\ RateFrom(rate, oracle)
    /\ LET t == close(seen(oracle), settled(u), NoLimit, TRUE)
       IN t.ok /\ Traded(u, t, trade_fee(t), trade_fee(t) + t.surplus, rate)
    /\ UNCHANGED unbooked

(* The lesser of a share of the fee and of what the order's age earns,     *)
(* which may be anything: nothing or the share.                            *)
calculate_filler_reward(fee) == {0, fee \div RewardDenominator}

(* The fill of an order, with the reward of a filler other than the user.  *)
Filled(u, filler, t, post_only, rate) ==
    /\ t.ok /\ t.base >= MinBaseTrade
    /\ \E reward \in IF filler = u THEN {0} ELSE calculate_filler_reward(order_fee(t, post_only)) :
          LET fees == calculate_fee_for_order(t, post_only, reward)
              f == funded(charge(t, fees.to_market), rate)
          IN /\ f.ok /\ market' = f.market
             /\ position' = [position EXCEPT
                    ![u] = [t.position EXCEPT !.unsettled_pnl = @ + t.pnl - fees.user],
                    ![filler].unsettled_pnl = @ + reward]

(* What every fill does before it looks at the order: the peg, the         *)
(* oracle's distance, the spreads.                                         *)
prefill(pre, oracle) ==
    calculate_spreads(observed(pre.market, mark_price(pre.market), oracle))

Prefilled(pre, dropped) == unbooked' = unbooked + pre.saved + dropped

(* An order sized in base: limit is a post-only order's price, or NoLimit. *)
fill_order(u, filler, direction, base, limit, rate, oracle) ==
    /\ Step /\ RateFrom(rate, oracle)
    /\ \E pre \in {prepeg(market, oracle)} :
          /\ pre.ok
          /\ \E t \in {update_position_with_base_asset_amount(prefill(pre, oracle), settled(u),
                                                             direction, base, limit)} :
                Filled(u, filler, t, limit # NoLimit, rate) /\ Prefilled(pre, t.dropped)

(* A market order sized in quote.                                          *)
fill_market_order(u, filler, direction, quote, rate, oracle) ==
    /\ Step /\ RateFrom(rate, oracle)
    /\ \E pre \in {prepeg(market, oracle)} :
          /\ pre.ok
          /\ \E t \in {update_position_with_quote_asset_amount(prefill(pre, oracle), settled(u),
                                                              direction, quote)} :
                Filled(u, filler, t, FALSE, rate) /\ Prefilled(pre, t.dropped)

(* place_and_fill_order of an order that the market does not fill now: the *)
(* order rests, the peg and the spreads stay moved.  (fill_order aborts.)  *)
fill_nothing(u, oracle) ==
    /\ Step
    /\ \E pre \in {prepeg(market, oracle)} :
          /\ pre.ok /\ Prefilled(pre, 0)
          /\ market' = prefill(pre, oracle)
    /\ position' = [position EXCEPT ![u] = settled(u)]

(* A share of the position is sold, or all of it, outside the spread.  The *)
(* penalty is paid from collateral, not here.                              *)
liquidate(u, share) ==
    /\ Step
    /\ LET p == settled(u)
           value == calculate_base_asset_value(p.base_asset_amount, market)
           direction == IF p.base_asset_amount > 0 THEN "Short" ELSE "Long"
           t == IF share = 1 THEN close(market, p, NoLimit, FALSE)
                ELSE reduce(market, p, direction, value \div share, FALSE)
       IN /\ p.base_asset_amount # 0
          /\ ClosePossible(p.base_asset_amount, market)
          /\ t.ok
          /\ market' = t.market
          /\ position' = [position EXCEPT ![u] =
                             [t.position EXCEPT !.unsettled_pnl = @ + t.pnl]]
    /\ UNCHANGED unbooked

settle_funding_payment(u) ==
    /\ Step
    /\ position' = [position EXCEPT ![u] = settled(u)]
    /\ UNCHANGED <<market, unbooked>>

update_funding_rate(rate, oracle) ==
    /\ Step /\ oracle.is_valid
    /\ funded(seen(oracle), rate).ok
    /\ market' = funded(seen(oracle), rate).market
    /\ UNCHANGED <<position, unbooked>>

-----------------------------------------------------------------------------
(* The admin.                                                              *)

update_k(sqrt_k) ==
    /\ Step
    /\ LET after == with_k(market, sqrt_k)
           cost == curve_cost(market, after)
       IN /\ CurvePossible(market) /\ CurvePossible(after)
          /\ UpdateKAllowed(market, after)
          /\ cost > 0 => cost =< market.total_fee_minus_distributions
                                     - market.total_fee_withdrawn
          /\ market' = [after EXCEPT !.total_fee_minus_distributions = @ - cost]
    /\ UNCHANGED <<position, unbooked>>

repeg_amm_curve(peg, oracle) ==
    /\ Step
    /\ repeg(market, peg, oracle).ok
    /\ market' = repeg(market, peg, oracle).market
    /\ UNCHANGED <<position, unbooked>>

update_market_base_spread(base_spread) ==
    /\ Step
    /\ market' = [market EXCEPT !.base_spread = base_spread]
    /\ UNCHANGED <<position, unbooked>>

update_curve_update_intensity(intensity) ==
    /\ Step
    /\ market' = [market EXCEPT !.curve_update_intensity = intensity]
    /\ UNCHANGED <<position, unbooked>>

max_withdraw(m) == total_fee_lower_bound(m) - m.total_fee_withdrawn

withdraw_fees(amount) ==
    /\ Step
    /\ amount =< max_withdraw(market)
    /\ market' = [market EXCEPT !.total_fee_withdrawn = @ + amount]
    /\ UNCHANGED <<position, unbooked>>

-----------------------------------------------------------------------------

(* The surplus of a quote-sized trade is measured by closing that trade    *)
(* alone, on the curve after it: with the spreads that curve updates widen *)
(* the market books a little too much.  Such trades are tried only while   *)
(* the spread is the market's own.                                         *)
SpreadWidened ==
    /\ market.base_spread > 0
    /\ market.curve_update_intensity > 0
          \/ Max({market.long_spread, market.short_spread}) > market.base_spread

(* Funding may also be due on its own, in any step.                        *)
RatesNow == IF steps \in FundedSteps THEN FundingRates ELSE {0}

QuoteSizesNow == IF SpreadWidened THEN {} ELSE QuoteSizes

Trade(u) ==
    \E rate \in RatesNow, oracle \in OraclesNow :
        \/ close_position(u, rate, oracle)
        \/ \E direction \in Direction :
              \/ \E quote \in QuoteSizesNow : open_position(u, direction, quote, rate, oracle)
              \/ \E filler \in Users :
                    \/ \E quote \in QuoteSizesNow :
                          fill_market_order(u, filler, direction, quote, rate, oracle)
                    \/ \E base \in BaseSizes, limit \in LimitPrices \cup {NoLimit} :
                          fill_order(u, filler, direction, base, limit, rate, oracle)

Next ==
    \/ \E u \in Users : \/ Trade(u) \/ settle_funding_payment(u)
                        \/ \E oracle \in OraclesNow : fill_nothing(u, oracle)
                        \/ \E share \in LiquidationShares : liquidate(u, share)
    \/ \E rate \in FundingRates, oracle \in OraclesNow : update_funding_rate(rate, oracle)
    \/ \E sqrt_k \in KTargets : update_k(sqrt_k)
    \/ \E peg \in Pegs, oracle \in OraclePrices : repeg_amm_curve(peg, oracle)
    \/ \E base_spread \in BaseSpreads : update_market_base_spread(base_spread)
    \/ \E intensity \in Intensities : update_curve_update_intensity(intensity)
    \/ \E amount \in Withdrawals : withdraw_fees(amount)

Spec == Init /\ [][Next]_vars

-----------------------------------------------------------------------------
(* Properties.                                                             *)

SumOver(f(_), S) == MapThenSumSet(f, S)

(* The market's aggregates are those of its users' positions: the net      *)
(* base, the base of the longs and of the shorts, and open_interest, the   *)
(* number of users in a position.  Funding and the curve are computed from *)
(* the aggregates, and every trade path keeps them by itself.              *)
PositionsAggregated ==
    LET base(u) == position[u].base_asset_amount
        long(u) == IF base(u) > 0 THEN base(u) ELSE 0
        short(u) == IF base(u) < 0 THEN base(u) ELSE 0
    IN /\ market.net_base_asset_amount = SumOver(base, Users)
       /\ market.base_asset_amount_long = SumOver(long, Users)
       /\ market.base_asset_amount_short = SumOver(short, Users)
       /\ market.open_interest = Cardinality({u \in Users : base(u) # 0})

(* What everyone can claim from the collateral beyond what was deposited:  *)
(* the fee pool, realised pnl and funding, and what the users' positions   *)
(* yield if all are closed now, less what they cost.                       *)
Claims ==
    LET paid(u) == IF position[u].base_asset_amount > 0 THEN - position[u].quote_asset_amount
                                                        ELSE position[u].quote_asset_amount
        realised(u) == settled(u).unsettled_pnl
        net == market.net_base_asset_amount
        value == calculate_base_asset_value(net, market)
    IN market.total_fee_minus_distributions + SumOver(realised, Users) + SumOver(paid, Users)
           + (IF net > 0 THEN value ELSE - value)

(* The market is zero-sum: trades, funding, liquidations and curve changes *)
(* move money between users and the fee pool and neither create nor lose   *)
(* any, beyond a unit or two of rounding for each step.  No single         *)
(* function shows it: the swap, the surplus, the fee split, the cap on     *)
(* funding and the cost of a repeg must agree.  Two amounts are credited   *)
(* to nobody: what a prepeg takes from the positions by lowering k, and    *)
(* the spread's surplus of a maker's order that opens or adds.             *)
ZeroSum ==
    CurvePossible(market) =>
        Claims + unbooked \in - RoundingLoss * steps .. RoundingGain * steps

(* Opening a position and closing it at once never pays, in any state the  *)
(* market can be in: all the roundings are against the user.               *)
NoFreeRoundTrip ==
    \A direction \in Direction :
        LET gain(o) == IF o.ok /\ close(o.market, o.position, NoLimit, TRUE).ok
                       THEN close(o.market, o.position, NoLimit, TRUE).pnl ELSE 0
        IN /\ \A quote \in QuoteSizes : gain(increase(market, Flat, direction, quote)) =< 0
           /\ \A base \in BaseSizes :
                 gain(increase_with_base_asset_amount(market, Flat, direction, base, NoLimit))
                     =< 0

(* Funding, repegs, prepegs, fills and rebates draw the fee pool down no   *)
(* further than total_fee_lower_bound, the half of the fees that           *)
(* withdraw_fees may pay out, whatever they are computed from and in       *)
(* whatever order they come.  Only update_k, raising k, goes below it, as  *)
(* far as what was withdrawn already; a withdrawal after that, which looks *)
(* at total_fee alone, takes what the pool has no more, against "A portion *)
(* of fees must always remain in protocol" (lib.rs:2151).                  *)
LowerBoundKept ==
    [][LET floor == IF market'.sqrt_k > market.sqrt_k THEN market.total_fee_withdrawn
                                                      ELSE total_fee_lower_bound(market')
       IN market'.total_fee_minus_distributions
              >= Min({market.total_fee_minus_distributions, floor})]_vars

(* Whatever the oracle says, a prepeg moves the mark towards its target    *)
(* and not past it, up to the unit of the peg and the rounding of k; it    *)
(* never raises k, and leaves the lower bound of the fees alone.           *)
PrepegTowardsTarget ==
    LET before == mark_price(market)
        unit == calculate_price(market.quote_asset_reserve, market.base_asset_reserve, 1) + 2
        pool == Min({market.total_fee_minus_distributions, total_fee_lower_bound(market)})
        towards(m, target) ==
            /\ mark_price(m) \in Min({before, target}) - unit .. Max({before, target}) + unit
            /\ m.sqrt_k =< market.sqrt_k
            /\ m.total_fee_minus_distributions >= pool
    IN \A oracle \in OraclePrices : \A pre \in {prepeg(market, oracle)} :
          pre.ok => towards(pre.market, calculate_amm_target_price(before, oracle))

(* A trade worth less than the position it reduces leaves the position on  *)
(* its side of the market.                                                 *)
ReduceNeverReverses ==
    \A u \in Users, direction \in Direction, quote \in QuoteSizes :
        LET p == settled(u)
            t == update_position_with_quote_asset_amount(market, p, direction, quote)
        IN ( /\ p.base_asset_amount # 0 /\ t.ok
             /\ calculate_base_asset_value(p.base_asset_amount, market) > t.quote )
           => (t.position.base_asset_amount > 0) = (p.base_asset_amount > 0)
=============================================================================
