---------------------------- MODULE PerpPosition ----------------------------
(***************************************************************************)
(* What trades, funding and fees do to a market record m and a position p  *)
(* (controller/position.rs, controller/funding.rs, math/funding.rs,        *)
(* math/fees.rs), as functions: PerpMarket has the instructions on one     *)
(* market, Margin those of one account on several.                         *)
(***************************************************************************)
EXTENDS Amm, FiniteSetsExt

CONSTANTS
    SqrtK, Peg,          \* a market at initialisation
    MinQuoteTrade,       \* minimum_quote_asset_trade_size, in reserve units
    FeeDenominator,      \* fee_structure: 1 / FeeDenominator, 1/1000 by default
    RebateDenominator    \* of the maker rebate: 2000 in the code

ASSUME PositionAssumption ==
    /\ SqrtK \in Nat \ {0} /\ Peg \in Nat \ {0} /\ MinQuoteTrade \in Nat
    /\ FeeDenominator \in Nat \ {0} /\ RebateDenominator \in Nat \ {0}

NoLimit == 0

MarketPosition == [base_asset_amount : Int, quote_asset_amount : Nat,
                   last_cumulative_funding_rate : Int, unsettled_pnl : Int]

Flat == [base_asset_amount |-> 0, quote_asset_amount |-> 0,
         last_cumulative_funding_rate |-> 0, unsettled_pnl |-> 0]

initialize_market ==
    [base_asset_reserve |-> SqrtK, quote_asset_reserve |-> SqrtK,
     sqrt_k |-> SqrtK, peg_multiplier |-> Peg, base_spread |-> 0,
     long_spread |-> 0, short_spread |-> 0, last_oracle_mark_spread_pct |-> 0,
     curve_update_intensity |-> 0, terminal_quote_asset_reserve |-> SqrtK,
     net_base_asset_amount |-> 0, base_asset_amount_long |-> 0,
     base_asset_amount_short |-> 0, open_interest |-> 0,
     cumulative_funding_rate_long |-> 0, cumulative_funding_rate_short |-> 0,
     total_fee |-> 0, total_fee_minus_distributions |-> 0,
     total_fee_withdrawn |-> 0]

-----------------------------------------------------------------------------
(* Trades, on a market m and a position p: what remains of both, the quote *)
(* and base traded, the surplus the market keeps, the surplus it drops and *)
(* the pnl realised.                                                       *)

Refused == [ok |-> FALSE]

Nothing(m, p) == [ok |-> TRUE, market |-> m, position |-> p, quote |-> 0, base |-> 0,
                  surplus |-> 0, dropped |-> 0, pnl |-> 0]

Signed(direction, amount) == IF direction = "Long" THEN amount ELSE - amount

(* Mutant: the aggregate goes by the side of the trade.                    *)
aggregate_ByTrade(m, base_after, change) ==
    IF change > 0 THEN [m EXCEPT !.base_asset_amount_long = @ + change]
                  ELSE [m EXCEPT !.base_asset_amount_short = @ + change]

(* The long or the short aggregate, by the sign base_after decides.        *)
aggregate(m, base_after, change) ==
    IF base_after > 0 THEN [m EXCEPT !.base_asset_amount_long = @ + change]
                      ELSE [m EXCEPT !.base_asset_amount_short = @ + change]

(* A new position starts from the funding rate of its side and is counted. *)
opened(m, p, direction) ==
    IF p.base_asset_amount # 0 THEN [market |-> m, position |-> p]
    ELSE [market |-> [m EXCEPT !.open_interest = @ + 1],
          position |-> [p EXCEPT !.last_cumulative_funding_rate =
                           IF direction = "Long" THEN m.cumulative_funding_rate_long
                                                 ELSE m.cumulative_funding_rate_short]]

(* What both ways of increasing a position do once the swap is made.       *)
increased(s, p, base) ==
    [ok |-> TRUE, quote |-> s.quote, base |-> Abs(base), surplus |-> s.surplus,
     dropped |-> s.dropped, pnl |-> 0,
     market |-> aggregate([s.amm EXCEPT !.net_base_asset_amount = @ + base],
                          p.base_asset_amount + base, base),
     position |-> [p EXCEPT !.base_asset_amount = @ + base,
                            !.quote_asset_amount = @ + s.quote]]

increase(m, p, direction, quote) ==
    LET o == opened(m, p, direction)
        s == swap_quote_asset(o.market, quote, IF direction = "Long" THEN "Add" ELSE "Remove",
                              TRUE, MinQuoteTrade)
    IN IF quote = 0 THEN Nothing(m, p)
       ELSE IF ~ s.ok THEN Refused
       ELSE increased(s, o.position, s.base)

(* A maker trades at its limit price, and the market keeps the difference  *)
(* to the swap, in place of the surplus the swap had.                      *)
at_limit(s, base, limit, direction) ==
    LET quote == (base * limit) \div MARK_PRICE_TIMES_AMM_TO_QUOTE_PRECISION_RATIO
                     + (IF direction = "Remove" THEN 1 ELSE 0)
        surplus == IF direction = "Remove" THEN quote - s.quote ELSE s.quote - quote
    IN IF limit = NoLimit \/ ~ s.ok THEN s
       ELSE IF surplus < 0 THEN Refused
       ELSE [s EXCEPT !.quote = quote, !.surplus = surplus, !.dropped = s.surplus]

increase_with_base_asset_amount(m, p, direction, base, limit) ==
    LET o == opened(m, p, direction)
        swap_direction == IF direction = "Long" THEN "Remove" ELSE "Add"
        s == at_limit(swap_base_asset(o.market, base, swap_direction, TRUE),
                      base, limit, swap_direction)
    IN IF base = 0 THEN Nothing(m, p)
       ELSE IF ~ s.ok THEN Refused
       ELSE increased(s, o.position, Signed(direction, base))

(* What both ways of reducing a position do once the swap is made: the     *)
(* entry quote is closed in proportion.  long_pnl: proceeds less entry.    *)
reduced(s, p, base, long_pnl) ==
    LET after == p.base_asset_amount + base
        closed == (p.quote_asset_amount * Abs(base)) \div Abs(p.base_asset_amount)
    IN IF closed > p.quote_asset_amount THEN Refused
       ELSE [ok |-> TRUE, quote |-> s.quote, base |-> Abs(base), surplus |-> s.surplus,
             dropped |-> s.dropped,
             pnl |-> IF long_pnl THEN s.quote - closed ELSE closed - s.quote,
             market |-> aggregate([s.amm EXCEPT !.net_base_asset_amount = @ + base,
                                                !.open_interest = IF after = 0 THEN @ - 1 ELSE @],
                                  after, base),
             position |-> [p EXCEPT !.base_asset_amount = after,
                                    !.quote_asset_amount = @ - closed]]

reduce(m, p, direction, quote, use_spread) ==
    LET s == swap_quote_asset(m, quote, IF direction = "Long" THEN "Add" ELSE "Remove",
                              use_spread, MinQuoteTrade)
    IN IF ~ s.ok THEN Refused
       ELSE reduced(s, p, s.base, p.base_asset_amount + s.base > 0)

reduce_with_base_asset_amount(m, p, direction, base, limit) ==
    LET swap_direction == IF direction = "Long" THEN "Remove" ELSE "Add"
        s == at_limit(swap_base_asset(m, base, swap_direction, limit = NoLimit),
                      base, limit, swap_direction)
    IN IF ~ s.ok THEN Refused
       ELSE reduced(s, p, Signed(direction, base), direction = "Short")

close(m, p, limit, use_spread) ==
    LET base == p.base_asset_amount
        swap_direction == IF base > 0 THEN "Add" ELSE "Remove"
        s == at_limit(swap_base_asset(m, Abs(base), swap_direction,
                                      use_spread /\ limit = NoLimit),
                      Abs(base), limit, swap_direction)
    IN IF base = 0 THEN Nothing(m, p)
       ELSE IF ~ s.ok THEN Refused
       ELSE [ok |-> TRUE, quote |-> s.quote, base |-> Abs(base), surplus |-> s.surplus,
             dropped |-> s.dropped,
             pnl |-> calculate_pnl(s.quote, p.quote_asset_amount, swap_direction),
             market |-> aggregate([s.amm EXCEPT !.net_base_asset_amount = @ - base,
                                                !.open_interest = @ - 1],
                                  base, - base),
             position |-> [p EXCEPT !.base_asset_amount = 0, !.quote_asset_amount = 0,
                                    !.last_cumulative_funding_rate = 0]]

(* Closing, then trading the rest the other way.                           *)
reversed(c, o, quote) ==
    IF ~ o.ok THEN Refused
    ELSE [o EXCEPT !.quote = quote, !.base = c.base + o.base,
                   !.surplus = c.surplus + o.surplus, !.dropped = c.dropped + o.dropped,
                   !.pnl = c.pnl]

SameSide(direction, base) == base = 0 \/ (base > 0) = (direction = "Long")

update_position_with_base_asset_amount(m, p, direction, base, limit) ==
    LET existing == p.base_asset_amount
        c == close(m, p, limit, TRUE)
        o == increase_with_base_asset_amount(c.market, c.position, direction,
                                             base - Abs(existing), limit)
    IN IF SameSide(direction, existing)
       THEN increase_with_base_asset_amount(m, p, direction, base, limit)
       ELSE IF Abs(existing) > base
       THEN reduce_with_base_asset_amount(m, p, direction, base, limit)
       ELSE IF ~ c.ok THEN Refused ELSE reversed(c, o, c.quote + o.quote)

(* A quote amount this close to the value of the position is taken to be   *)
(* that value.                                                             *)
should_round_trade(m, quote, value) ==
    asset_to_reserve_amount(Abs(quote - value), m.peg_multiplier) < MinQuoteTrade

update_position_with_quote_asset_amount(m, p, direction, quote) ==
    LET value == calculate_base_asset_value(p.base_asset_amount, m)
        traded == IF should_round_trade(m, quote, value) THEN value ELSE quote
        c == close(m, p, NoLimit, TRUE)
        o == increase(c.market, c.position, direction, traded - value)
    IN IF SameSide(direction, p.base_asset_amount) THEN increase(m, p, direction, quote)
       ELSE IF ~ ClosePossible(p.base_asset_amount, m) THEN Refused
       ELSE IF value > traded THEN reduce(m, p, direction, traded, TRUE)
       ELSE IF ~ c.ok THEN Refused ELSE reversed(c, o, traded)

-----------------------------------------------------------------------------
(* Funding.                                                                *)

settle_funding(m, p) ==
    LET rate == IF p.base_asset_amount > 0 THEN m.cumulative_funding_rate_long
                                           ELSE m.cumulative_funding_rate_short
    IN IF p.base_asset_amount = 0 THEN p
       ELSE [p EXCEPT !.last_cumulative_funding_rate = rate,
                      !.unsettled_pnl = @ + calculate_funding_payment(
                           rate - p.last_cumulative_funding_rate, p.base_asset_amount)]

(* The half of all fees that funding and repegs must leave.                *)
total_fee_lower_bound(m) == m.total_fee \div 2

(* Most (as a loss) the market may pay of one funding imbalance.           *)
funding_rate_pnl_limit(m) ==
    IF m.total_fee_minus_distributions > total_fee_lower_bound(m)
    THEN - (((m.total_fee_minus_distributions - total_fee_lower_bound(m)) * 2) \div 3)
    ELSE 0

(* Mutant: the whole rate is paid though the pool is short.                *)
calculate_capped_funding_rate_Uncapped(m, funding_pnl, rate) == rate

calculate_capped_funding_rate(m, funding_pnl, rate) ==
    LET paying == IF rate > 0 THEN m.base_asset_amount_long ELSE m.base_asset_amount_short
        receiving == IF rate < 0 THEN m.base_asset_amount_long ELSE m.base_asset_amount_short
        limit == funding_rate_pnl_limit(m) - Abs(calculate_funding_payment(rate, paying))
    IN IF funding_pnl < funding_rate_pnl_limit(m)
       THEN calculate_funding_rate_from_pnl_limit(limit, receiving) ELSE rate

(* The net position's payment goes to or comes from the fee pool; what the *)
(* pool cannot pay is cut from the rate of the side that receives.         *)
funded(m, rate) ==
    LET funding_pnl == - calculate_funding_payment(rate, m.net_base_asset_amount)
        capped_pnl == IF funding_pnl < funding_rate_pnl_limit(m)
                      THEN funding_rate_pnl_limit(m) ELSE funding_pnl
        capped_rate == calculate_capped_funding_rate(m, funding_pnl, rate)
        pool == m.total_fee_minus_distributions + capped_pnl
        ok == capped_pnl # 0 => pool >= total_fee_lower_bound(m)
    IN IF funding_pnl >= 0
       THEN [ok |-> TRUE,
             market |-> [m EXCEPT !.total_fee_minus_distributions = @ + funding_pnl,
                                  !.cumulative_funding_rate_long = @ + rate,
                                  !.cumulative_funding_rate_short = @ + rate]]
       ELSE IF ~ ok THEN Refused
       ELSE [ok |-> TRUE,
             market |-> [m EXCEPT
                 !.total_fee_minus_distributions = pool,
                 !.cumulative_funding_rate_long = @ + (IF rate < 0 THEN capped_rate ELSE rate),
                 !.cumulative_funding_rate_short = @ + (IF rate > 0 THEN capped_rate ELSE rate)]]

-----------------------------------------------------------------------------
(* Fees.                                                                   *)

(* The market's part of the fee.                                           *)
charge(t, to_market) ==
    [t.market EXCEPT !.total_fee = @ + to_market,
                     !.total_fee_minus_distributions = @ + to_market]

(* calculate_fee_for_trade                                                 *)
trade_fee(t) == t.quote \div FeeDenominator

(* A post-only order pays out of its surplus and may get a rebate.         *)
order_fee(t, post_only) == IF post_only THEN t.surplus ELSE trade_fee(t)

calculate_fee_for_order(t, post_only, reward) ==
    LET fee == order_fee(t, post_only)
        rebate == Min({fee - reward, t.quote \div RebateDenominator})
    IN IF post_only THEN [user |-> - rebate, to_market |-> fee - reward - rebate]
                    ELSE [user |-> fee, to_market |-> fee - reward + t.surplus]
=============================================================================
