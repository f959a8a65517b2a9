--------------------------- MODULE OrderExecution ---------------------------
(***************************************************************************)
(* What an order asks for: when it is valid, when its price is reached and *)
(* how much of it the market can execute (math/orders.rs,                  *)
(* order_validation.rs, get_limit_price of state/user.rs,                  *)
(* calculate_max_base_asset_amount_to_trade of math/amm.rs).  Functions of *)
(* an order o, a market record m and what the oracle says; reduce-only and *)
(* immediate-or-cancel are UserOrders'.                                    *)
(***************************************************************************)
EXTENDS PerpPosition

CONSTANTS
    MinBaseTrade,     \* minimum_base_asset_trade_size
    MinOrderValue     \* min_order_quote_asset_amount

ASSUME OrderAssumption == MinBaseTrade \in Nat /\ MinOrderValue \in Nat

OrderType == {"Market", "Limit", "TriggerMarket", "TriggerLimit"}

Order == [order_type : OrderType, direction : Direction, price : Nat,
          oracle_price_offset : Int, trigger_price : Nat, above : BOOLEAN,
          post_only : BOOLEAN, base_asset_amount : Nat, quote_asset_amount : Nat,
          base_asset_amount_filled : Nat]

-----------------------------------------------------------------------------
(* Prices.                                                                 *)

has_oracle_price_offset(o) == o.oracle_price_offset # 0

LimitPriceKnown(o, oracle) ==
    has_oracle_price_offset(o) => oracle.is_valid /\ oracle.price + o.oracle_price_offset > 0

(* An order's own price, or the oracle's with an offset; a maker gets the  *)
(* one of them that is better for it.                                      *)
get_limit_price(o, oracle) ==
    LET offset_price == oracle.price + o.oracle_price_offset
    IN IF ~ has_oracle_price_offset(o) THEN o.price
       ELSE IF ~ o.post_only THEN offset_price
       ELSE IF o.direction = "Long" THEN Min({o.price, offset_price})
       ELSE Max({o.price, offset_price})

(* The mark is past the trigger, and so is a valid oracle but for 1%.      *)
Triggered(o, mark, oracle) ==
    IF o.above
    THEN /\ mark > o.trigger_price
         /\ oracle.is_valid => (oracle.price * 101) \div 100 > o.trigger_price
    ELSE /\ mark < o.trigger_price
         /\ oracle.is_valid => (oracle.price * 99) \div 100 < o.trigger_price

limit_price_satisfied(limit, quote, base, direction) ==
    LET price == (quote * MARK_PRICE_TIMES_AMM_TO_QUOTE_PRECISION_RATIO) \div base
    IN IF direction = "Long" THEN price =< limit ELSE price >= limit

-----------------------------------------------------------------------------
(* Sizes.                                                                  *)

(* a * b \div c, with smaller numbers on the way.                          *)
MulDiv(a, b, c) == (a \div c) * b + ((a % c) * b) \div c

(* The integer part of the square root of n < 2^30, bit by bit.            *)
integer_sqrt(n) ==
    LET root[i \in 0 .. 15] ==
            IF i = 0 THEN 0
            ELSE LET r == root[i - 1]
                     s == r + 2^(15 - i)
                 IN IF s * s =< n THEN s ELSE r
    IN root[15]

(* Mutant: the price without the peg.                                      *)
reserve_at_price_Unpegged(m, price) ==
    integer_sqrt(MulDiv(m.sqrt_k * m.sqrt_k, MARK_PRICE_PRECISION, price))

(* The base reserve at which the mark is this price.                       *)
reserve_at_price(m, price) ==
    integer_sqrt(MulDiv(MulDiv(m.sqrt_k * m.sqrt_k, MARK_PRICE_PRECISION, price),
                        m.peg_multiplier, PEG_PRECISION))

(* How much, and which way, it takes to move the mark to the limit.        *)
calculate_max_base_asset_amount_to_trade(m, limit, direction, use_spread) ==
    LET before == IF use_spread /\ m.base_spread > 0 THEN spread_base_reserve(m, direction)
                                                     ELSE m.base_asset_reserve
        after == reserve_at_price(m, limit)
    IN [amount |-> Abs(after - before),
        direction |-> IF after > before THEN "Short" ELSE "Long"]

left_to_fill(o) == o.base_asset_amount - o.base_asset_amount_filled

calculate_base_asset_amount_to_trade_for_limit(o, m, oracle) ==
    LET most == calculate_max_base_asset_amount_to_trade(m, get_limit_price(o, oracle),
                                                         o.direction, ~ o.post_only)
    IN IF most.direction = o.direction THEN Min({left_to_fill(o), most.amount}) ELSE 0

(* A trigger limit order that has been filled in part stays triggered.     *)
calculate_base_asset_amount_market_can_execute(o, m, mark, oracle) ==
    CASE o.order_type = "Limit" -> calculate_base_asset_amount_to_trade_for_limit(o, m, oracle)
      [] o.order_type = "TriggerMarket" ->
            IF Triggered(o, mark, oracle) THEN left_to_fill(o) ELSE 0
      [] o.order_type = "TriggerLimit" ->
            IF o.base_asset_amount_filled > 0 \/ Triggered(o, mark, oracle)
            THEN calculate_base_asset_amount_to_trade_for_limit(o, m, oracle) ELSE 0

-----------------------------------------------------------------------------
(* Validation.                                                             *)

BaseSized(o) == o.quote_asset_amount = 0 /\ o.base_asset_amount > 0
                    /\ o.base_asset_amount >= MinBaseTrade

QuoteSized(o, m) ==
    /\ o.base_asset_amount = 0 /\ o.quote_asset_amount > 0
    /\ asset_to_reserve_amount(o.quote_asset_amount, m.peg_multiplier) >= MinQuoteTrade

WorthPlacing(o, price) ==
    (price * o.base_asset_amount) \div MARK_PRICE_TIMES_AMM_TO_QUOTE_PRECISION_RATIO
        >= MinOrderValue

validate_market_order(o, m) ==
    /\ BaseSized(o) \/ QuoteSized(o, m)
    /\ o.trigger_price = 0 /\ ~ o.post_only /\ ~ has_oracle_price_offset(o)

(* A maker's order must rest: the market can fill nothing of it now.       *)
validate_limit_order(o, m, oracle) ==
    /\ BaseSized(o) /\ o.trigger_price = 0
    /\ IF has_oracle_price_offset(o) THEN o.post_only = (o.price # 0) ELSE o.price # 0
    /\ LimitPriceKnown(o, oracle)
    /\ o.post_only => calculate_base_asset_amount_to_trade_for_limit(o, m, oracle) = 0
    /\ WorthPlacing(o, get_limit_price(o, oracle))

validate_trigger_order(o) ==
    BaseSized(o) /\ o.trigger_price # 0 /\ ~ o.post_only /\ ~ has_oracle_price_offset(o)

validate_trigger_market_order(o) ==
    validate_trigger_order(o) /\ o.price = 0 /\ WorthPlacing(o, o.trigger_price)

(* A limit the trigger would have to pass twice is refused.                *)
validate_trigger_limit_order(o) ==
    /\ validate_trigger_order(o) /\ o.price # 0 /\ WorthPlacing(o, o.price)
    /\ o.above /\ o.direction = "Long" => o.price >= o.trigger_price
    /\ ~ o.above /\ o.direction = "Short" => o.price =< o.trigger_price

validate_order(o, m, oracle) ==
    CASE o.order_type = "Market" -> validate_market_order(o, m)
      [] o.order_type = "Limit" -> validate_limit_order(o, m, oracle)
      [] o.order_type = "TriggerMarket" -> validate_trigger_market_order(o)
      [] o.order_type = "TriggerLimit" -> validate_trigger_limit_order(o)
=============================================================================
