-------------------------------- MODULE Amm --------------------------------
(***************************************************************************)
(* The virtual AMM: swaps against base_asset_reserve * quote_asset_reserve *)
(* = sqrt_k^2, the spread, and funding payments (controller/amm.rs,        *)
(* math/amm.rs, math/quote_asset.rs, math/position.rs, math/funding.rs).   *)
(* An amm is any record with the fields these operators read.  Where a     *)
(* checked operation can fail, ok says whether it succeeds.                *)
(***************************************************************************)
EXTENDS Integers

CONSTANTS
    AMM_TO_QUOTE_PRECISION_RATIO,   \* 10^7 in the code
    PEG_PRECISION,                  \* 10^3
    MARK_PRICE_PRECISION,           \* 10^10
    FUNDING_PAYMENT_PRECISION,      \* 10^4
    BID_ASK_SPREAD_PRECISION        \* 10^6

ASSUME AmmAssumption ==
    /\ AMM_TO_QUOTE_PRECISION_RATIO \in Nat \ {0} /\ PEG_PRECISION \in Nat \ {0}
    /\ MARK_PRICE_PRECISION \in Nat \ {0} /\ FUNDING_PAYMENT_PRECISION \in Nat \ {0}
    /\ BID_ASK_SPREAD_PRECISION \in Nat \ {0}

AMM_TIMES_PEG_TO_QUOTE_PRECISION_RATIO == AMM_TO_QUOTE_PRECISION_RATIO * PEG_PRECISION
MARK_PRICE_TIMES_AMM_TO_QUOTE_PRECISION_RATIO ==
    MARK_PRICE_PRECISION * AMM_TO_QUOTE_PRECISION_RATIO
QUOTE_TO_BASE_AMT_FUNDING_PRECISION ==
    AMM_TO_QUOTE_PRECISION_RATIO * MARK_PRICE_PRECISION * FUNDING_PAYMENT_PRECISION

Direction == {"Long", "Short"}
SwapDirection == {"Add", "Remove"}

Abs(x) == IF x < 0 THEN - x ELSE x
(* Division that truncates towards zero, as the code's does.               *)
Quotient(x, y) == IF (x < 0) = (y < 0) THEN Abs(x) \div Abs(y) ELSE - (Abs(x) \div Abs(y))

reserve_to_asset_amount(reserve, peg) ==
    (reserve * peg) \div AMM_TIMES_PEG_TO_QUOTE_PRECISION_RATIO
asset_to_reserve_amount(quote, peg) ==
    (quote * AMM_TIMES_PEG_TO_QUOTE_PRECISION_RATIO) \div peg

calculate_price(quote_reserve, base_reserve, peg) ==
    (quote_reserve * peg * (MARK_PRICE_PRECISION \div PEG_PRECISION)) \div base_reserve

mark_price(amm) ==
    calculate_price(amm.quote_asset_reserve, amm.base_asset_reserve, amm.peg_multiplier)

-----------------------------------------------------------------------------
(* Swaps.                                                                  *)

SwapPossible(amount, input, direction) == direction = "Remove" => amount < input

swap_input(amount, input, direction) ==
    IF direction = "Add" THEN input + amount ELSE input - amount
calculate_swap_output(amount, input, direction, sqrt_k) ==
    (sqrt_k * sqrt_k) \div swap_input(amount, input, direction)

(* What a swap of base is worth in quote, rounded against the user: one    *)
(* unit more when base is taken out.                                       *)
calculate_quote_asset_amount_swapped(before, after, direction, peg) ==
    IF direction = "Add" THEN reserve_to_asset_amount(before - after, peg)
                         ELSE reserve_to_asset_amount(after - before, peg) + 1

(* The reserves the spread quotes from.  Half a spread of 0, or above the  *)
(* precision, is a division by zero, and the quote reserve must not run    *)
(* out.                                                                    *)
spread_of(amm, direction) == IF direction = "Long" THEN amm.long_spread ELSE amm.short_spread

spread_delta(amm, direction) ==
    IF spread_of(amm, direction) = 0 THEN 0
    ELSE amm.quote_asset_reserve
             \div (BID_ASK_SPREAD_PRECISION \div (spread_of(amm, direction) \div 2))

SpreadPossible(amm, direction) ==
    LET spread == spread_of(amm, direction)
    IN /\ spread # 0 => spread \div 2 \in 1 .. BID_ASK_SPREAD_PRECISION
       /\ direction = "Short" => spread_delta(amm, direction) < amm.quote_asset_reserve

(* Mutant: each side gets the other side's price.                          *)
spread_quote_reserve_Flipped(amm, direction) ==
    IF direction = "Long" THEN amm.quote_asset_reserve - spread_delta(amm, direction)
                          ELSE amm.quote_asset_reserve + spread_delta(amm, direction)

spread_quote_reserve(amm, direction) ==
    IF direction = "Long" THEN amm.quote_asset_reserve + spread_delta(amm, direction)
                          ELSE amm.quote_asset_reserve - spread_delta(amm, direction)
spread_base_reserve(amm, direction) ==
    (amm.sqrt_k * amm.sqrt_k) \div spread_quote_reserve(amm, direction)

(* Quote that the spread leaves to the market: what the same base would    *)
(* have cost without it, against what was paid.                            *)
spread_surplus(change, peg, quote, round_down) ==
    Abs(reserve_to_asset_amount(change, peg) + (IF round_down THEN 1 ELSE 0) - quote)

(* swap_quote_asset: the base that a quote amount buys (Add) or sells for. *)
swap_quote_asset(amm, quote, direction, use_spread, min_trade_size) ==
    LET amount == asset_to_reserve_amount(quote, amm.peg_multiplier)
        spread == use_spread /\ amm.base_spread > 0
        side == IF direction = "Add" THEN "Long" ELSE "Short"
        base_before == IF spread THEN spread_base_reserve(amm, side) ELSE amm.base_asset_reserve
        quote_before == IF spread THEN spread_quote_reserve(amm, side)
                                  ELSE amm.quote_asset_reserve
        possible == /\ amount >= min_trade_size
                    /\ spread => SpreadPossible(amm, side)
                    /\ SwapPossible(amount, quote_before, direction)
                    /\ SwapPossible(amount, amm.quote_asset_reserve, direction)
        base == base_before - calculate_swap_output(amount, quote_before, direction, amm.sqrt_k)
        new_quote == swap_input(amount, amm.quote_asset_reserve, direction)
        new_base == (amm.sqrt_k * amm.sqrt_k) \div new_quote
        closes == SwapPossible(Abs(base), new_base, direction)
        if_closed == calculate_swap_output(Abs(base), new_base, direction, amm.sqrt_k)
        change == IF direction = "Add" THEN new_quote - if_closed ELSE if_closed - new_quote
        ok == possible /\ (spread => closes /\ change >= 0)
    IN IF ~ ok THEN [ok |-> FALSE]
       ELSE [ok |-> TRUE, base |-> base, quote |-> quote, dropped |-> 0,
             surplus |-> IF spread THEN spread_surplus(change, amm.peg_multiplier, quote, FALSE)
                                   ELSE 0,
             amm |-> [amm EXCEPT !.base_asset_reserve = new_base,
                                 !.quote_asset_reserve = new_quote]]

(* swap_base_asset: what selling (Add) or buying base is worth in quote.   *)
swap_base_asset(amm, base, direction, use_spread) ==
    LET spread == use_spread /\ amm.base_spread > 0
        side == IF direction = "Add" THEN "Short" ELSE "Long"
        base_before == IF spread THEN spread_base_reserve(amm, side) ELSE amm.base_asset_reserve
        quote_before == IF spread THEN spread_quote_reserve(amm, side)
                                  ELSE amm.quote_asset_reserve
        possible == /\ spread => SpreadPossible(amm, side)
                    /\ SwapPossible(base, base_before, direction)
                    /\ SwapPossible(base, amm.base_asset_reserve, direction)
        quote_after == calculate_swap_output(base, base_before, direction, amm.sqrt_k)
        moved == IF direction = "Add" THEN quote_before - quote_after
                                      ELSE quote_after - quote_before
        new_base == swap_input(base, amm.base_asset_reserve, direction)
        new_quote == (amm.sqrt_k * amm.sqrt_k) \div new_base
        change == IF direction = "Add" THEN amm.quote_asset_reserve - new_quote
                                       ELSE new_quote - amm.quote_asset_reserve
        quote == calculate_quote_asset_amount_swapped(quote_before, quote_after, direction,
                                                      amm.peg_multiplier)
        ok == possible /\ moved >= 0 /\ (spread => change >= 0)
    IN IF ~ ok THEN [ok |-> FALSE]
       ELSE [ok |-> TRUE, quote |-> quote, dropped |-> 0,
             surplus |-> IF spread
                         THEN spread_surplus(change, amm.peg_multiplier, quote,
                                             direction = "Remove")
                         ELSE 0,
             amm |-> [amm EXCEPT !.base_asset_reserve = new_base,
                                 !.quote_asset_reserve = new_quote]]

-----------------------------------------------------------------------------
(* The value of a position, and the fee for closing it left out.           *)

swap_direction_to_close_position(base) == IF base >= 0 THEN "Add" ELSE "Remove"

ClosePossible(base, amm) ==
    \/ base = 0
    \/ LET direction == swap_direction_to_close_position(base)
       IN /\ SwapPossible(Abs(base), amm.base_asset_reserve, direction)
          /\ LET after == calculate_swap_output(Abs(base), amm.base_asset_reserve, direction,
                                                amm.sqrt_k)
             IN IF base > 0 THEN after =< amm.quote_asset_reserve
                            ELSE after >= amm.quote_asset_reserve

calculate_base_asset_value(base, amm) ==
    LET direction == swap_direction_to_close_position(base)
    IN IF base = 0 THEN 0
       ELSE calculate_quote_asset_amount_swapped(
                amm.quote_asset_reserve,
                calculate_swap_output(Abs(base), amm.base_asset_reserve, direction, amm.sqrt_k),
                direction, amm.peg_multiplier)

calculate_pnl(exit_value, entry_value, direction_to_close) ==
    IF direction_to_close = "Add" THEN exit_value - entry_value ELSE entry_value - exit_value

-----------------------------------------------------------------------------
(* Funding.                                                                *)

(* In quote; longs pay when the rate rises.                                *)
calculate_funding_payment(rate_delta, base) ==
    LET amount == (((Abs(rate_delta) * Abs(base)) \div MARK_PRICE_PRECISION)
                      \div FUNDING_PAYMENT_PRECISION) \div AMM_TO_QUOTE_PRECISION_RATIO
    IN IF (base > 0) = (rate_delta > 0) THEN - amount ELSE amount

calculate_funding_rate_from_pnl_limit(pnl_limit, base) ==
    IF base = 0 THEN 0
    ELSE LET biased == IF pnl_limit < 0 THEN pnl_limit + 1 ELSE pnl_limit
             scaled == biased * QUOTE_TO_BASE_AMT_FUNDING_PRECISION
         IN IF base > 0 THEN Quotient(scaled, base) ELSE - Quotient(scaled, - base)
=============================================================================
