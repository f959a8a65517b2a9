------------------------------- MODULE Curve -------------------------------
(***************************************************************************)
(* Changes of a market's curve: its k and its peg, what they cost and who  *)
(* pays, and the spreads.  The admin changes them by update_k and          *)
(* repeg_amm_curve; with curve_update_intensity above 0 every fill first   *)
(* moves the peg towards the oracle (prepeg), and lowers k when the fee    *)
(* pool cannot pay for that (controller/repeg.rs, math/repeg.rs,           *)
(* math/amm.rs).  Functions of a market record m and an oracle's answer.   *)
(***************************************************************************)
EXTENDS PerpPosition

CONSTANTS
    KRatioPrecision,       \* sqrt_k_ratio_precision: 10^8 in the code
    AllowedPriceChange,    \* UPDATE_K_ALLOWED_PRICE_CHANGE
    KErr,                  \* error allowed in k: 100 in the code
    K_BPS_UPDATE_SCALE, K_BPS_DECREASE_MAX, K_BPS_INCREASE_MAX,
    NormaliseDenominator   \* 4000: 2.5 basis points of the mark

ASSUME CurveAssumption ==
    /\ KRatioPrecision \in Nat \ {0} /\ K_BPS_UPDATE_SCALE \in Nat \ {0}
    /\ K_BPS_DECREASE_MAX \in 0 .. K_BPS_UPDATE_SCALE /\ K_BPS_INCREASE_MAX \in Nat
    /\ NormaliseDenominator \in Nat \ {0} /\ AllowedPriceChange \in Nat /\ KErr \in Nat

OraclePriceData == [price : Nat \ {0}, confidence : Nat, delay : Nat, is_valid : BOOLEAN]

-----------------------------------------------------------------------------
(* A change that raises the value of the users' net position is paid from  *)
(* the fee pool, one that lowers it goes to the pool.                      *)

curve_cost(before, after) ==
    LET net == before.net_base_asset_amount
    IN calculate_pnl(calculate_base_asset_value(net, after),
                     calculate_base_asset_value(net, before),
                     swap_direction_to_close_position(net))

CurvePossible(m) == ClosePossible(m.net_base_asset_amount, m)

(* The quote reserve once the users' net position is closed.               *)
terminal_base_reserve(m) ==
    swap_input(Abs(m.net_base_asset_amount), m.base_asset_reserve,
               IF m.net_base_asset_amount > 0 THEN "Add" ELSE "Remove")
terminal_quote_reserve(m) == (m.sqrt_k * m.sqrt_k) \div terminal_base_reserve(m)
terminal_price(m) ==
    calculate_price(terminal_quote_reserve(m), terminal_base_reserve(m), m.peg_multiplier)

get_update_k_result(m, sqrt_k) ==
    LET ratio == (sqrt_k * KRatioPrecision) \div m.sqrt_k
        base == (m.base_asset_reserve * ratio) \div KRatioPrecision
    IN [m EXCEPT !.sqrt_k = sqrt_k, !.base_asset_reserve = base,
                 !.quote_asset_reserve = (sqrt_k * sqrt_k) \div base]

(* k may fall by at most 2.5% at a time.                                   *)
KFallAllowed(m, sqrt_k) ==
    (sqrt_k * KRatioPrecision) \div m.sqrt_k >= (KRatioPrecision * 975) \div 1000

(* The market with another k, the terminal reserve computed anew.          *)
with_k(m, sqrt_k) ==
    LET after == get_update_k_result(m, sqrt_k)
    IN [after EXCEPT !.terminal_quote_asset_reserve = terminal_quote_reserve(after)]

(* What the instruction update_k checks besides the cost: the price hardly *)
(* moves and the reserves multiply to k.                                   *)
UpdateKAllowed(before, after) ==
    LET k == after.base_asset_reserve * after.quote_asset_reserve
    IN /\ KFallAllowed(before, after.sqrt_k)
       /\ Abs(mark_price(before) - mark_price(after)) =< AllowedPriceChange
       /\ (after.sqrt_k > KErr => (after.sqrt_k - KErr) * (after.sqrt_k - KErr) =< k)
       /\ k < (after.sqrt_k + KErr + 1) * (after.sqrt_k + KErr + 1)

-----------------------------------------------------------------------------
(* The peg.                                                                *)

(* Only towards the oracle: the terminal price up to the near edge of its  *)
(* confidence band, the mark price up to the far edge.                     *)
calculate_repeg_validity(before, after, oracle) ==
    LET target == terminal_price(after)
    IN /\ oracle.price > target => /\ target >= terminal_price(before)
                                   /\ target =< oracle.price - oracle.confidence
                                   /\ mark_price(after) =< oracle.price + oracle.confidence
       /\ oracle.price < target => /\ target =< terminal_price(before)
                                   /\ target >= oracle.price + oracle.confidence
                                   /\ mark_price(after) >= oracle.price - oracle.confidence

(* Mutant: all of the fee pool may be spent.                               *)
apply_cost_to_market_All(m, cost) ==
    [ok |-> cost =< m.total_fee_minus_distributions, applied |-> TRUE,
     market |-> [m EXCEPT !.total_fee_minus_distributions = @ - cost]]

(* A cost that would leave no more than the lower bound is not applied;    *)
(* one above all of the fees fails the instruction.                        *)
apply_cost_to_market(m, cost) ==
    LET after == m.total_fee_minus_distributions - cost
        applied == cost > 0 => after > total_fee_lower_bound(m)
    IN [ok |-> after >= 0, applied |-> applied,
        market |-> IF applied THEN [m EXCEPT !.total_fee_minus_distributions = after] ELSE m]

with_peg(m, peg) == [m EXCEPT !.peg_multiplier = peg]
adjust_peg_cost(m, peg) == IF peg = m.peg_multiplier THEN 0 ELSE curve_cost(m, with_peg(m, peg))

(* By the admin, and all or nothing.                                       *)
repeg(m, peg, oracle) ==
    LET paid == apply_cost_to_market(m, adjust_peg_cost(m, peg))
    IN IF /\ peg # m.peg_multiplier /\ oracle.is_valid
          /\ CurvePossible(m) /\ CurvePossible(with_peg(m, peg))
          /\ calculate_repeg_validity(m, with_peg(m, peg), oracle)
          /\ paid.ok /\ paid.applied
       THEN [ok |-> TRUE, market |-> with_peg(paid.market, peg)]
       ELSE Refused

-----------------------------------------------------------------------------
(* The prepeg of a fill.                                                   *)

curve_update_intensity(m) == Min({m.curve_update_intensity, 100})

(* The oracle's price, taken towards the mark within its confidence.       *)
normalise_oracle_price(mark, oracle) ==
    LET band == mark \div NormaliseDenominator
    IN IF mark > oracle.price
       THEN Min({Max({mark - band, oracle.price}), oracle.price + oracle.confidence})
       ELSE Max({Min({mark + band, oracle.price}), oracle.price - oracle.confidence})

(* The oracle counts for less the older its price is.                      *)
calculate_amm_target_price(mark, oracle) ==
    LET weight == Max({0, 100 - oracle.delay * Max({1, oracle.delay \div 2})})
    IN IF weight = 0 THEN mark
       ELSE (normalise_oracle_price(mark, oracle) * weight) \div 100
                + (mark * (100 - weight)) \div 100

(* Mutant: the ratio of the reserves the wrong way around.                 *)
calculate_peg_from_target_price_Inverted(m, target) ==
    LET ratio == MARK_PRICE_PRECISION \div PEG_PRECISION
    IN ((target * m.quote_asset_reserve) \div m.base_asset_reserve + ratio \div 2) \div ratio

calculate_peg_from_target_price(m, target) ==
    LET ratio == MARK_PRICE_PRECISION \div PEG_PRECISION
    IN ((target * m.base_asset_reserve) \div m.quote_asset_reserve + ratio \div 2) \div ratio

calculate_fee_pool(m) == Max({0, m.total_fee_minus_distributions - total_fee_lower_bound(m)})

(* By how much to scale k so that the users' net position loses deficit in *)
(* value, within the bounds of one update.                                 *)
k_bound(m, lower) ==
    IF lower
    THEN K_BPS_UPDATE_SCALE - (K_BPS_DECREASE_MAX * curve_update_intensity(m)) \div 100
    ELSE K_BPS_UPDATE_SCALE + (K_BPS_INCREASE_MAX * curve_update_intensity(m)) \div 100

bounded_k_scale(m, n, d) ==
    LET change == (n * 1000) \div d
        bound == k_bound(m, n =< d)
        most == (bound * 1000) \div K_BPS_UPDATE_SCALE
    IN IF (n > d /\ change > most) \/ (n =< d /\ change < most)
       THEN [ok |-> TRUE, numerator |-> bound, denominator |-> K_BPS_UPDATE_SCALE]
       ELSE [ok |-> TRUE, numerator |-> n, denominator |-> d]

(* Anything but a positive fraction fails an assertion.                    *)
k_scale(m, num, den) ==
    IF num > 0 /\ den > 0 THEN bounded_k_scale(m, num, den)
    ELSE IF num < 0 /\ den < 0 THEN bounded_k_scale(m, - num, - den)
    ELSE Refused

calculate_budgeted_k_scale(m, deficit, mark) ==
    LET net == m.net_base_asset_amount
        mark_div_budget == Quotient(mark, - deficit)
        one_div_net == Quotient(MARK_PRICE_TIMES_AMM_TO_QUOTE_PRECISION_RATIO, net)
    IN k_scale(m,
               mark_div_budget + one_div_net
                   + MARK_PRICE_TIMES_AMM_TO_QUOTE_PRECISION_RATIO \div m.base_asset_reserve,
               mark_div_budget - one_div_net - Quotient(m.base_asset_reserve * one_div_net, net))

(* The market with the k that saves deficit, and what it does save.  A     *)
(* cost fails an assertion.                                                *)
k_changed(m, after, cost) ==
    IF ~ KFallAllowed(m, after.sqrt_k) \/ ~ CurvePossible(after) \/ cost > 0 THEN Refused
    ELSE [ok |-> TRUE, market |-> after, saved |-> - cost]

k_scaled(m, scale) ==
    LET after == with_k(m, (m.sqrt_k * scale.numerator) \div scale.denominator)
    IN IF ~ scale.ok THEN Refused ELSE k_changed(m, after, curve_cost(m, after))

scale_k(m, deficit) == k_scaled(m, calculate_budgeted_k_scale(m, deficit, mark_price(m)))

within_budget(peg, full_budget_peg, optimal) ==
    IF (peg > optimal /\ full_budget_peg < optimal) \/ (peg < optimal /\ full_budget_peg > optimal)
    THEN optimal ELSE full_budget_peg

(* The peg on the way to the optimal one that costs no more than budget.   *)
calculate_budgeted_peg(m, budget, optimal) ==
    LET peg == m.peg_multiplier
        gap == m.quote_asset_reserve - m.terminal_quote_asset_reserve
        costless == gap = 0 \/ (gap > 0) # (optimal > peg)
        per_unit == Abs(gap) \div AMM_TO_QUOTE_PRECISION_RATIO
        delta == ((budget * MARK_PRICE_PRECISION) \div per_unit)
                     \div (MARK_PRICE_PRECISION \div PEG_PRECISION)
        full == IF costless THEN optimal ELSE IF gap > 0 THEN peg + delta ELSE peg - delta
    IN IF optimal = peg \/ m.curve_update_intensity = 0 THEN [ok |-> TRUE, peg |-> peg]
       ELSE IF ~ costless /\ per_unit = 0 THEN Refused
       ELSE IF full < 0 THEN Refused
       ELSE [ok |-> TRUE, peg |-> within_budget(peg, full, optimal)]

(* The peg is moved if the pool can pay for it.  saved is what the change  *)
(* of k took from the users' positions: it raises the budget, but nobody   *)
(* is credited with it, and k stays changed when the peg is not moved.     *)
repegged(m, p, saved) ==
    LET paid == apply_cost_to_market(m, adjust_peg_cost(m, p.peg))
    IN IF ~ p.ok THEN Refused
       ELSE IF ~ CurvePossible(with_peg(m, p.peg)) \/ ~ paid.ok THEN Refused
       ELSE [ok |-> TRUE, saved |-> saved,
             market |-> IF paid.applied THEN with_peg(paid.market, p.peg) ELSE m]

(* The pool pays if it can; otherwise k is changed to raise the budget.    *)
prepeg_towards(m, optimal, cost, budget) ==
    LET by_k(k) == IF ~ k.ok THEN Refused
                   ELSE repegged(k.market,
                                 calculate_budgeted_peg(k.market, budget + k.saved, optimal),
                                 k.saved)
    IN IF cost =< 0 \/ budget >= cost THEN repegged(m, [ok |-> TRUE, peg |-> optimal], 0)
       ELSE by_k(scale_k(m, cost - budget))

optimal_peg(m, oracle) ==
    calculate_peg_from_target_price(m, calculate_amm_target_price(mark_price(m), oracle))

prepeg(m, oracle) ==
    LET possible(optimal) == CurvePossible(m) /\ CurvePossible(with_peg(m, optimal))
        to(optimal) == IF possible(optimal)
                       THEN prepeg_towards(m, optimal, adjust_peg_cost(m, optimal),
                                           calculate_fee_pool(m))
                       ELSE Refused
    IN IF m.curve_update_intensity = 0 THEN [ok |-> TRUE, market |-> m, saved |-> 0]
       ELSE to(optimal_peg(m, oracle))

-----------------------------------------------------------------------------
(* The spreads.                                                            *)

(* update_oracle_price_twap, as far as the spread is concerned: a valid    *)
(* oracle's distance to the mark is kept.                                  *)
observed(m, mark, oracle) ==
    IF ~ oracle.is_valid THEN m
    ELSE [m EXCEPT !.last_oracle_mark_spread_pct =
              Quotient((mark - oracle.price) * BID_ASK_SPREAD_PRECISION, mark)]

max_inventory_skew == 5 * MARK_PRICE_PRECISION

(* How much worse the users' net position would fare if closed than its    *)
(* price says, in terms of the fee pool.                                   *)
effective_leverage(m) ==
    LET value == Quotient((m.quote_asset_reserve - m.terminal_quote_asset_reserve)
                              * m.peg_multiplier, AMM_TIMES_PEG_TO_QUOTE_PRECISION_RATIO)
        local == Quotient(m.net_base_asset_amount * mark_price(m),
                          MARK_PRICE_TIMES_AMM_TO_QUOTE_PRECISION_RATIO)
    IN (Max({0, local - value}) * MARK_PRICE_PRECISION) \div m.total_fee_minus_distributions

(* The spreads every fill computes first.                                  *)
calculate_spreads(m) ==
    LET base == m.base_spread \div 2
        pct == m.last_oracle_mark_spread_pct
        long == IF pct < 0 THEN Max({base, - pct}) ELSE base
        short == IF pct < 0 THEN base ELSE Max({base, pct})
        skew == IF m.total_fee_minus_distributions > 0
                THEN Min({max_inventory_skew, MARK_PRICE_PRECISION + effective_leverage(m)})
                ELSE max_inventory_skew
        skewed(spread) == (spread * skew) \div MARK_PRICE_PRECISION
        unfunded == m.total_fee_minus_distributions = 0
        is_long == m.net_base_asset_amount > 0
    IN IF m.curve_update_intensity = 0
       THEN [m EXCEPT !.long_spread = base, !.short_spread = base]
       ELSE [m EXCEPT
                !.long_spread = IF unfunded \/ is_long THEN skewed(long) ELSE long,
                !.short_spread = IF unfunded \/ ~ is_long THEN skewed(short) ELSE short]
=============================================================================
