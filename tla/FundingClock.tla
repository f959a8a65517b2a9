---------------------------- MODULE FundingClock ----------------------------
(***************************************************************************)
(* The clock of one market's funding: the twaps of its mark and of its     *)
(* oracle's price, when they move, and when a funding rate is computed     *)
(* from them (math/amm.rs, math/oracle.rs, controller/funding.rs and the   *)
(* instructions of lib.rs that use them).                                  *)
(*                                                                         *)
(* The mark moves with trades, and is otherwise an input, as are time and  *)
(* the oracle's account.  What a rate then does to positions and fees is   *)
(* update_funding_rate of PerpMarket, which takes the rate as its input.   *)
(* The spread is fixed and curve_update_intensity is 0.  A pause of the    *)
(* exchange only keeps instructions from happening and is left out.        *)
(***************************************************************************)
EXTENDS Integers

CONSTANTS
    funding_period,
    InitMark,                       \* the mark of a new market
    MarkPrices,                     \* marks that trades and repegs lead to
    Feeds,                          \* what the oracle's account may say
    Waits,                          \* seconds that may pass between instructions
    long_spread, short_spread,      \* in BID_ASK_SPREAD_PRECISION
    BID_ASK_SPREAD_PRECISION,       \* 10^6 in the code
    FUNDING_PAYMENT_PRECISION,      \* 10^4
    PeriodAdjustment,               \* 24 for periods up to an hour
    NormaliseDenominator,           \* 4000: 2.5 basis points of the mark
    NudgeDenominator,               \* 1000: a tenth of a percent
    ClampDenominator,               \* 33: 3 percent
    too_volatile_ratio, confidence_interval_max_size,    \* validity guard rails
    MaxDivergence,                  \* in BID_ASK_SPREAD_PRECISION
    MaxSteps                        \* bound on the length of a behaviour

Prices == Nat \ {0}
Feed == [price : Int, confidence : Nat, usable : BOOLEAN, twap : Prices]

ASSUME ClockAssumption ==
    /\ funding_period \in Nat \ {0}
    /\ InitMark \in Prices /\ MarkPrices \subseteq Prices
    /\ Feeds \subseteq Feed /\ Waits \subseteq Nat
    /\ long_spread \in Nat /\ short_spread \in Nat
    /\ BID_ASK_SPREAD_PRECISION \in Nat \ {0} /\ FUNDING_PAYMENT_PRECISION \in Nat \ {0}
    /\ PeriodAdjustment \in Nat \ {0} /\ NormaliseDenominator \in Nat \ {0}
    /\ NudgeDenominator \in Nat \ {0} /\ ClampDenominator \in Nat \ {0}
    /\ too_volatile_ratio \in Nat /\ confidence_interval_max_size \in Nat
    /\ MaxDivergence \in Nat /\ MaxSteps \in Nat

VARIABLES
    amm,              \* the mark, the twaps, their times, the last rate and its time
    oracle,           \* usable: fresh and with enough data points
    funding_paused,
    now,
    seen,             \* history: the marks and the oracle's accounts so far
    steps

vars == <<amm, oracle, funding_paused, now, seen, steps>>

(* initialize_market                                                       *)
Init ==
    /\ oracle \in {f \in Feeds : f.usable /\ f.price > 0}
    /\ now = 0
    /\ amm = [mark |-> InitMark,
              last_mark_price_twap |-> InitMark,
              last_bid_price_twap |-> InitMark,
              last_ask_price_twap |-> InitMark,
              last_mark_price_twap_ts |-> now,
              last_oracle_price |-> oracle.price,
              last_oracle_price_twap |-> oracle.twap,
              last_oracle_price_twap_ts |-> now,
              last_funding_rate |-> 0,
              last_funding_rate_ts |-> now]
    /\ funding_paused = FALSE
    /\ seen = [marks |-> {InitMark}, feeds |-> {oracle}]
    /\ steps = 0

Step == steps < MaxSteps /\ steps' = steps + 1

Abs(x) == IF x < 0 THEN - x ELSE x
Lower(x, y) == IF x < y THEN x ELSE y
Higher(x, y) == IF x < y THEN y ELSE x
(* Division that truncates towards zero.                                   *)
Quotient(x, y) == IF x < 0 THEN - ((- x) \div y) ELSE x \div y

-----------------------------------------------------------------------------
(* Twaps, of an amm a at the present time.                                 *)

calculate_weighted_average(x, y, weight_x, weight_y) ==
    Quotient(x * weight_x + y * weight_y, weight_x + weight_y)

since_last(ts) == Higher(1, now - ts)

(* Mutant: nothing is left of a period that is over.                       *)
from_start_Unbounded(since) == funding_period - since

from_start(since) == Higher(1, funding_period - since)

calculate_new_twap(price, twap, ts) ==
    calculate_weighted_average(price, twap, since_last(ts), from_start(since_last(ts)))

bid_price(mark) == (mark * (BID_ASK_SPREAD_PRECISION + short_spread)) \div BID_ASK_SPREAD_PRECISION
ask_price(mark) == (mark * (BID_ASK_SPREAD_PRECISION + long_spread)) \div BID_ASK_SPREAD_PRECISION

(* Mutant: the time of the update is not kept.                             *)
update_mark_twap_KeepsTime(a, mark) ==
    [a EXCEPT
        !.last_mark_price_twap = calculate_new_twap(mark, @, a.last_mark_price_twap_ts),
        !.last_bid_price_twap = calculate_new_twap(bid_price(mark), @, a.last_mark_price_twap_ts),
        !.last_ask_price_twap = calculate_new_twap(ask_price(mark), @, a.last_mark_price_twap_ts)]

(* Mutant: the start of the window is kept as the time of the update.      *)
update_mark_twap_WindowStart(a, mark) ==
    [update_mark_twap_KeepsTime(a, mark) EXCEPT !.last_mark_price_twap_ts = now - funding_period]

update_mark_twap(a, mark) ==
    [a EXCEPT
        !.last_mark_price_twap = calculate_new_twap(mark, @, a.last_mark_price_twap_ts),
        !.last_bid_price_twap = calculate_new_twap(bid_price(mark), @, a.last_mark_price_twap_ts),
        !.last_ask_price_twap = calculate_new_twap(ask_price(mark), @, a.last_mark_price_twap_ts),
        !.last_mark_price_twap_ts = now]

mid_twap(a) == (a.last_bid_price_twap + a.last_ask_price_twap) \div 2

(* The oracle's price, taken towards the mark within its confidence.       *)
normalise_oracle_price(mark) ==
    LET price == oracle.price
        band == mark \div NormaliseDenominator
    IN IF mark > price
       THEN Lower(Higher(mark - band, price), price + oracle.confidence)
       ELSE Higher(Lower(mark + band, price), price - oracle.confidence)

(* At most a third of the price away from the twap.                        *)
capped_oracle_update_price(a, price) ==
    LET twap == a.last_oracle_price_twap
        third == Quotient(price, 3)
    IN IF Abs(price - twap) =< Abs(third) THEN price
       ELSE IF price > twap THEN twap + third ELSE twap - third

(* The last price nudged towards the new one and, when the mark's twap is  *)
(* the more recent one, corrected towards that.                            *)
calculate_new_oracle_price_twap(a, price) ==
    LET last == IF a.last_oracle_price > 0 THEN a.last_oracle_price ELSE price
        nudge == last \div NudgeDenominator
        interpolated == Lower(last + nudge, Higher(last - nudge, price))
        invalid_for == a.last_mark_price_twap_ts - a.last_oracle_price_twap_ts
        corrected ==
            IF invalid_for > 0
            THEN calculate_weighted_average(a.last_mark_price_twap, interpolated,
                                            invalid_for, from_start(invalid_for))
            ELSE interpolated
    IN calculate_new_twap(corrected, a.last_oracle_price_twap, a.last_oracle_price_twap_ts)

update_oracle_price_twap(a, mark) ==
    LET price == normalise_oracle_price(mark)
        capped == capped_oracle_update_price(a, price)
    IN IF capped > 0 /\ price > 0
       THEN [a EXCEPT !.last_oracle_price_twap = calculate_new_oracle_price_twap(a, capped),
                      !.last_oracle_price = oracle.price,
                      !.last_oracle_price_twap_ts = now]
       ELSE a

-----------------------------------------------------------------------------
(* The oracle.                                                             *)

(* Casting a negative price to an unsigned one fails the instruction.      *)
Readable == oracle.price >= 0

is_oracle_valid(a) ==
    /\ oracle.usable
    /\ oracle.price > 0
    /\ Quotient(oracle.price, Higher(1, a.last_oracle_price_twap)) =< too_volatile_ratio
    /\ Quotient(a.last_oracle_price_twap, Higher(1, oracle.price)) =< too_volatile_ratio
    /\ oracle.price \div Higher(1, oracle.confidence) >= confidence_interval_max_size

calculate_oracle_mark_spread_pct(mark) ==
    Quotient((mark - oracle.price) * BID_ASK_SPREAD_PRECISION, mark)
is_oracle_mark_too_divergent(mark) == Abs(calculate_oracle_mark_spread_pct(mark)) > MaxDivergence

block_operation(a, mark) == ~ is_oracle_valid(a) \/ is_oracle_mark_too_divergent(mark)

-----------------------------------------------------------------------------
(* Funding.                                                                *)

(* Mutant: an update a little late moves the next one forward by as much.  *)
next_update_wait_Sliding(ts) == funding_period - funding_period \div 3

(* An update is due on the next multiple of the period, or on the one      *)
(* after it if the last update was more than a third of a period late.     *)
next_update_wait(ts) ==
    LET delay == ts % funding_period
        wait == IF delay > funding_period \div 3 THEN 2 * funding_period - delay
                                                 ELSE funding_period - delay
    IN IF funding_period =< 1 \/ delay = 0 THEN funding_period
       ELSE IF wait > 2 * funding_period THEN wait - funding_period
       ELSE wait

clamped_price_spread(spread, oracle_twap) ==
    LET most == Quotient(oracle_twap, ClampDenominator)
    IN Higher(- most, Lower(spread, most))

(* Done with every instruction that ends in update_funding_rate; mark is   *)
(* the one it was given, which a trade took before it moved the curve.     *)
funding_updated(a, mark) ==
    IF \/ funding_paused
       \/ block_operation(a, mark)
       \/ now - a.last_funding_rate_ts < next_update_wait(a.last_funding_rate_ts)
    THEN a
    ELSE LET b == update_oracle_price_twap(a, mark)
             c == update_mark_twap(b, b.mark)
             spread == clamped_price_spread(mid_twap(c) - c.last_oracle_price_twap,
                                            c.last_oracle_price_twap)
         IN [c EXCEPT !.last_funding_rate =
                          Quotient(spread * FUNDING_PAYMENT_PRECISION, PeriodAdjustment),
                      !.last_funding_rate_ts = now]

-----------------------------------------------------------------------------
(* Instructions.                                                           *)

IfValid(a, mark) == IF is_oracle_valid(a) THEN update_oracle_price_twap(a, mark) ELSE a
Swapped(a, mark, after) == [update_mark_twap(a, mark) EXCEPT !.mark = after]

(* A trade that turns a position round closes it and opens another: two    *)
(* swaps, which both average the mark the instruction began with.          *)
SwappedTwice(a, mark, after) == Swapped(Swapped(a, mark, after), mark, after)

DivergenceAllows(after, risk) ==
    (is_oracle_valid(amm) /\ is_oracle_mark_too_divergent(after)) =>
        /\ is_oracle_mark_too_divergent(amm.mark)
        /\ risk => Abs(calculate_oracle_mark_spread_pct(after))
                     < Abs(calculate_oracle_mark_spread_pct(amm.mark))

Marked(after) == seen' = [seen EXCEPT !.marks = @ \cup {after}]

(* open_position, and an order that is filled, liquidity permitting: the   *)
(* oracle's twap is updated before the mark's.                             *)
open_position(after, risk) ==
    /\ Step /\ Readable /\ DivergenceAllows(after, risk)
    /\ \E s \in {Swapped(IfValid(amm, amm.mark), amm.mark, after),
                 SwappedTwice(IfValid(amm, amm.mark), amm.mark, after)} :
          amm' = funding_updated(s, amm.mark)
    /\ Marked(after)
    /\ UNCHANGED <<oracle, funding_paused, now>>

(* The mark's twap is updated before the oracle's.                         *)
close_position(after) ==
    /\ Step /\ Readable /\ DivergenceAllows(after, FALSE)
    /\ amm' = funding_updated(IfValid(Swapped(amm, amm.mark, after), amm.mark), amm.mark)
    /\ Marked(after)
    /\ UNCHANGED <<oracle, funding_paused, now>>

(* An order that cannot be filled yet, in place_and_fill_order.            *)
order_unfilled ==
    /\ Step /\ Readable
    /\ amm' = IfValid(amm, amm.mark)
    /\ UNCHANGED <<oracle, funding_paused, now, seen>>

(* A market in which a liquidated account had a position; how far it may   *)
(* take the mark is Margin's.                                              *)
liquidate(after) ==
    /\ Step /\ Readable
    /\ amm' = Swapped(amm, amm.mark, after)
    /\ Marked(after)
    /\ UNCHANGED <<oracle, funding_paused, now>>

update_funding_rate ==
    /\ Step /\ Readable
    /\ amm' = funding_updated(amm, amm.mark)
    /\ UNCHANGED <<oracle, funding_paused, now, seen>>

(* The oracle's own twap is taken over if that narrows the gap to the      *)
(* mark's; if it would turn the gap round, the gap is closed.              *)
update_amm_oracle_twap ==
    LET before == amm.last_mark_price_twap - amm.last_oracle_price_twap
        after == amm.last_mark_price_twap - oracle.twap
        flips == (after > 0 /\ before < 0) \/ (after < 0 /\ before > 0)
    IN /\ Step
       /\ flips \/ Abs(after) =< Abs(before)
       /\ amm' = [amm EXCEPT !.last_oracle_price_twap =
                                 IF flips THEN amm.last_mark_price_twap ELSE oracle.twap,
                             !.last_oracle_price_twap_ts = now]
       /\ UNCHANGED <<oracle, funding_paused, now, seen>>

reset_amm_oracle_twap ==
    /\ Step /\ Readable
    /\ amm' = IF is_oracle_valid(amm) THEN amm
              ELSE [amm EXCEPT !.last_oracle_price_twap = amm.last_mark_price_twap,
                               !.last_oracle_price_twap_ts = now]
    /\ UNCHANGED <<oracle, funding_paused, now, seen>>

(* repeg_amm_curve and move_amm_price move the mark and no twap.           *)
move_price(after) ==
    /\ Step
    /\ amm' = [amm EXCEPT !.mark = after]
    /\ Marked(after)
    /\ UNCHANGED <<oracle, funding_paused, now>>

update_funding_paused ==
    /\ Step
    /\ funding_paused' = ~ funding_paused
    /\ UNCHANGED <<amm, oracle, now, seen>>

(* Time passes and the oracle's account may say something else.            *)
TimePasses(wait, feed) ==
    /\ Step
    /\ now' = now + wait
    /\ oracle' = feed
    /\ seen' = [seen EXCEPT !.feeds = @ \cup {feed}]
    /\ UNCHANGED <<amm, funding_paused>>

Next ==
    \/ \E after \in MarkPrices :
         \/ \E risk \in BOOLEAN : open_position(after, risk)
         \/ close_position(after)
         \/ liquidate(after)
         \/ move_price(after)
    \/ order_unfilled
    \/ update_funding_rate
    \/ update_amm_oracle_twap
    \/ reset_amm_oracle_twap
    \/ update_funding_paused
    \/ \E wait \in Waits, feed \in Feeds : TimePasses(wait, feed)

Spec == Init /\ [][Next]_vars

-----------------------------------------------------------------------------
AmmType == [mark : Prices,
            last_mark_price_twap : Int,
            last_bid_price_twap : Int,
            last_ask_price_twap : Int,
            last_mark_price_twap_ts : 0 .. now,
            last_oracle_price : Int,
            last_oracle_price_twap : Int,
            last_oracle_price_twap_ts : 0 .. now,
            last_funding_rate : Int,
            last_funding_rate_ts : 0 .. now]

TypeOK ==
    /\ amm \in AmmType
    /\ oracle \in Feeds
    /\ funding_paused \in BOOLEAN
    /\ now \in Nat
    /\ steps \in 0 .. MaxSteps

InLaterPeriod(from, to) ==
    /\ \E k \in 1 .. to : from < k * funding_period /\ k * funding_period =< to
    /\ 3 * (to - from) >= 2 * funding_period

(* Funding is paid once a period however instructions come and whichever   *)
(* of them brings the update: between two updates lies a multiple of the   *)
(* period, and at least two thirds of one passed.                          *)
FundedOncePerPeriod ==
    [][\/ amm'.last_funding_rate_ts = amm.last_funding_rate_ts
       \/ InLaterPeriod(amm.last_funding_rate_ts, amm'.last_funding_rate_ts)]_vars

(* A funding rate is computed from twaps that are both of the present:     *)
(* the update of the oracle's twap, which gives up on a price that is not  *)
(* positive, does not do so on a price that passed as valid.               *)
FundingUsesFreshTwaps ==
    [][amm'.last_funding_rate_ts # amm.last_funding_rate_ts =>
          /\ amm'.last_oracle_price_twap_ts = now
          /\ amm'.last_mark_price_twap_ts = now]_vars

GoodFeeds == {f \in seen.feeds : f.price > 0}
OraclePrices == {f.price - f.confidence : f \in GoodFeeds}
                  \cup {f.price + f.confidence : f \in GoodFeeds}
OracleTwaps == {f.twap : f \in seen.feeds}

Within(x, S) == (\E y \in S : y =< x) /\ (\E y \in S : x =< y)

(* Caps, nudges, corrections and roundings never take a twap out of the    *)
(* range of what it averages: the marks there were, and for the oracle's   *)
(* also its prices and its own twaps.                                      *)
TwapsWithinSeen ==
    /\ Within(amm.last_mark_price_twap, seen.marks)
    /\ Within(amm.last_oracle_price_twap, seen.marks \cup OraclePrices \cup OracleTwaps)
=============================================================================
