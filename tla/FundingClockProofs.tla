------------------------- MODULE FundingClockProofs -------------------------
(***************************************************************************)
(* Proofs about FundingClock, for every period, set of prices, feeds and   *)
(* waits: its state stays well typed, funding is paid once a period and    *)
(* from twaps of the present, twaps stay within what they average, and the *)
(* instructions that write the oracle's twap do not widen the gap.         *)
(***************************************************************************)
EXTENDS FundingClock, TLAPS

(* Truncating division by a positive number gives an integer.              *)
LEMMA QuotientInt ==
    ASSUME NEW x \in Int, NEW y \in Nat \ {0}
    PROVE  Quotient(x, y) \in Int
BY DEF Quotient

(* So does a weighted average with positive weights.                       *)
LEMMA AverageInt ==
    ASSUME NEW x \in Int, NEW y \in Int, NEW v \in Nat \ {0}, NEW w \in Nat \ {0}
    PROVE  calculate_weighted_average(x, y, v, w) \in Int
<1>1. x * v + y * w \in Int /\ v + w \in Nat \ {0}
  OBVIOUS
<1>. QED  BY <1>1, QuotientInt DEF calculate_weighted_average

(* Both weights of a twap are positive, whenever it was last updated.      *)
LEMMA WeightsPositive ==
    ASSUME now \in Nat, NEW ts \in 0 .. now, NEW since \in Nat
    PROVE  /\ since_last(ts) \in Nat \ {0}
           /\ from_start(since) \in Nat \ {0}
BY ClockAssumption DEF since_last, from_start, Higher, ClockAssumption

LEMMA NewTwapInt ==
    ASSUME now \in Nat, NEW ts \in 0 .. now, NEW price \in Int, NEW twap \in Int
    PROVE  calculate_new_twap(price, twap, ts) \in Int
<1>1. since_last(ts) \in Nat \ {0}
  BY WeightsPositive
<1>2. from_start(since_last(ts)) \in Nat \ {0}
  BY <1>1, WeightsPositive
<1>. QED  BY <1>1, <1>2, AverageInt DEF calculate_new_twap

(* update_mark_twap leaves the mark and the time of the last rate alone.   *)
LEMMA MarkTwapUpdated ==
    ASSUME now \in Nat, NEW a \in AmmType, NEW mark \in Prices
    PROVE  /\ update_mark_twap(a, mark) \in AmmType
           /\ update_mark_twap(a, mark).mark = a.mark
           /\ update_mark_twap(a, mark).last_funding_rate_ts = a.last_funding_rate_ts
<1>. DEFINE ts == a.last_mark_price_twap_ts
<1>1. /\ ts \in 0 .. now
      /\ a.last_mark_price_twap \in Int
      /\ a.last_bid_price_twap \in Int
      /\ a.last_ask_price_twap \in Int
  BY DEF AmmType
<1>2. bid_price(mark) \in Int /\ ask_price(mark) \in Int /\ mark \in Int
  BY ClockAssumption DEF bid_price, ask_price, ClockAssumption, Prices
<1>3. calculate_new_twap(mark, a.last_mark_price_twap, ts) \in Int
  BY <1>1, <1>2, NewTwapInt
<1>4. calculate_new_twap(bid_price(mark), a.last_bid_price_twap, ts) \in Int
  BY <1>1, <1>2, NewTwapInt
<1>5. calculate_new_twap(ask_price(mark), a.last_ask_price_twap, ts) \in Int
  BY <1>1, <1>2, NewTwapInt
<1>6. now \in 0 .. now
  OBVIOUS
<1>. QED  BY <1>3, <1>4, <1>5, <1>6 DEF update_mark_twap, AmmType

(* So does update_oracle_price_twap.                                       *)
LEMMA OracleTwapUpdated ==
    ASSUME now \in Nat, oracle \in Feeds, NEW a \in AmmType, NEW mark \in Prices
    PROVE  /\ update_oracle_price_twap(a, mark) \in AmmType
           /\ update_oracle_price_twap(a, mark).mark = a.mark
           /\ update_oracle_price_twap(a, mark).last_funding_rate_ts = a.last_funding_rate_ts
<1>1. oracle.price \in Int /\ oracle.confidence \in Nat
  BY ClockAssumption DEF ClockAssumption, Feed
<1>2. normalise_oracle_price(mark) \in Int
  BY <1>1, ClockAssumption DEF normalise_oracle_price, Lower, Higher, Prices, ClockAssumption
<1>3. a.last_oracle_price_twap \in Int /\ a.last_oracle_price \in Int
      /\ a.last_oracle_price_twap_ts \in 0 .. now /\ a.last_mark_price_twap_ts \in 0 .. now
      /\ a.last_mark_price_twap \in Int
  BY DEF AmmType
<1>. DEFINE price == normalise_oracle_price(mark)
            capped == capped_oracle_update_price(a, price)
<1>4. capped \in Int
  <2>1. Quotient(price, 3) \in Int
    BY <1>2, QuotientInt
  <2>. QED  BY <1>2, <1>3, <2>1 DEF capped_oracle_update_price
<1>5. calculate_new_oracle_price_twap(a, capped) \in Int
  <2>. DEFINE last == IF a.last_oracle_price > 0 THEN a.last_oracle_price ELSE capped
              nudge == last \div NudgeDenominator
              interpolated == Lower(last + nudge, Higher(last - nudge, capped))
              invalid_for == a.last_mark_price_twap_ts - a.last_oracle_price_twap_ts
              average == calculate_weighted_average(a.last_mark_price_twap, interpolated,
                                                    invalid_for, from_start(invalid_for))
              corrected == IF invalid_for > 0 THEN average ELSE interpolated
  <2>1. last \in Int
    BY <1>3, <1>4
  <2>2. nudge \in Int
    BY <2>1, ClockAssumption DEF ClockAssumption
  <2>3. interpolated \in Int
    BY <1>4, <2>1, <2>2 DEF Lower, Higher
  <2>4. ASSUME invalid_for > 0 PROVE average \in Int
    <3>1. invalid_for \in Nat \ {0}
      BY <1>3, <2>4
    <3>2. from_start(invalid_for) \in Nat \ {0}
      BY <1>3, <3>1, WeightsPositive
    <3>. QED  BY <1>3, <2>3, <3>1, <3>2, AverageInt
  <2>5. corrected \in Int
    BY <2>3, <2>4
  <2>6. calculate_new_twap(corrected, a.last_oracle_price_twap, a.last_oracle_price_twap_ts)
          \in Int
    BY <1>3, <2>5, NewTwapInt
  <2>. QED  BY <2>6 DEF calculate_new_oracle_price_twap
<1>6. now \in 0 .. now
  OBVIOUS
<1>. QED  BY <1>1, <1>5, <1>6 DEF update_oracle_price_twap, AmmType

(* A funding rate written.                                                *)
LEMMA RateWritten ==
    ASSUME now \in Nat, NEW a \in AmmType, NEW rate \in Int
    PROVE  LET r == [a EXCEPT !.last_funding_rate = rate, !.last_funding_rate_ts = now]
           IN r \in AmmType /\ r.last_funding_rate_ts = now
<1>1. now \in 0 .. now
  OBVIOUS
<1>. QED  BY <1>1 DEF AmmType

(* An oracle twap written by one of the instructions that do.              *)
LEMMA OracleTwapWritten ==
    ASSUME now \in Nat, NEW a \in AmmType, NEW twap \in Int
    PROVE  LET w == [a EXCEPT !.last_oracle_price_twap = twap, !.last_oracle_price_twap_ts = now]
           IN w \in AmmType /\ w.last_funding_rate_ts = a.last_funding_rate_ts
<1>1. now \in 0 .. now
  OBVIOUS
<1>. QED  BY <1>1 DEF AmmType

(* An instruction that ends in update_funding_rate keeps the time of the   *)
(* last rate, or makes it the present when the wait is over.               *)
LEMMA FundingUpdated ==
    ASSUME now \in Nat, oracle \in Feeds, NEW a \in AmmType, NEW mark \in Prices
    PROVE  LET f == funding_updated(a, mark)
               from == a.last_funding_rate_ts
           IN /\ f \in AmmType
              /\ \/ f.last_funding_rate_ts = from
                 \/ /\ f.last_funding_rate_ts = now
                    /\ now - from >= next_update_wait(from)
<1>. DEFINE b == update_oracle_price_twap(a, mark)
            c == update_mark_twap(b, b.mark)
            most == Quotient(c.last_oracle_price_twap, ClampDenominator)
            spread == clamped_price_spread(mid_twap(c) - c.last_oracle_price_twap,
                                           c.last_oracle_price_twap)
            rate == Quotient(spread * FUNDING_PAYMENT_PRECISION, PeriodAdjustment)
<1>1. b \in AmmType
  BY OracleTwapUpdated
<1>2. b.mark \in Prices
  BY <1>1 DEF AmmType
<1>3. c \in AmmType
  BY <1>1, <1>2, MarkTwapUpdated
<1>4. c.last_oracle_price_twap \in Int /\ mid_twap(c) \in Int
  BY <1>3 DEF AmmType, mid_twap
<1>5. most \in Int
  BY <1>4, QuotientInt, ClockAssumption DEF ClockAssumption
<1>6. spread \in Int
  BY <1>4, <1>5 DEF clamped_price_spread, Higher, Lower
<1>7. rate \in Int
  <2>1. spread * FUNDING_PAYMENT_PRECISION \in Int
    BY <1>6, ClockAssumption DEF ClockAssumption
  <2>. QED  BY <2>1, QuotientInt, ClockAssumption DEF ClockAssumption
<1>. DEFINE paid == [c EXCEPT !.last_funding_rate = rate, !.last_funding_rate_ts = now]
<1>8. paid \in AmmType /\ paid.last_funding_rate_ts = now
  <2>. HIDE DEF c, rate
  <2>. QED  BY <1>3, <1>7, RateWritten
<1>9. a.last_funding_rate_ts \in Int /\ next_update_wait(a.last_funding_rate_ts) \in Int
  <2>1. a.last_funding_rate_ts \in Nat
    BY DEF AmmType
  <2>. QED  BY <2>1, ClockAssumption DEF next_update_wait, ClockAssumption
<1>10. \/ funding_updated(a, mark) = a
       \/ /\ funding_updated(a, mark) = paid
          /\ now - a.last_funding_rate_ts >= next_update_wait(a.last_funding_rate_ts)
  BY <1>9 DEF funding_updated
<1>. HIDE DEF paid
<1>. QED  BY <1>8, <1>10

(* The wait ends on a multiple of the period and takes two thirds of one   *)
(* or more.                                                                *)
LEMMA WaitEndsOnPeriod ==
    ASSUME NEW from \in Nat, NEW to \in Nat, to - from >= next_update_wait(from)
    PROVE  InLaterPeriod(from, to)
<1>. DEFINE P == funding_period
            d == from % P
            q == from \div P
            w == next_update_wait(from)
<1>1. P \in Nat \ {0}
  BY ClockAssumption DEF ClockAssumption
<1>2. q \in Nat /\ d \in 0 .. P - 1 /\ from = q * P + d
  BY <1>1
<1>3. P \div 3 \in Nat /\ 3 * (P \div 3) =< P
  BY <1>1
<1>4. \/ w = P - d /\ d =< P \div 3
      \/ w = 2 * P - d
  BY <1>1, <1>2, <1>3 DEF next_update_wait
<1>5. w \in Int /\ 3 * w >= 2 * P
  BY <1>1, <1>2, <1>3, <1>4
<1>6. 3 * (to - from) >= 2 * P
  BY <1>1, <1>5
<1>7. ASSUME NEW k \in Nat \ {0}, from < k * P, k * P =< to
      PROVE  \E j \in 1 .. to : from < j * P /\ j * P =< to
  <2>1. k =< k * P
    BY <1>1
  <2>2. k \in 1 .. to
    BY <1>1, <1>7, <2>1
  <2>. QED  BY <1>7, <2>2
<1>8. CASE w = P - d
  <2>1. (q + 1) * P = from + w
    BY <1>1, <1>2, <1>8
  <2>2. from < (q + 1) * P /\ (q + 1) * P =< to
    BY <1>1, <1>2, <1>8, <2>1
  <2>3. q + 1 \in Nat \ {0}
    BY <1>2
  <2>4. \E j \in 1 .. to : from < j * P /\ j * P =< to
    BY <1>7, <2>2, <2>3
  <2>. QED  BY <1>6, <2>4 DEF InLaterPeriod
<1>9. CASE w = 2 * P - d
  <2>1. (q + 2) * P = from + w
    BY <1>1, <1>2, <1>9
  <2>2. from < (q + 2) * P /\ (q + 2) * P =< to
    BY <1>1, <1>2, <1>9, <2>1
  <2>3. q + 2 \in Nat \ {0}
    BY <1>2
  <2>4. \E j \in 1 .. to : from < j * P /\ j * P =< to
    BY <1>7, <2>2, <2>3
  <2>. QED  BY <1>6, <2>4 DEF InLaterPeriod
<1>. QED  BY <1>4, <1>8, <1>9

-----------------------------------------------------------------------------
(* The parts instructions are put together from.                           *)
LEMMA IfValidType ==
    ASSUME TypeOK, NEW a \in AmmType, NEW mark \in Prices
    PROVE  /\ IfValid(a, mark) \in AmmType
           /\ IfValid(a, mark).last_funding_rate_ts = a.last_funding_rate_ts
BY OracleTwapUpdated DEF IfValid, TypeOK

LEMMA SwappedType ==
    ASSUME TypeOK, NEW a \in AmmType, NEW mark \in Prices, NEW after \in MarkPrices
    PROVE  /\ Swapped(a, mark, after) \in AmmType
           /\ Swapped(a, mark, after).last_funding_rate_ts = a.last_funding_rate_ts
<1>1. after \in Prices
  BY ClockAssumption DEF ClockAssumption
<1>2. /\ update_mark_twap(a, mark) \in AmmType
      /\ update_mark_twap(a, mark).last_funding_rate_ts = a.last_funding_rate_ts
  BY MarkTwapUpdated DEF TypeOK
<1>. QED  BY <1>1, <1>2 DEF Swapped, AmmType

(* What an instruction does to amm, if it does not let time pass.          *)
FundingStep ==
    /\ amm' \in AmmType
    /\ \/ amm'.last_funding_rate_ts = amm.last_funding_rate_ts
       \/ /\ amm'.last_funding_rate_ts = now
          /\ now - amm.last_funding_rate_ts >= next_update_wait(amm.last_funding_rate_ts)

LEMMA InstructionSteps ==
    ASSUME TypeOK, Next
    PROVE  \/ FundingStep /\ now' = now /\ oracle' = oracle
           \/ amm' = amm /\ oracle' \in Feeds /\ now' \in Nat /\ now =< now'
<1>. USE DEF TypeOK
<1>1. amm.mark \in Prices
  BY DEF AmmType
<1>2. ASSUME NEW after \in MarkPrices, NEW risk \in BOOLEAN, open_position(after, risk)
      PROVE  FundingStep /\ now' = now /\ oracle' = oracle
  <2>. DEFINE v == IfValid(amm, amm.mark)
              w == Swapped(v, amm.mark, after)
  <2>1. v \in AmmType /\ v.last_funding_rate_ts = amm.last_funding_rate_ts
    BY <1>1, IfValidType
  <2>2. w \in AmmType /\ w.last_funding_rate_ts = amm.last_funding_rate_ts
    BY <1>1, <2>1, SwappedType
  <2>3. PICK s \in {w, Swapped(w, amm.mark, after)} : amm' = funding_updated(s, amm.mark)
    BY <1>2 DEF open_position, SwappedTwice
  <2>. HIDE DEF w
  <2>4. s \in AmmType /\ s.last_funding_rate_ts = amm.last_funding_rate_ts
    BY <1>1, <2>2, <2>3, SwappedType
  <2>5. amm' = funding_updated(s, amm.mark) /\ now' = now /\ oracle' = oracle
    BY <1>2, <2>3 DEF open_position
  <2>. QED  BY <1>1, <2>4, <2>5, FundingUpdated DEF FundingStep
<1>3. ASSUME NEW after \in MarkPrices, close_position(after)
      PROVE  FundingStep /\ now' = now /\ oracle' = oracle
  <2>. DEFINE s == Swapped(amm, amm.mark, after)
              v == IfValid(s, amm.mark)
  <2>1. s \in AmmType /\ s.last_funding_rate_ts = amm.last_funding_rate_ts
    BY <1>1, SwappedType
  <2>2. v \in AmmType /\ v.last_funding_rate_ts = amm.last_funding_rate_ts
    BY <1>1, <2>1, IfValidType
  <2>3. amm' = funding_updated(v, amm.mark) /\ now' = now /\ oracle' = oracle
    BY <1>3 DEF close_position
  <2>. HIDE DEF v
  <2>. QED  BY <1>1, <2>2, <2>3, FundingUpdated DEF FundingStep
<1>4. ASSUME NEW after \in MarkPrices, liquidate(after)
      PROVE  FundingStep /\ now' = now /\ oracle' = oracle
  BY <1>1, <1>4, SwappedType DEF liquidate, FundingStep
<1>5. ASSUME NEW after \in MarkPrices, move_price(after)
      PROVE  FundingStep /\ now' = now /\ oracle' = oracle
  <2>1. after \in Prices
    BY ClockAssumption DEF ClockAssumption
  <2>. QED  BY <1>5, <2>1 DEF move_price, FundingStep, AmmType
<1>6. ASSUME order_unfilled
      PROVE  FundingStep /\ now' = now /\ oracle' = oracle
  BY <1>1, <1>6, IfValidType DEF order_unfilled, FundingStep
<1>7. ASSUME update_funding_rate
      PROVE  FundingStep /\ now' = now /\ oracle' = oracle
  <2>1. amm' = funding_updated(amm, amm.mark) /\ now' = now /\ oracle' = oracle
    BY <1>7 DEF update_funding_rate
  <2>. QED  BY <1>1, <2>1, FundingUpdated DEF FundingStep
<1>8. ASSUME update_amm_oracle_twap
      PROVE  FundingStep /\ now' = now /\ oracle' = oracle
  <2>1. oracle.twap \in Int
    BY ClockAssumption DEF ClockAssumption, Feed, Prices
  <2>2. PICK twap \in Int : amm' = [amm EXCEPT !.last_oracle_price_twap = twap,
                                               !.last_oracle_price_twap_ts = now]
    <3>1. amm.last_mark_price_twap \in Int
      BY DEF AmmType
    <3>. QED  BY <1>8, <2>1, <3>1 DEF update_amm_oracle_twap
  <2>3. now' = now /\ oracle' = oracle
    BY <1>8 DEF update_amm_oracle_twap
  <2>. QED  BY <2>2, <2>3, OracleTwapWritten DEF FundingStep
<1>9. ASSUME reset_amm_oracle_twap
      PROVE  FundingStep /\ now' = now /\ oracle' = oracle
  <2>1. amm.last_mark_price_twap \in Int
    BY DEF AmmType
  <2>2. \/ amm' = amm
        \/ amm' = [amm EXCEPT !.last_oracle_price_twap = amm.last_mark_price_twap,
                              !.last_oracle_price_twap_ts = now]
    BY <1>9 DEF reset_amm_oracle_twap
  <2>3. now' = now /\ oracle' = oracle
    BY <1>9 DEF reset_amm_oracle_twap
  <2>. QED  BY <2>1, <2>2, <2>3, OracleTwapWritten DEF FundingStep
<1>10. ASSUME update_funding_paused
       PROVE  FundingStep /\ now' = now /\ oracle' = oracle
  BY <1>10 DEF update_funding_paused, FundingStep
<1>11. ASSUME NEW wait \in Waits, NEW feed \in Feeds, TimePasses(wait, feed)
       PROVE  amm' = amm /\ oracle' \in Feeds /\ now' \in Nat /\ now =< now'
  BY <1>11, ClockAssumption DEF TimePasses, ClockAssumption
<1>. QED  BY <1>2, <1>3, <1>4, <1>5, <1>6, <1>7, <1>8, <1>9, <1>10, <1>11 DEF Next

(* Types are kept by every step.                                           *)
LEMMA TypeOKStep ==
    ASSUME TypeOK, [Next]_vars
    PROVE  TypeOK'
<1>1. CASE UNCHANGED vars
  BY <1>1 DEF TypeOK, AmmType, vars
<1>2. CASE Next
  <2>1. amm' \in AmmType' /\ now' \in Nat /\ oracle' \in Feeds
    BY <1>2, InstructionSteps DEF TypeOK, AmmType, FundingStep
  <2>2. funding_paused' \in BOOLEAN
    BY <1>2 DEF TypeOK, Next, open_position, close_position, liquidate, move_price,
                order_unfilled, update_funding_rate, update_amm_oracle_twap,
                reset_amm_oracle_twap, update_funding_paused, TimePasses
  <2>3. steps' \in 0 .. MaxSteps
    <3>1. Step
      BY <1>2 DEF Next, open_position, close_position, liquidate, move_price,
                  order_unfilled, update_funding_rate, update_amm_oracle_twap,
                  reset_amm_oracle_twap, update_funding_paused, TimePasses
    <3>. QED  BY <3>1, ClockAssumption DEF TypeOK, Step, ClockAssumption
  <2>. QED  BY <2>1, <2>2, <2>3 DEF TypeOK
<1>. QED  BY <1>1, <1>2

LEMMA ClockInit == Init => TypeOK
<1>. SUFFICES ASSUME Init PROVE TypeOK
  OBVIOUS
<1>1. oracle \in Feeds /\ oracle.price \in Int /\ oracle.twap \in Int
  BY ClockAssumption DEF Init, ClockAssumption, Feed, Prices
<1>2. now = 0 /\ 0 \in 0 .. now /\ InitMark \in Prices /\ InitMark \in Int
  BY ClockAssumption DEF Init, ClockAssumption, Prices
<1>3. amm \in AmmType
  BY <1>1, <1>2 DEF Init, AmmType
<1>4. funding_paused \in BOOLEAN
  BY DEF Init
<1>5. steps \in 0 .. MaxSteps
  BY ClockAssumption DEF Init, ClockAssumption
<1>6. now \in Nat
  BY <1>2
<1>. QED  BY <1>1, <1>3, <1>4, <1>5, <1>6 DEF TypeOK

(* The clock is well typed: no time it keeps is later than the present or  *)
(* before the market was created.                                          *)
THEOREM ClockTypeCorrect == Spec => []TypeOK
BY ClockInit, TypeOKStep, PTL DEF Spec

(* Funding is paid once a period (funding.rs:74), whatever the period and  *)
(* whenever and by whichever instruction the update is brought about.      *)
THEOREM OncePerPeriod == Spec => FundedOncePerPeriod
<1>1. ASSUME TypeOK, [Next]_vars
      PROVE  [\/ amm'.last_funding_rate_ts = amm.last_funding_rate_ts
              \/ InLaterPeriod(amm.last_funding_rate_ts, amm'.last_funding_rate_ts)]_vars
  <2>1. SUFFICES ASSUME Next, amm'.last_funding_rate_ts # amm.last_funding_rate_ts
                 PROVE  InLaterPeriod(amm.last_funding_rate_ts, amm'.last_funding_rate_ts)
    BY <1>1 DEF vars
  <2>2. /\ amm'.last_funding_rate_ts = now
        /\ now - amm.last_funding_rate_ts >= next_update_wait(amm.last_funding_rate_ts)
    BY <1>1, <2>1, InstructionSteps DEF FundingStep
  <2>3. amm.last_funding_rate_ts \in Nat /\ now \in Nat
    BY <1>1 DEF TypeOK, AmmType
  <2>. QED  BY <2>2, <2>3, WaitEndsOnPeriod
<1>. QED  BY <1>1, ClockTypeCorrect, PTL DEF Spec, FundedOncePerPeriod

-----------------------------------------------------------------------------
(* Averages stay between what they average.                                *)

(* Truncating division keeps the bounds of its dividend.                   *)
LEMMA QuotientBetween ==
    ASSUME NEW z \in Nat, NEW d \in Nat \ {0}, NEW lo \in Nat, NEW hi \in Nat,
           lo * d =< z, z =< hi * d
    PROVE  lo =< Quotient(z, d) /\ Quotient(z, d) =< hi
<1>. DEFINE q == z \div d
            r == z % d
<1>1. q \in Int /\ r \in 0 .. d - 1 /\ z = q * d + r
  OBVIOUS
<1>2. Quotient(z, d) = q
  BY DEF Quotient
<1>. HIDE DEF q, r
<1>3. lo =< q
  <2>1. SUFFICES ASSUME q + 1 =< lo PROVE FALSE
    BY <1>1
  <2>2. (q + 1) * d =< lo * d
    BY <1>1, <2>1
  <2>3. (q + 1) * d = q * d + d
    BY <1>1
  <2>. QED  BY <1>1, <2>2, <2>3
<1>4. q =< hi
  <2>1. SUFFICES ASSUME hi + 1 =< q PROVE FALSE
    BY <1>1
  <2>2. (hi + 1) * d =< q * d
    BY <1>1, <2>1
  <2>3. (hi + 1) * d = hi * d + d
    OBVIOUS
  <2>. QED  BY <1>1, <2>2, <2>3
<1>. QED  BY <1>2, <1>3, <1>4

LEMMA AverageBetween ==
    ASSUME NEW x \in Nat, NEW y \in Nat, NEW v \in Nat \ {0}, NEW w \in Nat \ {0},
           NEW lo \in Nat, NEW hi \in Nat, lo =< x, lo =< y, x =< hi, y =< hi
    PROVE  /\ lo =< calculate_weighted_average(x, y, v, w)
           /\ calculate_weighted_average(x, y, v, w) =< hi
<1>1. lo * v =< x * v /\ lo * w =< y * w /\ x * v =< hi * v /\ y * w =< hi * w
  OBVIOUS
<1>2. /\ lo * (v + w) = lo * v + lo * w /\ hi * (v + w) = hi * v + hi * w
      /\ x * v \in Nat /\ y * w \in Nat /\ v + w \in Nat \ {0}
      /\ lo * v \in Nat /\ lo * w \in Nat /\ hi * v \in Nat /\ hi * w \in Nat
  OBVIOUS
<1>3. x * v + y * w \in Nat /\ lo * (v + w) =< x * v + y * w /\ x * v + y * w =< hi * (v + w)
  BY <1>1, <1>2
<1>. QED  BY <1>2, <1>3, QuotientBetween DEF calculate_weighted_average

(* What lies between two numbers within the range of S is within it too.   *)
LEMMA WithinBetween ==
    ASSUME NEW S \in SUBSET Int, NEW x \in Int, NEW y \in Int, NEW z \in Int,
           Within(x, S), Within(y, S), Lower(x, y) =< z, z =< Higher(x, y)
    PROVE  Within(z, S)
<1>1. PICK lx \in S, hx \in S : lx =< x /\ x =< hx
  BY DEF Within
<1>2. PICK ly \in S, hy \in S : ly =< y /\ y =< hy
  BY DEF Within
<1>3. lx =< z \/ ly =< z
  BY <1>1, <1>2 DEF Lower
<1>4. z =< hx \/ z =< hy
  BY <1>1, <1>2 DEF Higher
<1>. QED  BY <1>3, <1>4 DEF Within

LEMMA WithinMember ==
    ASSUME NEW S \in SUBSET Int, NEW x \in S
    PROVE  Within(x, S)
BY DEF Within

LEMMA WithinMore ==
    ASSUME NEW S, NEW T, S \subseteq T, NEW x, Within(x, S)
    PROVE  Within(x, T)
BY DEF Within

(* The average of two positive numbers within the range of S.              *)
LEMMA AverageWithin ==
    ASSUME NEW S \in SUBSET Int, NEW x \in Nat \ {0}, NEW y \in Nat \ {0},
           NEW v \in Nat \ {0}, NEW w \in Nat \ {0}, Within(x, S), Within(y, S)
    PROVE  /\ calculate_weighted_average(x, y, v, w) \in Nat \ {0}
           /\ Within(calculate_weighted_average(x, y, v, w), S)
<1>. DEFINE avg == calculate_weighted_average(x, y, v, w)
<1>1. avg \in Int
  BY AverageInt
<1>2. Lower(x, y) \in Nat \ {0} /\ Higher(x, y) \in Nat
      /\ Lower(x, y) =< x /\ Lower(x, y) =< y /\ x =< Higher(x, y) /\ y =< Higher(x, y)
  BY DEF Lower, Higher
<1>3. Lower(x, y) =< avg /\ avg =< Higher(x, y)
  BY <1>2, AverageBetween
<1>. HIDE DEF avg
<1>4. Within(avg, S)
  BY <1>1, <1>3, WithinBetween
<1>. QED  BY <1>1, <1>2, <1>3, <1>4 DEF avg

LEMMA NewTwapWithin ==
    ASSUME now \in Nat, NEW ts \in 0 .. now, NEW S \in SUBSET Int,
           NEW price \in Nat \ {0}, NEW twap \in Nat \ {0}, Within(price, S), Within(twap, S)
    PROVE  /\ calculate_new_twap(price, twap, ts) \in Nat \ {0}
           /\ Within(calculate_new_twap(price, twap, ts), S)
<1>1. since_last(ts) \in Nat \ {0}
  BY WeightsPositive
<1>2. from_start(since_last(ts)) \in Nat \ {0}
  BY <1>1, WeightsPositive
<1>. QED  BY <1>1, <1>2, AverageWithin DEF calculate_new_twap

-----------------------------------------------------------------------------
(* The twaps of an amm are positive, the mark's within the marks M and the *)
(* oracle's, like the last price taken from it, within S.                  *)
Averages(a, M, S) ==
    /\ a.last_mark_price_twap > 0 /\ Within(a.last_mark_price_twap, M)
    /\ a.last_oracle_price_twap > 0 /\ Within(a.last_oracle_price_twap, S)
    /\ a.last_oracle_price > 0 /\ Within(a.last_oracle_price, S)

(* The prices within its confidence that the oracle's account gives.       *)
PricesIn(S) == oracle.price - oracle.confidence \in S /\ oracle.price + oracle.confidence \in S

(* A swap, or funding, takes the mark into its twap.                       *)
LEMMA MarkTwapAverages ==
    ASSUME now \in Nat, NEW a \in AmmType, NEW M \in SUBSET Prices, NEW S \in SUBSET Int,
           Averages(a, M, S), NEW mark \in M
    PROVE  /\ Averages(update_mark_twap(a, mark), M, S)
           /\ update_mark_twap(a, mark).last_mark_price_twap_ts = now
           /\ update_mark_twap(a, mark).last_oracle_price_twap_ts = a.last_oracle_price_twap_ts
<1>. DEFINE new == calculate_new_twap(mark, a.last_mark_price_twap, a.last_mark_price_twap_ts)
<1>1. /\ M \in SUBSET Int /\ mark \in Nat \ {0} /\ mark \in Prices
      /\ a.last_mark_price_twap \in Nat \ {0} /\ a.last_mark_price_twap_ts \in 0 .. now
  BY DEF AmmType, Averages, Prices
<1>2. Within(mark, M)
  BY <1>1, WithinMember
<1>3. Within(a.last_mark_price_twap, M)
  BY DEF Averages
<1>4. new \in Nat \ {0} /\ Within(new, M)
  BY <1>1, <1>2, <1>3, NewTwapWithin
<1>5. /\ update_mark_twap(a, mark).last_mark_price_twap = new
      /\ update_mark_twap(a, mark).last_mark_price_twap_ts = now
      /\ update_mark_twap(a, mark).last_oracle_price_twap_ts = a.last_oracle_price_twap_ts
      /\ update_mark_twap(a, mark).last_oracle_price_twap = a.last_oracle_price_twap
      /\ update_mark_twap(a, mark).last_oracle_price = a.last_oracle_price
  BY DEF update_mark_twap, AmmType
<1>. HIDE DEF new
<1>. QED  BY <1>4, <1>5 DEF Averages

(* The price that is taken into the oracle's twap: positive, and between   *)
(* the ends of the oracle's confidence or the twap.                        *)
LEMMA CappedPrice ==
    ASSUME oracle \in Feeds, oracle.price > 0, NEW S \in SUBSET Int, PricesIn(S),
           NEW a, a.last_oracle_price_twap \in Nat \ {0}, Within(a.last_oracle_price_twap, S),
           NEW mark \in Prices
    PROVE  LET price == normalise_oracle_price(mark)
               capped == capped_oracle_update_price(a, price)
           IN price \in Nat \ {0} /\ capped \in Nat \ {0} /\ Within(capped, S)
<1>. DEFINE price == normalise_oracle_price(mark)
            capped == capped_oracle_update_price(a, price)
            p == oracle.price
            k == oracle.confidence
            band == mark \div NormaliseDenominator
            twap == a.last_oracle_price_twap
            third == Quotient(price, 3)
<1>1. p \in Nat \ {0} /\ k \in Nat /\ mark \in Nat \ {0} /\ band \in Nat
  BY ClockAssumption DEF ClockAssumption, Feed, Prices
<1>2. price \in Nat \ {0} /\ p - k =< price /\ price =< p + k
  BY <1>1 DEF normalise_oracle_price, Lower, Higher
<1>3. Within(price, S)
  <2>. HIDE DEF price, p, k
  <2>1. p - k \in S /\ p + k \in S
    BY DEF PricesIn, p, k
  <2>. QED  BY <1>2, <2>1 DEF Within
<1>. HIDE DEF price
<1>4. third \in Nat /\ third =< price
  BY <1>2 DEF Quotient
<1>5. capped \in Nat \ {0} /\ Lower(price, twap) =< capped /\ capped =< Higher(price, twap)
  <2>. HIDE DEF third
  <2>1. capped = IF Abs(price - twap) =< Abs(third) THEN price
                 ELSE IF price > twap THEN twap + third ELSE twap - third
    BY DEF capped_oracle_update_price, third
  <2>. QED  BY <1>2, <1>4, <2>1 DEF Abs, Lower, Higher
<1>. HIDE DEF capped
<1>6. Within(capped, S)
  BY <1>2, <1>3, <1>5, WithinBetween
<1>. QED  BY <1>2, <1>5, <1>6 DEF price, capped

(* The update of the oracle's twap does not give up on a valid price.      *)
LEMMA OracleTwapAverages ==
    ASSUME now \in Nat, oracle \in Feeds, oracle.price > 0,
           NEW a \in AmmType, NEW M \in SUBSET Prices, NEW S \in SUBSET Int,
           M \subseteq S, PricesIn(S), Averages(a, M, S), NEW mark \in Prices
    PROVE  /\ Averages(update_oracle_price_twap(a, mark), M, S)
           /\ update_oracle_price_twap(a, mark).last_oracle_price_twap_ts = now
<1>. DEFINE price == normalise_oracle_price(mark)
            capped == capped_oracle_update_price(a, price)
            last == IF a.last_oracle_price > 0 THEN a.last_oracle_price ELSE capped
            nudge == last \div NudgeDenominator
            interpolated == Lower(last + nudge, Higher(last - nudge, capped))
            invalid_for == a.last_mark_price_twap_ts - a.last_oracle_price_twap_ts
            average == calculate_weighted_average(a.last_mark_price_twap, interpolated,
                                                  invalid_for, from_start(invalid_for))
            corrected == IF invalid_for > 0 THEN average ELSE interpolated
            new == calculate_new_twap(corrected, a.last_oracle_price_twap,
                                      a.last_oracle_price_twap_ts)
<1>1. /\ a.last_oracle_price \in Nat \ {0} /\ a.last_oracle_price_twap \in Nat \ {0}
      /\ a.last_mark_price_twap \in Nat \ {0}
      /\ a.last_oracle_price_twap_ts \in 0 .. now /\ a.last_mark_price_twap_ts \in 0 .. now
  BY DEF AmmType, Averages
<1>2. Within(a.last_oracle_price_twap, S) /\ Within(a.last_oracle_price, S)
  BY DEF Averages
<1>3. Within(a.last_mark_price_twap, S)
  BY WithinMore DEF Averages
<1>4. price \in Nat \ {0} /\ capped \in Nat \ {0} /\ Within(capped, S)
  BY <1>1, <1>2, CappedPrice
<1>5. update_oracle_price_twap(a, mark) =
        [a EXCEPT !.last_oracle_price_twap = new,
                  !.last_oracle_price = oracle.price,
                  !.last_oracle_price_twap_ts = now]
  BY <1>4 DEF update_oracle_price_twap, calculate_new_oracle_price_twap
<1>. HIDE DEF capped
<1>6. last = a.last_oracle_price
  BY <1>1
<1>7. nudge \in Nat /\ nudge =< last
  <2>1. NudgeDenominator \in Nat \ {0}
    BY ClockAssumption DEF ClockAssumption
  <2>. QED  BY <1>1, <1>6, <2>1
<1>8. /\ interpolated \in Nat \ {0}
      /\ Lower(last, capped) =< interpolated /\ interpolated =< Higher(last, capped)
  <2>. HIDE DEF nudge, last
  <2>. QED  BY <1>1, <1>4, <1>6, <1>7 DEF Lower, Higher
<1>9. Within(interpolated, S)
  <2>. HIDE DEF interpolated, last
  <2>. QED  BY <1>1, <1>2, <1>4, <1>6, <1>8, WithinBetween
<1>. HIDE DEF interpolated
<1>10. corrected \in Nat \ {0} /\ Within(corrected, S)
  <2>1. ASSUME invalid_for > 0 PROVE average \in Nat \ {0} /\ Within(average, S)
    <3>1. invalid_for \in Nat \ {0}
      BY <1>1, <2>1
    <3>2. from_start(invalid_for) \in Nat \ {0}
      BY <1>1, <3>1, WeightsPositive
    <3>. QED  BY <1>1, <1>3, <1>8, <1>9, <3>1, <3>2, AverageWithin
  <2>. QED  BY <1>8, <1>9, <2>1
<1>. HIDE DEF corrected
<1>11. new \in Nat \ {0} /\ Within(new, S)
  BY <1>1, <1>2, <1>10, NewTwapWithin
<1>12. oracle.price \in Int /\ oracle.confidence \in Nat
  BY ClockAssumption DEF ClockAssumption, Feed
<1>13. Within(oracle.price, S)
  BY <1>12 DEF PricesIn, Within
<1>. HIDE DEF new
<1>. QED  BY <1>5, <1>11, <1>13 DEF Averages, AmmType

(* What update_funding_rate makes of a: averages still, and a new rate     *)
(* only with both twaps of the present.                                    *)
FundedFrom(f, a, M, S) ==
    /\ Averages(f, M, S)
    /\ f.mark = a.mark
    /\ \/ f.last_funding_rate_ts = a.last_funding_rate_ts
       \/ f.last_oracle_price_twap_ts = now /\ f.last_mark_price_twap_ts = now

(* An update of the funding rate takes both twaps to the present.          *)
LEMMA FundingAverages ==
    ASSUME now \in Nat, oracle \in Feeds,
           NEW a \in AmmType, NEW M \in SUBSET Prices, NEW S \in SUBSET Int,
           M \subseteq S, oracle.price > 0 => PricesIn(S), Averages(a, M, S),
           a.mark \in M, NEW mark \in Prices
    PROVE  FundedFrom(funding_updated(a, mark), a, M, S)
<1>. DEFINE b == update_oracle_price_twap(a, mark)
            c == update_mark_twap(b, b.mark)
            spread == clamped_price_spread(mid_twap(c) - c.last_oracle_price_twap,
                                           c.last_oracle_price_twap)
            rate == Quotient(spread * FUNDING_PAYMENT_PRECISION, PeriodAdjustment)
            paid == [c EXCEPT !.last_funding_rate = rate, !.last_funding_rate_ts = now]
<1>1. CASE funding_updated(a, mark) = a
  BY <1>1 DEF FundedFrom
<1>2. CASE ~ block_operation(a, mark) /\ funding_updated(a, mark) = paid
  <2>1. oracle.price > 0
    BY <1>2 DEF block_operation, is_oracle_valid
  <2>2. b \in AmmType /\ b.mark = a.mark
    BY OracleTwapUpdated
  <2>3. Averages(b, M, S) /\ b.last_oracle_price_twap_ts = now
    BY <2>1, OracleTwapAverages
  <2>. HIDE DEF b
  <2>4. c \in AmmType /\ c.mark = a.mark
    BY <2>2, MarkTwapUpdated
  <2>5. /\ Averages(c, M, S)
        /\ c.last_oracle_price_twap_ts = now /\ c.last_mark_price_twap_ts = now
    BY <2>2, <2>3, MarkTwapAverages
  <2>. HIDE DEF c, rate
  <2>. QED  BY <1>2, <2>4, <2>5 DEF FundedFrom, Averages, AmmType
<1>. QED  BY <1>1, <1>2 DEF funding_updated

-----------------------------------------------------------------------------
(* Everything an oracle twap may average, of a history s.                  *)
SeenRange(s) ==
    s.marks \cup ({f.price - f.confidence : f \in {g \in s.feeds : g.price > 0}}
                    \cup {f.price + f.confidence : f \in {g \in s.feeds : g.price > 0}})
            \cup {f.twap : f \in s.feeds}

SeenType == [marks : SUBSET Prices, feeds : SUBSET Feeds]

(* TwapsWithinSeen is inductive once the twaps are known to be positive,   *)
(* the present mark and feed to be in the history, and the last price of   *)
(* the oracle, from which its next one is taken, to be within it.          *)
ClockInv ==
    /\ TypeOK
    /\ seen \in SeenType
    /\ amm.mark \in seen.marks /\ oracle \in seen.feeds
    /\ Averages(amm, seen.marks, SeenRange(seen))

LEMMA SeenRangeFacts ==
    ASSUME NEW s \in SeenType
    PROVE  /\ s.marks \in SUBSET Prices
           /\ SeenRange(s) \in SUBSET Int
           /\ s.marks \subseteq SeenRange(s)
           /\ \A f \in s.feeds :
                 /\ f.twap \in SeenRange(s)
                 /\ f.price > 0 => /\ f.price - f.confidence \in SeenRange(s)
                                   /\ f.price + f.confidence \in SeenRange(s)
<1>1. s.marks \in SUBSET Prices /\ s.feeds \in SUBSET Feed
  BY ClockAssumption DEF SeenType, ClockAssumption
<1>2. \A f \in s.feeds : f.price \in Int /\ f.confidence \in Int /\ f.twap \in Int
  BY <1>1 DEF Feed, Prices
<1>3. SeenRange(s) \in SUBSET Int
  BY <1>1, <1>2 DEF SeenRange, Prices
<1>. QED  BY <1>1, <1>3 DEF SeenRange

(* The history only grows.                                                 *)
LEMMA SeenGrows ==
    ASSUME ClockInv, Next
    PROVE  /\ seen' \in SeenType
           /\ seen.marks \subseteq seen'.marks /\ seen.feeds \subseteq seen'.feeds
           /\ SeenRange(seen) \subseteq SeenRange(seen')
           /\ oracle' \in seen'.feeds
<1>1. \/ seen' = seen /\ oracle' = oracle
      \/ oracle' = oracle /\ \E after \in MarkPrices : Marked(after)
      \/ \E feed \in Feeds : oracle' = feed /\ seen' = [seen EXCEPT !.feeds = @ \cup {feed}]
  BY DEF Next, open_position, close_position, liquidate, move_price, order_unfilled,
         update_funding_rate, update_amm_oracle_twap, reset_amm_oracle_twap,
         update_funding_paused, TimePasses
<1>2. MarkPrices \subseteq Prices
  BY ClockAssumption DEF ClockAssumption
<1>3. /\ seen' \in SeenType /\ oracle' \in seen'.feeds
      /\ seen.marks \subseteq seen'.marks /\ seen.feeds \subseteq seen'.feeds
  BY <1>1, <1>2 DEF ClockInv, SeenType, Marked
<1>. QED  BY <1>3 DEF SeenRange

LEMMA AveragesMore ==
    ASSUME NEW a, NEW M, NEW S, NEW N, NEW T, M \subseteq N, S \subseteq T, Averages(a, M, S)
    PROVE  Averages(a, N, T)
BY WithinMore DEF Averages

(* The parts of an instruction that comes to averages of M and S.          *)
LEMMA IfValidAverages ==
    ASSUME TypeOK, NEW a \in AmmType, NEW M \in SUBSET Prices, NEW S \in SUBSET Int,
           M \subseteq S, oracle.price > 0 => PricesIn(S), Averages(a, M, S), NEW mark \in Prices
    PROVE  Averages(IfValid(a, mark), M, S) /\ IfValid(a, mark).mark = a.mark
<1>1. CASE is_oracle_valid(a)
  BY <1>1, OracleTwapAverages, OracleTwapUpdated DEF IfValid, is_oracle_valid, TypeOK
<1>. QED  BY <1>1 DEF IfValid

LEMMA SwappedAverages ==
    ASSUME TypeOK, NEW a \in AmmType, NEW M \in SUBSET Prices, NEW S \in SUBSET Int,
           Averages(a, M, S), NEW mark \in M, NEW after \in M
    PROVE  Averages(Swapped(a, mark, after), M, S) /\ Swapped(a, mark, after).mark = after
<1>1. Averages(update_mark_twap(a, mark), M, S)
  BY MarkTwapAverages DEF TypeOK
<1>2. update_mark_twap(a, mark) \in AmmType
  BY MarkTwapUpdated DEF TypeOK
<1>. QED  BY <1>1, <1>2 DEF Swapped, Averages, AmmType

(* An oracle twap written from one of the history.                         *)
LEMMA WrittenAverages ==
    ASSUME NEW a \in AmmType, NEW M, NEW S \in SUBSET Int, Averages(a, M, S),
           NEW twap \in Nat \ {0}, Within(twap, S)
    PROVE  Averages([a EXCEPT !.last_oracle_price_twap = twap, !.last_oracle_price_twap_ts = now],
                    M, S)
BY DEF Averages, AmmType

(* What every step of the clock does to the averages.                      *)
AveragesStep ==
    /\ amm'.mark \in seen'.marks
    /\ Averages(amm', seen'.marks, SeenRange(seen'))
    /\ \/ amm'.last_funding_rate_ts = amm.last_funding_rate_ts
       \/ amm'.last_oracle_price_twap_ts = now /\ amm'.last_mark_price_twap_ts = now

LEMMA EveryStepAverages ==
    ASSUME ClockInv, Next
    PROVE  AveragesStep
<1>. DEFINE M == seen'.marks
            S == SeenRange(seen')
<1>1. /\ M \in SUBSET Prices /\ S \in SUBSET Int /\ M \subseteq S
      /\ amm \in AmmType /\ amm.mark \in M /\ amm.mark \in Prices
      /\ now \in Nat /\ oracle \in Feeds
  BY SeenGrows, SeenRangeFacts DEF ClockInv, TypeOK, AmmType
<1>2. Averages(amm, M, S)
  BY SeenGrows, AveragesMore DEF ClockInv
<1>3. oracle \in seen'.feeds
  BY SeenGrows DEF ClockInv
<1>4. oracle.price > 0 => PricesIn(S)
  BY <1>3, SeenGrows, SeenRangeFacts DEF PricesIn
<1>5. oracle.twap \in S /\ oracle.twap \in Nat \ {0}
  BY <1>1, <1>3, SeenGrows, SeenRangeFacts, ClockAssumption DEF ClockAssumption, Feed, Prices
<1>6. TypeOK
  BY DEF ClockInv
<1>. HIDE DEF M, S
<1>7. SUFFICES /\ amm'.mark \in M /\ Averages(amm', M, S)
               /\ \/ amm'.last_funding_rate_ts = amm.last_funding_rate_ts
                  \/ amm'.last_oracle_price_twap_ts = now /\ amm'.last_mark_price_twap_ts = now
  BY DEF AveragesStep, M, S
<1>8. ASSUME NEW after \in MarkPrices, Marked(after) PROVE after \in M
  BY <1>8 DEF Marked, M, ClockInv, SeenType
<1>9. ASSUME NEW after \in MarkPrices, NEW risk \in BOOLEAN, open_position(after, risk)
      PROVE  <1>7!1
  <2>. DEFINE v == IfValid(amm, amm.mark)
              w == Swapped(v, amm.mark, after)
  <2>1. v \in AmmType /\ v.last_funding_rate_ts = amm.last_funding_rate_ts
    BY <1>1, <1>6, IfValidType
  <2>2. Averages(v, M, S)
    BY <1>1, <1>2, <1>4, <1>6, IfValidAverages
  <2>3. PICK s \in {w, Swapped(w, amm.mark, after)} : amm' = funding_updated(s, amm.mark)
    BY <1>9 DEF open_position, SwappedTwice
  <2>. HIDE DEF v
  <2>4. amm' = funding_updated(s, amm.mark) /\ after \in M
    BY <1>8, <1>9, <2>3 DEF open_position
  <2>5. w \in AmmType /\ w.last_funding_rate_ts = amm.last_funding_rate_ts
    BY <1>1, <1>6, <2>1, SwappedType
  <2>6. Averages(w, M, S) /\ w.mark = after
    BY <1>1, <1>6, <2>1, <2>2, <2>4, SwappedAverages
  <2>. HIDE DEF w
  <2>7. s \in AmmType /\ s.last_funding_rate_ts = amm.last_funding_rate_ts
    BY <1>1, <1>6, <2>3, <2>5, SwappedType
  <2>8. LET t == Swapped(w, amm.mark, after) IN Averages(t, M, S) /\ t.mark = after
    BY <1>1, <1>6, <2>4, <2>5, <2>6, SwappedAverages
  <2>9. Averages(s, M, S) /\ s.mark = after
    BY <2>3, <2>6, <2>8
  <2>10. FundedFrom(amm', s, M, S)
    BY <1>1, <1>4, <2>4, <2>7, <2>9, FundingAverages
  <2>. QED  BY <2>4, <2>7, <2>9, <2>10 DEF FundedFrom
<1>10. ASSUME NEW after \in MarkPrices, close_position(after)
       PROVE  <1>7!1
  <2>. DEFINE s == Swapped(amm, amm.mark, after)
              v == IfValid(s, amm.mark)
  <2>1. amm' = funding_updated(v, amm.mark) /\ after \in M
    BY <1>8, <1>10 DEF close_position
  <2>2. s \in AmmType /\ s.last_funding_rate_ts = amm.last_funding_rate_ts
    BY <1>1, <1>6, SwappedType
  <2>3. Averages(s, M, S) /\ s.mark = after
    BY <1>1, <1>2, <1>6, <2>1, SwappedAverages
  <2>. HIDE DEF s
  <2>4. v \in AmmType /\ v.last_funding_rate_ts = amm.last_funding_rate_ts
    BY <1>1, <1>6, <2>2, IfValidType
  <2>5. Averages(v, M, S) /\ v.mark = after
    BY <1>1, <1>4, <1>6, <2>2, <2>3, IfValidAverages
  <2>. HIDE DEF v
  <2>6. FundedFrom(amm', v, M, S)
    BY <1>1, <1>4, <2>1, <2>4, <2>5, FundingAverages
  <2>. QED  BY <2>1, <2>4, <2>5, <2>6 DEF FundedFrom
<1>11. ASSUME NEW after \in MarkPrices, liquidate(after)
       PROVE  <1>7!1
  <2>1. amm' = Swapped(amm, amm.mark, after) /\ after \in M
    BY <1>8, <1>11 DEF liquidate
  <2>2. amm'.last_funding_rate_ts = amm.last_funding_rate_ts
    BY <1>1, <1>6, <2>1, SwappedType
  <2>. QED  BY <1>1, <1>2, <1>6, <2>1, <2>2, SwappedAverages
<1>12. ASSUME NEW after \in MarkPrices, move_price(after)
       PROVE  <1>7!1
  <2>1. amm' = [amm EXCEPT !.mark = after] /\ after \in M
    BY <1>8, <1>12 DEF move_price
  <2>. QED  BY <1>1, <1>2, <2>1 DEF AmmType, Averages
<1>13. ASSUME order_unfilled
       PROVE  <1>7!1
  <2>1. amm' = IfValid(amm, amm.mark)
    BY <1>13 DEF order_unfilled
  <2>2. amm'.last_funding_rate_ts = amm.last_funding_rate_ts
    BY <1>1, <1>6, <2>1, IfValidType
  <2>. QED  BY <1>1, <1>2, <1>4, <1>6, <2>1, <2>2, IfValidAverages
<1>14. ASSUME update_funding_rate
       PROVE  <1>7!1
  <2>1. amm' = funding_updated(amm, amm.mark)
    BY <1>14 DEF update_funding_rate
  <2>2. FundedFrom(amm', amm, M, S)
    BY <1>1, <1>2, <1>4, <2>1, FundingAverages
  <2>. QED  BY <1>1, <2>2 DEF FundedFrom
<1>15. amm.last_mark_price_twap \in Nat \ {0} /\ Within(amm.last_mark_price_twap, S)
  <2>1. amm.last_mark_price_twap \in Nat \ {0} /\ Within(amm.last_mark_price_twap, M)
    BY <1>1, <1>2 DEF Averages, AmmType
  <2>. QED  BY <1>1, <2>1, WithinMore
<1>16. ASSUME update_amm_oracle_twap
       PROVE  <1>7!1
  <2>1. Within(oracle.twap, S)
    BY <1>1, <1>5, WithinMember
  <2>2. PICK twap \in {amm.last_mark_price_twap, oracle.twap} :
            amm' = [amm EXCEPT !.last_oracle_price_twap = twap, !.last_oracle_price_twap_ts = now]
    BY <1>16 DEF update_amm_oracle_twap
  <2>3. amm'.last_funding_rate_ts = amm.last_funding_rate_ts /\ amm'.mark = amm.mark
    BY <1>1, <2>2 DEF AmmType
  <2>4. Averages(amm', M, S)
    BY <1>1, <1>2, <1>5, <1>15, <2>1, <2>2, WrittenAverages
  <2>. QED  BY <1>1, <2>3, <2>4
<1>17. ASSUME reset_amm_oracle_twap
       PROVE  <1>7!1
  <2>1. \/ amm' = amm
        \/ amm' = [amm EXCEPT !.last_oracle_price_twap = amm.last_mark_price_twap,
                              !.last_oracle_price_twap_ts = now]
    BY <1>17 DEF reset_amm_oracle_twap
  <2>2. amm'.last_funding_rate_ts = amm.last_funding_rate_ts /\ amm'.mark = amm.mark
    BY <1>1, <2>1 DEF AmmType
  <2>3. Averages(amm', M, S)
    <3>1. CASE amm' = amm
      BY <1>2, <3>1
    <3>2. CASE amm' = [amm EXCEPT !.last_oracle_price_twap = amm.last_mark_price_twap,
                                  !.last_oracle_price_twap_ts = now]
      BY <1>1, <1>2, <1>15, <3>2, WrittenAverages
    <3>. QED  BY <2>1, <3>1, <3>2
  <2>. QED  BY <1>1, <2>2, <2>3
<1>18. ASSUME UNCHANGED amm
       PROVE  <1>7!1
  BY <1>1, <1>2, <1>18
<1>. QED  BY <1>9, <1>10, <1>11, <1>12, <1>13, <1>14, <1>16, <1>17, <1>18
          DEF Next, update_funding_paused, TimePasses

LEMMA ClockInvAlways == Spec => []ClockInv
<1>1. Init => ClockInv
  <2>. SUFFICES ASSUME Init, TypeOK PROVE ClockInv
    BY ClockInit
  <2>1. oracle \in Feeds /\ oracle.price > 0 /\ seen = [marks |-> {InitMark}, feeds |-> {oracle}]
    BY DEF Init
  <2>2. seen \in SeenType /\ InitMark \in seen.marks /\ oracle \in seen.feeds
    BY <2>1, ClockAssumption DEF ClockAssumption, SeenType
  <2>3. /\ InitMark \in Nat \ {0}
        /\ oracle.price \in Nat \ {0} /\ oracle.confidence \in Nat /\ oracle.twap \in Nat \ {0}
    BY <2>1, ClockAssumption DEF ClockAssumption, Feed, Prices
  <2>4. SeenRange(seen) \in SUBSET Int /\ seen.marks \in SUBSET Int
    BY <2>2, SeenRangeFacts DEF Prices
  <2>5. Within(InitMark, seen.marks) /\ Within(oracle.twap, SeenRange(seen))
    BY <2>2, <2>4, SeenRangeFacts, WithinMember
  <2>6. Within(oracle.price, SeenRange(seen))
    <3>1. /\ oracle.price - oracle.confidence \in SeenRange(seen)
          /\ oracle.price + oracle.confidence \in SeenRange(seen)
      BY <2>1, <2>2, SeenRangeFacts
    <3>. QED  BY <2>3, <3>1 DEF Within
  <2>7. Averages(amm, seen.marks, SeenRange(seen))
    BY <2>3, <2>5, <2>6 DEF Init, Averages
  <2>. QED  BY <2>2, <2>7 DEF Init, ClockInv
<1>2. ClockInv /\ [Next]_vars => ClockInv'
  <2>1. ASSUME ClockInv, Next PROVE ClockInv'
    BY <2>1, EveryStepAverages, SeenGrows, TypeOKStep DEF ClockInv, AveragesStep
  <2>2. ASSUME ClockInv, UNCHANGED vars PROVE ClockInv'
    BY <2>2, TypeOKStep DEF ClockInv, vars
  <2>. QED  BY <2>1, <2>2
<1>. QED  BY <1>1, <1>2, PTL DEF Spec

(* Caps, nudges, corrections towards the mark and roundings never take a   *)
(* twap of update_mark_twap and update_oracle_price_twap out of the range  *)
(* of the marks, and of the oracle's prices and twaps, there were.         *)
THEOREM TwapsStayWithin == Spec => []TwapsWithinSeen
<1>1. ClockInv => TwapsWithinSeen
  BY DEF ClockInv, Averages, TwapsWithinSeen, SeenRange, OraclePrices, OracleTwaps, GoodFeeds
<1>. QED  BY <1>1, ClockInvAlways, PTL

(* A rate is computed only from twaps that the same instruction brought to *)
(* the present (controller/funding.rs): the update of the oracle's twap    *)
(* gives up on a price that is not positive, and none that passed          *)
(* is_oracle_valid comes out so.                                           *)
THEOREM FreshTwaps == Spec => FundingUsesFreshTwaps
<1>1. ASSUME ClockInv, [Next]_vars
      PROVE  [amm'.last_funding_rate_ts # amm.last_funding_rate_ts =>
                 /\ amm'.last_oracle_price_twap_ts = now
                 /\ amm'.last_mark_price_twap_ts = now]_vars
  BY <1>1, EveryStepAverages DEF AveragesStep
<1>. QED  BY <1>1, ClockInvAlways, PTL DEF Spec, FundingUsesFreshTwaps
=============================================================================
