-------------------------- MODULE BankLedgerProofs --------------------------
(***************************************************************************)
(* The books of the banks: a user's balance in a bank is always found      *)
(* again by its index, and the totals a bank keeps are the sums of what    *)
(* its holders hold, for any users, banks, slots, amounts and interest.    *)
(***************************************************************************)
EXTENDS BankLedger, LibraryProofs

-----------------------------------------------------------------------------
(* One bank and one holder.                                                *)

(* A unit of balance is worth at least one unit of token precision: both   *)
(* indices start at BANK_CUMULATIVE_INTEREST_PRECISION and only grow.      *)
GoodBank(bk) ==
    /\ bk \in Bank
    /\ bk.precision =< bk.cumulative_deposit_interest
    /\ bk.precision =< bk.cumulative_borrow_interest

LEMMA DivInt ==
    ASSUME NEW x \in Int, NEW d \in Nat \ {0}
    PROVE  x \div d \in Int /\ (x >= 0 => x \div d \in Nat)
OBVIOUS

LEMMA TimesInt ==
    ASSUME NEW x \in Int, NEW y \in Int
    PROVE  x * y \in Int /\ (x >= 0 /\ y >= 0 => x * y \in Nat)
OBVIOUS

LEMMA InterestPositive ==
    ASSUME NEW bk, GoodBank(bk), NEW side \in BankBalanceType
    PROVE  /\ bk.precision \in Nat \ {0}
           /\ cumulative_interest(bk, side) \in Nat \ {0}
           /\ bk.precision =< cumulative_interest(bk, side)
BY InterestAssumption DEF GoodBank, Bank, Precisions, cumulative_interest

LEMMA BankBalanceNat ==
    ASSUME NEW bk, GoodBank(bk), NEW side \in BankBalanceType, NEW tokens_ \in Nat
    PROVE  get_bank_balance(tokens_, bk, side) \in Nat
<1>. DEFINE c == cumulative_interest(bk, side)
            x == tokens_ * bk.precision
<1>1. x \in Nat /\ c \in Nat \ {0}
  BY InterestPositive, TimesInt
<1>2. x \div c \in Nat
  <2>. HIDE DEF x, c
  <2>. QED  BY <1>1, DivInt
<1>. QED  BY <1>2 DEF get_bank_balance

LEMMA ProductMonotone ==
    ASSUME NEW a \in Nat, NEW b \in Nat, NEW c \in Nat, b =< c
    PROVE  a * b =< a * c
OBVIOUS

(* The tokens of a balance are zero only if the balance is.                *)
LEMMA TokensCoverBalance ==
    ASSUME NEW bk, GoodBank(bk), NEW side \in BankBalanceType, NEW balance \in Nat
    PROVE  /\ get_token_amount(balance, bk, side) \in Nat
           /\ get_token_amount(balance, bk, side) = 0 => balance = 0
<1>. DEFINE c == cumulative_interest(bk, side)
            p == bk.precision
            x == balance * c
<1>1. p \in Nat \ {0} /\ c \in Nat \ {0} /\ p =< c
  BY InterestPositive
<1>2. x \in Nat
  BY <1>1, TimesInt
<1>3. balance * p =< x
  BY <1>1, ProductMonotone
<1>. HIDE DEF c, p
<1>4. x \div p \in Nat
  <2>. HIDE DEF x
  <2>. QED  BY <1>1, <1>2, DivInt
<1>5. ASSUME x \div p = 0 PROVE balance = 0
  <2>1. x < p
    <3>. HIDE DEF x
    <3>1. x = p * (x \div p) + (x % p) /\ x % p < p
      BY <1>1, <1>2
    <3>. QED  BY <1>1, <1>2, <1>5, <3>1
  <2>2. balance >= 1 => balance * p >= p
    BY <1>1
  <2>. HIDE DEF x
  <2>. QED  BY <1>1, <1>2, <1>3, <2>1, <2>2
<1>. QED  BY <1>4, <1>5 DEF get_token_amount, c, p

(* Interest accrues on both sides or on neither, and leaves the totals.    *)
LEMMA InterestAccrued ==
    ASSUME NEW bk, GoodBank(bk), NEW t \in Nat
    PROVE  LET bk2 == update_bank_cumulative_interest(bk, t)
           IN /\ GoodBank(bk2)
              /\ bk2.deposit_balance = bk.deposit_balance
              /\ bk2.borrow_balance = bk.borrow_balance
<1>. DEFINE interest == calculate_accumulated_interest(bk, t)
            util == utilization(bk)
            rate == borrow_rate(util)
<1>1. /\ bk.deposit_balance \in Nat /\ bk.borrow_balance \in Nat /\ bk.last_updated \in Nat
      /\ bk.cumulative_deposit_interest \in Nat /\ bk.cumulative_borrow_interest \in Nat
      /\ bk.precision \in Nat
  BY DEF GoodBank, Bank, Precisions
<1>2. deposit_tokens(bk) \in Nat /\ borrow_tokens(bk) \in Nat
  BY <1>1, TokensCoverBalance DEF deposit_tokens, borrow_tokens, BankBalanceType
<1>3. util \in Int
  <2>1. borrow_tokens(bk) * BANK_UTILIZATION_PRECISION \in Int
    BY <1>2, TimesInt, InterestAssumption
  <2>2. deposit_tokens(bk) # 0 =>
           (borrow_tokens(bk) * BANK_UTILIZATION_PRECISION) \div deposit_tokens(bk) \in Int
    BY <1>2, <2>1, DivInt
  <2>. QED  BY <2>2, InterestAssumption DEF utilization
<1>. HIDE DEF util
<1>4. rate \in Int
  <2>. DEFINE a == (MAX_BORROW_RATE - OPTIMAL_BORROW_RATE) * BANK_UTILIZATION_PRECISION
              x == a \div (BANK_UTILIZATION_PRECISION - OPTIMAL_UTILIZATION)
              b == OPTIMAL_BORROW_RATE * BANK_UTILIZATION_PRECISION
              y == b \div OPTIMAL_UTILIZATION
  <2>1. a \in Int /\ b \in Int
    BY TimesInt, InterestAssumption
  <2>2. /\ BANK_UTILIZATION_PRECISION - OPTIMAL_UTILIZATION \in Nat \ {0}
        /\ OPTIMAL_UTILIZATION \in Nat \ {0}
        /\ BANK_UTILIZATION_PRECISION \in Nat \ {0} /\ OPTIMAL_BORROW_RATE \in Int
    BY InterestAssumption
  <2>. HIDE DEF a, b
  <2>3. x \in Int /\ y \in Int
    BY <2>1, <2>2, DivInt
  <2>. HIDE DEF x, y
  <2>4. (util - OPTIMAL_UTILIZATION) * x \in Int /\ util * y \in Int
    BY <1>3, <2>2, <2>3, TimesInt
  <2>5. /\ ((util - OPTIMAL_UTILIZATION) * x) \div BANK_UTILIZATION_PRECISION \in Int
        /\ (util * y) \div BANK_UTILIZATION_PRECISION \in Int
    BY <2>2, <2>4, DivInt
  <2>. QED  BY <2>2, <2>5 DEF borrow_rate, x, y, a, b
<1>. HIDE DEF rate
<1>5. interest.deposit_interest \in Int /\ interest.borrow_interest \in Int
  <2>. DEFINE r == rate * (t - bk.last_updated)
              d == (r * util) \div BANK_UTILIZATION_PRECISION
  <2>1. r \in Int
    BY <1>1, <1>4, TimesInt
  <2>. HIDE DEF r
  <2>2. d \in Int
    BY <1>3, <2>1, TimesInt, DivInt, InterestAssumption
  <2>. HIDE DEF d
  <2>3. /\ bk.cumulative_deposit_interest * d \in Int
        /\ bk.cumulative_borrow_interest * r \in Int
    BY <1>1, <2>1, <2>2, TimesInt
  <2>4. /\ (bk.cumulative_deposit_interest * d) \div ONE_YEAR \in Int
        /\ (bk.cumulative_borrow_interest * r) \div ONE_YEAR \in Int
    BY <2>3, DivInt, InterestAssumption
  <2>5. /\ ((bk.cumulative_deposit_interest * d) \div ONE_YEAR) \div BANK_INTEREST_PRECISION \in Int
        /\ ((bk.cumulative_borrow_interest * r) \div ONE_YEAR) \div BANK_INTEREST_PRECISION \in Int
    BY <2>4, DivInt, InterestAssumption
  <2>. QED  BY <2>5 DEF calculate_accumulated_interest, d, r, rate, util
<1>. HIDE DEF interest
<1>6. CASE interest.deposit_interest > 0 /\ interest.borrow_interest > 1
  <2>. DEFINE bk2 == [bk EXCEPT
                         !.cumulative_deposit_interest = @ + interest.deposit_interest,
                         !.cumulative_borrow_interest = @ + interest.borrow_interest,
                         !.last_updated = t]
  <2>1. /\ bk.cumulative_deposit_interest + interest.deposit_interest \in Nat
        /\ bk.cumulative_borrow_interest + interest.borrow_interest \in Nat
        /\ bk.precision =< bk.cumulative_deposit_interest + interest.deposit_interest
        /\ bk.precision =< bk.cumulative_borrow_interest + interest.borrow_interest
    BY <1>1, <1>5, <1>6 DEF GoodBank
  <2>2. /\ GoodBank(bk2)
        /\ bk2.deposit_balance = bk.deposit_balance /\ bk2.borrow_balance = bk.borrow_balance
    BY <2>1 DEF GoodBank, Bank
  <2>. QED  BY <1>6, <2>2 DEF update_bank_cumulative_interest, interest
<1>7. CASE ~ (interest.deposit_interest > 0 /\ interest.borrow_interest > 1)
  BY <1>7 DEF update_bank_cumulative_interest, interest
<1>. QED  BY <1>6, <1>7

-----------------------------------------------------------------------------
(* What a holder holds, and what a bank counts, on one side.               *)
Part(holder, side) == IF holder.balance_type = side THEN holder.balance ELSE 0
Total(bk, side) == IF side = "Deposit" THEN bk.deposit_balance ELSE bk.borrow_balance

(* bk2 and holder2 come of bk and holder by the same movement.             *)
MovedTogether(bk, holder, bk2, holder2) ==
    /\ GoodBank(bk2) /\ holder2 \in Holder
    /\ \A side \in BankBalanceType :
          Total(bk2, side) - Total(bk, side) = Part(holder2, side) - Part(holder, side)

LEMMA BankMoved ==
    ASSUME NEW bk, GoodBank(bk), NEW side \in BankBalanceType, NEW delta \in Int
    PROVE  LET bk2 == move_bank_balance(bk, side, delta)
           IN /\ Total(bk2, side) = Total(bk, side) + delta
              /\ \A other \in BankBalanceType \ {side} : Total(bk2, other) = Total(bk, other)
              /\ Total(bk, side) + delta >= 0 => GoodBank(bk2)
<1>1. /\ bk.deposit_balance \in Nat /\ bk.borrow_balance \in Nat
  BY DEF GoodBank, Bank
<1>2. CASE side = "Deposit"
  BY <1>1, <1>2 DEF move_bank_balance, Total, GoodBank, Bank, BankBalanceType
<1>3. CASE side = "Borrow"
  BY <1>1, <1>3 DEF move_bank_balance, Total, GoodBank, Bank, BankBalanceType
<1>. QED  BY <1>2, <1>3 DEF BankBalanceType

LEMMA TotalNat ==
    ASSUME NEW bk, GoodBank(bk), NEW side \in BankBalanceType
    PROVE  Total(bk, side) \in Nat
BY DEF GoodBank, Bank, Total

(* More on the side the holder is on.                                      *)
LEMMA Added ==
    ASSUME NEW bk, GoodBank(bk), NEW holder \in Holder, NEW delta \in Nat
    PROVE  LET r == Add(bk, holder, holder.balance_type, delta)
           IN MovedTogether(bk, holder, r.bank, r.holder)
<1>. DEFINE side == holder.balance_type
            bk2 == move_bank_balance(bk, side, delta)
            holder2 == increase_balance(holder, delta)
<1>1. side \in BankBalanceType /\ holder.balance \in Nat
  BY DEF Holder
<1>2. /\ Total(bk2, side) = Total(bk, side) + delta /\ GoodBank(bk2)
      /\ \A other \in BankBalanceType \ {side} : Total(bk2, other) = Total(bk, other)
  BY <1>1, BankMoved, TotalNat
<1>3. /\ holder2 \in Holder /\ holder2.balance_type = side
      /\ holder2.balance = holder.balance + delta
  BY DEF Holder, increase_balance
<1>4. MovedTogether(bk, holder, bk2, holder2)
  <2>. HIDE DEF bk2, holder2
  <2>. QED  BY <1>1, <1>2, <1>3, TotalNat DEF MovedTogether, Part
<1>. QED  BY <1>4 DEF Add

LEMMA MovedTwice ==
    ASSUME NEW bk, GoodBank(bk), NEW holder \in Holder, NEW bk2, NEW holder2, NEW bk3, NEW holder3,
           MovedTogether(bk, holder, bk2, holder2), MovedTogether(bk2, holder2, bk3, holder3)
    PROVE  MovedTogether(bk, holder, bk3, holder3)
<1>1. \A side \in BankBalanceType :
         /\ Total(bk, side) \in Nat /\ Total(bk2, side) \in Nat /\ Total(bk3, side) \in Nat
         /\ Part(holder, side) \in Nat /\ Part(holder2, side) \in Nat /\ Part(holder3, side) \in Nat
  BY TotalNat DEF MovedTogether, Part, Holder
<1>. QED  BY <1>1 DEF MovedTogether

(* Less on the side the holder is on: the amount is used up, or nothing is *)
(* left of the balance.                                                    *)
LEMMA ReductionFacts ==
    ASSUME NEW bk, GoodBank(bk), NEW holder \in Holder, NEW amount \in Nat
    PROVE  LET less == reduction(amount, bk, holder)
           IN /\ less.tokens \in Nat /\ less.balance \in Nat /\ less.tokens =< amount
              /\ less.tokens = amount \/ less.balance = holder.balance
<1>. DEFINE current == get_token_amount(holder.balance, bk, holder.balance_type)
            units == get_bank_balance(amount, bk, holder.balance_type)
<1>1. holder.balance_type \in BankBalanceType /\ holder.balance \in Nat
  BY DEF Holder
<1>2. current \in Nat /\ (current = 0 => holder.balance = 0) /\ units \in Nat
  BY <1>1, TokensCoverBalance, BankBalanceNat
<1>3. reduction(amount, bk, holder) =
         IF current > amount THEN [tokens |-> amount, balance |-> units]
         ELSE IF current # 0 THEN [tokens |-> current, balance |-> holder.balance]
         ELSE [tokens |-> 0, balance |-> 0]
  BY DEF reduction
<1>. HIDE DEF current, units
<1>. QED  BY <1>1, <1>2, <1>3

(* update_bank_balances on a user's balance moves the totals of the bank   *)
(* by what it moves the balance by, on both sides.                         *)
LEMMA UserBalanceMoved ==
    ASSUME NEW bk, GoodBank(bk), NEW holder \in Holder, NEW amount \in Nat,
           NEW direction \in BankBalanceType, update_user(amount, direction, bk, holder).ok
    PROVE  LET r == update_user(amount, direction, bk, holder)
           IN MovedTogether(bk, holder, r.bank, r.holder)
<1>. DEFINE less == reduction(amount, bk, holder)
            rest == amount - less.tokens
            side == holder.balance_type
            bk2 == move_bank_balance(bk, side, - less.balance)
            holder2 == [holder EXCEPT !.balance = @ - less.balance]
            flipped == [holder2 EXCEPT !.balance_type = direction]
            r == update_user(amount, direction, bk, holder)
<1>1. side \in BankBalanceType /\ holder.balance \in Nat
  BY DEF Holder
<1>2. CASE direction = side
  <2>. DEFINE a == Add(bk, holder, direction, get_bank_balance(amount, bk, direction))
  <2>1. r.bank = a.bank /\ r.holder = a.holder
    BY <1>2 DEF update_user, update_bank_balances
  <2>2. MovedTogether(bk, holder, a.bank, a.holder)
    BY <1>2, BankBalanceNat, Added
  <2>. QED  BY <2>1, <2>2
<1>3. CASE direction # side
  <2>1. /\ bk2.deposit_balance >= 0 /\ bk2.borrow_balance >= 0 /\ holder2.balance >= 0
        /\ rest = 0 => r.bank = bk2 /\ r.holder = holder2
        /\ rest # 0 => LET a == Add(bk2, flipped, direction, get_bank_balance(rest, bk, direction))
                       IN r.bank = a.bank /\ r.holder = a.holder
    BY <1>3 DEF update_user, update_bank_balances, decrease_balance
  <2>2. /\ less.tokens \in Nat /\ less.balance \in Nat /\ less.tokens =< amount
        /\ less.tokens = amount \/ less.balance = holder.balance
    BY ReductionFacts
  <2>. HIDE DEF less, r
  <2>3. /\ Total(bk2, side) = Total(bk, side) - less.balance /\ Total(bk, side) \in Nat
        /\ \A other \in BankBalanceType \ {side} : Total(bk2, other) = Total(bk, other)
    <3>1. - less.balance \in Int /\ Total(bk, side) \in Nat
      BY <1>1, <2>2, TotalNat
    <3>2. /\ Total(bk2, side) = Total(bk, side) + (- less.balance)
          /\ \A other \in BankBalanceType \ {side} : Total(bk2, other) = Total(bk, other)
      BY <1>1, <3>1, BankMoved
    <3>. QED  BY <2>2, <3>1, <3>2
  <2>4. GoodBank(bk2)
    <3>1. Total(bk2, side) >= 0
      BY <2>1 DEF Total
    <3>2. Total(bk, side) + (- less.balance) >= 0 /\ - less.balance \in Int
      BY <2>2, <2>3, <3>1
    <3>. QED  BY <1>1, <3>2, BankMoved
  <2>5. /\ holder2 \in Holder /\ holder2.balance_type = side
        /\ holder2.balance = holder.balance - less.balance
    BY <1>1, <2>1, <2>2 DEF Holder
  <2>6. MovedTogether(bk, holder, bk2, holder2)
    <3>. HIDE DEF bk2, holder2
    <3>. QED  BY <1>1, <2>2, <2>3, <2>4, <2>5, TotalNat DEF MovedTogether, Part
  <2>7. CASE rest = 0
    <3>1. MovedTogether(bk, holder, r.bank, r.holder)
      BY <2>1, <2>6, <2>7
    <3>. QED  BY <3>1 DEF r
  <2>8. CASE rest # 0
    <3>1. rest \in Nat /\ holder2.balance = 0
      BY <1>1, <2>2, <2>5, <2>8
    <3>2. flipped \in Holder /\ flipped.balance_type = direction /\ flipped.balance = 0
      BY <2>5, <3>1 DEF Holder
    <3>3. MovedTogether(bk, holder, bk2, flipped)
      <4>. HIDE DEF bk2, holder2, flipped
      <4>1. \A s \in BankBalanceType : Part(flipped, s) = 0 /\ Part(holder2, s) = 0
        BY <3>1, <3>2 DEF Part
      <4>. QED  BY <2>6, <3>2, <4>1 DEF MovedTogether
    <3>. DEFINE delta == get_bank_balance(rest, bk, direction)
                a == Add(bk2, flipped, direction, delta)
    <3>4. r.bank = a.bank /\ r.holder = a.holder
      BY <2>1, <2>8
    <3>5. delta \in Nat
      BY <3>1, BankBalanceNat
    <3>6. MovedTogether(bk2, flipped, a.bank, a.holder)
      <4>. HIDE DEF bk2, flipped, delta
      <4>. QED  BY <2>4, <3>2, <3>5, Added
    <3>. HIDE DEF a, flipped, bk2
    <3>7. MovedTogether(bk, holder, r.bank, r.holder)
      BY <3>3, <3>4, <3>6, MovedTwice
    <3>. QED  BY <3>7 DEF r
  <2>. QED  BY <2>7, <2>8
<1>. QED  BY <1>2, <1>3

(* A payment into a pool moves pool and bank together; a payment out of it *)
(* takes units from the bank and adds as many to the pool.                 *)
LEMMA PoolBalanceMoved ==
    ASSUME NEW bk, GoodBank(bk), NEW balance \in Nat, NEW amount \in Nat,
           NEW direction \in BankBalanceType,
           LET holder == [balance_type |-> "Deposit", balance |-> balance]
           IN update_bank_balances(amount, direction, bk, holder, "PNLPool").ok
    PROVE  LET holder == [balance_type |-> "Deposit", balance |-> balance]
               r == update_bank_balances(amount, direction, bk, holder, "PNLPool")
               moved == r.bank.deposit_balance - bk.deposit_balance
           IN /\ GoodBank(r.bank) /\ r.holder.balance \in Nat
              /\ r.bank.borrow_balance = bk.borrow_balance
              /\ r.holder.balance = IF direction = "Deposit" THEN balance + moved ELSE balance - moved
<1>. DEFINE holder == [balance_type |-> "Deposit", balance |-> balance]
            less == reduction(amount, bk, holder)
            bk2 == move_bank_balance(bk, "Deposit", - less.balance)
            r == update_bank_balances(amount, direction, bk, holder, "PNLPool")
            units == get_bank_balance(amount, bk, "Deposit")
            bk3 == move_bank_balance(bk, "Deposit", units)
<1>1. holder \in Holder /\ bk.deposit_balance \in Nat
  BY DEF Holder, BankBalanceType, GoodBank, Bank
<1>2. CASE direction = "Deposit"
  <2>1. r.bank = bk3 /\ r.holder.balance = balance + units
    BY <1>2 DEF update_bank_balances, Add, increase_balance
  <2>2. units \in Nat
    BY BankBalanceNat DEF BankBalanceType
  <2>. HIDE DEF units, r
  <2>3. /\ GoodBank(bk3) /\ Total(bk3, "Deposit") = Total(bk, "Deposit") + units
        /\ Total(bk3, "Borrow") = Total(bk, "Borrow")
    BY <2>2, BankMoved, TotalNat DEF BankBalanceType
  <2>. HIDE DEF bk3
  <2>. QED  BY <1>1, <1>2, <2>1, <2>2, <2>3 DEF Total, r
<1>3. CASE direction = "Borrow"
  <2>1. /\ bk2.deposit_balance >= 0
        /\ r.bank = bk2 /\ r.holder.balance = balance + less.balance
    BY <1>3 DEF update_bank_balances, decrease_balance
  <2>2. less.balance \in Nat
    BY <1>1, ReductionFacts
  <2>. HIDE DEF less, r
  <2>3. - less.balance \in Int /\ "Deposit" \in BankBalanceType /\ "Borrow" \in BankBalanceType
    BY <2>2 DEF BankBalanceType
  <2>4. /\ Total(bk2, "Deposit") = Total(bk, "Deposit") + (- less.balance)
        /\ Total(bk2, "Borrow") = Total(bk, "Borrow")
        /\ Total(bk, "Deposit") + (- less.balance) >= 0 => GoodBank(bk2)
    BY <2>3, BankMoved
  <2>. HIDE DEF bk2
  <2>. QED  BY <1>1, <1>3, <2>1, <2>2, <2>4 DEF Total, r
<1>. QED  BY <1>2, <1>3 DEF BankBalanceType

-----------------------------------------------------------------------------
(* The slots of one user.                                                  *)

SlotsGood(slots) ==
    /\ slots \in [Slots -> UserBankBalance]
    /\ slots[0].bank_index = QUOTE
    /\ \A s \in Slots \ {0} :
          /\ slots[s].bank_index = QUOTE => slots[s].balance = 0
          /\ \A t \in Slots \ {0, s} :
                slots[s].bank_index = slots[t].bank_index => slots[s].bank_index = QUOTE

HasSlot(slots, b) == SlotsOf(slots, b) # {} \/ FreeSlots(slots) # {}

(* The slot of a bank is its own, or a free one that holds nothing.        *)
LEMMA SlotFound ==
    ASSUME NEW slots, SlotsGood(slots), NEW b \in Banks, HasSlot(slots, b)
    PROVE  LET k == SlotIndex(slots, b)
           IN /\ k \in Slots
              /\ k = 0 <=> b = QUOTE
              /\ \/ /\ slots[k].bank_index = b
                    /\ HolderOf(slots, b) = [balance_type |-> slots[k].balance_type,
                                             balance |-> slots[k].balance]
                 \/ /\ b # QUOTE /\ slots[k].bank_index = QUOTE /\ slots[k].balance = 0
                    /\ \A s \in Slots : slots[s].bank_index # b
                    /\ HolderOf(slots, b) = [balance_type |-> "Deposit", balance |-> 0]
              /\ HolderOf(slots, b) \in Holder
<1>. DEFINE k == SlotIndex(slots, b)
<1>1. 0 \in Slots /\ Slots \subseteq Nat
  BY LedgerAssumption DEF Slots
<1>2. CASE SlotsOf(slots, b) # {}
  <2>1. SlotsOf(slots, b) \in SUBSET Nat /\ k = Min(SlotsOf(slots, b))
    BY <1>1, <1>2 DEF SlotsOf, SlotIndex
  <2>2. k \in SlotsOf(slots, b)
    BY <1>2, <2>1, MinInSet
  <2>3. HolderOf(slots, b) = [balance_type |-> slots[k].balance_type, balance |-> slots[k].balance]
    BY <1>2 DEF HolderOf
  <2>. HIDE DEF k
  <2>4. k \in Slots /\ slots[k].bank_index = b /\ (k = 0 <=> b = QUOTE)
    BY <1>1, <2>2 DEF SlotsOf, SlotsGood
  <2>5. slots[k] \in UserBankBalance
    BY <2>4 DEF SlotsGood
  <2>6. HolderOf(slots, b) \in Holder
    BY <2>3, <2>5 DEF UserBankBalance, Holder
  <2>. QED  BY <2>3, <2>4, <2>6 DEF k
<1>3. CASE SlotsOf(slots, b) = {}
  <2>1. FreeSlots(slots) \in SUBSET Nat /\ FreeSlots(slots) # {} /\ k = Min(FreeSlots(slots))
    BY <1>1, <1>3 DEF FreeSlots, HasSlot, SlotIndex
  <2>2. k \in FreeSlots(slots)
    BY <2>1, MinInSet
  <2>3. HolderOf(slots, b) = [balance_type |-> "Deposit", balance |-> 0]
    BY <1>3 DEF HolderOf
  <2>. HIDE DEF k
  <2>4. b # QUOTE /\ \A s \in Slots : slots[s].bank_index # b
    BY <1>3 DEF SlotsOf
  <2>5. k \in Slots \ {0} /\ slots[k].bank_index = QUOTE /\ slots[k].balance = 0
    BY <2>2 DEF FreeSlots, SlotsGood, QUOTE
  <2>6. HolderOf(slots, b) \in Holder
    BY <2>3 DEF Holder, BankBalanceType
  <2>. QED  BY <2>3, <2>4, <2>5, <2>6 DEF k
<1>. QED  BY <1>2, <1>3

(* Writing a holder back changes what the user holds in that bank, by the  *)
(* difference, and nothing else.                                           *)
LEMMA HolderPut ==
    ASSUME NEW slots, SlotsGood(slots), NEW b \in Banks, HasSlot(slots, b), NEW holder \in Holder
    PROVE  LET slots2 == PutHolder(slots, b, holder)
               old == HolderOf(slots, b)
           IN /\ SlotsGood(slots2)
              /\ \A c \in Banks, side \in BankBalanceType :
                    /\ Held(slots, c, side) \in Int
                    /\ Held(slots2, c, side) = Held(slots, c, side)
                          + (IF c = b THEN Part(holder, side) - Part(old, side) ELSE 0)
<1>. DEFINE k == SlotIndex(slots, b)
            new == [bank_index |-> b, balance_type |-> holder.balance_type,
                    balance |-> holder.balance]
            old == HolderOf(slots, b)
            slots2 == PutHolder(slots, b, holder)
<1>1. /\ k \in Slots /\ (k = 0 <=> b = QUOTE)
      /\ \/ /\ slots[k].bank_index = b
            /\ old = [balance_type |-> slots[k].balance_type, balance |-> slots[k].balance]
         \/ /\ b # QUOTE /\ slots[k].bank_index = QUOTE /\ slots[k].balance = 0
            /\ \A s \in Slots : slots[s].bank_index # b
            /\ old = [balance_type |-> "Deposit", balance |-> 0]
      /\ old \in Holder
  BY SlotFound
<1>2. slots2 = [slots EXCEPT ![k] = new]
  BY DEF PutHolder
<1>3. new \in UserBankBalance
  BY DEF UserBankBalance, Holder
<1>. HIDE DEF k, old, slots2
<1>4. /\ slots2 \in [Slots -> UserBankBalance] /\ slots2[k] = new
      /\ \A s \in Slots \ {k} : slots2[s] = slots[s]
  BY <1>1, <1>2, <1>3 DEF SlotsGood
<1>5. SlotsGood(slots2)
  <2>1. slots2[0].bank_index = QUOTE
    <3>1. 0 \in Slots
      BY LedgerAssumption DEF Slots
    <3>. QED  BY <1>1, <1>4, <3>1 DEF SlotsGood
  <2>2. ASSUME NEW s \in Slots \ {0}
        PROVE  /\ slots2[s].bank_index = QUOTE => slots2[s].balance = 0
               /\ \A t \in Slots \ {0, s} :
                     slots2[s].bank_index = slots2[t].bank_index => slots2[s].bank_index = QUOTE
    BY <1>1, <1>4 DEF SlotsGood
  <2>. QED  BY <1>4, <2>1, <2>2 DEF SlotsGood
<1>6. ASSUME NEW c \in Banks, NEW side \in BankBalanceType
      PROVE  /\ Held(slots, c, side) \in Int
             /\ Held(slots2, c, side) = Held(slots, c, side)
                   + (IF c = b THEN Part(holder, side) - Part(old, side) ELSE 0)
  <2>. DEFINE Share(slot) == IF slot.bank_index = c /\ slot.balance_type = side
                             THEN slot.balance ELSE 0
              f == [s \in Slots |-> Share(slots[s])]
              f2 == [s \in Slots |-> Share(slots2[s])]
  <2>1. IsFiniteSet(Slots)
    BY LedgerAssumption, FS_Interval DEF Slots
  <2>2. \A slot \in UserBankBalance : Share(slot) \in Int
    BY DEF UserBankBalance
  <2>3. f \in [Slots -> Int] /\ f2 \in [Slots -> Int]
    BY <1>4, <2>2 DEF SlotsGood
  <2>4. \A s \in Slots \ {k} : f2[s] = f[s]
    BY <1>4
  <2>5. Held(slots, c, side) = SumFunction(f) /\ Held(slots2, c, side) = SumFunction(f2)
    BY DEF Held
  <2>6. f2[k] - f[k] = IF c = b THEN Part(holder, side) - Part(old, side) ELSE 0
    <3>1. f2[k] = Share(new) /\ f[k] = Share(slots[k])
      BY <1>1, <1>4
    <3>2. Share(new) = IF c = b THEN Part(holder, side) ELSE 0
      BY DEF Part
    <3>3. Share(slots[k]) = IF c = b THEN Part(old, side) ELSE 0
      BY <1>1 DEF Part
    <3>. QED  BY <3>1, <3>2, <3>3
  <2>. HIDE DEF f, f2
  <2>7. SumFunction(f2) = SumFunction(f) + (f2[k] - f[k]) /\ SumFunction(f) \in Int
    BY <1>1, <2>1, <2>3, <2>4, SumChanged, SumType
  <2>. QED  BY <2>5, <2>6, <2>7
<1>. QED  BY <1>5, <1>6 DEF old, slots2

-----------------------------------------------------------------------------
(* The invariant, of values that an instruction passes through as well as  *)
(* of the variables.                                                       *)

HeldIn(balances, b, side) == SumFunction([u \in Users |-> Held(balances[u], b, side)])
PoolIn(pools, b) == IF b = QUOTE THEN SumFunction(pools) ELSE 0
PaidTwice(paid, b) == IF b = QUOTE THEN 2 * paid ELSE 0

Ledger(banks, balances, pools, paid) ==
    /\ banks \in [Banks -> Bank] /\ \A b \in Banks : GoodBank(banks[b])
    /\ \A u \in Users : SlotsGood(balances[u])
    /\ balances \in [Users -> [Slots -> UserBankBalance]]
    /\ pools \in [Markets -> Nat] /\ paid \in Int
    /\ \A b \in Banks :
          /\ banks[b].borrow_balance = HeldIn(balances, b, "Borrow")
          /\ banks[b].deposit_balance =
                HeldIn(balances, b, "Deposit") + PoolIn(pools, b) - PaidTwice(paid, b)

(* One bank, one user's balance in a bank, one pool replaced.              *)
WithBank(banks, b, bk) == [banks EXCEPT ![b] = bk]
WithHolder(balances, u, b, holder) == [balances EXCEPT ![u] = PutHolder(balances[u], b, holder)]
WithPool(pools, m, balance) == [pools EXCEPT ![m] = balance]

LEMMA HeldInt ==
    ASSUME NEW slots, SlotsGood(slots), NEW c, NEW side
    PROVE  Held(slots, c, side) \in Int
<1>. DEFINE f == [s \in Slots |-> IF slots[s].bank_index = c /\ slots[s].balance_type = side
                                 THEN slots[s].balance ELSE 0]
<1>1. IsFiniteSet(Slots)
  BY LedgerAssumption, FS_Interval DEF Slots
<1>2. f \in [Slots -> Int]
  BY DEF SlotsGood, UserBankBalance
<1>. HIDE DEF f
<1>3. SumFunction(f) \in Int
  BY <1>1, <1>2, SumType
<1>. QED  BY <1>3 DEF Held, f

LEMMA HeldInInt ==
    ASSUME NEW balances, \A u \in Users : SlotsGood(balances[u]), NEW c, NEW side
    PROVE  HeldIn(balances, c, side) \in Int
<1>. DEFINE f == [u \in Users |-> Held(balances[u], c, side)]
<1>1. IsFiniteSet(Users)
  BY LedgerAssumption
<1>2. f \in [Users -> Int]
  BY HeldInt
<1>. HIDE DEF f
<1>3. SumFunction(f) \in Int
  BY <1>1, <1>2, SumType
<1>. QED  BY <1>3 DEF HeldIn, f

(* One user's slots change.                                                *)
LEMMA HeldInChanged ==
    ASSUME NEW balances, \A v \in Users : SlotsGood(balances[v]),
           NEW balances2, \A v \in Users : SlotsGood(balances2[v]),
           NEW u \in Users, \A v \in Users \ {u} : balances2[v] = balances[v], NEW c, NEW side
    PROVE  HeldIn(balances2, c, side) = HeldIn(balances, c, side)
              + (Held(balances2[u], c, side) - Held(balances[u], c, side))
<1>. DEFINE f == [v \in Users |-> Held(balances[v], c, side)]
            f2 == [v \in Users |-> Held(balances2[v], c, side)]
<1>1. f \in [Users -> Int] /\ f2 \in [Users -> Int]
  BY HeldInt
<1>2. /\ f2[u] = Held(balances2[u], c, side) /\ f[u] = Held(balances[u], c, side)
      /\ \A v \in Users \ {u} : f2[v] = f[v]
  OBVIOUS
<1>3. HeldIn(balances, c, side) = SumFunction(f) /\ HeldIn(balances2, c, side) = SumFunction(f2)
  BY DEF HeldIn
<1>. HIDE DEF f, f2
<1>4. SumFunction(f2) = SumFunction(f) + (f2[u] - f[u])
  <2>1. IsFiniteSet(Users)
    BY LedgerAssumption
  <2>. QED  BY <1>1, <1>2, <2>1, SumChanged
<1>. QED  BY <1>2, <1>3, <1>4

LEMMA PoolChanged ==
    ASSUME NEW pools \in [Markets -> Nat], NEW m \in Markets, NEW balance \in Nat, NEW b
    PROVE  /\ PoolIn(pools, b) \in Int
           /\ PoolIn(WithPool(pools, m, balance), b)
                 = PoolIn(pools, b) + (IF b = QUOTE THEN balance - pools[m] ELSE 0)
<1>. DEFINE pools2 == [pools EXCEPT ![m] = balance]
<1>1. /\ pools \in [Markets -> Int] /\ pools2 \in [Markets -> Int] /\ pools2[m] = balance
      /\ \A n \in Markets \ {m} : pools2[n] = pools[n]
  OBVIOUS
<1>. HIDE DEF pools2
<1>2. SumFunction(pools2) = SumFunction(pools) + (balance - pools[m]) /\ SumFunction(pools) \in Int
  BY <1>1, SumChanged, SumType, LedgerAssumption
<1>. QED  BY <1>2 DEF PoolIn, WithPool, pools2

(* A bank with the same totals, as accruing interest leaves it.            *)
LEMMA BankAccrued ==
    ASSUME NEW banks, NEW balances, NEW pools, NEW paid, Ledger(banks, balances, pools, paid),
           NEW b \in Banks, NEW t \in Nat
    PROVE  Ledger(WithBank(banks, b, update_bank_cumulative_interest(banks[b], t)),
                  balances, pools, paid)
<1>. DEFINE bk2 == update_bank_cumulative_interest(banks[b], t)
            banks2 == [banks EXCEPT ![b] = bk2]
<1>1. GoodBank(banks[b])
  BY DEF Ledger
<1>2. /\ GoodBank(bk2) /\ bk2.deposit_balance = banks[b].deposit_balance
      /\ bk2.borrow_balance = banks[b].borrow_balance
  BY <1>1, InterestAccrued
<1>. HIDE DEF bk2
<1>3. /\ banks2 \in [Banks -> Bank] /\ banks2[b] = bk2
      /\ \A c \in Banks \ {b} : banks2[c] = banks[c]
  BY <1>2 DEF Ledger, GoodBank
<1>. HIDE DEF banks2
<1>4. Ledger(banks2, balances, pools, paid)
  BY <1>2, <1>3 DEF Ledger
<1>. QED  BY <1>4 DEF WithBank, banks2, bk2

(* A user's balance in a bank moves together with the bank's totals.       *)
LEMMA UserMoved ==
    ASSUME NEW banks, NEW balances, NEW pools, NEW paid, Ledger(banks, balances, pools, paid),
           NEW u \in Users, NEW b \in Banks, HasSlot(balances[u], b), NEW bk2, NEW holder2,
           MovedTogether(banks[b], HolderOf(balances[u], b), bk2, holder2)
    PROVE  Ledger(WithBank(banks, b, bk2), WithHolder(balances, u, b, holder2), pools, paid)
<1>. DEFINE old == HolderOf(balances[u], b)
            slots2 == PutHolder(balances[u], b, holder2)
            banks2 == [banks EXCEPT ![b] = bk2]
            balances2 == [balances EXCEPT ![u] = slots2]
<1>1. /\ SlotsGood(balances[u]) /\ GoodBank(banks[b]) /\ GoodBank(bk2) /\ holder2 \in Holder
      /\ \A side \in BankBalanceType :
            Total(bk2, side) - Total(banks[b], side) = Part(holder2, side) - Part(old, side)
      /\ old \in Holder
  BY SlotFound DEF Ledger, MovedTogether
<1>2. /\ SlotsGood(slots2)
      /\ \A c \in Banks, side \in BankBalanceType :
            /\ Held(balances[u], c, side) \in Int
            /\ Held(slots2, c, side) = Held(balances[u], c, side)
                  + (IF c = b THEN Part(holder2, side) - Part(old, side) ELSE 0)
  BY <1>1, HolderPut
<1>. HIDE DEF old, slots2
<1>3. /\ banks2 \in [Banks -> Bank] /\ banks2[b] = bk2
      /\ \A c \in Banks \ {b} : banks2[c] = banks[c]
  BY <1>1 DEF Ledger, GoodBank
<1>4. /\ balances2 \in [Users -> [Slots -> UserBankBalance]]
      /\ \A v \in Users : SlotsGood(balances2[v])
  BY <1>2 DEF Ledger, SlotsGood
<1>5. ASSUME NEW c \in Banks, NEW side \in BankBalanceType
      PROVE  /\ HeldIn(balances, c, side) \in Int
             /\ HeldIn(balances2, c, side) = HeldIn(balances, c, side)
                   + (Total(banks2[c], side) - Total(banks[c], side))
  <2>1. /\ HeldIn(balances, c, side) \in Int
        /\ HeldIn(balances2, c, side) = HeldIn(balances, c, side)
              + (Held(slots2, c, side) - Held(balances[u], c, side))
    <3>1. /\ \A v \in Users : SlotsGood(balances[v])
          /\ balances2[u] = slots2 /\ \A v \in Users \ {u} : balances2[v] = balances[v]
      BY DEF Ledger
    <3>. HIDE DEF balances2
    <3>2. HeldIn(balances2, c, side) = HeldIn(balances, c, side)
             + (Held(balances2[u], c, side) - Held(balances[u], c, side))
      BY <1>4, <3>1, HeldInChanged
    <3>3. HeldIn(balances, c, side) \in Int
      BY <3>1, HeldInInt
    <3>. QED  BY <3>1, <3>2, <3>3
  <2>. HIDE DEF banks2, balances2
  <2>2. /\ Total(banks[c], side) \in Nat /\ Total(banks2[c], side) \in Nat
        /\ Part(holder2, side) \in Nat /\ Part(old, side) \in Nat
    BY <1>1, <1>3, TotalNat DEF Ledger, Part, Holder
  <2>3. Held(slots2, c, side) - Held(balances[u], c, side)
           = Total(banks2[c], side) - Total(banks[c], side)
    BY <1>1, <1>2, <1>3, <2>2
  <2>. QED  BY <2>1, <2>3
<1>. HIDE DEF banks2, balances2
<1>6. ASSUME NEW c \in Banks
      PROVE  /\ GoodBank(banks2[c])
             /\ banks2[c].borrow_balance = HeldIn(balances2, c, "Borrow")
             /\ banks2[c].deposit_balance =
                   HeldIn(balances2, c, "Deposit") + PoolIn(pools, c) - PaidTwice(paid, c)
  <2>1. GoodBank(banks2[c]) /\ GoodBank(banks[c])
    BY <1>1, <1>3 DEF Ledger
  <2>2. /\ banks[c].borrow_balance \in Nat /\ banks2[c].borrow_balance \in Nat
        /\ banks[c].deposit_balance \in Nat /\ banks2[c].deposit_balance \in Nat
    BY <2>1 DEF GoodBank, Bank
  <2>3. /\ HeldIn(balances, c, "Borrow") \in Int /\ HeldIn(balances, c, "Deposit") \in Int
        /\ HeldIn(balances2, c, "Borrow") = HeldIn(balances, c, "Borrow")
              + (banks2[c].borrow_balance - banks[c].borrow_balance)
        /\ HeldIn(balances2, c, "Deposit") = HeldIn(balances, c, "Deposit")
              + (banks2[c].deposit_balance - banks[c].deposit_balance)
    BY <1>5 DEF Total, BankBalanceType
  <2>4. PoolIn(pools, c) \in Int /\ PaidTwice(paid, c) \in Int
    BY SumType, LedgerAssumption DEF Ledger, PoolIn, PaidTwice
  <2>5. /\ banks[c].borrow_balance = HeldIn(balances, c, "Borrow")
        /\ banks[c].deposit_balance =
              HeldIn(balances, c, "Deposit") + PoolIn(pools, c) - PaidTwice(paid, c)
    BY DEF Ledger
  <2>. QED  BY <2>1, <2>2, <2>3, <2>4, <2>5
<1>7. Ledger(banks2, balances2, pools, paid)
  BY <1>3, <1>4, <1>6 DEF Ledger
<1>. QED  BY <1>7 DEF WithBank, WithHolder, banks2, balances2, slots2

LEMMA UserPaid ==
    ASSUME NEW banks, NEW balances, NEW pools, NEW paid, Ledger(banks, balances, pools, paid),
           NEW u \in Users, NEW b \in Banks, HasSlot(balances[u], b),
           NEW amount \in Nat, NEW direction \in BankBalanceType,
           update_user(amount, direction, banks[b], HolderOf(balances[u], b)).ok
    PROVE  LET r == update_user(amount, direction, banks[b], HolderOf(balances[u], b))
           IN Ledger(WithBank(banks, b, r.bank), WithHolder(balances, u, b, r.holder), pools, paid)
<1>1. GoodBank(banks[b]) /\ SlotsGood(balances[u])
  BY DEF Ledger
<1>2. HolderOf(balances[u], b) \in Holder
  BY <1>1, SlotFound
<1>3. LET r == update_user(amount, direction, banks[b], HolderOf(balances[u], b))
      IN MovedTogether(banks[b], HolderOf(balances[u], b), r.bank, r.holder)
  BY <1>1, <1>2, UserBalanceMoved
<1>. QED  BY <1>3, UserMoved

(* A pool and the quote bank's deposits.                                   *)
LEMMA PoolMoved ==
    ASSUME NEW banks, NEW balances, NEW pools, NEW paid, Ledger(banks, balances, pools, paid),
           NEW m \in Markets, NEW bk2, GoodBank(bk2), NEW balance \in Nat, NEW paid2 \in Int,
           bk2.borrow_balance = banks[QUOTE].borrow_balance,
           balance - pools[m] - 2 * (paid2 - paid)
               = bk2.deposit_balance - banks[QUOTE].deposit_balance
    PROVE  Ledger(WithBank(banks, QUOTE, bk2), balances, WithPool(pools, m, balance), paid2)
<1>. DEFINE banks2 == WithBank(banks, QUOTE, bk2)
            pools2 == WithPool(pools, m, balance)
<1>1. /\ QUOTE \in Banks /\ banks \in [Banks -> Bank] /\ pools \in [Markets -> Nat]
      /\ paid \in Int /\ bk2 \in Bank
  BY LedgerAssumption DEF Ledger, QUOTE, Banks, GoodBank
<1>2. /\ banks2 \in [Banks -> Bank] /\ banks2[QUOTE] = bk2 /\ pools2 \in [Markets -> Nat]
      /\ \A c \in Banks \ {QUOTE} : banks2[c] = banks[c]
  BY <1>1 DEF WithBank, WithPool
<1>3. \A c \in Banks : GoodBank(banks2[c])
  BY <1>2 DEF Ledger
<1>4. ASSUME NEW c \in Banks
      PROVE  /\ banks2[c].borrow_balance = HeldIn(balances, c, "Borrow")
             /\ banks2[c].deposit_balance =
                   HeldIn(balances, c, "Deposit") + PoolIn(pools2, c) - PaidTwice(paid2, c)
  <2>1. /\ banks[c].borrow_balance = HeldIn(balances, c, "Borrow")
        /\ banks[c].deposit_balance =
              HeldIn(balances, c, "Deposit") + PoolIn(pools, c) - PaidTwice(paid, c)
    BY DEF Ledger
  <2>2. /\ PoolIn(pools, c) \in Int
        /\ PoolIn(pools2, c) = PoolIn(pools, c) + (IF c = QUOTE THEN balance - pools[m] ELSE 0)
    BY <1>1, PoolChanged
  <2>3. HeldIn(balances, c, "Deposit") \in Int
    BY HeldInInt DEF Ledger
  <2>. HIDE DEF banks2, pools2
  <2>4. CASE c = QUOTE
    <3>1. bk2.deposit_balance \in Nat /\ banks[QUOTE].deposit_balance \in Nat /\ pools[m] \in Nat
      BY <1>1 DEF Bank
    <3>. QED  BY <1>1, <1>2, <2>1, <2>2, <2>3, <2>4, <3>1 DEF PaidTwice
  <2>5. CASE c # QUOTE
    BY <1>2, <2>1, <2>2, <2>3, <2>5 DEF PaidTwice
  <2>. QED  BY <2>4, <2>5
<1>. HIDE DEF banks2, pools2
<1>5. Ledger(banks2, balances, pools2, paid2)
  BY <1>2, <1>3, <1>4 DEF Ledger
<1>. QED  BY <1>5 DEF banks2, pools2

-----------------------------------------------------------------------------
LedgerInv ==
    /\ Ledger(bank, bank_balances, pnl_pool, pool_paid)
    /\ unsettled_pnl \in [Users -> [Markets -> Int]]
    /\ now \in Nat

(* The instructions.                                                       *)

LEMMA ClampedNat ==
    ASSUME NEW amount \in Nat, NEW reduce_only, NEW side \in BankBalanceType,
           NEW bk, GoodBank(bk), NEW holder \in Holder
    PROVE  clamped(amount, reduce_only, side, bk, holder) \in Nat
<1>. DEFINE t == get_token_amount(holder.balance, bk, side)
<1>1. t \in Nat
  BY TokensCoverBalance DEF Holder
<1>. HIDE DEF t
<1>2. Min({amount, t}) \in Nat
  BY <1>1, MinInSet
<1>. QED  BY <1>2 DEF clamped, t

(* A bank brought up to date, then one user's balance in it.               *)
LEMMA AccruedAndPaid ==
    ASSUME LedgerInv, NEW u \in Users, NEW b \in Banks, CanHold(u, b),
           NEW amount \in Nat, NEW direction \in BankBalanceType,
           LET bk == update_bank_cumulative_interest(bank[b], now)
           IN update_user(amount, direction, bk, user_holder(u, b)).ok
    PROVE  LET bk == update_bank_cumulative_interest(bank[b], now)
               r == update_user(amount, direction, bk, user_holder(u, b))
           IN Ledger(WithBank(bank, b, r.bank), WithHolder(bank_balances, u, b, r.holder),
                     pnl_pool, pool_paid)
<1>. DEFINE bk == update_bank_cumulative_interest(bank[b], now)
            banks == WithBank(bank, b, bk)
            r == update_user(amount, direction, bk, HolderOf(bank_balances[u], b))
<1>1. Ledger(banks, bank_balances, pnl_pool, pool_paid)
  BY BankAccrued DEF LedgerInv
<1>2. bank \in [Banks -> Bank]
  BY DEF LedgerInv, Ledger
<1>3. banks[b] = bk /\ \A x : WithBank(banks, b, x) = WithBank(bank, b, x)
  BY <1>2 DEF WithBank
<1>4. HasSlot(bank_balances[u], b) /\ r.ok
  BY DEF CanHold, HasSlot, user_holder
<1>. HIDE DEF banks, bk
<1>5. Ledger(WithBank(banks, b, r.bank), WithHolder(bank_balances, u, b, r.holder),
             pnl_pool, pool_paid)
  BY <1>1, <1>3, <1>4, UserPaid
<1>. QED  BY <1>3, <1>5 DEF bk, user_holder

LEMMA HolderUpdated ==
    ASSUME LedgerInv, NEW u \in Users, NEW b \in Banks, CanHold(u, b)
    PROVE  /\ GoodBank(update_bank_cumulative_interest(bank[b], now))
           /\ user_holder(u, b) \in Holder
<1>1. GoodBank(bank[b]) /\ SlotsGood(bank_balances[u]) /\ HasSlot(bank_balances[u], b)
  BY DEF LedgerInv, Ledger, CanHold, HasSlot
<1>. QED  BY <1>1, InterestAccrued, SlotFound DEF LedgerInv, user_holder

LEMMA DepositInv ==
    ASSUME LedgerInv, NEW u \in Users, NEW b \in Banks, NEW ix_amount \in Nat, NEW reduce_only,
           deposit(u, b, ix_amount, reduce_only)
    PROVE  LedgerInv'
<1>. DEFINE bk == update_bank_cumulative_interest(bank[b], now)
            holder == user_holder(u, b)
            amount == clamped(ix_amount, reduce_only, "Borrow", bk, holder)
            r == update_user(amount, "Deposit", bk, holder)
<1>1. /\ CanHold(u, b) /\ r.ok
      /\ bank' = WithBank(bank, b, r.bank)
      /\ bank_balances' = WithHolder(bank_balances, u, b, r.holder)
      /\ UNCHANGED <<pnl_pool, unsettled_pnl, pool_paid, now>>
  BY DEF deposit, WithBank, WithHolder, env
<1>2. amount \in Nat
  BY <1>1, HolderUpdated, ClampedNat DEF BankBalanceType
<1>. HIDE DEF amount
<1>3. Ledger(WithBank(bank, b, r.bank), WithHolder(bank_balances, u, b, r.holder),
             pnl_pool, pool_paid)
  BY <1>1, <1>2, AccruedAndPaid DEF BankBalanceType
<1>. QED  BY <1>1, <1>3 DEF LedgerInv

LEMMA WithdrawInv ==
    ASSUME LedgerInv, NEW u \in Users, NEW b \in Banks, NEW ix_amount \in Nat, NEW reduce_only,
           NEW price, withdraw(u, b, ix_amount, reduce_only, price)
    PROVE  LedgerInv'
<1>. DEFINE bk == update_bank_cumulative_interest(bank[b], now)
            holder == user_holder(u, b)
            amount == clamped(ix_amount, reduce_only, "Deposit", bk, holder)
            r == update_user(amount, "Borrow", bk, holder)
<1>1. /\ CanHold(u, b) /\ r.ok
      /\ bank' = WithBank(bank, b, r.bank)
      /\ bank_balances' = WithHolder(bank_balances, u, b, r.holder)
      /\ UNCHANGED <<pnl_pool, unsettled_pnl, pool_paid, now>>
  BY DEF withdraw, WithBank, WithHolder, env
<1>2. amount \in Nat
  BY <1>1, HolderUpdated, ClampedNat DEF BankBalanceType
<1>. HIDE DEF amount
<1>3. Ledger(WithBank(bank, b, r.bank), WithHolder(bank_balances, u, b, r.holder),
             pnl_pool, pool_paid)
  BY <1>1, <1>2, AccruedAndPaid DEF BankBalanceType
<1>. QED  BY <1>1, <1>3 DEF LedgerInv

(* Two users, one bank: what the one pays the other gets, each rounded for *)
(* itself.                                                                 *)
LEMMA TransferDepositInv ==
    ASSUME LedgerInv, NEW from \in Users, NEW to \in Users, NEW b \in Banks, NEW amount \in Nat,
           NEW price, transfer_deposit(from, to, b, amount, price)
    PROVE  LedgerInv'
<1>. DEFINE bk == update_bank_cumulative_interest(bank[b], now)
            r1 == update_user(amount, "Borrow", bk, user_holder(from, b))
            r2 == update_user(amount, "Deposit", r1.bank, user_holder(to, b))
            banks == WithBank(bank, b, r1.bank)
            balances == WithHolder(bank_balances, from, b, r1.holder)
<1>1. /\ from # to /\ CanHold(from, b) /\ CanHold(to, b) /\ r1.ok /\ r2.ok
      /\ bank' = [bank EXCEPT ![b] = r2.bank]
      /\ bank_balances' = [bank_balances EXCEPT ![from] = PutHolder(@, b, r1.holder),
                                                ![to] = PutHolder(@, b, r2.holder)]
      /\ UNCHANGED <<pnl_pool, unsettled_pnl, pool_paid, now>>
  BY DEF transfer_deposit, env
<1>2. Ledger(banks, balances, pnl_pool, pool_paid)
  BY <1>1, AccruedAndPaid DEF BankBalanceType
<1>3. /\ bank \in [Banks -> Bank]
      /\ bank_balances \in [Users -> [Slots -> UserBankBalance]]
  BY DEF LedgerInv, Ledger
<1>. HIDE DEF r1, r2
<1>4. /\ banks[b] = r1.bank
      /\ balances[to] = bank_balances[to]
  BY <1>1, <1>3 DEF WithBank, WithHolder
<1>5. bank' = WithBank(banks, b, r2.bank)
  BY <1>1, <1>3 DEF WithBank
<1>6. bank_balances' = WithHolder(balances, to, b, r2.holder)
  BY <1>1, <1>3 DEF WithHolder
<1>7. /\ HasSlot(balances[to], b)
      /\ r2 = update_user(amount, "Deposit", banks[b], HolderOf(balances[to], b))
  BY <1>1, <1>4 DEF CanHold, HasSlot, user_holder, r2
<1>. HIDE DEF banks, balances
<1>8. Ledger(WithBank(banks, b, r2.bank), WithHolder(balances, to, b, r2.holder),
             pnl_pool, pool_paid)
  BY <1>1, <1>2, <1>7, UserPaid DEF BankBalanceType
<1>. QED  BY <1>1, <1>5, <1>6, <1>8 DEF LedgerInv

LEMMA AccrueInterestInv ==
    ASSUME LedgerInv, NEW b \in Banks, accrue_interest(b)
    PROVE  LedgerInv'
<1>1. /\ bank' = WithBank(bank, b, update_bank_cumulative_interest(bank[b], now))
      /\ UNCHANGED <<bank_balances, pnl_pool, unsettled_pnl, pool_paid, now>>
  BY DEF accrue_interest, WithBank, env
<1>2. Ledger(bank', bank_balances, pnl_pool, pool_paid)
  BY <1>1, BankAccrued DEF LedgerInv
<1>. QED  BY <1>1, <1>2 DEF LedgerInv

(* A quote balance always has its slot, slot 0.                            *)
LEMMA QuoteSlot ==
    ASSUME NEW slots
    PROVE  QUOTE \in Banks /\ HasSlot(slots, QUOTE)
BY LedgerAssumption DEF QUOTE, Banks, HasSlot, SlotsOf

LEMMA PoolGood ==
    ASSUME NEW banks, NEW balances, NEW pools, NEW paid, Ledger(banks, balances, pools, paid),
           NEW m \in Markets
    PROVE  GoodBank(banks[QUOTE]) /\ pools[m] \in Nat /\ banks[QUOTE].deposit_balance \in Nat
BY QuoteSlot DEF Ledger, GoodBank, Bank

LEMMA SettlePositivePnlInv ==
    ASSUME LedgerInv, NEW u \in Users, NEW m \in Markets, settle_positive_pnl(u, m)
    PROVE  LedgerInv'
<1>. DEFINE pool_tokens == get_token_amount(pnl_pool[m], bank[QUOTE], "Deposit")
            amount == Min({unsettled_pnl[u][m], pool_tokens})
            r1 == update_user(amount, "Deposit", bank[QUOTE], user_holder(u, QUOTE))
            holder == [balance_type |-> "Deposit", balance |-> pnl_pool[m]]
            r2 == update_bank_balances(amount, "Borrow", r1.bank, holder, "PNLPool")
            banks == WithBank(bank, QUOTE, r1.bank)
            balances == WithHolder(bank_balances, u, QUOTE, r1.holder)
            paid2 == pool_paid + (r1.bank.deposit_balance - r2.bank.deposit_balance)
<1>1. /\ unsettled_pnl[u][m] > 0 /\ r1.ok /\ r2.ok
      /\ bank' = WithBank(bank, QUOTE, r2.bank)
      /\ bank_balances' = balances
      /\ pnl_pool' = WithPool(pnl_pool, m, r2.holder.balance)
      /\ pool_paid' = paid2
      /\ unsettled_pnl' = [unsettled_pnl EXCEPT ![u][m] = @ - amount]
      /\ now' = now
  BY DEF settle_positive_pnl, update_pool, WithBank, WithHolder, WithPool, env
<1>2. /\ Ledger(bank, bank_balances, pnl_pool, pool_paid) /\ pool_paid \in Int
      /\ bank \in [Banks -> Bank] /\ unsettled_pnl \in [Users -> [Markets -> Int]]
      /\ unsettled_pnl[u][m] \in Int /\ now \in Nat
  BY DEF LedgerInv, Ledger
<1>3. pool_tokens \in Nat
  BY <1>2, PoolGood, TokensCoverBalance DEF BankBalanceType
<1>4. amount \in Nat
  <2>. HIDE DEF pool_tokens
  <2>1. unsettled_pnl[u][m] \in Nat
    BY <1>1, <1>2
  <2>. QED  BY <1>3, <2>1, MinInSet
<1>. HIDE DEF amount, pool_tokens
<1>5. Ledger(banks, balances, pnl_pool, pool_paid)
  BY <1>1, <1>2, <1>4, QuoteSlot, UserPaid DEF user_holder, BankBalanceType
<1>. HIDE DEF balances
<1>6. banks[QUOTE] = r1.bank /\ \A x : WithBank(banks, QUOTE, x) = WithBank(bank, QUOTE, x)
  BY <1>2, QuoteSlot DEF WithBank
<1>7. GoodBank(r1.bank) /\ pnl_pool[m] \in Nat /\ r1.bank.deposit_balance \in Nat
  BY <1>5, <1>6, PoolGood
<1>. HIDE DEF banks, r1
<1>8. /\ GoodBank(r2.bank) /\ r2.holder.balance \in Nat
      /\ r2.bank.borrow_balance = r1.bank.borrow_balance
      /\ r2.holder.balance = pnl_pool[m] - (r2.bank.deposit_balance - r1.bank.deposit_balance)
  BY <1>1, <1>4, <1>7, PoolBalanceMoved DEF BankBalanceType
<1>. HIDE DEF r2
<1>9. r2.bank.deposit_balance \in Nat
  BY <1>8 DEF GoodBank, Bank
<1>10. /\ paid2 \in Int
       /\ r2.holder.balance - pnl_pool[m] - 2 * (paid2 - pool_paid)
             = r2.bank.deposit_balance - r1.bank.deposit_balance
  BY <1>2, <1>7, <1>8, <1>9
<1>. HIDE DEF paid2
<1>11. Ledger(WithBank(banks, QUOTE, r2.bank), balances,
              WithPool(pnl_pool, m, r2.holder.balance), paid2)
  BY <1>5, <1>6, <1>8, <1>10, PoolMoved
<1>12. unsettled_pnl' \in [Users -> [Markets -> Int]]
  BY <1>1, <1>2, <1>4
<1>. QED  BY <1>1, <1>2, <1>6, <1>11, <1>12 DEF LedgerInv

LEMMA SettleNegativePnlInv ==
    ASSUME LedgerInv, NEW u \in Users, NEW m \in Markets, settle_negative_pnl(u, m)
    PROVE  LedgerInv'
<1>. DEFINE amount == - unsettled_pnl[u][m]
            holder == [balance_type |-> "Deposit", balance |-> pnl_pool[m]]
            r1 == update_bank_balances(amount, "Deposit", bank[QUOTE], holder, "PNLPool")
            r2 == update_user(amount, "Borrow", r1.bank, user_holder(u, QUOTE))
            banks == WithBank(bank, QUOTE, r1.bank)
            pools == WithPool(pnl_pool, m, r1.holder.balance)
<1>1. /\ unsettled_pnl[u][m] < 0 /\ r1.ok /\ r2.ok
      /\ bank' = WithBank(bank, QUOTE, r2.bank)
      /\ bank_balances' = WithHolder(bank_balances, u, QUOTE, r2.holder)
      /\ pnl_pool' = pools
      /\ unsettled_pnl' = [unsettled_pnl EXCEPT ![u][m] = 0]
      /\ UNCHANGED <<pool_paid, now>>
  BY DEF settle_negative_pnl, update_pool, WithBank, WithHolder, WithPool, env
<1>2. /\ Ledger(bank, bank_balances, pnl_pool, pool_paid) /\ pool_paid \in Int
      /\ bank \in [Banks -> Bank] /\ unsettled_pnl \in [Users -> [Markets -> Int]]
      /\ unsettled_pnl[u][m] \in Int /\ now \in Nat
  BY DEF LedgerInv, Ledger
<1>3. amount \in Nat
  BY <1>1, <1>2
<1>. HIDE DEF amount
<1>4. GoodBank(bank[QUOTE]) /\ pnl_pool[m] \in Nat /\ bank[QUOTE].deposit_balance \in Nat
  BY <1>2, PoolGood
<1>5. /\ GoodBank(r1.bank) /\ r1.holder.balance \in Nat
      /\ r1.bank.borrow_balance = bank[QUOTE].borrow_balance
      /\ r1.holder.balance = pnl_pool[m] + (r1.bank.deposit_balance - bank[QUOTE].deposit_balance)
  BY <1>1, <1>3, <1>4, PoolBalanceMoved DEF BankBalanceType
<1>. HIDE DEF r1
<1>6. r1.bank.deposit_balance \in Nat
  BY <1>5 DEF GoodBank, Bank
<1>7. r1.holder.balance - pnl_pool[m] - 2 * (pool_paid - pool_paid)
         = r1.bank.deposit_balance - bank[QUOTE].deposit_balance
  BY <1>2, <1>4, <1>5, <1>6
<1>8. Ledger(banks, bank_balances, pools, pool_paid)
  BY <1>2, <1>5, <1>7, PoolMoved
<1>9. banks[QUOTE] = r1.bank /\ \A x : WithBank(banks, QUOTE, x) = WithBank(bank, QUOTE, x)
  BY <1>2, QuoteSlot DEF WithBank
<1>. HIDE DEF banks, pools
<1>10. Ledger(WithBank(banks, QUOTE, r2.bank), WithHolder(bank_balances, u, QUOTE, r2.holder),
              pools, pool_paid)
  BY <1>1, <1>3, <1>8, <1>9, QuoteSlot, UserPaid DEF user_holder, BankBalanceType
<1>11. unsettled_pnl' \in [Users -> [Markets -> Int]]
  BY <1>1, <1>2
<1>. QED  BY <1>1, <1>2, <1>9, <1>10, <1>11 DEF LedgerInv

(* The liquidator is credited before the user is debited; they may be the  *)
(* same.                                                                   *)
LEMMA LiquidateInv ==
    ASSUME LedgerInv, NEW u \in Users, NEW liquidator \in Users, NEW m \in Markets,
           NEW pnl \in Int, NEW liquidation_fee \in Nat, NEW price,
           liquidate(u, liquidator, m, pnl, liquidation_fee, price)
    PROVE  LedgerInv'
<1>. DEFINE to_liquidator == liquidation_fee \div LIQUIDATOR_SHARE_DENOMINATOR
            r1 == update_user(to_liquidator, "Deposit", bank[QUOTE], user_holder(liquidator, QUOTE))
            bk == IF to_liquidator > 0 THEN r1.bank ELSE bank[QUOTE]
            credited == IF to_liquidator > 0
                        THEN WithHolder(bank_balances, liquidator, QUOTE, r1.holder)
                        ELSE bank_balances
            r2 == update_user(liquidation_fee, "Borrow", bk, HolderOf(credited[u], QUOTE))
            banks == IF to_liquidator > 0 THEN WithBank(bank, QUOTE, r1.bank) ELSE bank
<1>1. /\ r1.ok /\ r2.ok
      /\ bank' = WithBank(bank, QUOTE, r2.bank)
      /\ bank_balances' = WithHolder(credited, u, QUOTE, r2.holder)
      /\ unsettled_pnl' = [unsettled_pnl EXCEPT ![u][m] = @ + pnl]
      /\ UNCHANGED <<pnl_pool, pool_paid, now>>
  BY DEF liquidate, WithBank, WithHolder, env
<1>2. /\ Ledger(bank, bank_balances, pnl_pool, pool_paid)
      /\ bank \in [Banks -> Bank] /\ unsettled_pnl \in [Users -> [Markets -> Int]] /\ now \in Nat
  BY DEF LedgerInv, Ledger
<1>3. to_liquidator \in Nat
  <2>1. LIQUIDATOR_SHARE_DENOMINATOR \in Nat \ {0}
    BY LedgerAssumption
  <2>. QED  BY <2>1, DivInt
<1>. HIDE DEF to_liquidator
<1>4. Ledger(WithBank(bank, QUOTE, r1.bank),
             WithHolder(bank_balances, liquidator, QUOTE, r1.holder), pnl_pool, pool_paid)
  BY <1>1, <1>2, <1>3, QuoteSlot, UserPaid DEF user_holder, BankBalanceType
<1>. HIDE DEF r1
<1>5. Ledger(banks, credited, pnl_pool, pool_paid)
  BY <1>2, <1>4
<1>6. banks[QUOTE] = bk /\ \A x : WithBank(banks, QUOTE, x) = WithBank(bank, QUOTE, x)
  BY <1>2, QuoteSlot DEF WithBank
<1>. HIDE DEF banks, credited, bk
<1>7. Ledger(WithBank(banks, QUOTE, r2.bank), WithHolder(credited, u, QUOTE, r2.holder),
             pnl_pool, pool_paid)
  BY <1>1, <1>5, <1>6, QuoteSlot, UserPaid DEF BankBalanceType
<1>8. unsettled_pnl' \in [Users -> [Markets -> Int]]
  BY <1>1, <1>2
<1>. QED  BY <1>1, <1>2, <1>6, <1>7, <1>8 DEF LedgerInv

-----------------------------------------------------------------------------
LEMMA LedgerInit == Init => LedgerInv
<1>. SUFFICES ASSUME Init PROVE LedgerInv
  OBVIOUS
<1>1. IsFiniteSet(Users) /\ IsFiniteSet(Markets) /\ 0 \in Slots /\ QUOTE \in Banks
  BY LedgerAssumption DEF Slots, QUOTE, Banks
<1>2. ASSUME NEW b \in Banks
      PROVE  /\ GoodBank(bank[b]) /\ bank[b].deposit_balance = 0 /\ bank[b].borrow_balance = 0
  <2>1. bank[b] = InitBank(Precision[b]) /\ Precision[b] \in Precisions
    BY LedgerAssumption DEF Init
  <2>. QED  BY <2>1, InterestAssumption DEF InitBank, GoodBank, Bank, Precisions
<1>3. bank \in [Banks -> Bank]
  BY <1>2 DEF Init, GoodBank
<1>4. EmptySlot \in UserBankBalance /\ EmptySlot.bank_index = QUOTE /\ EmptySlot.balance = 0
  BY <1>1 DEF EmptySlot, UserBankBalance, BankBalanceType, QUOTE
<1>5. /\ bank_balances \in [Users -> [Slots -> UserBankBalance]]
      /\ \A u \in Users : bank_balances[u] = [s \in Slots |-> EmptySlot]
  BY <1>4 DEF Init
<1>6. \A u \in Users : SlotsGood(bank_balances[u])
  BY <1>1, <1>4, <1>5 DEF SlotsGood
<1>7. ASSUME NEW b, NEW side PROVE HeldIn(bank_balances, b, side) = 0
  <2>. DEFINE f == [s \in Slots |-> 0]
              g == [u \in Users |-> 0]
  <2>1. IsFiniteSet(Slots)
    BY LedgerAssumption, FS_Interval DEF Slots
  <2>2. SumFunction(f) = 0
    BY <2>1, SumOfZeros
  <2>3. ASSUME NEW u \in Users PROVE Held(bank_balances[u], b, side) = 0
    <3>1. [s \in Slots |-> IF /\ bank_balances[u][s].bank_index = b
                              /\ bank_balances[u][s].balance_type = side
                           THEN bank_balances[u][s].balance ELSE 0] = f
      BY <1>4, <1>5
    <3>. HIDE DEF f
    <3>. QED  BY <2>2, <3>1 DEF Held
  <2>4. [u \in Users |-> Held(bank_balances[u], b, side)] = g
    BY <2>3
  <2>5. SumFunction(g) = 0
    BY <1>1, SumOfZeros
  <2>. HIDE DEF g
  <2>. QED  BY <2>4, <2>5 DEF HeldIn
<1>8. pnl_pool \in [Markets -> Nat] /\ SumFunction(pnl_pool) = 0
  <2>1. pnl_pool \in [Markets -> Nat] /\ pnl_pool \in [Markets -> Int]
        /\ \A m \in Markets : pnl_pool[m] = 0
    BY DEF Init
  <2>. QED  BY <1>1, <2>1, SumOfZeros
<1>9. pool_paid = 0 /\ now = 0 /\ unsettled_pnl \in [Users -> [Markets -> Int]]
  BY DEF Init
<1>. QED  BY <1>2, <1>3, <1>5, <1>6, <1>7, <1>8, <1>9 DEF LedgerInv, Ledger, PoolIn, PaidTwice

LEMMA LedgerNext == LedgerInv /\ [Next]_vars => LedgerInv'
<1>. SUFFICES ASSUME LedgerInv, [Next]_vars PROVE LedgerInv'
  OBVIOUS
<1>. Amounts \subseteq Nat /\ Pnls \subseteq Int /\ Fees \subseteq Nat
  BY LedgerAssumption
<1>1. ASSUME NEW u \in Users, NEW b \in Banks, NEW a \in Amounts, NEW r \in BOOLEAN,
             deposit(u, b, a, r)
      PROVE  LedgerInv'
  BY <1>1, DepositInv
<1>2. ASSUME NEW u \in Users, NEW b \in Banks, NEW a \in Amounts, NEW r \in BOOLEAN, NEW p,
             withdraw(u, b, a, r, p)
      PROVE  LedgerInv'
  BY <1>2, WithdrawInv
<1>3. ASSUME NEW u \in Users, NEW v \in Users, NEW b \in Banks, NEW a \in Amounts, NEW p,
             transfer_deposit(u, v, b, a, p)
      PROVE  LedgerInv'
  BY <1>3, TransferDepositInv
<1>4. ASSUME NEW b \in Banks, accrue_interest(b) PROVE LedgerInv'
  BY <1>4, AccrueInterestInv
<1>5. ASSUME NEW u \in Users, NEW m \in Markets, settle_positive_pnl(u, m) PROVE LedgerInv'
  BY <1>5, SettlePositivePnlInv
<1>6. ASSUME NEW u \in Users, NEW m \in Markets, settle_negative_pnl(u, m) PROVE LedgerInv'
  BY <1>6, SettleNegativePnlInv
<1>7. ASSUME NEW u \in Users, NEW v \in Users, NEW m \in Markets, NEW d \in Pnls,
             NEW f \in Amounts, NEW p, liquidate(u, v, m, d, f, p)
      PROVE  LedgerInv'
  BY <1>7, LiquidateInv
<1>8. ASSUME NEW u \in Users, NEW m \in Markets, NEW d \in Pnls, NEW f \in Fees,
             RealizePnl(u, m, d, f)
      PROVE  LedgerInv'
  <2>1. d \in Int /\ f \in Int
    OBVIOUS
  <2>2. unsettled_pnl' \in [Users -> [Markets -> Int]]
    BY <1>8, <2>1 DEF RealizePnl, LedgerInv
  <2>. QED  BY <1>8, <2>2 DEF RealizePnl, LedgerInv, env
<1>9. ASSUME UNCHANGED <<bank, bank_balances, pnl_pool, unsettled_pnl, pool_paid>>, now' \in {now, now + 1}
      PROVE  LedgerInv'
  BY <1>9 DEF LedgerInv
<1>10. ASSUME NEW m, NEW a, withdraw_fees(m, a) PROVE LedgerInv'
  BY <1>9, <1>10 DEF withdraw_fees, env
<1>11. ASSUME NEW a, \/ withdraw_from_insurance_vault(a)
                     \/ withdraw_from_insurance_vault_to_market(a)
       PROVE  LedgerInv'
  BY <1>9, <1>11 DEF withdraw_from_insurance_vault, withdraw_from_insurance_vault_to_market, env
<1>12. ASSUME update_exchange_paused \/ Tick \/ UNCHANGED vars PROVE LedgerInv'
  BY <1>9, <1>12 DEF update_exchange_paused, Tick, vars
<1>. QED
  BY <1>1, <1>2, <1>3, <1>4, <1>5, <1>6, <1>7, <1>8, <1>10, <1>11, <1>12 DEF Next

LEMMA LedgerAlways == Spec => []LedgerInv
BY LedgerInit, LedgerNext, PTL DEF Spec

(* The slot of a bank that get_bank_balance_mut or add_bank_balance finds  *)
(* is the one with the user's money in it: no bank has two slots, and no   *)
(* slot that looks free holds anything.                                    *)
THEOREM BalancesFound == Spec => []SlotsAddressable
<1>1. LedgerInv => SlotsAddressable
  BY DEF LedgerInv, Ledger, SlotsGood, SlotsAddressable
<1>. QED  BY <1>1, LedgerAlways, PTL

(* update_bank_balances keeps the totals of every bank equal to the sums   *)
(* of its holders' balances, through interest, transfers, settlements and  *)
(* liquidations, but for twice the units PNLPool::decrease_balance adds.   *)
THEOREM TotalsAddUp == Spec => []BankTotalsAccounted
<1>1. LedgerInv => BankTotalsAccounted
  BY DEF LedgerInv, Ledger, BankTotalsAccounted, HeldIn, HeldBalance, PoolIn, PoolBalance, PaidTwice
<1>. QED  BY <1>1, LedgerAlways, PTL
=============================================================================
