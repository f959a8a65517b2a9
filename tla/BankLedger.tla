----------------------------- MODULE BankLedger -----------------------------
(***************************************************************************)
(* The custody side of the clearing house: the banks, the bank-balance     *)
(* slots of the users, the pnl pools of the markets, and the token vaults  *)
(* behind them.  One action is one instruction; an instruction whose       *)
(* checks fail aborts and changes nothing, so it is not a step.            *)
(*                                                                         *)
(* Users here hold positions whose base amount is zero: of a position only *)
(* the unsettled pnl reaches this component, and trading is the action     *)
(* that changes it (RealizePnl).                                           *)
(***************************************************************************)
EXTENDS BankMath, FiniteSetsExt

CONSTANTS
    Users, Markets,
    NumBanks,               \* banks are 0 .. NumBanks - 1; bank 0 is the quote asset
    NumSlots,               \* User.bank_balances: 8 in the code
    Precision,              \* bank |-> 10^(16 - decimals)
    AssetWeight,            \* bank |-> initial_asset_weight
    LiabilityWeight,        \* bank |-> initial_liability_weight
    BANK_WEIGHT_PRECISION,
    PRICE_PRECISION,
    Prices,                 \* oracle prices the environment may publish
    LIQUIDATOR_SHARE_DENOMINATOR,
    FEE_SHARE_DENOMINATOR,  \* SHARE_OF_FEES_ALLOCATED_TO_CLEARING_HOUSE
    Amounts,                \* amounts an instruction may name
    Wallet,                 \* user |-> bank |-> tokens of its mint the user starts with
    Pnls, Fees,             \* pnl a trade may realise, fee it may be charged
    MaxTime, MaxTrades, MaxBalance      \* bounds of the model

Banks == 0 .. NumBanks - 1
Slots == 0 .. NumSlots - 1
QUOTE == 0                  \* QUOTE_ASSET_BANK_INDEX

ASSUME LedgerAssumption ==
    /\ IsFiniteSet(Users) /\ IsFiniteSet(Markets)
    /\ NumBanks \in Nat \ {0} /\ NumSlots \in Nat \ {0}
    /\ Precision \in [Banks -> Precisions]
    /\ AssetWeight \in [Banks -> Nat] /\ LiabilityWeight \in [Banks -> Nat]
    /\ BANK_WEIGHT_PRECISION \in Nat \ {0} /\ PRICE_PRECISION \in Nat \ {0}
    /\ Prices \subseteq Nat
    /\ LIQUIDATOR_SHARE_DENOMINATOR \in Nat \ {0}
    /\ FEE_SHARE_DENOMINATOR \in Nat \ {0}
    /\ Amounts \subseteq Nat /\ Wallet \in [Users -> [Banks -> Nat]]
    /\ Pnls \subseteq Int /\ Fees \subseteq Nat
    /\ MaxTime \in Nat /\ MaxTrades \in Nat /\ MaxBalance \in Nat

VARIABLES
    bank,           \* bank |-> Bank
    bank_balances,  \* user |-> slot |-> UserBankBalance
    pnl_pool,       \* market |-> PNLPool.balance, in units of the quote bank
    unsettled_pnl,  \* user |-> market |-> signed token amount
    wallet,         \* user |-> bank |-> tokens outside the protocol
    vault,          \* bank |-> tokens in the bank vault
    insurance,      \* tokens in the insurance vault
    total_fee, total_fee_withdrawn,  \* market |-> trading fees, and those paid out
    exchange_paused,
    now,
    trades,         \* number of steps that realised pnl, at most MaxTrades
    pool_paid       \* history: units update_bank_balances took from pools

vars == <<bank, bank_balances, pnl_pool, unsettled_pnl, wallet, vault, insurance,
          total_fee, total_fee_withdrawn, exchange_paused, now, trades, pool_paid>>
tokens == <<wallet, vault, insurance>>
fees == <<total_fee, total_fee_withdrawn>>
env == <<exchange_paused, now>>

UserBankBalance == [bank_index : Banks, balance_type : BankBalanceType, balance : Nat]
EmptySlot == [bank_index |-> 0, balance_type |-> "Deposit", balance |-> 0]

Init ==
    /\ bank = [b \in Banks |-> InitBank(Precision[b])]
    /\ bank_balances = [u \in Users |-> [s \in Slots |-> EmptySlot]]
    /\ pnl_pool = [m \in Markets |-> 0]
    /\ unsettled_pnl = [u \in Users |-> [m \in Markets |-> 0]]
    /\ wallet = Wallet
    /\ vault = [b \in Banks |-> 0]
    /\ insurance = 0
    /\ total_fee = [m \in Markets |-> 0]
    /\ total_fee_withdrawn = [m \in Markets |-> 0]
    /\ exchange_paused = FALSE
    /\ now = 0
    /\ trades = 0
    /\ pool_paid = 0

-----------------------------------------------------------------------------
(* Slots.  Slot 0 is the quote bank; another bank has the first slot with  *)
(* its index, else takes over the first slot other than 0 whose index is 0 *)
(* (add_bank_balance); with none left the instruction aborts.              *)

(* Mutant: add_bank_balance may take the quote bank's slot.                *)
FreeSlots_AnySlot(slots) == {s \in Slots : slots[s].bank_index = 0}

FreeSlots(slots) == {s \in Slots \ {0} : slots[s].bank_index = 0}
SlotsOf(slots, b) == IF b = QUOTE THEN {0} ELSE {s \in Slots : slots[s].bank_index = b}

CanHold(u, b) == SlotsOf(bank_balances[u], b) # {} \/ FreeSlots(bank_balances[u]) # {}

SlotIndex(slots, b) ==
    IF SlotsOf(slots, b) # {} THEN Min(SlotsOf(slots, b)) ELSE Min(FreeSlots(slots))

HolderOf(slots, b) ==
    IF SlotsOf(slots, b) # {}
    THEN [balance_type |-> slots[SlotIndex(slots, b)].balance_type,
          balance |-> slots[SlotIndex(slots, b)].balance]
    ELSE [balance_type |-> "Deposit", balance |-> 0]

PutHolder(slots, b, holder) ==
    [slots EXCEPT ![SlotIndex(slots, b)] =
        [bank_index |-> b, balance_type |-> holder.balance_type, balance |-> holder.balance]]

user_holder(u, b) == HolderOf(bank_balances[u], b)

(* reduce_only clamps the amount to what the user has on the other side.   *)
clamped(amount, reduce_only, side, bk, holder) ==
    IF reduce_only /\ holder.balance_type = side
    THEN Min({amount, get_token_amount(holder.balance, bk, side)})
    ELSE amount

update_user(amount, direction, bk, holder) ==
    update_bank_balances(amount, direction, bk, holder, "UserBankBalance")

(* Rounding lets deposit_balance grow with the number of instructions.      *)
InBounds(bk) == bk.deposit_balance =< MaxBalance /\ bk.borrow_balance =< MaxBalance

update_pool(amount, direction, bk, m) ==
    update_bank_balances(amount, direction, bk,
        [balance_type |-> "Deposit", balance |-> pnl_pool[m]], "PNLPool")

-----------------------------------------------------------------------------
(* Margin of a user without base exposure: weighted deposits plus          *)
(* unsettled pnl, floored at zero, against weighted borrows.               *)

balance_value(slot, banks, price) ==
    (get_token_amount(slot.balance, banks[slot.bank_index], slot.balance_type)
        * price[slot.bank_index]) \div PRICE_PRECISION

weighted(slots, banks, price, side, weight) ==
    MapThenSumSet(LAMBDA s : IF slots[s].balance_type = side
                             THEN (balance_value(slots[s], banks, price)
                                      * weight[slots[s].bank_index]) \div BANK_WEIGHT_PRECISION
                             ELSE 0, Slots)

calculate_updated_collateral(collateral, pnl) ==
    IF collateral + pnl < 0 THEN 0 ELSE collateral + pnl

total_collateral(u, slots, banks, price, unrealized_pnl) ==
    calculate_updated_collateral(
        calculate_updated_collateral(
            weighted(slots, banks, price, "Deposit", AssetWeight), unrealized_pnl),
        MapThenSumSet(LAMBDA m : unsettled_pnl[u][m], Markets))

meets_initial_margin_requirement(u, slots, banks, price) ==
    total_collateral(u, slots, banks, price, 0)
        >= weighted(slots, banks, price, "Borrow", LiabilityWeight)

(* The oracle of the quote bank always answers one.                        *)
OraclePrices == {p \in [Banks -> Prices \cup {PRICE_PRECISION}] : p[QUOTE] = PRICE_PRECISION}

-----------------------------------------------------------------------------
(* Instructions of the users.                                              *)

deposit(u, b, ix_amount, reduce_only) ==
    /\ ix_amount # 0
    /\ CanHold(u, b)
    /\ LET bk == update_bank_cumulative_interest(bank[b], now)
           holder == user_holder(u, b)
           amount == clamped(ix_amount, reduce_only, "Borrow", bk, holder)
           r == update_user(amount, "Deposit", bk, holder)
       IN /\ r.ok /\ InBounds(r.bank)
          /\ wallet[u][b] >= amount
          /\ bank' = [bank EXCEPT ![b] = r.bank]
          /\ bank_balances' = [bank_balances EXCEPT ![u] = PutHolder(@, b, r.holder)]
          /\ wallet' = [wallet EXCEPT ![u][b] = @ - amount]
          /\ vault' = [vault EXCEPT ![b] = @ + amount]
    /\ UNCHANGED <<pnl_pool, unsettled_pnl, insurance, fees, env, trades, pool_paid>>

withdraw(u, b, ix_amount, reduce_only, price) ==
    /\ ~ exchange_paused
    /\ CanHold(u, b)
    /\ LET bk == update_bank_cumulative_interest(bank[b], now)
           holder == user_holder(u, b)
           amount == clamped(ix_amount, reduce_only, "Deposit", bk, holder)
           r == update_user(amount, "Borrow", bk, holder)
           slots == PutHolder(bank_balances[u], b, r.holder)
       IN /\ r.ok /\ InBounds(r.bank)
          /\ bank' = [bank EXCEPT ![b] = r.bank]
          /\ meets_initial_margin_requirement(u, slots, bank', price)
          /\ vault[b] >= amount
          /\ bank_balances' = [bank_balances EXCEPT ![u] = slots]
          /\ vault' = [vault EXCEPT ![b] = @ - amount]
          /\ wallet' = [wallet EXCEPT ![u][b] = @ + amount]
    /\ UNCHANGED <<pnl_pool, unsettled_pnl, insurance, fees, env, trades, pool_paid>>

(* Between two accounts of one authority.  The bank is still mutably       *)
(* borrowed while the margin check loads the banks of from's nonzero       *)
(* balances, so the check aborts unless from's balance in b is now zero.   *)
transfer_deposit(from, to, b, amount, price) ==
    /\ from # to
    /\ CanHold(from, b) /\ CanHold(to, b)
    /\ LET bk == update_bank_cumulative_interest(bank[b], now)
           r1 == update_user(amount, "Borrow", bk, user_holder(from, b))
           slots == PutHolder(bank_balances[from], b, r1.holder)
           r2 == update_user(amount, "Deposit", r1.bank, user_holder(to, b))
       IN /\ r1.ok /\ r2.ok /\ InBounds(r2.bank)
          /\ r1.holder.balance = 0
          /\ meets_initial_margin_requirement(from, slots, [bank EXCEPT ![b] = r1.bank], price)
          /\ bank' = [bank EXCEPT ![b] = r2.bank]
          /\ bank_balances' = [bank_balances EXCEPT ![from] = slots,
                                                    ![to] = PutHolder(@, b, r2.holder)]
    /\ UNCHANGED <<pnl_pool, unsettled_pnl, tokens, fees, env, trades, pool_paid>>

accrue_interest(b) ==      \* the permissionless update_bank_cumulative_interest
    /\ bank' = [bank EXCEPT ![b] = update_bank_cumulative_interest(@, now)]
    /\ UNCHANGED <<bank_balances, pnl_pool, unsettled_pnl, tokens, fees, env, trades, pool_paid>>

(* Interest is not brought up to date here.  Positive pnl is settled by    *)
(* its owner, up to what the pool holds; negative pnl by anyone, in full.  *)
settle_positive_pnl(u, m) ==
    /\ ~ exchange_paused
    /\ unsettled_pnl[u][m] > 0
    /\ LET pool_tokens == get_token_amount(pnl_pool[m], bank[QUOTE], "Deposit")
           amount == Min({unsettled_pnl[u][m], pool_tokens})
           r1 == update_user(amount, "Deposit", bank[QUOTE], user_holder(u, QUOTE))
           r2 == update_pool(amount, "Borrow", r1.bank, m)
       IN /\ pool_tokens # 0
          /\ r1.ok /\ r2.ok
          /\ bank' = [bank EXCEPT ![QUOTE] = r2.bank]
          /\ bank_balances' = [bank_balances EXCEPT ![u] = PutHolder(@, QUOTE, r1.holder)]
          /\ pnl_pool' = [pnl_pool EXCEPT ![m] = r2.holder.balance]
          /\ pool_paid' = pool_paid + (r1.bank.deposit_balance - r2.bank.deposit_balance)
          /\ unsettled_pnl' = [unsettled_pnl EXCEPT ![u][m] = @ - amount]
    /\ UNCHANGED <<tokens, fees, env, trades>>

settle_negative_pnl(u, m) ==
    /\ ~ exchange_paused
    /\ unsettled_pnl[u][m] < 0
    /\ LET amount == - unsettled_pnl[u][m]
           r1 == update_pool(amount, "Deposit", bank[QUOTE], m)
           r2 == update_user(amount, "Borrow", r1.bank, user_holder(u, QUOTE))
       IN /\ r1.ok /\ r2.ok
          /\ bank' = [bank EXCEPT ![QUOTE] = r2.bank]
          /\ bank_balances' = [bank_balances EXCEPT ![u] = PutHolder(@, QUOTE, r2.holder)]
          /\ pnl_pool' = [pnl_pool EXCEPT ![m] = r1.holder.balance]
          /\ unsettled_pnl' = [unsettled_pnl EXCEPT ![u][m] = 0]
    /\ UNCHANGED <<tokens, fees, env, trades, pool_paid>>

-----------------------------------------------------------------------------
(* Liquidation, as far as money moves: the positions of u are closed with  *)
(* some pnl, a fee of at most u's collateral is charged, part of it goes   *)
(* to the liquidator's quote balance (before u is debited) and the rest    *)
(* leaves the bank vault for the insurance vault.  A user who has borrowed *)
(* from any bank makes calculate_liquidation_status panic.                 *)
liquidate(u, liquidator, m, pnl, liquidation_fee, price) ==
    LET to_liquidator == liquidation_fee \div LIQUIDATOR_SHARE_DENOMINATOR
        to_insurance == liquidation_fee - to_liquidator
        r1 == update_user(to_liquidator, "Deposit", bank[QUOTE], user_holder(liquidator, QUOTE))
        bk == IF to_liquidator > 0 THEN r1.bank ELSE bank[QUOTE]
        credited == IF to_liquidator > 0
                    THEN [bank_balances EXCEPT ![liquidator] = PutHolder(@, QUOTE, r1.holder)]
                    ELSE bank_balances
        r2 == update_user(liquidation_fee, "Borrow", bk, HolderOf(credited[u], QUOTE))
    IN /\ ~ exchange_paused
       /\ \A s \in Slots : bank_balances[u][s].balance # 0
                              => bank_balances[u][s].balance_type = "Deposit"
       /\ liquidation_fee =< total_collateral(u, bank_balances[u], bank, price, pnl)
       /\ trades < MaxTrades
       /\ r1.ok /\ r2.ok
       /\ vault[QUOTE] >= to_insurance
       /\ bank' = [bank EXCEPT ![QUOTE] = r2.bank]
       /\ bank_balances' = [credited EXCEPT ![u] = PutHolder(@, QUOTE, r2.holder)]
       /\ unsettled_pnl' = [unsettled_pnl EXCEPT ![u][m] = @ + pnl]
       /\ vault' = [vault EXCEPT ![QUOTE] = @ - to_insurance]
       /\ insurance' = insurance + to_insurance
       /\ trades' = trades + 1
       /\ UNCHANGED <<pnl_pool, wallet, fees, env, pool_paid>>

(* Trading, as far as this component sees it: pnl is realised into         *)
(* unsettled_pnl and a fee, charged to unsettled_pnl, is added to the      *)
(* market's total.                                                         *)
RealizePnl(u, m, pnl, fee) ==
    /\ ~ exchange_paused
    /\ trades < MaxTrades
    /\ unsettled_pnl' = [unsettled_pnl EXCEPT ![u][m] = @ + pnl - fee]
    /\ total_fee' = [total_fee EXCEPT ![m] = @ + fee]
    /\ trades' = trades + 1
    /\ UNCHANGED <<bank, bank_balances, pnl_pool, tokens, total_fee_withdrawn, env, pool_paid>>

-----------------------------------------------------------------------------
(* Instructions of the admin.                                              *)

(* Tokens leave the bank vault; no balance of the bank changes.            *)
withdraw_fees(m, amount) ==
    /\ amount =< (total_fee[m] \div FEE_SHARE_DENOMINATOR) - total_fee_withdrawn[m]
    /\ vault[QUOTE] >= amount
    /\ vault' = [vault EXCEPT ![QUOTE] = @ - amount]
    /\ total_fee_withdrawn' = [total_fee_withdrawn EXCEPT ![m] = @ + amount]
    /\ UNCHANGED <<bank, bank_balances, pnl_pool, unsettled_pnl, wallet, insurance, total_fee,
                   env, trades, pool_paid>>

withdraw_from_insurance_vault(amount) ==
    /\ insurance >= amount
    /\ insurance' = insurance - amount
    /\ UNCHANGED <<bank, bank_balances, pnl_pool, unsettled_pnl, wallet, vault, fees, env, trades,
                   pool_paid>>

(* The market's total_fee_minus_distributions, which the amount is added   *)
(* to, is not part of the ledger.                                          *)
withdraw_from_insurance_vault_to_market(amount) ==
    /\ insurance >= amount
    /\ insurance' = insurance - amount
    /\ vault' = [vault EXCEPT ![QUOTE] = @ + amount]
    /\ UNCHANGED <<bank, bank_balances, pnl_pool, unsettled_pnl, wallet, fees, env, trades, pool_paid>>

update_exchange_paused ==
    /\ exchange_paused' = ~ exchange_paused
    /\ UNCHANGED <<bank, bank_balances, pnl_pool, unsettled_pnl, tokens, fees, now, trades, pool_paid>>

Tick ==
    /\ now < MaxTime
    /\ now' = now + 1
    /\ UNCHANGED <<bank, bank_balances, pnl_pool, unsettled_pnl, tokens, fees, exchange_paused,
                   trades, pool_paid>>

Next ==
    \/ \E u \in Users, b \in Banks, a \in Amounts, r \in BOOLEAN :
         \/ deposit(u, b, a, r)
         \/ \E p \in OraclePrices : withdraw(u, b, a, r, p)
    \/ \E u, v \in Users, b \in Banks, a \in Amounts, p \in OraclePrices :
         transfer_deposit(u, v, b, a, p)
    \/ \E b \in Banks : accrue_interest(b)
    \/ \E u \in Users, m \in Markets : settle_positive_pnl(u, m) \/ settle_negative_pnl(u, m)
    \/ \E u, v \in Users, m \in Markets, d \in Pnls, f \in Amounts,
          p \in OraclePrices : liquidate(u, v, m, d, f, p)
    \/ \E u \in Users, m \in Markets, d \in Pnls, f \in Fees :
         RealizePnl(u, m, d, f)
    \/ \E m \in Markets, a \in Amounts : withdraw_fees(m, a)
    \/ \E a \in Amounts : \/ withdraw_from_insurance_vault(a)
                          \/ withdraw_from_insurance_vault_to_market(a)
    \/ update_exchange_paused
    \/ Tick

Spec == Init /\ [][Next]_vars

-----------------------------------------------------------------------------
(* Every bank a user has money in is found again by its index: slot 0 is   *)
(* the quote bank's, no other bank has two slots, and a slot that still    *)
(* looks free (index 0, not slot 0) holds nothing that add_bank_balance    *)
(* would wipe out.                                                         *)
SlotsAddressable ==
    \A u \in Users :
        /\ bank_balances[u][0].bank_index = QUOTE
        /\ \A s \in Slots \ {0} :
              /\ bank_balances[u][s].bank_index = QUOTE => bank_balances[u][s].balance = 0
              /\ \A t \in Slots \ {0, s} :
                    bank_balances[u][s].bank_index = bank_balances[u][t].bank_index
                        => bank_balances[u][s].bank_index = QUOTE

Held(slots, b, side) ==
    SumFunction([s \in Slots |-> IF slots[s].bank_index = b /\ slots[s].balance_type = side
                                 THEN slots[s].balance ELSE 0])

HeldBalance(b, side) == SumFunction([u \in Users |-> Held(bank_balances[u], b, side)])

PoolBalance(b) == IF b = QUOTE THEN SumFunction(pnl_pool) ELSE 0

(* The totals of a bank are exactly what its holders hold, up to the units *)
(* its pnl pools paid out: PNLPool::decrease_balance adds what it should   *)
(* take, so each of those is counted in the pool twice too often.          *)
BankTotalsAccounted ==
    \A b \in Banks :
        /\ bank[b].borrow_balance = HeldBalance(b, "Borrow")
        /\ bank[b].deposit_balance =
              HeldBalance(b, "Deposit") + PoolBalance(b) - (IF b = QUOTE THEN 2 * pool_paid ELSE 0)

(* What the trait says decrease_balance does: a bank's totals are the sum  *)
(* of what its holders hold.                                               *)
BankTotalsMatchHolders ==
    \A b \in Banks :
        /\ bank[b].borrow_balance = HeldBalance(b, "Borrow")
        /\ bank[b].deposit_balance = HeldBalance(b, "Deposit") + PoolBalance(b)

(* Claims on the vault of b, in units of 1/precision token.                *)
Claims(bk) == bk.deposit_balance * bk.cumulative_deposit_interest
              - bk.borrow_balance * bk.cumulative_borrow_interest

Backing(b) == (vault[b] + (IF b = QUOTE
                           THEN SumFunction(total_fee_withdrawn)
                           ELSE 0)) * bank[b].precision

(* Rounding: an instruction can leave a vault short of what is owed out of *)
(* it by less than one unit of each side; nothing else creates claims      *)
(* without tokens.                                                         *)
RoundingLossBounded ==
    [][\A b \in Banks :
          (Backing(b)' - Claims(bank'[b])) - (Backing(b) - Claims(bank[b]))
              > - (bank'[b].cumulative_deposit_interest + bank'[b].cumulative_borrow_interest)]_vars

=============================================================================
