------------------------------ MODULE BankMath ------------------------------
(***************************************************************************)
(* The arithmetic of a bank (math/bank_balance.rs) and the one routine     *)
(* through which every deposit, borrow, fee and pnl settlement moves a     *)
(* balance (controller/bank_balance.rs).                                   *)
(*                                                                         *)
(* A bank keeps two totals of "balance" units.  A unit of deposit balance  *)
(* is worth cumulative_deposit_interest / precision tokens, a unit of      *)
(* borrow balance cumulative_borrow_interest / precision tokens, where     *)
(* precision is 10^(16 - decimals).  Every checked operation of the code   *)
(* aborts the instruction; here a routine that can abort returns a record  *)
(* whose field ok says whether it went through.                            *)
(***************************************************************************)
EXTENDS Integers

CONSTANTS
    BANK_CUMULATIVE_INTEREST_PRECISION, \* both interest indices start here
    BANK_UTILIZATION_PRECISION,
    BANK_INTEREST_PRECISION,
    ONE_YEAR,
    OPTIMAL_UTILIZATION,                \* kink of the borrow-rate curve
    OPTIMAL_BORROW_RATE,                \* rate at the kink
    MAX_BORROW_RATE                     \* rate at full utilization

(* initialize_bank stores the two rates unchecked; a configuration in      *)
(* which the curve is not increasing, or its kink is at either end, makes  *)
(* the checked arithmetic below abort.                                     *)
ASSUME InterestAssumption ==
    /\ BANK_CUMULATIVE_INTEREST_PRECISION \in Nat \ {0}
    /\ BANK_UTILIZATION_PRECISION \in Nat \ {0}
    /\ BANK_INTEREST_PRECISION \in Nat \ {0}
    /\ ONE_YEAR \in Nat \ {0}
    /\ OPTIMAL_UTILIZATION \in 1 .. BANK_UTILIZATION_PRECISION - 1
    /\ OPTIMAL_BORROW_RATE \in Nat
    /\ MAX_BORROW_RATE \in Nat
    /\ OPTIMAL_BORROW_RATE =< MAX_BORROW_RATE

BankBalanceType == {"Deposit", "Borrow"}

(* precision is 10^(16 - decimals): initialize_bank wants decimals >= 6,   *)
(* which makes it at most BANK_CUMULATIVE_INTEREST_PRECISION.              *)
Precisions == 1 .. BANK_CUMULATIVE_INTEREST_PRECISION

Bank == [precision : Precisions,
         deposit_balance : Nat,
         borrow_balance : Nat,
         cumulative_deposit_interest : Nat,
         cumulative_borrow_interest : Nat,
         last_updated : Nat]

InitBank(precision) ==
    [precision |-> precision,
     deposit_balance |-> 0,
     borrow_balance |-> 0,
     cumulative_deposit_interest |-> BANK_CUMULATIVE_INTEREST_PRECISION,
     cumulative_borrow_interest |-> BANK_CUMULATIVE_INTEREST_PRECISION,
     last_updated |-> 0]

cumulative_interest(bank, balance_type) ==
    IF balance_type = "Deposit" THEN bank.cumulative_deposit_interest
                                ELSE bank.cumulative_borrow_interest

get_bank_balance(token_amount, bank, balance_type) ==
    LET balance == (token_amount * bank.precision)
                       \div cumulative_interest(bank, balance_type)
    IN IF balance # 0 /\ balance_type = "Borrow" THEN balance + 1 ELSE balance

get_token_amount(balance, bank, balance_type) ==
    (balance * cumulative_interest(bank, balance_type)) \div bank.precision

deposit_tokens(bank) == get_token_amount(bank.deposit_balance, bank, "Deposit")
borrow_tokens(bank)  == get_token_amount(bank.borrow_balance, bank, "Borrow")

(***************************************************************************)
(* Interest: a kinked borrow rate in the utilization, charged for the time *)
(* since last_updated; depositors get the borrow rate times the            *)
(* utilization.                                                            *)
(***************************************************************************)
utilization(bank) ==
    LET d == deposit_tokens(bank)
        b == borrow_tokens(bank)
    IN IF d # 0 THEN (b * BANK_UTILIZATION_PRECISION) \div d
       ELSE IF b = 0 THEN 0 ELSE BANK_UTILIZATION_PRECISION

borrow_rate(util) ==
    IF util > OPTIMAL_UTILIZATION
    THEN LET slope == ((MAX_BORROW_RATE - OPTIMAL_BORROW_RATE) * BANK_UTILIZATION_PRECISION)
                          \div (BANK_UTILIZATION_PRECISION - OPTIMAL_UTILIZATION)
         IN OPTIMAL_BORROW_RATE
            + ((util - OPTIMAL_UTILIZATION) * slope) \div BANK_UTILIZATION_PRECISION
    ELSE LET slope == (OPTIMAL_BORROW_RATE * BANK_UTILIZATION_PRECISION)
                          \div OPTIMAL_UTILIZATION
         IN (util * slope) \div BANK_UTILIZATION_PRECISION

calculate_accumulated_interest(bank, now) ==
    LET util == utilization(bank)
        modified_borrow_rate == borrow_rate(util) * (now - bank.last_updated)
        modified_deposit_rate == (modified_borrow_rate * util) \div BANK_UTILIZATION_PRECISION
        over(cum, rate) == ((cum * rate) \div ONE_YEAR) \div BANK_INTEREST_PRECISION
    IN IF util = 0 THEN [deposit_interest |-> 0, borrow_interest |-> 0]
       ELSE [deposit_interest |-> over(bank.cumulative_deposit_interest, modified_deposit_rate),
             borrow_interest |-> over(bank.cumulative_borrow_interest, modified_borrow_rate) + 1]

(* Small accruals are not applied and last_updated then stays put, so the  *)
(* time keeps accumulating until both sides receive something.             *)
update_bank_cumulative_interest(bank, now) ==
    LET interest == calculate_accumulated_interest(bank, now)
    IN IF interest.deposit_interest > 0 /\ interest.borrow_interest > 1
       THEN [bank EXCEPT !.cumulative_deposit_interest = @ + interest.deposit_interest,
                         !.cumulative_borrow_interest = @ + interest.borrow_interest,
                         !.last_updated = now]
       ELSE bank

(***************************************************************************)
(* Holders of a balance implement the trait BankBalance: a user's          *)
(* UserBankBalance, which may be on either side of the bank, and a         *)
(* market's PNLPool, which is always a deposit.                            *)
(***************************************************************************)
Impl == {"UserBankBalance", "PNLPool"}

Holder == [balance_type : BankBalanceType, balance : Nat]

increase_balance(holder, delta) == [holder EXCEPT !.balance = @ + delta]

(* The pool's decrease_balance adds its argument.                          *)
decrease_balance(holder, delta, impl) ==
    IF impl = "PNLPool" THEN [holder EXCEPT !.balance = @ + delta]
                        ELSE [holder EXCEPT !.balance = @ - delta]

(* Mutant: the borrow total of the bank is forgotten.                      *)
move_bank_balance_DepositsOnly(bank, balance_type, delta) ==
    IF balance_type = "Deposit" THEN [bank EXCEPT !.deposit_balance = @ + delta] ELSE bank

move_bank_balance(bank, balance_type, delta) ==
    IF balance_type = "Deposit" THEN [bank EXCEPT !.deposit_balance = @ + delta]
                                ELSE [bank EXCEPT !.borrow_balance = @ + delta]

Add(bank, holder, balance_type, delta) ==
    [bank |-> move_bank_balance(bank, balance_type, delta),
     holder |-> increase_balance(holder, delta)]

(* Mutant: what the holder had on the other side is not deducted.          *)
reduction_Undeducted(token_amount, bank, holder) ==
    LET current == get_token_amount(holder.balance, bank, holder.balance_type)
    IN IF current > token_amount
       THEN [tokens |-> 0,
             balance |-> get_bank_balance(token_amount, bank, holder.balance_type)]
       ELSE [tokens |-> 0, balance |-> holder.balance]

(***************************************************************************)
(* update_bank_balances moves token_amount in the given direction: first   *)
(* against a balance the holder has on the other side, then, with what is  *)
(* left, onto the requested side.                                          *)
(***************************************************************************)
reduction(token_amount, bank, holder) ==
    LET current == get_token_amount(holder.balance, bank, holder.balance_type)
    IN IF current > token_amount
       THEN [tokens |-> token_amount,
             balance |-> get_bank_balance(token_amount, bank, holder.balance_type)]
       ELSE IF current # 0 THEN [tokens |-> current, balance |-> holder.balance]
            ELSE [tokens |-> 0, balance |-> 0]

update_bank_balances(token_amount, direction, bank, holder, impl) ==
    LET same_side == direction = holder.balance_type
        less == reduction(token_amount, bank, holder)
        rest == token_amount - less.tokens
        reduced == [bank |-> move_bank_balance(bank, holder.balance_type, - less.balance),
                    holder |-> decrease_balance(holder, less.balance, impl)]
        result == IF same_side
                  THEN Add(bank, holder, direction,
                           get_bank_balance(token_amount, bank, direction))
                  ELSE IF rest = 0 THEN reduced
                  ELSE Add(reduced.bank, [reduced.holder EXCEPT !.balance_type = direction],
                           direction, get_bank_balance(rest, bank, direction))
    IN [ok |-> /\ \/ same_side
                  \/ /\ reduced.bank.deposit_balance >= 0
                     /\ reduced.bank.borrow_balance >= 0
                     /\ reduced.holder.balance >= 0
                     /\ impl = "PNLPool" => rest = 0   \* CantUpdatePNLPoolBalanceType
               /\ direction = "Borrow" =>              \* BankInsufficientDeposits
                     deposit_tokens(result.bank) >= borrow_tokens(result.bank),
        bank |-> result.bank,
        holder |-> result.holder]

=============================================================================
