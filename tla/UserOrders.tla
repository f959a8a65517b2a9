----------------------------- MODULE UserOrders -----------------------------
(***************************************************************************)
(* A user account's order book and position slots (state/user.rs) and the  *)
(* instructions that change them: placing, filling and cancelling orders,  *)
(* trading without an order, liquidation and settlement.                   *)
(*                                                                         *)
(* Prices, margins and oracles are left out, so how much of an order the   *)
(* market and the user's margin can execute is any amount, whether a       *)
(* payment leaves unsettled pnl at zero is either answer, and a refusal    *)
(* that depends on them is the instruction not happening.  Of              *)
(* unsettled_pnl only whether it is nonzero is kept: that is all the slot  *)
(* rules look at.  Limit stands for the three order types that are not     *)
(* Market: they differ in when they execute, not in how.                   *)
(***************************************************************************)
EXTENDS Integers, FiniteSetsExt

CONSTANTS
    Users, Markets,
    NumPositions,   \* UserPositions: 5 in the code
    NumOrders,      \* User.orders: 32 in the code
    Params,         \* the orders a user may ask for
    MinSizes,       \* values the admin gives minimum_base_asset_trade_size
    MaxBase,        \* bound on the size of a position
    MaxOrderId      \* bound on the number of orders a user places; the id
                    \* counter of the code wraps after 2^64 - 1

PositionSlots == 0 .. NumPositions - 1
OrderSlots == 0 .. NumOrders - 1
Direction == {"Long", "Short"}

OrderParams == [market_index : Markets,
                order_type : {"Market", "Limit"},
                direction : Direction,
                base_asset_amount : Nat,     \* 0: a market order sized in quote
                reduce_only : BOOLEAN,
                immediate_or_cancel : BOOLEAN,
                user_order_id : Nat]

ASSUME OrdersAssumption ==
    /\ Markets # {}
    /\ NumPositions \in Nat \ {0} /\ NumOrders \in Nat \ {0}
    /\ Params \subseteq OrderParams
    /\ MinSizes \subseteq Nat \ {0} /\ MinSizes # {}
    /\ MaxBase \in Nat /\ MaxOrderId \in Nat

VARIABLES
    user,                           \* user |-> positions, orders, next_order_id
    minimum_base_asset_trade_size,  \* of each market
    exchange_paused

vars == <<user, minimum_base_asset_trade_size, exchange_paused>>

MarketPosition == [market_index : Markets,
                   base_asset_amount : Int,
                   open_orders : Nat,
                   has_unsettled_pnl : BOOLEAN]

NewPosition(m) == [market_index |-> m, base_asset_amount |-> 0, open_orders |-> 0,
                   has_unsettled_pnl |-> FALSE]

SomeMarket == CHOOSE m \in Markets : TRUE    \* market 0, what zeroed memory says

Order == [status : {"Init", "Open"},
          order_type : {"Market", "Limit"},
          order_id : Nat,
          user_order_id : Nat,
          market_index : Markets,
          direction : Direction,
          base_asset_amount : Nat,
          base_asset_amount_filled : Nat,
          reduce_only : BOOLEAN,
          immediate_or_cancel : BOOLEAN]

DefaultOrder == [status |-> "Init", order_type |-> "Limit", order_id |-> 0,
                 user_order_id |-> 0, market_index |-> SomeMarket, direction |-> "Long",
                 base_asset_amount |-> 0, base_asset_amount_filled |-> 0,
                 reduce_only |-> FALSE, immediate_or_cancel |-> FALSE]

User == [positions : [PositionSlots -> MarketPosition],
         orders : [OrderSlots -> Order],
         next_order_id : Nat]

InitUser == [positions |-> [i \in PositionSlots |-> NewPosition(SomeMarket)],
             orders |-> [i \in OrderSlots |-> DefaultOrder],
             next_order_id |-> 1]

Init ==
    /\ user = [u \in Users |-> InitUser]
    /\ minimum_base_asset_trade_size \in [Markets -> MinSizes]
    /\ exchange_paused = FALSE

-----------------------------------------------------------------------------
(* Position slots.  A slot belongs to its market while it has base, open   *)
(* orders or unsettled pnl; otherwise the next market that needs a slot    *)
(* may take it over.                                                       *)

is_available(p) == p.base_asset_amount = 0 /\ p.open_orders = 0 /\ ~ p.has_unsettled_pnl

(* Mutant: a slot that only has unsettled pnl is not found.                *)
is_for_IgnoresPnl(p, m) ==
    p.market_index = m /\ (p.base_asset_amount # 0 \/ p.open_orders # 0)

is_for(p, m) == p.market_index = m /\ ~ is_available(p)

SlotsFor(positions, m) == {i \in PositionSlots : is_for(positions[i], m)}
FreeSlots(positions) == {i \in PositionSlots : is_available(positions[i])}

get_position_index(positions, m) == Min(SlotsFor(positions, m))
HasRoom(positions, m) == SlotsFor(positions, m) # {} \/ FreeSlots(positions) # {}

(* get_position_index, or else add_new_position                            *)
slot_index(positions, m) == IF SlotsFor(positions, m) # {}
                            THEN get_position_index(positions, m)
                            ELSE Min(FreeSlots(positions))

add_new_position(positions, m) ==
    IF SlotsFor(positions, m) # {} THEN positions
    ELSE [positions EXCEPT ![slot_index(positions, m)] = NewPosition(m)]

(* What settle_funding_payment may make of the positions.                  *)
settle_funding(positions) ==
    {[i \in PositionSlots |->
        IF positions[i].base_asset_amount = 0 THEN positions[i]
        ELSE [positions[i] EXCEPT !.has_unsettled_pnl = unsettled[i]]]
     : unsettled \in [PositionSlots -> BOOLEAN]}

-----------------------------------------------------------------------------
(* Trades.                                                                 *)

Signed(direction, amount) == IF direction = "Long" THEN amount ELSE - amount
Size(base) == IF base < 0 THEN - base ELSE base
Reduces(direction, base) == IF direction = "Long" THEN base < 0 ELSE base > 0

(* A trade of this amount; unsettled says what pnl and fee leave.          *)
trade(p, direction, amount, unsettled) ==
    [p EXCEPT !.base_asset_amount = @ + Signed(direction, amount),
              !.has_unsettled_pnl = unsettled]

InBounds(p, direction, amount) ==
    Size(p.base_asset_amount + Signed(direction, amount)) =< MaxBase

left_to_fill(order) == order.base_asset_amount - order.base_asset_amount_filled

(* Mutant: not cut to the size of the position.                            *)
reduce_only_amount_Uncut(amount, direction, base) ==
    IF Reduces(direction, base) THEN amount ELSE 0

(* Most a reduce-only order may trade against this position.               *)
reduce_only_amount(amount, direction, base) ==
    IF Reduces(direction, base) THEN Min({amount, Size(base)}) ELSE 0

(* Mutant: a remainder below the minimum is left.                          *)
execute_non_market_order_Unrounded(order, base, min) ==
    min .. IF order.reduce_only
           THEN reduce_only_amount(left_to_fill(order), order.direction, base)
           ELSE left_to_fill(order)

(* What execute_non_market_order can fill: a size the market and the user  *)
(* can both execute, made up to all that is left when it would leave less  *)
(* than the minimum.  That may take a reduce-only order past its position, *)
(* which passes as reduce-only only if the excess costs no quote at all:   *)
(* going long always costs at least one.                                   *)
execute_non_market_order(order, base, min) ==
    LET left == left_to_fill(order)
        executable == IF order.reduce_only
                      THEN reduce_only_amount(left, order.direction, base) ELSE left
        rounded == {IF left - x < min THEN left ELSE x : x \in min .. executable}
    IN {x \in rounded : \/ ~ order.reduce_only
                        \/ x =< Size(base)
                        \/ order.direction = "Short"}

(* What execute_market_order can trade: the size asked for, cut to the     *)
(* position if reduce-only, or whatever its quote amount buys.  With a     *)
(* spread the latter may be a little more than the position                *)
(* (ReduceNeverReverses of PerpMarket); not so here.                       *)
execute_market_order(order, base, min) ==
    IF order.base_asset_amount > 0
    THEN {x \in {IF order.reduce_only
                 THEN reduce_only_amount(order.base_asset_amount, order.direction, base)
                 ELSE order.base_asset_amount} : x >= min}
    ELSE {x \in min .. MaxBase + Size(base) :
              order.reduce_only => Reduces(order.direction, base) /\ x =< Size(base)}

execute_order(order, base, min) ==
    IF order.order_type = "Market" THEN execute_market_order(order, base, min)
                                   ELSE execute_non_market_order(order, base, min)

-----------------------------------------------------------------------------
(* Orders, on one user's account q.                                        *)

InitSlots(q) == {i \in OrderSlots : q.orders[i].status = "Init"}

(* A reduce-only order within the minimum size of the position it reduces  *)
(* becomes an order for exactly that position.                             *)
get_base_asset_amount_for_order(params, base, min) ==
    IF /\ params.reduce_only
       /\ params.base_asset_amount # 0
       /\ Reduces(params.direction, base)
       /\ Size(Size(base) - params.base_asset_amount) =< min
    THEN Size(base) ELSE params.base_asset_amount

validate_order(order, min) ==
    IF order.order_type = "Market"
    THEN /\ ~ order.immediate_or_cancel
         /\ order.base_asset_amount > 0 => order.base_asset_amount >= min
    ELSE order.base_asset_amount >= min

NewOrder(q, params, min) ==
    LET positions == add_new_position(q.positions, params.market_index)
        base == positions[slot_index(q.positions, params.market_index)].base_asset_amount
    IN [status |-> "Open",
        order_type |-> params.order_type,
        order_id |-> q.next_order_id,
        user_order_id |-> params.user_order_id,
        market_index |-> params.market_index,
        direction |-> params.direction,
        base_asset_amount |-> get_base_asset_amount_for_order(params, base, min),
        base_asset_amount_filled |-> 0,
        reduce_only |-> params.reduce_only,
        immediate_or_cancel |-> params.immediate_or_cancel]

CanPlace(q, params, min) ==
    /\ InitSlots(q) # {}
    /\ params.user_order_id > 0 =>
          \A i \in OrderSlots : q.orders[i].user_order_id # params.user_order_id
    /\ HasRoom(q.positions, params.market_index)
    /\ validate_order(NewOrder(q, params, min), min)
    /\ q.next_order_id =< MaxOrderId

(* Mutant: the order is not counted in its position.                       *)
place_Uncounted(q, params, min) ==
    [q EXCEPT !.positions = add_new_position(q.positions, params.market_index),
              !.orders[Min(InitSlots(q))] = NewOrder(q, params, min),
              !.next_order_id = @ + 1]

(* Mutant: the id counter does not move on.                                *)
place_SameId(q, params, min) ==
    [q EXCEPT !.positions = [add_new_position(q.positions, params.market_index) EXCEPT
                  ![slot_index(q.positions, params.market_index)].open_orders = @ + 1],
              !.orders[Min(InitSlots(q))] = NewOrder(q, params, min)]

place(q, params, min) ==
    [q EXCEPT !.positions = [add_new_position(q.positions, params.market_index) EXCEPT
                  ![slot_index(q.positions, params.market_index)].open_orders = @ + 1],
              !.orders[Min(InitSlots(q))] = NewOrder(q, params, min),
              !.next_order_id = @ + 1]

CanCancel(q, i) ==
    /\ q.orders[i].status = "Open"
    /\ SlotsFor(q.positions, q.orders[i].market_index) # {}

(* Mutant: the position still counts the order.                            *)
remove_order_StillCounted(q, i) == [q EXCEPT !.orders[i] = DefaultOrder]

(* Taking an order out of the book, once cancelled or filled.              *)
remove_order(q, i) ==
    [q EXCEPT !.positions[get_position_index(q.positions, q.orders[i].market_index)].open_orders
                  = @ - 1,
              !.orders[i] = DefaultOrder]

(* fill_order after funding is settled, for an amount execute_order gives. *)
CanFill(q, i, amount, min) ==
    /\ q.orders[i].status = "Open"
    /\ SlotsFor(q.positions, q.orders[i].market_index) # {}
    /\ LET p == q.positions[get_position_index(q.positions, q.orders[i].market_index)]
       IN /\ amount \in execute_order(q.orders[i], p.base_asset_amount, min)
          /\ InBounds(p, q.orders[i].direction, amount)

(* Mutant: a market order that traded less than its size stays.            *)
fill_KeepsMarket(q, i, amount, unsettled) ==
    LET order == q.orders[i]
        traded == [q EXCEPT
            !.positions[get_position_index(q.positions, order.market_index)]
                = trade(@, order.direction, amount, unsettled),
            !.orders[i].base_asset_amount_filled = @ + amount]
    IN IF left_to_fill(order) = amount THEN remove_order(traded, i) ELSE traded

fill(q, i, amount, unsettled) ==
    LET order == q.orders[i]
        traded == [q EXCEPT
            !.positions[get_position_index(q.positions, order.market_index)]
                = trade(@, order.direction, amount, unsettled),
            !.orders[i].base_asset_amount_filled = @ + amount]
    IN IF left_to_fill(order) = amount \/ order.order_type = "Market"
       THEN remove_order(traded, i) ELSE traded

(* The reward a filler other than the user gets is unsettled pnl in that   *)
(* market, for which the filler may need a new slot.                       *)
reward(q, m, unsettled) ==
    [q EXCEPT !.positions = [add_new_position(q.positions, m) EXCEPT
                  ![slot_index(q.positions, m)].has_unsettled_pnl = unsettled]]

-----------------------------------------------------------------------------
(* Instructions.  Account is a user's account once funding is settled, the *)
(* first thing every one of them does.                                     *)

Accounts(u) == {[user[u] EXCEPT !.positions = positions]
                : positions \in settle_funding(user[u].positions)}
MinSize(m) == minimum_base_asset_trade_size[m]

place_order(u, params) ==
    /\ params.order_type # "Market" /\ ~ params.immediate_or_cancel
    /\ \E q \in Accounts(u) :
          /\ CanPlace(q, params, MinSize(params.market_index))
          /\ user' = [user EXCEPT ![u] = place(q, params, MinSize(params.market_index))]
    /\ UNCHANGED <<minimum_base_asset_trade_size, exchange_paused>>

cancel_order_by_order_id(u, order_id) ==
    /\ \E q \in Accounts(u) :
          LET found == {i \in OrderSlots : q.orders[i].order_id = order_id}
          IN /\ found # {}
             /\ CanCancel(q, Min(found))
             /\ user' = [user EXCEPT ![u] = remove_order(q, Min(found))]
    /\ UNCHANGED <<minimum_base_asset_trade_size, exchange_paused>>

cancel_order_by_user_order_id(u, user_order_id) ==
    /\ \E q \in Accounts(u) :
          LET found == {i \in OrderSlots : q.orders[i].user_order_id = user_order_id}
          IN /\ found # {}
             /\ CanCancel(q, Min(found))
             /\ user' = [user EXCEPT ![u] = remove_order(q, Min(found))]
    /\ UNCHANGED <<minimum_base_asset_trade_size, exchange_paused>>

(* By anyone, who is paid for it.  An attempt that fills nothing aborts.   *)
fill_order(u, filler, order_id, amount) ==
    /\ ~ exchange_paused
    /\ \E q \in Accounts(u), unsettled, reward_unsettled \in BOOLEAN :
          LET found == {i \in OrderSlots : q.orders[i].order_id = order_id}
              m == q.orders[Min(found)].market_index
          IN /\ found # {}
             /\ CanFill(q, Min(found), amount, MinSize(m))
             /\ IF filler = u
                THEN user' = [user EXCEPT ![u] = fill(q, Min(found), amount, unsettled)]
                ELSE /\ HasRoom(user[filler].positions, m)
                     /\ user' = [user EXCEPT ![u] = fill(q, Min(found), amount, unsettled),
                                             ![filler] = reward(@, m, reward_unsettled)]
    /\ UNCHANGED <<minimum_base_asset_trade_size, exchange_paused>>

(* place_order, fill_order and, for an immediate-or-cancel order that did  *)
(* not trade the base amount asked for, cancel_order, in one transaction.  *)
(* A market order that cannot be executed aborts; another order that       *)
(* cannot stays in the book.                                               *)
place_and_fill_order(u, params, amount) ==
    /\ ~ exchange_paused
    /\ \E q \in Accounts(u), unsettled \in BOOLEAN :
          LET min == MinSize(params.market_index)
              i == Min(InitSlots(q))
              placed == place(q, params, min)
              filled == IF amount = 0 THEN placed ELSE fill(placed, i, amount, unsettled)
          IN /\ CanPlace(q, params, min)
             /\ IF amount = 0 THEN params.order_type # "Market"
                              ELSE CanFill(placed, i, amount, min)
             /\ IF params.immediate_or_cancel /\ params.base_asset_amount # amount
                THEN /\ CanCancel(filled, i)
                     /\ user' = [user EXCEPT ![u] = remove_order(filled, i)]
                ELSE user' = [user EXCEPT ![u] = filled]
    /\ UNCHANGED <<minimum_base_asset_trade_size, exchange_paused>>

(* Sized in quote, so any base amount may result, none included.           *)
open_position(u, m, direction, amount) ==
    /\ ~ exchange_paused
    /\ \E q \in Accounts(u), unsettled \in BOOLEAN :
          LET positions == add_new_position(q.positions, m)
              i == slot_index(q.positions, m)
          IN /\ HasRoom(q.positions, m)
             /\ InBounds(positions[i], direction, amount)
             /\ user' = [user EXCEPT ![u].positions =
                           [positions EXCEPT ![i] = trade(@, direction, amount, unsettled)]]
    /\ UNCHANGED <<minimum_base_asset_trade_size, exchange_paused>>

(* Closing a slot that has no base changes neither base nor pnl.           *)
close_position(u, m) ==
    /\ ~ exchange_paused
    /\ \E q \in Accounts(u), unsettled \in BOOLEAN :
          LET i == get_position_index(q.positions, m)
              p == q.positions[i]
          IN /\ SlotsFor(q.positions, m) # {}
             /\ user' = [user EXCEPT ![u].positions = [q.positions EXCEPT ![i] =
                   [p EXCEPT !.base_asset_amount = 0,
                             !.has_unsettled_pnl = IF p.base_asset_amount = 0 THEN @
                                                   ELSE unsettled]]]
    /\ UNCHANGED <<minimum_base_asset_trade_size, exchange_paused>>

(* The one instruction that does not settle funding first.                 *)
settle_pnl(u, m) ==
    /\ ~ exchange_paused
    /\ LET i == get_position_index(user[u].positions, m)
       IN /\ SlotsFor(user[u].positions, m) # {}
          /\ user[u].positions[i].has_unsettled_pnl
          /\ \E unsettled \in BOOLEAN :
                user' = [user EXCEPT ![u].positions[i].has_unsettled_pnl = unsettled]
    /\ UNCHANGED <<minimum_base_asset_trade_size, exchange_paused>>

(* Closes or reduces some of the positions, at least one of them; open     *)
(* orders stay.                                                            *)
Smaller(base) == IF base > 0 THEN 0 .. base ELSE base .. 0

liquidate(u, base) ==
    /\ ~ exchange_paused
    /\ \E q \in Accounts(u), unsettled \in [PositionSlots -> BOOLEAN] :
          /\ \A i \in PositionSlots : base[i] \in Smaller(q.positions[i].base_asset_amount)
          /\ \E i \in PositionSlots : base[i] # q.positions[i].base_asset_amount
          /\ user' = [user EXCEPT ![u].positions = [i \in PositionSlots |->
                IF base[i] = q.positions[i].base_asset_amount THEN q.positions[i]
                ELSE [q.positions[i] EXCEPT !.base_asset_amount = base[i],
                                            !.has_unsettled_pnl = unsettled[i]]]]
    /\ UNCHANGED <<minimum_base_asset_trade_size, exchange_paused>>

settle_funding_payment(u) ==
    /\ ~ exchange_paused
    /\ \E q \in Accounts(u) : user' = [user EXCEPT ![u] = q]
    /\ UNCHANGED <<minimum_base_asset_trade_size, exchange_paused>>

update_market_minimum_base_asset_trade_size(m, min) ==
    /\ minimum_base_asset_trade_size' = [minimum_base_asset_trade_size EXCEPT ![m] = min]
    /\ UNCHANGED <<user, exchange_paused>>

update_exchange_paused ==
    /\ exchange_paused' = ~ exchange_paused
    /\ UNCHANGED <<user, minimum_base_asset_trade_size>>

UserOrderIds == {0} \cup {params.user_order_id : params \in Params}

Next ==
    \/ \E u \in Users :
         \/ \E params \in Params :
              \/ place_order(u, params)
              \/ \E amount \in 0 .. 2 * MaxBase : place_and_fill_order(u, params, amount)
         \/ \E id \in 1 .. MaxOrderId :
              \/ cancel_order_by_order_id(u, id)
              \/ \E filler \in Users, amount \in 1 .. 2 * MaxBase : fill_order(u, filler, id, amount)
         \/ \E id \in UserOrderIds : cancel_order_by_user_order_id(u, id)
         \/ \E m \in Markets :
              \/ \E direction \in Direction, amount \in 0 .. 2 * MaxBase :
                    open_position(u, m, direction, amount)
              \/ close_position(u, m)
              \/ settle_pnl(u, m)
         \/ \E base \in [PositionSlots -> - MaxBase .. MaxBase] : liquidate(u, base)
         \/ settle_funding_payment(u)
    \/ \E m \in Markets, min \in MinSizes : update_market_minimum_base_asset_trade_size(m, min)
    \/ update_exchange_paused

Spec == Init /\ [][Next]_vars

-----------------------------------------------------------------------------
TypeOK ==
    /\ user \in [Users -> User]
    /\ minimum_base_asset_trade_size \in [Markets -> MinSizes]
    /\ exchange_paused \in BOOLEAN

OpenOrdersIn(q, m) == {i \in OrderSlots : /\ q.orders[i].status = "Open"
                                          /\ q.orders[i].market_index = m}

Counted(q) ==
    /\ \A i \in PositionSlots : ~ is_available(q.positions[i]) =>
          q.positions[i].open_orders = Cardinality(OpenOrdersIn(q, q.positions[i].market_index))
    /\ \A m \in Markets : OpenOrdersIn(q, m) # {} => SlotsFor(q.positions, m) # {}

(* open_orders is what keeps a slot from being taken over while orders     *)
(* refer to its market: in every slot that is in use it is the number of   *)
(* the user's open orders in that market, so it never underflows on a      *)
(* cancel or a fill, and no open order is left without a slot.             *)
OpenOrdersCounted == \A u \in Users : Counted(user[u])

Unsplit(positions) ==
    \A i, j \in PositionSlots :
        /\ positions[i].market_index = positions[j].market_index
        /\ ~ is_available(positions[i]) /\ ~ is_available(positions[j])
        => i = j

(* A user never has two slots in use for one market, of which              *)
(* get_position_index would only find the first: the position, its pnl and *)
(* its order count are never split.                                        *)
OnePositionPerMarket == \A u \in Users : Unsplit(user[u].positions)

Addressable(q) ==
    \A i \in OrderSlots :
        /\ q.orders[i].status = "Open" =>
              /\ q.orders[i].order_id \in 1 .. q.next_order_id - 1
              /\ \A j \in OrderSlots \ {i} :
                    /\ q.orders[j].order_id # q.orders[i].order_id
                    /\ q.orders[i].user_order_id # 0
                          => q.orders[j].user_order_id # q.orders[i].user_order_id
        /\ q.orders[i].status = "Init" => q.orders[i] = DefaultOrder

(* An order is found by its id and by its nonzero user id: open orders     *)
(* have distinct nonzero ids below the counter, distinct user ids, and a   *)
(* slot that is not open matches neither.                                  *)
OrdersAddressable == \A u \in Users : Addressable(user[u])

(* Between instructions the book holds no market order, no order filled    *)
(* past its size, and an immediate-or-cancel order only in the one case    *)
(* place_and_fill_order misses: a reduce-only order whose size was rounded *)
(* up to the position and which traded exactly what was asked for.         *)
RestingOrders ==
    \A u \in Users, i \in OrderSlots : LET order == user[u].orders[i] IN
        order.status = "Open" =>
            /\ order.order_type = "Limit"
            /\ left_to_fill(order) > 0
            /\ order.immediate_or_cancel => order.reduce_only /\ order.base_asset_amount_filled > 0

BaseIn(q, m) == IF SlotsFor(q.positions, m) = {} THEN 0
                ELSE q.positions[get_position_index(q.positions, m)].base_asset_amount

(* A fill leaves of a resting order nothing or at least the market's       *)
(* minimum, so the second test of that in update_order_after_trade is, as  *)
(* its comment says, redundant.  The minimum is the one at the time of the *)
(* fill: the admin may raise it over what earlier fills left.              *)
NoResidueBelowMinimum ==
    [][\A u \in Users, i \in OrderSlots :
          LET old == user[u].orders[i]
              new == user'[u].orders[i]
          IN (/\ new.order_id = old.order_id
              /\ new.base_asset_amount_filled # old.base_asset_amount_filled)
             => left_to_fill(new) >= MinSize(old.market_index)]_vars

(* Filling a resting reduce-only order shrinks the position it was meant   *)
(* for, whatever became of that position since the order was placed, and   *)
(* never turns it round, but for a long position turned into a short one   *)
(* smaller than the minimum size.                                          *)
ReduceOnlyFills ==
    [][\A u \in Users, i \in OrderSlots :
          LET order == user[u].orders[i]
              before == BaseIn(user[u], order.market_index)
              after == BaseIn(user'[u], order.market_index)
          IN (order.reduce_only /\ user'[u].orders[i] # order /\ before # after) =>
                /\ Reduces(order.direction, before)
                /\ \/ after = 0 \/ (after > 0) = (before > 0)
                   \/ before > 0 /\ Size(after) < MinSize(order.market_index)]_vars

=============================================================================
