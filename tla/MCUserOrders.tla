---------------------------- MODULE MCUserOrders ----------------------------
EXTENDS UserOrders

CONSTANTS u1, u2, m1, m2

LimitOrder(m, direction, amount, reduce_only, ioc, id) ==
    [market_index |-> m, order_type |-> "Limit", direction |-> direction,
     base_asset_amount |-> amount, reduce_only |-> reduce_only,
     immediate_or_cancel |-> ioc, user_order_id |-> id]

MarketOrder(m, direction, amount, reduce_only) ==
    [market_index |-> m, order_type |-> "Market", direction |-> direction,
     base_asset_amount |-> amount, reduce_only |-> reduce_only,
     immediate_or_cancel |-> FALSE, user_order_id |-> 0]

(* One market, the ways of sizing an order.                                *)
SizeParams == {LimitOrder(m1, "Long", 3, FALSE, FALSE, 0),
               LimitOrder(m1, "Short", 2, TRUE, FALSE, 1),
               LimitOrder(m1, "Short", 4, TRUE, FALSE, 0),
               LimitOrder(m1, "Short", 2, TRUE, TRUE, 0),
               LimitOrder(m1, "Long", 3, FALSE, TRUE, 0),
               LimitOrder(m1, "Long", 2, TRUE, FALSE, 0),
               MarketOrder(m1, "Short", 3, TRUE),
               MarketOrder(m1, "Long", 0, FALSE)}

(* Either u1 alone in market m1, with orders of every size; or u1 with one *)
(* plain order at a time and u2, who trades in both markets and fills it.  *)
Idle(u) == user[u] = InitUser
InUse(u) == {i \in PositionSlots : ~ is_available(user[u].positions[i])}
OnlyIn(u, m) == \A i \in InUse(u) : user[u].positions[i].market_index = m

SizesOrFillers ==
    /\ minimum_base_asset_trade_size[m2] = 2
    /\ exchange_paused => Idle(u2) /\ user[u1].next_order_id =< 2
    /\ OnlyIn(u1, m1)
    /\ \A i \in OrderSlots : user[u2].orders[i].status = "Init"
    /\ ~ Idle(u2) =>
          /\ minimum_base_asset_trade_size[m1] = 2
          /\ user[u1].next_order_id =< 2
          /\ \A i \in OrderSlots : user[u1].orders[i].order_type = "Limit"
                                   /\ ~ user[u1].orders[i].reduce_only
          /\ \A i \in PositionSlots : user[u1].positions[i].base_asset_amount \in {0, 2}
                                      /\ ~ user[u1].positions[i].has_unsettled_pnl
          /\ \A i \in InUse(u2) : user[u2].positions[i].base_asset_amount \in
                                      IF user[u2].positions[i].market_index = m2 THEN {0, 2} ELSE {0}
=============================================================================
