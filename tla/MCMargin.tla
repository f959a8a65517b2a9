------------------------------ MODULE MCMargin ------------------------------
EXTENDS Margin

CONSTANTS m1, m2

MCFeeds == {[price |-> 150, is_valid |-> TRUE, mark_twap |-> 150],
            [price |-> 130, is_valid |-> TRUE, mark_twap |-> 150],
            [price |-> 150, is_valid |-> FALSE, mark_twap |-> 150],
            [price |-> 150, is_valid |-> FALSE, mark_twap |-> 120]}

Plain == [order_type |-> "Limit", direction |-> "Long", price |-> 0, oracle_price_offset |-> 0,
          trigger_price |-> 0, above |-> TRUE, post_only |-> FALSE, base_asset_amount |-> 500,
          quote_asset_amount |-> 0, base_asset_amount_filled |-> 0]

MCOrders ==
    {[Plain EXCEPT !.order_type = "Market", !.price = 160],
     [Plain EXCEPT !.order_type = "Market", !.direction = "Short", !.base_asset_amount = 0,
                   !.quote_asset_amount = 150],
     [Plain EXCEPT !.price = 154],
     [Plain EXCEPT !.direction = "Short", !.oracle_price_offset = -8],
     [Plain EXCEPT !.price = 149, !.post_only = TRUE],
     [Plain EXCEPT !.direction = "Short", !.price = 152, !.post_only = TRUE,
                   !.oracle_price_offset = 6],
     [Plain EXCEPT !.order_type = "TriggerMarket", !.trigger_price = 151],
     [Plain EXCEPT !.order_type = "TriggerLimit", !.direction = "Short", !.above = FALSE,
                   !.trigger_price = 149, !.price = 135]}
=============================================================================
