------------------------ MODULE MCWebSocketSubscriber ------------------------
EXTENDS WebSocketSubscriber

CONSTANTS c1, c2, a1, m1

(* With and without the market.                                            *)
MCConfigurations == [authority : {a1}, userId : {0}, marketIndexes : {<<>>, <<m1>>}]

(* The user's accounts change at every slot, and one of them goes back.    *)
Slots(user, market) ==
    [k \in Keys |-> IF k \in Authorities \X UserIds THEN user
                    ELSE IF k \in {<<m>> : m \in Markets} THEN market ELSE "x"]
Created == <<Slots(NoData, "x"), Slots("x", "x"), Slots("y", "y")>>
Returns == <<Slots("x", "x"), Slots("y", "x"), Slots("x", "x")>>
MCHistories == {Created, Returns}
=============================================================================
