-------------------------- MODULE UserOrdersProofs --------------------------
(***************************************************************************)
(* Type correctness of UserOrders and the invariants that keep a user's    *)
(* orders, order counts and position slots consistent, for any number of   *)
(* users, markets, slots and orders; then the order book, what a fill may  *)
(* leave of an order and what a reduce-only fill may do to a position.     *)
(***************************************************************************)
EXTENDS UserOrders, FiniteSetTheorems, WellFoundedInduction, TLAPS

-----------------------------------------------------------------------------
(* Iterator::position finds the least index of a nonempty set of slots.    *)
LEMMA MinExists ==
    ASSUME NEW S \in SUBSET Nat, S # {}
    PROVE  Min(S) \in S
<1>1. PICK x \in S : \A y \in S : ~ (<<y, x>> \in OpToRel(<, Nat))
  BY NatLessThanWellFounded, WFMin
<1>2. ASSUME NEW y \in S, y < x PROVE <<y, x>> \in OpToRel(<, Nat)
  BY <1>2, Zenon DEF OpToRel
<1>3. \A y \in S : ~ (y < x)
  BY <1>1, <1>2, Zenon
<1>4. \A y \in S : x =< y
  BY <1>3
<1>5. QED
  BY <1>4 DEF Min

(* The open orders of a market are finitely many.                          *)
LEMMA OpenOrdersFinite ==
    ASSUME NEW q, NEW m
    PROVE  /\ IsFiniteSet(OpenOrdersIn(q, m))
           /\ Cardinality(OpenOrdersIn(q, m)) \in Nat
           /\ Cardinality(OpenOrdersIn(q, m)) = 0 <=> OpenOrdersIn(q, m) = {}
<1>1. IsFiniteSet(OrderSlots)
  BY FS_Interval, OrdersAssumption DEF OrderSlots
<1>2. OpenOrdersIn(q, m) \in SUBSET OrderSlots
  BY DEF OpenOrdersIn
<1>3. IsFiniteSet(OpenOrdersIn(q, m))
  BY <1>1, <1>2, FS_Subset
<1>4. QED
  BY <1>3, FS_CardinalityType, FS_EmptySet

-----------------------------------------------------------------------------
(* The inductive invariant, for one account.  The counts need OnePosition- *)
(* PerMarket (only one slot of a market is ever brought up to date) and    *)
(* open_orders \in Nat needs the counts: it is decremented unchecked.      *)
SlotInv(q) ==
    /\ q \in User
    /\ Counted(q)
    /\ Unsplit(q.positions)

(* What a trade, a close or a liquidation may do to a slot.                *)
LEMMA PositionTraded ==
    ASSUME NEW p \in MarketPosition, NEW base \in Int, NEW unsettled \in BOOLEAN
    PROVE  LET p2 == [p EXCEPT !.base_asset_amount = base, !.has_unsettled_pnl = unsettled]
           IN /\ p2 \in MarketPosition
              /\ p2.market_index = p.market_index
              /\ p2.open_orders = p.open_orders
  BY DEF MarketPosition

(* Changing the base or the pnl of slots in use.                           *)
LEMMA SlotsRewritten ==
    ASSUME NEW q, SlotInv(q),
           NEW ps \in [PositionSlots -> MarketPosition],
           \A i \in PositionSlots :
              /\ ps[i].market_index = q.positions[i].market_index
              /\ ps[i].open_orders = q.positions[i].open_orders
              /\ is_available(q.positions[i]) => ps[i] = q.positions[i]
    PROVE  SlotInv([q EXCEPT !.positions = ps])
<1> DEFINE q2 == [q EXCEPT !.positions = ps]
<1>1. q2 \in User /\ q2.positions = ps /\ q2.orders = q.orders
  BY DEF SlotInv, User
<1>2. ASSUME NEW m PROVE OpenOrdersIn(q2, m) = OpenOrdersIn(q, m)
  BY <1>1 DEF OpenOrdersIn
<1>3. ASSUME NEW i \in PositionSlots, ~ is_available(ps[i])
      PROVE  ~ is_available(q.positions[i])
  BY <1>3
<1>4. \A i \in PositionSlots : ~ is_available(ps[i]) =>
          ps[i].open_orders = Cardinality(OpenOrdersIn(q2, ps[i].market_index))
  BY <1>2, <1>3 DEF SlotInv, Counted
<1>5. ASSUME NEW m \in Markets, OpenOrdersIn(q2, m) # {}
      PROVE  SlotsFor(ps, m) # {}
  <2>1. PICK i \in PositionSlots : is_for(q.positions[i], m)
    BY <1>2, <1>5 DEF SlotInv, Counted, SlotsFor
  <2>2. q.positions[i].open_orders = Cardinality(OpenOrdersIn(q, m))
    BY <2>1 DEF SlotInv, Counted, is_for
  <2>3. ps[i].open_orders # 0
    BY <1>2, <1>5, <2>2, OpenOrdersFinite
  <2>4. is_for(ps[i], m)
    BY <2>1, <2>3 DEF is_for, is_available
  <2>5. QED
    BY <2>4 DEF SlotsFor
<1>6. Counted(q2)
  BY <1>1, <1>4, <1>5 DEF Counted
<1>7. Unsplit(ps)
  BY <1>3 DEF SlotInv, Unsplit
<1>8. QED
  BY <1>1, <1>6, <1>7 DEF SlotInv

(* Changing one slot, perhaps together with one order of its market, the   *)
(* slot being the market's or, if the market has none, a free one.         *)
LEMMA SlotTouched ==
    ASSUME NEW q, SlotInv(q), NEW q2,
           NEW i \in PositionSlots, NEW p \in MarketPosition,
           NEW k \in OrderSlots, NEW o \in Order, NEW n \in Nat,
           q2 = [positions |-> [q.positions EXCEPT ![i] = p],
                 orders |-> [q.orders EXCEPT ![k] = o],
                 next_order_id |-> n],
           \/ o = q.orders[k]
           \/ /\ q.orders[k].status = "Open" => q.orders[k].market_index = p.market_index
              /\ o.status = "Open" => o.market_index = p.market_index,
           p.open_orders = Cardinality(OpenOrdersIn(q2, p.market_index)),
           is_available(q.positions[i]) \/ q.positions[i].market_index = p.market_index,
           \A j \in SlotsFor(q.positions, p.market_index) : j = i
    PROVE  SlotInv(q2)
<1> DEFINE m == p.market_index
<1> m \in Markets
  BY DEF MarketPosition
<1> HIDE DEF m
<1>1. q2 \in User
  BY DEF SlotInv, User
<1>2. /\ q2.positions[i] = p
      /\ \A j \in PositionSlots \ {i} : q2.positions[j] = q.positions[j]
      /\ q2.orders[k] = o
      /\ \A j \in OrderSlots \ {k} : q2.orders[j] = q.orders[j]
  BY DEF SlotInv, User
<1>3. ASSUME NEW x, x # m PROVE OpenOrdersIn(q2, x) = OpenOrdersIn(q, x)
  BY <1>2, <1>3 DEF OpenOrdersIn, m
<1>4. ASSUME NEW j \in PositionSlots, j # i, ~ is_available(q.positions[j])
      PROVE  q.positions[j].market_index # m
  BY <1>4 DEF SlotsFor, is_for, m
<1>5. ASSUME NEW j \in PositionSlots, ~ is_available(q2.positions[j])
      PROVE  q2.positions[j].open_orders
                 = Cardinality(OpenOrdersIn(q2, q2.positions[j].market_index))
  <2>1. CASE j = i
    BY <1>2, <2>1
  <2>2. CASE j # i
    <3>1. q.positions[j].open_orders
              = Cardinality(OpenOrdersIn(q, q.positions[j].market_index))
      BY <1>2, <1>5, <2>2 DEF SlotInv, Counted
    <3>2. QED
      BY <1>2, <1>3, <1>4, <1>5, <2>2, <3>1
  <2>3. QED
    BY <2>1, <2>2
<1>6. ASSUME NEW x \in Markets, OpenOrdersIn(q2, x) # {}
      PROVE  SlotsFor(q2.positions, x) # {}
  <2>1. CASE x = m
    <3>1. p.open_orders # 0
      BY <1>6, <2>1, OpenOrdersFinite DEF m
    <3>2. is_for(q2.positions[i], x)
      BY <1>2, <2>1, <3>1 DEF is_for, is_available, m
    <3>3. QED
      BY <3>2 DEF SlotsFor
  <2>2. CASE x # m
    <3>1. PICK j \in PositionSlots : is_for(q.positions[j], x)
      BY <1>3, <1>6, <2>2 DEF SlotInv, Counted, SlotsFor
    <3>2. j # i
      BY <2>2, <3>1 DEF is_for, m
    <3>3. is_for(q2.positions[j], x)
      BY <1>2, <3>1, <3>2
    <3>4. QED
      BY <3>3 DEF SlotsFor
  <2>3. QED
    BY <2>1, <2>2
<1>7. Counted(q2)
  BY <1>5, <1>6 DEF Counted
<1>8. Unsplit(q2.positions)
  <2> SUFFICES ASSUME NEW a \in PositionSlots, NEW b \in PositionSlots,
                      q2.positions[a].market_index = q2.positions[b].market_index,
                      ~ is_available(q2.positions[a]), ~ is_available(q2.positions[b]),
                      a # b
               PROVE  FALSE
    BY DEF Unsplit
  <2>1. CASE a = i
    BY <1>2, <1>4, <2>1 DEF m
  <2>2. CASE b = i
    BY <1>2, <1>4, <2>2 DEF m
  <2>3. CASE a # i /\ b # i
    BY <1>2, <2>3 DEF SlotInv, Unsplit
  <2>4. QED
    BY <2>1, <2>2, <2>3
<1>9. QED
  BY <1>1, <1>7, <1>8 DEF SlotInv

-----------------------------------------------------------------------------
(* Where the operations find their slot.                                   *)

(* The slot an operation looks up is a slot of the market, or a free one.  *)
LEMMA SlotFound ==
    ASSUME NEW q, SlotInv(q), NEW m \in Markets, SlotsFor(q.positions, m) # {}
    PROVE  LET i == get_position_index(q.positions, m)
           IN /\ i \in PositionSlots
              /\ is_for(q.positions[i], m)
              /\ q.positions[i] \in MarketPosition
              /\ q.positions[i].open_orders = Cardinality(OpenOrdersIn(q, m))
              /\ \A j \in SlotsFor(q.positions, m) : j = i
<1> DEFINE i == get_position_index(q.positions, m)
<1>1. SlotsFor(q.positions, m) \in SUBSET Nat
  BY OrdersAssumption DEF SlotsFor, PositionSlots
<1>2. i \in SlotsFor(q.positions, m)
  BY <1>1, MinExists DEF get_position_index
<1> HIDE DEF i
<1>3. i \in PositionSlots /\ is_for(q.positions[i], m)
  BY <1>2 DEF SlotsFor
<1>4. q.positions[i] \in MarketPosition
  BY <1>3 DEF SlotInv, User
<1>5. q.positions[i].open_orders = Cardinality(OpenOrdersIn(q, m))
  BY <1>3 DEF SlotInv, Counted, is_for
<1>6. \A j \in SlotsFor(q.positions, m) : j = i
  BY <1>3 DEF SlotsFor, is_for, SlotInv, Unsplit
<1>7. QED
  BY <1>3, <1>4, <1>5, <1>6 DEF i

(* What the base of an order's market is, before and after an operation.   *)

LEMMA BaseInSlot ==
    ASSUME NEW q, NEW m, NEW i \in PositionSlots, q.positions[i].market_index = m,
           \A j \in SlotsFor(q.positions, m) : j = i
    PROVE  BaseIn(q, m) = q.positions[i].base_asset_amount
<1>1. CASE SlotsFor(q.positions, m) = {}
  <2>1. is_available(q.positions[i])
    BY <1>1 DEF SlotsFor, is_for
  <2>. QED  BY <1>1, <2>1 DEF BaseIn, is_available
<1>2. CASE SlotsFor(q.positions, m) # {}
  <2>1. SlotsFor(q.positions, m) \in SUBSET Nat
    BY OrdersAssumption DEF SlotsFor, PositionSlots
  <2>2. get_position_index(q.positions, m) = i
    BY <1>2, <2>1, MinExists DEF get_position_index
  <2>. QED  BY <1>2, <2>2 DEF BaseIn
<1>. QED  BY <1>1, <1>2

(* Changing the one slot of a market makes that slot's base the market's.  *)
LEMMA BaseInTouched ==
    ASSUME NEW q, SlotInv(q), NEW q2, NEW m, NEW i \in PositionSlots, NEW p,
           \A j \in SlotsFor(q.positions, m) : j = i,
           q2.positions = [q.positions EXCEPT ![i] = p], p.market_index = m
    PROVE  BaseIn(q2, m) = p.base_asset_amount
<1>1. /\ q2.positions[i] = p
      /\ \A j \in PositionSlots \ {i} : q2.positions[j] = q.positions[j]
  BY DEF SlotInv, User
<1>2. \A j \in SlotsFor(q2.positions, m) : j = i
  BY <1>1 DEF SlotsFor
<1>3. q2.positions[i].market_index = m
  BY <1>1
<1>4. BaseIn(q2, m) = q2.positions[i].base_asset_amount
  BY <1>2, <1>3, BaseInSlot
<1>. QED  BY <1>1, <1>4

(* A market without a slot has no open orders, so that the new slot, which *)
(* starts at zero, counts them too.                                        *)
LEMMA SlotAdded ==
    ASSUME NEW q, SlotInv(q), NEW m \in Markets, HasRoom(q.positions, m)
    PROVE  LET i == slot_index(q.positions, m)
               p == add_new_position(q.positions, m)[i]
           IN /\ i \in PositionSlots
              /\ p \in MarketPosition
              /\ p.market_index = m
              /\ p.open_orders = Cardinality(OpenOrdersIn(q, m))
              /\ is_available(q.positions[i]) \/ q.positions[i].market_index = m
              /\ \A j \in SlotsFor(q.positions, m) : j = i
              /\ \A x : [add_new_position(q.positions, m) EXCEPT ![i] = x]
                            = [q.positions EXCEPT ![i] = x]
<1> DEFINE i == slot_index(q.positions, m)
<1>1. CASE SlotsFor(q.positions, m) # {}
  <2>1. i = get_position_index(q.positions, m) /\ add_new_position(q.positions, m) = q.positions
    BY <1>1 DEF slot_index, add_new_position
  <2>2. QED
    BY <1>1, <2>1, SlotFound DEF is_for
<1>2. CASE SlotsFor(q.positions, m) = {}
  <2>1. FreeSlots(q.positions) \in SUBSET Nat /\ FreeSlots(q.positions) # {}
    BY <1>2, OrdersAssumption DEF HasRoom, FreeSlots, PositionSlots
  <2>2. i \in FreeSlots(q.positions)
    BY <1>2, <2>1, MinExists DEF slot_index
  <2>3. i \in PositionSlots /\ is_available(q.positions[i])
    BY <2>2 DEF FreeSlots
  <2>4. add_new_position(q.positions, m) = [q.positions EXCEPT ![i] = NewPosition(m)]
    BY <1>2 DEF add_new_position
  <2> HIDE DEF i
  <2>5. q.positions \in [PositionSlots -> MarketPosition]
    BY DEF SlotInv, User
  <2>6. add_new_position(q.positions, m)[i] = NewPosition(m)
    BY <2>3, <2>4, <2>5
  <2>7. NewPosition(m) \in MarketPosition /\ NewPosition(m).market_index = m
        /\ NewPosition(m).open_orders = 0
    BY DEF NewPosition, MarketPosition
  <2>8. OpenOrdersIn(q, m) = {}
    BY <1>2 DEF SlotInv, Counted
  <2>9. Cardinality(OpenOrdersIn(q, m)) = 0
    BY <2>8, FS_EmptySet
  <2>10. \A x : [add_new_position(q.positions, m) EXCEPT ![i] = x]
                   = [q.positions EXCEPT ![i] = x]
    BY <2>3, <2>4, <2>5
  <2>11. QED
    BY <1>2, <2>3, <2>6, <2>7, <2>9, <2>10 DEF i
<1>3. QED
  BY <1>1, <1>2

(* Changing one slot and no order.                                         *)
LEMMA PositionTouched ==
    ASSUME NEW q, SlotInv(q), NEW m \in Markets,
           NEW i \in PositionSlots, NEW p \in MarketPosition,
           p.market_index = m,
           p.open_orders = Cardinality(OpenOrdersIn(q, m)),
           is_available(q.positions[i]) \/ q.positions[i].market_index = m,
           \A j \in SlotsFor(q.positions, m) : j = i
    PROVE  SlotInv([q EXCEPT !.positions = [q.positions EXCEPT ![i] = p]])
<1> DEFINE q2 == [q EXCEPT !.positions = [q.positions EXCEPT ![i] = p]]
<1>1. 0 \in OrderSlots
  BY OrdersAssumption DEF OrderSlots
<1>2. q.orders \in [OrderSlots -> Order] /\ q.next_order_id \in Nat
  BY DEF SlotInv, User
<1>3. q.orders[0] \in Order /\ [q.orders EXCEPT ![0] = q.orders[0]] = q.orders
  BY <1>1, <1>2
<1>4. q2 = [positions |-> [q.positions EXCEPT ![i] = p],
            orders |-> [q.orders EXCEPT ![0] = q.orders[0]],
            next_order_id |-> q.next_order_id]
  BY <1>3 DEF SlotInv, User
<1>5. OpenOrdersIn(q2, m) = OpenOrdersIn(q, m)
  BY <1>3, <1>4 DEF OpenOrdersIn
<1> HIDE DEF q2
<1>6. SlotInv(q2)
  BY <1>1, <1>2, <1>3, <1>4, <1>5, SlotTouched
<1>7. QED
  BY <1>6 DEF q2

-----------------------------------------------------------------------------
(* The operations on one account preserve the invariant.                   *)

(* Settling funding changes pnl only, of slots in use.                     *)
LEMMA FundingSettled ==
    ASSUME NEW q, SlotInv(q), NEW ps \in settle_funding(q.positions)
    PROVE  SlotInv([q EXCEPT !.positions = ps])
<1>1. q.positions \in [PositionSlots -> MarketPosition]
  BY DEF SlotInv, User
<1>2. PICK unsettled \in [PositionSlots -> BOOLEAN] :
         ps = [i \in PositionSlots |->
                 IF q.positions[i].base_asset_amount = 0 THEN q.positions[i]
                 ELSE [q.positions[i] EXCEPT !.has_unsettled_pnl = unsettled[i]]]
  BY DEF settle_funding
<1>3. ASSUME NEW i \in PositionSlots
      PROVE  /\ ps[i] \in MarketPosition
             /\ ps[i].market_index = q.positions[i].market_index
             /\ ps[i].open_orders = q.positions[i].open_orders
             /\ is_available(q.positions[i]) => ps[i] = q.positions[i]
  BY <1>1, <1>2 DEF MarketPosition, is_available
<1>4. ps \in [PositionSlots -> MarketPosition]
  BY <1>2, <1>3
<1>5. QED
  BY <1>3, <1>4, SlotsRewritten

(* Cancelling an order takes it out of its market's count.                 *)
LEMMA OrderRemoved ==
    ASSUME NEW q, SlotInv(q), NEW k \in OrderSlots, CanCancel(q, k)
    PROVE  /\ SlotInv(remove_order(q, k))
           /\ remove_order(q, k).orders = [q.orders EXCEPT ![k] = DefaultOrder]
           /\ remove_order(q, k).next_order_id = q.next_order_id
           /\ BaseIn(remove_order(q, k), q.orders[k].market_index)
                 = BaseIn(q, q.orders[k].market_index)
<1> DEFINE m == q.orders[k].market_index
           i == get_position_index(q.positions, m)
           p == [q.positions[i] EXCEPT !.open_orders = @ - 1]
           q2 == remove_order(q, k)
<1>1. m \in Markets /\ q.orders[k].status = "Open" /\ SlotsFor(q.positions, m) # {}
  BY DEF CanCancel, SlotInv, User, Order
<1>2. /\ i \in PositionSlots
      /\ is_for(q.positions[i], m)
      /\ q.positions[i] \in MarketPosition
      /\ q.positions[i].open_orders = Cardinality(OpenOrdersIn(q, m))
      /\ \A j \in SlotsFor(q.positions, m) : j = i
  BY <1>1, SlotFound
<1>3. q2 = [positions |-> [q.positions EXCEPT ![i] = p],
            orders |-> [q.orders EXCEPT ![k] = DefaultOrder],
            next_order_id |-> q.next_order_id]
  <2>1. q2 = [q EXCEPT !.positions[i].open_orders = @ - 1, !.orders[k] = DefaultOrder]
    BY DEF remove_order
  <2> HIDE DEF m, i, q2
  <2>2. q2.positions = [q.positions EXCEPT ![i] = p]
    BY <1>2, <2>1 DEF SlotInv, User
  <2>3. q2.orders = [q.orders EXCEPT ![k] = DefaultOrder] /\ q2.next_order_id = q.next_order_id
    BY <2>1 DEF SlotInv, User
  <2>4. q2 = [positions |-> q2.positions, orders |-> q2.orders,
              next_order_id |-> q2.next_order_id]
    BY <2>1 DEF SlotInv, User
  <2>5. QED
    BY <2>2, <2>3, <2>4
<1> HIDE DEF m, i, q2
<1>4. DefaultOrder \in Order /\ DefaultOrder.status = "Init"
  BY OrdersAssumption DEF DefaultOrder, Order, SomeMarket, Direction
<1>5. OpenOrdersIn(q2, m) = OpenOrdersIn(q, m) \ {k} /\ k \in OpenOrdersIn(q, m)
  BY <1>1, <1>3, <1>4 DEF OpenOrdersIn, SlotInv, User, m
<1>6. /\ Cardinality(OpenOrdersIn(q2, m)) = Cardinality(OpenOrdersIn(q, m)) - 1
      /\ Cardinality(OpenOrdersIn(q2, m)) \in Nat
  BY <1>5, OpenOrdersFinite, FS_RemoveElement
<1>7. /\ p \in MarketPosition
      /\ p.market_index = m
      /\ p.open_orders = Cardinality(OpenOrdersIn(q2, m))
  BY <1>2, <1>6 DEF MarketPosition, is_for
<1>8. q.next_order_id \in Nat /\ q.positions[i].market_index = m
  BY <1>2 DEF SlotInv, User, is_for
<1>9. p.base_asset_amount = q.positions[i].base_asset_amount
  BY <1>2 DEF MarketPosition
<1> HIDE DEF p
<1>10. SlotInv(q2)
  BY <1>1, <1>2, <1>3, <1>4, <1>7, <1>8, SlotTouched DEF m
<1>11. BaseIn(q, m) = q.positions[i].base_asset_amount
  BY <1>2, <1>8, BaseInSlot
<1>12. q2.positions = [q.positions EXCEPT ![i] = p]
  BY <1>3
<1>13. BaseIn(q2, m) = p.base_asset_amount
  BY <1>2, <1>7, <1>12, BaseInTouched
<1>14. q2.orders = [q.orders EXCEPT ![k] = DefaultOrder] /\ q2.next_order_id = q.next_order_id
  BY <1>3
<1>15. QED
  BY <1>9, <1>10, <1>11, <1>13, <1>14 DEF q2, m

(* Placing an order counts it in a slot of its market.                     *)
LEMMA OrderPlaced ==
    ASSUME NEW q, SlotInv(q), NEW params \in Params, NEW min \in Nat, CanPlace(q, params, min)
    PROVE  /\ SlotInv(place(q, params, min))
           /\ Min(InitSlots(q)) \in OrderSlots
           /\ q.orders[Min(InitSlots(q))].status = "Init"
           /\ place(q, params, min).orders
                 = [q.orders EXCEPT ![Min(InitSlots(q))] = NewOrder(q, params, min)]
           /\ place(q, params, min).next_order_id = q.next_order_id + 1
           /\ NewOrder(q, params, min) \in Order
<1> DEFINE m == params.market_index
           i == slot_index(q.positions, m)
           p0 == add_new_position(q.positions, m)[i]
           p == [p0 EXCEPT !.open_orders = @ + 1]
           k == Min(InitSlots(q))
           o == NewOrder(q, params, min)
           q2 == place(q, params, min)
<1>1. params \in OrderParams /\ m \in Markets
  BY OrdersAssumption DEF OrderParams
<1>2. k \in OrderSlots /\ q.orders[k].status = "Init"
  <2>1. InitSlots(q) \in SUBSET Nat /\ InitSlots(q) # {}
    BY OrdersAssumption DEF InitSlots, CanPlace, OrderSlots
  <2>2. k \in InitSlots(q)
    BY <2>1, MinExists
  <2>3. QED
    BY <2>2 DEF InitSlots
<1>3. /\ i \in PositionSlots
      /\ p0 \in MarketPosition
      /\ p0.market_index = m
      /\ p0.open_orders = Cardinality(OpenOrdersIn(q, m))
      /\ is_available(q.positions[i]) \/ q.positions[i].market_index = m
      /\ \A j \in SlotsFor(q.positions, m) : j = i
      /\ \A x : [add_new_position(q.positions, m) EXCEPT ![i] = x]
                    = [q.positions EXCEPT ![i] = x]
  BY <1>1, SlotAdded DEF CanPlace
<1>4. o \in Order /\ o.status = "Open" /\ o.market_index = m
  <2>1. p0.base_asset_amount \in Int
    BY <1>3 DEF MarketPosition
  <2>2. get_base_asset_amount_for_order(params, p0.base_asset_amount, min) \in Nat
    BY <1>1, <2>1 DEF get_base_asset_amount_for_order, OrderParams, Size
  <2>3. q.next_order_id \in Nat
    BY DEF SlotInv, User
  <2>4. QED
    BY <1>1, <2>2, <2>3 DEF NewOrder, Order, OrderParams
<1>5. q2 = [positions |-> [q.positions EXCEPT ![i] = p],
            orders |-> [q.orders EXCEPT ![k] = o],
            next_order_id |-> q.next_order_id + 1]
  <2>1. q2 = [q EXCEPT !.positions = [add_new_position(q.positions, m) EXCEPT
                                         ![i].open_orders = @ + 1],
                       !.orders[k] = o,
                       !.next_order_id = @ + 1]
    BY DEF place
  <2>2. [add_new_position(q.positions, m) EXCEPT ![i].open_orders = @ + 1]
            = [add_new_position(q.positions, m) EXCEPT ![i] = p]
    OBVIOUS
  <2>3. q2 = [q EXCEPT !.positions = [q.positions EXCEPT ![i] = p],
                       !.orders[k] = o,
                       !.next_order_id = @ + 1]
    BY <1>3, <2>1, <2>2
  <2> HIDE DEF m, i, p0, p, k, o, q2
  <2>4. QED
    BY <2>3 DEF SlotInv, User
<1> HIDE DEF m, i, p0, k, o, q2
<1>6. OpenOrdersIn(q2, m) = OpenOrdersIn(q, m) \cup {k} /\ k \notin OpenOrdersIn(q, m)
  BY <1>2, <1>4, <1>5 DEF OpenOrdersIn, SlotInv, User
<1>7. Cardinality(OpenOrdersIn(q2, m)) = Cardinality(OpenOrdersIn(q, m)) + 1
  BY <1>6, OpenOrdersFinite, FS_AddElement
<1>8. /\ p \in MarketPosition
      /\ p.market_index = m
      /\ p.open_orders = Cardinality(OpenOrdersIn(q2, m))
  BY <1>3, <1>7 DEF MarketPosition
<1>9. q.next_order_id + 1 \in Nat
  BY DEF SlotInv, User
<1> HIDE DEF p
<1>10. SlotInv(q2)
  BY <1>2, <1>3, <1>4, <1>5, <1>8, <1>9, SlotTouched
<1>11. q2.orders = [q.orders EXCEPT ![k] = o] /\ q2.next_order_id = q.next_order_id + 1
  BY <1>5
<1>12. QED
  BY <1>2, <1>4, <1>10, <1>11 DEF q2, k, o

(* What a fill makes of account q.                                         *)
FillOutcome(q, k, amount, r) ==
    LET order == q.orders[k]
    IN /\ SlotInv(r)
       /\ r.next_order_id = q.next_order_id
       /\ \/ r.orders = [q.orders EXCEPT ![k] = DefaultOrder]
          \/ /\ left_to_fill(order) # amount /\ order.order_type # "Market"
             /\ r.orders = [q.orders EXCEPT ![k] =
                              [order EXCEPT !.base_asset_amount_filled = @ + amount]]
       /\ BaseIn(r, order.market_index)
             = BaseIn(q, order.market_index) + Signed(order.direction, amount)

(* A fill keeps the count, whether or not it ends the order.               *)
LEMMA OrderFilled ==
    ASSUME NEW q, SlotInv(q), NEW k \in OrderSlots, NEW amount \in Nat, NEW min,
           CanFill(q, k, amount, min), NEW unsettled \in BOOLEAN
    PROVE  FillOutcome(q, k, amount, fill(q, k, amount, unsettled))
<1> DEFINE m == q.orders[k].market_index
           i == get_position_index(q.positions, m)
           p == trade(q.positions[i], q.orders[k].direction, amount, unsettled)
           o == [q.orders[k] EXCEPT !.base_asset_amount_filled = @ + amount]
           q2 == [q EXCEPT !.positions[i] = trade(@, q.orders[k].direction, amount, unsettled),
                           !.orders[k].base_asset_amount_filled = @ + amount]
<1>1. /\ m \in Markets /\ q.orders[k] \in Order
      /\ q.orders[k].status = "Open" /\ SlotsFor(q.positions, m) # {}
  BY DEF CanFill, SlotInv, User, Order
<1>2. /\ i \in PositionSlots
      /\ is_for(q.positions[i], m)
      /\ q.positions[i] \in MarketPosition
      /\ q.positions[i].open_orders = Cardinality(OpenOrdersIn(q, m))
      /\ \A j \in SlotsFor(q.positions, m) : j = i
  BY <1>1, SlotFound
<1>3. \/ fill(q, k, amount, unsettled) = remove_order(q2, k)
      \/ /\ fill(q, k, amount, unsettled) = q2
         /\ left_to_fill(q.orders[k]) # amount /\ q.orders[k].order_type # "Market"
  BY DEF fill
<1>4. q2 = [positions |-> [q.positions EXCEPT ![i] = p],
            orders |-> [q.orders EXCEPT ![k] = o],
            next_order_id |-> q.next_order_id]
  <2>1. q = [positions |-> q.positions, orders |-> q.orders,
             next_order_id |-> q.next_order_id]
    BY DEF SlotInv, User
  <2> HIDE DEF m, i
  <2> DEFINE ps == [q.positions EXCEPT ![i] = p]
             os == [q.orders EXCEPT ![k] = o]
  <2>2. q2 = [q EXCEPT !.positions = ps, !.orders = os]
    OBVIOUS
  <2> HIDE DEF ps, os, q2
  <2>3. q2 = [positions |-> ps, orders |-> os, next_order_id |-> q.next_order_id]
    BY <2>1, <2>2
  <2>4. QED
    BY <2>3 DEF ps, os
<1> HIDE DEF m, i, q2
<1>5. /\ o \in Order /\ o.status = "Open" /\ o.market_index = m
      /\ p \in MarketPosition /\ p.market_index = m
      /\ p.open_orders = q.positions[i].open_orders
  <2>1. o \in Order /\ o.status = "Open" /\ o.market_index = m
    BY <1>1 DEF Order, m
  <2> DEFINE x == q.positions[i]
             base == x.base_asset_amount + Signed(q.orders[k].direction, amount)
  <2>2. base \in Int
    BY <1>2 DEF Signed, MarketPosition
  <2>3. p = [x EXCEPT !.base_asset_amount = base, !.has_unsettled_pnl = unsettled]
    BY DEF trade
  <2>4. x \in MarketPosition /\ x.market_index = m
    BY <1>2 DEF is_for
  <2> HIDE DEF x, base, p
  <2>5. p \in MarketPosition /\ p.market_index = m /\ p.open_orders = x.open_orders
    BY <2>2, <2>3, <2>4 DEF MarketPosition
  <2>6. QED
    BY <2>1, <2>5 DEF x
<1> DEFINE base == q.positions[i].base_asset_amount + Signed(q.orders[k].direction, amount)
<1>6. p.base_asset_amount = base
  BY <1>2 DEF trade, MarketPosition
<1> HIDE DEF p
<1>7. q2.positions = [q.positions EXCEPT ![i] = p] /\ q2.next_order_id = q.next_order_id
       /\ q2.orders = [q.orders EXCEPT ![k] = o]
  BY <1>4
<1>8. BaseIn(q2, m) = base
  BY <1>2, <1>5, <1>6, <1>7, BaseInTouched
<1>9. BaseIn(q, m) = q.positions[i].base_asset_amount
  BY <1>2, BaseInSlot DEF is_for
<1> HIDE DEF o
<1>10. OpenOrdersIn(q2, m) = OpenOrdersIn(q, m) /\ k \in OpenOrdersIn(q2, m)
  BY <1>1, <1>4, <1>5 DEF OpenOrdersIn, SlotInv, User, m
<1>11. q.next_order_id \in Nat /\ q.positions[i].market_index = m
  BY <1>2 DEF SlotInv, User, is_for
<1>12. SlotInv(q2)
  BY <1>1, <1>2, <1>4, <1>5, <1>10, <1>11, SlotTouched DEF m
<1>13. q2.orders[k].market_index = m /\ q2.orders[k].status = "Open"
  BY <1>4, <1>5 DEF SlotInv, User
<1>14. CanCancel(q2, k)
  BY <1>1, <1>10, <1>12, <1>13 DEF CanCancel, SlotInv, Counted
<1>15. /\ SlotInv(remove_order(q2, k))
       /\ remove_order(q2, k).orders = [q.orders EXCEPT ![k] = DefaultOrder]
       /\ remove_order(q2, k).next_order_id = q.next_order_id
       /\ BaseIn(remove_order(q2, k), m) = base
  <2>1. [q2.orders EXCEPT ![k] = DefaultOrder] = [q.orders EXCEPT ![k] = DefaultOrder]
    BY <1>7 DEF SlotInv, User
  <2>2. QED
    BY <1>12, <1>13, <1>14, <1>7, <1>8, <2>1, OrderRemoved
<1> HIDE DEF base
<1>16. CASE fill(q, k, amount, unsettled) = remove_order(q2, k)
  BY <1>15, <1>16, <1>9 DEF base, m, FillOutcome
<1>17. CASE /\ fill(q, k, amount, unsettled) = q2
            /\ left_to_fill(q.orders[k]) # amount /\ q.orders[k].order_type # "Market"
  BY <1>12, <1>7, <1>8, <1>9, <1>17 DEF base, m, o, FillOutcome
<1>18. QED
  BY <1>3, <1>16, <1>17

(* The reward goes to a slot of the market and changes no order.           *)
LEMMA FillerRewarded ==
    ASSUME NEW q, SlotInv(q), NEW m \in Markets, HasRoom(q.positions, m),
           NEW unsettled \in BOOLEAN
    PROVE  SlotInv(reward(q, m, unsettled))
<1> DEFINE i == slot_index(q.positions, m)
           p0 == add_new_position(q.positions, m)[i]
           p == [p0 EXCEPT !.has_unsettled_pnl = unsettled]
<1>1. /\ i \in PositionSlots
      /\ p0 \in MarketPosition
      /\ p0.market_index = m
      /\ p0.open_orders = Cardinality(OpenOrdersIn(q, m))
      /\ is_available(q.positions[i]) \/ q.positions[i].market_index = m
      /\ \A j \in SlotsFor(q.positions, m) : j = i
      /\ \A x : [add_new_position(q.positions, m) EXCEPT ![i] = x]
                    = [q.positions EXCEPT ![i] = x]
  BY SlotAdded
<1>2. reward(q, m, unsettled) = [q EXCEPT !.positions = [q.positions EXCEPT ![i] = p]]
  <2>1. [add_new_position(q.positions, m) EXCEPT ![i].has_unsettled_pnl = unsettled]
            = [add_new_position(q.positions, m) EXCEPT ![i] = p]
    OBVIOUS
  <2>2. QED
    BY <1>1, <2>1 DEF reward
<1> HIDE DEF i, p0
<1>3. p \in MarketPosition /\ p.market_index = m /\ p.open_orders = p0.open_orders
  BY <1>1 DEF MarketPosition
<1> HIDE DEF p
<1>4. QED
  BY <1>1, <1>2, <1>3, PositionTouched

-----------------------------------------------------------------------------
(* The instructions.                                                       *)

SlotsInv ==
    /\ user \in [Users -> User]
    /\ \A u \in Users : SlotInv(user[u])
    /\ minimum_base_asset_trade_size \in [Markets -> MinSizes]
    /\ exchange_paused \in BOOLEAN

(* An instruction that replaces one account by a good one is good.         *)
LEMMA AccountUpdated ==
    ASSUME SlotsInv, NEW u \in Users, NEW q, SlotInv(q),
           user' = [user EXCEPT ![u] = q],
           UNCHANGED <<minimum_base_asset_trade_size, exchange_paused>>
    PROVE  SlotsInv'
<1>1. q \in User
  BY DEF SlotInv
<1>2. /\ user' \in [Users -> User]
      /\ \A v \in Users : user'[v] = IF v = u THEN q ELSE user[v]
  BY <1>1 DEF SlotsInv
<1>3. \A v \in Users : SlotInv(user'[v])
  BY <1>2 DEF SlotsInv
<1>4. QED
  BY <1>2, <1>3 DEF SlotsInv, SlotInv, User, Counted, Unsplit

(* After funding the account still satisfies the invariant.                *)
LEMMA AccountSettled ==
    ASSUME SlotsInv, NEW u \in Users, NEW q \in Accounts(u)
    PROVE  /\ SlotInv(q)
           /\ \A ps : [user[u] EXCEPT !.positions = ps] = [q EXCEPT !.positions = ps]
<1>1. PICK ps \in settle_funding(user[u].positions) : q = [user[u] EXCEPT !.positions = ps]
  BY DEF Accounts
<1>2. SlotInv(user[u]) /\ user[u] \in User
  BY DEF SlotsInv
<1>3. SlotInv(q)
  BY <1>1, <1>2, FundingSettled
<1>4. QED
  BY <1>1, <1>2, <1>3 DEF User

(* place_order preserves the invariant.                                    *)
LEMMA PlaceOrderInv ==
    ASSUME SlotsInv, NEW u \in Users, NEW params \in Params, place_order(u, params)
    PROVE  SlotsInv'
<1> DEFINE min == MinSize(params.market_index)
<1>1. min \in Nat
  BY OrdersAssumption DEF MinSize, SlotsInv, OrderParams
<1>2. PICK q \in Accounts(u) : CanPlace(q, params, min) /\ user' = [user EXCEPT ![u] = place(q, params, min)]
  BY DEF place_order
<1> HIDE DEF min
<1>3. SlotInv(place(q, params, min))
  BY <1>1, <1>2, AccountSettled, OrderPlaced
<1>4. QED
  BY <1>2, <1>3, AccountUpdated DEF place_order

(* Both ways of cancelling an order preserve the invariant.                *)
LEMMA CancelOrderInv ==
    ASSUME SlotsInv, NEW u \in Users, NEW id,
           cancel_order_by_order_id(u, id) \/ cancel_order_by_user_order_id(u, id)
    PROVE  SlotsInv'
<1>1. PICK q \in Accounts(u), S \in SUBSET OrderSlots :
         /\ S # {} /\ CanCancel(q, Min(S))
         /\ user' = [user EXCEPT ![u] = remove_order(q, Min(S))]
  BY DEF cancel_order_by_order_id, cancel_order_by_user_order_id
<1>2. S \in SUBSET Nat
  BY OrdersAssumption DEF OrderSlots
<1>3. Min(S) \in OrderSlots
  BY <1>1, <1>2, MinExists
<1>4. SlotInv(remove_order(q, Min(S)))
  BY <1>1, <1>3, AccountSettled, OrderRemoved
<1>5. QED
  BY <1>1, <1>4, AccountUpdated DEF cancel_order_by_order_id, cancel_order_by_user_order_id

(* fill_order preserves the invariant, for the user and the filler.        *)
LEMMA FillOrderInv ==
    ASSUME SlotsInv, NEW u \in Users, NEW filler \in Users, NEW id, NEW amount \in Nat,
           fill_order(u, filler, id, amount)
    PROVE  SlotsInv'
<1>1. PICK q \in Accounts(u), unsettled \in BOOLEAN, reward_unsettled \in BOOLEAN,
           S \in SUBSET OrderSlots :
         LET k == Min(S)
             m == q.orders[k].market_index
         IN /\ S # {}
            /\ CanFill(q, k, amount, MinSize(m))
            /\ IF filler = u
               THEN user' = [user EXCEPT ![u] = fill(q, k, amount, unsettled)]
               ELSE /\ HasRoom(user[filler].positions, m)
                    /\ user' = [user EXCEPT ![u] = fill(q, k, amount, unsettled),
                                            ![filler] = reward(@, m, reward_unsettled)]
  BY DEF fill_order
<1> DEFINE k == Min(S)
           m == q.orders[k].market_index
           q1 == fill(q, k, amount, unsettled)
           q2 == reward(user[filler], m, reward_unsettled)
<1>2. S \in SUBSET Nat
  BY OrdersAssumption DEF OrderSlots
<1>3. k \in OrderSlots
  BY <1>1, <1>2, MinExists
<1>4. SlotInv(q)
  BY AccountSettled
<1>5. m \in Markets
  BY <1>3, <1>4 DEF SlotInv, User, Order
<1>6. SlotInv(q1)
  BY <1>1, <1>3, <1>4, OrderFilled DEF FillOutcome
<1>7. UNCHANGED <<minimum_base_asset_trade_size, exchange_paused>>
  BY DEF fill_order
<1> HIDE DEF k
<1>8. CASE filler = u
  <2>1. user' = [user EXCEPT ![u] = q1]
    BY <1>1, <1>8 DEF k
  <2> HIDE DEF q1
  <2>2. QED
    BY <1>6, <1>7, <2>1, AccountUpdated
<1>9. CASE filler # u
  <2>1. SlotInv(user[filler])
    BY DEF SlotsInv
  <2>2. HasRoom(user[filler].positions, m)
    BY <1>1, <1>9 DEF k
  <2>3. SlotInv(q2)
    BY <1>5, <2>1, <2>2, FillerRewarded
  <2>4. user' = [user EXCEPT ![u] = q1, ![filler] = reward(@, m, reward_unsettled)]
    BY <1>1, <1>9 DEF k
  <2> HIDE DEF q1, m
  <2>5. user' = [user EXCEPT ![u] = q1, ![filler] = q2]
    BY <1>9, <2>4 DEF SlotsInv
  <2> HIDE DEF q2
  <2>6. q1 \in User /\ q2 \in User
    BY <1>6, <2>3 DEF SlotInv
  <2>7. /\ user' \in [Users -> User]
        /\ \A v \in Users : user'[v] = IF v = filler THEN q2 ELSE IF v = u THEN q1 ELSE user[v]
    BY <1>9, <2>5, <2>6 DEF SlotsInv
  <2>8. \A v \in Users : SlotInv(user'[v])
    BY <1>6, <2>3, <2>7 DEF SlotsInv
  <2>9. QED
    BY <1>7, <2>7, <2>8 DEF SlotsInv, SlotInv, User, Counted, Unsplit
<1>10. QED
  BY <1>8, <1>9

(* place_and_fill_order preserves it, cancelling or not.                   *)
LEMMA PlaceAndFillOrderInv ==
    ASSUME SlotsInv, NEW u \in Users, NEW params \in Params, NEW amount \in Nat,
           place_and_fill_order(u, params, amount)
    PROVE  SlotsInv'
<1> DEFINE min == MinSize(params.market_index)
<1>1. PICK q \in Accounts(u), unsettled \in BOOLEAN :
         LET i == Min(InitSlots(q))
             placed == place(q, params, min)
             filled == IF amount = 0 THEN placed ELSE fill(placed, i, amount, unsettled)
         IN /\ CanPlace(q, params, min)
            /\ amount # 0 => CanFill(placed, i, amount, min)
            /\ \/ CanCancel(filled, i) /\ user' = [user EXCEPT ![u] = remove_order(filled, i)]
               \/ user' = [user EXCEPT ![u] = filled]
  BY DEF place_and_fill_order
<1> DEFINE i == Min(InitSlots(q))
           placed == place(q, params, min)
           filled == IF amount = 0 THEN placed ELSE fill(placed, i, amount, unsettled)
<1>2. min \in Nat
  BY OrdersAssumption DEF MinSize, SlotsInv, OrderParams
<1>3. SlotInv(placed) /\ i \in OrderSlots
  BY <1>1, <1>2, AccountSettled, OrderPlaced
<1>4. /\ amount # 0 => CanFill(placed, i, amount, min)
      /\ \/ CanCancel(filled, i) /\ user' = [user EXCEPT ![u] = remove_order(filled, i)]
         \/ user' = [user EXCEPT ![u] = filled]
  BY <1>1
<1> HIDE DEF i, placed, min
<1>5. SlotInv(filled)
  BY <1>3, <1>4, OrderFilled DEF FillOutcome
<1> HIDE DEF filled
<1>6. UNCHANGED <<minimum_base_asset_trade_size, exchange_paused>>
  BY DEF place_and_fill_order
<1>7. CanCancel(filled, i) => SlotInv(remove_order(filled, i))
  BY <1>3, <1>5, OrderRemoved
<1>8. QED
  BY <1>4, <1>5, <1>6, <1>7, AccountUpdated

(* open_position preserves the invariant.                                  *)
LEMMA OpenPositionInv ==
    ASSUME SlotsInv, NEW u \in Users, NEW m \in Markets, NEW direction \in Direction,
           NEW amount \in Nat, open_position(u, m, direction, amount)
    PROVE  SlotsInv'
<1>1. PICK q \in Accounts(u), unsettled \in BOOLEAN :
         LET i == slot_index(q.positions, m)
         IN /\ HasRoom(q.positions, m)
            /\ user' = [user EXCEPT ![u].positions = [add_new_position(q.positions, m) EXCEPT
                           ![i] = trade(@, direction, amount, unsettled)]]
  BY DEF open_position
<1> DEFINE i == slot_index(q.positions, m)
           p0 == add_new_position(q.positions, m)[i]
           p == trade(p0, direction, amount, unsettled)
           q2 == [q EXCEPT !.positions = [q.positions EXCEPT ![i] = p]]
<1>2. SlotInv(q) /\ \A ps : [user[u] EXCEPT !.positions = ps] = [q EXCEPT !.positions = ps]
  BY AccountSettled
<1>3. /\ i \in PositionSlots
      /\ p0 \in MarketPosition
      /\ p0.market_index = m
      /\ p0.open_orders = Cardinality(OpenOrdersIn(q, m))
      /\ is_available(q.positions[i]) \/ q.positions[i].market_index = m
      /\ \A j \in SlotsFor(q.positions, m) : j = i
      /\ \A x : [add_new_position(q.positions, m) EXCEPT ![i] = x]
                    = [q.positions EXCEPT ![i] = x]
  BY <1>1, <1>2, SlotAdded
<1>4. user' = [user EXCEPT ![u].positions = [q.positions EXCEPT ![i] = p]]
  BY <1>1, <1>3
<1> HIDE DEF i, p0
<1>5. p \in MarketPosition /\ p.market_index = m /\ p.open_orders = p0.open_orders
  <2> DEFINE base == p0.base_asset_amount + Signed(direction, amount)
  <2>1. base \in Int
    BY <1>3 DEF Signed, MarketPosition
  <2>2. p = [p0 EXCEPT !.base_asset_amount = base, !.has_unsettled_pnl = unsettled]
    BY DEF trade
  <2> HIDE DEF base, p
  <2>3. QED
    BY <1>3, <2>1, <2>2 DEF MarketPosition
<1> HIDE DEF p
<1>6. SlotInv(q2)
  BY <1>2, <1>3, <1>5, PositionTouched
<1>7. user' = [user EXCEPT ![u] = q2]
  BY <1>2, <1>4
<1> HIDE DEF q2
<1>8. QED
  BY <1>6, <1>7, AccountUpdated DEF open_position

(* close_position preserves the invariant.                                 *)
LEMMA ClosePositionInv ==
    ASSUME SlotsInv, NEW u \in Users, NEW m \in Markets, close_position(u, m)
    PROVE  SlotsInv'
<1>1. PICK q \in Accounts(u), unsettled \in BOOLEAN :
         LET i == get_position_index(q.positions, m)
             p == q.positions[i]
         IN /\ SlotsFor(q.positions, m) # {}
            /\ user' = [user EXCEPT ![u].positions = [q.positions EXCEPT ![i] =
                  [p EXCEPT !.base_asset_amount = 0,
                            !.has_unsettled_pnl = IF p.base_asset_amount = 0 THEN @
                                                  ELSE unsettled]]]
  BY DEF close_position
<1> DEFINE i == get_position_index(q.positions, m)
           x == q.positions[i]
<1>2. SlotInv(q) /\ \A ps : [user[u] EXCEPT !.positions = ps] = [q EXCEPT !.positions = ps]
  BY AccountSettled
<1>3. /\ i \in PositionSlots
      /\ is_for(x, m)
      /\ x \in MarketPosition
      /\ x.open_orders = Cardinality(OpenOrdersIn(q, m))
      /\ \A j \in SlotsFor(q.positions, m) : j = i
  BY <1>1, <1>2, SlotFound
<1>4. PICK b \in BOOLEAN : user' = [user EXCEPT ![u].positions = [q.positions EXCEPT ![i] =
                               [x EXCEPT !.base_asset_amount = 0, !.has_unsettled_pnl = b]]]
  <2>1. (IF x.base_asset_amount = 0 THEN x.has_unsettled_pnl ELSE unsettled) \in BOOLEAN
    BY <1>3 DEF MarketPosition
  <2>2. QED
    BY <1>1, <2>1, Zenon
<1> DEFINE p == [x EXCEPT !.base_asset_amount = 0, !.has_unsettled_pnl = b]
           q2 == [q EXCEPT !.positions = [q.positions EXCEPT ![i] = p]]
<1> HIDE DEF i
<1>5. x.market_index = m
  BY <1>3 DEF is_for
<1>6. user' = [user EXCEPT ![u] = q2]
  BY <1>2, <1>4
<1>7. /\ p \in MarketPosition
      /\ p.market_index = m
      /\ p.open_orders = Cardinality(OpenOrdersIn(q, m))
  <2> HIDE DEF x
  <2>1. x \in MarketPosition /\ x.open_orders = Cardinality(OpenOrdersIn(q, m))
    BY <1>3
  <2>2. 0 \in Int
    OBVIOUS
  <2>3. /\ p \in MarketPosition
        /\ p.market_index = x.market_index
        /\ p.open_orders = x.open_orders
    BY <2>1, <2>2, PositionTraded, Zenon
  <2>4. QED
    BY <1>5, <2>1, <2>3
<1> HIDE DEF p
<1>8. SlotInv(q2)
  BY <1>2, <1>3, <1>5, <1>7, PositionTouched
<1> HIDE DEF q2
<1>9. QED
  BY <1>6, <1>8, AccountUpdated DEF close_position

(* settle_pnl preserves the invariant, though it may free the slot.        *)
LEMMA SettlePnlInv ==
    ASSUME SlotsInv, NEW u \in Users, NEW m \in Markets, settle_pnl(u, m)
    PROVE  SlotsInv'
<1> DEFINE q == user[u]
           i == get_position_index(q.positions, m)
<1>1. SlotsFor(q.positions, m) # {}
  BY DEF settle_pnl
<1>2. PICK unsettled \in BOOLEAN :
         user' = [user EXCEPT ![u].positions[i].has_unsettled_pnl = unsettled]
  BY DEF settle_pnl
<1> DEFINE p == [q.positions[i] EXCEPT !.has_unsettled_pnl = unsettled]
           q2 == [q EXCEPT !.positions = [q.positions EXCEPT ![i] = p]]
<1>3. SlotInv(q)
  BY DEF SlotsInv
<1>4. /\ i \in PositionSlots
      /\ is_for(q.positions[i], m)
      /\ q.positions[i] \in MarketPosition
      /\ q.positions[i].open_orders = Cardinality(OpenOrdersIn(q, m))
      /\ \A j \in SlotsFor(q.positions, m) : j = i
  BY <1>1, <1>3, SlotFound
<1> HIDE DEF i
<1>5. user' = [user EXCEPT ![u] = q2]
  BY <1>2
<1>6. /\ p \in MarketPosition /\ p.market_index = m /\ p.open_orders = q.positions[i].open_orders
      /\ q.positions[i].market_index = m
  BY <1>4 DEF MarketPosition, is_for
<1> HIDE DEF p, q
<1>7. SlotInv(q2)
  BY <1>3, <1>4, <1>6, PositionTouched
<1> HIDE DEF q2
<1>8. QED
  BY <1>5, <1>7, AccountUpdated DEF settle_pnl

(* liquidate preserves the invariant.                                      *)
LEMMA LiquidateInv ==
    ASSUME SlotsInv, NEW u \in Users, NEW base \in [PositionSlots -> Int], liquidate(u, base)
    PROVE  SlotsInv'
<1>1. PICK q \in Accounts(u), unsettled \in [PositionSlots -> BOOLEAN] :
         /\ \A i \in PositionSlots : base[i] \in Smaller(q.positions[i].base_asset_amount)
         /\ user' = [user EXCEPT ![u].positions = [i \in PositionSlots |->
                IF base[i] = q.positions[i].base_asset_amount THEN q.positions[i]
                ELSE [q.positions[i] EXCEPT !.base_asset_amount = base[i],
                                            !.has_unsettled_pnl = unsettled[i]]]]
  BY DEF liquidate
<1> DEFINE ps == [i \in PositionSlots |->
                    IF base[i] = q.positions[i].base_asset_amount THEN q.positions[i]
                    ELSE [q.positions[i] EXCEPT !.base_asset_amount = base[i],
                                                !.has_unsettled_pnl = unsettled[i]]]
           q2 == [q EXCEPT !.positions = ps]
<1>2. SlotInv(q) /\ \A x : [user[u] EXCEPT !.positions = x] = [q EXCEPT !.positions = x]
  BY AccountSettled
<1>3. q.positions \in [PositionSlots -> MarketPosition]
  BY <1>2 DEF SlotInv, User
<1>4. ASSUME NEW i \in PositionSlots
      PROVE  /\ ps[i] \in MarketPosition
             /\ ps[i].market_index = q.positions[i].market_index
             /\ ps[i].open_orders = q.positions[i].open_orders
             /\ is_available(q.positions[i]) => ps[i] = q.positions[i]
  <2> DEFINE x == q.positions[i]
             y == [x EXCEPT !.base_asset_amount = base[i], !.has_unsettled_pnl = unsettled[i]]
  <2>1. x \in MarketPosition /\ base[i] \in Int /\ unsettled[i] \in BOOLEAN
    BY <1>3
  <2>2. ps[i] = IF base[i] = x.base_asset_amount THEN x ELSE y
    OBVIOUS
  <2>3. base[i] \in Smaller(x.base_asset_amount)
    BY <1>1
  <2> HIDE DEF x, ps
  <2>4. is_available(x) => base[i] = x.base_asset_amount
    BY <2>1, <2>3 DEF is_available, Smaller
  <2>5. y \in MarketPosition /\ y.market_index = x.market_index /\ y.open_orders = x.open_orders
    BY <2>1, PositionTraded
  <2> HIDE DEF y
  <2>6. QED
    BY <2>1, <2>2, <2>4, <2>5 DEF x
<1>5. ps \in [PositionSlots -> MarketPosition]
  BY <1>4
<1>6. user' = [user EXCEPT ![u] = q2]
  <2>1. user' = [user EXCEPT ![u].positions = ps]
    BY <1>1
  <2> HIDE DEF ps
  <2>2. QED
    BY <1>2, <2>1
<1> HIDE DEF ps
<1>7. SlotInv(q2)
  BY <1>2, <1>4, <1>5, SlotsRewritten
<1> HIDE DEF q2
<1>8. QED
  BY <1>6, <1>7, AccountUpdated DEF liquidate

-----------------------------------------------------------------------------
(* A new account satisfies the invariant.                                  *)
LEMMA SlotsInvInit == Init => SlotsInv
<1> SUFFICES ASSUME Init PROVE SlotsInv
  OBVIOUS
<1>1. SomeMarket \in Markets
  BY OrdersAssumption DEF SomeMarket
<1>2. NewPosition(SomeMarket) \in MarketPosition /\ is_available(NewPosition(SomeMarket))
  BY <1>1 DEF NewPosition, MarketPosition, is_available
<1>3. DefaultOrder \in Order /\ DefaultOrder.status = "Init"
  BY <1>1 DEF DefaultOrder, Order, Direction
<1>4. InitUser \in User
  BY <1>2, <1>3 DEF InitUser, User
<1>5. /\ \A i \in PositionSlots : is_available(InitUser.positions[i])
      /\ \A m : OpenOrdersIn(InitUser, m) = {}
  BY <1>2, <1>3 DEF InitUser, OpenOrdersIn
<1>6. SlotInv(InitUser)
  BY <1>4, <1>5 DEF SlotInv, Counted, Unsplit
<1>7. QED
  BY <1>4, <1>6 DEF Init, SlotsInv

(* Every instruction preserves the invariant.                              *)
LEMMA SlotsInvNext == SlotsInv /\ [Next]_vars => SlotsInv'
<1> SUFFICES ASSUME SlotsInv, [Next]_vars PROVE SlotsInv'
  OBVIOUS
<1> MaxBase \in Nat /\ 0 .. 2 * MaxBase \subseteq Nat /\ 1 .. 2 * MaxBase \subseteq Nat
  BY OrdersAssumption
<1>1. ASSUME NEW u \in Users, NEW params \in Params, place_order(u, params) PROVE SlotsInv'
  BY <1>1, PlaceOrderInv
<1>2. ASSUME NEW u \in Users, NEW params \in Params, NEW amount \in 0 .. 2 * MaxBase,
             place_and_fill_order(u, params, amount)
      PROVE  SlotsInv'
  BY <1>2, PlaceAndFillOrderInv
<1>3. ASSUME NEW u \in Users, NEW id,
             cancel_order_by_order_id(u, id) \/ cancel_order_by_user_order_id(u, id)
      PROVE  SlotsInv'
  BY <1>3, CancelOrderInv
<1>4. ASSUME NEW u \in Users, NEW filler \in Users, NEW id, NEW amount \in 1 .. 2 * MaxBase,
             fill_order(u, filler, id, amount)
      PROVE  SlotsInv'
  BY <1>4, FillOrderInv
<1>5. ASSUME NEW u \in Users, NEW m \in Markets, NEW direction \in Direction,
             NEW amount \in 0 .. 2 * MaxBase, open_position(u, m, direction, amount)
      PROVE  SlotsInv'
  BY <1>5, OpenPositionInv
<1>6. ASSUME NEW u \in Users, NEW m \in Markets, close_position(u, m) PROVE SlotsInv'
  BY <1>6, ClosePositionInv
<1>7. ASSUME NEW u \in Users, NEW m \in Markets, settle_pnl(u, m) PROVE SlotsInv'
  BY <1>7, SettlePnlInv
<1>8. ASSUME NEW u \in Users, NEW base \in [PositionSlots -> - MaxBase .. MaxBase],
             liquidate(u, base)
      PROVE  SlotsInv'
  <2>1. base \in [PositionSlots -> Int]
    <3>1. - MaxBase .. MaxBase \subseteq Int
      OBVIOUS
    <3>2. QED
      BY <3>1
  <2>2. QED
    BY <1>8, <2>1, LiquidateInv
<1>9. ASSUME NEW u \in Users, settle_funding_payment(u) PROVE SlotsInv'
  <2>1. PICK q \in Accounts(u) : user' = [user EXCEPT ![u] = q]
    BY <1>9 DEF settle_funding_payment
  <2>2. QED
    BY <1>9, <2>1, AccountSettled, AccountUpdated DEF settle_funding_payment
<1>10. ASSUME NEW m \in Markets, NEW min \in MinSizes,
              update_market_minimum_base_asset_trade_size(m, min)
       PROVE  SlotsInv'
  BY <1>10 DEF update_market_minimum_base_asset_trade_size, SlotsInv, SlotInv, User, Counted,
               Unsplit
<1>11. CASE update_exchange_paused
  BY <1>11 DEF update_exchange_paused, SlotsInv, SlotInv, User, Counted, Unsplit
<1>12. CASE UNCHANGED vars
  BY <1>12 DEF vars, SlotsInv, SlotInv, User, Counted, Unsplit
<1>13. QED
  BY <1>1, <1>2, <1>3, <1>4, <1>5, <1>6, <1>7, <1>8, <1>9, <1>10, <1>11, <1>12 DEF Next

(* Every value keeps its type through every instruction; in particular     *)
(* open_orders never goes below zero where cancelling or filling an order  *)
(* subtracts from it.                                                      *)
THEOREM TypeCorrect == Spec => []TypeOK
<1>1. SlotsInv => TypeOK
  BY DEF SlotsInv, TypeOK
<1>2. QED
  BY <1>1, SlotsInvInit, SlotsInvNext, PTL DEF Spec

(* However orders are placed, filled, cancelled and rounded, and positions *)
(* traded, closed, liquidated and settled, every slot in use counts        *)
(* exactly the open orders of its market and every open order has a slot.  *)
THEOREM OrdersCounted == Spec => []OpenOrdersCounted
<1>1. SlotsInv => OpenOrdersCounted
  BY DEF SlotsInv, SlotInv, OpenOrdersCounted
<1>2. QED
  BY <1>1, SlotsInvInit, SlotsInvNext, PTL DEF Spec

(* A user never has two slots in use for one market, whichever slots are   *)
(* freed by closing and settling and taken over by other markets.          *)
THEOREM PositionsUnsplit == Spec => []OnePositionPerMarket
<1>1. SlotsInv => OnePositionPerMarket
  BY DEF SlotsInv, SlotInv, OnePositionPerMarket
<1>2. QED
  BY <1>1, SlotsInvInit, SlotsInvNext, PTL DEF Spec

-----------------------------------------------------------------------------
(* The order book.  Its invariant, for one account: ids are as Addressable *)
(* says, and orders are as RestingOrders wants them between instructions.  *)
(* Inside place_and_fill_order the latter holds of all slots but the one   *)
(* of the new order.                                                       *)

Resting(order) ==
    order.status = "Open" =>
        /\ order.order_type = "Limit"
        /\ left_to_fill(order) > 0
        /\ order.immediate_or_cancel => order.reduce_only /\ order.base_asset_amount_filled > 0

BookBut(q, k) ==
    /\ Addressable(q)
    /\ q.next_order_id > 0
    /\ \A i \in OrderSlots \ {k} : Resting(q.orders[i])

BookInv(q) ==
    /\ Addressable(q)
    /\ q.next_order_id > 0
    /\ \A i \in OrderSlots : Resting(q.orders[i])

LEMMA DefaultOrderFacts ==
    /\ DefaultOrder \in Order /\ DefaultOrder.status = "Init"
    /\ DefaultOrder.order_id = 0 /\ DefaultOrder.user_order_id = 0
    /\ DefaultOrder.base_asset_amount_filled = 0 /\ ~ DefaultOrder.reduce_only
BY OrdersAssumption DEF DefaultOrder, Order, SomeMarket, Direction

(* An order taken out of the book.                                         *)
LEMMA BookCleared ==
    ASSUME NEW q \in User, NEW k \in OrderSlots, BookBut(q, k), NEW q2 \in User,
           q2.orders = [q.orders EXCEPT ![k] = DefaultOrder],
           q2.next_order_id = q.next_order_id
    PROVE  BookInv(q2)
<1>1. /\ q2.orders[k] = DefaultOrder
      /\ \A i \in OrderSlots \ {k} : q2.orders[i] = q.orders[i]
  BY DEF User
<1>2. q.next_order_id \in Nat
  BY DEF User
<1>3. Addressable(q2)
  BY <1>1, <1>2, DefaultOrderFacts DEF BookBut, Addressable
<1>4. \A i \in OrderSlots : Resting(q2.orders[i])
  BY <1>1, DefaultOrderFacts DEF BookBut, Resting
<1>. QED  BY <1>3, <1>4 DEF BookBut, BookInv

(* An open order that keeps its ids.                                       *)
LEMMA BookAmended ==
    ASSUME NEW q \in User, NEW k \in OrderSlots, BookBut(q, k), NEW q2 \in User, NEW o,
           q2.orders = [q.orders EXCEPT ![k] = o],
           q2.next_order_id = q.next_order_id,
           q.orders[k].status = "Open", o.status = "Open",
           o.order_id = q.orders[k].order_id, o.user_order_id = q.orders[k].user_order_id
    PROVE  BookBut(q2, k) /\ (Resting(o) => BookInv(q2))
<1>1. /\ q2.orders[k] = o
      /\ \A i \in OrderSlots \ {k} : q2.orders[i] = q.orders[i]
  BY DEF User
<1>2. Addressable(q2)
  BY <1>1 DEF BookBut, Addressable
<1>. QED  BY <1>1, <1>2 DEF BookBut, BookInv

(* A new order, with the counter's id and a user id no slot has.           *)
LEMMA BookEntered ==
    ASSUME NEW q \in User, NEW k \in OrderSlots, BookInv(q), NEW q2 \in User, NEW o \in Order,
           q2.orders = [q.orders EXCEPT ![k] = o],
           q2.next_order_id = q.next_order_id + 1,
           o.status = "Open", o.order_id = q.next_order_id,
           o.user_order_id > 0 =>
              \A i \in OrderSlots : q.orders[i].user_order_id # o.user_order_id
    PROVE  BookBut(q2, k) /\ (Resting(o) => BookInv(q2))
<1>1. /\ q2.orders[k] = o
      /\ \A i \in OrderSlots \ {k} : q2.orders[i] = q.orders[i]
  BY DEF User
<1>2. q.next_order_id \in Nat \ {0} /\ o.user_order_id \in Nat
  BY DEF User, BookInv, Order
<1>3. \A i \in OrderSlots : q.orders[i].status \in {"Init", "Open"}
  BY DEF User, Order
<1>4. \A i \in OrderSlots : q.orders[i].order_id \in 0 .. q.next_order_id - 1
  BY <1>2, <1>3, DefaultOrderFacts DEF BookInv, Addressable
<1>5. ASSUME NEW i \in OrderSlots, q2.orders[i].status = "Open"
      PROVE  /\ q2.orders[i].order_id \in 1 .. q2.next_order_id - 1
             /\ \A j \in OrderSlots \ {i} :
                   /\ q2.orders[j].order_id # q2.orders[i].order_id
                   /\ q2.orders[i].user_order_id # 0
                         => q2.orders[j].user_order_id # q2.orders[i].user_order_id
  <2>1. CASE i = k
    BY <1>1, <1>2, <1>4, <2>1
  <2>2. CASE i # k
    <3>1. /\ q.orders[i].status = "Open" /\ q2.orders[i] = q.orders[i]
          /\ q.orders[i].order_id \in 1 .. q.next_order_id - 1
      BY <1>1, <1>5, <2>2 DEF BookInv, Addressable
    <3>2. ASSUME NEW j \in OrderSlots \ {i}
          PROVE  /\ q2.orders[j].order_id # q2.orders[i].order_id
                 /\ q2.orders[i].user_order_id # 0
                       => q2.orders[j].user_order_id # q2.orders[i].user_order_id
      <4>1. CASE j = k
        BY <1>1, <1>2, <3>1, <4>1
      <4>2. CASE j # k
        BY <1>1, <3>1, <4>2 DEF BookInv, Addressable
      <4>. QED  BY <4>1, <4>2
    <3>. QED  BY <1>2, <3>1, <3>2
  <2>. QED  BY <2>1, <2>2
<1>6. ASSUME NEW i \in OrderSlots, q2.orders[i].status = "Init" PROVE q2.orders[i] = DefaultOrder
  BY <1>1, <1>6 DEF BookInv, Addressable
<1>7. Addressable(q2)
  BY <1>5, <1>6 DEF Addressable
<1>. QED  BY <1>1, <1>2, <1>7 DEF BookInv, BookBut

-----------------------------------------------------------------------------
(* Settling funding leaves orders and bases as they are.                   *)
LEMMA SettledBook ==
    ASSUME SlotsInv, NEW u \in Users, NEW q \in Accounts(u)
    PROVE  /\ q.orders = user[u].orders /\ q.next_order_id = user[u].next_order_id
           /\ \A m : BaseIn(q, m) = BaseIn(user[u], m)
<1>1. PICK ps \in settle_funding(user[u].positions) : q = [user[u] EXCEPT !.positions = ps]
  BY DEF Accounts
<1>2. user[u] \in User
  BY DEF SlotsInv
<1>3. q.orders = user[u].orders /\ q.next_order_id = user[u].next_order_id /\ q.positions = ps
  BY <1>1, <1>2 DEF User
<1>4. PICK unsettled \in [PositionSlots -> BOOLEAN] :
         ps = [i \in PositionSlots |->
                 IF user[u].positions[i].base_asset_amount = 0 THEN user[u].positions[i]
                 ELSE [user[u].positions[i] EXCEPT !.has_unsettled_pnl = unsettled[i]]]
  BY DEF settle_funding
<1>5. ASSUME NEW i \in PositionSlots
      PROVE  /\ ps[i].market_index = user[u].positions[i].market_index
             /\ ps[i].base_asset_amount = user[u].positions[i].base_asset_amount
             /\ is_available(ps[i]) <=> is_available(user[u].positions[i])
  <2>1. user[u].positions[i] \in MarketPosition
    BY <1>2 DEF User
  <2>. QED  BY <1>4, <2>1 DEF MarketPosition, is_available
<1>6. ASSUME NEW m PROVE BaseIn(q, m) = BaseIn(user[u], m)
  <2>1. SlotsFor(ps, m) = SlotsFor(user[u].positions, m)
    BY <1>5 DEF SlotsFor, is_for
  <2>2. CASE SlotsFor(ps, m) = {}
    BY <1>3, <2>1, <2>2 DEF BaseIn
  <2>3. CASE SlotsFor(ps, m) # {}
    <3>1. SlotsFor(ps, m) \in SUBSET Nat
      BY OrdersAssumption DEF SlotsFor, PositionSlots
    <3>2. get_position_index(ps, m) \in PositionSlots
      BY <2>3, <3>1, MinExists DEF get_position_index, SlotsFor
    <3>3. get_position_index(ps, m) = get_position_index(user[u].positions, m)
      BY <2>1 DEF get_position_index
    <3>. QED  BY <1>3, <1>5, <2>1, <2>3, <3>2, <3>3 DEF BaseIn
  <2>. QED  BY <2>2, <2>3
<1>. QED  BY <1>3, <1>6

-----------------------------------------------------------------------------
(* What an instruction may do to one order, and at the same time to the    *)
(* base of its market.                                                     *)

Filled(old, new, before, after, min) ==
    \E amount \in Nat :
        /\ old.status = "Open"
        /\ amount \in execute_order(old, before, min)
        /\ after = before + Signed(old.direction, amount)
        /\ \/ new = DefaultOrder
           \/ /\ left_to_fill(old) # amount
              /\ new = [old EXCEPT !.base_asset_amount_filled = @ + amount]

OrderStep(old, new, before, after, min) ==
    \/ new = old
    \/ old = DefaultOrder /\ new.order_id # 0
    \/ old.status = "Open" /\ new = DefaultOrder /\ after = before
    \/ Filled(old, new, before, after, min)

AccountStep(q, q2) ==
    \A i \in OrderSlots : LET m == q.orders[i].market_index IN
        OrderStep(q.orders[i], q2.orders[i], BaseIn(q, m), BaseIn(q2, m), MinSize(m))

(* The invariant and the step relation, of account u in a step.            *)
GoodStep(u) == BookInv(user'[u]) /\ AccountStep(user[u], user'[u])

BooksInv == SlotsInv /\ \A u \in Users : BookInv(user[u])

(* An account whose orders do not change.                                  *)
LEMMA OrdersKept ==
    ASSUME BooksInv, NEW u \in Users,
           user'[u].orders = user[u].orders, user'[u].next_order_id = user[u].next_order_id
    PROVE  GoodStep(u)
<1>1. BookInv(user'[u])
  BY DEF BooksInv, BookInv, Addressable
<1>2. AccountStep(user[u], user'[u])
  BY DEF AccountStep, OrderStep
<1>. QED  BY <1>1, <1>2 DEF GoodStep

(* An account of which one order changes, k.                               *)
LEMMA OneOrderStep ==
    ASSUME BooksInv, NEW u \in Users, NEW k \in OrderSlots, NEW o,
           user'[u].orders = [user[u].orders EXCEPT ![k] = o],
           LET old == user[u].orders[k]
               m == old.market_index
           IN OrderStep(old, o, BaseIn(user[u], m), BaseIn(user'[u], m), MinSize(m))
    PROVE  AccountStep(user[u], user'[u])
<1>1. user[u].orders \in [OrderSlots -> Order]
  BY DEF BooksInv, SlotsInv, User
<1>2. /\ user'[u].orders[k] = o
      /\ \A i \in OrderSlots \ {k} : user'[u].orders[i] = user[u].orders[i]
  BY <1>1
<1>. QED  BY <1>2 DEF AccountStep, OrderStep

LEMMA BookInvBut ==
    ASSUME NEW q, BookInv(q), NEW k
    PROVE  BookBut(q, k)
BY DEF BookInv, BookBut

(* A resting order filled but not ended still rests: a size that           *)
(* execute_non_market_order gives is no more than what is left.            *)
LEMMA ExecutedSize ==
    ASSUME NEW order \in Order, order.order_type = "Limit", left_to_fill(order) > 0,
           NEW base \in Int, NEW min \in Nat \ {0},
           NEW amount \in execute_order(order, base, min)
    PROVE  /\ amount \in Nat \ {0}
           /\ amount =< left_to_fill(order)
           /\ amount = left_to_fill(order) \/ left_to_fill(order) - amount >= min
           /\ order.reduce_only =>
                /\ Reduces(order.direction, base)
                /\ amount < Size(base) + min
                /\ amount =< Size(base) \/ order.direction = "Short"
<1>. DEFINE left == left_to_fill(order)
            executable == IF order.reduce_only
                          THEN reduce_only_amount(left, order.direction, base) ELSE left
<1>1. left \in Nat \ {0} /\ Size(base) \in Nat /\ order.reduce_only \in BOOLEAN
  BY DEF Order, left_to_fill, Size
<1>2. PICK x \in min .. executable : amount = IF left - x < min THEN left ELSE x
  BY DEF execute_order, execute_non_market_order
<1>3. ~ order.reduce_only \/ amount =< Size(base) \/ order.direction = "Short"
  BY DEF execute_order, execute_non_market_order
<1>4. /\ executable \in Nat /\ executable =< left
      /\ order.reduce_only => executable = 0 \/ Reduces(order.direction, base)
      /\ order.reduce_only => executable =< Size(base)
  <2>1. ASSUME order.reduce_only, Reduces(order.direction, base)
        PROVE  executable \in Nat /\ executable =< left /\ executable =< Size(base)
    <3>1. executable = Min({left, Size(base)})
      BY <2>1 DEF reduce_only_amount
    <3>2. PICK y \in {left, Size(base)} : \A z \in {left, Size(base)} : y =< z
      BY <1>1
    <3>3. /\ Min({left, Size(base)}) \in {left, Size(base)}
          /\ \A z \in {left, Size(base)} : Min({left, Size(base)}) =< z
      <4>. HIDE DEF left
      <4>. QED  BY <3>2 DEF Min
    <3>. HIDE DEF left, executable
    <3>. QED  BY <1>1, <3>1, <3>3
  <2>2. ASSUME order.reduce_only, ~ Reduces(order.direction, base) PROVE executable = 0
    BY <2>2 DEF reduce_only_amount
  <2>3. ASSUME ~ order.reduce_only PROVE executable = left
    BY <2>3
  <2>. HIDE DEF left, executable
  <2>. QED  BY <1>1, <2>1, <2>2, <2>3
<1>. HIDE DEF executable, left
<1>5. x \in Nat \ {0} /\ x =< executable /\ min =< x
  BY <1>2, <1>4
<1>6. /\ amount \in Nat \ {0} /\ amount =< left
      /\ amount = left \/ left - amount >= min
      /\ amount =< x \/ amount < x + min
  BY <1>1, <1>2, <1>4, <1>5
<1>7. ASSUME order.reduce_only
      PROVE  Reduces(order.direction, base) /\ amount < Size(base) + min
  BY <1>1, <1>4, <1>5, <1>6, <1>7
<1>. QED  BY <1>3, <1>6, <1>7 DEF left

-----------------------------------------------------------------------------
(* The instructions, on the order books.                                   *)

LEMMA OthersKept ==
    ASSUME BooksInv, NEW u \in Users, NEW q, user' = [user EXCEPT ![u] = q],
           user'[u] = q => GoodStep(u)
    PROVE  \A v \in Users : GoodStep(v)
<1>1. user'[u] = q /\ \A v \in Users \ {u} : user'[v] = user[v]
  BY DEF BooksInv, SlotsInv
<1>2. \A v \in Users \ {u} : GoodStep(v)
  BY <1>1, OrdersKept
<1>. QED  BY <1>1, <1>2

(* Settling funding first makes no difference to the book.                 *)
LEMMA BookSettled ==
    ASSUME BooksInv, NEW u \in Users, NEW q \in Accounts(u)
    PROVE  /\ SlotInv(q) /\ q \in User /\ BookInv(q)
           /\ q.orders = user[u].orders /\ q.next_order_id = user[u].next_order_id
           /\ \A m : BaseIn(q, m) = BaseIn(user[u], m)
<1>1. SlotInv(q) /\ q \in User
  BY AccountSettled DEF BooksInv, SlotInv
<1>2. /\ q.orders = user[u].orders /\ q.next_order_id = user[u].next_order_id
      /\ \A m : BaseIn(q, m) = BaseIn(user[u], m)
  BY SettledBook DEF BooksInv
<1>3. BookInv(q)
  BY <1>2 DEF BooksInv, BookInv, Addressable
<1>. QED  BY <1>1, <1>2, <1>3

LEMMA MinSizePositive ==
    ASSUME SlotsInv, NEW m \in Markets
    PROVE  MinSize(m) \in Nat \ {0}
BY OrdersAssumption DEF MinSize, SlotsInv

(* A new order, whatever becomes of it before the instruction ends.        *)
LEMMA BookPlaced ==
    ASSUME NEW q \in User, SlotInv(q), BookInv(q), NEW params \in Params,
           NEW min \in Nat \ {0}, CanPlace(q, params, min)
    PROVE  LET k == Min(InitSlots(q))
               o == NewOrder(q, params, min)
               placed == place(q, params, min)
           IN /\ k \in OrderSlots /\ q.orders[k] = DefaultOrder
              /\ placed \in User /\ SlotInv(placed) /\ BookBut(placed, k)
              /\ Resting(o) => BookInv(placed)
              /\ placed.orders = [q.orders EXCEPT ![k] = o]
              /\ placed.orders[k] = o
              /\ o \in Order /\ o.status = "Open" /\ o.order_id # 0
              /\ o.order_type = params.order_type
              /\ o.immediate_or_cancel = params.immediate_or_cancel
              /\ o.reduce_only = params.reduce_only
              /\ o.base_asset_amount_filled = 0
              /\ o.order_type # "Market" => o.base_asset_amount >= min
              /\ o.base_asset_amount # params.base_asset_amount =>
                    params.reduce_only /\ params.base_asset_amount # 0
<1>. DEFINE k == Min(InitSlots(q))
            o == NewOrder(q, params, min)
            placed == place(q, params, min)
<1>1. /\ SlotInv(placed) /\ k \in OrderSlots /\ q.orders[k].status = "Init"
      /\ placed.orders = [q.orders EXCEPT ![k] = o]
      /\ placed.next_order_id = q.next_order_id + 1 /\ o \in Order
  BY OrderPlaced
<1>2. /\ o.status = "Open" /\ o.order_id = q.next_order_id
      /\ o.order_type = params.order_type /\ o.user_order_id = params.user_order_id
      /\ o.immediate_or_cancel = params.immediate_or_cancel
      /\ o.reduce_only = params.reduce_only
      /\ o.base_asset_amount_filled = 0
      /\ o.base_asset_amount # params.base_asset_amount =>
            params.reduce_only /\ params.base_asset_amount # 0
  BY DEF NewOrder, get_base_asset_amount_for_order
<1>3. /\ params.user_order_id > 0 =>
            \A i \in OrderSlots : q.orders[i].user_order_id # params.user_order_id
      /\ validate_order(o, min)
  BY DEF CanPlace
<1>4. q.orders[k] = DefaultOrder /\ q.next_order_id \in Nat \ {0}
  <2>1. q.orders[k].status = "Init" => q.orders[k] = DefaultOrder
    BY <1>1 DEF BookInv, Addressable
  <2>2. q.next_order_id \in Nat \ {0}
    BY DEF BookInv, User
  <2>. QED  BY <1>1, <2>1, <2>2
<1>. HIDE DEF k, o, placed
<1>5. placed \in User
  BY <1>1 DEF SlotInv
<1>6. BookBut(placed, k) /\ (Resting(o) => BookInv(placed))
  BY <1>1, <1>2, <1>3, <1>5, BookEntered
<1>7. o.order_type # "Market" => o.base_asset_amount >= min
  BY <1>3 DEF validate_order
<1>8. placed.orders[k] = o
  BY <1>1 DEF User
<1>. QED  BY <1>1, <1>2, <1>4, <1>5, <1>6, <1>7, <1>8 DEF k, o, placed

(* place_order adds an order that rests.                                   *)
LEMMA PlaceOrderBook ==
    ASSUME BooksInv, NEW u \in Users, NEW params \in Params, place_order(u, params)
    PROVE  \A v \in Users : GoodStep(v)
<1>. DEFINE min == MinSize(params.market_index)
<1>1. PICK q \in Accounts(u) : CanPlace(q, params, min) /\ user' = [user EXCEPT ![u] = place(q, params, min)]
  BY DEF place_order
<1>2. params.order_type = "Limit" /\ ~ params.immediate_or_cancel
  BY OrdersAssumption DEF place_order, OrderParams
<1>3. min \in Nat \ {0}
  BY OrdersAssumption, MinSizePositive DEF BooksInv, OrderParams
<1>. HIDE DEF min
<1>4. SlotInv(q) /\ q \in User /\ BookInv(q) /\ q.orders = user[u].orders
  BY BookSettled
<1>. DEFINE k == Min(InitSlots(q))
            o == NewOrder(q, params, min)
            placed == place(q, params, min)
<1>5. /\ k \in OrderSlots /\ q.orders[k] = DefaultOrder
      /\ Resting(o) => BookInv(placed)
      /\ placed.orders = [q.orders EXCEPT ![k] = o]
      /\ o \in Order /\ o.order_id # 0 /\ o.order_type = "Limit"
      /\ ~ o.immediate_or_cancel /\ o.base_asset_amount_filled = 0
      /\ o.base_asset_amount >= min
  BY <1>1, <1>2, <1>3, <1>4, BookPlaced
<1>. HIDE DEF k, o
<1>6. Resting(o)
  BY <1>3, <1>5 DEF Resting, left_to_fill, Order
<1>. HIDE DEF placed
<1>7. ASSUME user'[u] = placed PROVE GoodStep(u)
  <2>1. AccountStep(user[u], user'[u])
    BY <1>4, <1>5, <1>7, OneOrderStep DEF OrderStep
  <2>. QED  BY <1>5, <1>6, <1>7, <2>1 DEF GoodStep
<1>. QED  BY <1>1, <1>7, OthersKept DEF placed

(* Cancelling takes one order out.                                         *)
LEMMA CancelOrderBook ==
    ASSUME BooksInv, NEW u \in Users, NEW id,
           cancel_order_by_order_id(u, id) \/ cancel_order_by_user_order_id(u, id)
    PROVE  \A v \in Users : GoodStep(v)
<1>1. PICK q \in Accounts(u), S \in SUBSET OrderSlots :
         /\ S # {} /\ CanCancel(q, Min(S))
         /\ user' = [user EXCEPT ![u] = remove_order(q, Min(S))]
  BY DEF cancel_order_by_order_id, cancel_order_by_user_order_id
<1>. DEFINE k == Min(S)
            q2 == remove_order(q, k)
<1>2. S \in SUBSET Nat
  BY OrdersAssumption DEF OrderSlots
<1>3. k \in OrderSlots
  BY <1>1, <1>2, MinExists
<1>4. /\ SlotInv(q) /\ q \in User /\ BookInv(q) /\ q.orders = user[u].orders
      /\ \A m : BaseIn(q, m) = BaseIn(user[u], m)
  BY BookSettled
<1>. HIDE DEF k
<1>5. CanCancel(q, k) /\ user' = [user EXCEPT ![u] = q2]
  BY <1>1 DEF k
<1>6. /\ SlotInv(q2) /\ q2.orders = [q.orders EXCEPT ![k] = DefaultOrder]
      /\ q2.next_order_id = q.next_order_id
      /\ BaseIn(q2, q.orders[k].market_index) = BaseIn(q, q.orders[k].market_index)
  BY <1>3, <1>4, <1>5, OrderRemoved
<1>. HIDE DEF q2
<1>7. BookInv(q2)
  BY <1>3, <1>4, <1>6, BookInvBut, BookCleared DEF SlotInv
<1>8. q.orders[k].status = "Open"
  BY <1>5 DEF CanCancel
<1>9. ASSUME user'[u] = q2 PROVE GoodStep(u)
  <2>1. AccountStep(user[u], user'[u])
    BY <1>3, <1>4, <1>6, <1>8, <1>9, OneOrderStep DEF OrderStep
  <2>. QED  BY <1>7, <1>9, <2>1 DEF GoodStep
<1>. QED  BY <1>5, <1>9, OthersKept

(* What a fill makes of the book of account q.                             *)
BookFillOutcome(q, k, amount, min, r) ==
    LET order == q.orders[k]
        m == order.market_index
        o == [order EXCEPT !.base_asset_amount_filled = @ + amount]
    IN /\ r \in User /\ SlotInv(r)
       /\ order.status = "Open"
       /\ amount \in execute_order(order, BaseIn(q, m), min)
       /\ BaseIn(r, m) = BaseIn(q, m) + Signed(order.direction, amount)
       /\ \/ r.orders = [q.orders EXCEPT ![k] = DefaultOrder] /\ BookInv(r)
          \/ /\ r.orders = [q.orders EXCEPT ![k] = o]
             /\ BookBut(r, k) /\ (Resting(o) => BookInv(r))
             /\ order.order_type = "Limit" /\ left_to_fill(order) # amount
             /\ amount > 0 /\ left_to_fill(o) > 0

(* A fill ends the order or leaves it with more filled, and something      *)
(* left.                                                                   *)
LEMMA BookFilled ==
    ASSUME NEW q \in User, SlotInv(q), NEW k \in OrderSlots, BookBut(q, k),
           NEW amount \in Nat, NEW min \in Nat \ {0}, CanFill(q, k, amount, min),
           NEW unsettled \in BOOLEAN,
           q.orders[k].order_type # "Market" => left_to_fill(q.orders[k]) > 0
    PROVE  BookFillOutcome(q, k, amount, min, fill(q, k, amount, unsettled))
<1>. DEFINE r == fill(q, k, amount, unsettled)
            order == q.orders[k]
            m == order.market_index
            o == [order EXCEPT !.base_asset_amount_filled = @ + amount]
<1>1. /\ SlotInv(r) /\ r.next_order_id = q.next_order_id
      /\ \/ r.orders = [q.orders EXCEPT ![k] = DefaultOrder]
         \/ /\ left_to_fill(order) # amount /\ order.order_type # "Market"
            /\ r.orders = [q.orders EXCEPT ![k] = o]
      /\ BaseIn(r, m) = BaseIn(q, m) + Signed(order.direction, amount)
  <2>1. FillOutcome(q, k, amount, r)
    BY OrderFilled
  <2>. HIDE DEF r
  <2>. QED  BY <2>1 DEF FillOutcome
<1>2. order \in Order /\ order.status = "Open" /\ m \in Markets /\ SlotsFor(q.positions, m) # {}
  BY DEF CanFill, User, Order
<1>3. amount \in execute_order(order, BaseIn(q, m), min)
  BY <1>2 DEF CanFill, BaseIn
<1>4. BaseIn(q, m) \in Int
  BY <1>2, SlotFound DEF BaseIn, MarketPosition
<1>5. r \in User
  BY <1>1 DEF SlotInv
<1>. HIDE DEF r
<1>6. CASE r.orders = [q.orders EXCEPT ![k] = DefaultOrder]
  <2>1. BookInv(r)
    BY <1>1, <1>5, <1>6, BookCleared
  <2>. QED  BY <1>1, <1>2, <1>3, <1>5, <1>6, <2>1 DEF r, BookFillOutcome
<1>7. CASE /\ left_to_fill(order) # amount /\ order.order_type # "Market"
           /\ r.orders = [q.orders EXCEPT ![k] = o]
  <2>1. order.order_type = "Limit" /\ left_to_fill(order) > 0
    BY <1>2, <1>7 DEF Order
  <2>2. amount > 0 /\ amount =< left_to_fill(order)
    BY <1>2, <1>3, <1>4, <2>1, ExecutedSize
  <2>3. /\ o.status = "Open" /\ o.order_id = order.order_id
        /\ o.user_order_id = order.user_order_id
        /\ left_to_fill(o) = left_to_fill(order) - amount
    BY <1>2 DEF Order, left_to_fill
  <2>4. left_to_fill(order) \in Int
    BY <1>2 DEF Order, left_to_fill
  <2>5. left_to_fill(o) > 0
    BY <1>7, <2>2, <2>3, <2>4
  <2>. HIDE DEF o
  <2>6. BookBut(r, k) /\ (Resting(o) => BookInv(r))
    BY <1>1, <1>2, <1>5, <1>7, <2>3, BookAmended
  <2>. QED  BY <1>1, <1>2, <1>3, <1>5, <1>7, <2>1, <2>2, <2>5, <2>6 DEF r, o, BookFillOutcome
<1>. QED  BY <1>1, <1>6, <1>7

(* fill_order fills a resting order; a filler only gets pnl.               *)
LEMMA FillOrderBook ==
    ASSUME BooksInv, NEW u \in Users, NEW filler \in Users, NEW id, NEW amount \in Nat,
           fill_order(u, filler, id, amount)
    PROVE  \A v \in Users : GoodStep(v)
<1>1. PICK q \in Accounts(u), unsettled \in BOOLEAN, reward_unsettled \in BOOLEAN,
           S \in SUBSET OrderSlots :
         LET k == Min(S)
             m == q.orders[k].market_index
         IN /\ S # {}
            /\ CanFill(q, k, amount, MinSize(m))
            /\ IF filler = u
               THEN user' = [user EXCEPT ![u] = fill(q, k, amount, unsettled)]
               ELSE /\ HasRoom(user[filler].positions, m)
                    /\ user' = [user EXCEPT ![u] = fill(q, k, amount, unsettled),
                                            ![filler] = reward(@, m, reward_unsettled)]
  BY DEF fill_order
<1>. DEFINE k == Min(S)
            order == q.orders[k]
            m == order.market_index
            min == MinSize(m)
            o == [order EXCEPT !.base_asset_amount_filled = @ + amount]
            r == fill(q, k, amount, unsettled)
<1>2. S \in SUBSET Nat
  BY OrdersAssumption DEF OrderSlots
<1>3. k \in OrderSlots
  BY <1>1, <1>2, MinExists
<1>4. /\ SlotInv(q) /\ q \in User /\ BookInv(q) /\ q.orders = user[u].orders
      /\ \A x : BaseIn(q, x) = BaseIn(user[u], x)
  BY BookSettled
<1>5. CanFill(q, k, amount, min)
  BY <1>1
<1>6. /\ \A v \in Users \ {u, filler} : user'[v] = user[v]
      /\ user'[u] = r
      /\ filler # u => user'[filler] = reward(user[filler], m, reward_unsettled)
  BY <1>1 DEF BooksInv, SlotsInv
<1>7. ASSUME NEW v \in Users \ {u} PROVE GoodStep(v)
  <2>1. user[v] \in User
    BY DEF BooksInv, SlotsInv
  <2>2. user'[v].orders = user[v].orders /\ user'[v].next_order_id = user[v].next_order_id
    BY <1>6, <2>1 DEF reward, User
  <2>. QED  BY <2>2, OrdersKept
<1>. HIDE DEF k
<1>8. order \in Order /\ m \in Markets /\ Resting(order) /\ min \in Nat \ {0}
  BY <1>3, <1>4, MinSizePositive DEF User, Order, BookInv, BooksInv
<1>9. order.status = "Open"
  BY <1>5 DEF CanFill
<1>10. BookBut(q, k) /\ left_to_fill(order) > 0
  BY <1>4, <1>8, <1>9, BookInvBut DEF Resting
<1>11. /\ amount \in execute_order(order, BaseIn(q, m), min)
       /\ BaseIn(r, m) = BaseIn(q, m) + Signed(order.direction, amount)
       /\ \/ r.orders = [q.orders EXCEPT ![k] = DefaultOrder] /\ BookInv(r)
          \/ /\ r.orders = [q.orders EXCEPT ![k] = o]
             /\ Resting(o) => BookInv(r)
             /\ left_to_fill(order) # amount /\ amount > 0 /\ left_to_fill(o) > 0
  BY <1>3, <1>4, <1>5, <1>8, <1>10, BookFilled DEF BookFillOutcome
<1>12. Resting(o) \/ ~ (left_to_fill(o) > 0)
  <2>1. /\ o.status = order.status /\ o.order_type = order.order_type
        /\ o.immediate_or_cancel = order.immediate_or_cancel
        /\ o.reduce_only = order.reduce_only
        /\ o.base_asset_amount_filled = order.base_asset_amount_filled + amount
        /\ order.base_asset_amount_filled \in Nat
    BY <1>8 DEF Order
  <2>. HIDE DEF o
  <2>. QED  BY <1>8, <2>1 DEF Resting
<1>13. BookInv(r)
  BY <1>11, <1>12
<1>14. PICK new : /\ r.orders = [q.orders EXCEPT ![k] = new]
                  /\ \/ new = DefaultOrder
                     \/ left_to_fill(order) # amount /\ new = o
  BY <1>11
<1>15. OrderStep(order, new, BaseIn(user[u], m), BaseIn(user'[u], m), min)
  <2>1. BaseIn(user[u], m) = BaseIn(q, m) /\ BaseIn(user'[u], m) = BaseIn(r, m)
    BY <1>4, <1>6
  <2>. HIDE DEF r, m, min
  <2>. QED  BY <1>9, <1>11, <1>14, <2>1 DEF OrderStep, Filled
<1>16. AccountStep(user[u], user'[u])
  <2>1. user'[u].orders = [user[u].orders EXCEPT ![k] = new] /\ order = user[u].orders[k]
    BY <1>4, <1>6, <1>14
  <2>. QED  BY <1>3, <1>15, <2>1, OneOrderStep
<1>17. GoodStep(u)
  BY <1>6, <1>13, <1>16 DEF GoodStep
<1>. QED  BY <1>7, <1>17

(* place_and_fill_order leaves an order that rests, or none.               *)
LEMMA PlaceAndFillOrderBook ==
    ASSUME BooksInv, NEW u \in Users, NEW params \in Params, NEW amount \in Nat,
           place_and_fill_order(u, params, amount)
    PROVE  \A v \in Users : GoodStep(v)
<1>. DEFINE min == MinSize(params.market_index)
<1>1. PICK q \in Accounts(u), unsettled \in BOOLEAN :
         LET i == Min(InitSlots(q))
             placed == place(q, params, min)
             filled == IF amount = 0 THEN placed ELSE fill(placed, i, amount, unsettled)
         IN /\ CanPlace(q, params, min)
            /\ IF amount = 0 THEN params.order_type # "Market" ELSE CanFill(placed, i, amount, min)
            /\ IF params.immediate_or_cancel /\ params.base_asset_amount # amount
               THEN CanCancel(filled, i) /\ user' = [user EXCEPT ![u] = remove_order(filled, i)]
               ELSE user' = [user EXCEPT ![u] = filled]
  BY DEF place_and_fill_order
<1>. DEFINE k == Min(InitSlots(q))
            o == NewOrder(q, params, min)
            placed == place(q, params, min)
            filled == IF amount = 0 THEN placed ELSE fill(placed, k, amount, unsettled)
            o2 == [o EXCEPT !.base_asset_amount_filled = @ + amount]
<1>2. min \in Nat \ {0} /\ params \in OrderParams
  BY OrdersAssumption, MinSizePositive DEF BooksInv, OrderParams
<1>3. SlotInv(q) /\ q \in User /\ BookInv(q) /\ q.orders = user[u].orders
  BY BookSettled
<1>4. /\ k \in OrderSlots /\ q.orders[k] = DefaultOrder
      /\ placed \in User /\ SlotInv(placed) /\ BookBut(placed, k)
      /\ Resting(o) => BookInv(placed)
      /\ placed.orders = [q.orders EXCEPT ![k] = o]
      /\ placed.orders[k] = o
      /\ o \in Order /\ o.status = "Open" /\ o.order_id # 0
      /\ o.order_type = params.order_type
      /\ o.immediate_or_cancel = params.immediate_or_cancel
      /\ o.reduce_only = params.reduce_only
      /\ o.base_asset_amount_filled = 0
      /\ o.order_type # "Market" => o.base_asset_amount >= min
      /\ o.base_asset_amount # params.base_asset_amount =>
            params.reduce_only /\ params.base_asset_amount # 0
  BY <1>1, <1>2, <1>3, BookPlaced
<1>5. /\ IF amount = 0 THEN params.order_type # "Market" ELSE CanFill(placed, k, amount, min)
      /\ IF params.immediate_or_cancel /\ params.base_asset_amount # amount
         THEN CanCancel(filled, k) /\ user' = [user EXCEPT ![u] = remove_order(filled, k)]
         ELSE user' = [user EXCEPT ![u] = filled]
  BY <1>1
<1>. HIDE DEF min, k, o, placed
<1>6. o.order_type # "Market" => left_to_fill(o) > 0
  BY <1>2, <1>4 DEF left_to_fill, Order
<1>. DEFINE ioc == params.immediate_or_cancel /\ params.base_asset_amount # amount
<1>7. /\ filled \in User /\ SlotInv(filled)
      /\ \/ /\ filled.orders = [q.orders EXCEPT ![k] = DefaultOrder] /\ BookInv(filled)
         \/ \E new \in {o, o2} : /\ filled.orders = [q.orders EXCEPT ![k] = new]
                                 /\ BookBut(filled, k)
                                 /\ ~ ioc => BookInv(filled)
  <2>1. CASE amount = 0
    <3>1. filled = placed /\ params.order_type # "Market"
      BY <1>5, <2>1
    <3>2. ~ ioc => ~ o.immediate_or_cancel
      BY <1>2, <1>4, <2>1, <3>1 DEF OrderParams
    <3>3. ~ ioc => Resting(o)
      BY <1>4, <1>6, <3>1, <3>2 DEF Resting, Order
    <3>. HIDE DEF ioc, filled, o2
    <3>. QED  BY <1>4, <3>1, <3>3
  <2>2. CASE amount # 0
    <3>1. filled = fill(placed, k, amount, unsettled) /\ CanFill(placed, k, amount, min)
      BY <1>5, <2>2
    <3>. HIDE DEF filled
    <3>2. /\ filled \in User /\ SlotInv(filled)
          /\ \/ filled.orders = [placed.orders EXCEPT ![k] = DefaultOrder] /\ BookInv(filled)
             \/ /\ filled.orders = [placed.orders EXCEPT ![k] = o2]
                /\ BookBut(filled, k) /\ (Resting(o2) => BookInv(filled))
                /\ o.order_type = "Limit" /\ left_to_fill(o) # amount
                /\ amount > 0 /\ left_to_fill(o2) > 0
      <4>1. BookFillOutcome(placed, k, amount, min, filled)
        BY <1>2, <1>4, <1>6, <3>1, BookFilled
      <4>. QED  BY <1>4, <4>1 DEF BookFillOutcome
    <3>3. \A x : [placed.orders EXCEPT ![k] = x] = [q.orders EXCEPT ![k] = x]
      BY <1>3, <1>4 DEF User
    <3>4. ASSUME ~ ioc, o.order_type = "Limit", left_to_fill(o) # amount, amount > 0,
                 left_to_fill(o2) > 0
          PROVE  Resting(o2)
      <4>1. /\ o2.order_type = "Limit" /\ o2.base_asset_amount_filled = amount
            /\ o2.immediate_or_cancel = params.immediate_or_cancel
            /\ o2.reduce_only = params.reduce_only
        BY <1>4, <3>4 DEF Order
      <4>2. params.immediate_or_cancel => params.base_asset_amount = amount
        BY <3>4
      <4>3. left_to_fill(o) = o.base_asset_amount
        BY <1>4 DEF left_to_fill, Order
      <4>. HIDE DEF o2
      <4>. QED  BY <1>4, <3>4, <4>1, <4>2, <4>3 DEF Resting
    <3>. HIDE DEF ioc
    <3>5. CASE filled.orders = [placed.orders EXCEPT ![k] = DefaultOrder] /\ BookInv(filled)
      BY <3>2, <3>3, <3>5
    <3>6. CASE /\ filled.orders = [placed.orders EXCEPT ![k] = o2]
               /\ BookBut(filled, k) /\ (~ ioc => BookInv(filled))
      BY <3>2, <3>3, <3>6
    <3>. QED  BY <3>2, <3>4, <3>5, <3>6
  <2>. QED  BY <2>1, <2>2
<1>. HIDE DEF filled
<1>8. PICK new \in {o, o2, DefaultOrder} :
          /\ filled.orders = [q.orders EXCEPT ![k] = new]
          /\ BookBut(filled, k)
          /\ ~ ioc \/ new = DefaultOrder => BookInv(filled)
  <2>1. CASE filled.orders = [q.orders EXCEPT ![k] = DefaultOrder] /\ BookInv(filled)
    BY <2>1, BookInvBut
  <2>2. CASE \E x \in {o, o2} : /\ filled.orders = [q.orders EXCEPT ![k] = x]
                                /\ BookBut(filled, k)
                                /\ ~ ioc => BookInv(filled)
    <3>. HIDE DEF ioc, o2
    <3>1. PICK x \in {o, o2} : /\ filled.orders = [q.orders EXCEPT ![k] = x]
                               /\ BookBut(filled, k)
                               /\ ~ ioc => BookInv(filled)
      BY <2>2
    <3>2. x # DefaultOrder
      BY <1>4, DefaultOrderFacts DEF Order, o2
    <3>. QED  BY <3>1, <3>2
  <2>. QED  BY <1>7, <2>1, <2>2
<1>9. new = DefaultOrder \/ new.order_id # 0
  BY <1>4, <1>8 DEF Order
<1>10. CASE ~ ioc
  <2>1. BookInv(filled) /\ user' = [user EXCEPT ![u] = filled]
    BY <1>5, <1>8, <1>10
  <2>2. ASSUME user'[u] = filled PROVE GoodStep(u)
    <3>1. AccountStep(user[u], user'[u])
      BY <1>3, <1>4, <1>8, <1>9, <2>2, OneOrderStep DEF OrderStep
    <3>. QED  BY <2>1, <2>2, <3>1 DEF GoodStep
  <2>. QED  BY <2>1, <2>2, OthersKept
<1>11. CASE ioc
  <2>. DEFINE q2 == remove_order(filled, k)
  <2>1. CanCancel(filled, k) /\ user' = [user EXCEPT ![u] = q2]
    BY <1>5, <1>11
  <2>2. /\ SlotInv(q2) /\ q2.next_order_id = filled.next_order_id
        /\ q2.orders = [filled.orders EXCEPT ![k] = DefaultOrder]
    BY <1>4, <1>7, <2>1, OrderRemoved
  <2>. HIDE DEF q2
  <2>3. BookInv(q2)
    BY <1>4, <1>7, <1>8, <2>2, BookCleared DEF SlotInv
  <2>4. q2.orders = [q.orders EXCEPT ![k] = DefaultOrder]
    BY <1>3, <1>4, <1>8, <2>2 DEF User
  <2>5. ASSUME user'[u] = q2 PROVE GoodStep(u)
    <3>1. AccountStep(user[u], user'[u])
      BY <1>3, <1>4, <2>4, <2>5, OneOrderStep DEF OrderStep
    <3>. QED  BY <2>3, <2>5, <3>1 DEF GoodStep
  <2>. QED  BY <2>1, <2>5, OthersKept
<1>. QED  BY <1>10, <1>11

-----------------------------------------------------------------------------
(* Every instruction keeps the books and does to an order what OrderStep   *)
(* says.                                                                   *)
LEMMA BooksStep ==
    ASSUME BooksInv, [Next]_vars
    PROVE  BooksInv' /\ \A v \in Users : AccountStep(user[v], user'[v])
<1>. MaxBase \in Nat /\ 0 .. 2 * MaxBase \subseteq Nat /\ 1 .. 2 * MaxBase \subseteq Nat
  BY OrdersAssumption
<1>1. ASSUME NEW u \in Users, NEW params \in Params, place_order(u, params)
      PROVE  \A v \in Users : GoodStep(v)
  BY <1>1, PlaceOrderBook
<1>2. ASSUME NEW u \in Users, NEW params \in Params, NEW amount \in 0 .. 2 * MaxBase,
             place_and_fill_order(u, params, amount)
      PROVE  \A v \in Users : GoodStep(v)
  BY <1>2, PlaceAndFillOrderBook
<1>3. ASSUME NEW u \in Users, NEW id,
             cancel_order_by_order_id(u, id) \/ cancel_order_by_user_order_id(u, id)
      PROVE  \A v \in Users : GoodStep(v)
  BY <1>3, CancelOrderBook
<1>4. ASSUME NEW u \in Users, NEW filler \in Users, NEW id, NEW amount \in 1 .. 2 * MaxBase,
             fill_order(u, filler, id, amount)
      PROVE  \A v \in Users : GoodStep(v)
  BY <1>4, FillOrderBook
<1>5. ASSUME NEW u \in Users, NEW ps, user' = [user EXCEPT ![u].positions = ps]
      PROVE  \A v \in Users : GoodStep(v)
  <2>1. user \in [Users -> User]
    BY DEF BooksInv, SlotsInv
  <2>2. \A v \in Users : user'[v].orders = user[v].orders
                         /\ user'[v].next_order_id = user[v].next_order_id
    BY <1>5, <2>1 DEF User
  <2>. QED  BY <2>2, OrdersKept
<1>6. ASSUME NEW u \in Users, NEW m, close_position(u, m)
      PROVE  \A v \in Users : GoodStep(v)
  BY <1>5, <1>6 DEF close_position
<1>7. ASSUME NEW u \in Users, NEW m, NEW direction, NEW amount, open_position(u, m, direction, amount)
      PROVE  \A v \in Users : GoodStep(v)
  BY <1>5, <1>7 DEF open_position
<1>8. ASSUME NEW u \in Users, NEW m, settle_pnl(u, m)
      PROVE  \A v \in Users : GoodStep(v)
  <2>1. PICK i, unsettled : user' = [user EXCEPT ![u].positions[i].has_unsettled_pnl = unsettled]
    BY <1>8 DEF settle_pnl
  <2>. DEFINE ps == [user[u].positions EXCEPT ![i].has_unsettled_pnl = unsettled]
  <2>2. user' = [user EXCEPT ![u].positions = ps]
    BY <2>1
  <2>. HIDE DEF ps
  <2>. QED  BY <1>5, <2>2
<1>9. ASSUME NEW u \in Users, NEW base, liquidate(u, base)
      PROVE  \A v \in Users : GoodStep(v)
  BY <1>5, <1>9 DEF liquidate
<1>10. ASSUME NEW u \in Users, settle_funding_payment(u)
       PROVE  \A v \in Users : GoodStep(v)
  <2>1. PICK q \in Accounts(u) : user' = [user EXCEPT ![u] = q]
    BY <1>10 DEF settle_funding_payment
  <2>2. q.orders = user[u].orders /\ q.next_order_id = user[u].next_order_id
    BY BookSettled
  <2>3. ASSUME user'[u] = q PROVE GoodStep(u)
    BY <2>2, <2>3, OrdersKept
  <2>. QED  BY <2>1, <2>3, OthersKept
<1>11. ASSUME UNCHANGED user
       PROVE  \A v \in Users : GoodStep(v)
  BY <1>11, OrdersKept
<1>12. \A v \in Users : GoodStep(v)
  BY <1>1, <1>2, <1>3, <1>4, <1>6, <1>7, <1>8, <1>9, <1>10, <1>11
     DEF Next, vars, update_market_minimum_base_asset_trade_size, update_exchange_paused
<1>13. SlotsInv'
  BY SlotsInvNext DEF BooksInv
<1>14. (\A v \in Users : BookInv(user[v]))'
  BY <1>12 DEF GoodStep, BookInv, Addressable, Resting
<1>. QED  BY <1>12, <1>13, <1>14 DEF GoodStep, BooksInv

LEMMA BooksInit == Init => BooksInv
<1>. SUFFICES ASSUME Init PROVE BooksInv
  OBVIOUS
<1>1. \A u \in Users : user[u] = InitUser
  BY DEF Init
<1>2. \A i \in OrderSlots : InitUser.orders[i] = DefaultOrder
  BY DEF InitUser
<1>3. InitUser.next_order_id = 1
  BY DEF InitUser
<1>4. BookInv(InitUser)
  BY <1>2, <1>3, DefaultOrderFacts DEF BookInv, Addressable, Resting
<1>. QED  BY <1>1, <1>4, SlotsInvInit DEF BooksInv

LEMMA BooksAlways == Spec => []BooksInv
BY BooksInit, BooksStep, PTL DEF Spec

(* An order is found by its id and by its nonzero user id, and an empty    *)
(* slot by neither, after any sequence of placing, filling and cancelling. *)
THEOREM OrdersFound == Spec => []OrdersAddressable
<1>1. BooksInv => OrdersAddressable
  BY DEF BooksInv, BookInv, OrdersAddressable
<1>. QED  BY <1>1, BooksAlways, PTL

(* No instruction leaves a market order, a filled order or, but for the    *)
(* case place_and_fill_order misses, an immediate-or-cancel order behind.  *)
THEOREM OnlyRestingOrders == Spec => []RestingOrders
<1>1. BooksInv => RestingOrders
  BY DEF BooksInv, BookInv, Resting, RestingOrders
<1>. QED  BY <1>1, BooksAlways, PTL

-----------------------------------------------------------------------------
(* What a fill does to a resting order and to the base of its market.      *)

LEMMA BaseInInt ==
    ASSUME NEW q, SlotInv(q), NEW m \in Markets
    PROVE  BaseIn(q, m) \in Int
<1>1. CASE SlotsFor(q.positions, m) = {}
  BY <1>1 DEF BaseIn
<1>2. CASE SlotsFor(q.positions, m) # {}
  <2>1. q.positions[get_position_index(q.positions, m)] \in MarketPosition
    BY <1>2, SlotFound
  <2>. QED  BY <1>2, <2>1 DEF BaseIn, MarketPosition
<1>. QED  BY <1>1, <1>2

(* A slot of the book in a state between two instructions.                 *)
LEMMA SlotFacts ==
    ASSUME BooksInv, NEW u \in Users, NEW i \in OrderSlots
    PROVE  LET order == user[u].orders[i] IN
           /\ order \in Order
           /\ BaseIn(user[u], order.market_index) \in Int
           /\ MinSize(order.market_index) \in Nat \ {0}
           /\ Resting(order)
           /\ order.status = "Open" => order.order_id # 0
<1>. DEFINE order == user[u].orders[i]
<1>1. SlotInv(user[u]) /\ BookInv(user[u]) /\ user[u].next_order_id \in Nat
  BY DEF BooksInv, SlotsInv, SlotInv, User
<1>2. order \in Order /\ order.market_index \in Markets
  BY <1>1 DEF SlotInv, User, Order
<1>3. MinSize(order.market_index) \in Nat \ {0}
  BY <1>2, MinSizePositive DEF BooksInv
<1>4. order.status = "Open" => order.order_id \in 1 .. user[u].next_order_id - 1
  BY <1>1 DEF BookInv, Addressable
<1>. QED  BY <1>1, <1>2, <1>3, <1>4, BaseInInt DEF BookInv

(* A fill leaves of an order nothing or at least the market's minimum, and *)
(* of a position that a reduce-only order is against less of it.           *)
LEMMA FilledFacts ==
    ASSUME NEW old \in Order, Resting(old), NEW new, NEW before \in Int, NEW after,
           NEW min \in Nat \ {0}, Filled(old, new, before, after, min)
    PROVE  /\ new # DefaultOrder => left_to_fill(new) >= min
           /\ old.reduce_only =>
                /\ Reduces(old.direction, before)
                /\ \/ after = 0 \/ (after > 0) = (before > 0)
                   \/ before > 0 /\ Size(after) < min
<1>1. PICK amount \in Nat :
        /\ old.status = "Open"
        /\ amount \in execute_order(old, before, min)
        /\ after = before + Signed(old.direction, amount)
        /\ \/ new = DefaultOrder
           \/ /\ left_to_fill(old) # amount
              /\ new = [old EXCEPT !.base_asset_amount_filled = @ + amount]
  BY DEF Filled
<1>2. old.order_type = "Limit" /\ left_to_fill(old) > 0
  BY <1>1 DEF Resting
<1>3. /\ amount = left_to_fill(old) \/ left_to_fill(old) - amount >= min
      /\ old.reduce_only =>
            /\ Reduces(old.direction, before)
            /\ amount < Size(before) + min
            /\ amount =< Size(before) \/ old.direction = "Short"
  BY <1>1, <1>2, ExecutedSize
<1>4. ASSUME new # DefaultOrder PROVE left_to_fill(new) >= min
  <2>1. left_to_fill(new) = left_to_fill(old) - amount
    BY <1>1, <1>4 DEF left_to_fill, Order
  <2>. QED  BY <1>1, <1>3, <1>4, <2>1
<1>5. ASSUME old.reduce_only
      PROVE  \/ after = 0 \/ (after > 0) = (before > 0)
             \/ before > 0 /\ Size(after) < min
  <2>1. CASE old.direction = "Long"
    BY <1>1, <1>3, <1>5, <2>1 DEF Reduces, Signed, Size
  <2>2. CASE old.direction = "Short"
    BY <1>1, <1>3, <1>5, <2>2 DEF Reduces, Signed, Size
  <2>. QED  BY <2>1, <2>2 DEF Order, Direction
<1>. QED  BY <1>3, <1>4, <1>5

(* A fill leaves of a resting order nothing or at least the minimum size   *)
(* of its market at that moment, whatever the admin did to the minimum     *)
(* since the order was placed (update_order_after_trade's second test).    *)
THEOREM NoDust == Spec => NoResidueBelowMinimum
<1>1. ASSUME BooksInv, [Next]_vars, NEW u \in Users, NEW i \in OrderSlots,
             user'[u].orders[i].order_id = user[u].orders[i].order_id,
             user'[u].orders[i].base_asset_amount_filled
                 # user[u].orders[i].base_asset_amount_filled
      PROVE  left_to_fill(user'[u].orders[i]) >= MinSize(user[u].orders[i].market_index)
  <2>. DEFINE old == user[u].orders[i]
              new == user'[u].orders[i]
              min == MinSize(old.market_index)
              before == BaseIn(user[u], old.market_index)
              after == BaseIn(user'[u], old.market_index)
  <2>1. OrderStep(old, new, before, after, min)
    BY <1>1, BooksStep DEF AccountStep
  <2>2. /\ old \in Order /\ before \in Int /\ min \in Nat \ {0} /\ Resting(old)
        /\ old.status = "Open" => old.order_id # 0
    BY <1>1, SlotFacts
  <2>3. /\ new.order_id = old.order_id
        /\ new.base_asset_amount_filled # old.base_asset_amount_filled
    BY <1>1
  <2>. HIDE DEF old, new, min, before, after
  <2>4. Filled(old, new, before, after, min)
    BY <2>1, <2>2, <2>3, DefaultOrderFacts DEF OrderStep
  <2>5. new # DefaultOrder
    BY <2>2, <2>3, <2>4, DefaultOrderFacts DEF Filled
  <2>6. left_to_fill(new) >= min
    BY <2>2, <2>4, <2>5, FilledFacts
  <2>. QED  BY <2>6 DEF old, new, min
<1>2. ASSUME BooksInv, [Next]_vars
      PROVE  [\A u \in Users, i \in OrderSlots :
                LET old == user[u].orders[i]
                    new == user'[u].orders[i]
                IN (/\ new.order_id = old.order_id
                    /\ new.base_asset_amount_filled # old.base_asset_amount_filled)
                   => left_to_fill(new) >= MinSize(old.market_index)]_vars
  BY <1>1, <1>2
<1>. QED  BY <1>2, BooksAlways, PTL DEF Spec, NoResidueBelowMinimum

(* Filling a resting reduce-only order shrinks the position of its market, *)
(* whatever became of it since the order was placed, and never turns it    *)
(* round, but for a long position turned into a short one smaller than the *)
(* minimum size.                                                           *)
THEOREM ReduceOnlyReduces == Spec => ReduceOnlyFills
<1>1. ASSUME BooksInv, [Next]_vars, NEW u \in Users, NEW i \in OrderSlots,
             user[u].orders[i].reduce_only, user'[u].orders[i] # user[u].orders[i],
             BaseIn(user[u], user[u].orders[i].market_index)
                 # BaseIn(user'[u], user[u].orders[i].market_index)
      PROVE  LET order == user[u].orders[i]
                 before == BaseIn(user[u], order.market_index)
                 after == BaseIn(user'[u], order.market_index)
             IN /\ Reduces(order.direction, before)
                /\ \/ after = 0 \/ (after > 0) = (before > 0)
                   \/ before > 0 /\ Size(after) < MinSize(order.market_index)
  <2>. DEFINE old == user[u].orders[i]
              new == user'[u].orders[i]
              m == old.market_index
              before == BaseIn(user[u], m)
              after == BaseIn(user'[u], m)
  <2>1. OrderStep(old, new, before, after, MinSize(m))
    BY <1>1, BooksStep DEF AccountStep
  <2>2. /\ old \in Order /\ before \in Int /\ MinSize(m) \in Nat \ {0} /\ Resting(old)
    BY <1>1, SlotFacts
  <2>3. Filled(old, new, before, after, MinSize(m))
    BY <1>1, <2>1, DefaultOrderFacts DEF OrderStep
  <2>4. old.reduce_only
    BY <1>1
  <2>. HIDE DEF old, new, m, before, after
  <2>5. /\ Reduces(old.direction, before)
        /\ \/ after = 0 \/ (after > 0) = (before > 0)
           \/ before > 0 /\ Size(after) < MinSize(m)
    BY <2>2, <2>3, <2>4, FilledFacts
  <2>. QED  BY <2>5 DEF old, m, before, after
<1>2. ASSUME BooksInv, [Next]_vars
      PROVE  [\A u \in Users, i \in OrderSlots :
                LET order == user[u].orders[i]
                    before == BaseIn(user[u], order.market_index)
                    after == BaseIn(user'[u], order.market_index)
                IN (order.reduce_only /\ user'[u].orders[i] # order /\ before # after) =>
                      /\ Reduces(order.direction, before)
                      /\ \/ after = 0 \/ (after > 0) = (before > 0)
                         \/ before > 0 /\ Size(after) < MinSize(order.market_index)]_vars
  BY <1>1, <1>2
<1>. QED  BY <1>2, BooksAlways, PTL DEF Spec, ReduceOnlyFills
=============================================================================
