# Verification of drift-protocol-v2

TLA+ models of the `clearing_house` program (a perpetual futures exchange on Solana,
`src/programs/clearing_house`) and of the parts of its TypeScript SDK that are concurrent
(`src/sdk`), the TLC runs that check them, and TLAPS proofs about the orders, position slots and bank
balances of accounts, the funding clock, and the SDK's account loader, websocket subscribers and
transaction sender.

## 1. The system

An instruction of the program runs alone and either succeeds as a whole or changes nothing, so
every instruction is one action, whose guard is the conjunction of everything that can make it
fail. What is hard on chain is not interleaving inside an instruction but the *sequences* of
instructions of many users: state is spread over accounts that different instructions update
separately, amounts are rounded at every conversion, and values computed at one time (funding, an
order's size, a cached aggregate) are used much later. What is hard in the SDK is classical
concurrency: timers, promises, late and lost answers.

| Component | State | Operations | Correct if |
|---|---|---|---|
| Banks | deposit and borrow balances, cumulative interest, vault | deposit, withdraw, transfer_deposit, interest | totals equal what holders hold; vault backs claims up to rounding |
| Pnl pools, fees, insurance | pool balance, fee totals, insurance vault | settle_pnl, withdraw_fees, withdraw_from_insurance_vault(_to_market) | nobody is paid twice; pool is part of the bank's totals |
| User accounts | bank slots, position slots, order slots, order-id counter | all of the user's instructions | a slot is never lost, split or taken over while in use |
| Orders | status, size, filled, flags | place, fill, place-and-fill, cancel | counted, addressable, filled within size, limit, margin and intent |
| Markets: AMM and positions | reserves, k, peg, spread, aggregates, fee pool | open, close, fill, liquidate | aggregates match positions; trading is zero-sum; no free round trip |
| Funding | cumulative rates, per-position marker, twaps and their times | update_funding_rate, settle_funding_payment, update_amm_oracle_twap, reset_amm_oracle_twap | longs, shorts and fee pool balance; cap respected; paid once a period, from fresh averages |
| Repeg, k | peg, sqrt_k | repeg_amm_curve, update_k, the prepeg of every fill | revaluation is paid by the fee pool, within its budget; the mark moves towards the oracle |
| Margin and liquidation | derived from collateral, positions, oracle | open, close, fill, withdraw, liquidate | new risk is not liquidated at once; who may be liquidated can be; it reduces risk and costs the penalty |
| Oracles | external accounts | read with validity rules | stale or wild prices are refused |
| SDK account loader | buffers, callbacks, one cached promise | load, addAccount, removeAccount; subscribe, fetch, unsubscribe | what is shown never goes back; calls return |
| SDK event subscriber | event lists, transaction cache, awaited transactions | subscribe, awaitTx, polls, websocket, backtrack | each record once, in order, bounded |
| SDK transaction sender | pending confirmation, retry loop, listeners | send, addAdditionalConnection | no resend after the answer; no invented confirmation; always answers |
| SDK websocket subscribers | account subscribers with a buffer, a slot and a listener | subscribe, fetch, updateAuthority, updateUserId, addMarket, unsubscribe | the right accounts are followed, nothing but one gap is missed, no listener is left |

**Interactions.** Trades (orders, AMM) realise pnl into `unsettled_pnl` of a position slot, which
settle_pnl moves to the quote bank through the market's pnl pool. Liquidation closes positions
on the AMM, pays the liquidator through the banks and cancels nothing. Funding, repegs, k and
fee withdrawals share one fee pool. Every trade first settles the user's funding, and every fill
first moves peg, k and spreads (prepeg). Fillers touch a
second account. SDK subscribers share one loader and its promise; clients wait in the event
subscriber for transactions they sent.

**Hard behaviours.** Rounding at each conversion; aggregates kept by six separate functions; slots
reused on a condition over three fields; orders sized against positions that change later; lazily
settled funding; the shared fee pool; in the SDK overlapping loads, answers out of order, bounded
caches that decide what is a duplicate, a fetch and a listener that leave a gap between them, resends
that race the answer. `PROJECT.json` lists each hazard with its line and the
properties aimed at it.

## 2. Modules

| Module | Models | Checked by |
|---|---|---|
| `BankMath` | bank records, conversions between tokens and balances, interest, `update_bank_balances` | used by BankLedger |
| `BankLedger` | banks, users' bank slots, pools, vaults, fees, insurance | `bank_ledger`, `pnl_pool_sign` |
| `BankLedgerProofs` | proofs about BankLedger | tlapm |
| `UserOrders` | position slots and order book of accounts | `orders` |
| `UserOrdersProofs` | proofs about UserOrders | tlapm |
| `Amm` | swap, spread, value, pnl and funding arithmetic | used by PerpPosition |
| `PerpPosition` | one position in one market: increase, reduce, close, reverse, fees, funding, as operators | used by Curve, OrderExecution |
| `Curve` | what changes the curve: repeg, k, prepeg, spreads, and their cost, as operators | used by PerpMarket |
| `PerpMarket` | one market and its users: trades, fills, fees, funding, repeg, k | `perp_market`, `reduce_reverses` |
| `OrderExecution` | validity, limit, trigger and size of an order, as operators | used by Margin |
| `Margin` | one account in several markets: orders, margin checks and liquidation | `margin`, `post_only_margin` |
| `FundingClock` | one market's twaps, oracle validity and the timing of funding | `funding_clock` |
| `FundingClockProofs` | proofs about FundingClock | tlapm |
| `AccountLoader` | BulkAccountLoader and PollingUserAccountSubscriber | `account_loader` |
| `AccountLoaderProofs` | proofs about AccountLoader | tlapm |
| `EventSubscriber` | EventSubscriber, EventList, TxEventCache, both log providers | `events` |
| `EventSubscriberProofs` | proofs about EventSubscriber | tlapm |
| `TxSend` | abstract: what sending a transaction promises | `tx_sender`, as the property `SendsOnce` |
| `RetryTxSender` | RetryTxSender | `tx_sender` |
| `RetryTxSenderProofs` | proofs about RetryTxSender, and that its steps are TxSend's | tlapm |
| `WebSocketSubscriber` | WebSocketClearingHouseAccountSubscriber and its WebSocketAccountSubscribers | `websocket` |
| `WebSocketSubscriberProofs` | proofs about WebSocketSubscriber | tlapm |
| `LibraryProofs` | lemmas about Min, Max, SetToSeq, SumFunction and induction over finite sets | tlapm |

PerpMarket and Margin compose the same PerpPosition: the first with many users of one market and the
changes of its curve, the second with many markets of one account and its orders.

`MC...` modules give constants their values. Names are the source's names; helpers introduced by
the model are in CamelCase. An operator `name_Something` preceded by "Mutant:" is a plausible bug
in `name`; the runs are repeated with it in place of `name` to see that the property notices.

### BankMath and BankLedger

A balance is a number that, times the bank's cumulative interest, gives tokens; deposits round
down, borrows up. `update_bank_balances` reduces the opposite side first and then increases, for
any holder (a user's slot or a market's pnl pool), and moves the bank's totals with it. The
holder's trait has two implementations; the pool's `decrease_balance` *adds*, which the model
keeps, with `pool_paid` counting what went wrong so that `BankTotalsAccounted` can still say that
nothing else does. Interest rates are the code's piecewise-linear function of utilisation with
small precisions. A user's slots are searched, claimed and never freed, slot 0 being the quote
bank's. Actions: deposit, withdraw, transfer_deposit, interest, settlement of either sign,
liquidation and trading as far as money moves, fee and insurance withdrawals, pause.
Left out: the margin of positions (trading is `RealizePnl`, any of a few pnls), and what
withdraw_from_insurance_vault_to_market adds to the market's total_fee_minus_distributions
(lib.rs:2213), which no amount of the ledger depends on.

* `SlotsAddressable`: a balance is found by its bank again and no slot looks free while used.
* `BankTotalsAccounted`: totals of a bank = sum over its holders (up to the pool's sign error).
* `RoundingLossBounded` (action property): one instruction can leave the vault short by less than
  one unit on each side, whatever interest has accrued; nothing else creates claims.
* `pnl_pool_sign` refutes `BankTotalsMatchHolders`, the same without the correction.

### UserOrders

A user has position slots and order slots, small arrays. A slot in use is one with base, open
orders or unsettled pnl; an instruction that needs a slot takes the market's or any free one.
Orders are placed (with reduce-only cut and rounding up to the position), filled for any amount
the market might allow (rounded up when the rest is below the minimum size), cancelled by either
id, and placed-and-filled. open_position, close_position, liquidate, settle_pnl and funding touch
the slots. Prices are abstracted: what they decide is a free choice here, and Margin's. Limit stands
for the three non-market types, which differ in when they execute. A reduce-only market order sized in
quote trades no more than the position here; with a spread it may be a little more
(controller/position.rs:681-690, the subject of `reduce_reverses`).

* `OpenOrdersCounted`: each slot in use counts exactly the open orders of its market, and every
  open order has a slot: the count never underflows and a slot is never taken over under an order.
* `OnePositionPerMarket`: a position is never split over two slots.
* `OrdersAddressable`: ids of open orders are distinct and no empty slot answers to one.
* `RestingOrders`, `NoResidueBelowMinimum`, `ReduceOnlyFills`: what may rest in the book, what a
  fill may leave, and that reduce-only fills reduce, whatever happened since placement.

### Amm, PerpPosition, Curve and PerpMarket

`Amm` has the constant-product swap in reserve units with its truncations, the conversion to
quote with the extra unit against the user, the spread as a shifted pair of reserves, the value of
a position, funding payments. In `PerpPosition` each of increase, reduce, close and reverse (by
quote and by base) updates position, market aggregates, pnl and surplus as its function does, and
returns `ok = FALSE` where a checked operation fails. `Curve` has what moves the curve under open
positions: `repeg` with the oracle's validity, divergence and confidence rules, `update_k`'s
reserves and cost, `prepeg` (target price from the oracle and its delay, the optimal peg, and, where
the fee pool cannot pay for it, a smaller k and the peg its budget reaches), and `calculate_spreads`
(base spread, the oracle's distance, the inventory's leverage on the fee pool). The instructions of
`PerpMarket` compose them with funding settlement, fees and, as in the code, a funding update at the
end of a trade. `fill_nothing` is place_and_fill_order of an order the market does not fill: the order
rests, and the curve stays moved. The funding *rate* is an input (FundingClock computes it), as are
the oracle's answers. Margin, slippage and divergence checks only refuse trades here and are Margin's.

* `PositionsAggregated`: net, long and short base and open_interest match the positions.
* `ZeroSum`: fee pool + realised pnl and funding + value of open positions at the curve - their
  cost stays within a few units of rounding per step, in both directions. This ties together
  swap, surplus, fee split, funding cap and the cost of repegs and k. The variable `unbooked` adds up
  what the code takes from the positions and credits to nobody: what a prepeg saves by lowering k
  (repeg.rs:145-158), and the spread's surplus of a maker's order that opens or adds
  (controller/position.rs:188-206).
* `NoFreeRoundTrip`: in every reachable market, opening and at once closing never pays.
* `LowerBoundKept` (action property): funding, repegs, prepegs, fills and a lowered k never draw the
  fee pool below the half of the fees that may be withdrawn; update_k raising k does, down to what has
  been withdrawn before.
* `PrepegTowardsTarget`: whatever the oracle says, a prepeg leaves the mark between where it was
  and its target, up to the unit of the peg and the rounding of k.
* `reduce_reverses` refutes `ReduceNeverReverses`.

move_amm_price, by which an admin moves the reserves under open positions without booking anything, is
an action of FundingClock only.

### Margin

One account: its collateral in the quote bank, a position in each of two markets, one order, the
oracle's price and validity and the mark twap per market. `OrderExecution` has the order's side as
functions: `validate_order` per type, `get_limit_price` with an oracle offset, `Triggered`, and how
much moves the mark to the limit (`reserve_at_price`, an integer square root). Actions:
open_position, close_position, place_order, cancel_order, fill_order and place_and_fill_order (taker
and post-only, sized by limit, trigger and free collateral) with the margin and divergence checks of
the code, in its order (the margin is checked after the swap and before pnl, fee and funding are
booked); deposit, withdraw, settle_pnl, update_funding_rate; trades of others; feeds that move or
become invalid; liquidate, by another or by the account itself. `calculate_liquidation_status`
computes requirement and collateral of each market twice, at mark and at oracle, as the code does;
`full_liquidation` and `partial_liquidation` are the bodies of the two loops, and `liquidation`
folds them over the markets, largest requirement first (either order where equal), until the
account is safe again. Abstracted: a token is a unit of quote (conversions are BankLedger's), the
spread and the curve updates are off (so that the prepeg of the margin check is the amm itself),
twaps are inputs.

* `NewRiskAboveMaintenance`: a trade that increases a position, or a withdrawal, never leaves an
  account that can be fully liquidated right after; two requirements computed from different
  prices, sums and moments have to agree on that.
* `LiquidationPossible`: if oracles are valid and near the mark and amounts are not below the
  minimum, no checked subtraction or division in the loops fails for an account that is due.
* `LiquidationOnlyReduces`: no position grows or turns round.
* `LiquidationCostsThePenalty`: fees add up to at most the penalty on the collateral and the
  account is poorer by them alone, but for rounding.
* `PartialLiquidationHelps`: the account's worth is a larger part of its positions' value after it.
* `SizedFillIsAffordable`: a taker's order whose size comes from the free collateral is never
  refused for lack of margin: the sizing never looks at the trade, the check comes after it.
* `FilledWithinLimit`: a resting limit order that increases a position trades at its limit or
  better, but for a unit of each reserve.
* `post_only_margin` refutes `PostOnlyMeetsPartial`.

### FundingClock

One market: the mark, the twaps of mark, bid, ask and oracle with their times, the last rate and its
time; the oracle's account and the clock are inputs (`TimePasses`). An instruction is what it does
to these: `Swapped` (the mark's twap is updated with the mark from before the trade; twice by a trade
that turns a position round, `SwappedTwice`), `IfValid`
(the oracle's twap, if the price is valid), `funding_updated` at the end. The order of the first
two differs between open_position and close_position, and the model keeps it. The oracle twap's
path, normalisation by confidence, the cap at a third, the nudge, the correction after an invalid
time, is the code's with smaller denominators. A negative price fails every instruction that tests
validity (`Readable`).

* `FundedOncePerPeriod`: between two updates lies a multiple of the period, and at least two
  thirds of one pass, whichever instructions bring them. Also proved.
* `FundingUsesFreshTwaps`: a rate is only ever computed from averages of this very moment.
* `TwapsWithinSeen`: no cap, nudge, correction or rounding takes an average out of the range of
  what it averages.

### AccountLoader

Each action is what one event of the JavaScript loop runs. A load is its promise; chunks answer,
time out or fail separately; `loadPromiseResolver` is one field shared by all loads, as in the
code. Subscribers await their own or a joined load; what wakes them is explicit in `Woken`.

* `NeverGoesBack`: the slot shown to a subscriber never decreases.
* `CallbacksOwned`: every callback can still be removed, and polling runs exactly while needed.
* `CallsEnd` (liveness): a call ends, by its own load or the one it joined, unless the promise it joined
  was replaced before its load was done (`Stranded`). The code does that: addAccount of another
  subscriber drops the promise and the load() after it takes its resolver, at any time.

`fetch` may be called at any time, subscribed or not. A subscriber has one call under way at a time:
two subscribe() of one subscriber at once would register two callbacks (the await of
pollingUserAccountSubscriber.ts:77), which the model leaves out. A throw ends a call like a return.

### EventSubscriber

The chain is a sequence of transactions with slots and failures. The websocket notifies of some
of them in any order, polls fetch pages since the last one seen, the backtrack fetches pages
backwards; all end in `handleTxLogs`. The list is the code's doubly linked list with head, tail
and size, pointers included, since a pointer is what goes wrong. Trades are compared by
`tradeRecordSortFn`, by record id within a market and by second between markets; ids are the market's
counter, which a failed transaction does not move although the websocket brings its record too. The
websocket's `unsubscribe` takes two steps, since a subscribe() before the removal is answered finds a
subscription and does nothing (`Removed`).

* `EventsOnce`: however a transaction arrives, and however often, its record is emitted once.
* `ListSorted`: the list is in order: by slot, and for trades by second, unless a failed trade's record
  with a reused id is in it. The trades' comparison is not transitive, and more does not hold: within a
  second a late trade of another market is listed as newer than one of a later slot.
* `PolledListKeepsNewest`: with polls alone the list holds the newest records, in the orders that put the
  newest at the head and for every type but trades. Of two trades of one market in a slot a poll brings
  the second first, and the first goes behind it and the tail pointer. In the descending order of the chain every
  new record goes behind the tail pointer, which stays at the first one, so that detach unlinks
  others; nothing the repository says promises more, and the property leaves that order out.
* `AwaitedReturns` (liveness, for a polling client): who awaits a transaction that lands goes on, unless
  more than a page landed since the last poll: what that page left out is never asked for again.

### TxSend and RetryTxSender

`TxSend` says what a caller of `send` may rely on, with four variables: how many copies went out,
whether a node acknowledged one, whether the transaction is on chain, and the answer.
`RetryTxSender` is the call between its awaits, its retry loop, both timers, the signature listeners
per connection with their ids, connections added meanwhile, and nodes that acknowledge, reject,
report or stay silent. Time is counted in ticks; a timer that is due may fire later, as on a busy
event loop. The provider's own connection object is not added again; the code would accept it and put
two listeners on it (retryTxSender.ts:233-243).

* `SendsOnce` is `TxSend`'s specification with `accepted` as `txid`: RetryTxSender implements it,
  fairness included. No copy goes out once the caller has its answer (the sleeping loop is the one
  that could), "ok" is only said of a transaction on chain, the answer is given once, and an
  acknowledged transaction gets one.
* `ListenersRemoved`: confirmed by one connection of several, timed out or failed while registering,
  the call leaves no listener behind, but for a listener with the id 0.

### WebSocketSubscriber

One clearing-house subscriber with the account subscribers it makes (state, user, markets), each
with buffer, slot and listener; calls of the application, which awaits one before the next except
for `subscribe()`, which several of its parts may call at once, and `fetch()`; requests whose answers
are from any slot so far; notices under way, delivered in any order or lost when the connection drops
(`Reconnect`). `fetch` asks for every role; oracles, which the code's fetch() passes over, are followed
like markets and not roles of their own here. updateAuthority and updateUserId set their field with the
unsubscribe and not after its await, which with one call at a time nobody sees. A chain is one of a few
histories of accounts; what an answer contains follows from its slot. `irregular` is set once a fetch
has thrown or the application has changed accounts while unsubscribed: the code then leaks listeners
or waits for ever, and the properties say so by excepting it.

* `FollowsItsAccounts`: subscribed and idle, state, user and configured markets have a listener, on
  the current authority's and user id's account, whatever the sequence of calls was.
* `NoListenerLeaks`: every listener belongs to a subscriber that `unsubscribe()` still reaches.
* `MissesOnlyTheGap`: with all answers and notices handled, in any order, the newest contents are
  shown, unless the last change came between the fetch of subscribe() and the registration after it, or
  its notice was lost with the connection.
* `JoinedSubscribesReturn` (liveness): who joined a subscribe() under way goes on.

## 3. Runs and bounds

All counts are with the cfgs in this directory.

| Run | Instance | Distinct states |
|---|---|---|
| `bank_ledger` | 2 users, 2 banks, 2 slots, amounts 1 and 2, interest precision 2, one time step, 2 trades of pnl -2 or 2, fees 0 or 2 | 23 k |
| `orders` | 2 users, 2 markets, 2 position slots, 2 order slots, 8 kinds of order, minimum size 1 or 2, positions to 2 | 13 k |
| `perp_market` | 2 users, 2 to 4 steps, 1 quote and 1 base size, 2 limits, 2 liquidation shares, k raised and lowered, 2 pegs, 3 oracle answers (above, below, invalid), spread and curve updates off and on, withdrawals | 282 k |
| `margin` | 1 account, 2 markets, 4 steps, 8 orders of all types, 4 feeds (near, below, invalid, invalid with a low twap) | 220 k |
| `funding_clock` | 5 steps, period 6, waits of 1, 4 and 7, 2 marks, 5 feeds (near, uncertain, stale, volatile, negative) | 1.14 M |
| `account_loader` | 2 subscribers of 1 account, 2 loads alive, 2 slots, 2 rounds of subscribe | 404 k |
| `events` | both providers, with and without backtrack, 4 transactions, or 3 trades of 2 markets, 2 slots a second, pages and lists of 2, cache of 3 | 672 k |
| `tx_sender` | 3 connections, two of them with one endpoint, timeout of 5 ticks, retry every 2, first ids 0 and 1 | 45 k |
| `websocket` | 2 callers, 2 user ids, 1 market configured or added, 3 slots, accounts created or returning to old contents, 3 calls | 327 k |

`bank_ledger` has a state constraint: once there is pnl, which only concerns the quote bank, the
other bank is left aside. `orders` has one too: either one user works through all kinds of orders, or
a second one trades in both markets and fills the first one's plain orders; and `events`: up to four
records of a type that is sorted by slot, or up to three trades, of either market. `perp_market` follows a
behaviour one step less far with a spread and one less with curve updates (`Horizon`), lets trades
bring funding in the second step only (`FundedSteps`; update_funding_rate may come at any step), and
tries quote-sized trades only while the spread is not widened by curve updates (`SpreadWidened`):
there the surplus is measured on the curve after the trade and the market books a little too much.

Why these suffice for what they show: interest precision 2 makes every conversion round, so the
rounding cases of 10^10 appear within two operations; two slots and two markets (or one slot and
two markets) are the least in which a slot can be taken over or a position split; sizes
around minimum 1 and 2 reach each branch of the rounding rules; in PerpMarket reserves of 1000 with
quote units of 10 make each swap truncate and each limit bite within a few trades, and an oracle
at 190 or 110 with a mark of 150 asks for pegs the pool can and cannot pay for; in Margin one trade of
each kind, or one order placed and later filled, is enough to reach either kind of liquidation once a feed or another trade moves a price,
and penalties and ratios are large enough for every share to round; waits of 1, 4 and 7 seconds with
a period of 6 fall before, into and past each third of a period; two overlapping loads are the least
that can overtake one another or replace a promise; four transactions with pages and a list of two
overflow the list twice and make a poll miss some; a timeout of five ticks and a sleep of two give
two resends and a sleep that outlasts the call; three slots are the least in which contents change,
return and overtake each other. `MaxSteps` bounds the behaviours of
PerpMarket, Margin and FundingClock, whose counters only grow; `MaxTime`, `MaxTrades`, `MaxBalance`, `MaxBase`, `MaxOrderId`,
`MaxLoads`, `MaxSlot`, `MaxLanded`, `MaxSubscribes`, `MaxCalls`, `MaxObjects` bound the others;
RetryTxSender is bounded by its own timeout. Deadlock checking is off where such a
bound ends every behaviour. Symmetry is used in PerpMarket for the two users (safety only).
`RoundingGain` and `RoundingLoss` are the units of quote one step may create or lose; that the
program may *create* one is not a modelling artefact (funding and curve costs truncate).

**Fairness.** AccountLoader: each request's timer fires and a load of nothing ends (weak fairness of `Timeout` and
`LoadNothing`, JavaScript timers and promises), and a call whose promise is resolved runs (strong fairness of `Resume` and
`addToAccountLoader`; strong because the model's bound on simultaneous loads may disable them for a
while, the code never does). EventSubscriber: the interval fires (weak) and the node does not fail
every request (strong). RetryTxSender: the clock runs and timers that are due fire (weak fairness of
`Tick`, `RetryWakes`, `ConfirmTimesOut`); no node ever has to answer and no transaction has to land.
WebSocketSubscriber: each request of a call is answered or fails, and the call then goes on (weak).
The on-chain modules state safety only and assume no fairness.

**Disagreements found.** Three runs expect a violation; `findings` quotes the lines.
`pnl_pool_sign`: the pnl pool adds what it pays out. `reduce_reverses`: a reducing trade can turn
the position round, because its size is judged without the spread. `post_only_margin`: the partial
requirement of a maker's fill is divided by the precision twice, which shows once the market has
fallen past the limit of the resting order.

Others seen while modelling, not kept as runs; where a property of a passing run meets one of them, it
excepts exactly that case:

* an immediate-or-cancel reduce-only order rounded up to the position may rest in the book
  (lib.rs:1477 compares with the amount asked for); `RestingOrders` allows just that case;
* the event list outgrows its maximum once a backtrack delivers an old record late, and a list of trades
  with polls alone (eventList.ts:48 leaves the tail pointer stale); more than a page between two polls is
  missed for good (pollingLogProvider.ts:52-56), and a page of failed transactions ends the
  backtrack early (fetchLogs.ts:38);
* update_k may spend on a higher k all the fees that are not withdrawn yet (lib.rs:2469), and withdraw_fees
  then still pays out half of what was ever earned: two trades, one raise of k and one withdrawal leave
  less in the pool than was taken out, against "A portion of fees must always remain in protocol"
  (lib.rs:2151);
* update_amm_oracle_twap narrows the gap to the mark's twap (lib.rs:2324); funding is paid for the gap to
  the mid (controller/funding.rs:145), which can widen from nothing to the spread, against "thus more tame
  funding" (lib.rs:2300);
* who has joined a load waits for ever once another subscriber has called addAccount, which drops
  loadPromise (bulkAccountLoader.ts:67), and load(), which overwrites loadPromiseResolver (113-115), before
  that load is done; no load has to take a minute for that, although one that does has the same effect;
* trades of different markets in one second are listed in the order they came in (sort.ts:30), not in
  that of their slots; records of failed trades, which the websocket brings too, have the id of the
  market's next trade;
* prepeg: what a lower k takes from the positions is credited to nobody, and when the peg then cannot
  be moved k stays lowered, fill after fill; the cached `terminal_quote_asset_reserve`, written at
  initialisation and by update_k only, drifts; two assertions, a division by a gap of less than a
  unit and a spread above 200% make fills fail; the oracle's validity is not asked for
  (controller/repeg.rs:75-221);
* a maker's order that opens or adds pays the spread's surplus to nobody (position.rs:188-206);
* a post-only fill in a market with a spread can be refused because its size ignores the spread;
  the leverage it is sized with is an integer division (math/orders.rs:251);
* close_position updates the mark's twap before the oracle's, and a liquidation only the former, so
  an oracle that was always valid is "corrected" towards the mark (amm.rs:213); the bid is computed
  above the mark (market.rs:166); a negative price makes the failsafe reset_amm_oracle_twap fail
  (amm.rs:757);
* a base_spread of 2 or 3 divides by zero (amm.rs:561);
* losses beyond the deposit are cut off before settled pnl is added, which overstates
  collateral (collateral.rs:6); a borrower makes the liquidation status panic (margin.rs:237); in a
  partial liquidation one market that would diverge fails the whole instruction (lib.rs:1952);
* listener id 0 is taken for no listener and never removed (retryTxSender.ts:175,
  webSocketAccountSubscriber.ts:30 and :109); a rejected resend stops the retries while the call waits on;
  a transaction that failed on chain is reported as confirmed;
* a fetch that throws in subscribe() leaves isSubscribing set: later calls wait for ever and the
  listeners made so far stay (webSocketClearingHouseAccountSubscriber.ts:85); markets added by
  addMarket are not followed after an unsubscribe and a new subscribe; contents that return to an
  earlier value do not advance the slot, so that a late notice of the value in between is shown for
  good; the client's updateWallet stores a new user id and calls updateAuthority only
  (clearingHouse.ts:213-238).

## 4. Proofs

Every theorem is about all values of the constants its module's assumption allows: any finite sets of
users, subscribers, connections, markets, any amounts, periods, precisions, and any value of the
bounds that keep TLC's instances finite. The assumptions are named in the modules that declare the
constants and TLC evaluates them in every run of the module; nothing else is assumed.

| Theorem | States | Of |
|---|---|---|
| `TypeCorrect`, `OrdersCounted`, `PositionsUnsplit` | `[]TypeOK`, `[]OpenOrdersCounted`, `[]OnePositionPerMarket` | UserOrders |
| `OrdersFound`, `OnlyRestingOrders` | `[]OrdersAddressable`, `[]RestingOrders` | UserOrders |
| `NoDust`, `ReduceOnlyReduces` | `NoResidueBelowMinimum`, `ReduceOnlyFills` (action properties) | UserOrders |
| `ClockTypeCorrect`, `TwapsStayWithin` | `[]TypeOK`, `[]TwapsWithinSeen` | FundingClock |
| `OncePerPeriod`, `FreshTwaps` | `FundedOncePerPeriod`, `FundingUsesFreshTwaps` (action properties) | FundingClock |
| `BalancesFound`, `TotalsAddUp` | `[]SlotsAddressable`, `[]BankTotalsAccounted` | BankLedger |
| `ListenersGone` | `[]ListenersRemoved` | RetryTxSender |
| `SendsSafely` | the initial states and the steps are those of TxSend: the safety half of `SendsOnce` | RetryTxSender |
| `AccountsFollowed`, `ListenersOwned`, `OnlyTheGapMissed` | `[]FollowsItsAccounts`, `[]NoListenerLeaks`, `[]MissesOnlyTheGap` | WebSocketSubscriber |
| `CallbacksRemovable`, `ShownAdvances` | `[]CallbacksOwned`, `NeverGoesBack` (action property) | AccountLoader |
| `EmittedOnce`, `ListInOrder`, `NewestListed` | `[]EventsOnce`, `[]ListSorted`, `[]PolledListKeepsNewest` | EventSubscriber |

### UserOrdersProofs

Assumption: `OrdersAssumption` (at least one market, at least one slot of each kind, parameters of the
right type). None of the first three is inductive by itself. Typing fails on a decrement unless the
count is at least one; the count is at least one only because it equals the number of open orders;
that equality survives the reuse of a slot only if a free slot's market has no open orders, which is
the second half of `Counted`; and it survives a trade only if the slot found is *the* slot of the
market, which is `Unsplit`. `SlotsInv` is their conjunction per account. The proof goes by lemmas about
one account (a slot rewritten, a slot touched together with one order, a slot added), then about the
operations (order placed, removed, filled, filler rewarded, funding settled), then one lemma per
instruction, then `SlotsInvNext`. Facts about cardinality come from FiniteSetTheorems.

The other four are proved together over `BooksInv`, which adds to `SlotsInv` that the book is
addressable, that the counter is positive and that every order may rest. They cannot be separated: a
fill by id does to the book what is claimed only if the order found is the one meant, and what a fill
leaves is at least the minimum only if what it started from was a resting order. Each instruction is
shown to be a `GoodStep` of every account, which is both the invariant afterwards and the relation
between an order and position before and after from which the two action properties follow.

### FundingClockProofs

Assumption: `ClockAssumption` (positive denominators, period and prices). `InstructionSteps` shows that
every step is one of two kinds, an instruction at the present time that either keeps the time of the
last rate or sets it to now with the wait over (`FundingStep`), or time passing with the amm unchanged;
from that and typing, typing is inductive. Averages are integers because both weights are positive
(`WeightsPositive`), which needs that no time kept lies after the present. `WaitEndsOnPeriod` is the
arithmetic of `OncePerPeriod`: with `from = q * P + d`, the wait is `P - d` with `d` at most a third of
`P`, or `2 * P - d`, so it ends on `(q + 1) * P` or `(q + 2) * P` and is never shorter than two thirds
of `P`. (The branch of the code for a wait of more than two periods is never taken.)

`TwapsWithinSeen` becomes inductive as `ClockInv`: the twaps are positive, the present mark and feed
are in the history, and the last oracle price, from which the next one is clamped, is itself within
it. `FreshTwaps` comes out of the same case analysis (`EveryStepAverages`), since a valid price is
positive and so update_oracle_price_twap does not give up on it.

### BankLedgerProofs

Assumption: `LedgerAssumption` (users and markets are finite, precisions positive, weights and amounts
natural). The inductive invariant `Ledger` is stated of four values, not of the variables, because one
instruction passes through several of them: interest, then one or two transfers, then a pool. It
holds the slots of every user, the totals of every bank and, what neither property says, that
cumulative interest never falls below the precision it started from: a balance is then worth zero
tokens only if it is zero. Without that, update_bank_balances would find nothing to reduce in a small
balance, give the holder the opposite type all the same, and the balance would change sides without
the bank's totals. Slots have to be in the invariant of the totals: a
balance written to the wrong one of two slots of a bank, or over a slot that only looked free, would
lose money from the sum. Sums change by what one summand changes (`SumChanged` of LibraryProofs).

### RetryTxSenderProofs

Assumption: `SenderAssumption`. `SenderInv` relates where the call is to what the listeners, the retry
loop and the caller know: before confirmation there are no listeners; during it every listener of a
connection is the one whose id the call keeps; after the answer the loop is done or not running. The
last is what makes a step of the sleeping loop a step of TxSend. The refinement is proved action by
action under the same mapping (`accepted` is `txid`) as the PROPERTY `SendsOnce`; TxSend's fairness is
liveness and stays with TLC.

### WebSocketSubscriberProofs

Assumption: `SubscriberAssumption` (finitely many markets, none named like the other roles, no
configuration lists a market twice). `SubscriberInv` is stated, as in BankLedger, of the fields an
action passes through (`Wired`): references never dangle although account subscribers that nothing
refers to are given out again, and no account subscriber has two roles; a call under way has roles it
has done and roles it has yet to do (`Pending`). Until the model's `irregular` is set, every listener
is in a role that is done or still to be unsubscribed (`Reached`), and every wanted role that is not
pending is followed. The first two properties are the case of no call under way.

The third takes `HistoryAssumption` too: an account, once created, has contents for ever, since no
instruction of the program closes one (handleRpcResponse would ignore an account that is gone and go
on showing its last contents). `Informed` says of every account subscriber that what it shows is the
version of its account at the slot it keeps, and of one that listens that it shows the newest
contents, or that the notice of the last version is under way to it, or that the last version is no
newer than its listener or than the last notice lost with the connection. Each alternative survives an
answer or a notice of any version in any order:
if contents do not return to an earlier value, the slot kept with the newest contents is that of the
last version (`LatestAlone`), and nothing is newer; and the notice of the last version shows it
(`HandledTracks`), because a last version after the first is never an absent account.

### AccountLoaderProofs

Assumption: `LoaderAssumption` (finitely many subscribers). `LoaderInv` adds to `CallbacksOwned` that a
callback is stored with the entry of its owner's account and that accountsToLoad has an account once,
without which removing the first entry of an account might keep polling another; that a subscriber
still deriving its address has no callback, without which registering would forget one; and that no
subscriber shows a later slot than the loader's buffer has (`Behind`), which is why both the callback
and fetch() only ever move it forward. The latter holds for answers of any slot in any order.

### EventSubscriberProofs

Assumption: `EventAssumption`; the one conjunct that matters beyond types is that a slot has no more
transactions of the program than the cache has room for (4096 by default), since what a poll asks for
again lies in the slot of mostRecentSeenTx. `EventInv` has a part for the chain (slots do not
decrease, at most MaxPerSlot in each), one for the pages under way and one for the client:

* *The list.* The pointers represent a sequence of nodes (`Linked`): next and prev of neighbours agree
  and the iterator, a recursive function, yields that sequence. The tail pointer need not be its last
  node: it is one of the sequence or one that was unlinked and whose own pointers still lead to
  neighbours (`Held`, `Dropped`), which is what detach finds when it unlinks the same node again.
  insert and detach are shown to insert into and delete from the sequence whatever the tail is, so
  that it stays sorted by `SortKey`, the slot or, of trades, the second. For trades this takes that the
  list has no record of a failed one (`NoReusedIds`): then ids within a market go with the clock, and
  both branches of the sort function agree with it although they do not agree with each other.
* *The cache.* It holds the last transactions handled, each once. While the chain fits into it nothing
  is evicted (`Whole`); for a client that only polls, what was evicted is of an earlier slot than the
  newest entry (`Polled`), by counting the transactions of a slot, so no page brings it again.
* *The newest.* For that client and newest-first orders the tail is the last node, new records go in
  front of it, and the list is the newest part of what was emitted (`Newest`).

fetchLogs' sort is a ranking: ranks are a bijection onto an interval, by the library's theorems on
injections between finite sets, so a page is sorted by slot and has every transaction once. A page is
handled by a fold, which is unrolled to one handleTxLogs after the other (`HandledOneByOne`), and the
client's invariant is carried through the page.

### LibraryProofs

What the community modules' operators yield is proved from their definitions. The library's induction
theorems take operators, which the provers do not instantiate; here induction over naturals and over
the subsets of a finite set is stated of a *set* of the good elements (`NatSetInduction`,
`SubsetInduction`), derived from well-foundedness. With it `SumFunction`, a recursive function over
subsets, is shown to have a value, a unique one, and to change by what one summand changes.

### Only model-checked

* Liveness: `CallsEnd`, `AwaitedReturns`, `JoinedSubscribesReturn`, and the fairness of
  `SendsOnce`.
* `RoundingLossBounded` (BankLedger): the step that accrues interest multiplies totals by rates of
  utilisation; the bound rests on nonlinear arithmetic and is checked for small rates.
* PerpMarket: `PositionsAggregated` does not hold for all parameters (the findings of section 3);
  `LowerBoundKept` compares costs that are rounded quotients with a pool; `ZeroSum`, `NoFreeRoundTrip`
  and `PrepegTowardsTarget` bound the rounding of products and quotients of reserves.
* Margin: margin ratios, weights and slippage enter the properties as numbers; they are facts about
  the ratios in use and not about all.

## 5. Not modelled

* *Oracle parsing*, *account maps and contexts*: inputs to the models.
* *formulaic_update_k, calculate_repeg_pool_budget, calculate_expected_excess_funding_payment*:
  called by nothing.
* *The prepeg of the margin check* (margin.rs:94): Margin has curve updates off; with them the check
  values positions on the curve a prepeg would lead to, liquidation on the curve as it is.
* *Discounts and referrals*: split a fee between user and market.
* *SDK clients and arithmetic*: stateless builders and copies of the program's arithmetic.
* *Polling subscribers of the clearing house, oracles and token accounts*: users of the loader like
  the polling user subscriber, with more accounts each.
* *Mock programs, CLI, stress scripts, tests*.

## 6. Plan

1. Done: BankMath, BankLedger, UserOrders, Amm, PerpPosition, Curve, PerpMarket,
   OrderExecution, Margin, FundingClock, AccountLoader, EventSubscriber, TxSend and RetryTxSender,
   WebSocketSubscriber.
2. Theorems, done: all properties of UserOrders and all of FundingClock that hold; every safety property of
   AccountLoader and RetryTxSender; `SlotsAddressable` and `BankTotalsAccounted` of BankLedger;
   every safety property of WebSocketSubscriber and EventSubscriber. Next: the parts of PerpMarket
   that hold in general (`net_base_asset_amount` is the sum of the positions).
3. Abstract specifications of a bank (a vault with claims), of an account (a partial map from markets
   to positions) and of funding (one rate per period) that BankLedger, UserOrders and FundingClock
   implement.
4. The sender composed with EventSubscriber (send, then awaitTx); Margin with curve updates on.
