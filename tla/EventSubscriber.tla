-------------------------- MODULE EventSubscriber --------------------------
(***************************************************************************)
(* The SDK's EventSubscriber: it takes the logs of the program's           *)
(* transactions from a websocket or by polling, and from a backtrack over  *)
(* old ones when it subscribes, and keeps their records in a bounded       *)
(* sorted list (EventList) and a bounded cache by signature                *)
(* (TxEventCache), on whose answer a client may wait (awaitTx).            *)
(*                                                                         *)
(* Between awaits JavaScript runs to completion: all the transactions of a *)
(* fetched page are handled in one step.  A transaction is its place in    *)
(* the chain and has one record, of one type.  The list is the linked list *)
(* of the code, with 0 for undefined; a list node is its place in the      *)
(* order of creation, so that what a stale pointer refers to is still      *)
(* there.                                                                  *)
(***************************************************************************)
EXTENDS Integers, SequencesExt, FiniteSetsExt

CONSTANTS
    Providers,      \* the log providers a client may choose: "websocket", "polling"
    OrderBy,        \* "blockchain" or "client"
    OrderDir,       \* "asc" or "desc"
    EventTypes,     \* the types of records: trades are sorted by a function of their own
    Markets,        \* the markets trades are of
    Timestamp,      \* slot |-> the cluster's clock in it, in seconds
    MaxEvents,      \* maxEventsPerType: 4096 by default
    MaxTx,          \* maxTx, of the cache and of the backtrack: 4096 by default
    UntilTxs,       \* untilTx: where the backtrack ends, 0 when there is none
    PageLimit,      \* signatures in an answer of the rpc node: 1000
    MaxPerSlot,     \* transactions of the program in a slot
    MaxLanded,      \* bound on the transactions of the chain
    MaxSubscribes   \* bound on the calls of subscribe that start something

ASSUME EventAssumption ==
    /\ Providers \subseteq {"websocket", "polling"} /\ UntilTxs \subseteq Nat
    /\ OrderBy \in {"blockchain", "client"} /\ OrderDir \in {"asc", "desc"}
    /\ MaxEvents \in Nat \ {0} /\ MaxTx \in Nat \ {0} /\ PageLimit \in Nat \ {0}
    /\ MaxPerSlot \in 1 .. MaxTx /\ MaxLanded \in Nat \ {0} /\ MaxSubscribes \in Nat \ {0}
    /\ Timestamp \in [1 .. MaxLanded -> Nat]
    /\ \A m, n \in 1 .. MaxLanded : m =< n => Timestamp[m] =< Timestamp[n]

VARIABLES
    options,    \* provider and untilTx, set for good by the constructor, and the
                \* type of the records looked at
    chain,      \* the program's transactions: slot, market, and whether they failed
    notices,    \* websocket notifications on their way
    list,       \* EventList
    cache,      \* keys of TxEventCache, the oldest first
    emitted,    \* transaction |-> how often its record was emitted as newEvent
    awaiting,   \* keys of awaitTxPromises
    subscribed, \* the log provider's subscription: "no", "yes" or, until the websocket
                \* has answered that it is removed, "removing"; isSubscribed() unless "no"
    poll,       \* the poll under way: mutex and the page it has the signatures of
    mostRecentSeenTx,
    backtrack   \* call of subscribe |-> its fetchPreviousTx

vars == <<options, chain, notices, list, cache, emitted, awaiting, subscribed, poll,
          mostRecentSeenTx, backtrack>>

Landed == 1 .. Len(chain)
EventType == options.eventType
Backtracks == 1 .. MaxSubscribes

Init ==
    /\ options \in [provider : Providers, untilTx : UntilTxs, eventType : EventTypes]
    /\ chain = <<>>
    /\ notices = {}
    /\ list = [node |-> <<>>, head |-> 0, tail |-> 0, size |-> 0]
    /\ cache = <<>>
    /\ emitted = [t \in 1 .. MaxLanded |-> 0]
    /\ awaiting = {}
    /\ subscribed = "no"
    /\ poll = [mutex |-> FALSE, page |-> <<>>]
    /\ mostRecentSeenTx = 0
    /\ backtrack = [b \in Backtracks |->
                       [pc |-> "unused", before |-> 0, fetched |-> 0, page |-> <<>>]]

-----------------------------------------------------------------------------
(* EventList.                                                              *)

ts(t) == Timestamp[chain[t].slot]

(* The market's next_trade_record_id as the trade found it: a transaction  *)
(* that fails leaves it to the next.                                       *)
TradesBefore(t) ==
    {s \in 1 .. t - 1 : chain[s].market = chain[t].market /\ ~ chain[s].err}
recordId(t) == 1 + Cardinality(TradesBefore(t))

(* The answer "less than" of the sort functions.                           *)
defaultBlockchainSortFn(event, new) == chain[event].slot =< chain[new].slot

(* Mutant: record ids compared whatever the market.                        *)
tradeRecordSortFn_Ids(event, new) == recordId(event) =< recordId(new)

tradeRecordSortFn(event, new) ==
    IF chain[event].market # chain[new].market THEN ts(event) =< ts(new)
                                               ELSE recordId(event) =< recordId(new)

LessThan(event, new) ==
    IF EventType = "TradeRecord" THEN tradeRecordSortFn(event, new)
                                 ELSE defaultBlockchainSortFn(event, new)

(* The sort function finds the new event to belong before this one.  In    *)
(* ascending order the newest is at the head.                              *)
Precedes(new, event) == OrderBy = "client" \/ (LessThan(event, new) <=> OrderDir = "asc")

(* The nodes from the head on, as the iterator yields them.                *)
nodes_of(L) ==
    LET from[k \in Nat] == IF k = 0 THEN <<L.head>>
                           ELSE LET nodes == from[k - 1]
                                IN IF Last(nodes) = 0 THEN nodes
                                   ELSE Append(nodes, L.node[Last(nodes)].next)
    IN Front(from[Len(L.node)])

toArray(L) == LET nodes == nodes_of(L) IN [k \in DOMAIN nodes |-> L.node[nodes[k]].event]

SetNext(L, n, next) == IF n = 0 THEN [L EXCEPT !.head = next]
                                ELSE [L EXCEPT !.node[n].next = next]
SetPrev(L, n, prev) == IF n = 0 THEN L ELSE [L EXCEPT !.node[n].prev = prev]

(* Mutant: the newest event is dropped.                                    *)
detach_Head(L) ==
    LET next == L.node[L.head].next
    IN [SetPrev(L, next, 0) EXCEPT !.head = next, !.size = @ - 1]

detach(L) ==
    LET node == L.node[L.tail]
        unlinked == SetPrev(SetNext(L, node.prev, node.next), node.next, node.prev)
    IN [unlinked EXCEPT !.tail = IF node.next # 0 THEN @ ELSE node.prev,
                        !.size = @ - 1]

(* The node after which the event goes, 0 for the head.                    *)
Place(L, event) ==
    LET nodes == nodes_of(L)
        later == {k \in DOMAIN nodes : Precedes(event, L.node[nodes[k]].event)}
        k == IF later = {} THEN Len(nodes) ELSE Min(later) - 1
    IN IF k = 0 THEN 0 ELSE nodes[k]

(* The tail is set with the first event and left alone after that.         *)
insert(L, event) ==
    LET n == Len(L.node) + 1
        place == Place(L, event)
        next == IF place = 0 THEN L.head ELSE L.node[place].next
        grown == [L EXCEPT !.node = Append(@, [event |-> event, next |-> next, prev |-> place]),
                           !.size = @ + 1]
        linked == SetPrev(SetNext(grown, place, n), next, n)
    IN IF L.head = 0 THEN [grown EXCEPT !.head = n, !.tail = n]
       ELSE IF linked.size > MaxEvents THEN detach(linked) ELSE linked

(* TxEventCache.add, of a key it does not have.                            *)
add(C, t) == Append(IF Len(C) = MaxTx THEN Tail(C) ELSE C, t)

-----------------------------------------------------------------------------
(* The subscriber.                                                         *)

Client == [list |-> list, cache |-> cache, emitted |-> emitted, awaiting |-> awaiting]

(* Mutant: a transaction seen before is handled again.                     *)
handleTxLogs_Again(S, t) ==
    [list |-> insert(S.list, t), cache |-> add(S.cache, t),
     emitted |-> [S.emitted EXCEPT ![t] = @ + 1], awaiting |-> S.awaiting \ {t}]

handleTxLogs(S, t) ==
    IF t \in ToSet(S.cache) THEN S
    ELSE [list |-> insert(S.list, t),
          cache |-> add(S.cache, t),
          emitted |-> [S.emitted EXCEPT ![t] = @ + 1],
          awaiting |-> S.awaiting \ {t}]

(* One transaction after the other, as the providers and the backtrack     *)
(* give them to the callback.                                              *)
HandleEach(S, txs) == FoldLeft(handleTxLogs, S, txs)

Handle(txs) ==
    LET S == HandleEach(Client, txs)
    IN /\ list' = S.list /\ cache' = S.cache
       /\ emitted' = S.emitted /\ awaiting' = S.awaiting

(* The newest signatures older than `before` and newer than `until`, as    *)
(* the rpc node gives them ...                                             *)
getSignaturesForAddress(before, until) ==
    LET all == {t \in Landed : until < t /\ (before = 0 \/ t < before)}
    IN {t \in all : Cardinality({s \in all : s > t}) < PageLimit}

(* ... less the failed ones, by slot.  Those of one slot stay as they were *)
(* given, the newest first.                                                *)
Earlier(s, t) == \/ chain[s].slot < chain[t].slot
                 \/ chain[s].slot = chain[t].slot /\ s > t

Ahead(T, t) == {s \in T : Earlier(s, t)}

SortedBySlot(T) ==
    [k \in 1 .. Cardinality(T) |-> CHOOSE t \in T : Cardinality(Ahead(T, t)) = k - 1]

fetchLogs(before, until) ==
    SortedBySlot({t \in getSignaturesForAddress(before, until) : ~ chain[t].err})

(* A subscription, and the backtrack it starts without waiting for it.     *)
subscribe ==
    /\ subscribed = "no"
    /\ options.untilTx =< Len(chain)
    /\ subscribed' = "yes"
    /\ \E b \in Backtracks :
          /\ backtrack[b].pc = "unused"
          /\ \A c \in 1 .. b - 1 : backtrack[c].pc # "unused"
          /\ backtrack' = [backtrack EXCEPT ![b].pc =
                              IF options.untilTx = 0 THEN "done" ELSE "signatures"]
    /\ UNCHANGED <<options, chain, notices, list, cache, emitted, awaiting, poll, mostRecentSeenTx>>

(* The websocket's provider waits for the removal before it forgets the    *)
(* subscription: until then subscribe finds one and does nothing.          *)
unsubscribe ==
    /\ subscribed = "yes"
    /\ subscribed' = IF options.provider = "websocket" THEN "removing" ELSE "no"
    /\ notices' = {}
    /\ UNCHANGED <<options, chain, list, cache, emitted, awaiting, poll,
                   mostRecentSeenTx, backtrack>>

Removed ==
    /\ subscribed = "removing"
    /\ subscribed' = "no"
    /\ UNCHANGED <<options, chain, notices, list, cache, emitted, awaiting, poll,
                   mostRecentSeenTx, backtrack>>

(* A client waits for the transaction's records.                           *)
awaitTx(t) ==
    /\ t \notin awaiting /\ t \notin ToSet(cache)
    /\ awaiting' = awaiting \cup {t}
    /\ UNCHANGED <<options, chain, notices, list, cache, emitted, subscribed, poll,
                   mostRecentSeenTx, backtrack>>

(* WebSocketLogProvider: the callback of onLogs.                           *)
onLogs(t) ==
    /\ t \in notices
    /\ notices' = notices \ {t}
    /\ Handle(<<t>>)
    /\ UNCHANGED <<options, chain, subscribed, poll, mostRecentSeenTx, backtrack>>

(* PollingLogProvider: the interval, up to the second answer it awaits.    *)
PollSignatures ==
    /\ options.provider = "polling" /\ subscribed = "yes" /\ ~ poll.mutex
    /\ LET page == fetchLogs(0, mostRecentSeenTx)
       IN /\ page # <<>>
          /\ poll' = [mutex |-> TRUE, page |-> page]
    /\ UNCHANGED <<options, chain, notices, list, cache, emitted, awaiting, subscribed,
                   mostRecentSeenTx, backtrack>>

PollTransactions ==
    /\ poll.page # <<>>
    /\ Handle(poll.page)
    /\ mostRecentSeenTx' = Last(poll.page)
    /\ poll' = [mutex |-> FALSE, page |-> <<>>]
    /\ UNCHANGED <<options, chain, notices, subscribed, backtrack>>

(* Mutant: the mutex is not given back when the request fails.             *)
PollFails_KeepsMutex ==
    /\ poll.mutex /\ poll.page # <<>>
    /\ poll' = [poll EXCEPT !.page = <<>>]
    /\ UNCHANGED <<options, chain, notices, list, cache, emitted, awaiting, subscribed,
                   mostRecentSeenTx, backtrack>>

(* The node does not answer, or not with every transaction.                *)
PollFails ==
    /\ poll.mutex
    /\ poll' = [mutex |-> FALSE, page |-> <<>>]
    /\ UNCHANGED <<options, chain, notices, list, cache, emitted, awaiting, subscribed,
                   mostRecentSeenTx, backtrack>>

(* fetchPreviousTx goes back page by page; a page without a successful     *)
(* transaction ends it.                                                    *)
BacktrackSignatures(b) ==
    /\ backtrack[b].pc = "signatures"
    /\ LET page == fetchLogs(backtrack[b].before, options.untilTx)
       IN backtrack' = [backtrack EXCEPT
              ![b].pc = IF page = <<>> THEN "done" ELSE "transactions", ![b].page = page]
    /\ UNCHANGED <<options, chain, notices, list, cache, emitted, awaiting, subscribed, poll,
                   mostRecentSeenTx>>

BacktrackTransactions(b) ==
    /\ backtrack[b].pc = "transactions"
    /\ Handle(backtrack[b].page)
    /\ LET fetched == backtrack[b].fetched + Len(backtrack[b].page)
       IN backtrack' = [backtrack EXCEPT
              ![b] = [pc |-> IF fetched < MaxTx THEN "signatures" ELSE "full",
                      before |-> Head(@.page), fetched |-> fetched, page |-> <<>>]]
    /\ UNCHANGED <<options, chain, notices, subscribed, poll, mostRecentSeenTx>>

BacktrackFails(b) ==
    /\ backtrack[b].pc \in {"signatures", "transactions"}
    /\ backtrack' = [backtrack EXCEPT ![b].pc = "failed", ![b].page = <<>>]
    /\ UNCHANGED <<options, chain, notices, list, cache, emitted, awaiting, subscribed, poll,
                   mostRecentSeenTx>>

-----------------------------------------------------------------------------
(* The cluster.  The websocket notifies of failed transactions too, in any *)
(* order, and loses what is on its way when it reconnects.                 *)

Land(slots, market, err) ==
    /\ Len(chain) < MaxLanded
    /\ LET slot == IF chain = <<>> THEN 1 ELSE Last(chain).slot + slots
       IN /\ Cardinality({t \in Landed : chain[t].slot = slot}) < MaxPerSlot
          /\ chain' = Append(chain, [slot |-> slot, market |-> market, err |-> err])
    /\ notices' = IF options.provider = "websocket" /\ subscribed = "yes"
                  THEN notices \cup {Len(chain')} ELSE notices
    /\ UNCHANGED <<options, list, cache, emitted, awaiting, subscribed, poll,
                   mostRecentSeenTx, backtrack>>

Reconnect ==
    /\ notices # {}
    /\ notices' = {}
    /\ UNCHANGED <<options, chain, list, cache, emitted, awaiting, subscribed, poll,
                   mostRecentSeenTx, backtrack>>

Next ==
    \/ \E slots \in {0, 1}, market \in Markets, err \in BOOLEAN : Land(slots, market, err)
    \/ subscribe \/ unsubscribe \/ Removed
    \/ \E t \in Landed : awaitTx(t) \/ onLogs(t)
    \/ PollSignatures \/ PollTransactions \/ PollFails
    \/ \E b \in Backtracks : BacktrackSignatures(b) \/ BacktrackTransactions(b) \/ BacktrackFails(b)
    \/ Reconnect

(* The interval fires, and of the node's answers not all are errors: a     *)
(* step that ends a poll and moves mostRecentSeenTx is PollTransactions.   *)
PollAnswered ==
    /\ poll.page # <<>>
    /\ poll' = [mutex |-> FALSE, page |-> <<>>]
    /\ mostRecentSeenTx' = Last(poll.page)

Fairness == WF_poll(PollSignatures) /\ SF_poll(PollAnswered)

Spec == Init /\ [][Next]_vars /\ Fairness

-----------------------------------------------------------------------------
Emitted == {t \in Landed : emitted[t] > 0}

OnlyPolls == options.provider = "polling" /\ options.untilTx = 0

(* A record is emitted once, although the backtrack, the polls and the     *)
(* websocket bring the same transactions and polls ask again for those of  *)
(* the last slot: while the cache has room for all there is, and for ever  *)
(* if the client only polls.                                               *)
EventsOnce == OnlyPolls \/ Len(chain) =< MaxTx => \A t \in Landed : emitted[t] =< 1

(* What the order of the chain means for the list: the slot, and of trades *)
(* only the second.                                                        *)
SortKey(t) == IF EventType = "TradeRecord" THEN ts(t) ELSE chain[t].slot

(* A record of a failed transaction, which the websocket brings too, has   *)
(* the id of the market's next trade.                                      *)
NoReusedIds ==
    EventType = "TradeRecord" => \A n \in DOMAIN list.node : ~ chain[list.node[n].event].err

(* The list is in the order asked for, however the records came in:        *)
(* insert looks for the first place where the sort function says so, and   *)
(* the one for trades, which compares ids within a market and times        *)
(* between markets, is no order at all, but goes with the clock.  Within a *)
(* second trades of different markets are as they came in.                 *)
ListSorted ==
    OrderBy = "blockchain" /\ NoReusedIds =>
        LET events == toArray(list)
        IN \A i, j \in DOMAIN events : i < j =>
              IF OrderDir = "asc" THEN SortKey(events[i]) >= SortKey(events[j])
                                  ELSE SortKey(events[i]) =< SortKey(events[j])

(* maxEventsPerType: the list has the newest records, all of them up to    *)
(* that number and never more, and knows how many they are.                *)
ListKeepsNewest ==
    LET events == ToSet(toArray(list))
    IN /\ Len(toArray(list)) = list.size
       /\ list.size = Min({MaxEvents, Cardinality(Emitted)})
       /\ \A t \in Emitted \ events, e \in events : chain[t].slot =< chain[e].slot

NewestFirst == OrderBy = "client" \/ (OrderDir = "asc" /\ EventType # "TradeRecord")

(* So it does for a client that polls and does not backtrack, although a   *)
(* poll brings the transactions of one slot in reverse, and some again.    *)
(* Not so in the descending order of the chain, where every new record     *)
(* goes behind the tail, which stays where the first was put, and others   *)
(* are dropped; nor for trades, of which a market's second in a slot comes *)
(* first and its first goes behind it, and behind the tail.                *)
PolledListKeepsNewest == OnlyPolls /\ NewestFirst => ListKeepsNewest

(* More has landed since the last poll than the node gives at once.        *)
PageMissed == Len(chain) - mostRecentSeenTx > PageLimit

(* Polling brings what a client waits for, whatever requests fail, as long *)
(* as it stays subscribed and no more than a page lands between two polls  *)
(* that are answered: what a page misses no later poll asks for.           *)
AwaitedReturns ==
    \A t \in 1 .. MaxLanded :
        ( /\ options.provider = "polling"
          /\ t \in awaiting \ Emitted /\ ~ chain[t].err /\ mostRecentSeenTx < t )
        ~> (t \notin awaiting \/ subscribed = "no" \/ PageMissed)

=============================================================================
