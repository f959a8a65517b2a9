--------------------------- MODULE AccountLoader ---------------------------
(***************************************************************************)
(* The SDK's BulkAccountLoader, which polls accounts for all subscribers   *)
(* of a client, and PollingUserAccountSubscriber, its usual caller.        *)
(*                                                                         *)
(* JavaScript runs to completion between awaits, so an action is what one  *)
(* event (a call, a timer, an rpc answer, a resolved promise) runs.  The   *)
(* synchronous routines of the loader are functions of its state, so that  *)
(* an action can call several.  A promise has the id of the load that made *)
(* it; ids, like those of callbacks, are reused once nothing refers to     *)
(* them.  A subscriber's owner awaits one call of it before the next.      *)
(***************************************************************************)
EXTENDS Integers, SequencesExt, FiniteSetsExt

CONSTANTS
    Subscribers,
    Accounts,
    AccountOf,      \* subscriber |-> the account it follows
    Data,           \* contents of an account
    Histories,      \* what the chain may go through: slot |-> account |-> its data
    CHUNK_SIZE,     \* GET_MULTIPLE_ACCOUNTS_CHUNK_SIZE: 99 in the code
    MAX_RETRIES,    \* rounds of subscribe: 5 in the code
    MaxLoads,       \* bound on the loads alive at once
    MaxSlot         \* bound on the slots of the chain

NoData == "none"

ASSUME LoaderAssumption ==
    /\ IsFiniteSet(Subscribers) /\ AccountOf \in [Subscribers -> Accounts]
    /\ NoData \notin Data
    /\ \A h \in Histories : h \in Seq([Accounts -> Data \cup {NoData}]) /\ Len(h) = MaxSlot
    /\ CHUNK_SIZE \in Nat \ {0} /\ MAX_RETRIES \in Nat \ {0}
    /\ MaxLoads \in Nat \ {0} /\ MaxSlot \in Nat \ {0}

Loads == 1 .. MaxLoads
Never == MaxLoads + 1      \* a promise that nothing can resolve any more
CallbackIds == 1 .. Cardinality(Subscribers)
EntryIds == 1 .. MaxLoads + 1

VARIABLES
    chain,      \* the slots so far, of one of Histories
    loader,     \* the fields of BulkAccountLoader
    in_flight,  \* load |-> whether load() still runs, and its unanswered chunks
    subscriber, \* subscriber |-> the fields of PollingUserAccountSubscriber
    call        \* subscriber |-> its subscribe or fetch under way, and what it awaits

vars == <<chain, loader, in_flight, subscriber, call>>

(* An entry is the object of accountsToLoad: removing an account and       *)
(* adding it again makes another one, while a load keeps the old.          *)
Entry == [account : Accounts, entry : EntryIds]
Callback == [id : CallbackIds, entry : Entry, owner : Subscribers]
Undefined == [slot |-> 0, buffer |-> NoData]

Loader == [accountsToLoad : Seq(Entry),
           callbacks : SUBSET Callback,
           bufferAndSlotMap : [Accounts -> [slot : 0 .. MaxSlot, buffer : Data \cup {NoData}]],
           polling : BOOLEAN,
           loadPromise : {0} \cup Loads,
           loadPromiseResolver : {0} \cup Loads,
           expired : BOOLEAN]

IdleCall == [pc |-> "idle", load |-> 0, retries |-> 0]

Init ==
    /\ chain \in {<<h[1]>> : h \in Histories}
    /\ loader = [accountsToLoad |-> <<>>, callbacks |-> {},
                 bufferAndSlotMap |-> [a \in Accounts |-> Undefined],
                 polling |-> FALSE, loadPromise |-> 0, loadPromiseResolver |-> 0,
                 expired |-> FALSE]
    /\ in_flight = [l \in Loads |-> [running |-> FALSE, chunks |-> {}]]
    /\ subscriber = [s \in Subscribers |->
                        [isSubscribed |-> FALSE, callbackId |-> 0, user |-> Undefined]]
    /\ call = [s \in Subscribers |-> IdleCall]

-----------------------------------------------------------------------------
(* The synchronous routines of BulkAccountLoader, on its state L.          *)

EntriesOf(L, a) == {e \in ToSet(L.accountsToLoad) : e.account = a}

LiveEntries(L) == ToSet(L.accountsToLoad)
                  \cup UNION {ToSet(chunk) : chunk \in UNION {in_flight[l].chunks : l \in Loads}}

FreshEntry(L, a) ==
    [account |-> a,
     entry |-> Min({n \in EntryIds : [account |-> a, entry |-> n] \notin LiveEntries(L)})]

addAccount(L, a, id, s) ==
    LET entry == IF EntriesOf(L, a) # {} THEN CHOOSE e \in EntriesOf(L, a) : TRUE
                 ELSE FreshEntry(L, a)
    IN [L EXCEPT !.accountsToLoad = IF EntriesOf(L, a) # {} THEN @ ELSE Append(@, entry),
                 !.callbacks = @ \cup {[id |-> id, entry |-> entry, owner |-> s]},
                 !.polling = TRUE,
                 !.loadPromise = 0]

removeAccount(L, a, id) ==
    LET callbacks == {c \in L.callbacks : ~ (c.id = id /\ c.entry.account = a)}
        left == IF \E c \in callbacks : c.entry.account = a THEN L.accountsToLoad
                ELSE RemoveFirstMatch(L.accountsToLoad, LAMBDA e : e.account = a)
    IN [L EXCEPT !.accountsToLoad = left,
                 !.callbacks = callbacks,
                 !.polling = @ /\ left # <<>>]

chunks(s) == {SubSeq(s, i, Min({i + CHUNK_SIZE - 1, Len(s)})) :
                  i \in {n \in 1 .. Len(s) : (n - 1) % CHUNK_SIZE = 0}}

(* load() joins the load under way, unless its promise is a minute old.    *)
Joins(L) == L.loadPromise # 0 /\ ~ L.expired

Joined(s) == call[s].pc \in {"subscribe_join", "fetch_join"}

LoadsInUse == {l \in Loads : in_flight[l].running \/ in_flight[l].chunks # {}}
              \cup {call[s].load : s \in Subscribers}
              \cup {loader.loadPromise, loader.loadPromiseResolver}

(* Load l begins.  Its promise takes the resolver's place: nothing can     *)
(* resolve an older one that still has waiters.                            *)
start_load(L, l) == [L EXCEPT !.loadPromise = l,
                              !.loadPromiseResolver = l,
                              !.expired = FALSE]

Replaced ==
    [s \in Subscribers |->
        IF Joined(s) /\ call[s].load # 0 THEN [call[s] EXCEPT !.load = Never] ELSE call[s]]

BeginLoad(L, l) ==
    /\ l = Min(Loads \ LoadsInUse)
    /\ loader' = start_load(L, l)
    /\ in_flight' = [in_flight EXCEPT ![l] = [running |-> TRUE,
                                              chunks |-> chunks(L.accountsToLoad)]]

(* The finally of load(), together with Woken.                             *)
finish_load(L) == [L EXCEPT !.loadPromise = 0]

(* Mutant: the finally does not call loadPromiseResolver.                  *)
Woken_NotJoined(l) ==
    [s \in Subscribers |->
        IF ~ Joined(s) /\ call[s].load = l THEN [call[s] EXCEPT !.load = 0] ELSE call[s]]

(* Load l is done and resolves the newest promise: who awaits either goes  *)
(* on.                                                                     *)
Woken(l) ==
    [s \in Subscribers |->
        IF call[s].load = IF Joined(s) THEN loader.loadPromiseResolver ELSE l
        THEN [call[s] EXCEPT !.load = 0] ELSE call[s]]

(* What loadChunk makes of account a of an answer from this slot.          *)
Stores(L, a, slot) ==
    \/ L.bufferAndSlotMap[a] = Undefined
    \/ /\ slot > L.bufferAndSlotMap[a].slot
       /\ chain[slot][a] \notin {NoData, L.bufferAndSlotMap[a].buffer}

-----------------------------------------------------------------------------
(* The calls of PollingUserAccountSubscriber.                              *)

(* The call goes on with an await of load(): q is the subscriber then.     *)
AwaitLoad(s, own, join, retries, L, q) ==
    /\ subscriber' = [subscriber EXCEPT ![s] = q]
    /\ \/ /\ Joins(L)
          /\ loader' = L
          /\ call' = [call EXCEPT ![s] = [pc |-> join, load |-> L.loadPromise,
                                          retries |-> retries]]
          /\ UNCHANGED in_flight
       \/ /\ ~ Joins(L)
          /\ \E l \in Loads \ LoadsInUse :
                /\ BeginLoad(L, l)
                /\ call' = [Replaced EXCEPT ![s] = [pc |-> own, load |-> l, retries |-> retries]]
    /\ UNCHANGED chain

Return(s, L, q) ==
    /\ subscriber' = [subscriber EXCEPT ![s] = q]
    /\ loader' = L
    /\ call' = [call EXCEPT ![s] = IdleCall]
    /\ UNCHANGED <<chain, in_flight>>

(* The loop of subscribe, from its test on.                                *)
subscribe_loop(s, retries, L, q) ==
    IF q.user.buffer = NoData /\ retries < MAX_RETRIES
    THEN AwaitLoad(s, "subscribe", "subscribe_join", retries + 1, L, q)
    ELSE Return(s, L, [q EXCEPT !.isSubscribed = q.user.buffer # NoData])

subscribe(s) ==
    /\ call[s].pc = "idle"
    /\ ~ subscriber[s].isSubscribed
    /\ IF subscriber[s].callbackId # 0
       THEN subscribe_loop(s, 0, loader, subscriber[s])
       ELSE /\ call' = [call EXCEPT ![s].pc = "derive"]
            /\ UNCHANGED <<chain, loader, in_flight, subscriber>>

(* The key is derived: the rest of addToAccountLoader, and subscribe.      *)
addToAccountLoader(s) ==
    LET id == Min(CallbackIds \ {cb.id : cb \in loader.callbacks})
    IN /\ call[s].pc = "derive"
       /\ subscribe_loop(s, 0, addAccount(loader, AccountOf[s], id, s),
                         [subscriber[s] EXCEPT !.callbackId = id])

(* fetchAccounts of ClearingHouseUser, subscribed or not.                  *)
fetch(s) ==
    /\ call[s].pc = "idle"
    /\ AwaitLoad(s, "fetch", "fetch_join", 0, loader, subscriber[s])

(* The awaited load, or the promise of the load joined, is done.           *)
Loaded(s) == call[s].pc \notin {"idle", "derive"} /\ call[s].load = 0

(* The rest of fetch, and for subscribe of the loop.  An unsubscribe has   *)
(* left fetch no account; with nothing loaded for the account yet, taking  *)
(* the answer apart throws, and the call ends.                             *)
Resume(s) ==
    LET loaded == loader.bufferAndSlotMap[AccountOf[s]]
        q == [subscriber[s] EXCEPT !.user = IF loaded.buffer # NoData THEN loaded ELSE @]
    IN /\ Loaded(s)
       /\ IF subscriber[s].callbackId = 0 \/ loaded = Undefined
          THEN Return(s, loader, subscriber[s])
          ELSE IF call[s].pc \in {"subscribe", "subscribe_join"}
               THEN subscribe_loop(s, call[s].retries, loader, q)
               ELSE Return(s, loader, q)

(* Mutant: the callback stays with the loader.                             *)
unsubscribe_KeepsCallback(s) ==
    /\ subscriber[s].isSubscribed
    /\ subscriber' = [subscriber EXCEPT ![s].callbackId = 0, ![s].isSubscribed = FALSE]
    /\ UNCHANGED <<chain, loader, in_flight, call>>

unsubscribe(s) ==
    /\ subscriber[s].isSubscribed
    /\ loader' = removeAccount(loader, AccountOf[s], subscriber[s].callbackId)
    /\ subscriber' = [subscriber EXCEPT ![s].callbackId = 0, ![s].isSubscribed = FALSE]
    /\ UNCHANGED <<chain, in_flight, call>>

-----------------------------------------------------------------------------
(* Timers and answers.                                                     *)

(* The polling interval calls load(); a call that joins changes nothing.   *)
Poll ==
    /\ loader.polling
    /\ ~ Joins(loader)
    /\ \E l \in Loads \ LoadsInUse : BeginLoad(loader, l)
    /\ call' = Replaced
    /\ UNCHANGED <<chain, subscriber>>

(* A minute passes, by Date.now(), while the load's promise is cached: its *)
(* requests time out after ten seconds, so the process was suspended or    *)
(* the clock set, the case load() provides for by dropping the promise.    *)
Expire ==
    /\ loader.loadPromise # 0 /\ ~ loader.expired
    /\ loader' = [loader EXCEPT !.expired = TRUE]
    /\ UNCHANGED <<chain, in_flight, subscriber, call>>

(* Chunk by chunk; load() ends with the last, or with the first that fails *)
(* and then the others still run.                                          *)
EndChunk(l, chunk, L, fails) ==
    LET rest == in_flight[l].chunks \ {chunk}
        ends == in_flight[l].running /\ (fails \/ rest = {})
    IN /\ in_flight' = [in_flight EXCEPT ![l] = [running |-> @.running /\ ~ ends,
                                                 chunks |-> rest]]
       /\ loader' = IF ends THEN finish_load(L) ELSE L
       /\ call' = IF ends THEN Woken(l) ELSE call

(* Mutant: an answer from an earlier slot is stored.                       *)
loadChunk_AnySlot(l, chunk, slot) ==
    LET stored == {e \in ToSet(chunk) :
                      chain[slot][e.account] \notin
                          {NoData, loader.bufferAndSlotMap[e.account].buffer}}
        L == [loader EXCEPT !.bufferAndSlotMap = [a \in Accounts |->
                IF \E e \in stored : e.account = a
                THEN [slot |-> slot, buffer |-> chain[slot][a]] ELSE @[a]]]
        called(s) == \E c \in loader.callbacks : c.owner = s /\ c.entry \in stored
    IN /\ chunk \in in_flight[l].chunks
       /\ EndChunk(l, chunk, L, FALSE)
       /\ subscriber' = [s \in Subscribers |->
             IF called(s) /\ chain[slot][AccountOf[s]] # NoData
             THEN [subscriber[s] EXCEPT !.user = [slot |-> slot,
                                                  buffer |-> chain[slot][AccountOf[s]]]]
             ELSE subscriber[s]]
       /\ UNCHANGED chain

(* The answer shows some slot: rpc nodes lag behind one another.           *)
loadChunk(l, chunk, slot) ==
    LET stored == {e \in ToSet(chunk) : Stores(loader, e.account, slot)}
        L == [loader EXCEPT !.bufferAndSlotMap = [a \in Accounts |->
                IF \E e \in stored : e.account = a
                THEN [slot |-> slot, buffer |-> chain[slot][a]] ELSE @[a]]]
        called(s) == \E c \in loader.callbacks : c.owner = s /\ c.entry \in stored
    IN /\ chunk \in in_flight[l].chunks
       /\ EndChunk(l, chunk, L, FALSE)
       /\ subscriber' = [s \in Subscribers |->
             IF called(s) /\ chain[slot][AccountOf[s]] # NoData
             THEN [subscriber[s] EXCEPT !.user = [slot |-> slot,
                                                  buffer |-> chain[slot][AccountOf[s]]]]
             ELSE subscriber[s]]
       /\ UNCHANGED chain

(* A load of no accounts has no request to wait for.                       *)
LoadNothing(l) ==
    /\ in_flight[l] = [running |-> TRUE, chunks |-> {}]
    /\ EndChunk(l, <<>>, loader, FALSE)
    /\ UNCHANGED <<chain, subscriber>>

(* No answer in ten seconds, which is no error; what comes later is lost.  *)
Timeout(l, chunk) ==
    /\ chunk \in in_flight[l].chunks
    /\ EndChunk(l, chunk, loader, FALSE)
    /\ UNCHANGED <<chain, subscriber>>

RpcError(l, chunk) ==
    /\ chunk \in in_flight[l].chunks
    /\ EndChunk(l, chunk, loader, TRUE)
    /\ UNCHANGED <<chain, subscriber>>

NewSlot ==
    /\ Len(chain) < MaxSlot
    /\ \E h \in Histories : /\ IsPrefix(chain, h)
                            /\ chain' = Append(chain, h[Len(chain) + 1])
    /\ UNCHANGED <<loader, in_flight, subscriber, call>>

Chunks == UNION {in_flight[l].chunks : l \in Loads}

Next ==
    \/ \E s \in Subscribers :
         subscribe(s) \/ addToAccountLoader(s) \/ fetch(s) \/ Resume(s) \/ unsubscribe(s)
    \/ Poll
    \/ Expire
    \/ \E l \in Loads, chunk \in Chunks :
         \/ \E slot \in 1 .. Len(chain) : loadChunk(l, chunk, slot)
         \/ Timeout(l, chunk) \/ RpcError(l, chunk)
    \/ \E l \in Loads : LoadNothing(l)
    \/ NewSlot

(* A request ends, by its timer if by nothing else, and what a call awaits *)
(* and is there wakes it.  Its going on is strongly fair: the code never   *)
(* keeps a woken call from running, only the bound on loads does, for a    *)
(* while.                                                                  *)
Fairness ==
    /\ \A l \in Loads :
          WF_vars(LoadNothing(l) \/ \E chunk \in in_flight[l].chunks : Timeout(l, chunk))
    /\ \A s \in Subscribers : SF_vars(addToAccountLoader(s) \/ Resume(s))

Spec == Init /\ [][Next]_vars /\ Fairness

-----------------------------------------------------------------------------
(* What a subscriber shows never goes back to an earlier slot, although    *)
(* loads overlap, answers overtake one another and both the callback and   *)
(* fetch write it.                                                         *)
NeverGoesBack ==
    [][\A s \in Subscribers : subscriber'[s].user.slot >= subscriber[s].user.slot]_vars

(* Every callback of the loader can still be removed: its owner keeps its  *)
(* id.  So the loader polls for nobody who has unsubscribed, and stops     *)
(* polling with the last; it polls as long as it has accounts.             *)
CallbacksOwned ==
    /\ \A cb \in loader.callbacks : subscriber[cb.owner].callbackId = cb.id
    /\ loader.polling = (loader.accountsToLoad # <<>>)
    /\ \A e \in ToSet(loader.accountsToLoad) : \E cb \in loader.callbacks : cb.entry = e

(* A caller that joined a load, whose promise a newer load replaced: the   *)
(* old one's resolver is gone, and the caller waits for ever.  An          *)
(* addAccount of another subscriber and its load() are enough for that.    *)
Stranded(s) == Joined(s) /\ call[s].load = Never

(* A subscribe() or fetch() ends, by its own load or the one it joined,    *)
(* unless the loader drops the promise it joined and a load begins before  *)
(* that one is done: every request ends by its timer, load() always        *)
(* reaches its finally, whoever's load it is, and the finally calls the    *)
(* resolver.                                                               *)
CallsEnd == \A s \in Subscribers : (call[s].pc # "idle") ~> (call[s].pc = "idle" \/ Stranded(s))

=============================================================================
