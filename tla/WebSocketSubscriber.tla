------------------------ MODULE WebSocketSubscriber ------------------------
(***************************************************************************)
(* WebSocketClearingHouseAccountSubscriber of the SDK and the              *)
(* WebSocketAccountSubscriber it makes for every account it follows: each  *)
(* fetches its account once and then listens for changes.                  *)
(*                                                                         *)
(* An action is what runs between two awaits.  The application awaits one  *)
(* call that changes subscriptions before it makes the next; subscribe()   *)
(* may be called by several parts of it at once, and fetch() at any time.  *)
(* The order-state account is followed like the state, banks and oracles   *)
(* like markets, except that fetch() passes oracles over;                  *)
(* WebSocketUserAccountSubscriber is the user's part alone.                *)
(***************************************************************************)
EXTENDS Integers, FiniteSetsExt, SequencesExt

CONSTANTS
    Authorities, UserIds,
    Markets,
    Configurations, \* what the constructor may get: authority, user id, markets
    Callers,        \* parts of the application that call subscribe()
    Data,
    Histories,      \* what the chain may go through: slot |-> account |-> its data
    MaxSlot,        \* bound on the slots of the chain
    MaxCalls,       \* bound on the calls that change subscriptions
    MaxObjects      \* bound on the account subscribers alive at once

NoData == "none"
Nobody == "nobody"

Keys == {<<"state">>} \cup (Authorities \X UserIds) \cup {<<m>> : m \in Markets}
Roles == {"state", "user"} \cup Markets
Objects == 1 .. MaxObjects

(* The application names no market twice: subscribe() would make two       *)
(* account subscribers for it and forget the first.                        *)
ASSUME SubscriberAssumption ==
    /\ IsFiniteSet(Markets) /\ Markets \cap {"state", "user"} = {}
    /\ Configurations \subseteq [authority : Authorities, userId : UserIds,
                                 marketIndexes : Seq(Markets)]
    /\ \A c \in Configurations : IsInjective(c.marketIndexes)
    /\ NoData \notin Data /\ Nobody \notin Callers
    /\ \A h \in Histories : h \in Seq([Keys -> Data \cup {NoData}]) /\ Len(h) = MaxSlot
    /\ MaxSlot \in Nat \ {0} /\ MaxCalls \in Nat /\ MaxObjects \in Nat \ {0}

(* No instruction of the program closes an account.                        *)
ASSUME HistoryAssumption ==
    \A h \in Histories : \A n \in 2 .. Len(h), k \in Keys :
        h[n - 1][k] # NoData => h[n][k] # NoData

VARIABLES
    chain,      \* the slots so far, of one of Histories
    sub,        \* the fields of the clearing house's subscriber
    object,     \* account subscriber |-> its fields, whether its listener is on, and
                \* since: the last change nobody could be told of
    zero_given, \* whether the connection has given out its listener id 0
    requests,   \* account subscribers whose account fetch() is loading
    notices,    \* notices under way: account subscriber and slot
    call,       \* the call under way that changes subscriptions
    calls,      \* how many of those there were
    waiting,    \* callers that await subscriptionPromise
    irregular   \* a call has thrown, or has changed accounts while unsubscribed

vars == <<chain, sub, object, zero_given, requests, notices, call, calls, waiting,
          irregular>>

Free == [key |-> <<"state">>, used |-> FALSE, listenerId |-> "none", live |-> FALSE,
         slot |-> 0, buffer |-> NoData, since |-> 0]

NoCall == [op |-> "none", by |-> Nobody, todo |-> <<>>, obj |-> 0, role |-> "state"]

Init ==
    /\ chain \in {<<h[1]>> : h \in Histories}
    /\ sub \in {[isSubscribed |-> FALSE, isSubscribing |-> FALSE, authority |-> c.authority,
                 userId |-> c.userId, marketIndexes |-> c.marketIndexes,
                 of |-> [r \in Roles |-> 0]] : c \in Configurations}
    /\ object = [o \in Objects |-> Free]
    /\ zero_given \in BOOLEAN
    /\ requests = {} /\ notices = {} /\ call = NoCall /\ calls = 0 /\ waiting = {} /\ irregular = FALSE

(* Slots at which account k got other contents.  An answer is named by the *)
(* slot its contents are from: the slot of the answer itself, that one or  *)
(* a later one before the next change, decides every comparison alike.     *)
Versions(k) == {1} \cup {n \in 2 .. Len(chain) : chain[n][k] # chain[n - 1][k]}

Idle == call.op = "none"
Now == Len(chain)

(* Mutant: the address is derived for the default user id.                 *)
KeyOf_Default(r) == IF r = "user" THEN <<sub.authority, 0>> ELSE <<r>>

(* The address of the account a role follows.                              *)
KeyOf(r) == IF r = "user" THEN <<sub.authority, sub.userId>> ELSE <<r>>

-----------------------------------------------------------------------------
(* WebSocketAccountSubscriber                                              *)

(* Mutant: the answer that arrives last is shown.                          *)
handleRpcResponse_Latest(o, n) ==
    LET v == chain[n][o.key]
    IN IF v = NoData THEN o ELSE [o EXCEPT !.slot = n, !.buffer = v]

(* What subscriber o becomes by the contents of its account at slot n.     *)
(* Equal contents leave the slot as it was.                                *)
handleRpcResponse(o, n) ==
    LET v == chain[n][o.key]
    IN IF o.slot = 0 \/ (n > o.slot /\ v # NoData /\ v # o.buffer)
       THEN [o EXCEPT !.slot = n, !.buffer = v]
       ELSE o

(* The rest of subscribe() once the account is fetched.                    *)
onAccountChange(o) ==
    [o EXCEPT !.listenerId = IF zero_given THEN "id" ELSE "zero",
              !.live = TRUE, !.since = Max(Versions(o.key))]

(* `if (this.listenerId)` takes the id 0 for none.                         *)
unsubscribed(o) ==
    IF o.listenerId = "id" THEN [o EXCEPT !.listenerId = "none", !.live = FALSE] ELSE o

(* Objects that nobody refers to and that do not listen are collected.     *)
Collected(s, c, objects, reqs) ==
    [o \in Objects |->
        IF objects[o].live \/ o \in reqs \/ o = c.obj \/ \E r \in Roles : s.of[r] = o
        THEN objects[o] ELSE Free]

NewObject(objects) == Min({o \in Objects : ~ objects[o].used})

(* The fields after a step, with what became garbage removed.              *)
Become(s, c, objects) ==
    /\ sub' = s /\ call' = c
    /\ object' = Collected(s, c, objects, requests)
    /\ notices' = {n \in notices : objects[n.obj].live}

-----------------------------------------------------------------------------
(* Calls that follow more accounts: subscribe, updateAuthority,            *)
(* updateUserId, addMarket.  Each makes an account subscriber per role, in *)
(* turn.  The state's and the user's are stored before they are            *)
(* subscribed, a market's after.                                           *)

begin_role(s, c) ==
    LET r == Head(c.todo)
        o == NewObject(object)
    IN Become([s EXCEPT !.of[r] = IF r \in Markets THEN @ ELSE o],
              [c EXCEPT !.todo = Tail(@), !.obj = o, !.role = r],
              [object EXCEPT ![o] = [Free EXCEPT !.used = TRUE, !.key = KeyOf(r)]])

NewCall == Idle /\ calls < MaxCalls /\ calls' = calls + 1

HasObject == \E o \in Objects : ~ object[o].used

(* isSubscribed first, then isSubscribing: the others join.                *)
subscribe(by) ==
    /\ ~ sub.isSubscribed /\ by \notin waiting /\ call.by # by
    /\ \/ /\ sub.isSubscribing
          /\ waiting' = waiting \cup {by}
          /\ UNCHANGED <<sub, object, notices, call, calls>>
       \/ /\ ~ sub.isSubscribing /\ NewCall
          /\ Become([sub EXCEPT !.isSubscribing = TRUE],
                    [NoCall EXCEPT !.op = "subscribe", !.by = by,
                                   !.todo = <<"state", "user">> \o sub.marketIndexes], object)
          /\ UNCHANGED waiting
    /\ UNCHANGED <<chain, zero_given, requests, irregular>>

(* The address of the next account is derived and its subscriber made.     *)
NextRole ==
    /\ call.op \in {"subscribe", "update", "add"} /\ call.obj = 0 /\ call.todo # <<>> /\ HasObject
    /\ begin_role(sub, call)
    /\ UNCHANGED <<chain, calls, zero_given, requests, waiting, irregular>>

(* Its fetch is answered, from slot n, and its listener registered.        *)
RoleFetched ==
    /\ call.op \in {"subscribe", "update", "add"} /\ call.obj # 0
    /\ LET o == call.obj
       IN \E n \in Versions(object[o].key) :
          Become([sub EXCEPT !.of[call.role] = o],
                 [call EXCEPT !.obj = 0],
                 [object EXCEPT ![o] = onAccountChange(handleRpcResponse(@, n))])
    /\ zero_given' = TRUE
    /\ UNCHANGED <<chain, calls, requests, waiting, irregular>>

(* Its fetch throws, and with it the call.  subscribe() leaves             *)
(* isSubscribing set and the promise unresolved.                           *)
RoleFails ==
    /\ call.op \in {"subscribe", "update", "add"} /\ call.obj # 0
    /\ Become(sub, NoCall, object)
    /\ irregular' = TRUE
    /\ UNCHANGED <<chain, calls, zero_given, requests, waiting>>

(* Mutant: the promise of a finished subscribe is never resolved.          *)
resumed_Nobody == waiting

resumed == {}

SubscribeDone ==
    /\ call.op = "subscribe" /\ call.obj = 0 /\ call.todo = <<>>
    /\ Become([sub EXCEPT !.isSubscribing = FALSE, !.isSubscribed = TRUE], NoCall, object)
    /\ waiting' = resumed
    /\ UNCHANGED <<chain, calls, zero_given, requests, irregular>>

ChangeDone ==
    /\ call.op \in {"update", "add"} /\ call.obj = 0 /\ call.todo = <<>>
    /\ Become(sub, NoCall, object)
    /\ UNCHANGED <<chain, calls, zero_given, requests, waiting, irregular>>

(* Mutant: the old account stays subscribed.                               *)
unsubscribeFromUserAccounts_Kept == object

unsubscribeFromUserAccounts == [object EXCEPT ![sub.of["user"]] = unsubscribed(@)]

(* updateAuthority and updateUserId: the address is derived only after the *)
(* old listener is gone.  The fields are set after that await; nothing     *)
(* reads them in between, since no other such call is under way.           *)
updateUser(a, u) ==
    /\ NewCall /\ sub.of["user"] # 0
    /\ (a = sub.authority) # (u = sub.userId)
    /\ Become([sub EXCEPT !.authority = a, !.userId = u],
              [NoCall EXCEPT !.op = "update", !.todo = <<"user">>],
              unsubscribeFromUserAccounts)
    /\ irregular' = (irregular \/ ~ sub.isSubscribed)
    /\ UNCHANGED <<chain, zero_given, requests, waiting>>

(* addMarket, addBank and addOracle: one that is in the map is not added   *)
(* again, whether or not it still listens.                                 *)
addMarket(m) ==
    /\ NewCall /\ sub.of[m] = 0
    /\ Become(sub, [NoCall EXCEPT !.op = "add", !.todo = <<m>>], object)
    /\ irregular' = (irregular \/ ~ sub.isSubscribed)
    /\ UNCHANGED <<chain, zero_given, requests, waiting>>

(* unsubscribe() awaits the removal of one listener after the other.       *)
unsubscribe ==
    /\ NewCall /\ sub.isSubscribed
    /\ Become(sub, [NoCall EXCEPT !.op = "unsubscribe",
                                  !.todo = <<"state", "user">>
                                           \o SetToSeq({m \in Markets : sub.of[m] # 0})], object)
    /\ UNCHANGED <<chain, zero_given, requests, waiting, irregular>>

NextUnsubscribed ==
    /\ call.op = "unsubscribe" /\ call.todo # <<>>
    /\ Become(sub, [call EXCEPT !.todo = Tail(@)],
              [object EXCEPT ![sub.of[Head(call.todo)]] = unsubscribed(@)])
    /\ UNCHANGED <<chain, calls, zero_given, requests, waiting, irregular>>

UnsubscribeDone ==
    /\ call.op = "unsubscribe" /\ call.todo = <<>>
    /\ Become([sub EXCEPT !.isSubscribed = FALSE], NoCall, object)
    /\ UNCHANGED <<chain, calls, zero_given, requests, waiting, irregular>>

-----------------------------------------------------------------------------
(* fetch(), the notices and the chain.  The application awaits one fetch() *)
(* before the next.                                                        *)

fetch ==
    /\ sub.isSubscribed /\ requests = {}
    /\ requests' = requests \cup {sub.of[r] : r \in {x \in Roles : sub.of[x] # 0}}
    /\ UNCHANGED <<chain, calls, sub, object, zero_given, notices, call, waiting, irregular>>

(* One of its requests is answered, from slot n.                           *)
Fetched(o, n) ==
    /\ o \in requests
    /\ requests' = requests \ {o}
    /\ object' = Collected(sub, call, [object EXCEPT ![o] = handleRpcResponse(@, n)], requests \ {o})
    /\ UNCHANGED <<chain, calls, sub, zero_given, notices, call, waiting, irregular>>

Delivered(n) ==
    /\ n \in notices
    /\ notices' = notices \ {n}
    /\ object' = [object EXCEPT ![n.obj] = handleRpcResponse(@, n.slot)]
    /\ UNCHANGED <<chain, calls, sub, zero_given, requests, call, waiting, irregular>>

(* The next slot: who listens to an account that changed is told.          *)
NewSlot(accounts) ==
    /\ \E h \in Histories : IsPrefix(Append(chain, accounts), h)
    /\ chain' = Append(chain, accounts)
    /\ notices' = notices \cup {[obj |-> o, slot |-> Now + 1] :
                      o \in {x \in Objects : object[x].live
                                             /\ accounts[object[x].key] # chain[Now][object[x].key]}}
    /\ UNCHANGED <<calls, sub, object, zero_given, requests, call, waiting, irregular>>

(* The connection drops and comes back with the same listeners: what was   *)
(* on its way to them is gone, and with it the newest contents of some.    *)
Reconnect ==
    /\ notices # {}
    /\ notices' = {}
    /\ object' = [o \in Objects |->
          LET latest == Max(Versions(object[o].key))
          IN IF [obj |-> o, slot |-> latest] \in notices
             THEN [object[o] EXCEPT !.since = latest] ELSE object[o]]
    /\ UNCHANGED <<chain, calls, sub, zero_given, requests, call, waiting, irregular>>

Next ==
    \/ \E c \in Callers : subscribe(c)
    \/ NextRole \/ RoleFetched
    \/ RoleFails \/ SubscribeDone \/ ChangeDone
    \/ \E a \in Authorities, u \in UserIds : updateUser(a, u)
    \/ \E m \in Markets : addMarket(m)
    \/ unsubscribe \/ NextUnsubscribed \/ UnsubscribeDone
    \/ fetch \/ \E o \in requests : \E n \in Versions(object[o].key) : Fetched(o, n)
    \/ \E n \in notices : Delivered(n)
    \/ Reconnect
    \/ \E a \in {h[Now + 1] : h \in {x \in Histories : Now < Len(x)}} : NewSlot(a)

(* Promises settle: every request of a call is answered or fails.          *)
Fairness ==
    /\ WF_vars(NextRole)
    /\ WF_vars(RoleFails \/ RoleFetched)
    /\ WF_vars(SubscribeDone)

Spec == Init /\ [][Next]_vars /\ Fairness

-----------------------------------------------------------------------------
(* While the client is subscribed and no call is under way, its state, its *)
(* user and every configured market have a listener on the connection, and *)
(* the user's account is that of the current authority and user id,        *)
(* however it got there by updateAuthority and updateUserId.               *)
FollowsItsAccounts ==
    sub.isSubscribed /\ Idle /\ ~ irregular =>
        \A r \in {"state", "user"} \cup ToSet(sub.marketIndexes) :
            /\ sub.of[r] # 0
            /\ object[sub.of[r]].live
            /\ object[sub.of[r]].key = IF r = "user" THEN <<sub.authority, sub.userId>> ELSE <<r>>

(* A listener on the connection belongs to an account subscriber the       *)
(* client still refers to, so that unsubscribe() reaches it; after         *)
(* unsubscribe() there is none.  The connection's first listener is the    *)
(* exception: its id is 0, which unsubscribe() takes for none.             *)
NoListenerLeaks ==
    ~ irregular =>
        \A o \in Objects : object[o].live /\ object[o].listenerId # "zero" =>
            \/ (sub.isSubscribed \/ ~ Idle) /\ \E r \in Roles : sub.of[r] = o
            \/ call.obj = o

Shown(o) == object[o].buffer
Repeats(k) == \E m, n \in 1 .. Now : m + 1 < n /\ chain[m][k] = chain[n][k] /\ chain[m + 1][k] # chain[n][k]

(* Of an account that listens, with every answer and notice of it handled  *)
(* or lost, in whatever order they came, the newest contents are shown,    *)
(* unless nobody could tell: the last change came between the fetch of     *)
(* subscribe() and the registration of the listener, or its notice was     *)
(* lost with the connection.  What was missed earlier is made good by the  *)
(* next notice or fetch().  Contents that return to an earlier value are   *)
(* left out: since equal contents do not advance the slot, a late notice   *)
(* of the value in between is shown again.                                 *)
MissesOnlyTheGap ==
    \A o \in Objects :
        LET k == object[o].key
        IN /\ object[o].live /\ o \notin requests /\ ~ Repeats(k)
           /\ \A n \in notices : n.obj # o
           => Shown(o) = chain[Now][k] \/ Max(Versions(k)) <= object[o].since

(* A part of the application that joins a subscribe() under way goes on    *)
(* when it has finished, unless a fetch of it throws: then it waits for    *)
(* ever, and so does everyone who calls subscribe() afterwards.            *)
JoinedSubscribesReturn == \A c \in Callers : c \in waiting ~> c \notin waiting \/ irregular
=============================================================================
