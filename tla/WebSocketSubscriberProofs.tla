--------------------- MODULE WebSocketSubscriberProofs ----------------------
(***************************************************************************)
(* A subscribed client listens to all of its accounts, and to nothing that *)
(* unsubscribe() would not reach, and shows the newest contents of what it *)
(* listens to but for the gap of subscribe(), for any number of markets,   *)
(* callers and account subscribers.                                        *)
(***************************************************************************)
EXTENDS WebSocketSubscriber, LibraryProofs

-----------------------------------------------------------------------------
(* Sequences.                                                              *)

(* The elements of a sequence, as todo lists are taken apart and put       *)
(* together.                                                               *)
LEMMA TodoTaken ==
    ASSUME NEW S, NEW s \in Seq(S), s # <<>>, IsInjective(s)
    PROVE  /\ Head(s) \in S /\ Tail(s) \in Seq(S)
           /\ ToSet(s) = {Head(s)} \cup ToSet(Tail(s))
           /\ Head(s) \notin ToSet(Tail(s))
           /\ IsInjective(Tail(s))
<1>1. /\ Len(s) \in Nat \ {0} /\ DOMAIN s = 1 .. Len(s) /\ Head(s) = s[1] /\ Head(s) \in S
      /\ Tail(s) \in Seq(S) /\ DOMAIN Tail(s) = 1 .. Len(s) - 1
      /\ \A i \in 1 .. Len(s) - 1 : Tail(s)[i] = s[i + 1]
  OBVIOUS
<1>2. \A i \in 2 .. Len(s) : i - 1 \in 1 .. Len(s) - 1 /\ Tail(s)[i - 1] = s[i]
  BY <1>1
<1>3. ToSet(s) = {Head(s)} \cup ToSet(Tail(s))
  <2>1. ASSUME NEW i \in 1 .. Len(s) PROVE s[i] \in {Head(s)} \cup ToSet(Tail(s))
    <3>1. CASE i = 1
      BY <1>1, <3>1
    <3>2. CASE i # 1
      <4>1. i - 1 \in DOMAIN Tail(s) /\ Tail(s)[i - 1] = s[i]
        BY <1>1, <1>2, <3>2
      <4>. QED  BY <4>1 DEF ToSet
    <3>. QED  BY <3>1, <3>2
  <2>2. ASSUME NEW i \in 1 .. Len(s) - 1 PROVE Tail(s)[i] \in ToSet(s)
    BY <1>1 DEF ToSet
  <2>. QED  BY <1>1, <2>1, <2>2 DEF ToSet
<1>4. Head(s) \notin ToSet(Tail(s))
  BY <1>1 DEF ToSet, IsInjective
<1>5. IsInjective(Tail(s))
  BY <1>1 DEF IsInjective
<1>. QED  BY <1>1, <1>3, <1>4, <1>5

LEMMA TwoAndMore ==
    ASSUME NEW S, NEW a \in S, NEW b \in S, a # b, NEW s \in Seq(S), a \notin ToSet(s),
           b \notin ToSet(s)
    PROVE  /\ <<a, b>> \o s \in Seq(S)
           /\ ToSet(<<a, b>> \o s) = {a, b} \cup ToSet(s)
           /\ IsInjective(s) => IsInjective(<<a, b>> \o s)
<1>. DEFINE t == <<a, b>> \o s
<1>1. /\ Len(s) \in Nat /\ DOMAIN s = 1 .. Len(s) /\ t \in Seq(S) /\ DOMAIN t = 1 .. Len(s) + 2
      /\ t[1] = a /\ t[2] = b
      /\ \A i \in 1 .. Len(s) : t[i + 2] = s[i]
  OBVIOUS
<1>. HIDE DEF t
<1>2. ASSUME NEW i \in 3 .. Len(s) + 2
      PROVE  i - 2 \in 1 .. Len(s) /\ t[i] = s[i - 2] /\ t[i] \in ToSet(s)
  BY <1>1 DEF ToSet
<1>3. ToSet(t) = {a, b} \cup ToSet(s)
  <2>1. ASSUME NEW i \in 1 .. Len(s) + 2 PROVE t[i] \in {a, b} \cup ToSet(s)
    BY <1>1, <1>2
  <2>2. ASSUME NEW i \in 1 .. Len(s) PROVE s[i] \in ToSet(t)
    BY <1>1 DEF ToSet
  <2>3. a \in ToSet(t) /\ b \in ToSet(t)
    BY <1>1 DEF ToSet
  <2>. QED  BY <1>1, <2>1, <2>2, <2>3 DEF ToSet
<1>4. ASSUME IsInjective(s) PROVE IsInjective(t)
  <2>1. ASSUME NEW i \in 1 .. Len(s) + 2, NEW j \in 1 .. Len(s) + 2, t[i] = t[j] PROVE i = j
    <3>1. CASE i \in 3 .. Len(s) + 2 /\ j \in 3 .. Len(s) + 2
      <4>1. /\ i - 2 \in DOMAIN s /\ j - 2 \in DOMAIN s /\ s[i - 2] = s[j - 2]
        BY <1>1, <1>2, <2>1, <3>1
      <4>2. i - 2 = j - 2
        BY <1>4, <4>1 DEF IsInjective
      <4>. QED  BY <3>1, <4>2
    <3>2. CASE i \in {1, 2} /\ j \in {1, 2}
      BY <1>1, <2>1, <3>2
    <3>3. CASE i \in {1, 2} /\ j \in 3 .. Len(s) + 2
      BY <1>1, <1>2, <2>1, <3>3
    <3>4. CASE i \in 3 .. Len(s) + 2 /\ j \in {1, 2}
      BY <1>1, <1>2, <2>1, <3>4
    <3>. QED  BY <1>1, <3>1, <3>2, <3>3, <3>4
  <2>. QED  BY <1>1, <2>1 DEF IsInjective
<1>. QED  BY <1>1, <1>3, <1>4 DEF t

LEMMA OneTodo ==
    ASSUME NEW S, NEW a \in S
    PROVE  <<a>> \in Seq(S) /\ ToSet(<<a>>) = {a} /\ IsInjective(<<a>>)
BY DEF ToSet, IsInjective

-----------------------------------------------------------------------------
(* The invariant, of the fields an action passes through as well as of the *)
(* variables: Become collects what it is given.                            *)

Following == {"subscribe", "update", "add"}

SubType == [isSubscribed : BOOLEAN, isSubscribing : BOOLEAN, authority : Authorities,
            userId : UserIds, marketIndexes : Seq(Markets), of : [Roles -> 0 .. MaxObjects]]
CallType == [op : Following \cup {"none", "unsubscribe"}, by : Callers \cup {Nobody},
             todo : Seq(Roles), obj : 0 .. MaxObjects, role : Roles]
ObjectType == [key : Keys, used : BOOLEAN, listenerId : {"none", "id", "zero"},
               live : BOOLEAN, slot : Nat, buffer : Data \cup {NoData}, since : Nat]

KeyIn(s, r) == IF r = "user" THEN <<s.authority, s.userId>> ELSE <<r>>
Wanted(s) == {"state", "user"} \cup ToSet(s.marketIndexes)

(* The roles a call has yet to follow.                                     *)
Pending(c) == ToSet(c.todo) \cup (IF c.obj # 0 THEN {c.role} ELSE {})

Types(s, c, objects, reqs) ==
    /\ s \in SubType /\ IsInjective(s.marketIndexes)
    /\ c \in CallType /\ IsInjective(c.todo)
    /\ objects \in [Objects -> ObjectType]
    /\ reqs \in SUBSET Objects

(* What is referred to is not given out again, and no account subscriber   *)
(* has two roles.                                                          *)
References(s, c, objects, reqs) ==
    /\ \A r \in Roles : s.of[r] # 0 => objects[s.of[r]].used
    /\ c.obj # 0 => objects[c.obj].used
    /\ \A o \in reqs : objects[o].used
    /\ \A o \in Objects : objects[o].live =>
          objects[o].used /\ objects[o].listenerId \in {"id", "zero"}
    /\ \A r, q \in Roles : s.of[r] = s.of[q] /\ s.of[r] # 0 => r = q
    /\ \A r \in Roles : c.obj # 0 /\ s.of[r] = c.obj => r = c.role

CallInv(s, c, objects) ==
    /\ c.obj # 0 =>
          /\ c.op \in Following /\ c.role \notin ToSet(c.todo)
          /\ objects[c.obj].key = KeyIn(s, c.role)
    /\ c.op = "unsubscribe" => s.isSubscribed
    /\ c.op = "none" => c = NoCall

(* Listens(objects, o): o has a listener that unsubscribe() can remove.    *)
Listens(objects, o) == objects[o].live /\ objects[o].listenerId # "zero"

Reached(s, c, o) ==
    \/ c.op \in Following /\ \E r \in Roles \ Pending(c) : s.of[r] = o
    \/ c.op = "unsubscribe" /\ \E r \in ToSet(c.todo) : s.of[r] = o
    \/ c.op = "none" /\ s.isSubscribed /\ \E r \in Roles : s.of[r] = o

Followed(s, objects, r) ==
    /\ s.of[r] # 0
    /\ objects[s.of[r]].live
    /\ objects[s.of[r]].key = KeyIn(s, r)

Regular(s, c, objects) ==
    /\ c.op \in {"update", "add"} => s.isSubscribed
    /\ \A o \in Objects : Listens(objects, o) => Reached(s, c, o)
    /\ c.op \in Following \/ (c.op = "none" /\ s.isSubscribed) =>
          \A r \in Wanted(s) \ Pending(c) : Followed(s, objects, r)

Wired(s, c, objects, reqs, irr) ==
    /\ Types(s, c, objects, reqs)
    /\ References(s, c, objects, reqs)
    /\ CallInv(s, c, objects)
    /\ ~ irr => Regular(s, c, objects)

SubscriberInv ==
    /\ Wired(sub, call, object, requests, irregular)
    /\ irregular \in BOOLEAN
    /\ chain \in Seq([Keys -> Data \cup {NoData}]) /\ Len(chain) > 0
    /\ notices \in SUBSET [obj : Objects, slot : 1 .. Len(chain)]

LEMMA ConstantFacts ==
    /\ "state" \in Roles /\ "user" \in Roles /\ Markets \subseteq Roles
    /\ "state" \notin Markets /\ "user" \notin Markets
    /\ <<"state">> \in Keys
    /\ 0 \notin Objects /\ Objects \subseteq 0 .. MaxObjects /\ Objects \subseteq Nat
    /\ 0 \in 0 .. MaxObjects /\ (0 .. MaxObjects) \ {0} = Objects
BY SubscriberAssumption DEF Roles, Keys, Objects

LEMMA FreeType == Free \in ObjectType /\ ~ Free.live /\ ~ Free.used
BY ConstantFacts DEF Free, ObjectType, NoData

LEMMA NoCallType ==
    /\ NoCall \in CallType /\ NoCall.op = "none" /\ NoCall.obj = 0 /\ NoCall.todo = <<>>
    /\ IsInjective(NoCall.todo) /\ Pending(NoCall) = {}
<1>1. /\ NoCall \in CallType /\ NoCall.op = "none" /\ NoCall.obj = 0 /\ NoCall.todo = <<>>
  BY ConstantFacts DEF NoCall, CallType
<1>. QED  BY <1>1 DEF IsInjective, Pending, ToSet

LEMMA WantedRoles ==
    ASSUME NEW s, NEW c, NEW objects, NEW reqs, Types(s, c, objects, reqs)
    PROVE  Wanted(s) \subseteq Roles
<1>1. s.marketIndexes \in Seq(Markets)
  BY DEF Types, SubType
<1>2. ToSet(s.marketIndexes) \subseteq Markets
  BY <1>1 DEF ToSet
<1>. QED  BY <1>2, ConstantFacts DEF Wanted

(* Collecting takes away nothing that matters.                             *)
LEMMA CollectedWired ==
    ASSUME NEW s, NEW c, NEW objects, NEW reqs, NEW irr, Wired(s, c, objects, reqs, irr)
    PROVE  Wired(s, c, Collected(s, c, objects, reqs), reqs, irr)
<1>. DEFINE kept == Collected(s, c, objects, reqs)
<1>1. /\ s.of \in [Roles -> 0 .. MaxObjects] /\ c.obj \in 0 .. MaxObjects
      /\ objects \in [Objects -> ObjectType] /\ reqs \subseteq Objects
  BY DEF Wired, Types, SubType, CallType
<1>2. ASSUME NEW o \in Objects
      PROVE  /\ kept[o] \in {objects[o], Free}
             /\ objects[o].live \/ o \in reqs \/ o = c.obj \/ (\E r \in Roles : s.of[r] = o)
                   => kept[o] = objects[o]
  BY DEF Collected
<1>3. kept \in [Objects -> ObjectType]
  BY <1>1, FreeType DEF Collected
<1>. HIDE DEF kept
<1>4. /\ \A r \in Roles : s.of[r] # 0 => kept[s.of[r]] = objects[s.of[r]]
      /\ c.obj # 0 => kept[c.obj] = objects[c.obj]
      /\ \A o \in reqs : kept[o] = objects[o]
      /\ \A o \in Objects : kept[o].live => kept[o] = objects[o]
  <2>1. ASSUME NEW r \in Roles, s.of[r] # 0 PROVE kept[s.of[r]] = objects[s.of[r]]
    <3>1. s.of[r] \in Objects
      BY <1>1, <2>1, ConstantFacts
    <3>. QED  BY <1>2, <3>1
  <2>2. c.obj # 0 => kept[c.obj] = objects[c.obj]
    BY <1>1, <1>2, ConstantFacts
  <2>3. \A o \in Objects : kept[o].live => kept[o] = objects[o]
    BY <1>2, FreeType
  <2>. QED  BY <1>1, <1>2, <2>1, <2>2, <2>3
<1>5. Types(s, c, kept, reqs)
  BY <1>3 DEF Wired, Types
<1>6. References(s, c, kept, reqs)
  BY <1>4 DEF Wired, References
<1>7. CallInv(s, c, kept)
  BY <1>4 DEF Wired, CallInv
<1>8. ASSUME Regular(s, c, objects) PROVE Regular(s, c, kept)
  <2>1. \A o \in Objects : Listens(kept, o) => Reached(s, c, o)
    BY <1>4, <1>8 DEF Regular, Listens
  <2>2. ASSUME NEW r \in Roles, Followed(s, objects, r) PROVE Followed(s, kept, r)
    BY <1>4, <2>2 DEF Followed
  <2>3. Wanted(s) \subseteq Roles
    BY WantedRoles DEF Wired
  <2>. QED  BY <1>8, <2>1, <2>2, <2>3 DEF Regular
<1>9. Wired(s, c, kept, reqs, irr)
  BY <1>5, <1>6, <1>7, <1>8 DEF Wired
<1>. QED  BY <1>9 DEF kept

LEMMA BecomeInv ==
    ASSUME SubscriberInv, NEW s, NEW c, NEW objects, NEW irr \in BOOLEAN,
           Wired(s, c, objects, requests, irr), Become(s, c, objects),
           irregular' = irr, UNCHANGED <<chain, requests>>
    PROVE  SubscriberInv'
<1>1. Wired(s, c, Collected(s, c, objects, requests), requests, irr)
  BY CollectedWired
<1>2. notices' \in SUBSET [obj : Objects, slot : 1 .. Len(chain)]
  BY DEF SubscriberInv, Become
<1>. QED  BY <1>1, <1>2 DEF SubscriberInv, Become

LEMMA KeyTyped ==
    ASSUME NEW s \in SubType, NEW r \in Roles
    PROVE  KeyIn(s, r) \in Keys
BY DEF SubType, Roles, KeyIn, Keys

-----------------------------------------------------------------------------
(* An answer or a notice changes what is shown, not who listens.           *)

Alike(o2, o) ==
    /\ o2.key = o.key /\ o2.used = o.used
    /\ o2.live = o.live /\ o2.listenerId = o.listenerId

LEMMA Handled ==
    ASSUME SubscriberInv, NEW o \in ObjectType, NEW n \in 1 .. Len(chain)
    PROVE  handleRpcResponse(o, n) \in ObjectType /\ Alike(handleRpcResponse(o, n), o)
<1>1. chain[n][o.key] \in Data \cup {NoData} /\ n \in Nat
  BY DEF SubscriberInv, ObjectType
<1>2. handleRpcResponse(o, n) \in {o, [o EXCEPT !.slot = n, !.buffer = chain[n][o.key]]}
  BY DEF handleRpcResponse
<1>. QED  BY <1>1, <1>2 DEF ObjectType, Alike

LEMMA AlikeWired ==
    ASSUME NEW s, NEW c, NEW objects, NEW reqs, NEW irr, Wired(s, c, objects, reqs, irr),
           NEW objects2 \in [Objects -> ObjectType],
           \A o \in Objects : Alike(objects2[o], objects[o])
    PROVE  Wired(s, c, objects2, reqs, irr)
<1>1. /\ s.of \in [Roles -> 0 .. MaxObjects] /\ c.obj \in 0 .. MaxObjects /\ reqs \subseteq Objects
      /\ Wanted(s) \subseteq Roles
  BY WantedRoles DEF Wired, Types, SubType, CallType
<1>2. /\ \A r \in Roles : s.of[r] # 0 => Alike(objects2[s.of[r]], objects[s.of[r]])
      /\ c.obj # 0 => Alike(objects2[c.obj], objects[c.obj])
      /\ \A o \in reqs : Alike(objects2[o], objects[o])
  BY <1>1, ConstantFacts
<1>3. Types(s, c, objects2, reqs) /\ References(s, c, objects2, reqs) /\ CallInv(s, c, objects2)
  BY <1>2 DEF Wired, Types, References, CallInv, Alike
<1>4. ASSUME Regular(s, c, objects) PROVE Regular(s, c, objects2)
  <2>1. \A o \in Objects : Listens(objects2, o) => Reached(s, c, o)
    BY <1>4 DEF Regular, Listens, Alike
  <2>2. ASSUME NEW r \in Roles, Followed(s, objects, r) PROVE Followed(s, objects2, r)
    BY <1>2, <2>2 DEF Followed, Alike
  <2>. QED  BY <1>1, <1>4, <2>1, <2>2 DEF Regular
<1>. QED  BY <1>3, <1>4 DEF Wired

LEMMA FetchedInv ==
    ASSUME SubscriberInv, NEW o \in requests, NEW n \in Versions(object[o].key), Fetched(o, n)
    PROVE  SubscriberInv'
<1>. DEFINE objects == [object EXCEPT ![o] = handleRpcResponse(@, n)]
            reqs == requests \ {o}
<1>1. /\ object \in [Objects -> ObjectType] /\ requests \subseteq Objects /\ o \in Objects
      /\ object[o] \in ObjectType
  BY DEF SubscriberInv, Wired, Types
<1>2. n \in 1 .. Len(chain)
  BY DEF Versions, SubscriberInv
<1>3. handleRpcResponse(object[o], n) \in ObjectType
      /\ Alike(handleRpcResponse(object[o], n), object[o])
  BY <1>1, <1>2, Handled
<1>4. objects \in [Objects -> ObjectType] /\ \A x \in Objects : Alike(objects[x], object[x])
  BY <1>1, <1>3 DEF Alike
<1>5. Wired(sub, call, object, reqs, irregular)
  BY DEF SubscriberInv, Wired, Types, References
<1>. HIDE DEF objects, reqs
<1>6. Wired(sub, call, objects, reqs, irregular)
  BY <1>4, <1>5, AlikeWired
<1>7. Wired(sub, call, Collected(sub, call, objects, reqs), reqs, irregular)
  BY <1>6, CollectedWired
<1>. QED  BY <1>7 DEF SubscriberInv, Fetched, objects, reqs

LEMMA DeliveredInv ==
    ASSUME SubscriberInv, NEW n \in notices, Delivered(n)
    PROVE  SubscriberInv'
<1>. DEFINE objects == [object EXCEPT ![n.obj] = handleRpcResponse(@, n.slot)]
<1>1. /\ object \in [Objects -> ObjectType] /\ n.obj \in Objects /\ n.slot \in 1 .. Len(chain)
      /\ object[n.obj] \in ObjectType
  BY DEF SubscriberInv, Wired, Types
<1>2. /\ handleRpcResponse(object[n.obj], n.slot) \in ObjectType
      /\ Alike(handleRpcResponse(object[n.obj], n.slot), object[n.obj])
  BY <1>1, Handled
<1>3. objects \in [Objects -> ObjectType] /\ \A x \in Objects : Alike(objects[x], object[x])
  BY <1>1, <1>2 DEF Alike
<1>. HIDE DEF objects
<1>4. Wired(sub, call, objects, requests, irregular)
  BY <1>3, AlikeWired DEF SubscriberInv
<1>. QED  BY <1>4 DEF SubscriberInv, Delivered, objects

LEMMA ReconnectInv == SubscriberInv /\ Reconnect => SubscriberInv'
<1>. SUFFICES ASSUME SubscriberInv, Reconnect PROVE SubscriberInv'
  OBVIOUS
<1>1. /\ object \in [Objects -> ObjectType]
      /\ notices \in SUBSET [obj : Objects, slot : 1 .. Len(chain)]
  BY DEF SubscriberInv, Wired, Types
<1>2. ASSUME NEW o \in Objects PROVE object'[o] \in ObjectType /\ Alike(object'[o], object[o])
  <2>. DEFINE latest == Max(Versions(object[o].key))
  <2>1. object[o] \in ObjectType
    BY <1>1
  <2>2. object'[o] = IF [obj |-> o, slot |-> latest] \in notices
                     THEN [object[o] EXCEPT !.since = latest] ELSE object[o]
    BY DEF Reconnect
  <2>. HIDE DEF latest
  <2>3. [obj |-> o, slot |-> latest] \in notices => latest \in Nat
    BY <1>1
  <2>. QED  BY <2>1, <2>2, <2>3 DEF ObjectType, Alike
<1>3. object' \in [Objects -> ObjectType] /\ UNCHANGED <<chain, sub, call, requests, irregular>>
      /\ notices' = {}
  BY <1>2 DEF Reconnect
<1>4. Wired(sub, call, object', requests, irregular)
  BY <1>2, <1>3, AlikeWired DEF SubscriberInv
<1>. QED  BY <1>3, <1>4 DEF SubscriberInv

LEMMA NewSlotInv ==
    ASSUME SubscriberInv, NEW h \in Histories, Now < Len(h), NewSlot(h[Now + 1])
    PROVE  SubscriberInv'
<1>1. /\ h \in Seq([Keys -> Data \cup {NoData}]) /\ Len(chain) \in Nat
      /\ chain \in Seq([Keys -> Data \cup {NoData}])
  BY SubscriberAssumption DEF SubscriberInv
<1>2. h[Now + 1] \in [Keys -> Data \cup {NoData}]
  BY <1>1 DEF Now
<1>3. chain' = Append(chain, h[Now + 1])
  BY DEF NewSlot
<1>4. /\ chain' \in Seq([Keys -> Data \cup {NoData}]) /\ Len(chain') = Len(chain) + 1
  BY <1>1, <1>2, <1>3
<1>5. notices' \in SUBSET [obj : Objects, slot : 1 .. Len(chain')]
  <2>1. notices \in SUBSET [obj : Objects, slot : 1 .. Len(chain')]
    BY <1>1, <1>4 DEF SubscriberInv
  <2>2. Now + 1 \in 1 .. Len(chain')
    BY <1>1, <1>4 DEF Now
  <2>. QED  BY <2>1, <2>2 DEF NewSlot
<1>. QED  BY <1>1, <1>4, <1>5 DEF SubscriberInv, NewSlot

LEMMA FetchInv ==
    ASSUME SubscriberInv, fetch
    PROVE  SubscriberInv'
<1>1. requests' \subseteq Objects /\ \A o \in requests' : object[o].used
  BY ConstantFacts DEF fetch, SubscriberInv, Wired, Types, SubType, References
<1>2. Wired(sub, call, object, requests', irregular)
  BY <1>1 DEF SubscriberInv, Wired, Types, References
<1>. QED  BY <1>2 DEF SubscriberInv, fetch

-----------------------------------------------------------------------------
(* The calls that change subscriptions.                                    *)

(* Between two calls.                                                      *)
LEMMA IdleFacts ==
    ASSUME SubscriberInv, Idle
    PROVE  /\ call = NoCall
           /\ ~ irregular =>
                /\ \A o \in Objects : Listens(object, o) =>
                      sub.isSubscribed /\ \E r \in Roles : sub.of[r] = o
                /\ sub.isSubscribed => \A r \in Wanted(sub) : Followed(sub, object, r)
<1>1. call = NoCall
  BY DEF SubscriberInv, Wired, CallInv, Idle
<1>2. call.op \notin Following /\ call.op = "none" /\ Pending(call) = {}
  BY <1>1, NoCallType DEF Following
<1>. QED  BY <1>1, <1>2 DEF SubscriberInv, Wired, Regular, Reached

LEMMA SubscribeInv ==
    ASSUME SubscriberInv, NEW by \in Callers, subscribe(by)
    PROVE  SubscriberInv'
<1>1. CASE UNCHANGED <<sub, object, notices, call, calls>>
  BY <1>1 DEF subscribe, SubscriberInv
<1>2. CASE ~ UNCHANGED <<sub, object, notices, call, calls>>
  <2>. DEFINE s == [sub EXCEPT !.isSubscribing = TRUE]
              todo == <<"state", "user">> \o sub.marketIndexes
              c == [NoCall EXCEPT !.op = "subscribe", !.by = by, !.todo = todo]
  <2>1. /\ Idle /\ ~ sub.isSubscribed /\ Become(s, c, object)
        /\ UNCHANGED <<chain, requests, irregular>>
    BY <1>2 DEF subscribe, NewCall
  <2>2. /\ sub \in SubType /\ sub.marketIndexes \in Seq(Markets) /\ IsInjective(sub.marketIndexes)
        /\ Types(sub, call, object, requests) /\ References(sub, call, object, requests)
        /\ irregular \in BOOLEAN
    BY DEF SubscriberInv, Wired, Types, SubType
  <2>3. ToSet(sub.marketIndexes) \subseteq Markets /\ sub.marketIndexes \in Seq(Roles)
    BY <2>2, ConstantFacts DEF ToSet
  <2>4. /\ todo \in Seq(Roles) /\ ToSet(todo) = {"state", "user"} \cup ToSet(sub.marketIndexes)
        /\ IsInjective(todo)
    BY <2>2, <2>3, ConstantFacts, TwoAndMore
  <2>. HIDE DEF todo
  <2>5. /\ c \in CallType /\ c.op = "subscribe" /\ c.todo = todo /\ c.obj = 0
    BY <2>4, NoCallType DEF CallType, Following
  <2>6. /\ s \in SubType /\ s.of = sub.of /\ s.marketIndexes = sub.marketIndexes
        /\ s.isSubscribed = sub.isSubscribed
    BY <2>2 DEF SubType
  <2>. HIDE DEF c, s
  <2>7. Types(s, c, object, requests) /\ CallInv(s, c, object)
    BY <2>2, <2>4, <2>5, <2>6 DEF Types, CallInv
  <2>8. References(s, c, object, requests)
    BY <2>2, <2>5, <2>6 DEF References
  <2>9. ASSUME ~ irregular PROVE Regular(s, c, object)
    <3>1. \A o \in Objects : ~ Listens(object, o)
      BY <2>1, <2>9, IdleFacts
    <3>2. Wanted(s) \subseteq Pending(c)
      BY <2>4, <2>5, <2>6 DEF Wanted, Pending
    <3>. QED  BY <2>5, <3>1, <3>2 DEF Regular
  <2>10. Wired(s, c, object, requests, irregular)
    BY <2>7, <2>8, <2>9 DEF Wired
  <2>. QED  BY <2>1, <2>2, <2>10, BecomeInv
<1>. QED  BY <1>1, <1>2

(* A new account subscriber is one that nothing refers to.                 *)
LEMMA NewObjectFacts ==
    ASSUME SubscriberInv, HasObject
    PROVE  LET o == NewObject(object)
           IN /\ o \in Objects /\ ~ object[o].used /\ ~ object[o].live /\ o # 0
              /\ \A r \in Roles : sub.of[r] # o
              /\ o \notin requests /\ call.obj # o
<1>. DEFINE F == {x \in Objects : ~ object[x].used}
            o == NewObject(object)
<1>1. F \in SUBSET Nat /\ F # {} /\ o = Min(F)
  BY ConstantFacts DEF HasObject, NewObject
<1>2. o \in F
  BY <1>1, MinInSet
<1>. HIDE DEF o
<1>3. o \in Objects /\ ~ object[o].used /\ o # 0
  BY <1>2, ConstantFacts
<1>4. /\ \A r \in Roles : sub.of[r] # o
      /\ o \notin requests /\ call.obj # o /\ ~ object[o].live
  BY <1>3 DEF SubscriberInv, Wired, References
<1>. QED  BY <1>3, <1>4 DEF o

LEMMA NextRoleInv ==
    ASSUME SubscriberInv, NextRole
    PROVE  SubscriberInv'
<1>. DEFINE r == Head(call.todo)
            o == NewObject(object)
            s == [sub EXCEPT !.of[r] = IF r \in Markets THEN @ ELSE o]
            c == [call EXCEPT !.todo = Tail(@), !.obj = o, !.role = r]
            new == [Free EXCEPT !.used = TRUE, !.key = KeyOf(r)]
            objects == [object EXCEPT ![o] = new]
<1>1. /\ call.op \in Following /\ call.obj = 0 /\ call.todo # <<>> /\ HasObject
      /\ Become(s, c, objects) /\ UNCHANGED <<chain, requests, irregular>>
  BY DEF NextRole, begin_role, Following
<1>2. /\ sub \in SubType /\ sub.of \in [Roles -> 0 .. MaxObjects] /\ call \in CallType
      /\ call.todo \in Seq(Roles) /\ IsInjective(call.todo)
      /\ object \in [Objects -> ObjectType] /\ requests \subseteq Objects
      /\ IsInjective(sub.marketIndexes) /\ irregular \in BOOLEAN
      /\ References(sub, call, object, requests)
      /\ ~ irregular => Regular(sub, call, object)
  BY DEF SubscriberInv, Wired, Types, SubType, CallType
<1>3. /\ r \in Roles /\ Tail(call.todo) \in Seq(Roles)
      /\ ToSet(call.todo) = {r} \cup ToSet(Tail(call.todo)) /\ r \notin ToSet(Tail(call.todo))
      /\ IsInjective(Tail(call.todo))
  BY <1>1, <1>2, TodoTaken
<1>4. /\ o \in Objects /\ ~ object[o].used /\ ~ object[o].live /\ o # 0 /\ o \in 0 .. MaxObjects
      /\ \A q \in Roles : sub.of[q] # o
      /\ o \notin requests
  BY <1>1, NewObjectFacts, ConstantFacts
<1>. HIDE DEF r, o
<1>5. /\ c \in CallType /\ c.op = call.op /\ c.todo = Tail(call.todo) /\ c.obj = o /\ c.role = r
  BY <1>2, <1>3, <1>4 DEF CallType
<1>6. /\ s \in SubType /\ s.marketIndexes = sub.marketIndexes
      /\ s.isSubscribed = sub.isSubscribed /\ s.authority = sub.authority /\ s.userId = sub.userId
      /\ s.of \in [Roles -> 0 .. MaxObjects]
      /\ s.of[r] = IF r \in Markets THEN sub.of[r] ELSE o
      /\ \A q \in Roles \ {r} : s.of[q] = sub.of[q]
  BY <1>2, <1>3, <1>4 DEF SubType
<1>7. /\ KeyOf(r) = KeyIn(sub, r) /\ KeyIn(s, r) = KeyIn(sub, r) /\ KeyIn(sub, r) \in Keys
      /\ \A q \in Roles : KeyIn(s, q) = KeyIn(sub, q)
  BY <1>2, <1>3, <1>6, KeyTyped DEF KeyOf, KeyIn
<1>8. new \in ObjectType /\ new.used /\ ~ new.live /\ new.key = KeyIn(sub, r)
  BY <1>7, FreeType DEF ObjectType
<1>. HIDE DEF s, c, new
<1>9. /\ objects \in [Objects -> ObjectType] /\ objects[o] = new
      /\ \A x \in Objects \ {o} : objects[x] = object[x]
  BY <1>2, <1>4, <1>8
<1>. HIDE DEF objects
<1>10. Types(s, c, objects, requests)
  BY <1>2, <1>3, <1>5, <1>6, <1>9 DEF Types
<1>11. References(s, c, objects, requests)
  <2>1. ASSUME NEW q \in Roles, s.of[q] # 0 PROVE objects[s.of[q]].used
    <3>1. CASE s.of[q] = o
      BY <1>8, <1>9, <3>1
    <3>2. CASE s.of[q] # o
      <4>1. s.of[q] = sub.of[q] /\ s.of[q] \in Objects
        BY <1>6, <2>1, <3>2, ConstantFacts
      <4>. QED  BY <1>2, <1>9, <2>1, <3>2, <4>1 DEF References
    <3>. QED  BY <3>1, <3>2
  <2>2. objects[c.obj].used
    BY <1>5, <1>8, <1>9
  <2>3. \A x \in requests : objects[x].used
    BY <1>2, <1>4, <1>9 DEF References
  <2>4. \A x \in Objects : objects[x].live =>
           objects[x].used /\ objects[x].listenerId \in {"id", "zero"}
    BY <1>2, <1>8, <1>9 DEF References
  <2>5. \A p, q \in Roles : s.of[p] = s.of[q] /\ s.of[p] # 0 => p = q
    BY <1>2, <1>4, <1>6 DEF References
  <2>6. \A q \in Roles : s.of[q] = c.obj => q = c.role
    BY <1>4, <1>5, <1>6
  <2>. QED  BY <2>1, <2>2, <2>3, <2>4, <2>5, <2>6 DEF References
<1>12. CallInv(s, c, objects)
  BY <1>1, <1>3, <1>5, <1>7, <1>8, <1>9 DEF CallInv, Following
<1>13. ASSUME ~ irregular PROVE Regular(s, c, objects)
  <2>1. Pending(c) = Pending(call) /\ r \in Pending(c)
    BY <1>1, <1>3, <1>4, <1>5 DEF Pending
  <2>2. ASSUME NEW x \in Objects, Listens(objects, x) PROVE Reached(s, c, x)
    <3>1. Listens(object, x)
      BY <1>8, <1>9, <2>2 DEF Listens
    <3>2. PICK q \in Roles \ Pending(call) : sub.of[q] = x
      BY <1>1, <1>2, <1>13, <3>1 DEF Regular, Reached, Following
    <3>3. s.of[q] = x
      BY <1>6, <2>1, <3>2
    <3>. QED  BY <1>1, <1>5, <2>1, <3>2, <3>3 DEF Reached
  <2>3. ASSUME NEW q \in Wanted(s) \ Pending(c) PROVE Followed(s, objects, q)
    <3>1. q \in Wanted(sub) \ Pending(call) /\ q \in Roles /\ q # r
      BY <1>6, <1>10, <2>1, WantedRoles DEF Wanted
    <3>2. Followed(sub, object, q)
      BY <1>1, <1>2, <1>13, <3>1 DEF Regular
    <3>3. s.of[q] = sub.of[q] /\ sub.of[q] \in Objects \ {o}
      BY <1>2, <1>4, <1>6, <3>1, <3>2, ConstantFacts DEF Followed
    <3>. QED  BY <1>7, <1>9, <3>1, <3>2, <3>3 DEF Followed
  <2>. QED  BY <1>2, <1>5, <1>6, <1>13, <2>2, <2>3 DEF Regular
<1>14. Wired(s, c, objects, requests, irregular)
  BY <1>10, <1>11, <1>12, <1>13 DEF Wired
<1>. QED  BY <1>1, <1>2, <1>14, BecomeInv

LEMMA RoleFetchedInv ==
    ASSUME SubscriberInv, RoleFetched
    PROVE  SubscriberInv'
<1>. DEFINE o == call.obj
            r == call.role
            s == [sub EXCEPT !.of[r] = o]
            c == [call EXCEPT !.obj = 0]
<1>1. /\ call.op \in Following /\ o # 0 /\ UNCHANGED <<chain, requests, irregular>>
  BY DEF RoleFetched, Following
<1>2. PICK n \in Versions(object[o].key) :
         Become(s, c, [object EXCEPT ![o] = onAccountChange(handleRpcResponse(@, n))])
  BY DEF RoleFetched
<1>. DEFINE new == onAccountChange(handleRpcResponse(object[o], n))
            objects == [object EXCEPT ![o] = new]
<1>3. /\ sub \in SubType /\ sub.of \in [Roles -> 0 .. MaxObjects] /\ call \in CallType
      /\ o \in 0 .. MaxObjects /\ r \in Roles /\ IsInjective(call.todo)
      /\ object \in [Objects -> ObjectType] /\ requests \subseteq Objects
      /\ IsInjective(sub.marketIndexes) /\ irregular \in BOOLEAN
      /\ References(sub, call, object, requests) /\ CallInv(sub, call, object)
      /\ ~ irregular => Regular(sub, call, object)
  BY DEF SubscriberInv, Wired, Types, SubType, CallType
<1>4. /\ o \in Objects /\ object[o] \in ObjectType
      /\ object[o].key = KeyIn(sub, r) /\ object[o].used /\ r \notin ToSet(call.todo)
  BY <1>1, <1>3, ConstantFacts DEF CallInv, References
<1>5. new \in ObjectType /\ new.used /\ new.live /\ new.key = KeyIn(sub, r)
      /\ new.listenerId \in {"id", "zero"}
  <2>. DEFINE shown == handleRpcResponse(object[o], n)
  <2>1. n \in 1 .. Len(chain)
    BY DEF Versions, SubscriberInv
  <2>2. shown \in ObjectType /\ Alike(shown, object[o])
    BY <1>4, <2>1, Handled
  <2>. HIDE DEF shown
  <2>3. Len(chain) \in Nat /\ Versions(shown.key) \in SUBSET (0 .. Len(chain)) /\ 1 \in Versions(shown.key)
    BY DEF Versions, SubscriberInv
  <2>4. Max(Versions(shown.key)) \in Nat
    <3>. DEFINE V == Versions(shown.key)
                l == Len(chain)
    <3>1. l \in Nat /\ V \in SUBSET (0 .. l) /\ V # {}
      BY <2>3
    <3>. HIDE DEF V, l
    <3>2. Max(V) \in V /\ \A y \in V : y =< Max(V)
      BY <3>1, MaxInSet
    <3>. QED  BY <3>1, <3>2 DEF V
  <2>5. new = [shown EXCEPT !.listenerId = IF zero_given THEN "id" ELSE "zero",
                            !.live = TRUE, !.since = Max(Versions(shown.key))]
    BY DEF onAccountChange, shown
  <2>. HIDE DEF new
  <2>. QED  BY <1>4, <2>2, <2>4, <2>5 DEF ObjectType, Alike
<1>. HIDE DEF o, r, new
<1>6. /\ c \in CallType /\ c.op = call.op /\ c.todo = call.todo /\ c.obj = 0
  BY <1>3, ConstantFacts DEF CallType
<1>7. /\ s \in SubType /\ s.marketIndexes = sub.marketIndexes
      /\ s.isSubscribed = sub.isSubscribed /\ s.authority = sub.authority /\ s.userId = sub.userId
      /\ s.of \in [Roles -> 0 .. MaxObjects]
      /\ s.of[r] = o
      /\ \A q \in Roles \ {r} : s.of[q] = sub.of[q]
  BY <1>3 DEF SubType
<1>8. \A q \in Roles : KeyIn(s, q) = KeyIn(sub, q)
  BY <1>7 DEF KeyIn
<1>9. \A q \in Roles \ {r} : sub.of[q] # o
  BY <1>1, <1>3 DEF References, o, r
<1>. HIDE DEF s, c
<1>10. /\ objects \in [Objects -> ObjectType] /\ objects[o] = new
       /\ \A x \in Objects \ {o} : objects[x] = object[x]
  BY <1>3, <1>4, <1>5
<1>11. Become(s, c, objects)
  BY <1>2 DEF new, o, r, s, c
<1>. HIDE DEF objects
<1>12. Types(s, c, objects, requests)
  BY <1>3, <1>6, <1>7, <1>10 DEF Types
<1>13. References(s, c, objects, requests)
  <2>1. ASSUME NEW q \in Roles, s.of[q] # 0 PROVE objects[s.of[q]].used
    <3>1. CASE s.of[q] = o
      BY <1>5, <1>10, <3>1
    <3>2. CASE s.of[q] # o
      <4>1. s.of[q] = sub.of[q] /\ s.of[q] \in Objects
        BY <1>7, <2>1, <3>2, ConstantFacts
      <4>. QED  BY <1>3, <1>10, <2>1, <3>2, <4>1 DEF References
    <3>. QED  BY <3>1, <3>2
  <2>2. \A x \in requests : objects[x].used
    BY <1>3, <1>5, <1>10 DEF References
  <2>3. \A x \in Objects : objects[x].live =>
           objects[x].used /\ objects[x].listenerId \in {"id", "zero"}
    BY <1>3, <1>5, <1>10 DEF References
  <2>4. \A p, q \in Roles : s.of[p] = s.of[q] /\ s.of[p] # 0 => p = q
    BY <1>3, <1>7, <1>9 DEF References
  <2>. QED  BY <1>6, <2>1, <2>2, <2>3, <2>4 DEF References
<1>14. CallInv(s, c, objects)
  BY <1>1, <1>6 DEF CallInv, Following
<1>15. ASSUME ~ irregular PROVE Regular(s, c, objects)
  <2>1. Pending(call) = Pending(c) \cup {r} /\ r \notin Pending(c)
    BY <1>1, <1>4, <1>6 DEF Pending, o, r
  <2>2. ASSUME NEW x \in Objects, Listens(objects, x) PROVE Reached(s, c, x)
    <3>1. CASE x = o
      BY <1>1, <1>3, <1>6, <1>7, <2>1, <3>1 DEF Reached
    <3>2. CASE x # o
      <4>1. Listens(object, x)
        BY <1>10, <2>2, <3>2 DEF Listens
      <4>2. PICK q \in Roles \ Pending(call) : sub.of[q] = x
        BY <1>1, <1>3, <1>15, <4>1 DEF Regular, Reached, Following
      <4>3. s.of[q] = x /\ q \in Roles \ Pending(c)
        BY <1>7, <2>1, <4>2
      <4>. QED  BY <1>1, <1>6, <4>3 DEF Reached
    <3>. QED  BY <3>1, <3>2
  <2>3. ASSUME NEW q \in Wanted(s) \ Pending(c) PROVE Followed(s, objects, q)
    <3>1. q \in Roles /\ q \in Wanted(sub)
      BY <1>7, <1>12, WantedRoles DEF Wanted
    <3>2. CASE q = r
      BY <1>1, <1>3, <1>5, <1>7, <1>8, <1>10, <3>2 DEF Followed
    <3>3. CASE q # r
      <4>1. Followed(sub, object, q)
        BY <1>1, <1>3, <1>15, <2>1, <3>1, <3>3 DEF Regular
      <4>2. s.of[q] = sub.of[q] /\ sub.of[q] \in Objects \ {o}
        BY <1>3, <1>7, <1>9, <3>1, <3>3, <4>1, ConstantFacts DEF Followed
      <4>. QED  BY <1>8, <1>10, <3>1, <4>1, <4>2 DEF Followed
    <3>. QED  BY <3>2, <3>3
  <2>. QED  BY <1>3, <1>6, <1>7, <1>15, <2>2, <2>3 DEF Regular
<1>16. Wired(s, c, objects, requests, irregular)
  BY <1>12, <1>13, <1>14, <1>15 DEF Wired
<1>. QED  BY <1>1, <1>3, <1>11, <1>16, BecomeInv

(* A call that throws leaves what is referred to and a client of which     *)
(* nothing more is promised.                                               *)
LEMMA RoleFailsInv ==
    ASSUME SubscriberInv, RoleFails
    PROVE  SubscriberInv'
<1>1. Become(sub, NoCall, object) /\ irregular' = TRUE /\ UNCHANGED <<chain, requests>>
  BY DEF RoleFails
<1>2. Wired(sub, NoCall, object, requests, TRUE)
  BY NoCallType DEF SubscriberInv, Wired, Types, References, CallInv
<1>. QED  BY <1>1, <1>2, BecomeInv

LEMMA SubscribeDoneInv ==
    ASSUME SubscriberInv, SubscribeDone
    PROVE  SubscriberInv'
<1>. DEFINE s == [sub EXCEPT !.isSubscribing = FALSE, !.isSubscribed = TRUE]
<1>1. /\ call.op = "subscribe" /\ call.obj = 0 /\ call.todo = <<>>
      /\ Become(s, NoCall, object) /\ UNCHANGED <<chain, requests, irregular>>
  BY DEF SubscribeDone
<1>2. /\ Types(sub, call, object, requests) /\ References(sub, call, object, requests)
      /\ sub \in SubType /\ irregular \in BOOLEAN
      /\ ~ irregular => Regular(sub, call, object)
  BY DEF SubscriberInv, Wired, Types
<1>3. /\ s \in SubType /\ s.of = sub.of /\ s.marketIndexes = sub.marketIndexes /\ s.isSubscribed
      /\ s.authority = sub.authority /\ s.userId = sub.userId
  BY <1>2 DEF SubType
<1>. HIDE DEF s
<1>4. Types(s, NoCall, object, requests) /\ CallInv(s, NoCall, object)
  BY <1>2, <1>3, NoCallType DEF Types, CallInv
<1>5. References(s, NoCall, object, requests)
  BY <1>2, <1>3, NoCallType DEF References
<1>6. ASSUME ~ irregular PROVE Regular(s, NoCall, object)
  <2>1. Pending(call) = {}
    BY <1>1 DEF Pending, ToSet
  <2>2. \A o \in Objects : Listens(object, o) => \E r \in Roles : sub.of[r] = o
    BY <1>1, <1>2, <1>6 DEF Regular, Reached
  <2>3. \A r \in Wanted(sub) : Followed(sub, object, r)
    BY <1>1, <1>2, <1>6, <2>1 DEF Regular, Following
  <2>4. \A r \in Wanted(s) : Followed(s, object, r)
    BY <1>3, <2>3 DEF Wanted, Followed, KeyIn
  <2>. QED  BY <1>3, <2>2, <2>4, NoCallType DEF Regular, Reached
<1>7. Wired(s, NoCall, object, requests, irregular)
  BY <1>4, <1>5, <1>6 DEF Wired
<1>. QED  BY <1>1, <1>2, <1>7, BecomeInv

LEMMA ChangeDoneInv ==
    ASSUME SubscriberInv, ChangeDone
    PROVE  SubscriberInv'
<1>1. /\ call.op \in {"update", "add"} /\ call.obj = 0 /\ call.todo = <<>>
      /\ Become(sub, NoCall, object) /\ UNCHANGED <<chain, requests, irregular>>
  BY DEF ChangeDone
<1>2. /\ Types(sub, call, object, requests) /\ References(sub, call, object, requests)
      /\ irregular \in BOOLEAN
      /\ ~ irregular => Regular(sub, call, object)
  BY DEF SubscriberInv, Wired
<1>3. /\ Types(sub, NoCall, object, requests) /\ CallInv(sub, NoCall, object)
      /\ References(sub, NoCall, object, requests)
  BY <1>2, NoCallType DEF Types, CallInv, References
<1>4. ASSUME ~ irregular PROVE Regular(sub, NoCall, object)
  <2>1. Pending(call) = {}
    BY <1>1 DEF Pending, ToSet
  <2>2. sub.isSubscribed /\ \A o \in Objects : Listens(object, o) => \E r \in Roles : sub.of[r] = o
    BY <1>1, <1>2, <1>4 DEF Regular, Reached
  <2>3. \A r \in Wanted(sub) : Followed(sub, object, r)
    BY <1>1, <1>2, <1>4, <2>1 DEF Regular, Following
  <2>. QED  BY <2>2, <2>3, NoCallType DEF Regular, Reached
<1>5. Wired(sub, NoCall, object, requests, irregular)
  BY <1>3, <1>4 DEF Wired
<1>. QED  BY <1>1, <1>2, <1>5, BecomeInv

(* unsubscribe() of one account subscriber leaves it without a listener    *)
(* that it could have removed, and the others as they are.                 *)
Silenced(objects2, objects, o) ==
    /\ objects2 \in [Objects -> ObjectType]
    /\ \A x \in Objects : objects2[x].key = objects[x].key /\ objects2[x].used = objects[x].used
    /\ \A x \in Objects : x # o => objects2[x] = objects[x]
    /\ \A x \in Objects : objects2[x].live =>
          objects[x].live /\ objects2[x].listenerId = objects[x].listenerId
    /\ o \in Objects => ~ Listens(objects2, o)

LEMMA UnsubscribedSilenced ==
    ASSUME SubscriberInv, NEW o \in 0 .. MaxObjects
    PROVE  Silenced([object EXCEPT ![o] = unsubscribed(@)], object, o)
<1>1. /\ object \in [Objects -> ObjectType]
      /\ \A x \in Objects : object[x].live => object[x].listenerId \in {"id", "zero"}
  BY DEF SubscriberInv, Wired, Types, References
<1>2. CASE o \notin Objects
  <2>1. [object EXCEPT ![o] = unsubscribed(@)] = object
    BY <1>1, <1>2
  <2>. QED  BY <1>1, <1>2, <2>1 DEF Silenced
<1>3. CASE o \in Objects
  <2>. DEFINE new == unsubscribed(object[o])
              objects == [object EXCEPT ![o] = new]
  <2>1. /\ new \in ObjectType /\ new.key = object[o].key /\ new.used = object[o].used
        /\ new.live => object[o].live /\ new.listenerId = object[o].listenerId
        /\ ~ (new.live /\ new.listenerId # "zero")
    BY <1>1, <1>3 DEF unsubscribed, ObjectType
  <2>. HIDE DEF new
  <2>2. objects \in [Objects -> ObjectType] /\ objects[o] = new
        /\ \A x \in Objects : x # o => objects[x] = object[x]
    BY <1>1, <1>3, <2>1
  <2>3. objects = [object EXCEPT ![o] = unsubscribed(@)]
    BY DEF new
  <2>. HIDE DEF objects
  <2>4. Silenced(objects, object, o)
    BY <2>1, <2>2 DEF Silenced, Listens
  <2>. QED  BY <2>3, <2>4
<1>. QED  BY <1>2, <1>3

LEMMA SilencedReferences ==
    ASSUME NEW s, NEW c, NEW objects, NEW reqs, NEW o, NEW objects2,
           Types(s, c, objects, reqs), References(s, c, objects, reqs),
           Silenced(objects2, objects, o)
    PROVE  References(s, c, objects2, reqs)
<1>1. /\ s.of \in [Roles -> 0 .. MaxObjects] /\ c.obj \in 0 .. MaxObjects /\ reqs \subseteq Objects
  BY DEF Types, SubType, CallType
<1>2. /\ \A x \in Objects : objects2[x].used = objects[x].used
      /\ \A x \in Objects : objects2[x].live =>
            objects[x].live /\ objects2[x].listenerId = objects[x].listenerId
  BY DEF Silenced
<1>3. /\ \A r \in Roles : s.of[r] # 0 => objects2[s.of[r]].used
      /\ c.obj # 0 => objects2[c.obj].used
      /\ \A x \in reqs : objects2[x].used
  BY <1>1, <1>2, ConstantFacts DEF References
<1>4. \A x \in Objects : objects2[x].live =>
         objects2[x].used /\ objects2[x].listenerId \in {"id", "zero"}
  BY <1>2 DEF References
<1>. QED  BY <1>3, <1>4 DEF References

(* updateAuthority and updateUserId while subscribed.                      *)
LEMMA UpdateUserInv ==
    ASSUME SubscriberInv, NEW a \in Authorities, NEW u \in UserIds, updateUser(a, u)
    PROVE  SubscriberInv'
<1>. DEFINE s == [sub EXCEPT !.authority = a, !.userId = u]
            c == [NoCall EXCEPT !.op = "update", !.todo = <<"user">>]
            objects == unsubscribeFromUserAccounts
            irr == irregular \/ ~ sub.isSubscribed
            old == sub.of["user"]
<1>1. Idle /\ Become(s, c, objects) /\ irregular' = irr /\ UNCHANGED <<chain, requests>>
  BY DEF updateUser, NewCall
<1>2. /\ sub \in SubType /\ sub.of \in [Roles -> 0 .. MaxObjects] /\ old \in 0 .. MaxObjects
      /\ IsInjective(sub.marketIndexes) /\ irr \in BOOLEAN
      /\ Types(sub, call, object, requests) /\ References(sub, call, object, requests)
      /\ object \in [Objects -> ObjectType] /\ requests \in SUBSET Objects
  BY ConstantFacts DEF SubscriberInv, Wired, Types, SubType
<1>3. Silenced(objects, object, old)
  BY <1>2, UnsubscribedSilenced DEF unsubscribeFromUserAccounts
<1>4. /\ <<"user">> \in Seq(Roles) /\ ToSet(<<"user">>) = {"user"} /\ IsInjective(<<"user">>)
  BY ConstantFacts, OneTodo
<1>5. /\ c \in CallType /\ c.op = "update" /\ c.todo = <<"user">> /\ c.obj = 0
  BY <1>4, NoCallType DEF CallType, Following
<1>6. /\ s \in SubType /\ s.of = sub.of /\ s.marketIndexes = sub.marketIndexes
      /\ s.isSubscribed = sub.isSubscribed
  BY <1>2 DEF SubType
<1>7. Pending(c) = {"user"}
  BY <1>4, <1>5 DEF Pending
<1>. HIDE DEF s, c, objects
<1>8. Types(s, c, objects, requests) /\ CallInv(s, c, objects)
  BY <1>2, <1>3, <1>4, <1>5, <1>6 DEF Types, CallInv, Silenced
<1>9. References(s, c, objects, requests)
  <2>1. References(sub, call, objects, requests)
    BY <1>2, <1>3, SilencedReferences
  <2>. QED  BY <1>5, <1>6, <2>1 DEF References
<1>10. ASSUME ~ irr PROVE Regular(s, c, objects)
  <2>1. /\ sub.isSubscribed
        /\ \A o \in Objects : Listens(object, o) => \E r \in Roles : sub.of[r] = o
        /\ \A r \in Wanted(sub) : Followed(sub, object, r)
    BY <1>1, <1>10, IdleFacts
  <2>2. ASSUME NEW o \in Objects, Listens(objects, o) PROVE Reached(s, c, o)
    <3>1. o # old /\ Listens(object, o)
      BY <1>3, <2>2 DEF Silenced, Listens
    <3>2. PICK r \in Roles : sub.of[r] = o
      BY <2>1, <3>1
    <3>3. r \in Roles \ Pending(c) /\ s.of[r] = o
      BY <1>6, <1>7, <3>1, <3>2
    <3>. QED  BY <1>5, <3>3 DEF Reached, Following
  <2>3. ASSUME NEW r \in Wanted(s) \ Pending(c) PROVE Followed(s, objects, r)
    <3>1. r \in Wanted(sub) /\ r \in Roles /\ r # "user"
      BY <1>6, <1>7, <1>8, WantedRoles DEF Wanted
    <3>2. Followed(sub, object, r)
      BY <2>1, <3>1
    <3>3. sub.of[r] \in Objects /\ sub.of[r] # old
      BY <1>2, <3>1, <3>2, ConstantFacts DEF Followed, References
    <3>4. objects[sub.of[r]] = object[sub.of[r]]
      BY <1>3, <3>3 DEF Silenced
    <3>5. KeyIn(s, r) = KeyIn(sub, r)
      BY <3>1 DEF KeyIn
    <3>. QED  BY <1>6, <3>2, <3>4, <3>5 DEF Followed
  <2>. QED  BY <1>6, <2>1, <2>2, <2>3 DEF Regular
<1>11. Wired(s, c, objects, requests, irr)
  BY <1>8, <1>9, <1>10 DEF Wired
<1>. HIDE DEF irr
<1>. QED  BY <1>1, <1>2, <1>11, BecomeInv

LEMMA AddMarketInv ==
    ASSUME SubscriberInv, NEW m \in Markets, addMarket(m)
    PROVE  SubscriberInv'
<1>. DEFINE c == [NoCall EXCEPT !.op = "add", !.todo = <<m>>]
            irr == irregular \/ ~ sub.isSubscribed
<1>1. /\ Idle /\ Become(sub, c, object) /\ irregular' = irr /\ UNCHANGED <<chain, requests>>
      /\ sub.of[m] = 0
  BY DEF addMarket, NewCall
<1>2. /\ Types(sub, call, object, requests) /\ References(sub, call, object, requests)
      /\ irr \in BOOLEAN
  BY DEF SubscriberInv, Wired
<1>3. m \in Roles /\ <<m>> \in Seq(Roles) /\ ToSet(<<m>>) = {m} /\ IsInjective(<<m>>)
  BY ConstantFacts, OneTodo
<1>4. /\ c \in CallType /\ c.op = "add" /\ c.todo = <<m>> /\ c.obj = 0
  BY <1>3, NoCallType DEF CallType, Following
<1>5. Pending(c) = {m}
  BY <1>3, <1>4 DEF Pending
<1>. HIDE DEF c
<1>6. /\ Types(sub, c, object, requests) /\ CallInv(sub, c, object)
      /\ References(sub, c, object, requests)
  BY <1>2, <1>3, <1>4 DEF Types, CallInv, References
<1>7. ASSUME ~ irr PROVE Regular(sub, c, object)
  <2>1. /\ sub.isSubscribed
        /\ \A o \in Objects : Listens(object, o) => \E r \in Roles : sub.of[r] = o
        /\ \A r \in Wanted(sub) : Followed(sub, object, r)
    BY <1>1, <1>7, IdleFacts
  <2>2. ASSUME NEW o \in Objects, Listens(object, o) PROVE Reached(sub, c, o)
    <3>1. PICK r \in Roles : sub.of[r] = o
      BY <2>1, <2>2
    <3>2. r # m
      BY <1>1, <3>1, ConstantFacts
    <3>. QED  BY <1>4, <1>5, <3>1, <3>2 DEF Reached, Following
  <2>. QED  BY <2>1, <2>2 DEF Regular
<1>8. Wired(sub, c, object, requests, irr)
  BY <1>6, <1>7 DEF Wired
<1>. HIDE DEF irr
<1>. QED  BY <1>1, <1>2, <1>8, BecomeInv

(* unsubscribe() goes through every account subscriber the client has.     *)
LEMMA UnsubscribeInv ==
    ASSUME SubscriberInv, unsubscribe
    PROVE  SubscriberInv'
<1>. DEFINE M == {m \in Markets : sub.of[m] # 0}
            rest == SetToSeq(M)
            todo == <<"state", "user">> \o rest
            c == [NoCall EXCEPT !.op = "unsubscribe", !.todo = todo]
<1>1. /\ Idle /\ sub.isSubscribed /\ Become(sub, c, object)
      /\ UNCHANGED <<chain, requests, irregular>>
  BY DEF unsubscribe, NewCall
<1>2. /\ Types(sub, call, object, requests) /\ References(sub, call, object, requests)
      /\ irregular \in BOOLEAN
  BY DEF SubscriberInv, Wired
<1>3. rest \in Seq(M) /\ ToSet(rest) = M /\ IsInjective(rest)
  <2>1. IsFiniteSet(Markets)
    BY SubscriberAssumption
  <2>2. IsFiniteSet(M)
    BY <2>1, FS_Subset
  <2>. QED  BY <2>2, SetToSeqCovers
<1>. HIDE DEF rest
<1>4. /\ rest \in Seq(Roles) /\ "state" \notin ToSet(rest) /\ "user" \notin ToSet(rest)
      /\ "state" \in Roles /\ "user" \in Roles
  BY <1>3, ConstantFacts
<1>5. todo \in Seq(Roles) /\ ToSet(todo) = {"state", "user"} \cup M /\ IsInjective(todo)
  BY <1>3, <1>4, TwoAndMore
<1>. HIDE DEF todo
<1>6. /\ c \in CallType /\ c.op = "unsubscribe" /\ c.todo = todo /\ c.obj = 0
  BY <1>5, NoCallType DEF CallType, Following
<1>. HIDE DEF c
<1>7. /\ Types(sub, c, object, requests) /\ CallInv(sub, c, object)
      /\ References(sub, c, object, requests)
  BY <1>1, <1>2, <1>5, <1>6 DEF Types, CallInv, References
<1>8. ASSUME ~ irregular PROVE Regular(sub, c, object)
  <2>1. ASSUME NEW o \in Objects, Listens(object, o) PROVE Reached(sub, c, o)
    <3>1. PICK r \in Roles : sub.of[r] = o
      BY <1>1, <1>8, <2>1, IdleFacts
    <3>2. r \in ToSet(todo)
      BY <1>5, <3>1, ConstantFacts DEF Roles
    <3>. QED  BY <1>6, <3>1, <3>2 DEF Reached
  <2>. QED  BY <1>6, <2>1 DEF Regular, Following
<1>9. Wired(sub, c, object, requests, irregular)
  BY <1>7, <1>8 DEF Wired
<1>. QED  BY <1>1, <1>2, <1>9, BecomeInv

LEMMA NextUnsubscribedInv ==
    ASSUME SubscriberInv, NextUnsubscribed
    PROVE  SubscriberInv'
<1>. DEFINE r == Head(call.todo)
            old == sub.of[r]
            c == [call EXCEPT !.todo = Tail(@)]
            objects == [object EXCEPT ![old] = unsubscribed(@)]
<1>1. /\ call.op = "unsubscribe" /\ call.todo # <<>> /\ Become(sub, c, objects)
      /\ UNCHANGED <<chain, requests, irregular>>
  BY DEF NextUnsubscribed
<1>2. /\ Types(sub, call, object, requests) /\ References(sub, call, object, requests)
      /\ sub.of \in [Roles -> 0 .. MaxObjects] /\ call \in CallType /\ call.todo \in Seq(Roles)
      /\ IsInjective(call.todo) /\ irregular \in BOOLEAN /\ CallInv(sub, call, object)
      /\ ~ irregular => Regular(sub, call, object)
  BY DEF SubscriberInv, Wired, Types, SubType, CallType
<1>3. /\ r \in Roles /\ Tail(call.todo) \in Seq(Roles)
      /\ ToSet(call.todo) = {r} \cup ToSet(Tail(call.todo))
      /\ IsInjective(Tail(call.todo))
  BY <1>1, <1>2, TodoTaken
<1>4. old \in 0 .. MaxObjects
  BY <1>2, <1>3
<1>5. Silenced(objects, object, old)
  BY <1>4, UnsubscribedSilenced
<1>6. /\ c \in CallType /\ c.op = "unsubscribe" /\ c.todo = Tail(call.todo) /\ c.obj = call.obj
      /\ call.obj = 0
  BY <1>1, <1>2, <1>3 DEF CallType, CallInv, Following
<1>. HIDE DEF r, old, c, objects
<1>7. Types(sub, c, objects, requests) /\ CallInv(sub, c, objects)
  BY <1>1, <1>2, <1>3, <1>5, <1>6 DEF Types, CallInv, Silenced
<1>8. References(sub, c, objects, requests)
  <2>1. References(sub, call, objects, requests)
    BY <1>2, <1>5, SilencedReferences
  <2>. QED  BY <1>6, <2>1 DEF References
<1>9. ASSUME ~ irregular PROVE Regular(sub, c, objects)
  <2>1. ASSUME NEW o \in Objects, Listens(objects, o) PROVE Reached(sub, c, o)
    <3>1. o # old /\ Listens(object, o)
      BY <1>5, <2>1 DEF Silenced, Listens
    <3>2. PICK q \in ToSet(call.todo) : sub.of[q] = o
      BY <1>1, <1>2, <1>9, <3>1 DEF Regular, Reached, Following
    <3>3. q \in ToSet(c.todo)
      BY <1>3, <1>6, <3>1, <3>2 DEF old
    <3>. QED  BY <1>6, <3>2, <3>3 DEF Reached
  <2>. QED  BY <1>6, <2>1 DEF Regular, Following
<1>10. Wired(sub, c, objects, requests, irregular)
  BY <1>7, <1>8, <1>9 DEF Wired
<1>. QED  BY <1>1, <1>2, <1>10, BecomeInv

LEMMA UnsubscribeDoneInv ==
    ASSUME SubscriberInv, UnsubscribeDone
    PROVE  SubscriberInv'
<1>. DEFINE s == [sub EXCEPT !.isSubscribed = FALSE]
<1>1. /\ call.op = "unsubscribe" /\ call.todo = <<>> /\ Become(s, NoCall, object)
      /\ UNCHANGED <<chain, requests, irregular>>
  BY DEF UnsubscribeDone
<1>2. /\ Types(sub, call, object, requests) /\ References(sub, call, object, requests)
      /\ sub \in SubType /\ irregular \in BOOLEAN
      /\ ~ irregular => Regular(sub, call, object)
  BY DEF SubscriberInv, Wired, Types
<1>3. s \in SubType /\ s.of = sub.of /\ s.marketIndexes = sub.marketIndexes /\ ~ s.isSubscribed
  BY <1>2 DEF SubType
<1>. HIDE DEF s
<1>4. /\ Types(s, NoCall, object, requests) /\ CallInv(s, NoCall, object)
      /\ References(s, NoCall, object, requests)
  BY <1>2, <1>3, NoCallType DEF Types, CallInv, References
<1>5. ASSUME ~ irregular PROVE Regular(s, NoCall, object)
  <2>1. ToSet(call.todo) = {}
    BY <1>1 DEF ToSet
  <2>2. \A o \in Objects : ~ Listens(object, o)
    BY <1>1, <1>2, <1>5, <2>1 DEF Regular, Reached, Following
  <2>. QED  BY <1>3, <2>2, NoCallType DEF Regular, Following
<1>6. Wired(s, NoCall, object, requests, irregular)
  BY <1>4, <1>5 DEF Wired
<1>. QED  BY <1>1, <1>2, <1>6, BecomeInv

-----------------------------------------------------------------------------
LEMMA SubscriberInitially == Init => SubscriberInv
<1>. SUFFICES ASSUME Init PROVE SubscriberInv
  OBVIOUS
<1>1. PICK cfg \in Configurations :
         sub = [isSubscribed |-> FALSE, isSubscribing |-> FALSE, authority |-> cfg.authority,
                userId |-> cfg.userId, marketIndexes |-> cfg.marketIndexes,
                of |-> [r \in Roles |-> 0]]
  BY DEF Init
<1>2. /\ cfg \in [authority : Authorities, userId : UserIds, marketIndexes : Seq(Markets)]
      /\ IsInjective(cfg.marketIndexes)
  BY SubscriberAssumption
<1>3. /\ sub \in SubType /\ IsInjective(sub.marketIndexes) /\ ~ sub.isSubscribed
      /\ \A r \in Roles : sub.of[r] = 0
  BY <1>1, <1>2, ConstantFacts DEF SubType
<1>4. /\ object \in [Objects -> ObjectType] /\ \A o \in Objects : ~ object[o].live
      /\ call = NoCall /\ requests = {} /\ notices = {} /\ irregular = FALSE
  BY FreeType DEF Init
<1>5. Types(sub, call, object, requests) /\ CallInv(sub, call, object)
      /\ References(sub, call, object, requests)
  BY <1>3, <1>4, NoCallType DEF Types, CallInv, References
<1>6. Regular(sub, call, object)
  BY <1>3, <1>4, NoCallType DEF Regular, Listens, Following
<1>7. chain \in Seq([Keys -> Data \cup {NoData}]) /\ Len(chain) > 0
  <2>1. PICK h \in Histories : chain = <<h[1]>>
    BY DEF Init
  <2>2. h \in Seq([Keys -> Data \cup {NoData}]) /\ Len(h) = MaxSlot /\ MaxSlot \in Nat \ {0}
    BY SubscriberAssumption
  <2>3. h[1] \in [Keys -> Data \cup {NoData}]
    BY <2>2
  <2>. QED  BY <2>1, <2>3
<1>. QED  BY <1>4, <1>5, <1>6, <1>7 DEF SubscriberInv, Wired

LEMMA SubscriberStep == SubscriberInv /\ [Next]_vars => SubscriberInv'
<1>. SUFFICES ASSUME SubscriberInv, [Next]_vars PROVE SubscriberInv'
  OBVIOUS
<1>1. ASSUME NEW by \in Callers, subscribe(by) PROVE SubscriberInv'
  BY <1>1, SubscribeInv
<1>2. CASE NextRole
  BY <1>2, NextRoleInv
<1>3. CASE RoleFetched
  BY <1>3, RoleFetchedInv
<1>4. CASE RoleFails
  BY <1>4, RoleFailsInv
<1>5. CASE SubscribeDone
  BY <1>5, SubscribeDoneInv
<1>6. CASE ChangeDone
  BY <1>6, ChangeDoneInv
<1>7. ASSUME NEW a \in Authorities, NEW u \in UserIds, updateUser(a, u) PROVE SubscriberInv'
  BY <1>7, UpdateUserInv
<1>8. ASSUME NEW m \in Markets, addMarket(m) PROVE SubscriberInv'
  BY <1>8, AddMarketInv
<1>9. CASE unsubscribe
  BY <1>9, UnsubscribeInv
<1>10. CASE NextUnsubscribed
  BY <1>10, NextUnsubscribedInv
<1>11. CASE UnsubscribeDone
  BY <1>11, UnsubscribeDoneInv
<1>12. CASE fetch
  BY <1>12, FetchInv
<1>13. ASSUME NEW o \in requests, NEW n \in Versions(object[o].key), Fetched(o, n)
       PROVE  SubscriberInv'
  BY <1>13, FetchedInv
<1>14. ASSUME NEW n \in notices, Delivered(n) PROVE SubscriberInv'
  BY <1>14, DeliveredInv
<1>15. ASSUME NEW h \in Histories, Now < Len(h), NewSlot(h[Now + 1]) PROVE SubscriberInv'
  BY <1>15, NewSlotInv
<1>16. CASE Reconnect
  BY <1>16, ReconnectInv
<1>17. CASE UNCHANGED vars
  BY <1>17 DEF vars, SubscriberInv
<1>. QED
  BY <1>1, <1>2, <1>3, <1>4, <1>5, <1>6, <1>7, <1>8, <1>9, <1>10, <1>11, <1>12, <1>13, <1>14,
     <1>15, <1>16, <1>17, Zenon DEF Next

LEMMA SubscriberAlways == Spec => []SubscriberInv
BY SubscriberInitially, SubscriberStep, PTL DEF Spec

(* A client that is subscribed and waits for nothing has, for the state,   *)
(* its user and every configured market, an account subscriber with a      *)
(* listener, and the user's is for the authority and user id of the last   *)
(* updateAuthority or updateUserId: whatever answers, notices and calls    *)
(* came in between, as long as none threw.                                 *)
THEOREM AccountsFollowed == Spec => []FollowsItsAccounts
<1>1. SubscriberInv => FollowsItsAccounts
  <2>. SUFFICES ASSUME SubscriberInv, sub.isSubscribed, Idle, ~ irregular,
                       NEW r \in {"state", "user"} \cup ToSet(sub.marketIndexes)
                PROVE  /\ sub.of[r] # 0
                       /\ object[sub.of[r]].live
                       /\ object[sub.of[r]].key =
                             IF r = "user" THEN <<sub.authority, sub.userId>> ELSE <<r>>
    BY Zenon DEF FollowsItsAccounts
  <2>1. Followed(sub, object, r)
    BY IdleFacts DEF Wanted
  <2>. QED  BY <2>1, Zenon DEF Followed, KeyIn
<1>. QED  BY <1>1, SubscriberAlways, PTL

(* No listener on the connection is lost to the client: unsubscribe()      *)
(* would reach every one, or is about to, and when it has returned there   *)
(* is none left, apart from the listener with the id 0, which              *)
(* `if (this.listenerId)` passes over.                                     *)
THEOREM ListenersOwned == Spec => []NoListenerLeaks
<1>1. SubscriberInv => NoListenerLeaks
  <2>. SUFFICES ASSUME SubscriberInv, ~ irregular, NEW o \in Objects,
                       object[o].live, object[o].listenerId # "zero"
                PROVE  (sub.isSubscribed \/ ~ Idle) /\ \E r \in Roles : sub.of[r] = o
    BY Zenon DEF NoListenerLeaks
  <2>1. Listens(object, o)
    BY DEF Listens
  <2>2. Reached(sub, call, o)
    BY <2>1 DEF SubscriberInv, Wired, Regular
  <2>3. call.todo \in Seq(Roles)
    BY DEF SubscriberInv, Wired, Types, CallType
  <2>4. ToSet(call.todo) \subseteq Roles
    BY <2>3 DEF ToSet
  <2>. QED  BY <2>2, <2>4 DEF Reached, Idle, Following
<1>. QED  BY <1>1, SubscriberAlways, PTL

-----------------------------------------------------------------------------
(* What is shown.  The versions of an account on a chain c, which is chain *)
(* or the next one.                                                        *)

Chains == {c \in Seq([Keys -> Data \cup {NoData}]) : Len(c) > 0}

VersionsOf(c, k) == {1} \cup {n \in 2 .. Len(c) : c[n][k] # c[n - 1][k]}
Latest(c, k) == Max(VersionsOf(c, k))
RepeatsOn(c, k) ==
    \E m, n \in 1 .. Len(c) : m + 1 < n /\ c[m][k] = c[n][k] /\ c[m + 1][k] # c[n][k]
NeverClosed(c) == \A n \in 2 .. Len(c), k \in Keys : c[n - 1][k] # NoData => c[n][k] # NoData

(* The newest contents are those of the last version.                      *)
LEMMA LatestContents ==
    ASSUME NEW c \in Chains, NEW k \in Keys
    PROVE  /\ Latest(c, k) \in VersionsOf(c, k) /\ VersionsOf(c, k) \subseteq 1 .. Len(c)
           /\ \A n \in VersionsOf(c, k) : n =< Latest(c, k)
           /\ c[Latest(c, k)][k] = c[Len(c)][k]
<1>. DEFINE V == VersionsOf(c, k)
            L == Max(V)
<1>1. Len(c) \in Nat \ {0}
  BY DEF Chains
<1>2. 1 \in V /\ V \in SUBSET (0 .. Len(c)) /\ V \subseteq 1 .. Len(c)
  BY <1>1 DEF VersionsOf
<1>3. ASSUME NEW m \in 1 .. Len(c) - 1, c[m + 1][k] # c[m][k] PROVE m + 1 \in V
  <2>1. m + 1 \in 2 .. Len(c) /\ (m + 1) - 1 = m
    BY <1>1
  <2>. QED  BY <1>3, <2>1 DEF VersionsOf
<1>. HIDE DEF V
<1>4. L \in V /\ \A n \in V : n =< L
  BY <1>1, <1>2, MaxInSet
<1>. HIDE DEF L
<1>5. ASSUME c[L][k] # c[Len(c)][k] PROVE FALSE
  <2>. DEFINE D == {m \in 1 .. Len(c) : c[m][k] # c[Len(c)][k]}
  <2>1. D \in SUBSET (0 .. Len(c)) /\ D # {} /\ L \in D
    BY <1>2, <1>4, <1>5
  <2>2. PICK m : m = Max(D)
    OBVIOUS
  <2>3. m \in D /\ \A y \in D : y =< m
    BY <1>1, <2>1, <2>2, MaxInSet
  <2>4. m \in 1 .. Len(c) - 1 /\ m + 1 \in 1 .. Len(c) /\ m + 1 \notin D /\ L =< m
    BY <1>1, <2>1, <2>3
  <2>5. m + 1 \in V
    BY <1>3, <2>3, <2>4
  <2>. QED  BY <1>2, <1>4, <2>4, <2>5
<1>. QED  BY <1>2, <1>4, <1>5 DEF Latest, L, V

(* If contents do not return, no other version has them.                   *)
LEMMA LatestAlone ==
    ASSUME NEW c \in Chains, NEW k \in Keys, ~ RepeatsOn(c, k),
           NEW s \in VersionsOf(c, k), c[s][k] = c[Len(c)][k]
    PROVE  s = Latest(c, k)
<1>1. PICK last : last = Latest(c, k)
  OBVIOUS
<1>2. /\ last \in VersionsOf(c, k) /\ last \in 1 .. Len(c) /\ s \in 1 .. Len(c) /\ s =< last
      /\ c[last][k] = c[Len(c)][k] /\ Len(c) \in Nat
  BY <1>1, LatestContents DEF Chains
<1>3. ASSUME s < last PROVE FALSE
  <2>. DEFINE D == {m \in 1 .. last - 1 : c[m][k] = c[last][k]}
  <2>1. last \in Nat /\ D \in SUBSET (0 .. last) /\ D # {}
    BY <1>2, <1>3
  <2>2. PICK m : m = Max(D)
    OBVIOUS
  <2>3. m \in D /\ \A y \in D : y =< m
    BY <2>1, <2>2, MaxInSet
  <2>4. c[last][k] # c[last - 1][k]
    BY <1>2, <1>3 DEF VersionsOf
  <2>5. m + 1 < last /\ m \in 1 .. Len(c) /\ m + 1 \in 1 .. last - 1 /\ m + 1 \notin D
    BY <1>2, <2>3, <2>4
  <2>6. c[m][k] = c[last][k] /\ c[m + 1][k] # c[last][k]
    BY <2>3, <2>5
  <2>. QED  BY <1>2, <2>5, <2>6 DEF RepeatsOn
<1>. QED  BY <1>1, <1>2, <1>3

(* Only the first contents may be missing.                                 *)
LEMMA LatestExists ==
    ASSUME NEW c \in Chains, NEW k \in Keys, NeverClosed(c), Latest(c, k) # 1
    PROVE  c[Latest(c, k)][k] # NoData
<1>1. PICK last : last = Latest(c, k)
  OBVIOUS
<1>2. last \in VersionsOf(c, k)
  BY <1>1, LatestContents
<1>3. last \in 2 .. Len(c) /\ c[last][k] # c[last - 1][k]
  BY <1>1, <1>2 DEF VersionsOf
<1>. QED  BY <1>1, <1>3 DEF NeverClosed

(* The next slot.                                                          *)
LEMMA OneSlotMore ==
    ASSUME NEW c \in Chains, NEW k \in Keys, NEW a \in [Keys -> Data \cup {NoData}]
    PROVE  LET d == Append(c, a)
           IN /\ d \in Chains /\ Len(d) = Len(c) + 1 /\ d[Len(d)] = a
              /\ \A n \in 1 .. Len(c) : d[n] = c[n]
              /\ VersionsOf(c, k) \subseteq VersionsOf(d, k)
              /\ RepeatsOn(c, k) => RepeatsOn(d, k)
              /\ a[k] = c[Len(c)][k] => Latest(d, k) = Latest(c, k)
              /\ a[k] # c[Len(c)][k] => Latest(d, k) = Len(d)
<1>. DEFINE d == Append(c, a)
<1>1. /\ c \in Seq([Keys -> Data \cup {NoData}]) /\ Len(c) \in Nat \ {0}
  BY DEF Chains
<1>2. /\ d \in Seq([Keys -> Data \cup {NoData}]) /\ Len(d) = Len(c) + 1 /\ d[Len(d)] = a
      /\ \A n \in 1 .. Len(c) : d[n] = c[n]
  BY <1>1
<1>. HIDE DEF d
<1>3. d \in Chains
  BY <1>1, <1>2 DEF Chains
<1>4. ASSUME NEW n \in 1 .. Len(c) PROVE n \in VersionsOf(d, k) <=> n \in VersionsOf(c, k)
  <2>1. CASE n = 1
    BY <2>1 DEF VersionsOf
  <2>2. CASE n # 1
    <3>1. n \in 2 .. Len(c) /\ n \in 2 .. Len(d) /\ n - 1 \in 1 .. Len(c)
      BY <1>1, <1>2, <2>2
    <3>. QED  BY <1>2, <2>2, <3>1 DEF VersionsOf
  <2>. QED  BY <2>1, <2>2
<1>5. Len(d) \in VersionsOf(d, k) <=> a[k] # c[Len(c)][k]
  <2>1. Len(d) \in 2 .. Len(d) /\ Len(d) - 1 = Len(c) /\ Len(d) # 1 /\ Len(c) \in 1 .. Len(c)
    BY <1>1, <1>2
  <2>2. d[Len(d) - 1] = c[Len(c)]
    BY <1>2, <2>1
  <2>. QED  BY <1>2, <2>1, <2>2 DEF VersionsOf
<1>6. /\ VersionsOf(c, k) \subseteq 1 .. Len(c) /\ VersionsOf(d, k) \subseteq 1 .. Len(d)
      /\ Latest(d, k) \in VersionsOf(d, k) /\ \A n \in VersionsOf(d, k) : n =< Latest(d, k)
  BY <1>3, LatestContents
<1>7. VersionsOf(c, k) \subseteq VersionsOf(d, k)
  BY <1>4, <1>6
<1>8. ASSUME RepeatsOn(c, k) PROVE RepeatsOn(d, k)
  <2>1. PICK m \in 1 .. Len(c), n \in 1 .. Len(c) :
           m + 1 < n /\ c[m][k] = c[n][k] /\ c[m + 1][k] # c[n][k]
    BY <1>8 DEF RepeatsOn
  <2>2. m \in 1 .. Len(d) /\ n \in 1 .. Len(d) /\ m + 1 \in 1 .. Len(c)
    BY <1>1, <1>2, <2>1
  <2>3. d[m] = c[m] /\ d[n] = c[n] /\ d[m + 1] = c[m + 1]
    BY <1>2, <2>1, <2>2
  <2>. QED  BY <2>1, <2>2, <2>3 DEF RepeatsOn
<1>9. ASSUME a[k] = c[Len(c)][k] PROVE Latest(d, k) = Latest(c, k)
  <2>1. Len(d) \notin VersionsOf(d, k)
    BY <1>5, <1>9
  <2>2. VersionsOf(d, k) \subseteq 1 .. Len(c)
    BY <1>1, <1>2, <1>6, <2>1
  <2>3. VersionsOf(d, k) = VersionsOf(c, k)
    BY <1>4, <1>6, <2>2
  <2>. QED  BY <2>3 DEF Latest
<1>10. ASSUME a[k] # c[Len(c)][k] PROVE Latest(d, k) = Len(d)
  <2>1. Len(d) \in VersionsOf(d, k)
    BY <1>5, <1>10
  <2>. QED  BY <1>1, <1>2, <1>6, <2>1
<1>. QED  BY <1>2, <1>3, <1>7, <1>8, <1>9, <1>10 DEF d

(* Tracks(c, o): account subscriber o shows a version of its account, and  *)
(* one that listens shows some.  Told(c, x, o, ns): what it shows is the   *)
(* newest, or it is about to be told, or subscribe() has missed it.        *)
Tracks(c, o) ==
    /\ o.slot # 0 => o.slot \in VersionsOf(c, o.key) /\ o.buffer = c[o.slot][o.key]
    /\ o.live => o.slot # 0

Told(c, x, o, ns) ==
    o.live /\ ~ RepeatsOn(c, o.key) =>
        \/ o.buffer = c[Len(c)][o.key]
        \/ Latest(c, o.key) =< o.since
        \/ [obj |-> x, slot |-> Latest(c, o.key)] \in ns

Seen(c, objects, ns) ==
    /\ \A x \in Objects : Tracks(c, objects[x]) /\ Told(c, x, objects[x], ns)
    /\ \A n \in ns : objects[n.obj].live => n.slot \in VersionsOf(c, objects[n.obj].key)

Informed ==
    /\ NeverClosed(chain)
    /\ Seen(chain, object, notices)
    /\ \A n \in notices : object[n.obj].live

LEMMA ChainFacts ==
    ASSUME SubscriberInv
    PROVE  /\ chain \in Chains /\ object \in [Objects -> ObjectType]
           /\ \A x \in Objects : object[x] \in ObjectType /\ object[x].key \in Keys
           /\ notices \in SUBSET [obj : Objects, slot : 1 .. Len(chain)]
           /\ \A k : Versions(k) = VersionsOf(chain, k)
BY DEF SubscriberInv, Wired, Types, Chains, ObjectType, Versions, VersionsOf

(* An answer or a notice, whichever version it brings, does not take the   *)
(* newest contents away, and shows them if it is of the last version.      *)
LEMMA HandledTracks ==
    ASSUME SubscriberInv, NEW o \in ObjectType, Tracks(chain, o),
           NEW n \in VersionsOf(chain, o.key)
    PROVE  LET o2 == handleRpcResponse(o, n)
           IN /\ o2.key = o.key /\ o2.live = o.live /\ o2.since = o.since
              /\ o2.slot # 0 /\ Tracks(chain, o2)
              /\ o.live /\ ~ RepeatsOn(chain, o.key) /\ o.buffer = chain[Len(chain)][o.key]
                    => o2.buffer = chain[Len(chain)][o.key]
              /\ o.live /\ NeverClosed(chain) /\ n = Latest(chain, o.key)
                    => o2.buffer = chain[Len(chain)][o.key]
<1>. DEFINE o2 == handleRpcResponse(o, n)
            k == o.key
            V == VersionsOf(chain, k)
            newest == chain[Len(chain)][k]
<1>1. chain \in Chains /\ k \in Keys /\ o.slot \in Nat
  BY ChainFacts DEF ObjectType
<1>2. PICK last : last = Latest(chain, k)
  OBVIOUS
<1>3. /\ last \in V /\ V \subseteq 1 .. Len(chain) /\ \A m \in V : m =< last
      /\ chain[last][k] = newest /\ n \in V /\ V \subseteq Nat \ {0}
  BY <1>1, <1>2, LatestContents
<1>4. /\ o.slot # 0 => o.slot \in V /\ o.buffer = chain[o.slot][k]
      /\ o.live => o.slot # 0
  BY DEF Tracks
<1>5. /\ o.slot = 0 \/ (n > o.slot /\ chain[n][k] # NoData /\ chain[n][k] # o.buffer)
            => o2 = [o EXCEPT !.slot = n, !.buffer = chain[n][k]]
      /\ ~ (o.slot = 0 \/ (n > o.slot /\ chain[n][k] # NoData /\ chain[n][k] # o.buffer))
            => o2 = o
  BY DEF handleRpcResponse
<1>6. /\ o2.key = k /\ o2.live = o.live /\ o2.since = o.since
      /\ o2 # o => o2.slot = n /\ o2.buffer = chain[n][k] /\ (o.slot = 0 \/ n > o.slot)
      /\ n > o.slot /\ chain[n][k] # NoData /\ chain[n][k] # o.buffer => o2.buffer = chain[n][k]
  BY <1>5 DEF ObjectType
<1>. HIDE DEF o2, V, newest
<1>7. o2.slot # 0 /\ o2.slot \in V /\ o2.buffer = chain[o2.slot][k]
  <2>1. CASE o2 # o
    BY <1>3, <1>6, <2>1
  <2>2. CASE o2 = o
    <3>1. o.slot # 0
      BY <1>3, <1>5, <2>2 DEF ObjectType
    <3>. QED  BY <1>4, <2>2, <3>1
  <2>. QED  BY <2>1, <2>2
<1>8. Tracks(chain, o2)
  BY <1>6, <1>7 DEF Tracks, V
<1>9. ASSUME o.live, ~ RepeatsOn(chain, k), o.buffer = newest PROVE o2.buffer = newest
  <2>1. o.slot \in V /\ chain[o.slot][k] = newest
    BY <1>4, <1>9
  <2>2. o.slot = last
    BY <1>1, <1>2, <1>9, <2>1, LatestAlone DEF V, newest
  <2>3. ~ (n > o.slot) /\ o.slot # 0
    BY <1>3, <2>2
  <2>. QED  BY <1>6, <1>9, <2>3
<1>10. ASSUME o.live, NeverClosed(chain), n = last PROVE o2.buffer = newest
  <2>1. o.slot # 0 /\ o.slot \in V /\ o.buffer = chain[o.slot][k] /\ o.slot =< last
    BY <1>3, <1>4, <1>10
  <2>2. CASE o.slot = last
    BY <1>3, <1>6, <1>10, <2>1, <2>2
  <2>3. CASE o.slot # last
    <3>1. n > o.slot /\ last # 1
      BY <1>1, <1>3, <1>10, <2>1, <2>3
    <3>2. chain[n][k] # NoData
      BY <1>1, <1>2, <1>10, <3>1, LatestExists
    <3>3. CASE o2 = o
      BY <1>3, <1>6, <1>10, <3>1, <3>2, <3>3
    <3>4. CASE o2 # o
      BY <1>3, <1>6, <1>10, <3>4
    <3>. QED  BY <3>3, <3>4
  <2>. QED  BY <2>2, <2>3
<1>. QED  BY <1>2, <1>6, <1>7, <1>8, <1>9, <1>10 DEF o2, newest

(* Steps of a call make account subscribers, silence them or leave them    *)
(* alone; collecting takes no listener away and drops no notice for one.   *)
Quiet(o2, o) ==
    \/ o2 = o
    \/ /\ ~ o2.live
       /\ o2.slot # 0 => o2.key = o.key /\ o2.slot = o.slot /\ o2.buffer = o.buffer

LEMMA QuietSeen ==
    ASSUME SubscriberInv, Informed, NEW objects,
           \A x \in Objects : Quiet(objects[x], object[x])
    PROVE  Seen(chain, objects, notices)
<1>1. \A x \in Objects : Tracks(chain, object[x]) /\ Told(chain, x, object[x], notices)
  BY DEF Informed, Seen
<1>2. ASSUME NEW x \in Objects
      PROVE  Tracks(chain, objects[x]) /\ Told(chain, x, objects[x], notices)
  <2>1. CASE objects[x] = object[x]
    BY <1>1, <2>1
  <2>2. CASE objects[x] # object[x]
    <3>1. /\ ~ objects[x].live
          /\ objects[x].slot # 0 => /\ objects[x].key = object[x].key
                                    /\ objects[x].slot = object[x].slot
                                    /\ objects[x].buffer = object[x].buffer
      BY <2>2 DEF Quiet
    <3>. QED  BY <1>1, <3>1 DEF Tracks, Told
  <2>. QED  BY <2>1, <2>2
<1>3. ASSUME NEW n \in notices, objects[n.obj].live
      PROVE  n.slot \in VersionsOf(chain, objects[n.obj].key)
  <2>1. n.obj \in Objects
    BY ChainFacts
  <2>2. objects[n.obj] = object[n.obj]
    BY <1>3, <2>1 DEF Quiet
  <2>. QED  BY <1>3, <2>2 DEF Informed, Seen
<1>. QED  BY <1>2, <1>3 DEF Seen

LEMMA CollectedTracks ==
    ASSUME NEW s, NEW c, NEW objects, NEW reqs, NEW d, NEW ns, NEW x \in Objects,
           Tracks(d, objects[x]), Told(d, x, objects[x], ns)
    PROVE  LET kept == Collected(s, c, objects, reqs)
           IN /\ Tracks(d, kept[x]) /\ Told(d, x, kept[x], ns)
              /\ kept[x] \in {objects[x], Free}
              /\ objects[x].live => kept[x] = objects[x]
<1>1. /\ Collected(s, c, objects, reqs)[x] \in {objects[x], Free}
      /\ objects[x].live => Collected(s, c, objects, reqs)[x] = objects[x]
  BY DEF Collected
<1>2. Free.slot = 0 /\ ~ Free.live
  BY DEF Free
<1>3. Tracks(d, Free) /\ Told(d, x, Free, ns)
  BY <1>2 DEF Tracks, Told
<1>. QED  BY <1>1, <1>3

LEMMA BecomeInformed ==
    ASSUME SubscriberInv, Informed, NEW s, NEW c, NEW objects,
           Seen(chain, objects, notices), Become(s, c, objects), UNCHANGED chain
    PROVE  Informed'
<1>1. /\ object' = Collected(s, c, objects, requests)
      /\ notices' = {n \in notices : objects[n.obj].live}
  BY DEF Become
<1>2. /\ \A x \in Objects : Tracks(chain, objects[x]) /\ Told(chain, x, objects[x], notices)
      /\ \A n \in notices : objects[n.obj].live => n.slot \in VersionsOf(chain, objects[n.obj].key)
      /\ \A n \in notices : n.obj \in Objects
  BY ChainFacts DEF Seen
<1>3. ASSUME NEW x \in Objects
      PROVE  /\ Tracks(chain, object'[x]) /\ Told(chain, x, object'[x], notices)
             /\ object'[x] \in {objects[x], Free}
             /\ objects[x].live => object'[x] = objects[x]
  <2>1. Tracks(chain, objects[x]) /\ Told(chain, x, objects[x], notices)
    BY <1>2
  <2>2. LET kept == Collected(s, c, objects, requests)
        IN /\ Tracks(chain, kept[x]) /\ Told(chain, x, kept[x], notices)
           /\ kept[x] \in {objects[x], Free}
           /\ objects[x].live => kept[x] = objects[x]
    BY <2>1, CollectedTracks, Zenon
  <2>. QED  BY <1>1, <2>2
<1>4. ASSUME NEW x \in Objects PROVE Told(chain, x, object'[x], notices')
  <2>. SUFFICES ASSUME object'[x].live, ~ RepeatsOn(chain, object'[x].key),
                       [obj |-> x, slot |-> Latest(chain, object'[x].key)] \in notices
                PROVE  [obj |-> x, slot |-> Latest(chain, object'[x].key)] \in notices'
    BY <1>3 DEF Told
  <2>1. objects[x].live
    BY <1>3, FreeType
  <2>. QED  BY <1>1, <2>1
<1>5. ASSUME NEW n \in notices'
      PROVE  object'[n.obj].live /\ n.slot \in VersionsOf(chain, object'[n.obj].key)
  <2>1. n \in notices /\ objects[n.obj].live /\ n.obj \in Objects
    BY <1>1, <1>2
  <2>2. object'[n.obj] = objects[n.obj]
    BY <1>3, <2>1
  <2>. QED  BY <1>2, <2>1, <2>2
<1>6. Seen(chain, object', notices')
  BY <1>3, <1>4, <1>5 DEF Seen
<1>. QED  BY <1>5, <1>6 DEF Informed

LEMMA QuietStep ==
    ASSUME SubscriberInv, Informed, NEW s, NEW c, NEW objects,
           \A x \in Objects : Quiet(objects[x], object[x]), Become(s, c, objects), UNCHANGED chain
    PROVE  Informed'
BY QuietSeen, BecomeInformed

LEMMA NextRoleInformed ==
    ASSUME SubscriberInv, Informed, NextRole
    PROVE  Informed'
<1>. DEFINE r == Head(call.todo)
            o == NewObject(object)
            s == [sub EXCEPT !.of[r] = IF r \in Markets THEN @ ELSE o]
            c == [call EXCEPT !.todo = Tail(@), !.obj = o, !.role = r]
            new == [Free EXCEPT !.used = TRUE, !.key = KeyOf(r)]
            objects == [object EXCEPT ![o] = new]
<1>1. Become(s, c, objects) /\ UNCHANGED chain
  BY DEF NextRole, begin_role
<1>2. ~ new.live /\ new.slot = 0
  BY DEF Free
<1>3. object \in [Objects -> ObjectType]
  BY ChainFacts
<1>. HIDE DEF s, c, new, o
<1>4. \A x \in Objects : objects[x] = object[x] \/ objects[x] = new
  BY <1>3
<1>5. \A x \in Objects : Quiet(objects[x], object[x])
  BY <1>2, <1>4 DEF Quiet
<1>. HIDE DEF objects
<1>. QED  BY <1>1, <1>5, QuietStep

(* unsubscribe() of an account subscriber.                                 *)
LEMMA UnsubscribedQuiet ==
    ASSUME SubscriberInv, NEW o
    PROVE  \A x \in Objects : Quiet([object EXCEPT ![o] = unsubscribed(@)][x], object[x])
<1>1. object \in [Objects -> ObjectType]
  BY ChainFacts
<1>2. ASSUME NEW x \in Objects
      PROVE  Quiet([object EXCEPT ![o] = unsubscribed(@)][x], object[x])
  <2>1. CASE x # o
    <3>1. [object EXCEPT ![o] = unsubscribed(@)][x] = object[x]
      BY <1>1, <2>1
    <3>. QED  BY <3>1 DEF Quiet
  <2>2. CASE x = o
    <3>1. [object EXCEPT ![o] = unsubscribed(@)][x] = unsubscribed(object[x])
      BY <1>1, <2>2
    <3>2. object[x] \in ObjectType
      BY <1>1
    <3>3. Quiet(unsubscribed(object[x]), object[x])
      BY <3>2 DEF Quiet, unsubscribed, ObjectType
    <3>. QED  BY <3>1, <3>3
  <2>. QED  BY <2>1, <2>2
<1>. QED  BY <1>2

(* The account subscriber whose fetch is answered gets its listener now:   *)
(* what it has not seen by now is what subscribe() misses.                 *)
LEMMA RoleFetchedInformed ==
    ASSUME SubscriberInv, Informed, RoleFetched
    PROVE  Informed'
<1>. DEFINE o == call.obj
            s == [sub EXCEPT !.of[call.role] = o]
            c == [call EXCEPT !.obj = 0]
<1>1. PICK n \in Versions(object[o].key) :
         Become(s, c, [object EXCEPT ![o] = onAccountChange(handleRpcResponse(@, n))])
  BY DEF RoleFetched
<1>. DEFINE answered == handleRpcResponse(object[o], n)
            new == onAccountChange(answered)
            objects == [object EXCEPT ![o] = new]
<1>2. o \in Objects /\ object[o] \in ObjectType /\ object \in [Objects -> ObjectType]
      /\ object[o].key \in Keys /\ chain \in Chains
  <2>1. o \in 0 .. MaxObjects /\ o # 0
    BY DEF SubscriberInv, Wired, Types, CallType, RoleFetched
  <2>. QED  BY <2>1, ChainFacts, ConstantFacts
<1>3. n \in VersionsOf(chain, object[o].key) /\ Tracks(chain, object[o])
      /\ \A k : Versions(k) = VersionsOf(chain, k)
  BY <1>2, ChainFacts DEF Informed, Seen
<1>4. n \in 1 .. Len(chain)
  BY <1>2, <1>3, LatestContents
<1>5. answered \in ObjectType
  BY <1>2, <1>4, Handled
<1>6. answered.key = object[o].key /\ answered.slot # 0 /\ Tracks(chain, answered)
  BY <1>2, <1>3, HandledTracks
<1>. HIDE DEF answered
<1>7. /\ new.key = object[o].key /\ new.slot = answered.slot /\ new.buffer = answered.buffer
      /\ new.since = Latest(chain, object[o].key)
  BY <1>3, <1>5, <1>6 DEF onAccountChange, ObjectType, Latest
<1>8. Latest(chain, object[o].key) \in Nat
  BY <1>2, LatestContents
<1>. HIDE DEF new
<1>9. Tracks(chain, new) /\ Told(chain, o, new, notices)
  BY <1>6, <1>7, <1>8 DEF Tracks, Told
<1>10. objects[o] = new /\ \A x \in Objects \ {o} : objects[x] = object[x]
  BY <1>2
<1>11. objects = [object EXCEPT ![o] = onAccountChange(handleRpcResponse(@, n))]
  BY DEF new, answered
<1>. HIDE DEF objects
<1>12. Seen(chain, objects, notices)
  <2>1. \A x \in Objects : Tracks(chain, objects[x]) /\ Told(chain, x, objects[x], notices)
    BY <1>9, <1>10 DEF Informed, Seen
  <2>2. ASSUME NEW m \in notices PROVE m.slot \in VersionsOf(chain, objects[m.obj].key)
    <3>1. m.obj \in Objects /\ m.slot \in VersionsOf(chain, object[m.obj].key)
      BY ChainFacts DEF Informed, Seen
    <3>2. objects[m.obj].key = object[m.obj].key
      BY <1>7, <1>10, <3>1
    <3>. QED  BY <3>1, <3>2
  <2>. QED  BY <2>1, <2>2 DEF Seen
<1>13. Become(s, c, objects) /\ UNCHANGED chain
  BY <1>1, <1>11 DEF RoleFetched
<1>. HIDE DEF s, c
<1>. QED  BY <1>12, <1>13, BecomeInformed

-----------------------------------------------------------------------------
(* Answers of fetch(), notices and slots.                                  *)

LEMMA FetchedInformed ==
    ASSUME SubscriberInv, Informed, NEW o \in requests, NEW n \in Versions(object[o].key),
           Fetched(o, n)
    PROVE  Informed'
<1>. DEFINE new == handleRpcResponse(object[o], n)
            objects == [object EXCEPT ![o] = new]
            kept == Collected(sub, call, objects, requests \ {o})
<1>1. o \in Objects /\ object[o] \in ObjectType /\ object \in [Objects -> ObjectType]
  BY ChainFacts DEF SubscriberInv, Wired, Types
<1>2. /\ n \in VersionsOf(chain, object[o].key)
      /\ Tracks(chain, object[o]) /\ Told(chain, o, object[o], notices)
  BY <1>1, ChainFacts DEF Informed, Seen
<1>3. /\ new.key = object[o].key /\ new.live = object[o].live /\ new.since = object[o].since
      /\ Tracks(chain, new)
      /\ object[o].live /\ ~ RepeatsOn(chain, object[o].key)
            /\ object[o].buffer = chain[Len(chain)][object[o].key]
            => new.buffer = chain[Len(chain)][object[o].key]
  BY <1>1, <1>2, HandledTracks
<1>4. /\ object' = kept /\ UNCHANGED <<chain, notices>>
  BY DEF Fetched
<1>. HIDE DEF new
<1>5. Told(chain, o, new, notices)
  BY <1>2, <1>3 DEF Told
<1>6. objects[o] = new /\ \A x \in Objects \ {o} : objects[x] = object[x]
  BY <1>1
<1>. HIDE DEF objects
<1>7. /\ \A x \in Objects : Tracks(chain, objects[x]) /\ Told(chain, x, objects[x], notices)
      /\ \A x \in Objects : objects[x].live = object[x].live /\ objects[x].key = object[x].key
  BY <1>3, <1>5, <1>6 DEF Informed, Seen
<1>8. ASSUME NEW x \in Objects
      PROVE  /\ Tracks(chain, kept[x]) /\ Told(chain, x, kept[x], notices)
             /\ objects[x].live => kept[x] = objects[x]
  <2>1. Tracks(chain, objects[x]) /\ Told(chain, x, objects[x], notices)
    BY <1>7
  <2>. QED  BY <2>1, CollectedTracks, Zenon
<1>. HIDE DEF kept
<1>9. ASSUME NEW m \in notices
      PROVE  kept[m.obj].live /\ m.slot \in VersionsOf(chain, kept[m.obj].key)
  <2>1. /\ m.obj \in Objects /\ object[m.obj].live
        /\ m.slot \in VersionsOf(chain, object[m.obj].key)
    BY ChainFacts DEF Informed, Seen
  <2>2. kept[m.obj] = objects[m.obj]
    BY <1>7, <1>8, <2>1
  <2>. QED  BY <1>7, <2>1, <2>2
<1>10. Seen(chain, kept, notices)
  BY <1>8, <1>9 DEF Seen
<1>. QED  BY <1>4, <1>9, <1>10 DEF Informed

LEMMA DeliveredInformed ==
    ASSUME SubscriberInv, Informed, NEW n \in notices, Delivered(n)
    PROVE  Informed'
<1>. DEFINE o == n.obj
            new == handleRpcResponse(object[o], n.slot)
            objects == [object EXCEPT ![o] = new]
            left == notices \ {n}
<1>1. /\ o \in Objects /\ object[o] \in ObjectType /\ object \in [Objects -> ObjectType]
      /\ n \in [obj : Objects, slot : 1 .. Len(chain)]
  BY ChainFacts
<1>2. /\ n.slot \in VersionsOf(chain, object[o].key) /\ object[o].live
      /\ Tracks(chain, object[o]) /\ Told(chain, o, object[o], notices) /\ NeverClosed(chain)
  BY <1>1 DEF Informed, Seen
<1>3. /\ new.key = object[o].key /\ new.live = object[o].live /\ new.since = object[o].since
      /\ Tracks(chain, new)
      /\ object[o].live /\ ~ RepeatsOn(chain, object[o].key)
            /\ object[o].buffer = chain[Len(chain)][object[o].key]
            => new.buffer = chain[Len(chain)][object[o].key]
      /\ n.slot = Latest(chain, object[o].key) => new.buffer = chain[Len(chain)][object[o].key]
  BY <1>1, <1>2, HandledTracks
<1>4. object' = objects /\ notices' = left /\ UNCHANGED chain
  BY DEF Delivered
<1>. HIDE DEF new
<1>5. Told(chain, o, new, left)
  <2>1. n = [obj |-> o, slot |-> Latest(chain, object[o].key)]
           => n.slot = Latest(chain, object[o].key)
    BY <1>1
  <2>. QED  BY <1>2, <1>3, <2>1 DEF Told
<1>6. objects[o] = new /\ \A x \in Objects \ {o} : objects[x] = object[x]
  BY <1>1
<1>. HIDE DEF objects
<1>7. ASSUME NEW x \in Objects \ {o} PROVE Told(chain, x, objects[x], left)
  <2>1. Told(chain, x, object[x], notices)
    BY DEF Informed, Seen
  <2>2. n # [obj |-> x, slot |-> Latest(chain, object[x].key)]
    BY <1>7
  <2>. QED  BY <1>6, <2>1, <2>2 DEF Told
<1>8. \A x \in Objects : Tracks(chain, objects[x])
  BY <1>3, <1>6 DEF Informed, Seen
<1>9. ASSUME NEW m \in left
      PROVE  objects[m.obj].live /\ m.slot \in VersionsOf(chain, objects[m.obj].key)
  <2>1. /\ m.obj \in Objects /\ object[m.obj].live
        /\ m.slot \in VersionsOf(chain, object[m.obj].key)
    BY ChainFacts DEF Informed, Seen
  <2>. QED  BY <1>3, <1>6, <2>1
<1>10. Seen(chain, objects, left)
  BY <1>5, <1>6, <1>7, <1>8, <1>9 DEF Seen
<1>. QED  BY <1>2, <1>4, <1>9, <1>10 DEF Informed

(* A prefix of a history closes no account either.                         *)
LEMMA PrefixNeverClosed ==
    ASSUME NEW c \in Chains, NEW h \in Histories, IsPrefix(c, h)
    PROVE  NeverClosed(c)
<1>1. h \in Seq([Keys -> Data \cup {NoData}]) /\ c \in Seq([Keys -> Data \cup {NoData}])
      /\ Len(c) \in Nat
  BY SubscriberAssumption DEF Chains
<1>2. Len(c) =< Len(h) /\ SubSeq(c, 1, Len(c)) = SubSeq(h, 1, Len(c))
  BY DEF IsPrefix
<1>3. ASSUME NEW i \in 1 .. Len(c) PROVE c[i] = h[i]
  <2>1. SubSeq(c, 1, Len(c))[i] = c[i] /\ SubSeq(h, 1, Len(c))[i] = h[i]
    BY <1>1, <1>2
  <2>. QED  BY <1>2, <2>1
<1>4. ASSUME NEW n \in 2 .. Len(c), NEW k \in Keys, c[n - 1][k] # NoData PROVE c[n][k] # NoData
  <2>1. n \in 1 .. Len(c) /\ n - 1 \in 1 .. Len(c) /\ n \in 2 .. Len(h)
    BY <1>1, <1>2
  <2>2. c[n] = h[n] /\ c[n - 1] = h[n - 1]
    BY <1>3, <2>1
  <2>. QED  BY <1>4, <2>1, <2>2, HistoryAssumption
<1>. QED  BY <1>4 DEF NeverClosed

(* Who listens is told of new contents; the others have missed nothing.    *)
LEMMA NewSlotInformed ==
    ASSUME SubscriberInv, Informed, NEW a \in [Keys -> Data \cup {NoData}], NewSlot(a)
    PROVE  Informed'
<1>. DEFINE d == Append(chain, a)
            told == {[obj |-> o, slot |-> Now + 1] :
                        o \in {x \in Objects : object[x].live
                                   /\ a[object[x].key] # chain[Now][object[x].key]}}
            ns == notices \cup told
<1>1. /\ chain \in Chains /\ object \in [Objects -> ObjectType]
      /\ \A x \in Objects : object[x].key \in Keys
  BY ChainFacts
<1>2. chain' = d /\ notices' = ns /\ UNCHANGED object
  BY DEF NewSlot
<1>3. PICK h \in Histories : IsPrefix(d, h)
  BY DEF NewSlot
<1>4. ASSUME NEW k \in Keys
      PROVE  /\ d \in Chains /\ Len(d) = Len(chain) + 1 /\ d[Len(d)] = a
             /\ \A n \in 1 .. Len(chain) : d[n] = chain[n]
             /\ VersionsOf(chain, k) \subseteq VersionsOf(d, k)
             /\ VersionsOf(chain, k) \subseteq 1 .. Len(chain)
             /\ RepeatsOn(chain, k) => RepeatsOn(d, k)
             /\ a[k] = chain[Len(chain)][k] => Latest(d, k) = Latest(chain, k)
             /\ a[k] # chain[Len(chain)][k] => Latest(d, k) = Len(d)
  BY <1>1, OneSlotMore, LatestContents
<1>. HIDE DEF d
<1>5. d \in Chains
  BY <1>4, ConstantFacts
<1>6. NeverClosed(d)
  BY <1>3, <1>5, PrefixNeverClosed
<1>7. ASSUME NEW x \in Objects PROVE Tracks(d, object[x]) /\ Told(d, x, object[x], ns)
  <2>. DEFINE k == object[x].key
  <2>1. k \in Keys /\ Tracks(chain, object[x]) /\ Told(chain, x, object[x], notices)
    BY <1>1 DEF Informed, Seen
  <2>2. Tracks(d, object[x])
    BY <1>4, <2>1 DEF Tracks
  <2>3. CASE a[k] = chain[Len(chain)][k]
    <3>1. /\ RepeatsOn(chain, k) => RepeatsOn(d, k)
          /\ Latest(d, k) = Latest(chain, k) /\ d[Len(d)][k] = chain[Len(chain)][k]
      BY <1>4, <2>1, <2>3
    <3>. QED  BY <2>1, <2>2, <3>1 DEF Told
  <2>4. CASE a[k] # chain[Len(chain)][k]
    <3>1. object[x].live => [obj |-> x, slot |-> Now + 1] \in told
      BY <2>4 DEF Now
    <3>2. Latest(d, k) = Now + 1
      BY <1>4, <2>1, <2>4 DEF Now
    <3>. QED  BY <2>2, <3>1, <3>2 DEF Told
  <2>. QED  BY <2>2, <2>3, <2>4
<1>8. ASSUME NEW n \in notices
      PROVE  object[n.obj].live /\ n.slot \in VersionsOf(d, object[n.obj].key)
  <2>1. /\ n.obj \in Objects /\ object[n.obj].live
        /\ n.slot \in VersionsOf(chain, object[n.obj].key)
    BY ChainFacts DEF Informed, Seen
  <2>2. object[n.obj].key \in Keys
    BY <1>1, <2>1
  <2>. QED  BY <1>4, <2>1, <2>2
<1>9. ASSUME NEW n \in told
      PROVE  object[n.obj].live /\ n.slot \in VersionsOf(d, object[n.obj].key)
  <2>1. PICK x \in Objects : /\ object[x].live /\ a[object[x].key] # chain[Now][object[x].key]
                             /\ n = [obj |-> x, slot |-> Now + 1]
    OBVIOUS
  <2>2. object[x].key \in Keys /\ n.obj = x /\ n.slot = Now + 1
    BY <1>1, <2>1
  <2>3. Latest(d, object[x].key) = Now + 1
    BY <1>4, <2>1, <2>2 DEF Now
  <2>4. Latest(d, object[x].key) \in VersionsOf(d, object[x].key)
    BY <1>5, <2>2, LatestContents
  <2>. QED  BY <2>1, <2>2, <2>3, <2>4
<1>. HIDE DEF told
<1>10. Seen(d, object, ns)
  BY <1>7, <1>8, <1>9 DEF Seen
<1>. QED  BY <1>2, <1>6, <1>8, <1>9, <1>10 DEF Informed

(* What is lost with the connection was the newest, or makes no            *)
(* difference.                                                             *)
LEMMA ReconnectInformed ==
    ASSUME SubscriberInv, Informed, Reconnect
    PROVE  Informed'
<1>1. chain \in Chains /\ object \in [Objects -> ObjectType] /\ UNCHANGED chain /\ notices' = {}
  BY ChainFacts DEF Reconnect
<1>2. ASSUME NEW x \in Objects
      PROVE  Tracks(chain, object'[x]) /\ Told(chain, x, object'[x], {})
  <2>. DEFINE latest == Latest(chain, object[x].key)
  <2>1. /\ object[x] \in ObjectType
        /\ Tracks(chain, object[x]) /\ Told(chain, x, object[x], notices)
    BY <1>1 DEF Informed, Seen
  <2>2. latest \in Nat
    BY <1>1, ChainFacts, LatestContents DEF Chains
  <2>3. Max(Versions(object[x].key)) = latest
    BY ChainFacts DEF Latest
  <2>4. object'[x] = IF [obj |-> x, slot |-> latest] \in notices
                     THEN [object[x] EXCEPT !.since = latest] ELSE object[x]
    BY <2>3 DEF Reconnect
  <2>5. CASE [obj |-> x, slot |-> latest] \in notices
    <3>1. /\ object'[x].key = object[x].key /\ object'[x].live = object[x].live
          /\ object'[x].slot = object[x].slot /\ object'[x].buffer = object[x].buffer
          /\ object'[x].since = latest
      BY <2>1, <2>4, <2>5 DEF ObjectType
    <3>. QED  BY <2>1, <2>2, <3>1 DEF Tracks, Told
  <2>6. CASE [obj |-> x, slot |-> latest] \notin notices
    BY <2>1, <2>4, <2>6 DEF Told
  <2>. QED  BY <2>5, <2>6
<1>3. Seen(chain, object', {})
  BY <1>2 DEF Seen
<1>. QED  BY <1>1, <1>3 DEF Informed

-----------------------------------------------------------------------------
LEMMA InformedInitially == Init => Informed
<1>. SUFFICES ASSUME Init PROVE Informed
  OBVIOUS
<1>1. Len(chain) = 1
  BY DEF Init
<1>2. NeverClosed(chain)
  BY <1>1 DEF NeverClosed
<1>3. \A x \in Objects : object[x] = Free
  BY DEF Init
<1>4. \A x \in Objects : ~ object[x].live /\ object[x].slot = 0
  BY <1>3 DEF Free
<1>5. Seen(chain, object, notices)
  BY <1>4 DEF Init, Seen, Tracks, Told
<1>. QED  BY <1>2, <1>5 DEF Init, Informed

LEMMA InformedStep == SubscriberInv /\ Informed /\ [Next]_vars => Informed'
<1>. SUFFICES ASSUME SubscriberInv, Informed, [Next]_vars PROVE Informed'
  OBVIOUS
<1>1. \A x \in Objects : Quiet(object[x], object[x])
  BY DEF Quiet
<1>2. ASSUME NEW s, NEW c, Become(s, c, object), UNCHANGED chain PROVE Informed'
  BY <1>1, <1>2, QuietStep
<1>3. ASSUME UNCHANGED <<chain, object, notices>> PROVE Informed'
  BY <1>3 DEF Informed
<1>4. ASSUME NEW by \in Callers, subscribe(by) PROVE Informed'
  <2>1. CASE UNCHANGED <<chain, object, notices>>
    BY <1>3, <2>1
  <2>2. CASE /\ UNCHANGED chain
             /\ Become([sub EXCEPT !.isSubscribing = TRUE],
                       [NoCall EXCEPT !.op = "subscribe", !.by = by,
                                      !.todo = <<"state", "user">> \o sub.marketIndexes], object)
    BY <1>2, <2>2
  <2>. QED  BY <1>4, <2>1, <2>2 DEF subscribe
<1>5. CASE NextRole
  BY <1>5, NextRoleInformed
<1>6. CASE RoleFetched
  BY <1>6, RoleFetchedInformed
<1>7. CASE RoleFails
  BY <1>2, <1>7 DEF RoleFails
<1>8. CASE SubscribeDone
  BY <1>2, <1>8 DEF SubscribeDone
<1>9. CASE ChangeDone
  BY <1>2, <1>9 DEF ChangeDone
<1>10. ASSUME NEW a \in Authorities, NEW u \in UserIds, updateUser(a, u) PROVE Informed'
  <2>. DEFINE objects == [object EXCEPT ![sub.of["user"]] = unsubscribed(@)]
              s == [sub EXCEPT !.authority = a, !.userId = u]
              c == [NoCall EXCEPT !.op = "update", !.todo = <<"user">>]
  <2>1. Become(s, c, objects) /\ UNCHANGED chain
    BY <1>10 DEF updateUser, unsubscribeFromUserAccounts
  <2>2. \A x \in Objects : Quiet(objects[x], object[x])
    BY UnsubscribedQuiet
  <2>. HIDE DEF objects, s, c
  <2>. QED  BY <2>1, <2>2, QuietStep
<1>11. ASSUME NEW m \in Markets, addMarket(m) PROVE Informed'
  BY <1>2, <1>11 DEF addMarket
<1>12. CASE unsubscribe
  BY <1>2, <1>12 DEF unsubscribe
<1>13. CASE NextUnsubscribed
  <2>. DEFINE objects == [object EXCEPT ![sub.of[Head(call.todo)]] = unsubscribed(@)]
              c == [call EXCEPT !.todo = Tail(@)]
  <2>1. Become(sub, c, objects) /\ UNCHANGED chain
    BY <1>13 DEF NextUnsubscribed
  <2>2. \A x \in Objects : Quiet(objects[x], object[x])
    BY UnsubscribedQuiet
  <2>. HIDE DEF objects, c
  <2>. QED  BY <2>1, <2>2, QuietStep
<1>14. CASE UnsubscribeDone
  BY <1>2, <1>14 DEF UnsubscribeDone
<1>15. CASE fetch
  BY <1>3, <1>15 DEF fetch
<1>16. ASSUME NEW o \in requests, NEW n \in Versions(object[o].key), Fetched(o, n)
       PROVE  Informed'
  BY <1>16, FetchedInformed
<1>17. ASSUME NEW n \in notices, Delivered(n) PROVE Informed'
  BY <1>17, DeliveredInformed
<1>18. ASSUME NEW h \in Histories, Now < Len(h), NewSlot(h[Now + 1]) PROVE Informed'
  <2>1. h \in Seq([Keys -> Data \cup {NoData}]) /\ Len(chain) \in Nat
    BY SubscriberAssumption DEF SubscriberInv
  <2>2. h[Now + 1] \in [Keys -> Data \cup {NoData}]
    BY <1>18, <2>1 DEF Now
  <2>. QED  BY <1>18, <2>2, NewSlotInformed
<1>19. CASE Reconnect
  BY <1>19, ReconnectInformed
<1>20. CASE UNCHANGED vars
  BY <1>3, <1>20 DEF vars
<1>. QED
  BY <1>4, <1>5, <1>6, <1>7, <1>8, <1>9, <1>10, <1>11, <1>12, <1>13, <1>14, <1>15, <1>16, <1>17,
     <1>18, <1>19, <1>20, Zenon DEF Next

(* An account subscriber that listens shows the newest contents of its     *)
(* account once every answer and notice of it is handled, in whatever      *)
(* order handleRpcResponse gets them, or what it lacks is the change       *)
(* between the fetch of subscribe() and onAccountChange, of which nobody   *)
(* is told, or one whose notice was lost with the connection.              *)
THEOREM OnlyTheGapMissed == Spec => []MissesOnlyTheGap
<1>1. SubscriberInv /\ Informed => MissesOnlyTheGap
  <2>. SUFFICES ASSUME SubscriberInv, Informed, NEW o \in Objects, object[o].live,
                       ~ Repeats(object[o].key), \A n \in notices : n.obj # o
                PROVE  \/ Shown(o) = chain[Now][object[o].key]
                       \/ Max(Versions(object[o].key)) <= object[o].since
    BY Zenon DEF MissesOnlyTheGap
  <2>1. ~ RepeatsOn(chain, object[o].key)
    BY DEF Repeats, RepeatsOn, Now
  <2>2. Max(Versions(object[o].key)) = Latest(chain, object[o].key)
    BY ChainFacts DEF Latest
  <2>3. [obj |-> o, slot |-> Latest(chain, object[o].key)] \notin notices
    OBVIOUS
  <2>4. Told(chain, o, object[o], notices)
    BY DEF Informed, Seen
  <2>. QED  BY <2>1, <2>2, <2>3, <2>4 DEF Told, Shown, Now
<1>. QED  BY <1>1, SubscriberAlways, InformedInitially, InformedStep, PTL DEF Spec
=============================================================================
