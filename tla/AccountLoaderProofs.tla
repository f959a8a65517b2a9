------------------------ MODULE AccountLoaderProofs -------------------------
(***************************************************************************)
(* The loader's callbacks belong to subscribers that can remove them, and  *)
(* what a subscriber shows only advances, for any number of subscribers,   *)
(* accounts, loads and slots, any size of a chunk and any number of        *)
(* retries.                                                                *)
(***************************************************************************)
EXTENDS AccountLoader, LibraryProofs, SequenceTheorems

-----------------------------------------------------------------------------
(* The invariant, of a loader and subscribers on the way through an action *)
(* as well as of the variables.                                            *)

BufferAndSlot == [slot : Nat, buffer : Data \cup {NoData}]
SubscriberType == [isSubscribed : BOOLEAN, callbackId : Nat, user : BufferAndSlot]
Pcs == {"idle", "derive", "subscribe", "subscribe_join", "fetch", "fetch_join"}
CallType == [pc : Pcs, load : Nat, retries : Nat]

IsLoader(L) ==
    L \in [accountsToLoad : {L.accountsToLoad}, callbacks : {L.callbacks},
           bufferAndSlotMap : [Accounts -> BufferAndSlot], polling : BOOLEAN,
           loadPromise : Nat, loadPromiseResolver : Nat, expired : BOOLEAN]

(* accountsToLoad is a Map: it has an account once.                        *)
EachOnce(entries) ==
    /\ entries \in Seq(ToSet(entries))
    /\ \A i, j \in DOMAIN entries : entries[i].account = entries[j].account => i = j

(* A callback is known to its owner, and stored with the entry of the      *)
(* owner's account; an entry without callbacks is removed at once.         *)
Owned(L, subs) ==
    /\ \A cb \in L.callbacks :
          /\ cb.owner \in Subscribers /\ cb.id \in CallbackIds
          /\ subs[cb.owner].callbackId = cb.id
          /\ cb.entry.account = AccountOf[cb.owner]
          /\ cb.entry \in ToSet(L.accountsToLoad)
    /\ EachOnce(L.accountsToLoad)
    /\ L.polling = (L.accountsToLoad # <<>>)
    /\ \A e \in ToSet(L.accountsToLoad) : \E cb \in L.callbacks : cb.entry = e

(* No subscriber is ahead of what the loader keeps of its account.         *)
Behind(L, subs) ==
    \A s \in Subscribers : subs[s].user.slot =< L.bufferAndSlotMap[AccountOf[s]].slot

Consistent(L, subs) ==
    /\ IsLoader(L)
    /\ subs \in [Subscribers -> SubscriberType]
    /\ Owned(L, subs)
    /\ Behind(L, subs)

Calls(c, subs) ==
    /\ c \in [Subscribers -> CallType]
    /\ \A s \in Subscribers : c[s].pc = "derive" => subs[s].callbackId = 0

LoaderInv ==
    /\ chain \in Seq([Accounts -> Data \cup {NoData}])
    /\ Consistent(loader, subscriber)
    /\ Calls(call, subscriber)

(* What a step may do to what is shown.                                    *)
Forward == \A s \in Subscribers : subscriber'[s].user.slot >= subscriber[s].user.slot

LEMMA IdFacts == CallbackIds \in SUBSET Nat /\ 0 \notin CallbackIds
<1>1. Cardinality(Subscribers) \in Nat
  BY LoaderAssumption, FS_CardinalityType
<1>. QED  BY <1>1 DEF CallbackIds

LEMMA SeqFacts ==
    ASSUME NEW S, NEW s \in Seq(S)
    PROVE  /\ Len(s) \in Nat /\ DOMAIN s = 1 .. Len(s) /\ s \in Seq(ToSet(s))
           /\ s = <<>> <=> ToSet(s) = {}
BY DEF ToSet

-----------------------------------------------------------------------------
(* addAccount and removeAccount.                                           *)

(* There is a callback id for one more subscriber: each of the others has  *)
(* one at most.                                                            *)
LEMMA FreeId ==
    ASSUME LoaderInv, NEW s \in Subscribers, subscriber[s].callbackId = 0
    PROVE  /\ \A cb \in loader.callbacks : cb.owner # s
           /\ Min(CallbackIds \ {cb.id : cb \in loader.callbacks}) \in CallbackIds
<1>. DEFINE ids == {cb.id : cb \in loader.callbacks}
            others == Subscribers \ {s}
            idOf == [o \in others |-> subscriber[o].callbackId]
            given == {idOf[o] : o \in others}
<1>1. \A cb \in loader.callbacks :
         /\ cb.owner \in Subscribers /\ cb.id \in CallbackIds
         /\ subscriber[cb.owner].callbackId = cb.id
  BY DEF LoaderInv, Consistent, Owned
<1>2. \A cb \in loader.callbacks : cb.owner # s
  BY <1>1, IdFacts
<1>3. ids \subseteq given
  BY <1>1, <1>2
<1>4. IsFiniteSet(Subscribers)
  BY LoaderAssumption
<1>5. /\ IsFiniteSet(others) /\ Cardinality(others) = Cardinality(Subscribers) - 1
      /\ Cardinality(Subscribers) \in Nat
  BY <1>4, FS_RemoveElement, FS_CardinalityType
<1>6. IsFiniteSet(given) /\ Cardinality(given) =< Cardinality(others)
  <2>1. idOf \in Surjection(others, given)
    BY DEF Surjection
  <2>. QED  BY <1>5, <2>1, FS_Surjection
<1>7. CallbackIds \ ids # {}
  <2>. SUFFICES ASSUME CallbackIds \subseteq given PROVE FALSE
    BY <1>3
  <2>1. Cardinality(CallbackIds) = Cardinality(Subscribers)
    BY <1>5, FS_Interval DEF CallbackIds
  <2>2. Cardinality(CallbackIds) =< Cardinality(given)
    BY <1>6, FS_Subset
  <2>3. Cardinality(given) \in Nat /\ Cardinality(others) \in Nat
    BY <1>5, <1>6, FS_CardinalityType
  <2>. QED  BY <1>5, <1>6, <2>1, <2>2, <2>3
<1>8. CallbackIds \ ids \in SUBSET Nat
  BY IdFacts
<1>9. Min(CallbackIds \ ids) \in CallbackIds \ ids
  BY <1>7, <1>8, MinInSet
<1>. QED  BY <1>2, <1>9

LEMMA EntryAdded ==
    ASSUME NEW entries, EachOnce(entries), NEW e, \A f \in ToSet(entries) : f.account # e.account
    PROVE  /\ EachOnce(Append(entries, e)) /\ Append(entries, e) # <<>>
           /\ ToSet(Append(entries, e)) = ToSet(entries) \cup {e}
<1>. DEFINE S == ToSet(entries)
            new == Append(entries, e)
            n == Len(entries)
<1>1. entries \in Seq(S)
  BY DEF EachOnce
<1>2. n \in Nat /\ DOMAIN entries = 1 .. n /\ \A i \in 1 .. n : entries[i] \in S
  BY <1>1, SeqFacts
<1>3. entries \in Seq(S \cup {e})
  BY <1>1
<1>4. /\ new \in Seq(S \cup {e}) /\ DOMAIN new = 1 .. n + 1 /\ new # <<>>
      /\ \A i \in 1 .. n : new[i] = entries[i]
      /\ new[n + 1] = e
  BY <1>3
<1>5. \A x \in S : \E i \in 1 .. n : entries[i] = x
  BY <1>2 DEF ToSet
<1>. HIDE DEF new, S
<1>6. ToSet(new) = S \cup {e}
  BY <1>2, <1>4, <1>5 DEF ToSet
<1>7. \A i, j \in DOMAIN new : new[i].account = new[j].account => i = j
  <2>1. \A i \in 1 .. n + 1 : i = n + 1 \/ i \in 1 .. n
    BY <1>2
  <2>2. \A i \in 1 .. n : new[i].account # e.account
    BY <1>2, <1>4 DEF S
  <2>. QED  BY <1>2, <1>4, <2>1, <2>2 DEF EachOnce
<1>. QED  BY <1>4, <1>6, <1>7 DEF EachOnce, new, S

LEMMA EntryRemoved ==
    ASSUME NEW entries, EachOnce(entries), NEW a
    PROVE  LET left == RemoveFirstMatch(entries, LAMBDA e : e.account = a)
           IN /\ EachOnce(left)
              /\ ToSet(left) = {e \in ToSet(entries) : e.account # a}
<1>. DEFINE S == ToSet(entries)
            n == Len(entries)
            I == {i \in 1 .. n : entries[i].account = a}
            left == RemoveFirstMatch(entries, LAMBDA e : e.account = a)
<1>1. /\ entries \in Seq(S) /\ n \in Nat /\ DOMAIN entries = 1 .. n
      /\ \A i \in 1 .. n : entries[i] \in S
      /\ \A x \in S : \E i \in 1 .. n : entries[i] = x
  BY DEF EachOnce, ToSet
<1>2. CASE I = {}
  <2>1. left = entries
    BY <1>2 DEF RemoveFirstMatch
  <2>2. \A e \in S : e.account # a
    BY <1>1, <1>2
  <2>. QED  BY <2>1, <2>2
<1>3. CASE I # {}
  <2>. DEFINE k == Min(I)
  <2>1. k \in I
    <3>1. I \in SUBSET Nat
      BY <1>1
    <3>. HIDE DEF I
    <3>. QED  BY <1>3, <3>1, MinInSet
  <2>2. left = RemoveAt(entries, k)
    BY <1>3 DEF RemoveFirstMatch, SelectInSeq
  <2>. HIDE DEF k, left
  <2>3. k \in 1 .. n /\ entries[k].account = a
    BY <2>1
  <2>4. left = SubSeq(entries, 1, k - 1) \o SubSeq(entries, k + 1, n)
    BY <2>2 DEF RemoveAt
  <2>5. /\ left \in Seq(S) /\ DOMAIN left = 1 .. n - 1
        /\ \A i \in 1 .. n - 1 : left[i] = entries[IF i < k THEN i ELSE i + 1]
    <3>. DEFINE before == SubSeq(entries, 1, k - 1)
                after == SubSeq(entries, k + 1, n)
    <3>1. /\ before \in Seq(S) /\ Len(before) = k - 1
          /\ \A i \in 1 .. k - 1 : before[i] = entries[i]
      BY <1>1, <2>3
    <3>2. /\ after \in Seq(S) /\ Len(after) = n - k
          /\ \A i \in 1 .. n - k : after[i] = entries[i + k]
      <4>. HIDE DEF S
      <4>1. /\ k + 1 \in Int /\ n \in Int /\ n - (k + 1) + 1 = n - k
            /\ \A i \in k + 1 .. n : entries[i] \in S
        BY <1>1, <2>3
      <4>2. /\ after \in Seq(S)
            /\ Len(after) = IF k + 1 <= n THEN n - (k + 1) + 1 ELSE 0
            /\ \A i \in 1 .. n - (k + 1) + 1 : after[i] = entries[(k + 1) + i - 1]
        BY <4>1, SubSeqProperties
      <4>. HIDE DEF after
      <4>3. Len(after) = n - k
        <5>1. Len(after) = IF k + 1 <= n THEN n - (k + 1) + 1 ELSE 0
          BY <4>2
        <5>2. k \in Int /\ n \in Int /\ k =< n
          BY <1>1, <2>3
        <5>. HIDE DEF n
        <5>. QED  BY <5>1, <5>2
      <4>4. ASSUME NEW i \in 1 .. n - k PROVE after[i] = entries[i + k]
        <5>1. i \in 1 .. n - (k + 1) + 1 /\ (k + 1) + i - 1 = i + k
          BY <1>1, <2>3
        <5>. QED  BY <4>2, <5>1
      <4>. QED  BY <4>2, <4>3, <4>4
    <3>. HIDE DEF before, after, S
    <3>3. /\ before \o after \in Seq(S) /\ Len(before \o after) = n - 1
          /\ DOMAIN (before \o after) = 1 .. n - 1
          /\ \A i \in 1 .. n - 1 : (before \o after)[i] =
                IF i < k THEN before[i] ELSE after[i - (k - 1)]
      <4>1. /\ before \o after \in Seq(S)
            /\ Len(before \o after) = Len(before) + Len(after)
            /\ \A i \in 1 .. Len(before) + Len(after) : (before \o after)[i] =
                  IF i <= Len(before) THEN before[i] ELSE after[i - Len(before)]
        BY <3>1, <3>2, ConcatProperties
      <4>2. Len(before) + Len(after) = n - 1
        BY <1>1, <2>3, <3>1, <3>2
      <4>. DEFINE t == before \o after
      <4>. HIDE DEF t
      <4>3. t \in Seq(S) /\ Len(t) = n - 1 /\ DOMAIN t = 1 .. n - 1
        BY <4>1, <4>2 DEF t
      <4>4. \A i \in 1 .. n - 1 : t[i] = IF i < k THEN before[i] ELSE after[i - (k - 1)]
        <5>1. \A i \in 1 .. n - 1 : t[i] = IF i <= k - 1 THEN before[i] ELSE after[i - (k - 1)]
          BY <3>1, <4>1, <4>2 DEF t
        <5>. QED  BY <1>1, <2>3, <5>1
      <4>. QED  BY <4>3, <4>4 DEF t
    <3>4. left = before \o after
      BY <2>4 DEF before, after
    <3>5. ASSUME NEW i \in 1 .. n - 1, i < k PROVE left[i] = entries[i]
      <4>1. i \in 1 .. k - 1
        BY <1>1, <2>3, <3>5
      <4>. QED  BY <3>1, <3>3, <3>4, <3>5, <4>1
    <3>6. ASSUME NEW i \in 1 .. n - 1, ~ (i < k) PROVE left[i] = entries[i + 1]
      <4>1. i - (k - 1) \in 1 .. n - k /\ i - (k - 1) + k = i + 1
        BY <1>1, <2>3, <3>6
      <4>2. after[i - (k - 1)] = entries[i + 1]
        BY <3>2, <4>1
      <4>. QED  BY <3>3, <3>4, <3>6, <4>2
    <3>. QED  BY <3>3, <3>4, <3>5, <3>6
  <2>6. \A i \in 1 .. n : entries[i].account = a => i = k
    BY <1>1, <2>3 DEF EachOnce
  <2>7. ToSet(left) = {e \in S : e.account # a}
    <3>1. ASSUME NEW i \in 1 .. n - 1 PROVE left[i] \in S /\ left[i].account # a
      <4>. DEFINE j == IF i < k THEN i ELSE i + 1
      <4>1. j \in 1 .. n /\ j # k /\ left[i] = entries[j]
        BY <1>1, <2>3, <2>5
      <4>. HIDE DEF j, S
      <4>. QED  BY <1>1, <2>6, <4>1
    <3>2. ASSUME NEW e \in S, e.account # a PROVE \E i \in 1 .. n - 1 : left[i] = e
      <4>1. PICK i \in 1 .. n : entries[i] = e
        BY <1>1
      <4>2. i # k
        BY <2>3, <3>2, <4>1
      <4>3. CASE i < k
        <5>1. i \in 1 .. n - 1 /\ left[i] = e
          BY <1>1, <2>3, <2>5, <4>1, <4>3
        <5>. QED  BY <5>1
      <4>4. CASE i > k
        <5>1. i - 1 \in 1 .. n - 1 /\ ~ (i - 1 < k) /\ i - 1 + 1 = i
          BY <1>1, <2>3, <4>4
        <5>2. left[i - 1] = e
          BY <2>5, <4>1, <5>1
        <5>. QED  BY <5>1, <5>2
      <4>. QED  BY <1>1, <2>3, <4>2, <4>3, <4>4
    <3>3. ToSet(left) = {left[i] : i \in 1 .. n - 1}
      BY <2>5 DEF ToSet
    <3>. HIDE DEF S
    <3>. QED  BY <3>1, <3>2, <3>3
  <2>8. EachOnce(left)
    <3>1. left \in Seq(ToSet(left))
      BY <2>5, SeqFacts
    <3>2. ASSUME NEW i \in 1 .. n - 1, NEW j \in 1 .. n - 1, left[i].account = left[j].account
          PROVE  i = j
      <4>. DEFINE at(m) == IF m < k THEN m ELSE m + 1
      <4>1. at(i) \in 1 .. n /\ at(j) \in 1 .. n
        BY <1>1, <2>3
      <4>2. entries[at(i)].account = entries[at(j)].account
        BY <2>5, <3>2
      <4>3. at(i) = at(j)
        BY <1>1, <4>1, <4>2 DEF EachOnce
      <4>. QED  BY <1>1, <2>3, <4>3
    <3>. QED  BY <2>5, <3>1, <3>2 DEF EachOnce
  <2>. QED  BY <2>7, <2>8 DEF left
<1>. QED  BY <1>2, <1>3

(* The callback of a subscriber that has none, and an entry for it if      *)
(* there is none for its account.                                          *)
LEMMA AddAccountConsistent ==
    ASSUME LoaderInv, NEW s \in Subscribers, subscriber[s].callbackId = 0,
           NEW id \in CallbackIds
    PROVE  Consistent(addAccount(loader, AccountOf[s], id, s),
                      [subscriber EXCEPT ![s] = [subscriber[s] EXCEPT !.callbackId = id]])
<1>. DEFINE a == AccountOf[s]
            old == EntriesOf(loader, a)
            entry == IF old # {} THEN CHOOSE e \in old : TRUE ELSE FreshEntry(loader, a)
            entries == IF old # {} THEN loader.accountsToLoad
                       ELSE Append(loader.accountsToLoad, entry)
            new == [id |-> id, entry |-> entry, owner |-> s]
            L == addAccount(loader, a, id, s)
            subs == [subscriber EXCEPT ![s] = [subscriber[s] EXCEPT !.callbackId = id]]
<1>1. /\ IsLoader(loader) /\ subscriber \in [Subscribers -> SubscriberType]
      /\ Owned(loader, subscriber) /\ Behind(loader, subscriber) /\ id \in Nat
  BY IdFacts DEF LoaderInv, Consistent
<1>2. EachOnce(loader.accountsToLoad)
  BY <1>1 DEF Owned
<1>3. /\ entry.account = a /\ EachOnce(entries) /\ entries # <<>>
      /\ ToSet(entries) = ToSet(loader.accountsToLoad) \cup {entry}
  <2>1. CASE old # {}
    <3>1. entry \in ToSet(loader.accountsToLoad) /\ entry.account = a
      BY <2>1 DEF EntriesOf
    <3>2. entries = loader.accountsToLoad
      BY <2>1
    <3>. HIDE DEF entry, entries
    <3>3. entries # <<>>
      BY <3>1, <3>2 DEF ToSet
    <3>. QED  BY <1>2, <3>1, <3>2, <3>3
  <2>2. CASE old = {}
    <3>1. entry.account = a /\ entries = Append(loader.accountsToLoad, entry)
      BY <2>2 DEF FreshEntry
    <3>. HIDE DEF entry, entries
    <3>2. \A f \in ToSet(loader.accountsToLoad) : f.account # entry.account
      BY <2>2, <3>1 DEF EntriesOf
    <3>. QED  BY <1>2, <3>1, <3>2, EntryAdded
  <2>. QED  BY <2>1, <2>2
<1>4. L = [loader EXCEPT !.accountsToLoad = entries, !.callbacks = @ \cup {new},
                         !.polling = TRUE, !.loadPromise = 0]
  BY DEF addAccount
<1>. HIDE DEF entry, entries, L
<1>5. /\ IsLoader(L) /\ L.accountsToLoad = entries /\ L.callbacks = loader.callbacks \cup {new}
      /\ L.polling = TRUE /\ L.bufferAndSlotMap = loader.bufferAndSlotMap
  BY <1>1, <1>4 DEF IsLoader
<1>6. /\ subs \in [Subscribers -> SubscriberType] /\ subs[s].callbackId = id
      /\ \A r \in Subscribers \ {s} : subs[r] = subscriber[r]
      /\ \A r \in Subscribers : subs[r].user = subscriber[r].user
  BY <1>1 DEF SubscriberType
<1>7. new.owner = s /\ new.id = id /\ new.entry = entry
  OBVIOUS
<1>. HIDE DEF new, subs
<1>8. Owned(L, subs)
  <2>1. ASSUME NEW cb \in L.callbacks
        PROVE  /\ cb.owner \in Subscribers /\ cb.id \in CallbackIds
               /\ subs[cb.owner].callbackId = cb.id
               /\ cb.entry.account = AccountOf[cb.owner]
               /\ cb.entry \in ToSet(L.accountsToLoad)
    <3>1. CASE cb = new
      BY <1>3, <1>5, <1>6, <1>7, <3>1
    <3>2. CASE cb \in loader.callbacks
      <4>1. /\ cb.owner \in Subscribers /\ cb.id \in CallbackIds
            /\ subscriber[cb.owner].callbackId = cb.id
            /\ cb.entry.account = AccountOf[cb.owner]
            /\ cb.entry \in ToSet(loader.accountsToLoad)
        BY <1>1, <3>2 DEF Owned
      <4>2. cb.owner # s
        BY <4>1, IdFacts
      <4>. QED  BY <1>3, <1>5, <1>6, <4>1, <4>2
    <3>. QED  BY <1>5, <3>1, <3>2
  <2>2. \A e \in ToSet(L.accountsToLoad) : \E cb \in L.callbacks : cb.entry = e
    BY <1>1, <1>3, <1>5, <1>7 DEF Owned
  <2>. QED  BY <1>3, <1>5, <2>1, <2>2 DEF Owned
<1>9. Behind(L, subs)
  BY <1>1, <1>5, <1>6 DEF Behind
<1>. QED  BY <1>5, <1>6, <1>8, <1>9 DEF Consistent, L, subs

(* The callback of one that leaves, and the entry with its last callback.  *)
LEMMA RemoveAccountConsistent ==
    ASSUME LoaderInv, NEW s \in Subscribers
    PROVE  Consistent(removeAccount(loader, AccountOf[s], subscriber[s].callbackId),
                      [subscriber EXCEPT ![s].callbackId = 0, ![s].isSubscribed = FALSE])
<1>. DEFINE a == AccountOf[s]
            id == subscriber[s].callbackId
            kept == {c \in loader.callbacks : ~ (c.id = id /\ c.entry.account = a)}
            without == RemoveFirstMatch(loader.accountsToLoad, LAMBDA e : e.account = a)
            left == IF \E c \in kept : c.entry.account = a THEN loader.accountsToLoad ELSE without
            L == removeAccount(loader, a, id)
            subs == [subscriber EXCEPT ![s].callbackId = 0, ![s].isSubscribed = FALSE]
<1>1. /\ IsLoader(loader) /\ subscriber \in [Subscribers -> SubscriberType]
      /\ Owned(loader, subscriber) /\ Behind(loader, subscriber)
  BY DEF LoaderInv, Consistent
<1>2. EachOnce(loader.accountsToLoad)
  BY <1>1 DEF Owned
<1>3. /\ EachOnce(without)
      /\ ToSet(without) = {e \in ToSet(loader.accountsToLoad) : e.account # a}
  BY <1>2, EntryRemoved
<1>4. L = [loader EXCEPT !.accountsToLoad = left, !.callbacks = kept,
                         !.polling = @ /\ left # <<>>]
  BY DEF removeAccount
<1>. HIDE DEF without, L
<1>5. /\ EachOnce(left) /\ ToSet(left) \subseteq ToSet(loader.accountsToLoad)
      /\ \A e \in ToSet(left) : \E cb \in kept : cb.entry = e
      /\ \A cb \in kept : cb.entry \in ToSet(left)
  <2>1. /\ \A e \in ToSet(loader.accountsToLoad) : \E cb \in loader.callbacks : cb.entry = e
        /\ \A cb \in loader.callbacks : cb.entry \in ToSet(loader.accountsToLoad)
    BY <1>1 DEF Owned
  <2>2. CASE \E c \in kept : c.entry.account = a
    <3>1. left = loader.accountsToLoad
      BY <2>2
    <3>2. PICK c \in kept : c.entry.account = a
      BY <2>2
    <3>3. ASSUME NEW e \in ToSet(loader.accountsToLoad), e.account = a PROVE c.entry = e
      BY <1>2, <2>1, <3>2, <3>3 DEF EachOnce, ToSet
    <3>4. ASSUME NEW e \in ToSet(loader.accountsToLoad) PROVE \E cb \in kept : cb.entry = e
      <4>1. CASE e.account = a
        BY <3>2, <3>3, <4>1
      <4>2. CASE e.account # a
        BY <2>1, <4>2
      <4>. QED  BY <4>1, <4>2
    <3>. QED  BY <1>2, <2>1, <3>1, <3>4
  <2>3. CASE ~ \E c \in kept : c.entry.account = a
    BY <1>3, <2>1, <2>3
  <2>. QED  BY <2>2, <2>3
<1>. HIDE DEF left
<1>6. /\ IsLoader(L) /\ L.accountsToLoad = left /\ L.callbacks = kept
      /\ L.polling = (loader.polling /\ left # <<>>)
      /\ L.bufferAndSlotMap = loader.bufferAndSlotMap
  BY <1>1, <1>4 DEF IsLoader
<1>7. /\ subs \in [Subscribers -> SubscriberType]
      /\ \A r \in Subscribers \ {s} : subs[r] = subscriber[r]
      /\ \A r \in Subscribers : subs[r].user = subscriber[r].user
  BY <1>1 DEF SubscriberType
<1>. HIDE DEF subs
<1>8. \A cb \in kept :
         /\ cb.owner \in Subscribers /\ cb.id \in CallbackIds /\ cb.owner # s
         /\ subscriber[cb.owner].callbackId = cb.id
         /\ cb.entry.account = AccountOf[cb.owner]
  BY <1>1 DEF Owned
<1>. HIDE DEF kept
<1>9. loader.polling = (loader.accountsToLoad # <<>>)
  BY <1>1 DEF Owned
<1>10. L.polling = (left # <<>>)
  <2>1. left # <<>> => loader.accountsToLoad # <<>>
    <3>1. loader.accountsToLoad = <<>> => ToSet(loader.accountsToLoad) = {}
      BY DEF ToSet
    <3>2. ToSet(left) = {} => left = <<>>
      BY <1>5, SeqFacts DEF EachOnce
    <3>. QED  BY <1>5, <3>1, <3>2
  <2>. QED  BY <1>6, <1>9, <2>1
<1>11. Owned(L, subs)
  BY <1>5, <1>6, <1>7, <1>8, <1>10 DEF Owned
<1>12. Behind(L, subs)
  BY <1>1, <1>6, <1>7 DEF Behind
<1>. QED  BY <1>6, <1>7, <1>11, <1>12 DEF Consistent, L, subs

-----------------------------------------------------------------------------
(* Loads, and the calls that await them.                                   *)

LEMMA LoadFields ==
    ASSUME NEW L, NEW subs, Consistent(L, subs), NEW l \in Loads
    PROVE  /\ Consistent(start_load(L, l), subs)
           /\ Consistent(finish_load(L), subs)
           /\ Consistent([L EXCEPT !.expired = TRUE], subs)
<1>1. l \in Nat
  BY LoaderAssumption DEF Loads
<1>2. ASSUME NEW M, IsLoader(M), M.accountsToLoad = L.accountsToLoad, M.callbacks = L.callbacks,
             M.bufferAndSlotMap = L.bufferAndSlotMap, M.polling = L.polling
      PROVE  Consistent(M, subs)
  BY <1>2 DEF Consistent, Owned, Behind
<1>. DEFINE M1 == start_load(L, l)
            M2 == finish_load(L)
            M3 == [L EXCEPT !.expired = TRUE]
<1>3. /\ IsLoader(M1) /\ M1.accountsToLoad = L.accountsToLoad /\ M1.callbacks = L.callbacks
      /\ M1.bufferAndSlotMap = L.bufferAndSlotMap /\ M1.polling = L.polling
  BY <1>1 DEF Consistent, IsLoader, start_load
<1>4. /\ IsLoader(M2) /\ M2.accountsToLoad = L.accountsToLoad /\ M2.callbacks = L.callbacks
      /\ M2.bufferAndSlotMap = L.bufferAndSlotMap /\ M2.polling = L.polling
  BY DEF Consistent, IsLoader, finish_load
<1>5. /\ IsLoader(M3) /\ M3.accountsToLoad = L.accountsToLoad /\ M3.callbacks = L.callbacks
      /\ M3.bufferAndSlotMap = L.bufferAndSlotMap /\ M3.polling = L.polling
  BY DEF Consistent, IsLoader
<1>. HIDE DEF M1, M2, M3
<1>6. Consistent(M1, subs) /\ Consistent(M2, subs) /\ Consistent(M3, subs)
  BY <1>2, <1>3, <1>4, <1>5
<1>. QED  BY <1>6 DEF M1, M2, M3

(* Waking up, and losing a promise, change no call's place.                *)
LEMMA ReplacedCalls ==
    ASSUME NEW subs, Calls(call, subs), NEW l \in Loads
    PROVE  Calls(Replaced, subs) /\ Calls(Woken(l), subs)
<1>1. Never \in Nat
  BY LoaderAssumption DEF Never
<1>2. Replaced \in [Subscribers -> CallType] /\ Woken(l) \in [Subscribers -> CallType]
  BY <1>1 DEF Calls, Replaced, Woken, CallType
<1>3. \A s \in Subscribers : Replaced[s].pc = call[s].pc /\ Woken(l)[s].pc = call[s].pc
  BY DEF Calls, Replaced, Woken, CallType
<1>. QED  BY <1>2, <1>3 DEF Calls

LEMMA CallsOf ==
    ASSUME LoaderInv, NEW s \in Subscribers, NEW q \in SubscriberType, NEW d \in CallType,
           d.pc # "derive", NEW l \in Loads
    PROVE  /\ Calls([call EXCEPT ![s] = d], [subscriber EXCEPT ![s] = q])
           /\ Calls([Replaced EXCEPT ![s] = d], [subscriber EXCEPT ![s] = q])
<1>1. subscriber \in [Subscribers -> SubscriberType] /\ Calls(call, subscriber)
  BY DEF LoaderInv, Consistent
<1>2. Calls(Replaced, subscriber)
  BY <1>1, ReplacedCalls
<1>3. ASSUME NEW c, Calls(c, subscriber)
      PROVE  Calls([c EXCEPT ![s] = d], [subscriber EXCEPT ![s] = q])
  BY <1>1, <1>3 DEF Calls
<1>. QED  BY <1>1, <1>2, <1>3

Shows(s, q) == q.user.slot >= subscriber[s].user.slot

LEMMA UserForward ==
    ASSUME LoaderInv, NEW s \in Subscribers, NEW q \in SubscriberType, Shows(s, q),
           subscriber' = [subscriber EXCEPT ![s] = q]
    PROVE  Forward
BY DEF LoaderInv, Consistent, SubscriberType, BufferAndSlot, Shows, Forward

LEMMA AwaitLoadInv ==
    ASSUME LoaderInv, NEW s \in Subscribers, NEW own \in Pcs \ {"derive"},
           NEW join \in Pcs \ {"derive"}, NEW retries \in Nat, NEW L, NEW q \in SubscriberType,
           Consistent(L, [subscriber EXCEPT ![s] = q]), Shows(s, q),
           AwaitLoad(s, own, join, retries, L, q)
    PROVE  LoaderInv' /\ Forward
<1>. DEFINE subs == [subscriber EXCEPT ![s] = q]
<1>1. subscriber' = subs /\ UNCHANGED chain
  BY DEF AwaitLoad
<1>2. Forward
  BY <1>1, UserForward
<1>3. CASE Joins(L)
  <2>. DEFINE d == [pc |-> join, load |-> L.loadPromise, retries |-> retries]
  <2>1. loader' = L /\ call' = [call EXCEPT ![s] = d]
    BY <1>3 DEF AwaitLoad
  <2>2. d \in CallType /\ d.pc # "derive"
    BY DEF CallType, Consistent, IsLoader
  <2>3. 1 \in Loads
    BY LoaderAssumption DEF Loads
  <2>. HIDE DEF d
  <2>4. Calls([call EXCEPT ![s] = d], subs)
    BY <2>2, <2>3, CallsOf
  <2>. QED  BY <1>1, <1>2, <2>1, <2>4 DEF LoaderInv
<1>4. CASE ~ Joins(L)
  <2>1. PICK l \in Loads \ LoadsInUse :
           /\ BeginLoad(L, l)
           /\ call' = [Replaced EXCEPT ![s] = [pc |-> own, load |-> l, retries |-> retries]]
    BY <1>4 DEF AwaitLoad
  <2>. DEFINE d == [pc |-> own, load |-> l, retries |-> retries]
  <2>2. d \in CallType /\ d.pc # "derive"
    BY LoaderAssumption DEF CallType, Loads
  <2>3. call' = [Replaced EXCEPT ![s] = d] /\ loader' = start_load(L, l)
    BY <2>1 DEF BeginLoad
  <2>. HIDE DEF d
  <2>4. Calls([Replaced EXCEPT ![s] = d], subs)
    BY <2>2, CallsOf
  <2>5. Consistent(start_load(L, l), subs)
    BY LoadFields
  <2>. QED  BY <1>1, <1>2, <2>3, <2>4, <2>5 DEF LoaderInv
<1>. QED  BY <1>3, <1>4

LEMMA ReturnInv ==
    ASSUME LoaderInv, NEW s \in Subscribers, NEW L, NEW q \in SubscriberType,
           Consistent(L, [subscriber EXCEPT ![s] = q]), Shows(s, q), Return(s, L, q)
    PROVE  LoaderInv' /\ Forward
<1>. DEFINE subs == [subscriber EXCEPT ![s] = q]
<1>1. /\ subscriber' = subs /\ loader' = L /\ call' = [call EXCEPT ![s] = IdleCall]
      /\ UNCHANGED chain
  BY DEF Return
<1>2. Forward
  BY <1>1, UserForward
<1>3. IdleCall \in CallType /\ IdleCall.pc # "derive"
  BY DEF IdleCall, CallType, Pcs
<1>4. 1 \in Loads
  BY LoaderAssumption DEF Loads
<1>5. Calls([call EXCEPT ![s] = IdleCall], subs)
  BY <1>3, <1>4, CallsOf
<1>. QED  BY <1>1, <1>2, <1>5 DEF LoaderInv

LEMMA LoopInv ==
    ASSUME LoaderInv, NEW s \in Subscribers, NEW retries \in Nat, NEW L, NEW q \in SubscriberType,
           Consistent(L, [subscriber EXCEPT ![s] = q]), Shows(s, q),
           subscribe_loop(s, retries, L, q)
    PROVE  LoaderInv' /\ Forward
<1>1. CASE q.user.buffer = NoData /\ retries < MAX_RETRIES
  <2>1. AwaitLoad(s, "subscribe", "subscribe_join", retries + 1, L, q)
    BY <1>1 DEF subscribe_loop
  <2>2. "subscribe" \in Pcs \ {"derive"} /\ "subscribe_join" \in Pcs \ {"derive"}
    BY DEF Pcs
  <2>3. retries + 1 \in Nat
    OBVIOUS
  <2>. QED  BY <2>1, <2>2, <2>3, AwaitLoadInv
<1>2. CASE ~ (q.user.buffer = NoData /\ retries < MAX_RETRIES)
  <2>. DEFINE done == q.user.buffer # NoData
              q2 == [q EXCEPT !.isSubscribed = done]
              subs == [subscriber EXCEPT ![s] = q]
              subs2 == [subscriber EXCEPT ![s] = q2]
  <2>1. Return(s, L, q2)
    BY <1>2 DEF subscribe_loop
  <2>2. done \in BOOLEAN
    OBVIOUS
  <2>. HIDE DEF done
  <2>3. q2 \in SubscriberType /\ q2.user = q.user /\ q2.callbackId = q.callbackId
    BY <2>2 DEF SubscriberType
  <2>. HIDE DEF q2
  <2>4. subscriber \in [Subscribers -> SubscriberType]
    BY DEF LoaderInv, Consistent
  <2>5. /\ subs2 \in [Subscribers -> SubscriberType]
        /\ \A r \in Subscribers : subs2[r].user = subs[r].user /\ subs2[r].callbackId = subs[r].callbackId
    BY <2>3, <2>4
  <2>. HIDE DEF subs, subs2
  <2>6. Consistent(L, subs2)
    <3>1. Consistent(L, subs)
      BY DEF subs
    <3>. QED  BY <2>5, <3>1 DEF Consistent, Owned, Behind
  <2>7. Shows(s, q2)
    BY <2>3 DEF Shows
  <2>. QED  BY <2>1, <2>3, <2>6, <2>7, ReturnInv DEF subs2
<1>. QED  BY <1>1, <1>2

(* A call that leaves the subscriber as it is.                             *)
LEMMA SameSubscriber ==
    ASSUME LoaderInv, NEW s \in Subscribers
    PROVE  /\ subscriber[s] \in SubscriberType
           /\ Consistent(loader, [subscriber EXCEPT ![s] = subscriber[s]])
           /\ Shows(s, subscriber[s])
<1>1. subscriber \in [Subscribers -> SubscriberType]
  BY DEF LoaderInv, Consistent
<1>2. [subscriber EXCEPT ![s] = subscriber[s]] = subscriber
  BY <1>1
<1>3. Shows(s, subscriber[s])
  BY <1>1 DEF Shows, SubscriberType, BufferAndSlot
<1>4. Consistent(loader, subscriber)
  BY DEF LoaderInv
<1>. QED  BY <1>1, <1>2, <1>3, <1>4

LEMMA SubscribeInv ==
    ASSUME LoaderInv, NEW s \in Subscribers, subscribe(s)
    PROVE  LoaderInv' /\ Forward
<1>1. CASE subscriber[s].callbackId # 0
  <2>1. subscribe_loop(s, 0, loader, subscriber[s])
    BY <1>1 DEF subscribe
  <2>. QED  BY <2>1, SameSubscriber, LoopInv
<1>2. CASE subscriber[s].callbackId = 0
  <2>1. /\ call' = [call EXCEPT ![s].pc = "derive"]
        /\ UNCHANGED <<chain, loader, subscriber>>
    BY <1>2 DEF subscribe
  <2>2. Calls(call', subscriber)
    BY <1>2, <2>1 DEF LoaderInv, Calls, CallType, Pcs
  <2>3. Forward
    BY <2>1 DEF Forward, LoaderInv, Consistent, SubscriberType, BufferAndSlot
  <2>. QED  BY <2>1, <2>2, <2>3 DEF LoaderInv
<1>. QED  BY <1>1, <1>2

LEMMA AddToAccountLoaderInv ==
    ASSUME LoaderInv, NEW s \in Subscribers, addToAccountLoader(s)
    PROVE  LoaderInv' /\ Forward
<1>. DEFINE id == Min(CallbackIds \ {cb.id : cb \in loader.callbacks})
            L == addAccount(loader, AccountOf[s], id, s)
            q == [subscriber[s] EXCEPT !.callbackId = id]
<1>1. call[s].pc = "derive" /\ subscribe_loop(s, 0, L, q)
  BY DEF addToAccountLoader
<1>2. subscriber[s].callbackId = 0
  BY <1>1 DEF LoaderInv, Calls
<1>3. id \in CallbackIds
  BY <1>2, FreeId
<1>. HIDE DEF id
<1>4. Consistent(L, [subscriber EXCEPT ![s] = q])
  BY <1>2, <1>3, AddAccountConsistent
<1>5. q \in SubscriberType /\ Shows(s, q)
  BY <1>3, IdFacts, SameSubscriber DEF SubscriberType, Shows, BufferAndSlot
<1>. HIDE DEF L, q
<1>. QED  BY <1>1, <1>4, <1>5, LoopInv

LEMMA FetchInv ==
    ASSUME LoaderInv, NEW s \in Subscribers, fetch(s)
    PROVE  LoaderInv' /\ Forward
<1>1. AwaitLoad(s, "fetch", "fetch_join", 0, loader, subscriber[s])
  BY DEF fetch
<1>2. "fetch" \in Pcs \ {"derive"} /\ "fetch_join" \in Pcs \ {"derive"}
  BY DEF Pcs
<1>. QED  BY <1>1, <1>2, SameSubscriber, AwaitLoadInv

(* What fetch() shows is what the loader keeps, no older than what it      *)
(* showed.                                                                 *)
LEMMA ResumeInv ==
    ASSUME LoaderInv, NEW s \in Subscribers, Resume(s)
    PROVE  LoaderInv' /\ Forward
<1>. DEFINE loaded == loader.bufferAndSlotMap[AccountOf[s]]
            q == [subscriber[s] EXCEPT !.user = IF loaded.buffer # NoData THEN loaded ELSE @]
            subs == [subscriber EXCEPT ![s] = q]
<1>1. /\ subscriber \in [Subscribers -> SubscriberType] /\ loaded \in BufferAndSlot
      /\ Owned(loader, subscriber) /\ Behind(loader, subscriber) /\ IsLoader(loader)
  BY LoaderAssumption DEF LoaderInv, Consistent, IsLoader
<1>2. subscriber[s].user.slot =< loaded.slot
  BY <1>1 DEF Behind
<1>3. /\ q \in SubscriberType /\ q.callbackId = subscriber[s].callbackId
      /\ q.user.slot =< loaded.slot /\ Shows(s, q)
  <2>1. q.user \in {loaded, subscriber[s].user} /\ q \in SubscriberType
        /\ q.callbackId = subscriber[s].callbackId
    BY <1>1 DEF SubscriberType
  <2>2. subscriber[s].user.slot \in Nat /\ loaded.slot \in Nat
    BY <1>1 DEF SubscriberType, BufferAndSlot
  <2>. HIDE DEF q, loaded
  <2>. QED  BY <1>2, <2>1, <2>2 DEF Shows
<1>4. Consistent(loader, subs)
  <2>. HIDE DEF q
  <2>1. /\ subs \in [Subscribers -> SubscriberType] /\ subs[s] = q
        /\ \A r \in Subscribers \ {s} : subs[r] = subscriber[r]
    BY <1>1, <1>3
  <2>. HIDE DEF subs
  <2>2. Owned(loader, subs)
    <3>1. \A r \in Subscribers : subs[r].callbackId = subscriber[r].callbackId
      BY <1>3, <2>1
    <3>. QED  BY <1>1, <3>1 DEF Owned
  <2>3. Behind(loader, subs)
    BY <1>1, <1>3, <2>1 DEF Behind
  <2>. QED  BY <1>1, <2>1, <2>2, <2>3 DEF Consistent
<1>5. call[s].retries \in Nat
  BY DEF LoaderInv, Calls, CallType
<1>6. \/ Return(s, loader, subscriber[s])
      \/ subscribe_loop(s, call[s].retries, loader, q)
      \/ Return(s, loader, q)
  BY DEF Resume
<1>. HIDE DEF q
<1>7. CASE Return(s, loader, subscriber[s])
  BY <1>7, SameSubscriber, ReturnInv
<1>8. CASE subscribe_loop(s, call[s].retries, loader, q)
  BY <1>3, <1>4, <1>5, <1>8, LoopInv
<1>9. CASE Return(s, loader, q)
  BY <1>3, <1>4, <1>9, ReturnInv
<1>. QED  BY <1>6, <1>7, <1>8, <1>9

LEMMA UnsubscribeInv ==
    ASSUME LoaderInv, NEW s \in Subscribers, unsubscribe(s)
    PROVE  LoaderInv' /\ Forward
<1>1. /\ loader' = removeAccount(loader, AccountOf[s], subscriber[s].callbackId)
      /\ subscriber' = [subscriber EXCEPT ![s].callbackId = 0, ![s].isSubscribed = FALSE]
      /\ UNCHANGED <<chain, call>>
  BY DEF unsubscribe
<1>2. Consistent(loader', subscriber')
  BY <1>1, RemoveAccountConsistent
<1>3. subscriber \in [Subscribers -> SubscriberType]
  BY DEF LoaderInv, Consistent
<1>4. /\ \A r \in Subscribers : subscriber'[r].user = subscriber[r].user
      /\ \A r \in Subscribers : subscriber[r].callbackId = 0 => subscriber'[r].callbackId = 0
  BY <1>1, <1>3 DEF SubscriberType
<1>5. Forward
  BY <1>3, <1>4 DEF Forward, SubscriberType, BufferAndSlot
<1>6. Calls(call, subscriber')
  BY <1>4 DEF LoaderInv, Calls
<1>. QED  BY <1>1, <1>2, <1>5, <1>6 DEF LoaderInv

-----------------------------------------------------------------------------
(* Timers and answers.                                                     *)

LEMMA SameForward ==
    ASSUME LoaderInv, UNCHANGED subscriber
    PROVE  Forward
BY DEF Forward, LoaderInv, Consistent, SubscriberType, BufferAndSlot

LEMMA PollInv ==
    ASSUME LoaderInv, Poll
    PROVE  LoaderInv' /\ Forward
<1>1. PICK l \in Loads : loader' = start_load(loader, l)
  BY DEF Poll, BeginLoad
<1>2. call' = Replaced /\ UNCHANGED <<chain, subscriber>>
  BY DEF Poll
<1>3. Calls(Replaced, subscriber)
  BY <1>1, ReplacedCalls DEF LoaderInv
<1>4. Consistent(start_load(loader, l), subscriber)
  BY LoadFields DEF LoaderInv
<1>. QED  BY <1>1, <1>2, <1>3, <1>4, SameForward DEF LoaderInv

LEMMA ExpireInv ==
    ASSUME LoaderInv, Expire
    PROVE  LoaderInv' /\ Forward
<1>1. loader' = [loader EXCEPT !.expired = TRUE] /\ UNCHANGED <<chain, subscriber, call>>
  BY DEF Expire
<1>2. 1 \in Loads
  BY LoaderAssumption DEF Loads
<1>3. Consistent([loader EXCEPT !.expired = TRUE], subscriber)
  BY <1>2, LoadFields DEF LoaderInv
<1>. QED  BY <1>1, <1>3, SameForward DEF LoaderInv

LEMMA EndChunkInv ==
    ASSUME LoaderInv, NEW l \in Loads, NEW chunk, NEW fails, NEW L, EndChunk(l, chunk, L, fails),
           Consistent(L, subscriber'), UNCHANGED chain,
           \A s \in Subscribers : subscriber'[s].callbackId = subscriber[s].callbackId
    PROVE  LoaderInv'
<1>1. loader' \in {L, finish_load(L)} /\ call' \in {call, Woken(l)}
  BY DEF EndChunk
<1>2. Consistent(loader', subscriber')
  BY <1>1, LoadFields
<1>3. Calls(call, subscriber) /\ Calls(Woken(l), subscriber)
  BY ReplacedCalls DEF LoaderInv
<1>4. Calls(call', subscriber')
  BY <1>1, <1>3 DEF Calls
<1>. QED  BY <1>2, <1>4 DEF LoaderInv

LEMMA NoAnswerInv ==
    ASSUME LoaderInv, NEW l \in Loads, NEW chunk,
           Timeout(l, chunk) \/ RpcError(l, chunk) \/ (LoadNothing(l) /\ chunk = <<>>)
    PROVE  LoaderInv' /\ Forward
<1>1. PICK fails \in BOOLEAN : EndChunk(l, chunk, loader, fails)
  BY DEF Timeout, RpcError, LoadNothing
<1>2. UNCHANGED <<chain, subscriber>>
  BY DEF Timeout, RpcError, LoadNothing
<1>3. Consistent(loader, subscriber')
  BY <1>2 DEF LoaderInv
<1>. QED  BY <1>1, <1>2, <1>3, EndChunkInv, SameForward

(* An answer is stored only if it is newer than what the loader keeps, and *)
(* the callbacks show what is stored.                                      *)
LEMMA LoadChunkInv ==
    ASSUME LoaderInv, NEW l \in Loads, NEW chunk, NEW slot \in 1 .. Len(chain),
           loadChunk(l, chunk, slot)
    PROVE  LoaderInv' /\ Forward
<1>. DEFINE stored == {e \in ToSet(chunk) : Stores(loader, e.account, slot)}
            kept == loader.bufferAndSlotMap
            map == [a \in Accounts |-> IF \E e \in stored : e.account = a
                                       THEN [slot |-> slot, buffer |-> chain[slot][a]]
                                       ELSE kept[a]]
            L == [loader EXCEPT !.bufferAndSlotMap = map]
            called(s) == \E c \in loader.callbacks : c.owner = s /\ c.entry \in stored
            answer(s) == [slot |-> slot, buffer |-> chain[slot][AccountOf[s]]]
<1>1. /\ EndChunk(l, chunk, L, FALSE) /\ UNCHANGED chain
      /\ subscriber' = [s \in Subscribers |->
            IF called(s) /\ chain[slot][AccountOf[s]] # NoData
            THEN [subscriber[s] EXCEPT !.user = answer(s)] ELSE subscriber[s]]
  BY DEF loadChunk
<1>2. /\ subscriber \in [Subscribers -> SubscriberType] /\ IsLoader(loader)
      /\ kept \in [Accounts -> BufferAndSlot]
      /\ Owned(loader, subscriber) /\ Behind(loader, subscriber)
      /\ AccountOf \in [Subscribers -> Accounts]
      /\ slot \in Nat /\ slot > 0
  BY LoaderAssumption DEF LoaderInv, Consistent, IsLoader
<1>3. \A a \in Accounts : [slot |-> slot, buffer |-> chain[slot][a]] \in BufferAndSlot
  BY DEF LoaderInv, BufferAndSlot
<1>4. ASSUME NEW e \in stored, e.account \in Accounts
      PROVE  kept[e.account].slot < slot
  <2>1. Stores(loader, e.account, slot)
    OBVIOUS
  <2>2. CASE kept[e.account] = Undefined
    BY <1>2, <2>2 DEF Undefined
  <2>3. CASE slot > kept[e.account].slot
    BY <1>2, <1>4, <2>3 DEF BufferAndSlot
  <2>. QED  BY <2>1, <2>2, <2>3 DEF Stores
<1>. HIDE DEF stored
<1>5. map \in [Accounts -> BufferAndSlot] /\ \A a \in Accounts : kept[a].slot =< map[a].slot
  <2>1. map \in [Accounts -> BufferAndSlot]
    BY <1>2, <1>3
  <2>2. ASSUME NEW a \in Accounts PROVE kept[a].slot =< map[a].slot
    <3>1. kept[a].slot \in Nat
      BY <1>2 DEF BufferAndSlot
    <3>2. CASE \E e \in stored : e.account = a
      BY <1>2, <1>4, <3>1, <3>2
    <3>3. CASE ~ \E e \in stored : e.account = a
      BY <3>1, <3>3
    <3>. QED  BY <3>2, <3>3
  <2>. QED  BY <2>1, <2>2
<1>6. ASSUME NEW s \in Subscribers, called(s)
      PROVE  kept[AccountOf[s]].slot < slot /\ map[AccountOf[s]].slot = slot
  <2>1. PICK c \in loader.callbacks : c.owner = s /\ c.entry \in stored
    BY <1>6
  <2>2. c.entry.account = AccountOf[s] /\ AccountOf[s] \in Accounts
    BY <1>2, <2>1 DEF Owned
  <2>. QED  BY <1>4, <2>1, <2>2
<1>. HIDE DEF map
<1>7. /\ IsLoader(L) /\ L.accountsToLoad = loader.accountsToLoad /\ L.callbacks = loader.callbacks
      /\ L.polling = loader.polling /\ L.bufferAndSlotMap = map
  BY <1>2, <1>5 DEF IsLoader
<1>. HIDE DEF L, kept, called, answer
<1>8. ASSUME NEW s \in Subscribers
      PROVE  /\ subscriber'[s] \in SubscriberType
             /\ subscriber'[s].callbackId = subscriber[s].callbackId
             /\ subscriber'[s].user.slot >= subscriber[s].user.slot
             /\ subscriber'[s].user.slot =< map[AccountOf[s]].slot
  <2>1. /\ subscriber[s] \in SubscriberType /\ subscriber[s].user.slot =< kept[AccountOf[s]].slot
        /\ subscriber[s].user.slot \in Nat /\ kept[AccountOf[s]].slot \in Nat
        /\ map[AccountOf[s]].slot \in Nat /\ AccountOf[s] \in Accounts
        /\ kept[AccountOf[s]].slot =< map[AccountOf[s]].slot
    BY <1>2, <1>5 DEF Behind, SubscriberType, BufferAndSlot, kept
  <2>2. CASE called(s) /\ chain[slot][AccountOf[s]] # NoData
    <3>1. subscriber'[s] = [subscriber[s] EXCEPT !.user = answer(s)]
      BY <1>1, <2>2
    <3>2. answer(s) \in BufferAndSlot /\ answer(s).slot = slot
      BY <1>3, <2>1 DEF answer
    <3>3. /\ subscriber'[s] \in SubscriberType /\ subscriber'[s].user = answer(s)
          /\ subscriber'[s].callbackId = subscriber[s].callbackId
      BY <2>1, <3>1, <3>2 DEF SubscriberType
    <3>4. kept[AccountOf[s]].slot < slot /\ map[AccountOf[s]].slot = slot
      BY <1>6, <2>2
    <3>. QED  BY <1>2, <2>1, <3>2, <3>3, <3>4
  <2>3. CASE ~ (called(s) /\ chain[slot][AccountOf[s]] # NoData)
    <3>1. subscriber'[s] = subscriber[s]
      BY <1>1, <2>3
    <3>. QED  BY <2>1, <3>1
  <2>. QED  BY <2>2, <2>3
<1>9. Forward
  BY <1>8 DEF Forward
<1>10. Consistent(L, subscriber')
  <2>1. subscriber' \in [Subscribers -> SubscriberType]
    BY <1>1, <1>8
  <2>2. Owned(L, subscriber')
    BY <1>2, <1>7, <1>8 DEF Owned
  <2>3. Behind(L, subscriber')
    BY <1>7, <1>8 DEF Behind
  <2>. QED  BY <1>7, <2>1, <2>2, <2>3 DEF Consistent
<1>11. LoaderInv'
  BY <1>1, <1>8, <1>10, EndChunkInv
<1>. QED  BY <1>9, <1>11

LEMMA NewSlotInv ==
    ASSUME LoaderInv, NewSlot
    PROVE  LoaderInv' /\ Forward
<1>1. PICK h \in Histories : chain' = Append(chain, h[Len(chain) + 1])
  BY DEF NewSlot
<1>2. Len(chain) < MaxSlot /\ UNCHANGED <<loader, subscriber, call>>
  BY DEF NewSlot
<1>3. /\ h \in Seq([Accounts -> Data \cup {NoData}]) /\ Len(h) = MaxSlot
      /\ chain \in Seq([Accounts -> Data \cup {NoData}])
  BY LoaderAssumption DEF LoaderInv
<1>4. h[Len(chain) + 1] \in [Accounts -> Data \cup {NoData}]
  BY <1>2, <1>3
<1>5. chain' \in Seq([Accounts -> Data \cup {NoData}])
  BY <1>1, <1>3, <1>4
<1>. QED  BY <1>2, <1>5, SameForward DEF LoaderInv

-----------------------------------------------------------------------------
LEMMA LoaderInitially == Init => LoaderInv
<1>. SUFFICES ASSUME Init PROVE LoaderInv
  OBVIOUS
<1>1. Undefined \in BufferAndSlot /\ Undefined.slot = 0 /\ IdleCall \in CallType
      /\ IdleCall.pc # "derive"
  BY DEF Undefined, BufferAndSlot, IdleCall, CallType, Pcs
<1>2. chain \in Seq([Accounts -> Data \cup {NoData}])
  <2>1. PICK h \in Histories : chain = <<h[1]>>
    BY DEF Init
  <2>2. h \in Seq([Accounts -> Data \cup {NoData}]) /\ Len(h) = MaxSlot /\ MaxSlot \in Nat \ {0}
    BY LoaderAssumption
  <2>. QED  BY <2>1, <2>2
<1>3. /\ IsLoader(loader) /\ loader.accountsToLoad = <<>> /\ loader.callbacks = {}
      /\ loader.polling = FALSE
      /\ \A a \in Accounts : loader.bufferAndSlotMap[a] = Undefined
  BY <1>1 DEF Init, IsLoader
<1>4. /\ subscriber \in [Subscribers -> SubscriberType]
      /\ \A s \in Subscribers : subscriber[s].user = Undefined
  BY <1>1 DEF Init, SubscriberType
<1>5. Owned(loader, subscriber)
  <2>1. EachOnce(<<>>) /\ ToSet(<<>>) = {}
    BY DEF EachOnce, ToSet
  <2>. QED  BY <1>3, <2>1 DEF Owned
<1>6. Behind(loader, subscriber)
  BY <1>1, <1>3, <1>4, LoaderAssumption DEF Behind
<1>7. Calls(call, subscriber)
  BY <1>1 DEF Init, Calls
<1>. QED  BY <1>2, <1>3, <1>4, <1>5, <1>6, <1>7 DEF LoaderInv, Consistent

LEMMA LoaderStep == LoaderInv /\ [Next]_vars => LoaderInv' /\ Forward
<1>. SUFFICES ASSUME LoaderInv, [Next]_vars PROVE LoaderInv' /\ Forward
  OBVIOUS
<1>1. ASSUME NEW s \in Subscribers, subscribe(s) PROVE LoaderInv' /\ Forward
  BY <1>1, SubscribeInv
<1>2. ASSUME NEW s \in Subscribers, addToAccountLoader(s) PROVE LoaderInv' /\ Forward
  BY <1>2, AddToAccountLoaderInv
<1>3. ASSUME NEW s \in Subscribers, fetch(s) PROVE LoaderInv' /\ Forward
  BY <1>3, FetchInv
<1>4. ASSUME NEW s \in Subscribers, Resume(s) PROVE LoaderInv' /\ Forward
  BY <1>4, ResumeInv
<1>5. ASSUME NEW s \in Subscribers, unsubscribe(s) PROVE LoaderInv' /\ Forward
  BY <1>5, UnsubscribeInv
<1>6. CASE Poll
  BY <1>6, PollInv
<1>7. CASE Expire
  BY <1>7, ExpireInv
<1>8. ASSUME NEW l \in Loads, NEW chunk \in Chunks, NEW slot \in 1 .. Len(chain),
             loadChunk(l, chunk, slot)
      PROVE  LoaderInv' /\ Forward
  BY <1>8, LoadChunkInv
<1>9. ASSUME NEW l \in Loads, NEW chunk \in Chunks, Timeout(l, chunk) \/ RpcError(l, chunk)
      PROVE  LoaderInv' /\ Forward
  BY <1>9, NoAnswerInv
<1>10. ASSUME NEW l \in Loads, LoadNothing(l) PROVE LoaderInv' /\ Forward
  BY <1>10, NoAnswerInv
<1>11. CASE NewSlot
  BY <1>11, NewSlotInv
<1>12. CASE UNCHANGED vars
  <2>1. UNCHANGED <<chain, loader, subscriber, call>>
    BY <1>12 DEF vars
  <2>. QED  BY <2>1, SameForward DEF LoaderInv
<1>. QED
  BY <1>1, <1>2, <1>3, <1>4, <1>5, <1>6, <1>7, <1>8, <1>9, <1>10, <1>11, <1>12, Zenon
  DEF Next

LEMMA LoaderAlways == Spec => []LoaderInv
BY LoaderInitially, LoaderStep, PTL DEF Spec

(* removeAccount, called with what the subscriber kept of addAccount,      *)
(* finds the callback, and the last one to leave an account takes its      *)
(* entry along; so the loader polls exactly while somebody listens,        *)
(* however subscribe, fetch and unsubscribe of different subscribers       *)
(* alternate and whichever loads are under way.                            *)
THEOREM CallbacksRemovable == Spec => []CallbacksOwned
<1>1. LoaderInv => CallbacksOwned
  BY DEF LoaderInv, Consistent, Owned, CallbacksOwned
<1>. QED  BY <1>1, LoaderAlways, PTL

(* Neither the callback of loadChunk nor fetch() ever replaces what a      *)
(* subscriber shows by the contents of an earlier slot, in whatever order  *)
(* the answers of overlapping loads arrive.                                *)
THEOREM ShownAdvances == Spec => NeverGoesBack
<1>1. ASSUME LoaderInv, [Next]_vars
      PROVE  [\A s \in Subscribers : subscriber'[s].user.slot >= subscriber[s].user.slot]_vars
  BY <1>1, LoaderStep DEF Forward
<1>. QED  BY <1>1, LoaderAlways, PTL DEF Spec, NeverGoesBack
=============================================================================
