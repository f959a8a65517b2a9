------------------------ MODULE EventSubscriberProofs -----------------------
(***************************************************************************)
(* Proofs about EventSubscriber.                                           *)
(***************************************************************************)
EXTENDS EventSubscriber, LibraryProofs, SequenceTheorems

(* Handle folds handleTxLogs over a page.                                  *)
FoldAt(base, txs, g, s) ==
    IF s = {} THEN base ELSE handleTxLogs(g[s \ {Max(s)}], txs[Max(s)])

LEMMA MaxOfTop ==
    ASSUME NEW n \in Nat, NEW s \in SUBSET (1 .. n), s # {}
    PROVE  /\ Max(s) \in s /\ s \ {Max(s)} \in SUBSET (1 .. n)
           /\ n \in s => Max(s) = n
           /\ n \in Nat \ {0} => s \ {n} \in SUBSET (1 .. n - 1)
<1>1. s \in SUBSET (0 .. n)
  OBVIOUS
<1>2. Max(s) \in s /\ \A y \in s : y =< Max(s)
  BY <1>1, MaxInSet
<1>3. Max(s) \in 1 .. n /\ \A y \in s : y \in 1 .. n
  BY <1>2
<1>4. ASSUME n \in s PROVE Max(s) = n
  BY <1>2, <1>3, <1>4
<1>5. \A y \in s \ {n} : y \in 1 .. n - 1
  BY <1>3
<1>. QED  BY <1>2, <1>3, <1>4, <1>5

LEMMA FoldExists ==
    ASSUME NEW base, NEW txs, NEW n \in Nat
    PROVE  \E g : \A s \in SUBSET (1 .. n) : g[s] = FoldAt(base, txs, g, s)
<1>. DEFINE N == {m \in Nat : \E g : \A s \in SUBSET (1 .. m) : g[s] = FoldAt(base, txs, g, s)}
<1>1. 0 \in N
  <2>. DEFINE g == [s \in SUBSET (1 .. 0) |-> base]
  <2>1. \A s \in SUBSET (1 .. 0) : s = {} /\ g[s] = base
    OBVIOUS
  <2>. HIDE DEF g
  <2>2. \A s \in SUBSET (1 .. 0) : g[s] = FoldAt(base, txs, g, s)
    BY <2>1 DEF FoldAt
  <2>. QED  BY <2>2
<1>2. ASSUME NEW m \in N PROVE m + 1 \in N
  <2>1. m \in Nat
    BY <1>2
  <2>2. PICK g : \A s \in SUBSET (1 .. m) : g[s] = FoldAt(base, txs, g, s)
    BY <1>2
  <2>. HIDE DEF N
  <2>. DEFINE h == [s \in SUBSET (1 .. m + 1) |->
                       IF m + 1 \in s THEN handleTxLogs(g[s \ {m + 1}], txs[m + 1]) ELSE g[s]]
  <2>3. \A s \in SUBSET (1 .. m + 1) :
           h[s] = IF m + 1 \in s THEN handleTxLogs(g[s \ {m + 1}], txs[m + 1]) ELSE g[s]
    OBVIOUS
  <2>. HIDE DEF h
  <2>4. ASSUME NEW s \in SUBSET (1 .. m) PROVE h[s] = g[s]
    <3>1. \A x \in s : x \in 1 .. m
      OBVIOUS
    <3>2. m + 1 \notin s /\ \A x \in s : x \in 1 .. m + 1
      BY <2>1, <3>1
    <3>. QED  BY <2>3, <3>2
  <2>5. ASSUME NEW s \in SUBSET (1 .. m + 1) PROVE h[s] = FoldAt(base, txs, h, s)
    <3>1. CASE m + 1 \in s
      <4>1. Max(s) = m + 1 /\ s \ {m + 1} \in SUBSET (1 .. m)
        BY <2>1, <3>1, MaxOfTop
      <4>2. h[s \ {m + 1}] = g[s \ {m + 1}]
        BY <2>4, <4>1
      <4>. QED  BY <2>3, <3>1, <4>1, <4>2 DEF FoldAt
    <3>2. CASE m + 1 \notin s
      <4>1. s \in SUBSET (1 .. m)
        BY <2>1, <3>2
      <4>2. CASE s = {}
        BY <2>2, <2>4, <4>1, <4>2 DEF FoldAt
      <4>3. CASE s # {}
        <5>1. s \ {Max(s)} \in SUBSET (1 .. m)
          BY <2>1, <4>1, <4>3, MaxOfTop
        <5>. QED  BY <2>2, <2>4, <4>1, <4>3, <5>1 DEF FoldAt
      <4>. QED  BY <4>2, <4>3
    <3>. QED  BY <3>1, <3>2
  <2>. QED  BY <2>1, <2>5 DEF N
<1>3. N = Nat
  <2>1. N \in SUBSET Nat
    OBVIOUS
  <2>. HIDE DEF N
  <2>. QED  BY <1>1, <1>2, <2>1, NatSetInduction
<1>. QED  BY <1>3

(* What Handle yields is reached by handling one transaction after the     *)
(* other.                                                                  *)
LEMMA HandledOneByOne ==
    ASSUME NEW S, NEW base, NEW txs \in Seq(S)
    PROVE  \E h : /\ h[0] = base
                  /\ \A k \in 1 .. Len(txs) : h[k] = handleTxLogs(h[k - 1], txs[k])
                  /\ HandleEach(base, txs) = h[Len(txs)]
<1>. DEFINE n == Len(txs)
            Iter(g) == g = [s \in SUBSET (1 .. n) |->
                              IF s = {} THEN base ELSE handleTxLogs(g[s \ {Max(s)}], txs[Max(s)])]
            iter == CHOOSE g : Iter(g)
<1>1. n \in Nat /\ DOMAIN txs = 1 .. n
  OBVIOUS
<1>2. HandleEach(base, txs) = iter[1 .. n]
  BY <1>1, Zenon DEF HandleEach, FoldLeft, MapThenFoldSet
<1>. HIDE DEF n
<1>3. PICK g : \A s \in SUBSET (1 .. n) : g[s] = FoldAt(base, txs, g, s)
  BY <1>1, FoldExists
<1>. DEFINE f == [s \in SUBSET (1 .. n) |-> g[s]]
<1>4. Iter(f)
  <2>1. ASSUME NEW s \in SUBSET (1 .. n)
        PROVE  f[s] = IF s = {} THEN base ELSE handleTxLogs(f[s \ {Max(s)}], txs[Max(s)])
    <3>1. CASE s = {}
      BY <1>3, <3>1 DEF FoldAt
    <3>2. CASE s # {}
      <4>1. s \ {Max(s)} \in SUBSET (1 .. n)
        BY <1>1, <3>2, MaxOfTop
      <4>. QED  BY <1>3, <3>2, <4>1 DEF FoldAt
    <3>. QED  BY <3>1, <3>2
  <2>2. f = [s \in SUBSET (1 .. n) |-> f[s]]
    BY Zenon
  <2>. HIDE DEF f
  <2>. QED  BY <2>1, <2>2
<1>5. Iter(iter)
  BY <1>4, Zenon
<1>. HIDE DEF iter
<1>6. \A s \in SUBSET (1 .. n) :
         iter[s] = IF s = {} THEN base ELSE handleTxLogs(iter[s \ {Max(s)}], txs[Max(s)])
  BY <1>5
<1>. DEFINE h == [k \in 0 .. n |-> iter[1 .. k]]
<1>7. h[0] = base
  <2>1. 1 .. 0 = {} /\ {} \in SUBSET (1 .. n) /\ 0 \in 0 .. n
    BY <1>1
  <2>2. h[0] = iter[1 .. 0]
    BY <2>1
  <2>. HIDE DEF h
  <2>. QED  BY <1>6, <2>1, <2>2
<1>8. ASSUME NEW k \in 1 .. n PROVE h[k] = handleTxLogs(h[k - 1], txs[k])
  <2>1. k \in Nat /\ 1 .. k \in SUBSET (1 .. n) /\ k \in 1 .. k /\ (1 .. k) # {}
    BY <1>1
  <2>2. Max(1 .. k) = k
    BY <2>1, MaxOfTop
  <2>3. (1 .. k) \ {k} = 1 .. (k - 1)
    OBVIOUS
  <2>4. h[k] = iter[1 .. k] /\ h[k - 1] = iter[1 .. (k - 1)]
    BY <1>1
  <2>. HIDE DEF h
  <2>. QED  BY <1>6, <2>1, <2>2, <2>3, <2>4
<1>9. h[n] = iter[1 .. n]
  BY <1>1
<1>. HIDE DEF h
<1>. QED  BY <1>2, <1>7, <1>8, <1>9 DEF n

-----------------------------------------------------------------------------
(* The chain, and the pages fetched from it.                               *)

Tx == [slot : Nat, market : Markets, err : BOOLEAN]
Slot(t) == chain[t].slot
OfSlot(n) == {t \in Landed : Slot(t) = n}

ChainInv ==
    /\ chain \in Seq(Tx) /\ Len(chain) =< MaxLanded
    /\ \A t \in Landed : Slot(t) \in 1 .. t
    /\ \A s, t \in Landed : s =< t => Slot(s) =< Slot(t)
    /\ \A n \in Nat : Cardinality(OfSlot(n)) =< MaxPerSlot

InOrder(page) == \A i, j \in DOMAIN page : i < j => Slot(page[i]) =< Slot(page[j])

Page(page) == page \in Seq(Landed) /\ InOrder(page)

LEMMA LandedFacts ==
    ASSUME ChainInv
    PROVE  /\ Len(chain) \in Nat /\ Landed \in SUBSET Nat
           /\ IsFiniteSet(Landed) /\ Cardinality(Landed) = Len(chain)
           /\ Landed \subseteq 1 .. MaxLanded
           /\ \A t \in Landed : Slot(t) \in Nat /\ t \in Nat
<1>1. Len(chain) \in Nat /\ MaxLanded \in Nat
  BY EventAssumption DEF ChainInv
<1>2. IsFiniteSet(Landed) /\ Cardinality(Landed) = Len(chain)
  <2>1. 1 \in Int /\ Len(chain) \in Int
    BY <1>1
  <2>2. /\ IsFiniteSet(1 .. Len(chain))
        /\ Cardinality(1 .. Len(chain)) = IF 1 > Len(chain) THEN 0 ELSE Len(chain) - 1 + 1
    BY <2>1, FS_Interval
  <2>. QED  BY <1>1, <2>2 DEF Landed
<1>3. /\ Landed \in SUBSET Nat /\ Landed \subseteq 1 .. MaxLanded
      /\ \A t \in Landed : t \in Nat /\ t \in 1 .. Len(chain)
  BY <1>1 DEF ChainInv, Landed
<1>4. \A t \in 1 .. Len(chain) : chain[t] \in Tx
  BY DEF ChainInv
<1>5. \A t \in Landed : Slot(t) \in Nat
  BY <1>3, <1>4 DEF Slot, Tx
<1>. QED  BY <1>1, <1>2, <1>3, <1>5

(* What comes later has no earlier time, and of one market's trades that   *)
(* did not fail the later has the higher id.                               *)
LEMMA TimeFacts ==
    ASSUME ChainInv, NEW s \in Landed, NEW t \in Landed
    PROVE  /\ ts(s) \in Nat /\ SortKey(s) \in Nat
           /\ s =< t => ts(s) =< ts(t)
<1>1. /\ s \in 1 .. MaxLanded /\ t \in 1 .. MaxLanded /\ MaxLanded \in Nat
      /\ Slot(s) \in 1 .. s /\ Slot(t) \in 1 .. t /\ Slot(s) \in Nat
  BY LandedFacts, EventAssumption DEF ChainInv
<1>2. Slot(s) \in 1 .. MaxLanded /\ Slot(t) \in 1 .. MaxLanded
  BY <1>1
<1>3. ts(s) = Timestamp[Slot(s)] /\ ts(t) = Timestamp[Slot(t)]
  BY DEF ts, Slot
<1>4. ts(s) \in Nat /\ (Slot(s) =< Slot(t) => ts(s) =< ts(t))
  BY <1>2, <1>3, EventAssumption
<1>5. s =< t => Slot(s) =< Slot(t)
  BY DEF ChainInv
<1>6. SortKey(s) \in Nat
  BY <1>1, <1>4 DEF SortKey, Slot
<1>. QED  BY <1>4, <1>5, <1>6

LEMMA IdsInOrder ==
    ASSUME ChainInv, NEW s \in Landed, NEW t \in Landed,
           chain[s].market = chain[t].market, ~ chain[s].err, ~ chain[t].err
    PROVE  recordId(s) =< recordId(t) <=> s =< t
<1>1. s \in Nat /\ t \in Nat /\ s \in 1 .. MaxLanded /\ t \in 1 .. MaxLanded /\ MaxLanded \in Nat
  BY LandedFacts, EventAssumption
<1>2. ASSUME NEW u \in Landed
      PROVE  IsFiniteSet(TradesBefore(u)) /\ Cardinality(TradesBefore(u)) \in Nat
  <2>1. u \in Nat
    BY LandedFacts
  <2>2. IsFiniteSet(1 .. u - 1)
    BY <2>1, FS_Interval
  <2>3. TradesBefore(u) \in SUBSET (1 .. u - 1)
    BY DEF TradesBefore
  <2>. QED  BY <2>2, <2>3, FS_Subset, FS_CardinalityType
<1>3. ASSUME NEW u \in Landed, NEW v \in Landed, u < v,
             chain[u].market = chain[v].market, ~ chain[u].err
      PROVE  Cardinality(TradesBefore(u)) < Cardinality(TradesBefore(v))
  <2>1. u \in Nat /\ v \in Nat /\ u \in 1 .. v - 1
    BY <1>3, LandedFacts DEF Landed
  <2>2. /\ TradesBefore(u) \in SUBSET TradesBefore(v)
        /\ u \in TradesBefore(v) /\ u \notin TradesBefore(u)
    BY <1>3, <2>1 DEF TradesBefore
  <2>3. TradesBefore(u) # TradesBefore(v)
    BY <2>2
  <2>4. /\ Cardinality(TradesBefore(u)) =< Cardinality(TradesBefore(v))
        /\ Cardinality(TradesBefore(u)) # Cardinality(TradesBefore(v))
    BY <1>2, <2>2, <2>3, FS_Subset
  <2>. QED  BY <1>2, <2>4
<1>4. CASE s = t
  BY <1>1, <1>2, <1>4 DEF recordId
<1>5. CASE s < t
  <2>1. Cardinality(TradesBefore(s)) < Cardinality(TradesBefore(t))
    BY <1>3, <1>5
  <2>. QED  BY <1>1, <1>2, <1>5, <2>1 DEF recordId
<1>6. CASE t < s
  <2>1. Cardinality(TradesBefore(t)) < Cardinality(TradesBefore(s))
    BY <1>3, <1>6
  <2>. QED  BY <1>1, <1>2, <1>6, <2>1 DEF recordId
<1>. QED  BY <1>1, <1>4, <1>5, <1>6

(* Whatever sort function: "less than" is of no later key, and the other   *)
(* answer of no earlier one.                                               *)
LEMMA LessThanFacts ==
    ASSUME ChainInv, NEW e \in Landed, NEW t \in Landed,
           EventType = "TradeRecord" => ~ chain[e].err /\ ~ chain[t].err
    PROVE  /\ LessThan(e, t) => SortKey(e) =< SortKey(t)
           /\ ~ LessThan(e, t) => SortKey(t) =< SortKey(e)
<1>1. e \in Nat /\ t \in Nat /\ Slot(e) \in Nat /\ Slot(t) \in Nat
  BY LandedFacts
<1>2. CASE EventType # "TradeRecord"
  BY <1>1, <1>2 DEF LessThan, SortKey, defaultBlockchainSortFn, Slot
<1>3. CASE EventType = "TradeRecord" /\ chain[e].market # chain[t].market
  <2>1. ts(e) \in Nat /\ ts(t) \in Nat
    BY TimeFacts
  <2>. QED  BY <1>3, <2>1 DEF LessThan, SortKey, tradeRecordSortFn
<1>4. CASE EventType = "TradeRecord" /\ chain[e].market = chain[t].market
  <2>1. LessThan(e, t) <=> e =< t
    <3>1. LessThan(e, t) <=> recordId(e) =< recordId(t)
      BY <1>4 DEF LessThan, tradeRecordSortFn
    <3>. QED  BY <1>4, <3>1, IdsInOrder
  <2>2. (e =< t => ts(e) =< ts(t)) /\ (t =< e => ts(t) =< ts(e))
    BY TimeFacts
  <2>. QED  BY <1>1, <1>4, <2>1, <2>2 DEF SortKey
<1>. QED  BY <1>2, <1>3, <1>4

(* The sort puts a transaction behind as many as are to come before it.    *)
LEMMA PageSorted ==
    ASSUME ChainInv, NEW T \in SUBSET Landed
    PROVE  SortedBySlot(T) \in Seq(T) /\ InOrder(SortedBySlot(T))
<1>. DEFINE n == Cardinality(T)
            rank == [t \in T |-> Cardinality(Ahead(T, t))]
            page == SortedBySlot(T)
<1>1. IsFiniteSet(T) /\ n \in Nat
  BY LandedFacts, FS_Subset, FS_CardinalityType
<1>2. \A t \in T : t \in Nat /\ Slot(t) \in Nat
  BY LandedFacts
<1>3. ASSUME NEW s \in T, NEW t \in T, Earlier(s, t)
      PROVE  /\ Ahead(T, s) \in SUBSET Ahead(T, t)
             /\ s \in Ahead(T, t) /\ s \notin Ahead(T, s)
  BY <1>2, <1>3 DEF Ahead, Earlier, Slot
<1>4. ASSUME NEW t \in T
      PROVE  /\ Ahead(T, t) \in SUBSET T /\ t \notin Ahead(T, t)
             /\ IsFiniteSet(Ahead(T, t)) /\ rank[t] \in Nat /\ rank[t] < n
  <2>1. Ahead(T, t) \in SUBSET T /\ t \notin Ahead(T, t)
    BY <1>2 DEF Ahead, Earlier, Slot
  <2>2. IsFiniteSet(Ahead(T, t)) /\ Cardinality(Ahead(T, t)) \in Nat
    BY <1>1, <2>1, FS_Subset, FS_CardinalityType
  <2>3. Ahead(T, t) # T
    BY <2>1
  <2>4. Cardinality(Ahead(T, t)) =< n /\ Cardinality(Ahead(T, t)) # n
    BY <1>1, <2>1, <2>3, FS_Subset
  <2>. QED  BY <1>1, <2>1, <2>2, <2>4
<1>5. ASSUME NEW s \in T, NEW t \in T, Earlier(s, t) PROVE rank[s] < rank[t]
  <2>1. /\ Ahead(T, s) \in SUBSET Ahead(T, t) /\ Ahead(T, s) # Ahead(T, t)
        /\ IsFiniteSet(Ahead(T, t))
    BY <1>3, <1>4, <1>5
  <2>2. /\ Cardinality(Ahead(T, s)) =< Cardinality(Ahead(T, t))
        /\ Cardinality(Ahead(T, s)) # Cardinality(Ahead(T, t))
    BY <2>1, FS_Subset
  <2>3. rank[s] \in Nat /\ rank[t] \in Nat
    BY <1>4
  <2>. QED  BY <2>2, <2>3
<1>6. \A s, t \in T : s = t \/ Earlier(s, t) \/ Earlier(t, s)
  BY <1>2 DEF Earlier, Slot
<1>7. rank \in Injection(T, 0 .. n - 1)
  <2>1. \A t \in T : rank[t] \in 0 .. n - 1
    BY <1>1, <1>4
  <2>2. rank \in [T -> 0 .. n - 1]
    BY <2>1
  <2>3. ASSUME NEW s \in T, NEW t \in T, rank[s] = rank[t] PROVE s = t
    <3>1. rank[s] \in Nat /\ rank[t] \in Nat
      BY <1>4
    <3>. HIDE DEF rank
    <3>. QED  BY <1>5, <1>6, <2>3, <3>1
  <2>. HIDE DEF rank
  <2>. QED  BY <2>2, <2>3 DEF Injection, IsInjective
<1>8. IsFiniteSet(0 .. n - 1) /\ Cardinality(0 .. n - 1) = n
  BY <1>1, FS_Interval
<1>9. rank \in Surjection(T, 0 .. n - 1)
  <2>. HIDE DEF rank, n
  <2>1. n = Cardinality(T)
    BY DEF n
  <2>. QED  BY <1>7, <1>8, <2>1, FS_Injection
<1>10. ASSUME NEW k \in 1 .. n PROVE page[k] \in T /\ rank[page[k]] = k - 1
  <2>1. k - 1 \in 0 .. n - 1
    BY <1>1
  <2>2. PICK u \in T : rank[u] = k - 1
    BY <1>9, <2>1 DEF Surjection
  <2>3. page[k] = CHOOSE t \in T : Cardinality(Ahead(T, t)) = k - 1
    BY DEF SortedBySlot
  <2>. HIDE DEF page
  <2>4. Cardinality(Ahead(T, u)) = k - 1
    BY <2>2
  <2>5. page[k] \in T /\ Cardinality(Ahead(T, page[k])) = k - 1
    BY <2>3, <2>4, Zenon
  <2>. QED  BY <2>5
<1>11. page = [k \in 1 .. n |-> page[k]]
  BY DEF SortedBySlot
<1>. HIDE DEF rank, page
<1>12. page \in Seq(T) /\ DOMAIN page = 1 .. n
  <2>1. page \in [1 .. n -> T]
    BY <1>10, <1>11
  <2>. QED  BY <1>1, <2>1
<1>13. ASSUME NEW i \in 1 .. n, NEW j \in 1 .. n, i < j PROVE Slot(page[i]) =< Slot(page[j])
  <2>1. page[i] \in T /\ page[j] \in T /\ rank[page[i]] < rank[page[j]]
    BY <1>1, <1>10, <1>13
  <2>2. rank[page[i]] \in Nat /\ rank[page[j]] \in Nat
    BY <1>4, <2>1
  <2>3. page[i] # page[j] /\ ~ Earlier(page[j], page[i])
    BY <1>5, <2>1, <2>2
  <2>4. Earlier(page[i], page[j])
    BY <1>6, <2>1, <2>3
  <2>. QED  BY <1>2, <2>1, <2>4 DEF Earlier, Slot
<1>. QED  BY <1>12, <1>13 DEF page, InOrder

LEMMA PageFetched ==
    ASSUME ChainInv, NEW before \in Nat, NEW until \in Nat
    PROVE  /\ Page(fetchLogs(before, until))
           /\ \A i \in DOMAIN fetchLogs(before, until) : until < fetchLogs(before, until)[i]
<1>. DEFINE T == {t \in getSignaturesForAddress(before, until) : ~ chain[t].err}
<1>1. T \in SUBSET Landed /\ \A t \in T : until < t
  BY DEF getSignaturesForAddress
<1>2. fetchLogs(before, until) = SortedBySlot(T)
  BY DEF fetchLogs
<1>. HIDE DEF T
<1>. DEFINE page == SortedBySlot(T)
<1>3. page \in Seq(T) /\ InOrder(page)
  BY <1>1, PageSorted
<1>. HIDE DEF page
<1>4. page \in Seq(Landed) /\ \A i \in DOMAIN page : until < page[i]
  BY <1>1, <1>3
<1>. QED  BY <1>2, <1>3, <1>4 DEF page, Page

-----------------------------------------------------------------------------
(* The linked list.  Linked(L, s): from its head on, L has the nodes s, in *)
(* both directions.                                                        *)

LEMMA InjectiveBounded ==
    ASSUME NEW T, IsFiniteSet(T), NEW s \in Seq(T), IsInjective(s)
    PROVE  Len(s) =< Cardinality(T)
<1>1. Len(s) \in Nat /\ s \in [1 .. Len(s) -> T] /\ DOMAIN s = 1 .. Len(s)
  BY LenProperties
<1>2. s \in Injection(1 .. Len(s), T)
  BY <1>1 DEF Injection, IsInjective
<1>3. Cardinality(1 .. Len(s)) = Len(s)
  BY <1>1, FS_Interval
<1>. QED  BY <1>2, <1>3, FS_Injection

Node == [event : Nat, next : Nat, prev : Nat]
ListType == [node : Seq(Node), head : Nat, tail : Nat, size : Int]

At(s, i) == IF i \in 1 .. Len(s) THEN s[i] ELSE 0

Linked(L, s) ==
    /\ L \in ListType
    /\ s \in Seq(1 .. Len(L.node)) /\ IsInjective(s)
    /\ L.head = At(s, 1)
    /\ \A i \in 1 .. Len(s) : /\ L.node[s[i]].next = At(s, i + 1)
                              /\ L.node[s[i]].prev = At(s, i - 1)

LEMMA LinkedFacts ==
    ASSUME NEW L, NEW s, Linked(L, s)
    PROVE  /\ Len(L.node) \in Nat /\ Len(s) \in Nat /\ Len(s) =< Len(L.node)
           /\ DOMAIN s = 1 .. Len(s) /\ DOMAIN L.node = 1 .. Len(L.node)
           /\ \A i \in 1 .. Len(s) : s[i] \in 1 .. Len(L.node) /\ s[i] \in Nat \ {0}
           /\ \A n \in 1 .. Len(L.node) : L.node[n] \in Node
           /\ \A i, j \in 1 .. Len(s) : s[i] = s[j] => i = j
           /\ \A i : At(s, i) \in Nat
           /\ \A i \in 1 .. Len(s) : At(s, i) = s[i] /\ At(s, i) # 0
           /\ L \in ListType /\ s \in Seq(1 .. Len(L.node)) /\ L.size \in Int /\ L.tail \in Nat
<1>. DEFINE n == Len(L.node)
<1>1. /\ L.node \in Seq(Node) /\ s \in Seq(1 .. n) /\ IsInjective(s)
      /\ L \in ListType /\ L.size \in Int /\ L.tail \in Nat
  BY DEF Linked, ListType
<1>2. n \in Nat /\ DOMAIN L.node = 1 .. n /\ \A i \in 1 .. n : L.node[i] \in Node
  BY <1>1, LenProperties
<1>. HIDE DEF n
<1>3. Len(s) \in Nat /\ DOMAIN s = 1 .. Len(s) /\ \A i \in 1 .. Len(s) : s[i] \in 1 .. n
  BY <1>1, LenProperties
<1>4. IsFiniteSet(1 .. n) /\ Cardinality(1 .. n) = n
  BY <1>2, FS_Interval
<1>5. Len(s) =< n
  BY <1>1, <1>4, InjectiveBounded
<1>6. \A i \in 1 .. Len(s) : s[i] \in Nat \ {0}
  BY <1>2, <1>3
<1>7. \A i, j \in 1 .. Len(s) : s[i] = s[j] => i = j
  BY <1>1, <1>3 DEF IsInjective
<1>8. (\A i : At(s, i) \in Nat) /\ (\A i \in 1 .. Len(s) : At(s, i) = s[i] /\ At(s, i) # 0)
  BY <1>6 DEF At
<1>. QED  BY <1>1, <1>2, <1>3, <1>5, <1>6, <1>7, <1>8 DEF n

(* The nodes the iterator of nodes_of has, after k steps.                  *)
Visited(s, k) == [i \in 1 .. (IF k < Len(s) THEN k ELSE Len(s)) + 1 |-> At(s, i)]

LEMMA VisitedFacts ==
    ASSUME NEW L, NEW s, Linked(L, s), NEW k \in Nat
    PROVE  LET m == IF k < Len(s) THEN k ELSE Len(s)
           IN /\ m \in Nat /\ m =< Len(s)
              /\ Visited(s, k) \in Seq(Nat) /\ Len(Visited(s, k)) = m + 1
              /\ \A i \in 1 .. m + 1 : Visited(s, k)[i] = At(s, i)
              /\ Last(Visited(s, k)) = At(s, m + 1)
<1>. DEFINE m == IF k < Len(s) THEN k ELSE Len(s)
            v == Visited(s, k)
<1>1. m \in Nat /\ m =< Len(s)
  BY LinkedFacts
<1>2. v = [i \in 1 .. m + 1 |-> At(s, i)]
  BY DEF Visited
<1>. HIDE DEF m, v
<1>3. v \in [1 .. m + 1 -> Nat] /\ \A i \in 1 .. m + 1 : v[i] = At(s, i)
  BY <1>2, LinkedFacts
<1>4. m + 1 \in Nat /\ m + 1 \in 1 .. m + 1
  BY <1>1
<1>5. v \in Seq(Nat) /\ Len(v) = m + 1
  BY <1>3, <1>4
<1>6. Last(v) = At(s, m + 1)
  BY <1>3, <1>4, <1>5 DEF Last
<1>. QED  BY <1>1, <1>3, <1>5, <1>6 DEF m, v

WalkOn(L, nodes) ==
    IF Last(nodes) = 0 THEN nodes ELSE Append(nodes, L.node[Last(nodes)].next)

LEMMA VisitedStep ==
    ASSUME NEW L, NEW s, Linked(L, s), NEW k \in Nat
    PROVE  Visited(s, k + 1) = WalkOn(L, Visited(s, k))
<1>1. Len(s) \in Nat
  BY LinkedFacts
<1>2. CASE k < Len(s)
  <2>1. k + 1 \in 1 .. Len(s)
    BY <1>1, <1>2
  <2>2. /\ Visited(s, k) \in Seq(Nat) /\ Len(Visited(s, k)) = k + 1
        /\ \A i \in 1 .. k + 1 : Visited(s, k)[i] = At(s, i)
        /\ Last(Visited(s, k)) = At(s, k + 1)
    BY <1>2, VisitedFacts
  <2>3. At(s, k + 1) = s[k + 1] /\ At(s, k + 1) # 0
    BY <2>1, LinkedFacts
  <2>4. L.node[s[k + 1]].next = At(s, (k + 1) + 1)
    BY <2>1 DEF Linked
  <2>5. WalkOn(L, Visited(s, k)) = Append(Visited(s, k), At(s, k + 2))
    BY <2>2, <2>3, <2>4 DEF WalkOn
  <2>6. /\ Visited(s, k + 1) \in Seq(Nat) /\ Len(Visited(s, k + 1)) = k + 2
        /\ \A i \in 1 .. k + 2 : Visited(s, k + 1)[i] = At(s, i)
    <3>1. (IF k + 1 < Len(s) THEN k + 1 ELSE Len(s)) = k + 1
      BY <1>1, <1>2
    <3>2. /\ Visited(s, k + 1) \in Seq(Nat) /\ Len(Visited(s, k + 1)) = (k + 1) + 1
          /\ \A i \in 1 .. (k + 1) + 1 : Visited(s, k + 1)[i] = At(s, i)
      <4>1. k + 1 \in Nat
        OBVIOUS
      <4>. QED  BY <3>1, <4>1, VisitedFacts, Zenon
    <3>3. (k + 1) + 1 = k + 2
      OBVIOUS
    <3>. QED  BY <3>2, <3>3, Zenon
  <2>7. At(s, k + 2) \in Nat
    BY LinkedFacts
  <2>. DEFINE v == Visited(s, k)
              w == Append(v, At(s, k + 2))
  <2>8. /\ w \in Seq(Nat) /\ Len(w) = k + 2
        /\ \A i \in 1 .. k + 2 : w[i] = At(s, i)
    <3>. HIDE DEF v
    <3>1. v \in Seq(Nat) /\ Len(v) = k + 1 /\ \A i \in 1 .. k + 1 : v[i] = At(s, i)
      BY <2>2 DEF v
    <3>2. w \in Seq(Nat) /\ Len(w) = k + 2 /\ w[k + 2] = At(s, k + 2)
      BY <2>7, <3>1
    <3>3. \A i \in 1 .. k + 1 : w[i] = v[i]
      BY <2>7, <3>1
    <3>. QED  BY <3>1, <3>2, <3>3
  <2>. HIDE DEF w
  <2>9. Visited(s, k + 1) = w
    BY <2>6, <2>8, SeqEqual
  <2>. QED  BY <2>5, <2>9 DEF w, v
<1>3. CASE ~ (k < Len(s))
  <2>1. Last(Visited(s, k)) = At(s, Len(s) + 1)
    BY <1>3, VisitedFacts
  <2>2. At(s, Len(s) + 1) = 0
    BY <1>1 DEF At
  <2>3. Visited(s, k + 1) = Visited(s, k)
    BY <1>1, <1>3 DEF Visited
  <2>. QED  BY <2>1, <2>2, <2>3 DEF WalkOn
<1>. QED  BY <1>2, <1>3

LEMMA NodesOf ==
    ASSUME NEW L, NEW s, Linked(L, s)
    PROVE  nodes_of(L) = s
<1>. DEFINE Iter(f) == f = [k \in Nat |->
                              IF k = 0 THEN <<L.head>>
                              ELSE IF Last(f[k - 1]) = 0 THEN f[k - 1]
                                   ELSE Append(f[k - 1], L.node[Last(f[k - 1])].next)]
            from == CHOOSE f : Iter(f)
            walk == [k \in Nat |-> Visited(s, k)]
<1>1. nodes_of(L) = Front(from[Len(L.node)])
  BY Zenon DEF nodes_of
<1>2. Visited(s, 0) = <<L.head>>
  <2>1. (IF 0 < Len(s) THEN 0 ELSE Len(s)) = 0
    BY LinkedFacts
  <2>2. /\ Visited(s, 0) \in Seq(Nat) /\ Len(Visited(s, 0)) = 1
        /\ Visited(s, 0)[1] = At(s, 1)
    <3>1. /\ Visited(s, 0) \in Seq(Nat) /\ Len(Visited(s, 0)) = 0 + 1
          /\ \A i \in 1 .. 0 + 1 : Visited(s, 0)[i] = At(s, i)
      <4>1. 0 \in Nat
        OBVIOUS
      <4>. QED  BY <2>1, <4>1, VisitedFacts, Zenon
    <3>. QED  BY <3>1
  <2>3. L.head = At(s, 1)
    BY DEF Linked
  <2>. QED  BY <2>2, <2>3
<1>3. Iter(walk)
  <2>1. ASSUME NEW k \in Nat
        PROVE  Visited(s, k) = IF k = 0 THEN <<L.head>> ELSE WalkOn(L, walk[k - 1])
    <3>1. CASE k # 0
      <4>1. k - 1 \in Nat /\ (k - 1) + 1 = k
        BY <3>1
      <4>2. Visited(s, (k - 1) + 1) = WalkOn(L, Visited(s, k - 1))
        BY <4>1, VisitedStep
      <4>. QED  BY <3>1, <4>1, <4>2
    <3>. QED  BY <1>2, <3>1
  <2>2. walk = [k \in Nat |-> Visited(s, k)]
    OBVIOUS
  <2>. HIDE DEF walk
  <2>. QED  BY <2>1, <2>2 DEF WalkOn
<1>4. Iter(from)
  BY <1>3, Zenon
<1>. HIDE DEF from
<1>5. \A k \in Nat : from[k] = IF k = 0 THEN <<L.head>> ELSE WalkOn(L, from[k - 1])
  BY <1>4 DEF WalkOn
<1>. DEFINE N == {k \in Nat : from[k] = Visited(s, k)}
<1>6. 0 \in N
  BY <1>2, <1>5
<1>7. ASSUME NEW k \in N PROVE k + 1 \in N
  <2>1. k \in Nat /\ from[k] = Visited(s, k) /\ k + 1 \in Nat /\ k + 1 # 0 /\ (k + 1) - 1 = k
    OBVIOUS
  <2>2. from[k + 1] = WalkOn(L, Visited(s, k))
    BY <1>5, <2>1
  <2>3. from[k + 1] = Visited(s, k + 1)
    BY <2>1, <2>2, VisitedStep
  <2>. QED  BY <2>1, <2>3
<1>8. N = Nat
  <2>1. N \in SUBSET Nat
    OBVIOUS
  <2>. HIDE DEF N
  <2>. QED  BY <1>6, <1>7, <2>1, NatSetInduction
<1>. DEFINE v == Visited(s, Len(L.node))
<1>9. from[Len(L.node)] = v
  BY <1>8, LinkedFacts
<1>10. /\ v \in Seq(Nat) /\ Len(v) = Len(s) + 1
       /\ \A i \in 1 .. Len(s) + 1 : v[i] = At(s, i)
  <2>1. (IF Len(L.node) < Len(s) THEN Len(L.node) ELSE Len(s)) = Len(s) /\ Len(L.node) \in Nat
    BY LinkedFacts
  <2>. QED  BY <2>1, VisitedFacts
<1>. HIDE DEF v
<1>11. /\ Len(s) \in Nat /\ s \in Seq(Nat)
       /\ \A i \in 1 .. Len(s) : At(s, i) = s[i] /\ s[i] \in Nat
  <2>1. s \in Seq(1 .. Len(L.node)) /\ (1 .. Len(L.node)) \subseteq Nat
    BY LinkedFacts DEF Linked
  <2>. QED  BY <2>1, LinkedFacts, SeqMonotonic
<1>12. Front(v) \in Seq(Nat) /\ Len(Front(v)) = Len(s) /\ \A i \in 1 .. Len(s) : Front(v)[i] = s[i]
  <2>1. \A i \in 1 .. Len(v) - 1 : v[i] \in Nat
    BY <1>10, <1>11
  <2>2. Len(v) - 1 = Len(s)
    BY <1>10, <1>11
  <2>3. /\ SubSeq(v, 1, Len(s)) \in Seq(Nat) /\ Len(SubSeq(v, 1, Len(s))) = Len(s)
        /\ \A i \in 1 .. Len(s) : SubSeq(v, 1, Len(s))[i] = v[i]
    BY <1>10, <1>11, <2>1, <2>2, SubSeqProperties
  <2>. QED  BY <1>10, <1>11, <2>2, <2>3 DEF Front
<1>13. Front(v) = s
  BY <1>11, <1>12, SeqEqual
<1>. QED  BY <1>1, <1>9, <1>13

-----------------------------------------------------------------------------
(* Sequences with a part cut out, and with an element put in.              *)

Cut(s, i, j) ==
    [m \in 1 .. i + (Len(s) + 1 - j) |-> IF m =< i THEN s[m] ELSE s[m + (j - i - 1)]]

PutIn(s, k, n) ==
    [m \in 1 .. Len(s) + 1 |-> IF m =< k THEN s[m] ELSE IF m = k + 1 THEN n ELSE s[m - 1]]

LEMMA CutFacts ==
    ASSUME NEW T, NEW s \in Seq(T), NEW i \in 0 .. Len(s), NEW j \in 1 .. Len(s) + 1, i < j
    PROVE  LET c == Cut(s, i, j)
               from(m) == IF m =< i THEN m ELSE m + (j - i - 1)
           IN /\ c \in Seq(T) /\ Len(c) = i + (Len(s) + 1 - j)
              /\ DOMAIN c = 1 .. Len(c)
              /\ \A m \in 1 .. Len(c) : from(m) \in 1 .. Len(s) /\ c[m] = s[from(m)]
              /\ \A m \in 0 .. Len(c) + 1 : At(c, m) = At(s, from(m))
              /\ IsInjective(s) => IsInjective(c)
<1>. DEFINE n == Len(s)
            c == Cut(s, i, j)
            l == i + (n + 1 - j)
            from(m) == IF m =< i THEN m ELSE m + (j - i - 1)
<1>1. n \in Nat /\ i \in Nat /\ j \in Nat /\ i =< n /\ j =< n + 1 /\ l \in Nat /\ j > 0
      /\ DOMAIN s = 1 .. n /\ \A m \in 1 .. n : s[m] \in T
  BY LenProperties
<1>2. c = [m \in 1 .. l |-> s[from(m)]]
  BY DEF Cut
<1>3. \A m \in 1 .. l : from(m) \in 1 .. n
  BY <1>1
<1>. HIDE DEF n, c
<1>4. \A m \in 1 .. l : c[m] = s[from(m)] /\ c[m] \in T
  BY <1>1, <1>2, <1>3
<1>5. c \in Seq(T) /\ Len(c) = l /\ DOMAIN c = 1 .. l
  <2>1. c \in [1 .. l -> T]
    BY <1>2, <1>4
  <2>. HIDE DEF l
  <2>. QED  BY <1>1, <2>1
<1>6. ASSUME NEW m \in 0 .. l + 1 PROVE At(c, m) = At(s, from(m))
  <2>1. CASE m \in 1 .. l
    BY <1>1, <1>3, <1>4, <1>5, <2>1 DEF At, n
  <2>2. CASE m = 0
    <3>1. from(m) = 0
      BY <1>1, <2>2
    <3>. QED  BY <1>1, <2>2, <3>1 DEF At
  <2>3. CASE m = l + 1
    <3>1. from(m) = n + 1
      BY <1>1, <2>3
    <3>2. At(s, n + 1) = 0
      BY <1>1 DEF At, n
    <3>3. At(c, m) = 0
      BY <1>1, <1>5, <2>3 DEF At
    <3>. QED  BY <3>1, <3>2, <3>3
  <2>. QED  BY <1>1, <2>1, <2>2, <2>3
<1>7. ASSUME IsInjective(s) PROVE IsInjective(c)
  <2>1. ASSUME NEW a \in 1 .. l, NEW b \in 1 .. l, c[a] = c[b] PROVE a = b
    <3>1. from(a) \in DOMAIN s /\ from(b) \in DOMAIN s /\ s[from(a)] = s[from(b)]
      BY <1>1, <1>3, <1>4, <2>1
    <3>2. from(a) = from(b)
      BY <1>7, <3>1 DEF IsInjective
    <3>. QED  BY <1>1, <3>2
  <2>. QED  BY <1>5, <2>1 DEF IsInjective
<1>. QED  BY <1>3, <1>4, <1>5, <1>6, <1>7 DEF c, n

LEMMA PutInFacts ==
    ASSUME NEW T, NEW s \in Seq(T), NEW k \in 0 .. Len(s), NEW n \in T
    PROVE  LET c == PutIn(s, k, n)
           IN /\ c \in Seq(T) /\ Len(c) = Len(s) + 1
              /\ DOMAIN c = 1 .. Len(c)
              /\ \A m \in 1 .. Len(c) :
                    c[m] = IF m =< k THEN s[m] ELSE IF m = k + 1 THEN n ELSE s[m - 1]
              /\ \A m \in 0 .. Len(c) + 1 :
                    At(c, m) = IF m =< k THEN At(s, m)
                               ELSE IF m = k + 1 THEN n ELSE At(s, m - 1)
              /\ IsInjective(s) /\ (\A m \in 1 .. Len(s) : s[m] # n) => IsInjective(c)
<1>. DEFINE l == Len(s)
            c == PutIn(s, k, n)
<1>1. l \in Nat /\ k \in Nat /\ k =< l /\ DOMAIN s = 1 .. l /\ \A m \in 1 .. l : s[m] \in T
  BY LenProperties
<1>2. c = [m \in 1 .. l + 1 |-> IF m =< k THEN s[m] ELSE IF m = k + 1 THEN n ELSE s[m - 1]]
  BY DEF PutIn
<1>. HIDE DEF l, c
<1>3. \A m \in 1 .. l + 1 :
         /\ c[m] = IF m =< k THEN s[m] ELSE IF m = k + 1 THEN n ELSE s[m - 1]
         /\ m =< k => m \in 1 .. l
         /\ m > k + 1 => m - 1 \in 1 .. l
  BY <1>1, <1>2
<1>4. \A m \in 1 .. l + 1 : c[m] \in T
  BY <1>1, <1>3
<1>5. c \in Seq(T) /\ Len(c) = l + 1 /\ DOMAIN c = 1 .. l + 1
  <2>1. c \in [1 .. l + 1 -> T]
    BY <1>2, <1>4
  <2>. QED  BY <1>1, <2>1
<1>6. ASSUME NEW m \in 0 .. (l + 1) + 1
      PROVE  At(c, m) = IF m =< k THEN At(s, m) ELSE IF m = k + 1 THEN n ELSE At(s, m - 1)
  <2>1. CASE m \in 1 .. l + 1
    BY <1>1, <1>3, <1>5, <2>1 DEF At, l
  <2>2. CASE m = 0
    BY <1>1, <2>2 DEF At
  <2>3. CASE m = l + 2
    <3>1. At(c, m) = 0
      BY <1>1, <1>5, <2>3 DEF At
    <3>2. At(s, m - 1) = 0
      BY <1>1, <2>3 DEF At, l
    <3>. QED  BY <1>1, <2>3, <3>1, <3>2
  <2>. QED  BY <1>1, <2>1, <2>2, <2>3
<1>7. ASSUME IsInjective(s), \A m \in 1 .. l : s[m] # n PROVE IsInjective(c)
  <2>1. \A a, b \in 1 .. l : s[a] = s[b] => a = b
    BY <1>1, <1>7 DEF IsInjective
  <2>2. ASSUME NEW a \in 1 .. l + 1, NEW b \in 1 .. l + 1, c[a] = c[b] PROVE a = b
    <3>. DEFINE from(m) == IF m =< k THEN m ELSE m - 1
    <3>1. \A m \in 1 .. l + 1 : m # k + 1 => from(m) \in 1 .. l /\ c[m] = s[from(m)]
      BY <1>1, <1>3
    <3>2. c[k + 1] = n
      BY <1>1, <1>3
    <3>3. CASE a = k + 1 \/ b = k + 1
      BY <1>7, <2>2, <3>1, <3>2, <3>3
    <3>4. CASE a # k + 1 /\ b # k + 1
      <4>1. from(a) \in 1 .. l /\ from(b) \in 1 .. l /\ s[from(a)] = s[from(b)]
        BY <2>2, <3>1, <3>4
      <4>2. from(a) = from(b)
        BY <2>1, <4>1
      <4>. QED  BY <1>1, <3>4, <4>2
    <3>. QED  BY <3>3, <3>4
  <2>. QED  BY <1>5, <2>2 DEF IsInjective
<1>. QED  BY <1>3, <1>5, <1>6, <1>7 DEF c, l

-----------------------------------------------------------------------------
(* Pointers set.                                                           *)

LEMMA SetNextFacts ==
    ASSUME NEW L \in ListType, NEW n \in 0 .. Len(L.node), NEW next \in Nat
    PROVE  LET M == SetNext(L, n, next)
           IN /\ M \in ListType /\ Len(M.node) = Len(L.node)
              /\ M.head = IF n = 0 THEN next ELSE L.head
              /\ M.tail = L.tail /\ M.size = L.size
              /\ \A m \in 1 .. Len(L.node) :
                    /\ M.node[m].next = IF m = n THEN next ELSE L.node[m].next
                    /\ M.node[m].prev = L.node[m].prev
                    /\ M.node[m].event = L.node[m].event
<1>1. L.node \in Seq(Node) /\ Len(L.node) \in Nat
  BY DEF ListType
<1>2. CASE n = 0
  BY <1>1, <1>2 DEF SetNext, ListType
<1>3. CASE n # 0
  <2>. DEFINE e == [L.node[n] EXCEPT !.next = next]
              nodes == [L.node EXCEPT ![n] = e]
  <2>1. n \in 1 .. Len(L.node) /\ L.node[n] \in Node
    BY <1>1, <1>3
  <2>2. /\ e \in Node /\ e.next = next /\ e.prev = L.node[n].prev
        /\ e.event = L.node[n].event
    BY <2>1 DEF Node
  <2>3. SetNext(L, n, next) = [L EXCEPT !.node = nodes]
    BY <1>1, <1>3, <2>1 DEF SetNext
  <2>. HIDE DEF e
  <2>4. /\ nodes \in Seq(Node) /\ Len(nodes) = Len(L.node)
        /\ \A m \in 1 .. Len(L.node) : nodes[m] = IF m = n THEN e ELSE L.node[m]
    BY <1>1, <2>1, <2>2, ExceptSeq
  <2>. HIDE DEF nodes
  <2>. QED  BY <1>1, <1>3, <2>2, <2>3, <2>4 DEF ListType
<1>. QED  BY <1>2, <1>3

LEMMA SetPrevFacts ==
    ASSUME NEW L \in ListType, NEW n \in 0 .. Len(L.node), NEW prev \in Nat
    PROVE  LET M == SetPrev(L, n, prev)
           IN /\ M \in ListType /\ Len(M.node) = Len(L.node)
              /\ M.head = L.head /\ M.tail = L.tail /\ M.size = L.size
              /\ \A m \in 1 .. Len(L.node) :
                    /\ M.node[m].prev = IF m = n THEN prev ELSE L.node[m].prev
                    /\ M.node[m].next = L.node[m].next
                    /\ M.node[m].event = L.node[m].event
<1>1. L.node \in Seq(Node) /\ Len(L.node) \in Nat
  BY DEF ListType
<1>2. CASE n = 0
  BY <1>1, <1>2 DEF SetPrev, ListType
<1>3. CASE n # 0
  <2>. DEFINE e == [L.node[n] EXCEPT !.prev = prev]
              nodes == [L.node EXCEPT ![n] = e]
  <2>1. n \in 1 .. Len(L.node) /\ L.node[n] \in Node
    BY <1>1, <1>3
  <2>2. /\ e \in Node /\ e.prev = prev /\ e.next = L.node[n].next
        /\ e.event = L.node[n].event
    BY <2>1 DEF Node
  <2>3. SetPrev(L, n, prev) = [L EXCEPT !.node = nodes]
    BY <1>1, <1>3, <2>1 DEF SetPrev
  <2>. HIDE DEF e
  <2>4. /\ nodes \in Seq(Node) /\ Len(nodes) = Len(L.node)
        /\ \A m \in 1 .. Len(L.node) : nodes[m] = IF m = n THEN e ELSE L.node[m]
    BY <1>1, <2>1, <2>2, ExceptSeq
  <2>. HIDE DEF nodes
  <2>. QED  BY <1>1, <1>3, <2>2, <2>3, <2>4 DEF ListType
<1>. QED  BY <1>2, <1>3

-----------------------------------------------------------------------------
(* What the operations do to the sequence of nodes.  Unlinking what is     *)
(* between two nodes cuts it out, whichever node gave the two.             *)

Bypass(L, p, x) == SetPrev(SetNext(L, p, x), x, p)

LEMMA BypassFacts ==
    ASSUME NEW L \in ListType, NEW p \in 0 .. Len(L.node), NEW x \in 0 .. Len(L.node)
    PROVE  LET M == Bypass(L, p, x)
           IN /\ M \in ListType /\ Len(M.node) = Len(L.node)
              /\ M.head = IF p = 0 THEN x ELSE L.head
              /\ M.tail = L.tail /\ M.size = L.size
              /\ \A m \in 1 .. Len(L.node) :
                    /\ M.node[m].next = IF m = p THEN x ELSE L.node[m].next
                    /\ M.node[m].prev = IF m = x THEN p ELSE L.node[m].prev
                    /\ M.node[m].event = L.node[m].event
<1>. DEFINE M1 == SetNext(L, p, x)
            M == SetPrev(M1, x, p)
<1>1. p \in Nat /\ x \in Nat /\ Len(L.node) \in Nat
  BY DEF ListType
<1>2. /\ M1 \in ListType /\ Len(M1.node) = Len(L.node)
      /\ M1.head = IF p = 0 THEN x ELSE L.head
      /\ M1.tail = L.tail /\ M1.size = L.size
      /\ \A m \in 1 .. Len(L.node) :
            /\ M1.node[m].next = IF m = p THEN x ELSE L.node[m].next
            /\ M1.node[m].prev = L.node[m].prev
            /\ M1.node[m].event = L.node[m].event
  BY <1>1, SetNextFacts
<1>. HIDE DEF M1
<1>3. /\ M \in ListType /\ Len(M.node) = Len(M1.node)
      /\ M.head = M1.head /\ M.tail = M1.tail /\ M.size = M1.size
      /\ \A m \in 1 .. Len(M1.node) :
            /\ M.node[m].prev = IF m = x THEN p ELSE M1.node[m].prev
            /\ M.node[m].next = M1.node[m].next
            /\ M.node[m].event = M1.node[m].event
  BY <1>1, <1>2, SetPrevFacts
<1>4. M = Bypass(L, p, x)
  BY DEF M1, Bypass
<1>. HIDE DEF M
<1>. QED  BY <1>2, <1>3, <1>4

LEMMA CutLinked ==
    ASSUME NEW L, NEW s, Linked(L, s), NEW i \in 0 .. Len(s), NEW j \in 1 .. Len(s) + 1, i < j
    PROVE  Linked(Bypass(L, At(s, i), At(s, j)), Cut(s, i, j))
<1>. DEFINE n == Len(L.node)
            p == At(s, i)
            x == At(s, j)
            M == Bypass(L, p, x)
            c == Cut(s, i, j)
            from(m) == IF m =< i THEN m ELSE m + (j - i - 1)
<1>1. /\ n \in Nat /\ Len(s) \in Nat
      /\ \A m \in 1 .. Len(s) : s[m] \in 1 .. n /\ s[m] # 0 /\ At(s, m) = s[m]
      /\ \A a, b \in 1 .. Len(s) : s[a] = s[b] => a = b
  BY LinkedFacts
<1>2. L \in ListType /\ s \in Seq(1 .. n) /\ IsInjective(s)
  BY DEF Linked
<1>3. p \in 0 .. n /\ x \in 0 .. n
  BY <1>1 DEF At
<1>4. /\ M \in ListType /\ Len(M.node) = n
      /\ M.head = IF p = 0 THEN x ELSE L.head
      /\ \A m \in 1 .. n : /\ M.node[m].next = IF m = p THEN x ELSE L.node[m].next
                           /\ M.node[m].prev = IF m = x THEN p ELSE L.node[m].prev
  BY <1>2, <1>3, BypassFacts
<1>5. /\ c \in Seq(1 .. n) /\ Len(c) = i + (Len(s) + 1 - j) /\ IsInjective(c)
      /\ \A m \in 1 .. Len(c) : from(m) \in 1 .. Len(s) /\ c[m] = s[from(m)]
      /\ \A m \in 0 .. Len(c) + 1 : At(c, m) = At(s, from(m))
  BY <1>2, CutFacts
<1>6. /\ L.head = At(s, 1)
      /\ \A m \in 1 .. Len(s) : L.node[s[m]].next = At(s, m + 1) /\ L.node[s[m]].prev = At(s, m - 1)
  BY DEF Linked
<1>. HIDE DEF M, c, n
<1>7. \A m \in 1 .. Len(s) : (s[m] = p <=> m = i) /\ (s[m] = x <=> m = j)
  BY <1>1 DEF At
<1>8. p = 0 <=> i = 0
  BY <1>1 DEF At
<1>9. M.head = At(c, 1)
  <2>1. Len(c) \in Nat /\ At(c, 1) = At(s, from(1))
    BY <1>1, <1>5
  <2>2. CASE i = 0
    <3>1. from(1) = j
      BY <1>1, <2>2
    <3>. QED  BY <1>4, <1>8, <2>1, <2>2, <3>1
  <2>3. CASE i # 0
    <3>1. from(1) = 1
      BY <1>1, <2>3
    <3>. QED  BY <1>4, <1>6, <1>8, <2>1, <2>3, <3>1
  <2>. QED  BY <2>2, <2>3
<1>10. ASSUME NEW m \in 1 .. Len(c)
       PROVE  M.node[c[m]].next = At(c, m + 1) /\ M.node[c[m]].prev = At(c, m - 1)
  <2>. DEFINE f == from(m)
  <2>1. f \in 1 .. Len(s) /\ c[m] = s[f] /\ s[f] \in 1 .. n
    BY <1>1, <1>5
  <2>2. Len(c) \in Nat /\ m + 1 \in 0 .. Len(c) + 1 /\ m - 1 \in 0 .. Len(c) + 1
    BY <1>1, <1>5
  <2>3. At(c, m + 1) = At(s, from(m + 1)) /\ At(c, m - 1) = At(s, from(m - 1))
    BY <1>5, <2>2
  <2>4. from(m + 1) = (IF f = i THEN j ELSE f + 1) /\ from(m - 1) = (IF f = j THEN i ELSE f - 1)
    BY <1>1, <1>5
  <2>5. /\ M.node[s[f]].next = IF f = i THEN x ELSE At(s, f + 1)
        /\ M.node[s[f]].prev = IF f = j THEN p ELSE At(s, f - 1)
    <3>. HIDE DEF f, p, x
    <3>. QED  BY <1>4, <1>6, <1>7, <2>1
  <2>. HIDE DEF f
  <2>. QED  BY <2>1, <2>3, <2>4, <2>5
<1>11. s \in Seq(1 .. Len(M.node)) /\ c \in Seq(1 .. Len(M.node))
  BY <1>2, <1>4, <1>5
<1>. QED  BY <1>4, <1>5, <1>9, <1>10, <1>11 DEF Linked, M, c

(* A new node between two that follow one another.                         *)
Grown(L, event, place, next) ==
    [L EXCEPT !.node = Append(@, [event |-> event, next |-> next, prev |-> place]),
              !.size = @ + 1]

Spliced(L, s, k, event) ==
    LET n == Len(L.node) + 1
    IN SetPrev(SetNext(Grown(L, event, At(s, k), At(s, k + 1)), At(s, k), n), At(s, k + 1), n)

LEMMA GrownFacts ==
    ASSUME NEW L \in ListType, NEW event \in Nat, NEW place \in Nat, NEW next \in Nat
    PROVE  LET G == Grown(L, event, place, next)
               n == Len(L.node) + 1
           IN /\ G \in ListType /\ Len(G.node) = n
              /\ G.head = L.head /\ G.tail = L.tail /\ G.size = L.size + 1
              /\ G.node[n].event = event /\ G.node[n].next = next /\ G.node[n].prev = place
              /\ \A m \in 1 .. Len(L.node) : G.node[m] = L.node[m]
<1>. DEFINE e == [event |-> event, next |-> next, prev |-> place]
            nodes == Append(L.node, e)
<1>1. e \in Node /\ e.event = event /\ e.next = next /\ e.prev = place
  BY DEF Node
<1>2. L.node \in Seq(Node) /\ Len(L.node) \in Nat
  BY DEF ListType
<1>. HIDE DEF e
<1>3. /\ nodes \in Seq(Node) /\ Len(nodes) = Len(L.node) + 1 /\ nodes[Len(L.node) + 1] = e
      /\ \A m \in 1 .. Len(L.node) : nodes[m] = L.node[m]
  BY <1>1, <1>2
<1>4. Grown(L, event, place, next) = [L EXCEPT !.node = nodes, !.size = L.size + 1]
  BY DEF Grown, ListType, e
<1>. HIDE DEF nodes
<1>. DEFINE G == [L EXCEPT !.node = nodes, !.size = L.size + 1]
<1>5. L.size \in Int /\ L.size + 1 \in Int
  BY DEF ListType
<1>6. /\ G \in ListType /\ G.node = nodes /\ G.head = L.head /\ G.tail = L.tail
      /\ G.size = L.size + 1
  BY <1>3, <1>5 DEF ListType
<1>. HIDE DEF G
<1>7. Grown(L, event, place, next) = G
  BY <1>4 DEF G
<1>. QED  BY <1>1, <1>3, <1>6, <1>7

LEMMA SplicedFacts ==
    ASSUME NEW L, NEW s, Linked(L, s), NEW k \in 0 .. Len(s), NEW event \in Nat
    PROVE  LET M == Spliced(L, s, k, event)
               n == Len(L.node) + 1
           IN /\ M \in ListType /\ Len(M.node) = n
              /\ M.head = IF k = 0 THEN n ELSE L.head
              /\ M.tail = L.tail /\ M.size = L.size + 1
              /\ M.node[n].event = event
              /\ M.node[n].next = At(s, k + 1) /\ M.node[n].prev = At(s, k)
              /\ \A m \in 1 .. Len(L.node) :
                    /\ M.node[m].next = IF m = At(s, k) THEN n ELSE L.node[m].next
                    /\ M.node[m].prev = IF m = At(s, k + 1) THEN n ELSE L.node[m].prev
                    /\ M.node[m].event = L.node[m].event
<1>. DEFINE n == Len(L.node) + 1
            p == At(s, k)
            x == At(s, k + 1)
            G == Grown(L, event, p, x)
            M1 == SetNext(G, p, n)
            M == SetPrev(M1, x, n)
<1>1. /\ L \in ListType /\ Len(L.node) \in Nat /\ Len(s) \in Nat
      /\ \A m \in 1 .. Len(s) : s[m] \in 1 .. Len(L.node)
  BY LinkedFacts DEF Linked
<1>2. /\ p \in 0 .. Len(L.node) /\ x \in 0 .. Len(L.node) /\ p \in Nat /\ x \in Nat /\ n \in Nat
      /\ p \in 0 .. n /\ x \in 0 .. n /\ n # p /\ n # x /\ n \in 1 .. n
      /\ \A m \in 1 .. Len(L.node) : m \in 1 .. n
      /\ p = 0 <=> k = 0
  BY <1>1 DEF At
<1>. HIDE DEF n, p, x
<1>3. /\ G \in ListType /\ Len(G.node) = n
      /\ G.head = L.head /\ G.tail = L.tail /\ G.size = L.size + 1
      /\ G.node[n].event = event /\ G.node[n].next = x /\ G.node[n].prev = p
      /\ \A m \in 1 .. Len(L.node) : G.node[m] = L.node[m]
  BY <1>1, <1>2, GrownFacts DEF n
<1>. HIDE DEF G
<1>4. /\ M1 \in ListType /\ Len(M1.node) = n
      /\ M1.head = IF p = 0 THEN n ELSE G.head
      /\ M1.tail = G.tail /\ M1.size = G.size
      /\ \A m \in 1 .. n :
            /\ M1.node[m].next = IF m = p THEN n ELSE G.node[m].next
            /\ M1.node[m].prev = G.node[m].prev
            /\ M1.node[m].event = G.node[m].event
  BY <1>2, <1>3, SetNextFacts
<1>. HIDE DEF M1
<1>5. /\ M \in ListType /\ Len(M.node) = n
      /\ M.head = M1.head /\ M.tail = M1.tail /\ M.size = M1.size
      /\ \A m \in 1 .. n :
            /\ M.node[m].prev = IF m = x THEN n ELSE M1.node[m].prev
            /\ M.node[m].next = M1.node[m].next
            /\ M.node[m].event = M1.node[m].event
  BY <1>2, <1>4, SetPrevFacts
<1>6. Spliced(L, s, k, event) = M
  BY DEF Spliced, M1, G, n, p, x
<1>. HIDE DEF M
<1>7. /\ M.head = (IF k = 0 THEN n ELSE L.head) /\ M.tail = L.tail /\ M.size = L.size + 1
      /\ M.node[n].event = event /\ M.node[n].next = x /\ M.node[n].prev = p
  BY <1>2, <1>3, <1>4, <1>5
<1>8. \A m \in 1 .. Len(L.node) :
         /\ M.node[m].next = IF m = p THEN n ELSE L.node[m].next
         /\ M.node[m].prev = IF m = x THEN n ELSE L.node[m].prev
         /\ M.node[m].event = L.node[m].event
  BY <1>2, <1>3, <1>4, <1>5
<1>. QED  BY <1>5, <1>6, <1>7, <1>8 DEF n, p, x

LEMMA SpliceLinked ==
    ASSUME NEW L, NEW s, Linked(L, s), NEW k \in 0 .. Len(s), NEW event \in Nat
    PROVE  Linked(Spliced(L, s, k, event), PutIn(s, k, Len(L.node) + 1))
<1>. DEFINE n == Len(L.node) + 1
            M == Spliced(L, s, k, event)
            c == PutIn(s, k, n)
<1>1. /\ Len(L.node) \in Nat /\ Len(s) \in Nat /\ k \in Nat
      /\ \A m \in 1 .. Len(s) :
            /\ s[m] \in 1 .. Len(L.node) /\ s[m] \in 1 .. n /\ s[m] # n /\ s[m] # 0
            /\ At(s, m) = s[m]
      /\ \A a, b \in 1 .. Len(s) : s[a] = s[b] => a = b
  <2>1. /\ Len(L.node) \in Nat /\ Len(s) \in Nat
        /\ \A m \in 1 .. Len(s) : s[m] \in 1 .. Len(L.node) /\ At(s, m) = s[m]
        /\ \A a, b \in 1 .. Len(s) : s[a] = s[b] => a = b
    BY LinkedFacts, Zenon
  <2>. QED  BY <2>1
<1>2. /\ M \in ListType /\ Len(M.node) = n
      /\ M.head = IF k = 0 THEN n ELSE L.head
      /\ M.node[n].next = At(s, k + 1) /\ M.node[n].prev = At(s, k)
      /\ \A m \in 1 .. Len(L.node) :
            /\ M.node[m].next = IF m = At(s, k) THEN n ELSE L.node[m].next
            /\ M.node[m].prev = IF m = At(s, k + 1) THEN n ELSE L.node[m].prev
  BY SplicedFacts
<1>3. s \in Seq(1 .. n) /\ IsInjective(s)
  <2>1. s \in Seq(1 .. Len(L.node)) /\ IsInjective(s) /\ 1 .. Len(L.node) \subseteq 1 .. n
    BY <1>1 DEF Linked
  <2>. HIDE DEF n
  <2>. QED  BY <2>1, SeqMonotonic
<1>4. /\ L.head = At(s, 1)
      /\ \A m \in 1 .. Len(s) : L.node[s[m]].next = At(s, m + 1) /\ L.node[s[m]].prev = At(s, m - 1)
  BY DEF Linked
<1>5. /\ c \in Seq(1 .. n) /\ Len(c) = Len(s) + 1 /\ IsInjective(c)
      /\ \A m \in 1 .. Len(c) : c[m] = IF m =< k THEN s[m] ELSE IF m = k + 1 THEN n ELSE s[m - 1]
      /\ \A m \in 0 .. Len(c) + 1 :
            At(c, m) = IF m =< k THEN At(s, m) ELSE IF m = k + 1 THEN n ELSE At(s, m - 1)
  <2>. DEFINE T == 1 .. n
  <2>1. n \in T /\ (\A m \in 1 .. Len(s) : s[m] # n) /\ s \in Seq(T) /\ IsInjective(s)
    BY <1>1, <1>3
  <2>. HIDE DEF n, T
  <2>2. c \in Seq(T) /\ Len(c) = Len(s) + 1 /\ IsInjective(c)
    BY <2>1, PutInFacts
  <2>3. \A m \in 1 .. Len(c) : c[m] = IF m =< k THEN s[m] ELSE IF m = k + 1 THEN n ELSE s[m - 1]
    BY <2>1, PutInFacts
  <2>4. \A m \in 0 .. Len(c) + 1 :
           At(c, m) = IF m =< k THEN At(s, m) ELSE IF m = k + 1 THEN n ELSE At(s, m - 1)
    BY <2>1, PutInFacts
  <2>. QED  BY <2>2, <2>3, <2>4 DEF T
<1>6. \A m \in 1 .. Len(s) : (s[m] = At(s, k) <=> m = k) /\ (s[m] = At(s, k + 1) <=> m = k + 1)
  BY <1>1 DEF At
<1>. HIDE DEF M, c, n
<1>7. M.head = At(c, 1)
  <2>1. At(c, 1) = IF 1 =< k THEN At(s, 1) ELSE IF 1 = k + 1 THEN n ELSE At(s, 0)
    BY <1>1, <1>5
  <2>. QED  BY <1>1, <1>2, <1>4, <2>1
<1>8. ASSUME NEW m \in 1 .. Len(c)
      PROVE  M.node[c[m]].next = At(c, m + 1) /\ M.node[c[m]].prev = At(c, m - 1)
  <2>1. m + 1 \in 0 .. Len(c) + 1 /\ m - 1 \in 0 .. Len(c) + 1 /\ m \in Nat
    BY <1>1, <1>5
  <2>2. /\ At(c, m + 1) = IF m + 1 =< k THEN At(s, m + 1)
                          ELSE IF m + 1 = k + 1 THEN n ELSE At(s, (m + 1) - 1)
        /\ At(c, m - 1) = IF m - 1 =< k THEN At(s, m - 1)
                          ELSE IF m - 1 = k + 1 THEN n ELSE At(s, (m - 1) - 1)
    BY <1>5, <2>1
  <2>3. CASE m =< k
    <3>1. c[m] = s[m] /\ m \in 1 .. Len(s) /\ m # k + 1
      BY <1>1, <1>5, <2>3
    <3>2. /\ M.node[s[m]].next = IF m = k THEN n ELSE At(s, m + 1)
          /\ M.node[s[m]].prev = At(s, m - 1)
      BY <1>1, <1>2, <1>4, <1>6, <3>1
    <3>. QED  BY <1>1, <2>1, <2>2, <2>3, <3>1, <3>2
  <2>4. CASE m = k + 1
    <3>1. c[m] = n /\ (m + 1) - 1 = k + 1 /\ m - 1 = k
      BY <1>1, <1>5, <2>4
    <3>2. At(c, m + 1) = At(s, k + 1) /\ At(c, m - 1) = At(s, k)
      BY <1>1, <2>1, <2>2, <2>4, <3>1
    <3>. QED  BY <1>2, <3>1, <3>2
  <2>5. CASE m > k + 1
    <3>1. c[m] = s[m - 1] /\ m - 1 \in 1 .. Len(s) /\ m - 1 # k
      BY <1>1, <1>5, <2>1, <2>5
    <3>2. /\ M.node[s[m - 1]].next = At(s, (m - 1) + 1)
          /\ M.node[s[m - 1]].prev = IF m - 1 = k + 1 THEN n ELSE At(s, (m - 1) - 1)
      BY <1>1, <1>2, <1>4, <1>6, <3>1
    <3>3. (m - 1) + 1 = m /\ (m + 1) - 1 = m
      BY <2>1
    <3>4. At(c, m + 1) = At(s, m)
      BY <1>1, <2>1, <2>2, <2>5, <3>3
    <3>5. At(c, m - 1) = IF m - 1 = k + 1 THEN n ELSE At(s, (m - 1) - 1)
      BY <1>1, <2>1, <2>2, <2>5
    <3>. QED  BY <3>1, <3>2, <3>3, <3>4, <3>5
  <2>. QED  BY <1>1, <2>1, <2>3, <2>4, <2>5
<1>9. c \in Seq(1 .. Len(M.node))
  BY <1>2, <1>5
<1>. QED  BY <1>2, <1>5, <1>7, <1>8, <1>9 DEF Linked, M, c, n

LEMMA Relinked ==
    ASSUME NEW L, NEW s, Linked(L, s), NEW M \in ListType, M.node = L.node, M.head = L.head
    PROVE  Linked(M, s)
BY DEF Linked

(* The new event goes behind the nodes it does not precede, up to the      *)
(* first that it does.                                                     *)
Fits(L, s, k, event) ==
    /\ k \in 0 .. Len(s)
    /\ \A m \in 1 .. k : ~ Precedes(event, L.node[s[m]].event)
    /\ k < Len(s) => Precedes(event, L.node[s[k + 1]].event)

LEMMA PlaceFits ==
    ASSUME NEW L, NEW s, Linked(L, s), NEW event
    PROVE  \E k \in 0 .. Len(s) : Fits(L, s, k, event) /\ Place(L, event) = At(s, k)
<1>. DEFINE later == {m \in 1 .. Len(s) : Precedes(event, L.node[s[m]].event)}
            k == IF later = {} THEN Len(s) ELSE Min(later) - 1
<1>1. Len(s) \in Nat /\ DOMAIN s = 1 .. Len(s)
  BY LinkedFacts
<1>2. Place(L, event) = IF k = 0 THEN 0 ELSE s[k]
  <2>1. nodes_of(L) = s
    BY NodesOf
  <2>2. later = {m \in DOMAIN nodes_of(L) : Precedes(event, L.node[nodes_of(L)[m]].event)}
    BY <1>1, <2>1
  <2>. HIDE DEF later
  <2>. QED  BY <2>1, <2>2, Zenon DEF Place
<1>3. later \in SUBSET Nat /\ later \subseteq 1 .. Len(s)
  BY <1>1
<1>4. \A m \in 1 .. Len(s) : m \in later <=> Precedes(event, L.node[s[m]].event)
  OBVIOUS
<1>. HIDE DEF later
<1>5. CASE later = {}
  <2>1. k = Len(s)
    BY <1>5
  <2>. HIDE DEF k
  <2>2. k \in 0 .. Len(s) /\ Fits(L, s, k, event)
    BY <1>1, <1>4, <1>5, <2>1 DEF Fits
  <2>3. Place(L, event) = At(s, k)
    BY <1>1, <1>2, <2>1 DEF At
  <2>. QED  BY <2>2, <2>3
<1>6. CASE later # {}
  <2>. DEFINE m == Min(later)
  <2>1. m \in later /\ \A y \in later : m =< y
    BY <1>3, <1>6, MinInSet
  <2>2. k = m - 1
    BY <1>6
  <2>. HIDE DEF m, k
  <2>3. m \in 1 .. Len(s) /\ m \in Nat /\ k + 1 = m
    BY <1>1, <1>3, <2>1, <2>2
  <2>4. k \in 0 .. Len(s) /\ Fits(L, s, k, event)
    <3>1. k \in 0 .. Len(s) /\ k \in Nat
      BY <1>1, <2>2, <2>3
    <3>2. \A a \in 1 .. k : a \in 1 .. Len(s) /\ a \notin later
      BY <1>1, <2>1, <2>2, <2>3
    <3>3. \A a \in 1 .. k : ~ Precedes(event, L.node[s[a]].event)
      BY <1>4, <3>2
    <3>4. Precedes(event, L.node[s[k + 1]].event)
      BY <1>4, <2>1, <2>3
    <3>. QED  BY <3>1, <3>3, <3>4 DEF Fits
  <2>5. Place(L, event) = At(s, k)
    BY <1>1, <1>2, <2>2, <2>3 DEF At
  <2>. QED  BY <2>4, <2>5
<1>. QED  BY <1>5, <1>6

(* The first event of the list.                                            *)
First(L, event) ==
    [Grown(L, event, 0, 0) EXCEPT !.head = Len(L.node) + 1, !.tail = Len(L.node) + 1]

LEMMA InsertCases ==
    ASSUME NEW L, NEW s, Linked(L, s), NEW event \in Nat
    PROVE  \E k \in 0 .. Len(s) :
              /\ Fits(L, s, k, event)
              /\ insert(L, event) = IF s = <<>> THEN First(L, event)
                                    ELSE IF L.size + 1 > MaxEvents
                                         THEN detach(Spliced(L, s, k, event))
                                         ELSE Spliced(L, s, k, event)
<1>1. PICK k \in 0 .. Len(s) : Fits(L, s, k, event) /\ Place(L, event) = At(s, k)
  BY PlaceFits
<1>2. /\ Len(s) \in Nat /\ s \in Seq(1 .. Len(L.node)) /\ L.head = At(s, 1)
      /\ \A i \in 1 .. Len(s) : L.node[s[i]].next = At(s, i + 1)
  BY LinkedFacts DEF Linked
<1>3. (\A i \in 1 .. Len(s) : At(s, i) = s[i] /\ At(s, i) # 0) /\ At(s, 0) = 0
  BY LinkedFacts DEF At
<1>. DEFINE place == At(s, k)
            next == IF place = 0 THEN L.head ELSE L.node[place].next
<1>4. next = At(s, k + 1)
  <2>1. CASE k = 0
    BY <1>2, <1>3, <2>1
  <2>2. CASE k # 0
    <3>1. k \in 1 .. Len(s)
      BY <1>2, <2>2
    <3>. QED  BY <1>2, <1>3, <3>1
  <2>. QED  BY <2>1, <2>2
<1>5. L.head = 0 <=> s = <<>>
  <2>1. s = <<>> <=> Len(s) = 0
    BY <1>2, EmptySeq
  <2>2. Len(s) = 0 => At(s, 1) = 0
    BY DEF At
  <2>3. Len(s) # 0 => At(s, 1) # 0
    BY <1>2, <1>3
  <2>. QED  BY <1>2, <2>1, <2>2, <2>3
<1>. HIDE DEF next, place
<1>6. insert(L, event) =
         IF L.head = 0 THEN [Grown(L, event, place, next) EXCEPT !.head = Len(L.node) + 1,
                                                                 !.tail = Len(L.node) + 1]
         ELSE IF Spliced(L, s, k, event).size > MaxEvents
              THEN detach(Spliced(L, s, k, event)) ELSE Spliced(L, s, k, event)
  BY <1>1, <1>4 DEF insert, Grown, Spliced, next, place
<1>7. Spliced(L, s, k, event).size = L.size + 1
  BY SplicedFacts
<1>8. s = <<>> => place = 0 /\ next = 0
  <2>1. s = <<>> => Len(s) = 0
    BY <1>2, EmptySeq
  <2>. QED  BY <1>4, <2>1 DEF At, place
<1>. QED  BY <1>1, <1>5, <1>6, <1>7, <1>8 DEF First

LEMMA FirstFacts ==
    ASSUME NEW L \in ListType, NEW event \in Nat
    PROVE  LET M == First(L, event)
               n == Len(L.node) + 1
           IN /\ Linked(M, <<n>>) /\ Len(M.node) = n
              /\ M.tail = n /\ M.size = L.size + 1 /\ M.node[n].event = event
              /\ \A m \in 1 .. Len(L.node) : M.node[m] = L.node[m]
<1>. DEFINE n == Len(L.node) + 1
            G == Grown(L, event, 0, 0)
            M == [G EXCEPT !.head = n, !.tail = n]
            s == <<n>>
<1>1. Len(L.node) \in Nat /\ n \in Nat /\ n \in 1 .. n /\ 0 \in Nat
  BY DEF ListType
<1>2. /\ G \in ListType /\ Len(G.node) = n /\ G.size = L.size + 1
      /\ G.node[n].event = event /\ G.node[n].next = 0 /\ G.node[n].prev = 0
      /\ \A m \in 1 .. Len(L.node) : G.node[m] = L.node[m]
  BY <1>1, GrownFacts
<1>3. First(L, event) = M
  BY DEF First
<1>. HIDE DEF G, n
<1>4. /\ M \in ListType /\ M.node = G.node /\ M.head = n /\ M.tail = n /\ M.size = G.size
  BY <1>1, <1>2 DEF ListType
<1>. HIDE DEF M
<1>5. s \in Seq(1 .. n) /\ Len(s) = 1 /\ s[1] = n /\ IsInjective(s)
  BY <1>1 DEF IsInjective
<1>. HIDE DEF s
<1>6. At(s, 1) = n /\ At(s, 1 + 1) = 0 /\ At(s, 1 - 1) = 0
  BY <1>5 DEF At
<1>7. \A i \in 1 .. Len(s) : i = 1
  BY <1>5
<1>8. s \in Seq(1 .. Len(M.node))
  BY <1>2, <1>4, <1>5
<1>9. Linked(M, s)
  BY <1>2, <1>4, <1>5, <1>6, <1>7, <1>8 DEF Linked
<1>. QED  BY <1>2, <1>3, <1>4, <1>9 DEF s, n

(* detach takes what is between the neighbours the tail has, or had when   *)
(* it was detached itself.                                                 *)
LEMMA DetachCuts ==
    ASSUME NEW L, NEW s, Linked(L, s), NEW i \in 0 .. Len(s), NEW j \in 1 .. Len(s) + 1, i < j,
           L.tail \in 1 .. Len(L.node),
           L.node[L.tail].prev = At(s, i), L.node[L.tail].next = At(s, j)
    PROVE  LET M == detach(L)
           IN /\ Linked(M, Cut(s, i, j))
              /\ Len(M.node) = Len(L.node) /\ M.size = L.size - 1
              /\ M.tail = IF j =< Len(s) THEN L.tail ELSE At(s, i)
              /\ \A m \in 1 .. Len(L.node) :
                    /\ M.node[m].next = IF m = At(s, i) THEN At(s, j) ELSE L.node[m].next
                    /\ M.node[m].prev = IF m = At(s, j) THEN At(s, i) ELSE L.node[m].prev
                    /\ M.node[m].event = L.node[m].event
<1>. DEFINE p == At(s, i)
            x == At(s, j)
            B == Bypass(L, p, x)
            t == IF x # 0 THEN L.tail ELSE p
            M == [B EXCEPT !.tail = t, !.size = L.size - 1]
<1>1. /\ L \in ListType /\ Len(L.node) \in Nat /\ Len(s) \in Nat /\ L.size \in Int /\ L.tail \in Nat
      /\ \A m \in 1 .. Len(s) : s[m] \in 1 .. Len(L.node) /\ s[m] # 0
  BY LinkedFacts
<1>2. /\ p \in 0 .. Len(L.node) /\ x \in 0 .. Len(L.node) /\ p \in Nat /\ t \in Nat
      /\ x # 0 <=> j =< Len(s)
  BY <1>1 DEF At
<1>. HIDE DEF p, x
<1>3. /\ B \in ListType /\ Len(B.node) = Len(L.node) /\ B.tail = L.tail /\ B.size = L.size
      /\ \A m \in 1 .. Len(L.node) :
            /\ B.node[m].next = IF m = p THEN x ELSE L.node[m].next
            /\ B.node[m].prev = IF m = x THEN p ELSE L.node[m].prev
            /\ B.node[m].event = L.node[m].event
  <2>1. /\ L \in ListType /\ p \in 0 .. Len(L.node) /\ x \in 0 .. Len(L.node)
    BY <1>1, <1>2
  <2>. HIDE DEF t, M
  <2>2. B \in ListType /\ Len(B.node) = Len(L.node) /\ B.tail = L.tail /\ B.size = L.size
    BY <2>1, BypassFacts
  <2>3. \A m \in 1 .. Len(L.node) : /\ B.node[m].next = IF m = p THEN x ELSE L.node[m].next
                                    /\ B.node[m].prev = IF m = x THEN p ELSE L.node[m].prev
                                    /\ B.node[m].event = L.node[m].event
    BY <2>1, BypassFacts
  <2>. QED  BY <2>2, <2>3
<1>4. Linked(B, Cut(s, i, j))
  BY CutLinked DEF p, x
<1>5. detach(L) = [B EXCEPT !.tail = IF x # 0 THEN B.tail ELSE p, !.size = B.size - 1]
  BY DEF detach, Bypass, p, x
<1>6. detach(L) = M
  BY <1>3, <1>5
<1>. HIDE DEF B, t
<1>7. /\ M \in ListType /\ M.node = B.node /\ M.head = B.head /\ M.tail = t
      /\ M.size = L.size - 1
  <2>1. L.size - 1 \in Int /\ t \in Nat
    BY <1>1, <1>2
  <2>. QED  BY <1>3, <2>1 DEF ListType
<1>. HIDE DEF M
<1>8. Linked(M, Cut(s, i, j))
  BY <1>4, <1>7, Relinked
<1>. QED  BY <1>2, <1>3, <1>6, <1>7, <1>8 DEF t, p, x

(* The tail is a node of the list, or one detached from before the last.   *)
Held(L, s) == \E p \in 1 .. Len(s) : L.tail = s[p]

Dropped(L, s) ==
    /\ L.tail \in 1 .. Len(L.node)
    /\ \A m \in 1 .. Len(s) : s[m] # L.tail
    /\ \E i \in 0 .. Len(s), j \in 1 .. Len(s) :
          i < j /\ L.node[L.tail].prev = At(s, i) /\ L.node[L.tail].next = At(s, j)

Tailed(L, s) == s = <<>> \/ Held(L, s) \/ Dropped(L, s)

LEMMA DetachHeld ==
    ASSUME NEW L, NEW s, Linked(L, s), NEW p \in 1 .. Len(s), L.tail = s[p], Len(s) > 1
    PROVE  LET M == detach(L)
               c == Cut(s, p - 1, p + 1)
           IN /\ Linked(M, c) /\ Tailed(M, c)
              /\ Len(M.node) = Len(L.node) /\ M.size = L.size - 1
              /\ p = Len(s) => M.tail = s[p - 1]
              /\ \A m \in 1 .. Len(L.node) : M.node[m].event = L.node[m].event
<1>. DEFINE M == detach(L)
            i == p - 1
            j == p + 1
            c == Cut(s, i, j)
            from(m) == IF m =< i THEN m ELSE m + (j - i - 1)
<1>1. /\ Len(L.node) \in Nat /\ Len(s) \in Nat /\ s \in Seq(1 .. Len(L.node))
      /\ \A m \in 1 .. Len(s) : s[m] \in 1 .. Len(L.node) /\ s[m] # 0 /\ At(s, m) = s[m]
      /\ \A a, b \in 1 .. Len(s) : s[a] = s[b] => a = b
  BY LinkedFacts
<1>2. /\ i \in 0 .. Len(s) /\ j \in 1 .. Len(s) + 1 /\ i < j /\ j - i - 1 = 1
      /\ i = p - 1 /\ j = p + 1
  BY <1>1
<1>3. /\ L.tail \in 1 .. Len(L.node)
      /\ L.node[L.tail].prev = At(s, i) /\ L.node[L.tail].next = At(s, j)
  BY <1>1 DEF Linked
<1>. HIDE DEF i, j
<1>4. /\ Linked(M, c) /\ Len(M.node) = Len(L.node) /\ M.size = L.size - 1
      /\ M.tail = IF j =< Len(s) THEN L.tail ELSE At(s, i)
      /\ \A m \in 1 .. Len(L.node) :
            /\ M.node[m].next = IF m = At(s, i) THEN At(s, j) ELSE L.node[m].next
            /\ M.node[m].prev = IF m = At(s, j) THEN At(s, i) ELSE L.node[m].prev
            /\ M.node[m].event = L.node[m].event
  BY <1>2, <1>3, DetachCuts
<1>5. /\ c \in Seq(1 .. Len(L.node)) /\ Len(c) = i + (Len(s) + 1 - j)
      /\ \A m \in 1 .. Len(c) : from(m) \in 1 .. Len(s) /\ c[m] = s[from(m)]
      /\ \A m \in 0 .. Len(c) + 1 : At(c, m) = At(s, from(m))
  <2>. DEFINE T == 1 .. Len(L.node)
  <2>1. s \in Seq(T) /\ i \in 0 .. Len(s) /\ j \in 1 .. Len(s) + 1 /\ i < j
    BY <1>1, <1>2
  <2>. HIDE DEF T, M
  <2>2. c \in Seq(T) /\ Len(c) = i + (Len(s) + 1 - j)
    BY <2>1, CutFacts
  <2>3. \A m \in 1 .. Len(c) : from(m) \in 1 .. Len(s) /\ c[m] = s[from(m)]
    BY <2>1, CutFacts
  <2>4. \A m \in 0 .. Len(c) + 1 : At(c, m) = At(s, from(m))
    BY <2>1, CutFacts
  <2>. QED  BY <2>2, <2>3, <2>4 DEF T
<1>. HIDE DEF M, c
<1>6. Len(c) = Len(s) - 1
  BY <1>1, <1>2, <1>5
<1>7. CASE p = Len(s)
  <2>1. M.tail = At(s, i) /\ i \in 1 .. Len(s) /\ At(s, i) = s[i]
    BY <1>1, <1>2, <1>4, <1>7
  <2>2. i \in 1 .. Len(c) /\ c[i] = s[i]
    <3>1. i \in 1 .. Len(c) /\ from(i) = i
      BY <1>1, <1>2, <1>6, <1>7
    <3>. QED  BY <1>5, <3>1
  <2>3. Held(M, c)
    BY <2>1, <2>2 DEF Held
  <2>. QED  BY <1>4, <2>1, <2>3 DEF Tailed, M, c, i, j
<1>8. CASE p # Len(s)
  <2>1. M.tail = L.tail /\ L.tail = s[p] /\ p \in 1 .. Len(s)
    BY <1>1, <1>2, <1>4, <1>8
  <2>2. ASSUME NEW m \in 1 .. Len(c) PROVE c[m] # s[p]
    <3>1. c[m] = s[from(m)] /\ from(m) \in 1 .. Len(s) /\ from(m) # p
      BY <1>1, <1>2, <1>5
    <3>. QED  BY <1>1, <3>1
  <2>3. s[p] # At(s, i) /\ s[p] # At(s, j)
    BY <1>1, <1>2 DEF At
  <2>4. M.node[s[p]].prev = At(s, i) /\ M.node[s[p]].next = At(s, j) /\ s[p] \in 1 .. Len(M.node)
    BY <1>1, <1>3, <1>4, <2>1, <2>3
  <2>5. /\ i \in 0 .. Len(c) /\ i + 1 \in 1 .. Len(c) /\ i < i + 1
        /\ i \in 0 .. Len(c) + 1 /\ i + 1 \in 0 .. Len(c) + 1
        /\ from(i) = i /\ from(i + 1) = j
    BY <1>1, <1>2, <1>6, <1>8
  <2>6. At(c, i) = At(s, i) /\ At(c, i + 1) = At(s, j)
    BY <1>5, <2>5
  <2>7. Dropped(M, c)
    BY <2>1, <2>2, <2>4, <2>5, <2>6 DEF Dropped
  <2>. QED  BY <1>4, <1>8, <2>7 DEF Tailed, M, c, i, j
<1>. QED  BY <1>7, <1>8

LEMMA DetachDropped ==
    ASSUME NEW L, NEW s, Linked(L, s), Dropped(L, s)
    PROVE  LET M == detach(L)
           IN \E i \in 0 .. Len(s), j \in 1 .. Len(s) + 1 :
                 /\ i < j
                 /\ Linked(M, Cut(s, i, j)) /\ Tailed(M, Cut(s, i, j))
                 /\ Len(M.node) = Len(L.node)
                 /\ \A m \in 1 .. Len(L.node) : M.node[m].event = L.node[m].event
<1>. DEFINE M == detach(L)
<1>1. /\ Len(L.node) \in Nat /\ Len(s) \in Nat /\ s \in Seq(1 .. Len(L.node))
      /\ \A m \in 1 .. Len(s) : s[m] \in 1 .. Len(L.node) /\ s[m] # 0 /\ At(s, m) = s[m]
  BY LinkedFacts
<1>2. PICK i \in 0 .. Len(s), j \in 1 .. Len(s) :
         i < j /\ L.node[L.tail].prev = At(s, i) /\ L.node[L.tail].next = At(s, j)
  BY DEF Dropped
<1>. DEFINE c == Cut(s, i, j)
            from(m) == IF m =< i THEN m ELSE m + (j - i - 1)
<1>3. j \in 1 .. Len(s) + 1 /\ j =< Len(s)
  BY <1>1
<1>4. L.tail \in 1 .. Len(L.node) /\ \A m \in 1 .. Len(s) : s[m] # L.tail
  BY DEF Dropped
<1>5. /\ Linked(M, c) /\ Len(M.node) = Len(L.node) /\ M.tail = L.tail
      /\ \A m \in 1 .. Len(L.node) :
            /\ M.node[m].next = IF m = At(s, i) THEN At(s, j) ELSE L.node[m].next
            /\ M.node[m].prev = IF m = At(s, j) THEN At(s, i) ELSE L.node[m].prev
            /\ M.node[m].event = L.node[m].event
  BY <1>2, <1>3, <1>4, DetachCuts
<1>6. /\ c \in Seq(1 .. Len(L.node)) /\ Len(c) = i + (Len(s) + 1 - j)
      /\ \A m \in 1 .. Len(c) : from(m) \in 1 .. Len(s) /\ c[m] = s[from(m)]
      /\ \A m \in 0 .. Len(c) + 1 : At(c, m) = At(s, from(m))
  <2>. DEFINE T == 1 .. Len(L.node)
  <2>1. s \in Seq(T) /\ i \in 0 .. Len(s) /\ j \in 1 .. Len(s) + 1 /\ i < j
    BY <1>1, <1>2, <1>3
  <2>. HIDE DEF T, M
  <2>2. c \in Seq(T) /\ Len(c) = i + (Len(s) + 1 - j)
    BY <2>1, CutFacts
  <2>3. \A m \in 1 .. Len(c) : from(m) \in 1 .. Len(s) /\ c[m] = s[from(m)]
    BY <2>1, CutFacts
  <2>4. \A m \in 0 .. Len(c) + 1 : At(c, m) = At(s, from(m))
    BY <2>1, CutFacts
  <2>. QED  BY <2>2, <2>3, <2>4 DEF T
<1>. HIDE DEF M, c
<1>7. \A m \in 1 .. Len(c) : c[m] # L.tail
  BY <1>4, <1>6
<1>8. L.tail # At(s, i) /\ L.tail # At(s, j)
  BY <1>1, <1>4 DEF At
<1>9. M.node[M.tail].prev = At(s, i) /\ M.node[M.tail].next = At(s, j) /\ M.tail \in 1 .. Len(M.node)
  BY <1>2, <1>4, <1>5, <1>8
<1>10. /\ i \in 0 .. Len(c) /\ i + 1 \in 1 .. Len(c) /\ i < i + 1
       /\ i \in 0 .. Len(c) + 1 /\ i + 1 \in 0 .. Len(c) + 1
       /\ from(i) = i /\ from(i + 1) = j
  <2>1. i \in Nat /\ j \in Nat /\ j =< Len(s) /\ i < j /\ Len(c) = i + (Len(s) + 1 - j)
    BY <1>1, <1>2, <1>6
  <2>. QED  BY <1>1, <2>1
<1>11. At(c, i) = At(s, i) /\ At(c, i + 1) = At(s, j)
  BY <1>6, <1>10
<1>12. Dropped(M, c)
  BY <1>5, <1>7, <1>9, <1>10, <1>11 DEF Dropped
<1>. QED  BY <1>2, <1>3, <1>5, <1>12 DEF Tailed, M, c

-----------------------------------------------------------------------------
(* insert keeps the list linked and sorted, with a tail that detach can    *)
(* use.                                                                    *)

LandedEvents(L) == \A m \in 1 .. Len(L.node) : L.node[m].event \in Landed

Ordered(e, f) ==
    OrderBy = "blockchain" =>
        IF OrderDir = "asc" THEN SortKey(e) >= SortKey(f) ELSE SortKey(e) =< SortKey(f)

SortedNodes(L, s) ==
    \A a, b \in 1 .. Len(s) : a < b => Ordered(L.node[s[a]].event, L.node[s[b]].event)

(* No trade it ever had is of a failed transaction.                        *)
Clean(L) ==
    EventType = "TradeRecord" => \A m \in 1 .. Len(L.node) : ~ chain[L.node[m].event].err

Good(L, s) ==
    Linked(L, s) /\ Tailed(L, s) /\ LandedEvents(L) /\ (Clean(L) => SortedNodes(L, s))

LEMMA CutSorted ==
    ASSUME NEW L, NEW s, Linked(L, s), SortedNodes(L, s),
           NEW i \in 0 .. Len(s), NEW j \in 1 .. Len(s) + 1, i < j,
           NEW M, \A m \in 1 .. Len(L.node) : M.node[m].event = L.node[m].event
    PROVE  SortedNodes(M, Cut(s, i, j))
<1>. DEFINE c == Cut(s, i, j)
            from(m) == IF m =< i THEN m ELSE m + (j - i - 1)
<1>1. /\ Len(s) \in Nat /\ s \in Seq(1 .. Len(L.node))
      /\ \A m \in 1 .. Len(s) : s[m] \in 1 .. Len(L.node)
  BY LinkedFacts
<1>2. /\ c \in Seq(1 .. Len(L.node)) /\ Len(c) = i + (Len(s) + 1 - j)
      /\ \A m \in 1 .. Len(c) : from(m) \in 1 .. Len(s) /\ c[m] = s[from(m)]
  BY <1>1, CutFacts
<1>. HIDE DEF c
<1>3. ASSUME NEW a \in 1 .. Len(c), NEW b \in 1 .. Len(c), a < b
      PROVE  Ordered(M.node[c[a]].event, M.node[c[b]].event)
  <2>1. /\ from(a) \in 1 .. Len(s) /\ from(b) \in 1 .. Len(s)
        /\ c[a] = s[from(a)] /\ c[b] = s[from(b)] /\ from(a) < from(b)
    BY <1>1, <1>2, <1>3
  <2>2. Ordered(L.node[c[a]].event, L.node[c[b]].event)
    <3>. HIDE DEF from
    <3>. QED  BY <2>1 DEF SortedNodes
  <2>3. c[a] \in 1 .. Len(L.node) /\ c[b] \in 1 .. Len(L.node)
    BY <1>1, <2>1
  <2>. QED  BY <2>2, <2>3
<1>. QED  BY <1>3 DEF SortedNodes, c

LEMMA SpliceTailed ==
    ASSUME NEW L, NEW s, Linked(L, s), NEW k \in 0 .. Len(s), NEW event \in Nat,
           Held(L, s) \/ Dropped(L, s)
    PROVE  LET M == Spliced(L, s, k, event)
               c == PutIn(s, k, Len(L.node) + 1)
           IN Held(M, c) \/ Dropped(M, c)
<1>. DEFINE n == Len(L.node) + 1
            T == 1 .. n
            M == Spliced(L, s, k, event)
            c == PutIn(s, k, n)
<1>1. /\ Len(L.node) \in Nat /\ Len(s) \in Nat /\ k \in Nat /\ s \in Seq(1 .. Len(L.node))
      /\ \A m \in 1 .. Len(s) : s[m] \in 1 .. Len(L.node) /\ At(s, m) = s[m]
  BY LinkedFacts
<1>2. /\ Len(M.node) = n /\ M.tail = L.tail
      /\ \A m \in 1 .. Len(L.node) :
            /\ M.node[m].next = IF m = At(s, k) THEN n ELSE L.node[m].next
            /\ M.node[m].prev = IF m = At(s, k + 1) THEN n ELSE L.node[m].prev
  BY SplicedFacts
<1>3. n \in T /\ s \in Seq(T) /\ 1 .. Len(L.node) \subseteq T /\ n \notin 1 .. Len(L.node)
  <2>1. n \in T /\ 1 .. Len(L.node) \subseteq T /\ n \notin 1 .. Len(L.node)
    BY <1>1
  <2>. HIDE DEF T
  <2>. QED  BY <1>1, <2>1, SeqMonotonic
<1>. HIDE DEF T, n
<1>4. c \in Seq(T) /\ Len(c) = Len(s) + 1
  BY <1>3, PutInFacts
<1>5. \A m \in 1 .. Len(c) : c[m] = IF m =< k THEN s[m] ELSE IF m = k + 1 THEN n ELSE s[m - 1]
  BY <1>3, PutInFacts
<1>6. \A m \in 0 .. Len(c) + 1 :
         At(c, m) = IF m =< k THEN At(s, m) ELSE IF m = k + 1 THEN n ELSE At(s, m - 1)
  BY <1>3, PutInFacts
<1>. HIDE DEF M, c
<1>7. CASE Held(L, s)
  <2>1. PICK p \in 1 .. Len(s) : L.tail = s[p]
    BY <1>7 DEF Held
  <2>2. CASE p =< k
    <3>1. p \in 1 .. Len(c) /\ c[p] = s[p]
      BY <1>1, <1>4, <1>5, <2>2
    <3>. QED  BY <1>2, <2>1, <3>1 DEF Held, M, c, n
  <2>3. CASE p > k
    <3>1. p + 1 \in 1 .. Len(c) /\ (p + 1) - 1 = p /\ ~ (p + 1 =< k) /\ p + 1 # k + 1
      BY <1>1, <1>4, <2>3
    <3>2. c[p + 1] = s[p]
      BY <1>5, <3>1
    <3>. QED  BY <1>2, <2>1, <3>1, <3>2 DEF Held, M, c, n
  <2>. QED  BY <1>1, <2>2, <2>3
<1>8. CASE Dropped(L, s)
  <2>1. L.tail \in 1 .. Len(L.node) /\ \A m \in 1 .. Len(s) : s[m] # L.tail
    BY <1>8 DEF Dropped
  <2>2. PICK i \in 0 .. Len(s), j \in 1 .. Len(s) :
           i < j /\ L.node[L.tail].prev = At(s, i) /\ L.node[L.tail].next = At(s, j)
    BY <1>8 DEF Dropped
  <2>3. L.tail # At(s, k) /\ L.tail # At(s, k + 1) /\ L.tail # n
    BY <1>1, <1>3, <2>1 DEF At
  <2>4. /\ M.node[M.tail].prev = At(s, i) /\ M.node[M.tail].next = At(s, j)
        /\ M.tail \in 1 .. Len(M.node) /\ M.tail = L.tail
    BY <1>2, <1>3, <2>1, <2>2, <2>3 DEF T
  <2>5. \A m \in 1 .. Len(c) : c[m] # L.tail
    <3>1. \A m \in 1 .. Len(c) : m = k + 1 \/ (m =< k /\ m \in 1 .. Len(s))
                                  \/ (m > k + 1 /\ m - 1 \in 1 .. Len(s))
      BY <1>1, <1>4
    <3>. QED  BY <1>1, <1>5, <2>1, <2>3, <3>1
  <2>. DEFINE at(m) == IF m =< k THEN m ELSE m + 1
  <2>6. ASSUME NEW m \in 0 .. Len(s)
        PROVE  at(m) \in 0 .. Len(c) /\ At(c, at(m)) = At(s, m)
    <3>1. at(m) \in 0 .. Len(c) /\ at(m) \in 0 .. Len(c) + 1
      BY <1>1, <1>4
    <3>2. CASE m =< k
      BY <1>6, <3>1, <3>2
    <3>3. CASE m > k
      <4>1. at(m) = m + 1 /\ (m + 1) - 1 = m /\ ~ (m + 1 =< k) /\ m + 1 # k + 1
        BY <1>1, <3>3
      <4>2. At(c, m + 1) = At(s, (m + 1) - 1)
        BY <1>6, <3>1, <4>1
      <4>. QED  BY <3>1, <4>1, <4>2
    <3>. QED  BY <1>1, <3>2, <3>3
  <2>7. /\ at(i) \in 0 .. Len(c) /\ at(j) \in 1 .. Len(c) /\ at(i) < at(j)
        /\ At(c, at(i)) = At(s, i) /\ At(c, at(j)) = At(s, j)
    <3>1. j \in 0 .. Len(s)
      BY <1>1
    <3>2. at(i) \in 0 .. Len(c) /\ At(c, at(i)) = At(s, i)
      BY <2>6
    <3>3. at(j) \in 0 .. Len(c) /\ At(c, at(j)) = At(s, j)
      BY <2>6, <3>1
    <3>4. at(i) < at(j) /\ at(j) >= 1
      BY <1>1, <2>2
    <3>. QED  BY <1>1, <1>4, <3>2, <3>3, <3>4
  <2>. HIDE DEF at
  <2>8. Dropped(M, c)
    BY <2>4, <2>5, <2>7 DEF Dropped
  <2>. QED  BY <2>8 DEF M, c, n
<1>. QED  BY <1>7, <1>8

LEMMA SpliceSorted ==
    ASSUME ChainInv, NEW L, NEW s, Linked(L, s), LandedEvents(L), Clean(L) => SortedNodes(L, s),
           NEW event \in Landed, NEW k \in 0 .. Len(s), Fits(L, s, k, event)
    PROVE  LET M == Spliced(L, s, k, event)
           IN /\ LandedEvents(M)
              /\ Clean(M) => SortedNodes(M, PutIn(s, k, Len(L.node) + 1))
<1>. DEFINE n == Len(L.node) + 1
            T == 1 .. n
            M == Spliced(L, s, k, event)
            c == PutIn(s, k, n)
<1>1. /\ Len(L.node) \in Nat /\ Len(s) \in Nat /\ k \in Nat /\ s \in Seq(1 .. Len(L.node))
      /\ \A m \in 1 .. Len(s) : s[m] \in 1 .. Len(L.node)
  BY LinkedFacts
<1>2. event \in Nat
  BY LandedFacts
<1>3. /\ Len(M.node) = n /\ M.node[n].event = event
      /\ \A m \in 1 .. Len(L.node) : M.node[m].event = L.node[m].event
  BY <1>2, SplicedFacts
<1>4. n \in T /\ s \in Seq(T)
  <2>1. n \in T /\ 1 .. Len(L.node) \subseteq T
    BY <1>1
  <2>. HIDE DEF T
  <2>. QED  BY <1>1, <2>1, SeqMonotonic
<1>5. LandedEvents(M)
  <2>1. \A m \in 1 .. n : m = n \/ m \in 1 .. Len(L.node)
    BY <1>1
  <2>. HIDE DEF M, n
  <2>. QED  BY <1>3, <2>1 DEF LandedEvents
<1>. HIDE DEF T, n
<1>6. c \in Seq(T) /\ Len(c) = Len(s) + 1
  BY <1>4, PutInFacts
<1>7. \A m \in 1 .. Len(c) : c[m] = IF m =< k THEN s[m] ELSE IF m = k + 1 THEN n ELSE s[m - 1]
  BY <1>4, PutInFacts
<1>. HIDE DEF M, c
<1>. DEFINE e(m) == L.node[s[m]].event
<1>8. \A m \in 1 .. Len(s) : e(m) \in Landed /\ SortKey(e(m)) \in Nat /\ M.node[s[m]].event = e(m)
  BY <1>1, <1>3, TimeFacts DEF LandedEvents
<1>9. SortKey(event) \in Nat
  BY TimeFacts
<1>. SUFFICES ASSUME Clean(M) PROVE SortedNodes(M, c)
  BY <1>5 DEF M, c, n
<1>10. /\ Clean(L)
       /\ EventType = "TradeRecord" => ~ chain[event].err
       /\ EventType = "TradeRecord" => \A m \in 1 .. Len(s) : ~ chain[e(m)].err
  <2>1. n \in 1 .. n /\ \A m \in 1 .. Len(L.node) : m \in 1 .. n
    BY <1>1 DEF n
  <2>. QED  BY <1>1, <1>3, <2>1 DEF Clean
<1>11. \A a, b \in 1 .. Len(s) : a < b => Ordered(e(a), e(b))
  BY <1>10 DEF SortedNodes
<1>12. ASSUME NEW m \in 1 .. Len(s), m =< k PROVE Ordered(e(m), event)
  <2>1. ~ Precedes(event, e(m))
    BY <1>1, <1>12 DEF Fits
  <2>. HIDE DEF e
  <2>2. /\ LessThan(e(m), event) => SortKey(e(m)) =< SortKey(event)
        /\ ~ LessThan(e(m), event) => SortKey(event) =< SortKey(e(m))
    BY <1>8, <1>10, LessThanFacts
  <2>. QED  BY <1>8, <1>9, <2>1, <2>2, EventAssumption DEF Precedes, Ordered
<1>13. ASSUME NEW m \in 1 .. Len(s), m > k PROVE Ordered(event, e(m))
  <2>1. k + 1 \in 1 .. Len(s) /\ k < Len(s)
    BY <1>1, <1>13
  <2>2. Precedes(event, e(k + 1))
    BY <2>1 DEF Fits
  <2>. HIDE DEF e
  <2>3. Ordered(event, e(k + 1))
    <3>1. /\ LessThan(e(k + 1), event) => SortKey(e(k + 1)) =< SortKey(event)
          /\ ~ LessThan(e(k + 1), event) => SortKey(event) =< SortKey(e(k + 1))
      BY <1>8, <1>10, <2>1, LessThanFacts
    <3>2. SortKey(e(k + 1)) \in Nat
      BY <1>8, <2>1
    <3>. QED  BY <1>9, <2>2, <3>1, <3>2, EventAssumption DEF Precedes, Ordered
  <2>4. CASE m = k + 1
    BY <2>3, <2>4
  <2>5. CASE m # k + 1
    <3>1. k + 1 < m
      BY <1>1, <1>13, <2>5
    <3>2. Ordered(e(k + 1), e(m))
      BY <1>11, <2>1, <3>1
    <3>3. SortKey(e(k + 1)) \in Nat /\ SortKey(e(m)) \in Nat
      BY <1>8, <2>1
    <3>. QED  BY <1>9, <2>3, <3>2, <3>3 DEF Ordered
  <2>. QED  BY <2>4, <2>5
<1>14. ASSUME NEW a \in 1 .. Len(c), NEW b \in 1 .. Len(c), a < b
       PROVE  Ordered(M.node[c[a]].event, M.node[c[b]].event)
  <2>1. CASE b =< k
    <3>1. a \in 1 .. Len(s) /\ b \in 1 .. Len(s) /\ a =< k
      BY <1>1, <1>6, <1>14, <2>1
    <3>. QED  BY <1>7, <1>8, <1>11, <1>14, <2>1, <3>1
  <2>2. CASE b = k + 1
    <3>1. a \in 1 .. Len(s) /\ a =< k /\ ~ (b =< k)
      BY <1>1, <1>6, <1>14, <2>2
    <3>. QED  BY <1>3, <1>7, <1>8, <1>12, <2>2, <3>1
  <2>3. CASE b > k + 1
    <3>1. b - 1 \in 1 .. Len(s) /\ b - 1 > k /\ ~ (b =< k) /\ b # k + 1
      BY <1>1, <1>6, <2>3
    <3>2. M.node[c[b]].event = e(b - 1)
      BY <1>7, <1>8, <3>1
    <3>3. CASE a =< k
      <4>1. a \in 1 .. Len(s) /\ a < b - 1
        BY <1>1, <1>6, <2>3, <3>3
      <4>. QED  BY <1>7, <1>8, <1>11, <3>1, <3>2, <3>3, <4>1
    <3>4. CASE a = k + 1
      <4>1. ~ (a =< k)
        BY <1>1, <3>4
      <4>. QED  BY <1>3, <1>7, <1>13, <3>1, <3>2, <3>4, <4>1
    <3>5. CASE a > k + 1
      <4>1. a - 1 \in 1 .. Len(s) /\ a - 1 < b - 1 /\ ~ (a =< k) /\ a # k + 1
        BY <1>1, <1>6, <1>14, <3>5
      <4>2. M.node[c[a]].event = e(a - 1)
        BY <1>7, <1>8, <4>1
      <4>. QED  BY <1>11, <3>1, <3>2, <4>1, <4>2
    <3>. QED  BY <1>1, <3>3, <3>4, <3>5
  <2>. QED  BY <1>1, <2>1, <2>2, <2>3
<1>. QED  BY <1>14 DEF SortedNodes

LEMMA FirstGood ==
    ASSUME ChainInv, NEW L \in ListType, LandedEvents(L), NEW event \in Landed
    PROVE  Good(First(L, event), <<Len(L.node) + 1>>)
<1>. DEFINE n == Len(L.node) + 1
            M == First(L, event)
            c == <<n>>
<1>1. event \in Nat /\ Len(L.node) \in Nat
  BY LandedFacts DEF ListType
<1>2. /\ Linked(M, c) /\ Len(M.node) = n /\ M.tail = n /\ M.node[n].event = event
      /\ \A m \in 1 .. Len(L.node) : M.node[m] = L.node[m]
  BY <1>1, FirstFacts
<1>3. \A m \in 1 .. n : m = n \/ m \in 1 .. Len(L.node)
  BY <1>1
<1>4. Len(c) = 1 /\ c[1] = n /\ 1 \in 1 .. Len(c) /\ \A a, b \in 1 .. Len(c) : ~ (a < b)
  OBVIOUS
<1>. HIDE DEF M, n, c
<1>5. LandedEvents(M)
  BY <1>2, <1>3 DEF LandedEvents
<1>6. Tailed(M, c) /\ SortedNodes(M, c)
  BY <1>2, <1>4 DEF Tailed, Held, SortedNodes
<1>. QED  BY <1>2, <1>5, <1>6 DEF Good, M, c, n

LEMMA DetachGood ==
    ASSUME NEW L, NEW s, Good(L, s), Len(s) > 1
    PROVE  \E c : Good(detach(L), c)
<1>. DEFINE M == detach(L)
<1>1. Linked(L, s) /\ (Clean(L) => SortedNodes(L, s)) /\ LandedEvents(L) /\ Len(s) \in Nat
  BY LinkedFacts DEF Good
<1>2. Held(L, s) \/ Dropped(L, s)
  <2>1. s # <<>>
    OBVIOUS
  <2>. QED  BY <2>1 DEF Good, Tailed
<1>3. \E i \in 0 .. Len(s), j \in 1 .. Len(s) + 1 :
         /\ i < j
         /\ Linked(M, Cut(s, i, j)) /\ Tailed(M, Cut(s, i, j))
         /\ Len(M.node) = Len(L.node)
         /\ \A m \in 1 .. Len(L.node) : M.node[m].event = L.node[m].event
  <2>1. CASE Held(L, s)
    <3>1. PICK p \in 1 .. Len(s) : L.tail = s[p]
      BY <2>1 DEF Held
    <3>. DEFINE i == p - 1
                j == p + 1
    <3>2. i \in 0 .. Len(s) /\ j \in 1 .. Len(s) + 1 /\ i < j
      BY <1>1
    <3>3. /\ Linked(M, Cut(s, i, j)) /\ Tailed(M, Cut(s, i, j)) /\ Len(M.node) = Len(L.node)
          /\ \A m \in 1 .. Len(L.node) : M.node[m].event = L.node[m].event
      BY <1>1, <3>1, DetachHeld
    <3>. HIDE DEF i, j, M
    <3>. QED  BY <3>2, <3>3
  <2>2. CASE Dropped(L, s)
    BY <1>1, <2>2, DetachDropped
  <2>. QED  BY <1>2, <2>1, <2>2
<1>4. PICK i \in 0 .. Len(s), j \in 1 .. Len(s) + 1 :
         /\ i < j
         /\ Linked(M, Cut(s, i, j)) /\ Tailed(M, Cut(s, i, j))
         /\ Len(M.node) = Len(L.node)
         /\ \A m \in 1 .. Len(L.node) : M.node[m].event = L.node[m].event
  BY <1>3
<1>. HIDE DEF M
<1>5. Clean(M) => SortedNodes(M, Cut(s, i, j))
  <2>1. Clean(M) => Clean(L)
    BY <1>4 DEF Clean
  <2>. QED  BY <1>1, <1>4, <2>1, CutSorted
<1>6. LandedEvents(M)
  BY <1>1, <1>4 DEF LandedEvents
<1>7. Good(M, Cut(s, i, j))
  BY <1>4, <1>5, <1>6 DEF Good
<1>. QED  BY <1>7 DEF M

LEMMA InsertGood ==
    ASSUME ChainInv, NEW L, NEW s, Good(L, s), NEW event \in Landed
    PROVE  \E c : Good(insert(L, event), c)
<1>1. /\ Linked(L, s) /\ LandedEvents(L) /\ Tailed(L, s) /\ event \in Nat
      /\ Clean(L) => SortedNodes(L, s)
  BY LandedFacts DEF Good
<1>2. PICK k \in 0 .. Len(s) :
         /\ Fits(L, s, k, event)
         /\ insert(L, event) = IF s = <<>> THEN First(L, event)
                               ELSE IF L.size + 1 > MaxEvents
                                    THEN detach(Spliced(L, s, k, event))
                                    ELSE Spliced(L, s, k, event)
  BY <1>1, InsertCases
<1>3. CASE s = <<>>
  <2>1. L \in ListType
    BY <1>1 DEF Linked
  <2>2. Good(First(L, event), <<Len(L.node) + 1>>)
    BY <1>1, <2>1, FirstGood
  <2>. QED  BY <1>2, <1>3, <2>2
<1>4. CASE s # <<>>
  <2>. DEFINE M == Spliced(L, s, k, event)
              n == Len(L.node) + 1
              c == PutIn(s, k, n)
  <2>1. Linked(M, c)
    BY <1>1, SpliceLinked
  <2>2. Held(M, c) \/ Dropped(M, c)
    <3>1. Held(L, s) \/ Dropped(L, s)
      BY <1>1, <1>4 DEF Tailed
    <3>. QED  BY <1>1, <3>1, SpliceTailed
  <2>3. LandedEvents(M) /\ (Clean(M) => SortedNodes(M, c))
    BY <1>1, <1>2, SpliceSorted
  <2>4. Len(c) > 1
    <3>. DEFINE T == 1 .. n
    <3>1. n \in T /\ s \in Seq(T) /\ Len(s) \in Nat /\ Len(s) # 0
      <4>1. /\ Len(L.node) \in Nat /\ s \in Seq(1 .. Len(L.node)) /\ Len(s) \in Nat
        BY <1>1, LinkedFacts
      <4>2. n \in T /\ 1 .. Len(L.node) \subseteq T
        BY <4>1
      <4>3. Len(s) # 0
        BY <1>4, <4>1, EmptySeq
      <4>. HIDE DEF T
      <4>. QED  BY <4>1, <4>2, <4>3, SeqMonotonic
    <3>. HIDE DEF T, n
    <3>2. c \in Seq(T) /\ Len(c) = Len(s) + 1
      BY <3>1, PutInFacts
    <3>. QED  BY <3>1, <3>2
  <2>. HIDE DEF M, c
  <2>5. Good(M, c)
    BY <2>1, <2>2, <2>3 DEF Good, Tailed
  <2>6. \E d : Good(detach(M), d)
    BY <2>4, <2>5, DetachGood
  <2>. QED  BY <1>2, <1>4, <2>5, <2>6 DEF M
<1>. QED  BY <1>3, <1>4

ListInv(L) == \E s : Good(L, s)

LEMMA GoodListSorted ==
    ASSUME NEW L, NEW s, Good(L, s), Clean(L), OrderBy = "blockchain"
    PROVE  LET events == toArray(L)
           IN \A i, j \in DOMAIN events : i < j =>
                 IF OrderDir = "asc" THEN SortKey(events[i]) >= SortKey(events[j])
                                     ELSE SortKey(events[i]) =< SortKey(events[j])
<1>1. Linked(L, s) /\ SortedNodes(L, s)
  BY DEF Good
<1>2. nodes_of(L) = s /\ DOMAIN s = 1 .. Len(s)
  BY <1>1, NodesOf, LinkedFacts
<1>. DEFINE events == toArray(L)
<1>3. events = [k \in 1 .. Len(s) |-> L.node[s[k]].event]
  BY <1>2 DEF toArray
<1>4. \A i, j \in 1 .. Len(s) : i < j => Ordered(events[i], events[j])
  BY <1>1, <1>3 DEF SortedNodes
<1>5. DOMAIN events = 1 .. Len(s)
  BY <1>3
<1>. HIDE DEF events
<1>. QED  BY <1>4, <1>5 DEF events, Ordered

-----------------------------------------------------------------------------
(* The cache.  While it has room for every transaction of the chain, it    *)
(* has exactly those whose records were emitted.                           *)

CacheInv(S) ==
    /\ S.cache \in Seq(Landed) /\ IsInjective(S.cache)
    /\ S.emitted \in [1 .. MaxLanded -> Nat]
    /\ \A t \in 1 .. MaxLanded : S.emitted[t] > 0 => t \in Landed

Whole(S) == \A t \in 1 .. MaxLanded : S.emitted[t] = IF t \in ToSet(S.cache) THEN 1 ELSE 0

Newer(C) == C[Len(C)]

(* Polls come in the order of the slots.  What the cache has forgotten is  *)
(* of an earlier slot than its newest entry, whose slot is at most floor.  *)
Polled(S, floor) ==
    /\ floor \in Nat
    /\ \A a, b \in 1 .. Len(S.cache) : a < b => Slot(S.cache[a]) =< Slot(S.cache[b])
    /\ S.cache # <<>> => Slot(Newer(S.cache)) =< floor
    /\ \A t \in Landed : S.emitted[t] =< 1
    /\ \A t \in Landed : S.emitted[t] > 0 =>
          /\ Slot(t) =< floor /\ S.cache # <<>>
          /\ t \in ToSet(S.cache) \/ Slot(t) < Slot(Newer(S.cache))

LEMMA AddFacts ==
    ASSUME NEW T, NEW C \in Seq(T), IsInjective(C), NEW t \in T, t \notin ToSet(C)
    PROVE  LET D == add(C, t)
               o == IF Len(C) = MaxTx THEN 1 ELSE 0
           IN /\ D \in Seq(T) /\ IsInjective(D) /\ Len(D) = (Len(C) - o) + 1
              /\ D # <<>> /\ Newer(D) = t /\ Len(C) - o \in Nat
              /\ \A m \in 1 .. Len(C) - o : D[m] = C[m + o] /\ m + o \in 1 .. Len(C)
              /\ DOMAIN D = 1 .. Len(D)
<1>. DEFINE o == IF Len(C) = MaxTx THEN 1 ELSE 0
            B == IF Len(C) = MaxTx THEN Tail(C) ELSE C
            D == add(C, t)
            l == Len(C) - o
<1>1. /\ Len(C) \in Nat /\ DOMAIN C = 1 .. Len(C) /\ \A m \in 1 .. Len(C) : C[m] \in T /\ C[m] # t
      /\ \A a, b \in 1 .. Len(C) : C[a] = C[b] => a = b
  BY DEF ToSet, IsInjective
<1>2. l \in Nat /\ \A m \in 1 .. l : m + o \in 1 .. Len(C)
  <2>1. MaxTx \in Nat /\ MaxTx # 0
    BY EventAssumption
  <2>2. CASE Len(C) = MaxTx
    <3>1. o = 1 /\ l = Len(C) - 1
      BY <2>2
    <3>. HIDE DEF o, l
    <3>. QED  BY <1>1, <2>1, <2>2, <3>1
  <2>3. CASE Len(C) # MaxTx
    <3>1. o = 0 /\ l = Len(C)
      BY <1>1, <2>3
    <3>. HIDE DEF o, l
    <3>. QED  BY <1>1, <3>1
  <2>. QED  BY <2>2, <2>3
<1>3. B \in Seq(T) /\ Len(B) = l /\ \A m \in 1 .. l : B[m] = C[m + o]
  <2>1. CASE Len(C) = MaxTx
    <3>1. C # <<>> /\ o = 1
      BY <2>1, EventAssumption
    <3>2. Tail(C) \in Seq(T) /\ Len(Tail(C)) = Len(C) - 1
      BY <3>1, HeadTailProperties
    <3>3. \A m \in 1 .. Len(Tail(C)) : Tail(C)[m] = C[m + 1]
      BY <3>1, HeadTailProperties
    <3>. QED  BY <2>1, <3>1, <3>2, <3>3
  <2>2. CASE Len(C) # MaxTx
    BY <1>1, <2>2
  <2>. QED  BY <2>1, <2>2
<1>4. D = Append(B, t)
  BY DEF add
<1>. HIDE DEF B, D, l, o
<1>5. /\ D \in Seq(T) /\ Len(D) = l + 1 /\ D[l + 1] = t
      /\ \A m \in 1 .. l : D[m] = C[m + o]
  BY <1>2, <1>3, <1>4
<1>6. DOMAIN D = 1 .. l + 1 /\ D # <<>> /\ o \in {0, 1}
  BY <1>2, <1>5 DEF o
<1>7. IsInjective(D)
  <2>1. ASSUME NEW a \in 1 .. l + 1, NEW b \in 1 .. l + 1, D[a] = D[b] PROVE a = b
    <3>1. CASE a \in 1 .. l /\ b \in 1 .. l
      <4>1. a + o = b + o
        BY <1>1, <1>2, <1>5, <2>1, <3>1
      <4>. QED  BY <1>2, <1>6, <3>1, <4>1
    <3>2. CASE a = l + 1 /\ b \in 1 .. l
      <4>1. C[b + o] = t /\ b + o \in 1 .. Len(C)
        BY <1>2, <1>5, <2>1, <3>2
      <4>. QED  BY <1>1, <4>1
    <3>3. CASE b = l + 1 /\ a \in 1 .. l
      <4>1. C[a + o] = t /\ a + o \in 1 .. Len(C)
        BY <1>2, <1>5, <2>1, <3>3
      <4>. QED  BY <1>1, <4>1
    <3>. QED  BY <1>2, <3>1, <3>2, <3>3
  <2>. QED  BY <1>6, <2>1 DEF IsInjective
<1>. QED  BY <1>2, <1>5, <1>6, <1>7 DEF Newer, l, o, D

LEMMA HandledFields ==
    ASSUME NEW S, NEW t, t \notin ToSet(S.cache)
    PROVE  LET H == handleTxLogs(S, t)
           IN /\ H.list = insert(S.list, t) /\ H.cache = add(S.cache, t)
              /\ H.emitted = [S.emitted EXCEPT ![t] = @ + 1]
BY DEF handleTxLogs

LEMMA SeenAgain ==
    ASSUME NEW S, NEW t, t \in ToSet(S.cache)
    PROVE  handleTxLogs(S, t) = S
BY DEF handleTxLogs

LEMMA CacheStep ==
    ASSUME ChainInv, NEW S, CacheInv(S), NEW t \in Landed
    PROVE  CacheInv(handleTxLogs(S, t))
<1>. DEFINE H == handleTxLogs(S, t)
<1>1. CASE t \in ToSet(S.cache)
  BY <1>1, SeenAgain
<1>2. CASE t \notin ToSet(S.cache)
  <2>1. H.cache = add(S.cache, t) /\ H.emitted = [S.emitted EXCEPT ![t] = @ + 1]
    BY <1>2, HandledFields
  <2>2. add(S.cache, t) \in Seq(Landed) /\ IsInjective(add(S.cache, t))
    BY <1>2, AddFacts DEF CacheInv
  <2>3. t \in 1 .. MaxLanded
    BY LandedFacts
  <2>. HIDE DEF H
  <2>4. H.emitted \in [1 .. MaxLanded -> Nat]
    <3>1. S.emitted \in [1 .. MaxLanded -> Nat]
      BY DEF CacheInv
    <3>2. S.emitted[t] \in Nat
      BY <2>3, <3>1
    <3>3. S.emitted[t] + 1 \in Nat
      BY <3>2
    <3>. QED  BY <2>1, <3>1, <3>3
  <2>5. \A u \in 1 .. MaxLanded : H.emitted[u] > 0 => u \in Landed
    BY <2>1, <2>3 DEF CacheInv
  <2>. QED  BY <2>1, <2>2, <2>4, <2>5 DEF CacheInv, H
<1>. QED  BY <1>1, <1>2

LEMMA WholeStep ==
    ASSUME ChainInv, Len(chain) =< MaxTx, NEW S, CacheInv(S), Whole(S), NEW t \in Landed
    PROVE  Whole(handleTxLogs(S, t))
<1>. DEFINE H == handleTxLogs(S, t)
            C == S.cache
            D == add(C, t)
            o == IF Len(C) = MaxTx THEN 1 ELSE 0
<1>1. CASE t \in ToSet(S.cache)
  BY <1>1, SeenAgain
<1>2. CASE t \notin ToSet(S.cache)
  <2>1. H.cache = D /\ H.emitted = [S.emitted EXCEPT ![t] = @ + 1]
    BY <1>2, HandledFields
  <2>2. /\ D \in Seq(Landed) /\ IsInjective(D) /\ Len(D) = (Len(C) - o) + 1
        /\ Newer(D) = t /\ \A m \in 1 .. Len(C) - o : D[m] = C[m + o] /\ m + o \in 1 .. Len(C)
        /\ DOMAIN D = 1 .. Len(D)
    BY <1>2, AddFacts DEF CacheInv
  <2>3. C \in Seq(Landed) /\ Len(C) \in Nat /\ DOMAIN C = 1 .. Len(C) /\ IsInjective(C)
    BY DEF CacheInv
  <2>4. Len(C) < MaxTx
    <3>. DEFINE A == Landed \ {t}
    <3>1. C \in Seq(A)
      <4>1. \A m \in 1 .. Len(C) : C[m] \in A
        BY <1>2, <2>3 DEF ToSet
      <4>. HIDE DEF A
      <4>2. C \in [1 .. Len(C) -> A]
        BY <2>3, <4>1
      <4>. QED  BY <2>3, <4>2
    <3>2. IsFiniteSet(A) /\ Cardinality(A) = Len(chain) - 1 /\ Len(chain) \in Nat
      BY LandedFacts, FS_RemoveElement
    <3>3. Len(C) =< Cardinality(A)
      BY <2>3, <3>1, <3>2, InjectiveBounded
    <3>. QED  BY <2>3, <3>2, <3>3, EventAssumption
  <2>5. o = 0
    BY <2>3, <2>4, EventAssumption
  <2>6. ToSet(D) = ToSet(C) \cup {t}
    <3>1. Len(D) = Len(C) + 1 /\ D[Len(D)] = t /\ \A m \in 1 .. Len(C) : D[m] = C[m]
      <4>. HIDE DEF o, D, C
      <4>1. Len(C) - o = Len(C) /\ \A m \in 1 .. Len(C) : m + o = m
        BY <2>3, <2>5
      <4>. QED  BY <2>2, <4>1 DEF Newer
    <3>2. \A m \in 1 .. Len(D) : m = Len(D) \/ m \in 1 .. Len(C)
      BY <2>3, <3>1
    <3>3. Len(D) \in 1 .. Len(D) /\ \A m \in 1 .. Len(C) : m \in 1 .. Len(D)
      BY <2>3, <3>1
    <3>. HIDE DEF D, C
    <3>4. ASSUME NEW u \in ToSet(D) PROVE u \in ToSet(C) \cup {t}
      BY <2>2, <2>3, <3>1, <3>2 DEF ToSet
    <3>5. ASSUME NEW u \in ToSet(C) PROVE u \in ToSet(D)
      BY <2>2, <2>3, <3>1, <3>3 DEF ToSet
    <3>6. t \in ToSet(D)
      BY <2>2, <3>1, <3>3 DEF ToSet
    <3>. QED  BY <3>4, <3>5, <3>6
  <2>7. S.emitted \in [1 .. MaxLanded -> Nat] /\ t \in 1 .. MaxLanded
    BY LandedFacts DEF CacheInv
  <2>8. ASSUME NEW u \in 1 .. MaxLanded
        PROVE  H.emitted[u] = IF u \in ToSet(H.cache) THEN 1 ELSE 0
    <3>1. S.emitted[u] = IF u \in ToSet(C) THEN 1 ELSE 0
      BY DEF Whole
    <3>2. H.emitted[u] = IF u = t THEN S.emitted[t] + 1 ELSE S.emitted[u]
      <4>. HIDE DEF H
      <4>. QED  BY <2>1, <2>7
    <3>3. u \in ToSet(H.cache) <=> u \in ToSet(C) \/ u = t
      BY <2>1, <2>6
    <3>. HIDE DEF H, C
    <3>. QED  BY <1>2, <3>1, <3>2, <3>3 DEF C
  <2>. QED  BY <2>8 DEF Whole
<1>. QED  BY <1>1, <1>2

(* A full cache is not all of one slot, so that what it forgets is of an   *)
(* earlier slot than the transaction it is forgotten for.                  *)
LEMMA ForgetsEarlier ==
    ASSUME ChainInv, NEW C \in Seq(Landed), IsInjective(C), Len(C) = MaxTx,
           \A a, b \in 1 .. Len(C) : a < b => Slot(C[a]) =< Slot(C[b]),
           NEW t \in Landed, t \notin ToSet(C), Slot(Newer(C)) =< Slot(t)
    PROVE  Slot(C[1]) < Slot(t)
<1>1. MaxTx \in Nat /\ MaxTx # 0 /\ MaxPerSlot \in Nat /\ MaxPerSlot =< MaxTx
  BY EventAssumption
<1>2. /\ Len(C) \in Nat /\ DOMAIN C = 1 .. Len(C) /\ Slot(t) \in Nat
      /\ \A m \in 1 .. Len(C) : C[m] \in Landed /\ Slot(C[m]) \in Nat
  BY LandedFacts
<1>3. 1 \in 1 .. Len(C) /\ Len(C) \in 1 .. Len(C)
  BY <1>1, <1>2
<1>4. SUFFICES ASSUME Slot(t) =< Slot(C[1]) PROVE FALSE
  BY <1>2, <1>3
<1>. DEFINE A == OfSlot(Slot(t)) \ {t}
<1>5. ASSUME NEW m \in 1 .. Len(C) PROVE C[m] \in A
  <2>1. Slot(C[1]) =< Slot(C[m]) /\ Slot(C[m]) =< Slot(C[Len(C)])
    <3>1. m = 1 \/ 1 < m
      BY <1>2
    <3>2. m = Len(C) \/ m < Len(C)
      BY <1>2
    <3>. QED  BY <1>2, <1>3, <3>1, <3>2
  <2>2. Slot(C[m]) = Slot(t)
    BY <1>2, <1>3, <1>4, <2>1 DEF Newer
  <2>3. C[m] # t
    BY <1>2 DEF ToSet
  <2>. QED  BY <1>2, <2>2, <2>3 DEF OfSlot
<1>6. OfSlot(Slot(t)) \in SUBSET Landed /\ t \in OfSlot(Slot(t))
  BY DEF OfSlot
<1>7. IsFiniteSet(OfSlot(Slot(t))) /\ Cardinality(OfSlot(Slot(t))) \in Nat
  BY <1>6, LandedFacts, FS_Subset, FS_CardinalityType
<1>8. IsFiniteSet(A) /\ Cardinality(A) = Cardinality(OfSlot(Slot(t))) - 1
  BY <1>6, <1>7, FS_RemoveElement
<1>9. Cardinality(OfSlot(Slot(t))) =< MaxPerSlot
  BY <1>2 DEF ChainInv
<1>. HIDE DEF A
<1>10. C \in Seq(A)
  <2>1. C \in [1 .. Len(C) -> A]
    BY <1>2, <1>5
  <2>. QED  BY <1>2, <2>1
<1>11. Len(C) =< Cardinality(A)
  BY <1>8, <1>10, InjectiveBounded
<1>. QED  BY <1>1, <1>7, <1>8, <1>9, <1>11

LEMMA PolledStep ==
    ASSUME ChainInv, NEW S, CacheInv(S), NEW floor, Polled(S, floor),
           NEW t \in Landed, floor =< Slot(t)
    PROVE  Polled(handleTxLogs(S, t), Slot(t))
<1>. DEFINE H == handleTxLogs(S, t)
            C == S.cache
            D == add(C, t)
            o == IF Len(C) = MaxTx THEN 1 ELSE 0
            l == Len(C) - o
<1>1. /\ C \in Seq(Landed) /\ Len(C) \in Nat /\ DOMAIN C = 1 .. Len(C) /\ IsInjective(C)
      /\ S.emitted \in [1 .. MaxLanded -> Nat]
  BY DEF CacheInv
<1>2. /\ \A u \in Landed : u \in 1 .. MaxLanded /\ Slot(u) \in Nat
      /\ \A m \in 1 .. Len(C) : C[m] \in Landed
  BY <1>1, LandedFacts
<1>3. /\ floor \in Nat
      /\ \A a, b \in 1 .. Len(C) : a < b => Slot(C[a]) =< Slot(C[b])
      /\ C # <<>> => Slot(Newer(C)) =< floor
      /\ \A u \in Landed : S.emitted[u] =< 1
      /\ \A u \in Landed : S.emitted[u] > 0 =>
            /\ Slot(u) =< floor /\ C # <<>>
            /\ u \in ToSet(C) \/ Slot(u) < Slot(Newer(C))
  BY DEF Polled
<1>4. C # <<>> => Newer(C) \in Landed /\ Slot(Newer(C)) \in Nat
  <2>1. C # <<>> => Len(C) \in 1 .. Len(C)
    BY <1>1
  <2>. QED  BY <1>2, <2>1 DEF Newer
<1>5. CASE t \in ToSet(C)
  <2>1. H = S
    BY <1>5, SeenAgain
  <2>2. /\ C # <<>> => Slot(Newer(C)) =< Slot(t)
        /\ \A u \in Landed : S.emitted[u] > 0 => Slot(u) =< Slot(t)
    BY <1>2, <1>3, <1>4
  <2>. HIDE DEF H
  <2>. QED  BY <1>2, <1>3, <2>1, <2>2 DEF Polled, H
<1>6. CASE t \notin ToSet(C)
  <2>1. H.cache = D /\ H.emitted = [S.emitted EXCEPT ![t] = @ + 1]
    BY <1>6, HandledFields
  <2>2. /\ D \in Seq(Landed) /\ Len(D) = l + 1
        /\ D # <<>> /\ Newer(D) = t /\ l \in Nat
        /\ \A m \in 1 .. l : D[m] = C[m + o] /\ m + o \in 1 .. Len(C)
        /\ DOMAIN D = 1 .. Len(D)
    BY <1>1, <1>6, AddFacts
  <2>3. \A u \in Landed : H.emitted[u] = IF u = t THEN S.emitted[t] + 1 ELSE S.emitted[u]
    <3>. HIDE DEF H
    <3>. QED  BY <1>1, <1>2, <2>1
  <2>4. o \in {0, 1} /\ l = Len(C) - o
    OBVIOUS
  <2>5. C # <<>> => Slot(Newer(C)) =< Slot(t)
    BY <1>2, <1>3, <1>4
  <2>6. o = 1 => Slot(C[1]) < Slot(t)
    <3>1. o = 1 => Len(C) = MaxTx /\ C # <<>>
      BY EventAssumption
    <3>2. Len(C) = MaxTx /\ C # <<>> => Slot(C[1]) < Slot(t)
      BY <1>1, <1>3, <1>6, <2>5, ForgetsEarlier
    <3>. QED  BY <3>1, <3>2
  <2>. HIDE DEF H, D, o, l
  <2>7. \A a \in 1 .. l : Slot(D[a]) \in Nat /\ Slot(D[a]) =< Slot(t)
    <3>1. ASSUME NEW m \in 1 .. Len(C) PROVE Slot(C[m]) \in Nat /\ Slot(C[m]) =< Slot(t)
      <4>1. C # <<>> /\ Len(C) \in 1 .. Len(C) /\ (m = Len(C) \/ m < Len(C))
        BY <1>1
      <4>2. Slot(C[m]) =< Slot(Newer(C))
        BY <1>2, <1>3, <4>1 DEF Newer
      <4>. QED  BY <1>2, <1>4, <2>5, <4>1, <4>2
    <3>. QED  BY <2>2, <3>1
  <2>8. ASSUME NEW a \in 1 .. Len(D), NEW b \in 1 .. Len(D), a < b
        PROVE  Slot(D[a]) =< Slot(D[b])
    <3>1. CASE b = l + 1
      <4>1. a \in 1 .. l /\ D[b] = t
        BY <2>2, <2>8, <3>1 DEF Newer
      <4>. QED  BY <2>7, <4>1
    <3>2. CASE b # l + 1
      <4>1. a \in 1 .. l /\ b \in 1 .. l /\ a + o < b + o
        <5>1. a \in 1 .. l + 1 /\ b \in 1 .. l + 1 /\ l \in Nat /\ o \in Int
          BY <2>2, <2>4
        <5>. QED  BY <2>8, <3>2, <5>1
      <4>. QED  BY <1>3, <2>2, <4>1
    <3>. QED  BY <3>1, <3>2
  <2>9. S.emitted[t] = 0
    <3>1. S.emitted[t] \in Nat
      BY <1>1, <1>2
    <3>2. ~ (S.emitted[t] > 0)
      BY <1>2, <1>3, <1>4, <1>6, <2>5
    <3>. QED  BY <3>1, <3>2
  <2>10. ASSUME NEW u \in Landed, H.emitted[u] > 0
         PROVE  Slot(u) =< Slot(t) /\ (u \in ToSet(D) \/ Slot(u) < Slot(t))
    <3>1. CASE u = t
      <4>1. l + 1 \in 1 .. Len(D) /\ D[l + 1] = t
        BY <2>2 DEF Newer
      <4>2. t \in ToSet(D)
        BY <2>2, <4>1 DEF ToSet
      <4>. QED  BY <1>2, <3>1, <4>2
    <3>2. CASE u # t
      <4>1. S.emitted[u] > 0
        BY <2>3, <2>10, <3>2
      <4>2. Slot(u) =< Slot(t) /\ C # <<>>
        BY <1>2, <1>3, <4>1
      <4>3. CASE u \notin ToSet(C)
        BY <1>2, <1>3, <1>4, <2>5, <4>1, <4>2, <4>3
      <4>4. CASE u \in ToSet(C)
        <5>1. PICK m \in 1 .. Len(C) : C[m] = u
          BY <1>1, <4>4 DEF ToSet
        <5>2. CASE o = 1 /\ m = 1
          BY <2>6, <4>2, <5>1, <5>2
        <5>3. CASE ~ (o = 1 /\ m = 1)
          <6>1. m - o \in 1 .. l /\ (m - o) + o = m
            BY <1>1, <2>4, <5>3
          <6>2. D[m - o] = u /\ m - o \in 1 .. Len(D)
            <7>1. D[m - o] = C[(m - o) + o]
              BY <2>2, <6>1
            <7>. QED  BY <2>2, <5>1, <6>1, <7>1
          <6>3. u \in ToSet(D)
            BY <2>2, <6>2 DEF ToSet
          <6>. QED  BY <4>2, <6>3
        <5>. QED  BY <5>2, <5>3
      <4>. QED  BY <4>3, <4>4
    <3>. QED  BY <3>1, <3>2
  <2>11. \A u \in Landed : H.emitted[u] =< 1
    BY <1>3, <2>3, <2>9
  <2>12. Slot(t) \in Nat /\ Slot(Newer(D)) =< Slot(t)
    BY <1>2, <2>2
  <2>. QED  BY <2>1, <2>2, <2>8, <2>10, <2>11, <2>12 DEF Polled, H
<1>. QED  BY <1>5, <1>6

-----------------------------------------------------------------------------
(* A client that only polls, with the newest event first: every event goes *)
(* to the head and the tail is the last node, so that what detach drops is *)
(* the oldest.                                                             *)

Listed(L, s, m) == L.node[s[m]].event

LEMMA InsertAtHead ==
    ASSUME ChainInv, NewestFirst, NEW L, NEW s, Linked(L, s), LandedEvents(L),
           NEW t \in Landed, \A m \in 1 .. Len(s) : Slot(Listed(L, s, m)) =< Slot(t),
           L.size = Len(s), Len(s) =< MaxEvents, s # <<>> => L.tail = s[Len(s)]
    PROVE  LET M == insert(L, t)
           IN \E c : /\ Linked(M, c) /\ LandedEvents(M)
                     /\ M.size = Len(c) /\ c # <<>> /\ M.tail = c[Len(c)]
                     /\ Len(c) = IF Len(s) < MaxEvents THEN Len(s) + 1 ELSE Len(s)
                     /\ Listed(M, c, 1) = t
                     /\ \A m \in 2 .. Len(c) : Listed(M, c, m) = Listed(L, s, m - 1)
<1>. DEFINE M == insert(L, t)
            n == Len(L.node) + 1
            Result(R, c) == /\ Linked(R, c) /\ LandedEvents(R)
                            /\ R.size = Len(c) /\ c # <<>> /\ R.tail = c[Len(c)]
                            /\ Len(c) = IF Len(s) < MaxEvents THEN Len(s) + 1 ELSE Len(s)
                            /\ Listed(R, c, 1) = t
                            /\ \A m \in 2 .. Len(c) : Listed(R, c, m) = Listed(L, s, m - 1)
<1>1. /\ Len(L.node) \in Nat /\ Len(s) \in Nat /\ s \in Seq(1 .. Len(L.node)) /\ L \in ListType
      /\ \A m \in 1 .. Len(s) : s[m] \in 1 .. Len(L.node)
  BY LinkedFacts
<1>2. t \in Nat /\ MaxEvents \in Nat /\ MaxEvents # 0
  BY LandedFacts, EventAssumption
<1>3. PICK k \in 0 .. Len(s) :
         /\ Fits(L, s, k, t)
         /\ M = IF s = <<>> THEN First(L, t)
                ELSE IF L.size + 1 > MaxEvents THEN detach(Spliced(L, s, k, t))
                                               ELSE Spliced(L, s, k, t)
  BY <1>2, InsertCases
<1>. HIDE DEF M
<1>4. k = 0
  <2>1. SUFFICES ASSUME k # 0 PROVE FALSE
    OBVIOUS
  <2>2. 1 \in 1 .. Len(s) /\ 1 \in 1 .. k
    BY <1>1, <2>1
  <2>3. ~ Precedes(t, Listed(L, s, 1))
    BY <1>3, <2>2 DEF Fits, Listed
  <2>4. Slot(Listed(L, s, 1)) =< Slot(t)
    BY <2>2
  <2>. QED  BY <2>3, <2>4 DEF Precedes, LessThan, defaultBlockchainSortFn, NewestFirst, Slot
<1>5. CASE s = <<>>
  <2>. DEFINE c == <<n>>
  <2>1. Good(First(L, t), c)
    BY <1>1, FirstGood
  <2>2. /\ First(L, t).tail = n /\ First(L, t).size = L.size + 1
        /\ First(L, t).node[n].event = t
    BY <1>1, <1>2, FirstFacts
  <2>3. Len(c) = 1 /\ c[1] = n /\ c # <<>> /\ Len(s) = 0 /\ 2 .. 1 = {}
    BY <1>5
  <2>4. Linked(M, c) /\ LandedEvents(M) /\ M.tail = n /\ M.size = 1 /\ M.node[n].event = t
    BY <1>3, <1>5, <2>1, <2>2, <2>3 DEF Good
  <2>. HIDE DEF c
  <2>5. \A m \in 2 .. Len(c) : FALSE
    BY <2>3
  <2>6. Result(M, c)
    BY <1>2, <2>3, <2>4, <2>5 DEF Listed
  <2>. QED  BY <2>6 DEF M
<1>6. CASE s # <<>>
  <2>. DEFINE P == Spliced(L, s, 0, t)
              d == PutIn(s, 0, n)
              T == 1 .. n
              p == Len(d)
  <2>1. 0 \in 0 .. Len(s) /\ Len(s) > 0
    BY <1>1, <1>6
  <2>2. Linked(P, d)
    BY <1>2, <2>1, SpliceLinked
  <2>3. /\ Len(P.node) = n /\ P.tail = L.tail /\ P.size = L.size + 1 /\ P.node[n].event = t
        /\ \A m \in 1 .. Len(L.node) : P.node[m].event = L.node[m].event
    BY <1>2, <2>1, SplicedFacts
  <2>4. n \in T /\ s \in Seq(T)
    <3>1. n \in T /\ 1 .. Len(L.node) \subseteq T
      BY <1>1
    <3>. HIDE DEF T
    <3>. QED  BY <1>1, <3>1, SeqMonotonic
  <2>. HIDE DEF T, n
  <2>5. d \in Seq(T) /\ Len(d) = Len(s) + 1
    BY <2>1, <2>4, PutInFacts
  <2>6. \A m \in 1 .. Len(d) : d[m] = IF m =< 0 THEN s[m] ELSE IF m = 0 + 1 THEN n ELSE s[m - 1]
    BY <2>1, <2>4, PutInFacts
  <2>. HIDE DEF P, d
  <2>7. /\ p = Len(s) + 1 /\ p \in Nat /\ p > 1 /\ p - 1 = Len(s)
        /\ d[1] = n /\ \A m \in 2 .. p : d[m] = s[m - 1] /\ m - 1 \in 1 .. Len(s)
    BY <1>1, <2>1, <2>5, <2>6
  <2>8. P.tail = d[p]
    BY <1>6, <2>3, <2>7
  <2>9. LandedEvents(P)
    <3>1. \A m \in 1 .. n : m = n \/ m \in 1 .. Len(L.node)
      BY <1>1 DEF n
    <3>. QED  BY <2>3, <3>1 DEF LandedEvents
  <2>10. Listed(P, d, 1) = t /\ \A m \in 2 .. p : Listed(P, d, m) = Listed(L, s, m - 1)
    BY <1>1, <2>3, <2>7 DEF Listed
  <2>11. CASE Len(s) < MaxEvents
    <3>1. M = P /\ d # <<>>
      BY <1>1, <1>2, <1>3, <1>4, <1>6, <2>7, <2>11 DEF P
    <3>2. P.size = Len(d) /\ P.tail = d[Len(d)] /\ Len(d) = Len(s) + 1
      BY <2>3, <2>7, <2>8
    <3>3. Result(P, d)
      BY <2>2, <2>9, <2>10, <2>11, <3>1, <3>2
    <3>. QED  BY <3>1, <3>3 DEF M
  <2>12. CASE ~ (Len(s) < MaxEvents)
    <3>. DEFINE i == p - 1
                j == p + 1
                c == Cut(d, i, j)
                R == detach(P)
                from(m) == IF m =< i THEN m ELSE m + (j - i - 1)
    <3>1. M = R
      BY <1>1, <1>2, <1>3, <1>4, <1>6, <2>12 DEF P
    <3>2. p \in 1 .. Len(d) /\ Len(d) > 1 /\ p = Len(d)
      BY <2>7
    <3>3. /\ Linked(R, c) /\ Len(R.node) = Len(P.node) /\ R.size = P.size - 1
          /\ R.tail = d[p - 1]
          /\ \A m \in 1 .. Len(P.node) : R.node[m].event = P.node[m].event
      <4>. HIDE DEF p
      <4>. QED  BY <2>2, <2>8, <3>2, DetachHeld
    <3>4. i = Len(s) /\ j = Len(s) + 2 /\ i \in 0 .. Len(d) /\ j \in 1 .. Len(d) + 1 /\ i < j
      BY <1>1, <2>7
    <3>. HIDE DEF i, j
    <3>5. /\ c \in Seq(T) /\ Len(c) = i + (Len(d) + 1 - j)
          /\ \A m \in 1 .. Len(c) : from(m) \in 1 .. Len(d) /\ c[m] = d[from(m)]
      <4>1. d \in Seq(T) /\ i \in 0 .. Len(d) /\ j \in 1 .. Len(d) + 1 /\ i < j
        BY <2>5, <3>4
      <4>. QED  BY <4>1, CutFacts
    <3>. HIDE DEF c, R
    <3>6. Len(c) = Len(s) /\ \A m \in 1 .. Len(c) : c[m] = d[m] /\ m \in 1 .. Len(d)
      <4>1. Len(c) = Len(s)
        BY <1>1, <2>7, <3>4, <3>5
      <4>2. \A m \in 1 .. Len(c) : from(m) = m
        BY <1>1, <3>4, <4>1
      <4>. HIDE DEF from
      <4>. QED  BY <3>5, <4>1, <4>2
    <3>7. Len(c) \in 1 .. Len(c) /\ 1 \in 1 .. Len(c) /\ c # <<>>
      BY <1>1, <2>1, <3>5, <3>6
    <3>8. R.size = Len(c) /\ R.tail = c[Len(c)]
      <4>1. R.size = (Len(s) + 1) - 1 /\ R.tail = d[Len(s)]
        BY <2>3, <2>7, <3>3
      <4>. QED  BY <1>1, <3>6, <3>7, <4>1
    <3>9. LandedEvents(R)
      BY <2>9, <3>3 DEF LandedEvents
    <3>10. \A m \in 1 .. Len(c) : Listed(R, c, m) = Listed(P, d, m)
      <4>1. \A m \in 1 .. Len(d) : d[m] \in 1 .. Len(P.node)
        BY <2>2, LinkedFacts
      <4>. QED  BY <3>3, <3>6, <4>1 DEF Listed
    <3>11. Listed(R, c, 1) = t /\ \A m \in 2 .. Len(c) : Listed(R, c, m) = Listed(L, s, m - 1)
      <4>1. \A m \in 2 .. Len(c) : m \in 1 .. Len(c) /\ m \in 2 .. p
        BY <1>1, <2>7, <3>6
      <4>. QED  BY <2>10, <3>7, <3>10, <4>1
    <3>12. Result(R, c)
      BY <2>12, <3>3, <3>6, <3>7, <3>8, <3>9, <3>11
    <3>. QED  BY <3>1, <3>12 DEF M
  <2>. QED  BY <2>11, <2>12
<1>. QED  BY <1>5, <1>6

EmittedIn(S) == {t \in Landed : S.emitted[t] > 0}

Newest(S, s) ==
    /\ Linked(S.list, s) /\ LandedEvents(S.list)
    /\ S.list.size = Len(s) /\ (s # <<>> => S.list.tail = s[Len(s)])
    /\ Len(s) =< MaxEvents /\ Len(s) =< Cardinality(EmittedIn(S))
    /\ Len(s) = MaxEvents \/ Len(s) = Cardinality(EmittedIn(S))
    /\ \A m \in 1 .. Len(s) : Listed(S.list, s, m) \in EmittedIn(S)
    /\ \A a, b \in 1 .. Len(s) : a < b => Slot(Listed(S.list, s, a)) >= Slot(Listed(S.list, s, b))
    /\ \A t \in EmittedIn(S) :
          \/ \E m \in 1 .. Len(s) : Listed(S.list, s, m) = t
          \/ \A m \in 1 .. Len(s) : Slot(t) =< Slot(Listed(S.list, s, m))

LEMMA Unseen ==
    ASSUME ChainInv, NEW S, CacheInv(S), NEW floor, Polled(S, floor),
           NEW t \in Landed, floor =< Slot(t), t \notin ToSet(S.cache)
    PROVE  S.emitted[t] = 0
<1>1. S.emitted[t] \in Nat /\ Slot(t) \in Nat
  BY LandedFacts DEF CacheInv
<1>2. ASSUME S.emitted[t] > 0 PROVE FALSE
  <2>1. S.cache # <<>> /\ Slot(t) < Slot(Newer(S.cache)) /\ Slot(Newer(S.cache)) =< floor
    BY <1>2 DEF Polled
  <2>2. S.cache \in Seq(Landed) /\ Len(S.cache) \in Nat
    BY DEF CacheInv
  <2>3. Newer(S.cache) \in Landed
    BY <2>1, <2>2 DEF Newer
  <2>4. Slot(Newer(S.cache)) \in Nat /\ floor \in Nat
    BY <2>3, LandedFacts DEF Polled
  <2>. QED  BY <1>1, <2>1, <2>4
<1>. QED  BY <1>1, <1>2

LEMMA NewestStep ==
    ASSUME ChainInv, NewestFirst, NEW S, CacheInv(S), NEW floor, Polled(S, floor),
           NEW s, Newest(S, s), NEW t \in Landed, floor =< Slot(t)
    PROVE  \E c : Newest(handleTxLogs(S, t), c)
<1>. DEFINE H == handleTxLogs(S, t)
            L == S.list
            M == insert(L, t)
            E == EmittedIn(S)
            F == EmittedIn(H)
<1>1. CASE t \in ToSet(S.cache)
  BY <1>1, SeenAgain
<1>2. CASE t \notin ToSet(S.cache)
  <2>1. H.list = M /\ H.emitted = [S.emitted EXCEPT ![t] = @ + 1]
    BY <1>2, HandledFields
  <2>2. \A u \in Landed : u \in 1 .. MaxLanded /\ Slot(u) \in Nat
    BY LandedFacts
  <2>3. S.emitted[t] = 0
    BY <1>2, Unseen
  <2>4. F = E \cup {t} /\ t \notin E /\ E \subseteq Landed
    <3>1. S.emitted \in [1 .. MaxLanded -> Nat]
      BY DEF CacheInv
    <3>2. \A u \in Landed : H.emitted[u] = IF u = t THEN 1 ELSE S.emitted[u]
      <4>. HIDE DEF H
      <4>1. \A u \in Landed : H.emitted[u] = IF u = t THEN S.emitted[t] + 1 ELSE S.emitted[u]
        BY <2>1, <2>2, <3>1
      <4>. QED  BY <2>3, <4>1
    <3>. HIDE DEF H
    <3>3. ASSUME NEW u \in Landed PROVE u \in F <=> (u \in E \/ u = t)
      BY <3>2 DEF EmittedIn
    <3>4. t \notin E /\ E \subseteq Landed /\ F \subseteq Landed
      BY <2>3 DEF EmittedIn
    <3>. QED  BY <3>3, <3>4
  <2>5. IsFiniteSet(E) /\ Cardinality(E) \in Nat /\ Cardinality(F) = Cardinality(E) + 1
    <3>1. IsFiniteSet(E)
      BY <2>4, LandedFacts, FS_Subset
    <3>. HIDE DEF E, F
    <3>. QED  BY <2>4, <3>1, FS_AddElement, FS_CardinalityType
  <2>6. \A u \in E : Slot(u) \in Nat /\ Slot(u) =< Slot(t)
    <3>1. \A u \in E : Slot(u) =< floor /\ floor \in Nat
      BY DEF Polled, EmittedIn
    <3>. QED  BY <2>2, <2>4, <3>1
  <2>7. /\ Linked(L, s) /\ LandedEvents(L)
        /\ L.size = Len(s) /\ (s # <<>> => L.tail = s[Len(s)])
        /\ Len(s) =< MaxEvents /\ Len(s) =< Cardinality(E)
        /\ Len(s) = MaxEvents \/ Len(s) = Cardinality(E)
        /\ \A m \in 1 .. Len(s) : Listed(L, s, m) \in E
        /\ \A a, b \in 1 .. Len(s) : a < b => Slot(Listed(L, s, a)) >= Slot(Listed(L, s, b))
        /\ \A u \in E : \/ \E m \in 1 .. Len(s) : Listed(L, s, m) = u
                        \/ \A m \in 1 .. Len(s) : Slot(u) =< Slot(Listed(L, s, m))
    BY DEF Newest
  <2>8. \A m \in 1 .. Len(s) : Slot(Listed(L, s, m)) \in Nat /\ Slot(Listed(L, s, m)) =< Slot(t)
    <3>. HIDE DEF E, L
    <3>. QED  BY <2>6, <2>7
  <2>9. Len(s) \in Nat /\ MaxEvents \in Nat
    BY <2>7, LinkedFacts, EventAssumption
  <2>. HIDE DEF H, L, M, E, F
  <2>10. PICK c : /\ Linked(M, c) /\ LandedEvents(M)
                  /\ M.size = Len(c) /\ c # <<>> /\ M.tail = c[Len(c)]
                  /\ Len(c) = IF Len(s) < MaxEvents THEN Len(s) + 1 ELSE Len(s)
                  /\ Listed(M, c, 1) = t
                  /\ \A m \in 2 .. Len(c) : Listed(M, c, m) = Listed(L, s, m - 1)
    BY <2>7, <2>8, InsertAtHead DEF M
  <2>11. /\ Len(c) \in Nat /\ Len(c) >= 1 /\ Len(c) >= Len(s)
         /\ \A m \in 1 .. Len(c) : m = 1 \/ (m \in 2 .. Len(c) /\ m - 1 \in 1 .. Len(s))
    BY <2>9, <2>10, LinkedFacts, EventAssumption
  <2>12. \A m \in 1 .. Len(c) : Listed(M, c, m) \in F
    BY <2>4, <2>7, <2>10, <2>11
  <2>13. ASSUME NEW a \in 1 .. Len(c), NEW b \in 1 .. Len(c), a < b
         PROVE  Slot(Listed(M, c, a)) >= Slot(Listed(M, c, b))
    <3>1. b \in 2 .. Len(c) /\ b - 1 \in 1 .. Len(s) /\ Listed(M, c, b) = Listed(L, s, b - 1)
      BY <2>10, <2>11, <2>13
    <3>2. CASE a = 1
      BY <2>2, <2>8, <2>10, <3>1, <3>2
    <3>3. CASE a # 1
      <4>1. /\ a \in 2 .. Len(c) /\ a - 1 \in 1 .. Len(s) /\ a - 1 < b - 1
            /\ Listed(M, c, a) = Listed(L, s, a - 1)
        BY <2>10, <2>11, <2>13, <3>3
      <4>. QED  BY <2>7, <3>1, <4>1
    <3>. QED  BY <3>2, <3>3
  <2>14. ASSUME NEW u \in F, \A m \in 1 .. Len(c) : Listed(M, c, m) # u, NEW m \in 1 .. Len(c)
         PROVE  Slot(u) =< Slot(Listed(M, c, m))
    <3>1. 1 \in 1 .. Len(c)
      BY <2>11
    <3>2. u # t /\ u \in E
      BY <2>4, <2>10, <2>14, <3>1
    <3>3. CASE m = 1
      BY <2>6, <2>10, <3>2, <3>3
    <3>4. CASE m # 1
      <4>1. /\ m \in 2 .. Len(c) /\ m - 1 \in 1 .. Len(s)
            /\ Listed(M, c, m) = Listed(L, s, m - 1)
        BY <2>10, <2>11, <3>4
      <4>2. CASE \E a \in 1 .. Len(s) : Listed(L, s, a) = u
        <5>1. PICK a \in 1 .. Len(s) : Listed(L, s, a) = u
          BY <4>2
        <5>2. ~ (a + 1 =< Len(c))
          <6>1. SUFFICES ASSUME a + 1 =< Len(c) PROVE FALSE
            OBVIOUS
          <6>2. a + 1 \in 1 .. Len(c) /\ a + 1 \in 2 .. Len(c) /\ (a + 1) - 1 = a
            BY <2>11, <6>1
          <6>3. Listed(M, c, a + 1) = Listed(L, s, (a + 1) - 1)
            BY <2>10, <6>2
          <6>. QED  BY <2>14, <5>1, <6>2, <6>3
        <5>3. m - 1 = a \/ m - 1 < a
          BY <2>9, <2>11, <5>2
        <5>. QED  BY <2>7, <2>8, <4>1, <5>1, <5>3
      <4>3. CASE ~ \E a \in 1 .. Len(s) : Listed(L, s, a) = u
        BY <2>7, <3>2, <4>1, <4>3
      <4>. QED  BY <4>2, <4>3
    <3>. QED  BY <3>3, <3>4
  <2>15. /\ Len(c) =< MaxEvents /\ Len(c) =< Cardinality(F)
         /\ Len(c) = MaxEvents \/ Len(c) = Cardinality(F)
    BY <2>5, <2>7, <2>9, <2>10
  <2>16. Newest(H, c)
    BY <2>1, <2>10, <2>12, <2>13, <2>14, <2>15 DEF Newest, F
  <2>. QED  BY <2>16 DEF H
<1>. QED  BY <1>1, <1>2

(* What ListKeepsNewest says of the list.                                  *)
LEMMA NewestKept ==
    ASSUME ChainInv, NEW S, NEW s, Newest(S, s)
    PROVE  LET events == ToSet(toArray(S.list))
           IN /\ Len(toArray(S.list)) = S.list.size
              /\ S.list.size = Min({MaxEvents, Cardinality(EmittedIn(S))})
              /\ \A t \in EmittedIn(S) \ events, e \in events : chain[t].slot =< chain[e].slot
<1>. DEFINE L == S.list
            A == toArray(L)
            N == Cardinality(EmittedIn(S))
<1>1. Linked(L, s) /\ Len(s) \in Nat /\ DOMAIN s = 1 .. Len(s) /\ nodes_of(L) = s
  BY LinkedFacts, NodesOf DEF Newest
<1>2. A = [m \in 1 .. Len(s) |-> L.node[s[m]].event]
  BY <1>1 DEF toArray
<1>3. Len(A) = Len(s) /\ DOMAIN A = 1 .. Len(s) /\ \A m \in 1 .. Len(s) : A[m] = Listed(L, s, m)
  BY <1>1, <1>2 DEF Listed
<1>. HIDE DEF A, L
<1>4. Len(s) =< MaxEvents /\ Len(s) =< N /\ (Len(s) = MaxEvents \/ Len(s) = N) /\ L.size = Len(s)
  BY DEF Newest, L
<1>5. L.size = Min({MaxEvents, N})
  <2>1. MaxEvents \in Nat /\ N \in Nat
    <3>1. EmittedIn(S) \in SUBSET Landed
      BY DEF EmittedIn
    <3>. QED  BY <3>1, EventAssumption, LandedFacts, FS_Subset, FS_CardinalityType
  <2>. DEFINE m == IF Len(s) = MaxEvents THEN MaxEvents ELSE N
  <2>2. m = Len(s) /\ m \in {MaxEvents, N} /\ \A y \in {MaxEvents, N} : m =< y
    BY <1>1, <1>4
  <2>3. Min({MaxEvents, N}) = CHOOSE x \in {MaxEvents, N} : \A y \in {MaxEvents, N} : x =< y
    BY Zenon DEF Min
  <2>. DEFINE x == Min({MaxEvents, N})
  <2>. HIDE DEF N, m
  <2>4. x \in {MaxEvents, N} /\ \A y \in {MaxEvents, N} : x =< y
    BY <2>2, <2>3
  <2>. HIDE DEF x
  <2>5. x =< m /\ m =< x
    BY <2>2, <2>4
  <2>6. x \in Nat
    BY <2>1, <2>4
  <2>. QED  BY <1>1, <1>4, <2>2, <2>5, <2>6 DEF x
<1>6. ASSUME NEW t \in EmittedIn(S) \ ToSet(A), NEW e \in ToSet(A)
      PROVE  chain[t].slot =< chain[e].slot
  <2>1. PICK m \in 1 .. Len(s) : e = Listed(L, s, m)
    BY <1>3 DEF ToSet
  <2>2. ~ \E a \in 1 .. Len(s) : Listed(L, s, a) = t
    BY <1>3 DEF ToSet
  <2>3. Slot(t) =< Slot(Listed(L, s, m))
    BY <2>2 DEF Newest, L
  <2>. QED  BY <2>1, <2>3 DEF Slot
<1>. QED  BY <1>3, <1>4, <1>5, <1>6 DEF A, L

-----------------------------------------------------------------------------
(* The client's state, through the pages it handles.                       *)

ClientInv(S, floor) ==
    /\ ListInv(S.list) /\ CacheInv(S)
    /\ Len(chain) =< MaxTx => Whole(S)
    /\ OnlyPolls => Polled(S, floor)
    /\ OnlyPolls /\ NewestFirst => \E s : Newest(S, s)

LEMMA ClientStep ==
    ASSUME ChainInv, NEW S, NEW floor, ClientInv(S, floor), NEW t \in Landed,
           OnlyPolls => floor =< Slot(t)
    PROVE  ClientInv(handleTxLogs(S, t), Slot(t))
<1>. DEFINE H == handleTxLogs(S, t)
<1>1. ListInv(S.list) /\ CacheInv(S)
  BY DEF ClientInv
<1>2. ListInv(H.list)
  <2>1. CASE t \in ToSet(S.cache)
    BY <1>1, <2>1, SeenAgain
  <2>2. CASE t \notin ToSet(S.cache)
    <3>1. PICK s : Good(S.list, s)
      BY <1>1 DEF ListInv
    <3>2. H.list = insert(S.list, t)
      BY <2>2, HandledFields
    <3>3. \E c : Good(insert(S.list, t), c)
      BY <3>1, InsertGood
    <3>. QED  BY <3>2, <3>3 DEF ListInv
  <2>. QED  BY <2>1, <2>2
<1>3. CacheInv(H)
  BY <1>1, CacheStep
<1>4. Len(chain) =< MaxTx => Whole(H)
  BY <1>1, WholeStep DEF ClientInv
<1>5. OnlyPolls => Polled(H, Slot(t))
  BY <1>1, PolledStep DEF ClientInv
<1>6. ASSUME OnlyPolls, NewestFirst PROVE \E c : Newest(H, c)
  <2>1. PICK s : Newest(S, s)
    BY <1>6 DEF ClientInv
  <2>2. Polled(S, floor) /\ floor =< Slot(t)
    BY <1>6 DEF ClientInv
  <2>. QED  BY <1>1, <1>6, <2>1, <2>2, NewestStep
<1>. HIDE DEF H
<1>. QED  BY <1>2, <1>3, <1>4, <1>5, <1>6 DEF ClientInv, H

LEMMA HandlePage ==
    ASSUME ChainInv, NEW base, NEW floor, ClientInv(base, floor),
           NEW page, Page(page), page # <<>>,
           OnlyPolls => \A i \in DOMAIN page : floor =< Slot(page[i])
    PROVE  ClientInv(HandleEach(base, page), Slot(Last(page)))
<1>. DEFINE n == Len(page)
<1>1. /\ page \in Seq(Landed) /\ n \in Nat /\ n # 0 /\ DOMAIN page = 1 .. n
      /\ \A i \in 1 .. n : page[i] \in Landed
  BY DEF Page
<1>2. \A i, j \in 1 .. n : i < j => Slot(page[i]) =< Slot(page[j])
  BY <1>1 DEF Page, InOrder
<1>3. PICK h : /\ h[0] = base
               /\ \A k \in 1 .. Len(page) : h[k] = handleTxLogs(h[k - 1], page[k])
               /\ HandleEach(base, page) = h[Len(page)]
  BY <1>1, HandledOneByOne
<1>. HIDE DEF n
<1>. DEFINE Low(k) == IF k = 0 THEN floor ELSE Slot(page[k])
            P == {k \in Nat : k =< n => ClientInv(h[k], Low(k))}
<1>4. 0 \in P
  BY <1>3
<1>5. ASSUME NEW k \in P PROVE k + 1 \in P
  <2>1. k \in Nat
    OBVIOUS
  <2>2. ASSUME k + 1 =< n PROVE ClientInv(h[k + 1], Low(k + 1))
    <3>1. k =< n /\ k + 1 \in 1 .. n /\ (k + 1) - 1 = k /\ k + 1 # 0
      BY <1>1, <2>1, <2>2
    <3>2. ClientInv(h[k], Low(k))
      BY <1>5, <3>1
    <3>3. OnlyPolls => Low(k) =< Slot(page[k + 1])
      <4>1. CASE k = 0
        BY <1>1, <3>1, <4>1
      <4>2. CASE k # 0
        <5>1. k \in 1 .. n /\ k < k + 1
          BY <2>1, <3>1, <4>2
        <5>. QED  BY <1>2, <3>1, <4>2, <5>1
      <4>. QED  BY <4>1, <4>2
    <3>4. h[k + 1] = handleTxLogs(h[k], page[k + 1])
      BY <1>3, <3>1 DEF n
    <3>5. page[k + 1] \in Landed
      BY <1>1, <3>1
    <3>. HIDE DEF Low
    <3>6. ClientInv(handleTxLogs(h[k], page[k + 1]), Slot(page[k + 1]))
      BY <3>2, <3>3, <3>5, ClientStep
    <3>7. Low(k + 1) = Slot(page[k + 1])
      BY <3>1 DEF Low
    <3>. QED  BY <3>4, <3>6, <3>7
  <2>. HIDE DEF Low
  <2>. QED  BY <2>1, <2>2
<1>6. P = Nat
  <2>1. P \in SUBSET Nat
    OBVIOUS
  <2>. HIDE DEF P
  <2>. QED  BY <1>4, <1>5, <2>1, NatSetInduction
<1>7. ClientInv(h[n], Low(n))
  <2>. HIDE DEF Low
  <2>. QED  BY <1>1, <1>6
<1>8. Low(n) = Slot(Last(page))
  BY <1>1 DEF Last, n
<1>. HIDE DEF Low
<1>. QED  BY <1>3, <1>7, <1>8 DEF n

(* The chain only grows.                                                   *)
Extends ==
    /\ \A t \in Landed : t \in Landed' /\ chain'[t] = chain[t]
    /\ Len(chain) \in Nat /\ Len(chain') \in Nat
    /\ Len(chain) =< Len(chain') /\ Len(chain') =< MaxLanded

LEMMA ListKept ==
    ASSUME Extends, options' = options, NEW L, ListInv(L), list' = L
    PROVE  ListInv(list)'
<1>1. PICK s : Good(L, s)
  BY DEF ListInv
<1>2. Linked(L, s) /\ Tailed(L, s) /\ LandedEvents(L) /\ (Clean(L) => SortedNodes(L, s))
  BY <1>1 DEF Good
<1>3. \A m \in 1 .. Len(s) : s[m] \in 1 .. Len(L.node) /\ L.node[s[m]].event \in Landed
  BY <1>2, LinkedFacts DEF LandedEvents
<1>4. \A t \in Landed : t \in Landed' /\ chain'[t] = chain[t] /\ SortKey(t)' = SortKey(t)
  BY DEF Extends, SortKey, ts, EventType
<1>5. LandedEvents(list)'
  BY <1>2, <1>4 DEF LandedEvents
<1>6. Linked(list, s)' /\ Tailed(list, s)'
  BY <1>2
<1>7. ASSUME Clean(list)' PROVE SortedNodes(list, s)'
  <2>0. Clean(L)
    BY <1>2, <1>4, <1>7 DEF Clean, LandedEvents, EventType
  <2>1. \A a, b \in 1 .. Len(s) : a < b => Ordered(L.node[s[a]].event, L.node[s[b]].event)
    BY <1>2, <2>0 DEF SortedNodes
  <2>2. ASSUME NEW a \in 1 .. Len(s), NEW b \in 1 .. Len(s), a < b
        PROVE  Ordered(list.node[s[a]].event, list.node[s[b]].event)'
    BY <1>3, <1>4, <2>1, <2>2 DEF Ordered
  <2>. QED  BY <2>2 DEF SortedNodes
<1>8. Good(list, s)'
  BY <1>5, <1>6, <1>7 DEF Good
<1>. QED  BY <1>8 DEF ListInv

LEMMA ClientKept ==
    ASSUME ChainInv, Extends, options' = options, NEW S, NEW floor, ClientInv(S, floor),
           list' = S.list, cache' = S.cache, emitted' = S.emitted
    PROVE  ClientInv(Client, floor)'
<1>1. \A t \in Landed : t \in Landed' /\ Slot(t)' = Slot(t) /\ t \in 1 .. MaxLanded
  BY LandedFacts DEF Extends, Slot
<1>2. Client.list' = S.list /\ Client.cache' = S.cache /\ Client.emitted' = S.emitted
  BY DEF Client
<1>3. ListInv(Client.list)'
  <2>1. ListInv(list)'
    BY ListKept DEF ClientInv
  <2>. QED  BY <2>1 DEF Client
<1>4. CacheInv(S)
  BY DEF ClientInv
<1>5. CacheInv(Client)'
  <2>1. S.cache \in Seq(Landed) /\ Landed \subseteq Landed'
    BY <1>1, <1>4 DEF CacheInv
  <2>2. S.cache \in Seq(Landed')
    BY <2>1, SeqMonotonic
  <2>3. IsInjective(S.cache) /\ S.emitted \in [1 .. MaxLanded -> Nat]
    BY <1>4 DEF CacheInv
  <2>4. \A t \in 1 .. MaxLanded : S.emitted[t] > 0 => t \in Landed'
    BY <1>1, <1>4 DEF CacheInv
  <2>. QED  BY <1>2, <2>2, <2>3, <2>4 DEF CacheInv
<1>6. (Len(chain) =< MaxTx => Whole(Client))'
  <2>1. Len(chain') =< MaxTx => Len(chain) =< MaxTx
    BY EventAssumption DEF Extends
  <2>2. Whole(S) => Whole(Client)'
    BY <1>2 DEF Whole
  <2>. QED  BY <2>1, <2>2 DEF ClientInv
<1>7. OnlyPolls' <=> OnlyPolls
  BY DEF OnlyPolls
<1>8. \A t \in Landed' : t \in 1 .. MaxLanded /\ S.emitted[t] \in Nat /\ (S.emitted[t] > 0 => t \in Landed)
  <2>1. \A t \in Landed' : t \in 1 .. MaxLanded
    BY EventAssumption DEF Extends, Landed
  <2>. QED  BY <1>4, <2>1 DEF CacheInv
<1>9. ASSUME OnlyPolls PROVE Polled(Client, floor)'
  <2>1. Polled(S, floor)
    BY <1>9 DEF ClientInv
  <2>2. S.cache \in Seq(Landed) /\ Len(S.cache) \in Nat
    BY <1>4 DEF CacheInv
  <2>3. \A a \in 1 .. Len(S.cache) : S.cache[a] \in Landed
    BY <2>2
  <2>4. S.cache # <<>> => Newer(S.cache) \in Landed
    BY <2>2 DEF Newer
  <2>5. \A a, b \in 1 .. Len(S.cache) : a < b => Slot(S.cache[a])' =< Slot(S.cache[b])'
    BY <1>1, <2>1, <2>3 DEF Polled
  <2>6. floor \in Nat /\ (S.cache # <<>> => Slot(Newer(S.cache))' =< floor)
    BY <1>1, <2>1, <2>4 DEF Polled
  <2>7. \A t \in Landed' : S.emitted[t] =< 1
    <3>1. \A t \in Landed : S.emitted[t] =< 1
      BY <2>1 DEF Polled
    <3>. QED  BY <1>8, <3>1
  <2>8. ASSUME NEW t \in Landed', S.emitted[t] > 0
        PROVE  /\ Slot(t)' =< floor /\ S.cache # <<>>
               /\ t \in ToSet(S.cache) \/ Slot(t)' < Slot(Newer(S.cache))'
    <3>1. t \in Landed
      BY <1>8, <2>8
    <3>2. /\ Slot(t) =< floor /\ S.cache # <<>>
          /\ t \in ToSet(S.cache) \/ Slot(t) < Slot(Newer(S.cache))
      BY <2>1, <2>8, <3>1 DEF Polled
    <3>. QED  BY <1>1, <2>4, <3>1, <3>2
  <2>. QED  BY <1>2, <2>5, <2>6, <2>7, <2>8 DEF Polled
<1>10. ASSUME OnlyPolls, NewestFirst PROVE (\E s : Newest(Client, s))'
  <2>1. PICK s : Newest(S, s)
    BY <1>10 DEF ClientInv
  <2>. DEFINE L == S.list
              E == EmittedIn(S)
              e(m) == Listed(L, s, m)
  <2>2. /\ Linked(L, s) /\ LandedEvents(L)
        /\ L.size = Len(s) /\ (s # <<>> => L.tail = s[Len(s)])
        /\ Len(s) =< MaxEvents /\ Len(s) =< Cardinality(E)
        /\ Len(s) = MaxEvents \/ Len(s) = Cardinality(E)
        /\ \A m \in 1 .. Len(s) : e(m) \in E
        /\ \A a, b \in 1 .. Len(s) : a < b => Slot(e(a)) >= Slot(e(b))
        /\ \A t \in E : \/ \E m \in 1 .. Len(s) : e(m) = t
                        \/ \A m \in 1 .. Len(s) : Slot(t) =< Slot(e(m))
    BY <2>1 DEF Newest
  <2>3. EmittedIn(Client)' = E
    <3>1. \A t \in Landed' : t \in Landed \/ ~ (S.emitted[t] > 0)
      BY <1>8
    <3>. QED  BY <1>1, <1>2, <3>1 DEF EmittedIn
  <2>4. LandedEvents(Client.list)'
    BY <1>1, <1>2, <2>2 DEF LandedEvents
  <2>5. \A t \in E : t \in Landed /\ Slot(t)' = Slot(t)
    BY <1>1 DEF EmittedIn
  <2>. HIDE DEF E, L
  <2>6. Client.list' = L
    BY <1>2 DEF L
  <2>7. \A m \in 1 .. Len(s) : Listed(Client.list, s, m)' = e(m)
    BY <2>6 DEF Listed
  <2>. HIDE DEF e
  <2>8. \A m \in 1 .. Len(s) : Slot(e(m))' = Slot(e(m))
    BY <2>2, <2>5
  <2>9. \A a, b \in 1 .. Len(s) : a < b => Slot(e(a))' >= Slot(e(b))'
    BY <2>2, <2>8
  <2>10. \A t \in E : \/ \E m \in 1 .. Len(s) : e(m) = t
                      \/ \A m \in 1 .. Len(s) : Slot(t)' =< Slot(e(m))'
    BY <2>2, <2>5, <2>8
  <2>11. Newest(Client, s)'
    BY <2>2, <2>3, <2>4, <2>6, <2>7, <2>9, <2>10 DEF Newest
  <2>. QED  BY <2>11
<1>. QED  BY <1>3, <1>5, <1>6, <1>7, <1>9, <1>10 DEF ClientInv, NewestFirst, EventType

-----------------------------------------------------------------------------
(* The inductive invariant.                                                *)

Floor == IF mostRecentSeenTx = 0 THEN 0 ELSE Slot(mostRecentSeenTx)

Backtracking == {"signatures", "transactions"}

BacktrackType ==
    [pc : Backtracking \cup {"unused", "done", "full", "failed"},
     before : Nat, fetched : Nat, page : Seq(Nat)]

ProviderInv ==
    /\ options \in [provider : Providers, untilTx : UntilTxs, eventType : EventTypes]
    /\ mostRecentSeenTx \in Landed \cup {0}
    /\ notices \subseteq Landed
    /\ Page(poll.page) /\ \A i \in DOMAIN poll.page : mostRecentSeenTx < poll.page[i]
    /\ backtrack \in [Backtracks -> BacktrackType]
    /\ \A b \in Backtracks :
          /\ Page(backtrack[b].page)
          /\ backtrack[b].pc = "transactions" => backtrack[b].page # <<>>
          /\ OnlyPolls => backtrack[b].pc \notin Backtracking
    /\ OnlyPolls => notices = {}

EventInv == ChainInv /\ ProviderInv /\ ClientInv(Client, Floor)

LEMMA EmptyList ==
    LET L == [node |-> <<>>, head |-> 0, tail |-> 0, size |-> 0]
    IN Linked(L, <<>>) /\ LandedEvents(L) /\ Tailed(L, <<>>) /\ SortedNodes(L, <<>>)
<1>. DEFINE L == [node |-> <<>>, head |-> 0, tail |-> 0, size |-> 0]
<1>1. L \in ListType /\ L.node = <<>> /\ L.head = 0 /\ Len(L.node) = 0
  BY DEF ListType
<1>. HIDE DEF L
<1>2. <<>> \in Seq(1 .. Len(L.node)) /\ IsInjective(<<>>) /\ At(<<>>, 1) = 0
  BY DEF IsInjective, At
<1>3. Linked(L, <<>>)
  BY <1>1, <1>2 DEF Linked
<1>. QED  BY <1>1, <1>3 DEF LandedEvents, Tailed, SortedNodes, L

LEMMA InitEventInv ==
    ASSUME Init
    PROVE  EventInv
<1>1. /\ options \in [provider : Providers, untilTx : UntilTxs, eventType : EventTypes]
      /\ chain = <<>> /\ notices = {}
      /\ list = [node |-> <<>>, head |-> 0, tail |-> 0, size |-> 0] /\ cache = <<>>
      /\ emitted = [t \in 1 .. MaxLanded |-> 0] /\ mostRecentSeenTx = 0
      /\ poll.page = <<>>
      /\ backtrack = [b \in Backtracks |->
                         [pc |-> "unused", before |-> 0, fetched |-> 0, page |-> <<>>]]
  BY DEF Init
<1>2. Landed = {} /\ Len(chain) = 0 /\ Cardinality({}) = 0 /\ IsFiniteSet({})
  BY <1>1, FS_EmptySet DEF Landed
<1>3. ChainInv
  <2>1. \A n \in Nat : OfSlot(n) = {}
    BY <1>2 DEF OfSlot
  <2>2. 0 =< MaxLanded /\ 0 =< MaxPerSlot
    BY EventAssumption
  <2>3. chain \in Seq(Tx)
    BY <1>1
  <2>4. \A n \in Nat : Cardinality(OfSlot(n)) =< MaxPerSlot
    BY <1>2, <2>1, <2>2
  <2>. QED  BY <1>2, <2>2, <2>3, <2>4 DEF ChainInv
<1>4. Page(<<>>)
  BY DEF Page, InOrder
<1>5. ProviderInv
  <2>. DEFINE r == [pc |-> "unused", before |-> 0, fetched |-> 0, page |-> <<>>]
  <2>1. /\ r \in BacktrackType /\ r.page = <<>> /\ r.pc # "transactions"
        /\ r.pc \notin Backtracking
    BY DEF BacktrackType, Backtracking
  <2>. HIDE DEF r
  <2>2. backtrack = [b \in Backtracks |-> r]
    BY <1>1 DEF r
  <2>3. backtrack \in [Backtracks -> BacktrackType] /\ \A b \in Backtracks : backtrack[b] = r
    BY <2>1, <2>2
  <2>. QED  BY <1>1, <1>4, <2>1, <2>3 DEF ProviderInv
<1>6. /\ Client.list = list /\ Client.cache = <<>> /\ Client.emitted = emitted
      /\ \A t \in 1 .. MaxLanded : emitted[t] = 0
  BY <1>1 DEF Client
<1>7. Linked(list, <<>>) /\ LandedEvents(list) /\ Tailed(list, <<>>) /\ SortedNodes(list, <<>>)
  BY <1>1, EmptyList
<1>8. ListInv(Client.list)
  BY <1>6, <1>7 DEF ListInv, Good
<1>9. CacheInv(Client) /\ Whole(Client)
  <2>1. <<>> \in Seq(Landed) /\ IsInjective(<<>>) /\ ToSet(<<>>) = {}
    BY DEF IsInjective, ToSet
  <2>2. emitted \in [1 .. MaxLanded -> Nat]
    BY <1>1
  <2>. QED  BY <1>6, <2>1, <2>2 DEF CacheInv, Whole
<1>10. Floor = 0 /\ Polled(Client, Floor)
  BY <1>1, <1>2, <1>6 DEF Polled, Floor
<1>11. Newest(Client, <<>>)
  <2>1. EmittedIn(Client) = {}
    BY <1>2 DEF EmittedIn
  <2>2. list.size = 0 /\ Len(<<>>) = 0 /\ 0 =< MaxEvents
    BY <1>1, EventAssumption
  <2>. QED  BY <1>2, <1>6, <1>7, <2>1, <2>2 DEF Newest
<1>. QED  BY <1>3, <1>5, <1>8, <1>9, <1>10, <1>11 DEF EventInv, ClientInv

(* Steps that leave the client's state alone, and pages handled.           *)
LEMMA QuietClient ==
    ASSUME EventInv, Extends, UNCHANGED <<options, list, cache, emitted, mostRecentSeenTx>>
    PROVE  ClientInv(Client, Floor)'
<1>1. ChainInv /\ ClientInv(Client, Floor) /\ mostRecentSeenTx \in Landed \cup {0}
  BY DEF EventInv, ProviderInv
<1>2. Floor' = Floor
  BY <1>1 DEF Floor, Extends, Slot
<1>3. Client.list = list /\ Client.cache = cache /\ Client.emitted = emitted
  BY DEF Client
<1>4. PICK S : S = Client
  OBVIOUS
<1>5. PICK floor : floor = Floor
  OBVIOUS
<1>6. ClientInv(Client, floor)'
  <2>1. ClientInv(S, floor)
    BY <1>1, <1>4, <1>5
  <2>. QED  BY <1>1, <1>3, <1>4, <2>1, ClientKept
<1>. QED  BY <1>2, <1>5, <1>6

LEMMA HandledClient ==
    ASSUME EventInv, UNCHANGED <<options, chain>>, NEW page, Page(page), page # <<>>, Handle(page),
           OnlyPolls => /\ \A i \in DOMAIN page : Floor =< Slot(page[i])
                        /\ Floor' = Slot(Last(page))
    PROVE  ClientInv(Client, Floor)'
<1>1. ChainInv /\ ClientInv(Client, Floor)
  BY DEF EventInv
<1>2. PICK S : S = HandleEach(Client, page)
  OBVIOUS
<1>3. list' = S.list /\ cache' = S.cache /\ emitted' = S.emitted
  BY <1>2 DEF Handle
<1>4. ClientInv(S, Slot(Last(page)))
  BY <1>1, <1>2, HandlePage
<1>5. PICK floor : floor = Floor'
  OBVIOUS
<1>6. ClientInv(S, floor)
  BY <1>4, <1>5 DEF ClientInv
<1>7. Extends
  BY <1>1, LandedFacts, EventAssumption DEF Extends, Landed, ChainInv
<1>8. ClientInv(Client, floor)'
  BY <1>1, <1>3, <1>6, <1>7, ClientKept
<1>. QED  BY <1>5, <1>8

LEMMA PageKept ==
    ASSUME Extends, NEW page, Page(page)
    PROVE  /\ page \in Seq(Landed')
           /\ \A i, j \in DOMAIN page : i < j => chain'[page[i]].slot =< chain'[page[j]].slot
<1>1. page \in Seq(Landed) /\ Landed \subseteq Landed'
  BY DEF Page, Extends
<1>2. page \in Seq(Landed')
  BY <1>1, SeqMonotonic
<1>3. \A i \in DOMAIN page : chain'[page[i]] = chain[page[i]]
  BY <1>1 DEF Extends
<1>4. \A i, j \in DOMAIN page : i < j => chain[page[i]].slot =< chain[page[j]].slot
  BY DEF Page, InOrder, Slot
<1>. QED  BY <1>2, <1>3, <1>4

LEMMA ChainStays ==
    ASSUME ChainInv, chain' = chain
    PROVE  Extends /\ ChainInv'
<1>1. Extends
  BY LandedFacts, EventAssumption DEF Extends, Landed, ChainInv
<1>2. Landed' = Landed /\ \A n \in Nat : OfSlot(n)' = OfSlot(n)
  BY DEF Landed, OfSlot, Slot
<1>. QED  BY <1>1, <1>2 DEF ChainInv, Slot

LEMMA ChainGrows ==
    ASSUME ChainInv, NEW slots \in {0, 1}, NEW market \in Markets, NEW err \in BOOLEAN,
           Land(slots, market, err)
    PROVE  Extends /\ ChainInv' /\ Len(chain') \in Landed'
<1>0. PICK n : n = Len(chain)
  OBVIOUS
<1>. DEFINE slot == IF chain = <<>> THEN 1 ELSE Last(chain).slot + slots
            tx == [slot |-> slot, market |-> market, err |-> err]
<1>1. /\ n < MaxLanded /\ chain' = Append(chain, tx)
      /\ Cardinality({t \in Landed : chain[t].slot = slot}) < MaxPerSlot
  BY <1>0 DEF Land
<1>2. /\ n \in Nat /\ chain \in Seq(Tx) /\ Landed = 1 .. n /\ MaxLanded \in Nat /\ MaxPerSlot \in Nat
      /\ \A t \in Landed : Slot(t) \in Nat
  BY <1>0, LandedFacts, EventAssumption DEF ChainInv, Landed
<1>3. chain # <<>> => n \in Landed /\ Last(chain).slot = Slot(n)
  BY <1>0, <1>2 DEF Last, Slot
<1>4. slot \in Nat /\ slot \in 1 .. n + 1 /\ \A t \in Landed : Slot(t) =< slot
  <2>1. CASE chain = <<>>
    BY <1>0, <1>2, <2>1
  <2>2. CASE chain # <<>>
    <3>1. slot = Slot(n) + slots /\ n \in Landed
      BY <1>3, <2>2
    <3>2. Slot(n) \in 1 .. n /\ \A t \in Landed : t =< n /\ Slot(t) =< Slot(n)
      BY <1>2, <3>1 DEF ChainInv
    <3>. HIDE DEF slot
    <3>. QED  BY <1>2, <3>1, <3>2
  <2>. QED  BY <2>1, <2>2
<1>. HIDE DEF slot
<1>5. tx \in Tx /\ tx.slot = slot
  BY <1>4 DEF Tx
<1>. HIDE DEF tx
<1>6. /\ chain' \in Seq(Tx) /\ Len(chain') = n + 1 /\ chain'[n + 1] = tx
      /\ \A t \in 1 .. n : chain'[t] = chain[t]
  BY <1>0, <1>1, <1>2, <1>5
<1>7. /\ Landed' = 1 .. n + 1 /\ n + 1 \in Landed' /\ n + 1 \notin Landed
      /\ \A t \in Landed' : t \in Landed \/ t = n + 1
      /\ \A t \in Landed : t \in Landed' /\ t < n + 1 /\ t \in Nat
  BY <1>2, <1>6 DEF Landed
<1>8. Slot(n + 1)' = slot /\ \A t \in Landed : Slot(t)' = Slot(t)
  BY <1>2, <1>5, <1>6 DEF Slot
<1>9. Extends
  BY <1>0, <1>1, <1>2, <1>6, <1>7 DEF Extends
<1>10. ASSUME NEW s \in Landed', NEW t \in Landed', s =< t PROVE Slot(s)' =< Slot(t)'
  <2>1. CASE t = n + 1
    BY <1>2, <1>4, <1>7, <1>8, <2>1
  <2>2. CASE t # n + 1
    <3>1. t \in Landed /\ s \in Landed
      BY <1>2, <1>7, <1>10, <2>2
    <3>. QED  BY <1>8, <1>10, <3>1 DEF ChainInv
  <2>. QED  BY <2>1, <2>2
<1>11. ASSUME NEW m \in Nat PROVE Cardinality(OfSlot(m)') =< MaxPerSlot
  <2>1. OfSlot(m) \in SUBSET Landed /\ Cardinality(OfSlot(m)) =< MaxPerSlot
    BY DEF OfSlot, ChainInv
  <2>2. IsFiniteSet(OfSlot(m)) /\ Cardinality(OfSlot(m)) \in Nat
    BY <2>1, LandedFacts, FS_Subset, FS_CardinalityType
  <2>3. CASE m # slot
    <3>1. OfSlot(m)' = OfSlot(m)
      BY <1>7, <1>8, <2>3 DEF OfSlot
    <3>. QED  BY <2>1, <3>1
  <2>4. CASE m = slot
    <3>1. OfSlot(m)' = OfSlot(m) \cup {n + 1} /\ n + 1 \notin OfSlot(m)
      BY <1>7, <1>8, <2>4 DEF OfSlot
    <3>2. Cardinality(OfSlot(m)) < MaxPerSlot
      BY <1>1, <2>4 DEF OfSlot, Slot
    <3>3. Cardinality(OfSlot(m) \cup {n + 1}) = Cardinality(OfSlot(m)) + 1
      BY <2>2, <3>1, FS_AddElement
    <3>. QED  BY <1>2, <2>2, <3>1, <3>2, <3>3
  <2>. QED  BY <2>3, <2>4
<1>12. \A t \in Landed' : Slot(t)' \in 1 .. t
  BY <1>4, <1>7, <1>8 DEF ChainInv
<1>13. ChainInv'
  BY <1>1, <1>2, <1>6, <1>10, <1>11, <1>12 DEF ChainInv
<1>. QED  BY <1>6, <1>7, <1>9, <1>13

LEMMA QuietProvider ==
    ASSUME ProviderInv, Extends,
           UNCHANGED <<options, mostRecentSeenTx, poll, backtrack>>,
           notices' \subseteq Landed', OnlyPolls => notices' = {}
    PROVE  ProviderInv'
<1>1. /\ poll.page \in Seq(Landed')
      /\ \A i, j \in DOMAIN poll.page :
            i < j => chain'[poll.page[i]].slot =< chain'[poll.page[j]].slot
  <2>1. PICK page : page = poll.page
    OBVIOUS
  <2>2. Page(page)
    BY <2>1 DEF ProviderInv
  <2>. QED  BY <2>1, <2>2, PageKept
<1>2. Page(poll.page)'
  BY <1>1 DEF Page, InOrder, Slot
<1>3. ASSUME NEW b \in Backtracks PROVE Page(backtrack[b].page)'
  <2>1. PICK page : page = backtrack[b].page
    OBVIOUS
  <2>2. Page(page)
    BY <2>1 DEF ProviderInv
  <2>3. /\ page \in Seq(Landed')
        /\ \A i, j \in DOMAIN page : i < j => chain'[page[i]].slot =< chain'[page[j]].slot
    BY <2>2, PageKept
  <2>. QED  BY <2>1, <2>3 DEF Page, InOrder, Slot
<1>4. mostRecentSeenTx' \in Landed' \cup {0}
  BY DEF ProviderInv, Extends
<1>5. OnlyPolls' <=> OnlyPolls
  BY DEF OnlyPolls
<1>. QED  BY <1>2, <1>3, <1>4, <1>5 DEF ProviderInv, Backtracks

LEMMA BacktrackProvider ==
    ASSUME ChainInv, ProviderInv, UNCHANGED <<options, chain, notices, mostRecentSeenTx, poll>>,
           NEW b \in Backtracks, NEW r \in BacktrackType, Page(r.page),
           r.pc = "transactions" => r.page # <<>>, OnlyPolls => r.pc \notin Backtracking,
           backtrack' = [backtrack EXCEPT ![b] = r]
    PROVE  ProviderInv'
<1>1. Landed' = Landed /\ (OnlyPolls' <=> OnlyPolls)
  BY DEF Landed, OnlyPolls
<1>2. backtrack' \in [Backtracks -> BacktrackType]
  BY DEF ProviderInv
<1>3. \A c \in Backtracks : backtrack'[c] = IF c = b THEN r ELSE backtrack[c]
  BY DEF ProviderInv
<1>4. ASSUME NEW c \in Backtracks
      PROVE  /\ Page(backtrack[c].page)'
             /\ backtrack'[c].pc = "transactions" => backtrack'[c].page # <<>>
             /\ OnlyPolls => backtrack'[c].pc \notin Backtracking
  <2>1. PICK q : q = backtrack'[c]
    OBVIOUS
  <2>2. q = r \/ q = backtrack[c]
    BY <1>3, <2>1
  <2>3. /\ Page(q.page) /\ (q.pc = "transactions" => q.page # <<>>)
        /\ OnlyPolls => q.pc \notin Backtracking
    BY <2>2 DEF ProviderInv
  <2>4. Page(backtrack[c].page)'
    BY <1>1, <2>1, <2>3 DEF Page, InOrder, Slot
  <2>. QED  BY <2>1, <2>3, <2>4
<1>5. Page(poll.page)'
  BY <1>1 DEF ProviderInv, Page, InOrder, Slot
<1>. QED  BY <1>1, <1>2, <1>4, <1>5 DEF ProviderInv, Backtracks

LEMMA PollProvider ==
    ASSUME ChainInv, ProviderInv, UNCHANGED <<options, chain, notices, backtrack>>,
           mostRecentSeenTx' \in Landed \cup {0}, NEW page, poll'.page = page, Page(page),
           \A i \in DOMAIN page : mostRecentSeenTx' < page[i]
    PROVE  ProviderInv'
<1>1. Landed' = Landed /\ (OnlyPolls' <=> OnlyPolls)
  BY DEF Landed, OnlyPolls
<1>2. Page(poll.page)'
  BY <1>1 DEF Page, InOrder, Slot
<1>3. ASSUME NEW b \in Backtracks PROVE Page(backtrack[b].page)'
  BY <1>1 DEF ProviderInv, Page, InOrder, Slot
<1>. QED  BY <1>1, <1>2, <1>3 DEF ProviderInv, Backtracks

LEMMA NoPage == Page(<<>>)
BY DEF Page, InOrder

(* The steps, one by one.                                                  *)
LEMMA QuietStep ==
    ASSUME EventInv, UNCHANGED <<options, chain, list, cache, emitted, mostRecentSeenTx>>
    PROVE  ChainInv' /\ Extends /\ ClientInv(Client, Floor)'
<1>1. ChainInv' /\ Extends
  BY ChainStays DEF EventInv
<1>. QED  BY <1>1, QuietClient

LEMMA LandStep ==
    ASSUME EventInv, NEW slots \in {0, 1}, NEW market \in Markets, NEW err \in BOOLEAN,
           Land(slots, market, err)
    PROVE  EventInv'
<1>1. ChainInv /\ ProviderInv
  BY DEF EventInv
<1>2. Extends /\ ChainInv' /\ Len(chain') \in Landed'
  BY <1>1, ChainGrows
<1>3. UNCHANGED <<options, list, cache, emitted, poll, mostRecentSeenTx, backtrack>>
  BY DEF Land
<1>4. notices' = IF options.provider = "websocket" /\ subscribed = "yes"
                 THEN notices \cup {Len(chain')} ELSE notices
  BY DEF Land
<1>5. notices' \subseteq Landed' /\ (OnlyPolls => notices' = {})
  <2>1. notices \subseteq Landed' /\ (OnlyPolls => notices = {})
    BY <1>1, <1>2 DEF ProviderInv, Extends
  <2>2. OnlyPolls => options.provider # "websocket"
    BY DEF OnlyPolls
  <2>. QED  BY <1>2, <1>4, <2>1, <2>2
<1>6. ProviderInv'
  BY <1>1, <1>2, <1>3, <1>5, QuietProvider
<1>7. ClientInv(Client, Floor)'
  BY <1>2, <1>3, QuietClient
<1>. QED  BY <1>2, <1>6, <1>7 DEF EventInv

LEMMA NoticesStep ==
    ASSUME EventInv, notices' \subseteq notices,
           UNCHANGED <<options, chain, list, cache, emitted, poll, mostRecentSeenTx, backtrack>>
    PROVE  EventInv'
<1>1. ChainInv' /\ Extends /\ ClientInv(Client, Floor)'
  BY QuietStep
<1>2. ProviderInv
  BY DEF EventInv
<1>3. notices' \subseteq Landed' /\ (OnlyPolls => notices' = {})
  BY <1>1, <1>2 DEF ProviderInv, Extends
<1>4. ProviderInv'
  BY <1>1, <1>2, <1>3, QuietProvider
<1>. QED  BY <1>1, <1>4 DEF EventInv

LEMMA SubscribeStep ==
    ASSUME EventInv, subscribe
    PROVE  EventInv'
<1>1. UNCHANGED <<options, chain, notices, list, cache, emitted, poll, mostRecentSeenTx>>
  BY DEF subscribe
<1>2. ChainInv' /\ ClientInv(Client, Floor)'
  BY <1>1, QuietStep
<1>3. PICK b \in Backtracks :
         backtrack' = [backtrack EXCEPT ![b].pc =
                          IF options.untilTx = 0 THEN "done" ELSE "signatures"]
  BY DEF subscribe
<1>4. ChainInv /\ ProviderInv /\ backtrack[b] \in BacktrackType /\ Page(backtrack[b].page)
  BY DEF EventInv, ProviderInv
<1>. DEFINE pc == IF options.untilTx = 0 THEN "done" ELSE "signatures"
            r == [backtrack[b] EXCEPT !.pc = pc]
<1>5. pc \in {"done", "signatures"} /\ (OnlyPolls => pc = "done")
  BY DEF OnlyPolls
<1>6. backtrack' = [backtrack EXCEPT ![b] = r]
  BY <1>3, <1>4
<1>. HIDE DEF pc
<1>7. r \in BacktrackType /\ r.page = backtrack[b].page /\ r.pc = pc
  BY <1>4, <1>5 DEF BacktrackType, Backtracking
<1>. HIDE DEF r
<1>8. Page(r.page)
  BY <1>4, <1>7
<1>9. (r.pc = "transactions" => r.page # <<>>) /\ (OnlyPolls => r.pc \notin Backtracking)
  BY <1>5, <1>7 DEF Backtracking
<1>10. ProviderInv'
  BY <1>1, <1>4, <1>6, <1>7, <1>8, <1>9, BacktrackProvider
<1>. QED  BY <1>2, <1>10 DEF EventInv

LEMMA OnLogsStep ==
    ASSUME EventInv, NEW t \in Landed, onLogs(t)
    PROVE  EventInv'
<1>1. /\ UNCHANGED <<options, chain, poll, mostRecentSeenTx, backtrack>>
      /\ t \in notices /\ notices' = notices \ {t} /\ Handle(<<t>>)
  BY DEF onLogs
<1>2. ChainInv /\ ProviderInv
  BY DEF EventInv
<1>3. ~ OnlyPolls
  BY <1>1, <1>2 DEF ProviderInv
<1>4. Page(<<t>>) /\ <<t>> # <<>>
  BY DEF Page, InOrder
<1>5. ClientInv(Client, Floor)'
  BY <1>1, <1>3, <1>4, HandledClient
<1>6. ChainInv' /\ Extends
  BY <1>1, <1>2, ChainStays
<1>7. notices' \subseteq Landed'
  BY <1>1, <1>2, <1>6 DEF ProviderInv, Extends
<1>8. ProviderInv'
  BY <1>1, <1>2, <1>3, <1>6, <1>7, QuietProvider
<1>. QED  BY <1>5, <1>6, <1>8 DEF EventInv

LEMMA PollSignaturesStep ==
    ASSUME EventInv, PollSignatures
    PROVE  EventInv'
<1>1. UNCHANGED <<options, chain, notices, list, cache, emitted, mostRecentSeenTx, backtrack>>
  BY DEF PollSignatures
<1>2. ChainInv' /\ ClientInv(Client, Floor)'
  BY <1>1, QuietStep
<1>3. ChainInv /\ ProviderInv /\ mostRecentSeenTx \in Landed \cup {0}
  BY DEF EventInv, ProviderInv
<1>4. mostRecentSeenTx \in Nat
  BY <1>3, LandedFacts
<1>5. PICK page : page = fetchLogs(0, mostRecentSeenTx)
  OBVIOUS
<1>6. poll'.page = page
  BY <1>5 DEF PollSignatures
<1>7. Page(page) /\ \A i \in DOMAIN page : mostRecentSeenTx < page[i]
  BY <1>3, <1>4, <1>5, PageFetched
<1>8. ProviderInv'
  BY <1>1, <1>3, <1>6, <1>7, PollProvider
<1>. QED  BY <1>2, <1>8 DEF EventInv

LEMMA PollTransactionsStep ==
    ASSUME EventInv, PollTransactions
    PROVE  EventInv'
<1>1. UNCHANGED <<options, chain, notices, backtrack>> /\ poll'.page = <<>>
  BY DEF PollTransactions
<1>2. PICK page : page = poll.page
  OBVIOUS
<1>3. page # <<>> /\ Handle(page) /\ mostRecentSeenTx' = Last(page)
  BY <1>2 DEF PollTransactions
<1>4. /\ ChainInv /\ ProviderInv /\ mostRecentSeenTx \in Landed \cup {0}
      /\ Page(page) /\ \A i \in DOMAIN page : mostRecentSeenTx < page[i]
  BY <1>2 DEF EventInv, ProviderInv
<1>5. /\ page \in Seq(Landed) /\ Len(page) \in DOMAIN page
      /\ \A i \in DOMAIN page : page[i] \in Landed
  BY <1>3, <1>4 DEF Page
<1>6. Last(page) \in Landed /\ Last(page) # 0
  BY <1>4, <1>5, LandedFacts DEF Last, Landed
<1>7. ASSUME NEW i \in DOMAIN page PROVE Floor =< Slot(page[i])
  <2>1. page[i] \in Landed /\ Slot(page[i]) \in Nat /\ mostRecentSeenTx =< page[i]
    BY <1>4, <1>5, LandedFacts
  <2>2. CASE mostRecentSeenTx = 0
    BY <2>1, <2>2 DEF Floor
  <2>3. CASE mostRecentSeenTx # 0
    BY <1>4, <2>1, <2>3 DEF Floor, ChainInv
  <2>. QED  BY <2>2, <2>3
<1>8. Floor' = Slot(Last(page))
  BY <1>1, <1>3, <1>6 DEF Floor, Slot
<1>9. ClientInv(Client, Floor)'
  BY <1>1, <1>3, <1>4, <1>7, <1>8, HandledClient
<1>10. ProviderInv'
  BY <1>1, <1>3, <1>4, <1>6, NoPage, PollProvider
<1>11. ChainInv'
  BY <1>1, <1>4, ChainStays
<1>. QED  BY <1>9, <1>10, <1>11 DEF EventInv

LEMMA PollFailsStep ==
    ASSUME EventInv, PollFails
    PROVE  EventInv'
<1>1. /\ UNCHANGED <<options, chain, notices, list, cache, emitted, mostRecentSeenTx, backtrack>>
      /\ poll'.page = <<>>
  BY DEF PollFails
<1>2. ChainInv' /\ ClientInv(Client, Floor)'
  BY <1>1, QuietStep
<1>3. ChainInv /\ ProviderInv /\ mostRecentSeenTx' \in Landed \cup {0}
  BY <1>1 DEF EventInv, ProviderInv
<1>4. ProviderInv'
  BY <1>1, <1>3, NoPage, PollProvider
<1>. QED  BY <1>2, <1>4 DEF EventInv

LEMMA BacktrackSignaturesStep ==
    ASSUME EventInv, NEW b \in Backtracks, BacktrackSignatures(b)
    PROVE  EventInv'
<1>1. UNCHANGED <<options, chain, notices, list, cache, emitted, poll, mostRecentSeenTx>>
  BY DEF BacktrackSignatures
<1>2. ChainInv' /\ ClientInv(Client, Floor)'
  BY <1>1, QuietStep
<1>3. /\ ChainInv /\ ProviderInv /\ backtrack[b] \in BacktrackType
      /\ backtrack[b].pc = "signatures"
  BY DEF EventInv, ProviderInv, BacktrackSignatures
<1>4. ~ OnlyPolls
  BY <1>3 DEF ProviderInv, Backtracking
<1>5. backtrack[b].before \in Nat /\ options.untilTx \in Nat
  BY <1>3, EventAssumption DEF BacktrackType, ProviderInv
<1>6. PICK page : page = fetchLogs(backtrack[b].before, options.untilTx)
  OBVIOUS
<1>7. Page(page)
  BY <1>3, <1>5, <1>6, PageFetched
<1>. DEFINE pc == IF page = <<>> THEN "done" ELSE "transactions"
            r == [backtrack[b] EXCEPT !.pc = pc, !.page = page]
<1>8. backtrack' = [backtrack EXCEPT ![b] = r]
  <2>1. backtrack' = [backtrack EXCEPT ![b].pc = pc, ![b].page = page]
    BY <1>6 DEF BacktrackSignatures
  <2>2. backtrack \in [Backtracks -> BacktrackType]
    BY <1>3 DEF ProviderInv
  <2>. QED  BY <2>1, <2>2
<1>9. page \in Seq(Nat)
  <2>1. Landed \subseteq Nat
    BY <1>3, LandedFacts
  <2>2. page \in Seq(Landed)
    BY <1>7 DEF Page
  <2>. QED  BY <2>1, <2>2, SeqMonotonic
<1>10. pc \in {"done", "transactions"} /\ (pc = "transactions" => page # <<>>)
  OBVIOUS
<1>. HIDE DEF pc
<1>11. r \in BacktrackType /\ r.page = page /\ r.pc = pc
  BY <1>3, <1>9, <1>10 DEF BacktrackType, Backtracking
<1>. HIDE DEF r
<1>12. Page(r.page) /\ (r.pc = "transactions" => r.page # <<>>)
  BY <1>7, <1>10, <1>11
<1>13. ProviderInv'
  BY <1>1, <1>3, <1>4, <1>8, <1>11, <1>12, BacktrackProvider
<1>. QED  BY <1>2, <1>13 DEF EventInv

LEMMA BacktrackTransactionsStep ==
    ASSUME EventInv, NEW b \in Backtracks, BacktrackTransactions(b)
    PROVE  EventInv'
<1>1. /\ UNCHANGED <<options, chain, notices, poll, mostRecentSeenTx>>
      /\ backtrack[b].pc = "transactions" /\ Handle(backtrack[b].page)
  BY DEF BacktrackTransactions
<1>2. ChainInv /\ ProviderInv /\ backtrack[b] \in BacktrackType
  BY DEF EventInv, ProviderInv
<1>3. ~ OnlyPolls
  BY <1>1, <1>2 DEF ProviderInv, Backtracking
<1>4. PICK page : page = backtrack[b].page
  OBVIOUS
<1>5. Page(page) /\ page # <<>> /\ Handle(page)
  BY <1>1, <1>2, <1>4 DEF ProviderInv
<1>6. ClientInv(Client, Floor)'
  BY <1>1, <1>3, <1>5, HandledClient
<1>7. page \in Seq(Landed) /\ Head(page) \in Landed /\ Len(page) \in Nat
  BY <1>5 DEF Page
<1>8. Head(page) \in Nat
  BY <1>2, <1>7, LandedFacts
<1>. DEFINE fetched == backtrack[b].fetched + Len(page)
            pc == IF fetched < MaxTx THEN "signatures" ELSE "full"
            r == [pc |-> pc, before |-> Head(page), fetched |-> fetched, page |-> <<>>]
<1>9. fetched \in Nat
  BY <1>2, <1>7 DEF BacktrackType
<1>10. backtrack' = [backtrack EXCEPT ![b] = r]
  BY <1>2, <1>4 DEF BacktrackTransactions, ProviderInv
<1>11. pc \in {"signatures", "full"}
  OBVIOUS
<1>. HIDE DEF fetched, pc
<1>12. r \in BacktrackType /\ r.page = <<>> /\ r.pc = pc
  BY <1>8, <1>9, <1>11 DEF BacktrackType, Backtracking
<1>. HIDE DEF r
<1>13. Page(r.page) /\ r.pc # "transactions"
  BY <1>11, <1>12, NoPage
<1>14. ProviderInv'
  BY <1>1, <1>2, <1>3, <1>10, <1>12, <1>13, BacktrackProvider
<1>15. ChainInv'
  BY <1>1, <1>2, ChainStays
<1>. QED  BY <1>6, <1>14, <1>15 DEF EventInv

LEMMA BacktrackFailsStep ==
    ASSUME EventInv, NEW b \in Backtracks, BacktrackFails(b)
    PROVE  EventInv'
<1>1. UNCHANGED <<options, chain, notices, list, cache, emitted, poll, mostRecentSeenTx>>
  BY DEF BacktrackFails
<1>2. ChainInv' /\ ClientInv(Client, Floor)'
  BY <1>1, QuietStep
<1>3. ChainInv /\ ProviderInv /\ backtrack[b] \in BacktrackType
  BY DEF EventInv, ProviderInv
<1>. DEFINE r == [backtrack[b] EXCEPT !.pc = "failed", !.page = <<>>]
<1>4. backtrack' = [backtrack EXCEPT ![b] = r]
  BY <1>3 DEF BacktrackFails, ProviderInv
<1>5. r \in BacktrackType /\ r.page = <<>> /\ r.pc = "failed"
  <2>1. <<>> \in Seq(Nat)
    OBVIOUS
  <2>. QED  BY <1>3, <2>1, Zenon DEF BacktrackType, Backtracking
<1>. HIDE DEF r
<1>6. /\ Page(r.page) /\ (r.pc = "transactions" => r.page # <<>>)
      /\ OnlyPolls => r.pc \notin Backtracking
  BY <1>5, NoPage DEF Backtracking
<1>7. ProviderInv'
  BY <1>1, <1>3, <1>4, <1>5, <1>6, BacktrackProvider
<1>. QED  BY <1>2, <1>7 DEF EventInv

LEMMA EventInvStep ==
    ASSUME EventInv, [Next]_vars
    PROVE  EventInv'
<1>1. ASSUME NEW slots \in {0, 1}, NEW market \in Markets, NEW err \in BOOLEAN,
             Land(slots, market, err)
      PROVE  EventInv'
  BY <1>1, LandStep
<1>2. CASE subscribe
  BY <1>2, SubscribeStep
<1>3. CASE unsubscribe
  <2>1. /\ notices' \subseteq notices
        /\ UNCHANGED <<options, chain, list, cache, emitted, poll, mostRecentSeenTx, backtrack>>
    BY <1>3 DEF unsubscribe
  <2>. QED  BY <2>1, NoticesStep
<1>4. ASSUME NEW t \in Landed, awaitTx(t) PROVE EventInv'
  <2>1. /\ notices' \subseteq notices
        /\ UNCHANGED <<options, chain, list, cache, emitted, poll, mostRecentSeenTx, backtrack>>
    BY <1>4 DEF awaitTx
  <2>. QED  BY <2>1, NoticesStep
<1>5. ASSUME NEW t \in Landed, onLogs(t) PROVE EventInv'
  BY <1>5, OnLogsStep
<1>6. CASE PollSignatures
  BY <1>6, PollSignaturesStep
<1>7. CASE PollTransactions
  BY <1>7, PollTransactionsStep
<1>8. CASE PollFails
  BY <1>8, PollFailsStep
<1>9. ASSUME NEW b \in Backtracks, BacktrackSignatures(b) PROVE EventInv'
  BY <1>9, BacktrackSignaturesStep
<1>10. ASSUME NEW b \in Backtracks, BacktrackTransactions(b) PROVE EventInv'
  BY <1>10, BacktrackTransactionsStep
<1>11. ASSUME NEW b \in Backtracks, BacktrackFails(b) PROVE EventInv'
  BY <1>11, BacktrackFailsStep
<1>12. CASE Reconnect
  <2>1. /\ notices' \subseteq notices
        /\ UNCHANGED <<options, chain, list, cache, emitted, poll, mostRecentSeenTx, backtrack>>
    BY <1>12 DEF Reconnect
  <2>. QED  BY <2>1, NoticesStep
<1>13. CASE Removed
  <2>1. /\ notices' \subseteq notices
        /\ UNCHANGED <<options, chain, list, cache, emitted, poll, mostRecentSeenTx, backtrack>>
    BY <1>13 DEF Removed
  <2>. QED  BY <2>1, NoticesStep
<1>14. CASE UNCHANGED vars
  <2>1. /\ notices' \subseteq notices
        /\ UNCHANGED <<options, chain, list, cache, emitted, poll, mostRecentSeenTx, backtrack>>
    BY <1>14 DEF vars
  <2>. QED  BY <2>1, NoticesStep
<1>. QED  BY <1>1, <1>2, <1>3, <1>4, <1>5, <1>6, <1>7, <1>8, <1>9, <1>10, <1>11, <1>12, <1>13, <1>14
     DEF Next

LEMMA EventInvAlways == Spec => []EventInv
<1>1. Init => EventInv
  BY InitEventInv
<1>2. EventInv /\ [Next]_vars => EventInv'
  BY EventInvStep
<1>. QED  BY <1>1, <1>2, PTL DEF Spec

(* A record is emitted once: handleTxLogs lets the cache tell it what it   *)
(* has seen, and whatever the providers bring twice, what the cache        *)
(* (TxEventCache) has forgotten does not come again while the client only  *)
(* polls, nor is anything forgotten while the cache has room.              *)
THEOREM EmittedOnce == Spec => []EventsOnce
<1>1. EventInv => EventsOnce
  <2>1. SUFFICES ASSUME EventInv, OnlyPolls \/ Len(chain) =< MaxTx, NEW t \in Landed
                 PROVE  emitted[t] =< 1
    BY DEF EventsOnce
  <2>2. t \in 1 .. MaxLanded /\ Client.emitted = emitted
    BY <2>1, LandedFacts DEF EventInv, Client
  <2>3. CASE OnlyPolls
    <3>1. Polled(Client, Floor)
      BY <2>1, <2>3 DEF EventInv, ClientInv
    <3>. QED  BY <2>2, <3>1 DEF Polled
  <2>4. CASE Len(chain) =< MaxTx
    <3>1. Whole(Client)
      BY <2>1, <2>4 DEF EventInv, ClientInv
    <3>2. emitted[t] = IF t \in ToSet(Client.cache) THEN 1 ELSE 0
      BY <2>2, <3>1 DEF Whole
    <3>. QED  BY <3>2
  <2>. QED  BY <2>1, <2>3, <2>4
<1>. QED  BY <1>1, EventInvAlways, PTL

(* EventList is in the order asked for, in whatever order and from         *)
(* whatever provider the records come, and although detach goes by a tail  *)
(* that insert never moves and that may itself have left the list; of      *)
(* trades, whose sort function is not transitive, in the order of their    *)
(* times.                                                                  *)
THEOREM ListInOrder == Spec => []ListSorted
<1>1. EventInv => ListSorted
  <2>1. SUFFICES ASSUME EventInv, OrderBy = "blockchain", NoReusedIds PROVE ListSorted
    BY DEF ListSorted
  <2>2. PICK s : Good(list, s)
    BY <2>1 DEF EventInv, ClientInv, ListInv, Client
  <2>3. Clean(list)
    <3>1. DOMAIN list.node = 1 .. Len(list.node)
      BY <2>2, LinkedFacts DEF Good
    <3>. QED  BY <2>1, <3>1 DEF NoReusedIds, Clean
  <2>. QED  BY <2>1, <2>2, <2>3, GoodListSorted DEF ListSorted
<1>. QED  BY <1>1, EventInvAlways, PTL

(* EventList of a client that only polls, with the newest first: it has as *)
(* many records as were emitted up to maxEventsPerType, none of those it   *)
(* dropped is newer than one it has, and size counts its nodes.            *)
THEOREM NewestListed == Spec => []PolledListKeepsNewest
<1>1. EventInv => PolledListKeepsNewest
  <2>1. SUFFICES ASSUME EventInv, OnlyPolls, NewestFirst PROVE ListKeepsNewest
    BY DEF PolledListKeepsNewest
  <2>2. PICK s : Newest(Client, s)
    BY <2>1 DEF EventInv, ClientInv
  <2>3. Client.list = list /\ EmittedIn(Client) = Emitted /\ ChainInv
    BY <2>1 DEF Client, EmittedIn, Emitted, EventInv
  <2>4. LET events == ToSet(toArray(Client.list))
        IN /\ Len(toArray(Client.list)) = Client.list.size
           /\ Client.list.size = Min({MaxEvents, Cardinality(EmittedIn(Client))})
           /\ \A t \in EmittedIn(Client) \ events, e \in events : chain[t].slot =< chain[e].slot
    BY <2>2, <2>3, NewestKept
  <2>. QED  BY <2>3, <2>4 DEF ListKeepsNewest
<1>. QED  BY <1>1, EventInvAlways, PTL
=============================================================================
