-------------------------- MODULE OrderBookProofs --------------------------
(***************************************************************************)
(* Theorems about OrderBook, for every size of its arenas, every set of    *)
(* users, prices and quantities and every number of orders.                *)
(*                                                                         *)
(* The arguments are about the orders that rest and their order by price   *)
(* and id, from which every pointer, index and free list follows; what a   *)
(* walk along the pointers reaches is deduced from that at the end.        *)
(***************************************************************************)
EXTENDS OrderBook, SetLemmas

-----------------------------------------------------------------------------
(* Chains: linked lists without a loop. *)

\* The links nxt from first go once through S, along the strict order After,
\* and end there.
IsChain(first, nxt, S, After) ==
  /\ After \subseteq S \X S
  /\ \A x \in S : <<x, x>> \notin After
  /\ \A x, y, z \in S : <<x, y>> \in After /\ <<y, z>> \in After => <<x, z>> \in After
  /\ first \in S \cup {NULL_IDX}
  /\ \A x \in S : first # NULL_IDX /\ (x = first \/ <<first, x>> \in After)
  /\ \A y \in S :
       /\ nxt[y] \in S \cup {NULL_IDX}
       /\ nxt[y] # NULL_IDX => <<y, nxt[y]>> \in After
       /\ \A x \in S : <<y, x>> \in After => nxt[y] # NULL_IDX /\ (x = nxt[y] \/ <<nxt[y], x>> \in After)

\* A walk along links, step by step: Walk's recursive function exists.
LEMMA WalkSteps ==
  ASSUME NEW first, NEW nxt, NEW cap \in Nat
  PROVE  /\ Walk(first, nxt, cap)[0] = first
         /\ DOMAIN Walk(first, nxt, cap) = 0..cap
         /\ \A i \in 1..cap :
              Walk(first, nxt, cap)[i] =
                IF Walk(first, nxt, cap)[i - 1] = NULL_IDX THEN NULL_IDX ELSE nxt[Walk(first, nxt, cap)[i - 1]]
  <1> DEFINE Is(g, n) == g = [i \in 0..n |-> IF i = 0 THEN first
                             ELSE IF g[i - 1] = NULL_IDX THEN NULL_IDX ELSE nxt[g[i - 1]]]
  <1> DEFINE T == {n \in Nat : \E g : Is(g, n)}
  <1>1. 0 \in T
    <2>1. Is([i \in 0..0 |-> first], 0)
      BY SMT
    <2> QED BY <2>1
  <1>2. ASSUME NEW n \in T PROVE n + 1 \in T
    <2>1. PICK g : Is(g, n)
      BY <1>2
    <2> DEFINE h == [i \in 0..n + 1 |-> IF i \in 0..n THEN g[i]
                       ELSE IF g[n] = NULL_IDX THEN NULL_IDX ELSE nxt[g[n]]]
    <2>2. n \in Nat /\ DOMAIN g = 0..n
      BY <1>2, <2>1
    <2>3. \A i \in 0..n : g[i] = IF i = 0 THEN first
                             ELSE IF g[i - 1] = NULL_IDX THEN NULL_IDX ELSE nxt[g[i - 1]]
      BY <2>1
    <2>4. Is(h, n + 1)
      BY <2>2, <2>3
    <2> HIDE DEF Is
    <2> QED BY <2>2, <2>4
  <1> HIDE DEF T
  <1>3. T = Nat
    BY <1>1, <1>2, SetInduction DEF T
  <1>4. PICK g : Is(g, cap)
    BY <1>3 DEF T
  <1>5. Is(Walk(first, nxt, cap), cap)
    BY <1>4 DEF Walk
  <1> DEFINE w == Walk(first, nxt, cap)
  <1> HIDE DEF w
  <1>6. w = [i \in 0..cap |-> IF i = 0 THEN first
                             ELSE IF w[i - 1] = NULL_IDX THEN NULL_IDX ELSE nxt[w[i - 1]]]
    BY <1>5 DEF w
  <1>7. /\ w[0] = first /\ DOMAIN w = 0..cap
        /\ \A i \in 1..cap : w[i] = IF w[i - 1] = NULL_IDX THEN NULL_IDX ELSE nxt[w[i - 1]]
    BY <1>6
  <1> QED BY <1>7 DEF w

\* A walk along a chain reaches all of it and ends, given as many steps as it
\* has slots.
LEMMA ChainWalk ==
  ASSUME NEW S, NULL_IDX \notin S, NEW first, NEW nxt, NEW After, NEW cap \in Nat,
         IsChain(first, nxt, S, After),
         IsFiniteSet(S), Cardinality(S) <= cap
  PROVE  Ends(first, nxt, cap) /\ Reached(first, nxt, cap) = S
  <1> DEFINE w == Walk(first, nxt, cap)
  <1>1. /\ w[0] = first
        /\ \A i \in 1..cap : w[i] = IF w[i - 1] = NULL_IDX THEN NULL_IDX ELSE nxt[w[i - 1]]
    BY WalkSteps
  <1> HIDE DEF w
  \* Up to each point, the slots met are in S and in order; the rest of S is
  \* after the last one met.
  <1> DEFINE Sofar(i) ==
        /\ w[i] \in S \cup {NULL_IDX}
        /\ \A j \in 0..i - 1 : w[i] # NULL_IDX => w[j] \in S /\ <<w[j], w[i]>> \in After
        /\ \A x \in S : (\E j \in 0..i : x = w[j]) \/ (w[i] # NULL_IDX /\ <<w[i], x>> \in After)
  <1> DEFINE T == {i \in Nat : i <= cap => Sofar(i)}
  <1>2. 0 \in T
    BY <1>1 DEF IsChain
  <1>3. ASSUME NEW i \in T PROVE i + 1 \in T
    <2> SUFFICES ASSUME i + 1 <= cap PROVE Sofar(i + 1)
      OBVIOUS
    <2>1. i \in Nat /\ Sofar(i)
      OBVIOUS
    <2>2. w[i + 1] = IF w[i] = NULL_IDX THEN NULL_IDX ELSE nxt[w[i]]
      BY <1>1, <2>1
    <2>3. w[i + 1] \in S \cup {NULL_IDX}
      BY <2>1, <2>2 DEF IsChain
    <2>4. ASSUME NEW j \in 0..(i + 1) - 1, w[i + 1] # NULL_IDX
          PROVE  w[j] \in S /\ <<w[j], w[i + 1]>> \in After
      <3>1. w[i] \in S /\ <<w[i], w[i + 1]>> \in After
        BY <2>1, <2>2, <2>4 DEF IsChain
      <3>2. CASE j = i
        BY <3>1, <3>2
      <3>3. CASE j # i
        <4>1. j \in 0..i - 1
          BY <2>1, <3>3
        <4>2. w[j] \in S /\ <<w[j], w[i]>> \in After
          BY <2>1, <3>1, <4>1
        <4> QED
          BY <2>3, <2>4, <3>1, <4>2 DEF IsChain
      <3> QED
        BY <3>2, <3>3
    <2>5. ASSUME NEW x \in S
          PROVE  (\E j \in 0..i + 1 : x = w[j]) \/ (w[i + 1] # NULL_IDX /\ <<w[i + 1], x>> \in After)
      <3>1. CASE \E j \in 0..i : x = w[j]
        BY <2>1, <3>1
      <3>2. CASE w[i] # NULL_IDX /\ <<w[i], x>> \in After
        <4>1. w[i + 1] # NULL_IDX /\ (x = w[i + 1] \/ <<w[i + 1], x>> \in After)
          <5>1. PICK a : a = w[i]
            OBVIOUS
          <5>2. a \in S /\ <<a, x>> \in After
            BY <2>1, <3>2, <5>1
          <5>3. nxt[a] # NULL_IDX /\ (x = nxt[a] \/ <<nxt[a], x>> \in After)
            BY ONLY <5>2, x \in S, IsChain(first, nxt, S, After), NULL_IDX \notin S DEF IsChain
          <5> QED
            BY <2>2, <3>2, <5>1, <5>3
        <4> QED
          BY <2>1, <4>1
      <3> QED
        BY <2>1, <3>1, <3>2
    <2> QED
      BY <2>3, <2>4, <2>5
  <1>4. ASSUME NEW i \in 0..cap PROVE Sofar(i)
    <2> HIDE DEF Sofar
    <2>1. T = Nat
      <3> HIDE DEF T
      <3>1. T \in SUBSET Nat
        BY DEF T
      <3> QED
        BY <1>2, <1>3, <3>1, SetInduction
    <2> QED
      BY <2>1
  \* Were it not to end, it would have met cap + 1 slots, all different.
  <1>5. w[cap] = NULL_IDX
    <2> SUFFICES ASSUME w[cap] # NULL_IDX PROVE FALSE
      OBVIOUS
    <2> DEFINE f == [j \in 0..cap |-> w[j]]
    <2>1. ASSUME NEW j \in 0..cap PROVE w[j] \in S
      <3>1. CASE j = cap
        BY <1>4, <3>1
      <3>2. CASE j # cap
        <4>1. Sofar(cap) /\ j \in 0..cap - 1
          BY <1>4, <3>2
        <4> QED
          BY <4>1
      <3> QED
        BY <3>1, <3>2
    <2>2. ASSUME NEW j \in 0..cap, NEW k \in 0..cap, j < k PROVE w[j] # w[k]
      <3>1. Sofar(k) /\ w[k] \in S /\ j \in 0..k - 1
        BY <1>4, <2>1, <2>2
      <3>2. <<w[j], w[k]>> \in After /\ w[k] # NULL_IDX
        BY <3>1
      <3> QED
        BY <2>1, <3>2 DEF IsChain
    <2>3. f \in [0..cap -> S]
      BY <2>1
    <2>4. IsFiniteSet(0..cap) /\ Cardinality(0..cap) = cap + 1
      BY IntervalSize
    <2> HIDE DEF f
    <2>5. Cardinality(S) < Cardinality(0..cap)
      BY <2>4, FS_CardinalityType
    <2>6. PICK x \in 0..cap, y \in 0..cap : x # y /\ f[x] = f[y]
      BY <2>3, <2>4, <2>5, FS_PigeonHole, Zenon
    <2>7. w[x] = w[y]
      BY <2>6 DEF f
    <2>8. x < y \/ y < x
      BY <2>6
    <2> QED
      BY <2>2, <2>7, <2>8
  <1>6. S \subseteq {w[i] : i \in 0..cap}
    <2>1. Sofar(cap)
      BY <1>4
    <2> QED
      BY <1>5, <2>1
  <1>7. {w[i] : i \in 0..cap} \ {NULL_IDX} \subseteq S
    BY <1>4
  <1> QED
    BY <1>5, <1>6, <1>7 DEF Ends, Reached, w

\* Links outside a chain do not matter to it.
LEMMA ChainFrame ==
  ASSUME NEW first, NEW nxt, NEW nxt2, NEW S, NEW After,
         IsChain(first, nxt, S, After), \A x \in S : nxt2[x] = nxt[x]
  PROVE  IsChain(first, nxt2, S, After)
  BY DEF IsChain

\* A slot put in front of a chain: deallocation onto a free list.
LEMMA ChainPush ==
  ASSUME NEW first, NEW nxt, NEW nxt2, NEW S, NEW After, NEW n,
         NULL_IDX \notin S, n # NULL_IDX, n \notin S, IsChain(first, nxt, S, After),
         nxt2[n] = first, \A x \in S : nxt2[x] = nxt[x]
  PROVE  IsChain(n, nxt2, S \cup {n}, After \cup ({n} \X S))
  BY DEF IsChain

\* The first slot taken off a chain: allocation from a free list.
LEMMA ChainPop ==
  ASSUME NEW first, NEW nxt, NEW nxt2, NEW S, NEW After,
         NULL_IDX \notin S, first # NULL_IDX, IsChain(first, nxt, S, After),
         \A x \in S \ {first} : nxt2[x] = nxt[x]
  PROVE  /\ first \in S
         /\ IsChain(nxt[first], nxt2, S \ {first}, After \cap ((S \ {first}) \X (S \ {first})))
  BY DEF IsChain

-----------------------------------------------------------------------------
(* The inductive invariant. *)

\* The order in a slot.
Id(n) == node[n].order.id
PriceOf(n) == node[n].order.price
SideAt(n) == SideOf(node[n].order)

\* The slots whose orders are on the book, and the levels in the ladders.
Resting ==
  {n \in OrderSlots :
     /\ node[n].active
     /\ order_index[Id(n)] # None
     /\ order_index[Id(n)].node_idx = n}

\* The levels in the ladders: all active ones but the one being linked.
Placed == {l \in LevelSlots : level[l].active /\ l # level_idx}

\* The side of a level is that of its first order.
LevelSide(l) == SideAt(level[l].head_order)

\* Time priority within a price, and price priority within a side.
Ahead(n, m) == PriceOf(n) = PriceOf(m) /\ Id(n) < Id(m)

Above(l, k) ==
  /\ LevelSide(l) = LevelSide(k)
  /\ BetterPrice(LevelSide(l), level[l].price, level[k].price)

\* TypeOK, but for the totals of a level, which are shown to be naturals later.
LooseLevel ==
  [price : Prices \cup {0}, active : BOOLEAN,
   head_order : OrderIdx, tail_order : OrderIdx,
   prev_level : LevelIdx, next_level : LevelIdx,
   total_qty : Int, order_count : Int, next_free : LevelIdx]

\* The types of the variables.
Shape ==
  /\ node \in [OrderSlots -> OrderNode]
  /\ order_free \in OrderIdx
  /\ level \in [LevelSlots -> LooseLevel]
  /\ level_free \in LevelIdx
  /\ best \in [Side -> LevelIdx]
  /\ price_index \in [Prices -> LevelIdx]
  /\ order_index \in [1..MaxId -> FastIndexEntry \cup {None}]
  /\ client_order_index \in [Users \X ClientIds -> 0..MaxId]
  /\ order_id_counter \in 1..MaxId + 1
  /\ phase \in {"idle", "matching", "linking", "done", "cancelled"}
  /\ order \in Order \cup {None}
  /\ original_qty \in 0..MaxQty
  /\ trades \in Seq(Trade)
  /\ result \in Result
  /\ node_idx \in OrderIdx
  /\ level_idx \in LevelIdx
  /\ curr \in LevelIdx

\* The order in hand is newer than all that rest; between calls there are no
\* trades.
InHand ==
  /\ phase \in {"matching", "linking", "done"} =>
       /\ order \in Order
       /\ order.qty <= original_qty
       /\ order.id < order_id_counter
  /\ phase \in {"matching", "linking"} =>
       \A n \in Resting : Id(n) < order.id
  /\ phase \in {"idle", "cancelled"} => trades = << >>

\* The id index names resting orders only and tells the truth about them; every
\* order has a level for its price.
OrdersIndexed ==
  /\ \A n \in OrderSlots : node[n].active => node[n].order \in Order
  /\ \A id \in 1..MaxId :
       order_index[id] # None =>
         LET e == order_index[id]
             n == e.node_idx
         IN  /\ node[n].active
             /\ Id(n) = id
             /\ PriceOf(n) = e.price
             /\ node[n].order.side = e.side
             /\ node[n].order.user_id = e.user_id
             /\ node[n].order.client_order_id = e.client_order_id
  /\ \A n \in Resting :
       /\ node[n].order.qty > 0
       /\ Id(n) < order_id_counter
       /\ price_index[PriceOf(n)] \in Placed

\* The price index and the active levels name each other.
LevelsIndexed ==
  /\ \A p \in Prices :
       price_index[p] # NULL_IDX =>
         level[price_index[p]].active /\ level[price_index[p]].price = p
  /\ \A l \in LevelSlots :
       level[l].active =>
         level[l].price \in Prices /\ price_index[level[l].price] = l

\* A price has orders of one side only, which is why one index serves both.
OneSideAPrice ==
  \A n, m \in Resting : PriceOf(n) = PriceOf(m) => SideAt(n) = SideAt(m)

\* The next order of a queue is the next in time at that price, and points back.
QueueLinks ==
  /\ \A n \in Resting :
       LET next == node[n].next
       IN  IF next = NULL_IDX
           THEN \A m \in Resting : ~Ahead(n, m)
           ELSE /\ next \in Resting
                /\ Ahead(n, next)
                /\ node[next].prev = n
                /\ \A m \in Resting : Ahead(n, m) => m = next \/ Ahead(next, m)
  /\ \A n \in Resting :
       LET prev == node[n].prev
       IN  IF prev = NULL_IDX
           THEN level[price_index[PriceOf(n)]].head_order = n
           ELSE prev \in Resting /\ node[prev].next = n

\* A level's head and tail are the ends of the queue at its price.
QueueEnds ==
  \A l \in Placed :
    LET head == level[l].head_order
        tail == level[l].tail_order
    IN  /\ head \in Resting
        /\ PriceOf(head) = level[l].price
        /\ node[head].prev = NULL_IDX
        /\ \A m \in Resting :
             PriceOf(m) = level[l].price => m = head \/ Ahead(head, m)
        /\ tail \in Resting
        /\ PriceOf(tail) = level[l].price
        /\ node[tail].next = NULL_IDX

\* The next level of a ladder is the next best price of its side, and points back.
LadderLinks ==
  /\ \A l \in Placed :
       LET next == level[l].next_level
       IN  IF next = NULL_IDX
           THEN \A k \in Placed : ~Above(l, k)
           ELSE /\ next \in Placed
                /\ Above(l, next)
                /\ level[next].prev_level = l
                /\ \A k \in Placed : Above(l, k) => k = next \/ Above(next, k)
  /\ \A l \in Placed :
       LET prev == level[l].prev_level
       IN  IF prev = NULL_IDX
           THEN best[LevelSide(l)] = l
           ELSE prev \in Placed /\ level[prev].next_level = l

\* best names each side's best level.
LadderTops ==
  \A s \in Side :
    IF best[s] = NULL_IDX
    THEN \A l \in Placed : LevelSide(l) # s
    ELSE /\ best[s] \in Placed
         /\ LevelSide(best[s]) = s
         /\ level[best[s]].prev_level = NULL_IDX
         /\ \A k \in Placed : LevelSide(k) = s => k = best[s] \/ Above(best[s], k)

\* The free lists are chains through the slots that are not in use.
FreeOrders ==
  \E After \in SUBSET (OrderSlots \X OrderSlots) :
    IsChain(order_free, NextOrder, {n \in OrderSlots : ~node[n].active}, After)

FreeLevels ==
  \E After \in SUBSET (LevelSlots \X LevelSlots) :
    IsChain(level_free, NextFreeLevel, {l \in LevelSlots : ~level[l].active}, After)

\* What the resting branch holds while it looks for the new level's place.
Linking ==
  IF phase # "linking"
  THEN node_idx = NULL_IDX /\ level_idx = NULL_IDX /\ curr = NULL_IDX
  ELSE /\ order.order_type = "Limit" /\ order.qty > 0
       /\ ~LoopGoesOn
       /\ node_idx \in OrderSlots
       /\ node[node_idx] =
            [order |-> order, active |-> TRUE, prev |-> NULL_IDX, next |-> NULL_IDX]
       /\ level_idx \in LevelSlots
       /\ level[level_idx] =
            [FreeLevel(NULL_IDX) EXCEPT !.price = order.price, !.active = TRUE]
       /\ ~GoesFirst =>
            /\ curr \in Placed
            /\ LevelSide(curr) = SideOf(order)
            /\ BetterPrice(SideOf(order), level[curr].price, order.price)

\* A taker with quantity left that has traded has made room for itself: the
\* arenas cannot be full (RefusedBeforeTrading needs it to be inductive).
Room ==
  phase = "matching" /\ trades # << >> /\ order.qty > 0 =>
    /\ order_free # NULL_IDX
    /\ level_free # NULL_IDX \/ LoopGoesOn

\* The inductive invariant.
BookInv ==
  /\ Shape /\ InHand
  /\ OrdersIndexed /\ LevelsIndexed /\ OneSideAPrice
  /\ QueueLinks /\ QueueEnds /\ LadderLinks /\ LadderTops
  /\ FreeOrders /\ FreeLevels
  /\ Linking /\ Room /\ RefusedBeforeTrading

\* Its part about the pointers, which filling and cancelling restore alike.
Structure ==
  /\ LevelsIndexed /\ OneSideAPrice
  /\ QueueLinks /\ QueueEnds /\ LadderLinks /\ LadderTops
  /\ FreeOrders /\ FreeLevels

-----------------------------------------------------------------------------
(* Facts about the values of the variables. *)

USE TypesAssumption, OrderBookAssumption

\* NULL_IDX marks an absent slot in either arena.
LEMMA NullIsNoSlot == NULL_IDX \notin OrderSlots /\ NULL_IDX \notin LevelSlots
  BY DEF NULL_IDX, OrderSlots, LevelSlots

\* The mark of no order is none.
LEMMA NoneIsNoOrder == None \notin Order
  BY DEF Order

\* The fields of an order.
LEMMA OrderTerms ==
  ASSUME NEW o \in Order
  PROVE  /\ o.id \in 1..MaxId /\ o.id \in Nat /\ o.user_id \in Users
         /\ o.client_order_id \in ClientIds /\ o.symbol_id \in Symbols
         /\ o.side \in Sides /\ SideOf(o) \in Side /\ o.order_type \in OrderTypes
         /\ o.price \in Prices /\ o.price \in Nat
         /\ o.qty \in 0..MaxQty /\ o.qty \in Nat
  <1>1. /\ o.id \in 1..MaxId /\ o.user_id \in Users
        /\ o.client_order_id \in ClientIds /\ o.symbol_id \in Symbols
        /\ o.side \in Sides /\ SideOf(o) \in Side /\ o.order_type \in OrderTypes
        /\ o.price \in Prices /\ o.qty \in 0..MaxQty
    BY DEF Order, SideOf, Side
  <1>2. o.id \in Nat /\ o.qty \in Nat
    BY <1>1
  <1>3. o.price \in Nat
    BY <1>1
  <1> QED
    BY <1>1, <1>2, <1>3

\* An order reduced by what was executed keeps everything else.
LEMMA RemainderIsOrder ==
  ASSUME NEW o \in Order, NEW q \in Nat, q <= o.qty
  PROVE  /\ [o EXCEPT !.qty = @ - q] \in Order
         /\ [o EXCEPT !.qty = @ - q].qty = o.qty - q
         /\ [o EXCEPT !.qty = @ - q].id = o.id
         /\ [o EXCEPT !.qty = @ - q].user_id = o.user_id
         /\ [o EXCEPT !.qty = @ - q].client_order_id = o.client_order_id
         /\ [o EXCEPT !.qty = @ - q].symbol_id = o.symbol_id
         /\ [o EXCEPT !.qty = @ - q].side = o.side
         /\ [o EXCEPT !.qty = @ - q].order_type = o.order_type
         /\ [o EXCEPT !.qty = @ - q].price = o.price
  BY DEF Order

\* What match_level records is a trade.
LEMMA TradeIsTyped ==
  ASSUME NEW taker \in Order, NEW maker \in Order, NEW q \in 1..MaxQty
  PROVE  TradeBetween(taker, maker, q) \in Trade
  BY DEF Order, Trade, TradeBetween

\* Answers are results.
LEMMA OkIsResult ==
  ASSUME NEW a \in 0..MaxQty, NEW b \in 0..MaxQty, NEW c \in BOOLEAN
  PROVE  Ok(a, b, c) \in Result /\ Ok(a, b, c).error = "None"
  BY DEF Ok, Result

\* Refusals are results.
LEMMA ErrIsResult ==
  ASSUME NEW r \in {"EngineFull", "OrderNotFound", "Unauthorized"}
  PROVE  Err(r) \in Result /\ Err(r).error = r
  BY DEF Err, Result

\* What the invariant says of one resting order.
LEMMA RestingTerms ==
  ASSUME BookInv, NEW n \in Resting
  PROVE  /\ n \in OrderSlots /\ node[n].active /\ node[n].order \in Order
         /\ Id(n) \in 1..MaxId /\ Id(n) \in Nat /\ Id(n) < order_id_counter
         /\ SideAt(n) \in Side
         /\ PriceOf(n) \in Prices /\ PriceOf(n) \in Nat
         /\ node[n].order.qty \in 1..MaxQty
         /\ price_index[PriceOf(n)] \in Placed
         /\ level[price_index[PriceOf(n)]].price = PriceOf(n)
  <1>1. n \in OrderSlots /\ node[n].active /\ node[n].order \in Order
    BY DEF Resting, BookInv, OrdersIndexed
  <1>2. node[n].order.qty > 0 /\ Id(n) < order_id_counter /\ price_index[PriceOf(n)] \in Placed
    BY DEF BookInv, OrdersIndexed
  <1>3. PriceOf(n) \in Prices
    BY <1>1, OrderTerms DEF PriceOf
  <1>4. level[price_index[PriceOf(n)]].price = PriceOf(n)
    BY <1>2, <1>3, NullIsNoSlot DEF BookInv, LevelsIndexed, Placed
  <1> QED
    BY <1>1, <1>2, <1>4, OrderTerms DEF Id, PriceOf, SideAt

\* An id is in one slot only.
LEMMA RestingIdsDiffer ==
  ASSUME NEW n \in Resting, NEW m \in Resting, Id(n) = Id(m)
  PROVE  n = m
  BY DEF Resting

\* What the invariant says of one level of a ladder.
LEMMA PlacedTerms ==
  ASSUME BookInv, NEW l \in Placed
  PROVE  /\ l \in LevelSlots /\ level[l].active
         /\ level[l].price \in Prices /\ level[l].price \in Nat
         /\ price_index[level[l].price] = l
         /\ level[l].head_order \in Resting
         /\ PriceOf(level[l].head_order) = level[l].price
         /\ LevelSide(l) \in Side
  <1>1. l \in LevelSlots /\ level[l].active
    BY DEF Placed
  <1>2. level[l].price \in Prices /\ price_index[level[l].price] = l
    BY <1>1 DEF BookInv, LevelsIndexed
  <1>3. level[l].head_order \in Resting /\ PriceOf(level[l].head_order) = level[l].price
    BY DEF BookInv, QueueEnds
  <1> QED
    BY <1>1, <1>2, <1>3, RestingTerms DEF LevelSide

-----------------------------------------------------------------------------
\* An empty book: all slots are free.
LEMMA InitBook == Init => BookInv
  <1> SUFFICES ASSUME Init PROVE BookInv
    OBVIOUS
  <1>1. Resting = {} /\ Placed = {}
    BY DEF Init, Resting, Placed, FreeNode, FreeLevel
  <1>2. 0 \in 0..MaxQty /\ 0 \in 0..MaxId /\ 0 \in OrderSlots /\ 0 \in LevelSlots
    BY DEF OrderSlots, LevelSlots
  <1>3. NoResult \in Result /\ NoResult.error = "None"
    BY <1>2, OkIsResult DEF NoResult
  <1>4. Shape
    <2>1. node \in [OrderSlots -> OrderNode]
      <3>1. ASSUME NEW nxt \in OrderIdx PROVE FreeNode(nxt) \in OrderNode
        BY DEF FreeNode, OrderNode, OrderIdx
      <3>2. ASSUME NEW n \in OrderSlots
            PROVE  (IF n + 1 \in OrderSlots THEN n + 1 ELSE NULL_IDX) \in OrderIdx
        BY DEF OrderIdx
      <3> QED
        BY <3>1, <3>2 DEF Init
    <2>2. level \in [LevelSlots -> LooseLevel]
      <3>1. ASSUME NEW nxt \in LevelIdx PROVE FreeLevel(nxt) \in LooseLevel
        BY DEF FreeLevel, LooseLevel, LevelIdx, OrderIdx
      <3>2. ASSUME NEW l \in LevelSlots
            PROVE  (IF l + 1 \in LevelSlots THEN l + 1 ELSE NULL_IDX) \in LevelIdx
        BY DEF LevelIdx
      <3> QED
        BY <3>1, <3>2 DEF Init
    <2> QED
      BY <1>2, <1>3, <2>1, <2>2 DEF Init, Shape, OrderIdx, LevelIdx
  <1>5. FreeOrders
    <2> DEFINE After == {p \in OrderSlots \X OrderSlots : p[1] < p[2]}
    <2>1. \A n \in OrderSlots : ~node[n].active
      BY DEF Init, FreeNode
    <2>2. \A n \in OrderSlots : NextOrder[n] = IF n + 1 \in OrderSlots THEN n + 1 ELSE NULL_IDX
      BY DEF Init, FreeNode, NextOrder
    <2>3. order_free = 0
      BY DEF Init
    <2>4. IsChain(order_free, NextOrder, OrderSlots, After)
      BY <1>2, <2>2, <2>3 DEF IsChain, OrderSlots, NULL_IDX
    <2> QED
      BY <2>1, <2>4 DEF FreeOrders
  <1>6. FreeLevels
    <2> DEFINE After == {p \in LevelSlots \X LevelSlots : p[1] < p[2]}
    <2>1. \A l \in LevelSlots : ~level[l].active
      BY DEF Init, FreeLevel
    <2>2. \A l \in LevelSlots : NextFreeLevel[l] = IF l + 1 \in LevelSlots THEN l + 1 ELSE NULL_IDX
      BY DEF Init, FreeLevel, NextFreeLevel
    <2>3. level_free = 0
      BY DEF Init
    <2>4. IsChain(level_free, NextFreeLevel, LevelSlots, After)
      BY <1>2, <2>2, <2>3 DEF IsChain, LevelSlots, NULL_IDX
    <2> QED
      BY <2>1, <2>4 DEF FreeLevels
  <1>7. OrdersIndexed /\ LevelsIndexed
    BY <1>1 DEF Init, OrdersIndexed, LevelsIndexed, FreeNode, FreeLevel
  <1>8. QueueLinks /\ QueueEnds /\ LadderLinks /\ LadderTops /\ OneSideAPrice
    BY <1>1 DEF Init, QueueLinks, QueueEnds, LadderLinks, LadderTops, OneSideAPrice
  <1> QED
    BY <1>1, <1>3, <1>4, <1>5, <1>6, <1>7, <1>8
       DEF Init, BookInv, InHand, Linking, Room, RefusedBeforeTrading

\* Nothing is moved in the arenas or the indexes; only quantities change.
LEMMA StructureStays ==
  ASSUME BookInv,
         UNCHANGED <<order_free, level_free, best, price_index, order_index, level_idx>>,
         \A n \in OrderSlots :
           /\ node'[n].active = node[n].active
           /\ node'[n].next = node[n].next
           /\ node'[n].prev = node[n].prev
           /\ node'[n].order.id = node[n].order.id
           /\ node'[n].order.price = node[n].order.price
           /\ node'[n].order.side = node[n].order.side,
         \A l \in LevelSlots :
           /\ level'[l].price = level[l].price
           /\ level'[l].active = level[l].active
           /\ level'[l].head_order = level[l].head_order
           /\ level'[l].tail_order = level[l].tail_order
           /\ level'[l].prev_level = level[l].prev_level
           /\ level'[l].next_level = level[l].next_level
           /\ level'[l].next_free = level[l].next_free
  PROVE  Structure' /\ Resting' = Resting /\ Placed' = Placed
  <1>0. Structure /\ Shape
    BY DEF BookInv, Structure
  <1>1. Resting' = Resting /\ Placed' = Placed
    BY DEF Resting, Placed, Id
  <1>2. \A n \in Resting : n \in OrderSlots
    BY DEF Resting
  <1>3. \A l \in Placed : l \in LevelSlots
    BY DEF Placed
  <1>4. \A n \in OrderSlots : Id(n)' = Id(n) /\ PriceOf(n)' = PriceOf(n) /\ SideAt(n)' = SideAt(n)
    BY DEF Id, PriceOf, SideAt, SideOf
  <1>5. \A l \in Placed : LevelSide(l)' = LevelSide(l)
    BY <1>0, <1>2, <1>3, <1>4 DEF LevelSide, Structure, QueueEnds
  <1>6. \A l, k \in Placed : Above(l, k)' = Above(l, k)
    BY <1>3, <1>5 DEF Above
  <1>7. LevelsIndexed'
    <2>1. \A p \in Prices : price_index[p] # NULL_IDX => price_index[p] \in LevelSlots
      BY <1>0 DEF Shape, LevelIdx
    <2> QED
      BY <1>0, <2>1 DEF Structure, LevelsIndexed
  <1>8. OneSideAPrice'
    BY <1>0, <1>1, <1>2, <1>4 DEF Structure, OneSideAPrice
  <1>9. QueueLinks'
    <2>1. \A n \in Resting : price_index[PriceOf(n)] \in LevelSlots
      BY <1>3, RestingTerms
    <2> QED
      BY <1>0, <1>1, <1>2, <2>1 DEF Structure, QueueLinks, PriceOf, Ahead, Id
  <1>10. QueueEnds'
    BY <1>0, <1>1, <1>2, <1>3 DEF Structure, QueueEnds, PriceOf, Ahead, Id
  <1>11. LadderLinks'
    BY <1>0, <1>1, <1>3, <1>5 DEF Structure, LadderLinks, Above
  <1>12. LadderTops'
    BY <1>0, <1>1, <1>3, <1>5 DEF Structure, LadderTops, Above
  <1>13. FreeOrders'
    BY <1>0 DEF Structure, FreeOrders, NextOrder
  <1>14. FreeLevels'
    BY <1>0 DEF Structure, FreeLevels, NextFreeLevel
  <1> QED
    BY <1>1, <1>7, <1>8, <1>9, <1>10, <1>11, <1>12, <1>13, <1>14 DEF Structure

\* The best level of a side and the order at its head.
LEMMA BestTerms ==
  ASSUME BookInv, NEW s \in Side, best[s] # NULL_IDX
  PROVE  /\ best[s] \in Placed /\ LevelSide(best[s]) = s
         /\ level[best[s]].head_order \in Resting
         /\ PriceOf(level[best[s]].head_order) = level[best[s]].price
         /\ SideAt(level[best[s]].head_order) = s
  <1>1. best[s] \in Placed /\ LevelSide(best[s]) = s
    BY DEF BookInv, LadderTops
  <1> QED
    BY <1>1, PlacedTerms DEF LevelSide

\* The best level and the head of its queue, when the loop goes on.
LEMMA MakerTerms ==
  ASSUME BookInv, phase = "matching", LoopGoesOn
  PROVE  /\ order \in Order /\ order.qty \in 1..MaxQty
         /\ Opposite \in Side
         /\ BestLevel \in Placed /\ BestLevel \in LevelSlots /\ LevelSide(BestLevel) = Opposite
         /\ HeadOrder \in Resting /\ HeadOrder \in OrderSlots /\ HeadOrder # NULL_IDX
         /\ Maker \in Order /\ Maker.qty \in 1..MaxQty
         /\ Maker.price = level[BestLevel].price /\ SideOf(Maker) = Opposite
  <1>1. order \in Order /\ order.qty \in 1..MaxQty /\ Opposite \in Side
    BY OrderTerms DEF BookInv, InHand, LoopGoesOn, Opposite, OtherSide, Side
  <1>2. /\ BestLevel \in Placed /\ LevelSide(BestLevel) = Opposite
        /\ HeadOrder \in Resting
        /\ PriceOf(HeadOrder) = level[BestLevel].price
        /\ SideAt(HeadOrder) = Opposite
    BY <1>1, BestTerms DEF LoopGoesOn, BestLevel, HeadOrder
  <1> QED
    BY <1>1, <1>2, RestingTerms, PlacedTerms, NullIsNoSlot DEF Maker, PriceOf, SideAt

-----------------------------------------------------------------------------
(* Each action preserves the invariant. *)

\* A new order in hand.
LEMMA BookProcess ==
  ASSUME BookInv, NEW o \in Submissions, Process(o)
  PROVE  BookInv'
  <1>1. o \in Order /\ o.id \in 1..MaxId /\ o.qty \in 0..MaxQty
    BY OrderTerms DEF Submissions, Order
  <1>2. Structure' /\ Resting' = Resting /\ Placed' = Placed
    BY StructureStays DEF Process, arenas, indexes, locals
  <1>3. order_id_counter \in Nat /\ order_id_counter <= o.id
    BY DEF Process, BookInv, Shape
  <1>4. Shape'
    BY <1>1 DEF Process, BookInv, Shape, arenas, indexes, locals
  <1>5. InHand'
    BY <1>1, <1>2, <1>3, RestingTerms DEF Process, InHand, arenas, Id
  <1>6. OrdersIndexed'
    BY <1>1, <1>2, <1>3, RestingTerms DEF Process, BookInv, OrdersIndexed, arenas, indexes, Id, PriceOf, SideAt
  <1>7. Linking'
    BY DEF Process, BookInv, Linking, locals
  <1>8. Room' /\ RefusedBeforeTrading'
    BY DEF Process, BookInv, InHand, Room, RefusedBeforeTrading
  <1> QED
    BY <1>2, <1>4, <1>5, <1>6, <1>7, <1>8 DEF BookInv, Structure

\* The call is answered and the book is as it was.
LEMMA BookAnswer ==
  ASSUME BookInv, SelfTrade \/ Finish \/ RestNoOrderSlot
  PROVE  BookInv'
  <1>1. /\ phase = "matching" /\ phase' = "done"
        /\ UNCHANGED <<arenas, indexes, locals, order_id_counter, order, original_qty, trades>>
    BY DEF SelfTrade, Finish, RestNoOrderSlot, CanMatch, MatchingOver, MustRest, Answer
  <1>2. Structure' /\ Resting' = Resting /\ Placed' = Placed
    BY <1>1, StructureStays DEF arenas, indexes, locals
  <1>3. /\ order.qty \in 0..MaxQty /\ original_qty - order.qty \in 0..MaxQty
    BY <1>1, OrderTerms DEF BookInv, InHand, Shape
  <1>4. result' \in Result /\ (result'.error = "EngineFull" => RestNoOrderSlot)
    BY <1>3, OkIsResult, ErrIsResult DEF SelfTrade, Finish, RestNoOrderSlot, Answer
  <1>5. Shape'
    BY <1>1, <1>4 DEF BookInv, Shape, arenas, indexes, locals
  <1>6. InHand' /\ OrdersIndexed'
    BY <1>1, <1>2 DEF BookInv, InHand, OrdersIndexed, arenas, indexes, Id, PriceOf, SideAt
  <1>7. Linking' /\ Room'
    BY <1>1 DEF BookInv, Linking, Room, locals
  <1>8. RefusedBeforeTrading'
    BY <1>1, <1>4 DEF BookInv, Room, RefusedBeforeTrading, RestNoOrderSlot, MustRest, MatchingOver
  <1> QED
    BY <1>2, <1>5, <1>6, <1>7, <1>8 DEF BookInv, Structure

\* A cancellation refused, and the end of a call, leave the book alone.
LEMMA BookRefusedCancel ==
  ASSUME BookInv, NEW user, NEW ref, CancelUnauthorized(user, ref) \/ CancelNotFound(user, ref)
  PROVE  BookInv'
  <1>1. /\ phase = "idle" /\ phase' = "cancelled"
        /\ order' = None /\ result' \in Result
        /\ UNCHANGED <<arenas, indexes, locals, order_id_counter, original_qty, trades>>
    BY ErrIsResult DEF CancelUnauthorized, CancelNotFound, CancelAnswer
  <1>2. Structure' /\ Resting' = Resting /\ Placed' = Placed
    BY <1>1, StructureStays DEF arenas, indexes, locals
  <1>3. Shape'
    BY <1>1 DEF BookInv, Shape, arenas, indexes, locals
  <1>4. InHand' /\ OrdersIndexed'
    BY <1>1, <1>2 DEF BookInv, InHand, OrdersIndexed, arenas, indexes, Id, PriceOf, SideAt
  <1>5. Linking' /\ Room' /\ RefusedBeforeTrading'
    BY <1>1 DEF BookInv, Linking, Room, RefusedBeforeTrading, locals
  <1> QED
    BY <1>2, <1>3, <1>4, <1>5 DEF BookInv, Structure

\* The caller has read the answer.
LEMMA BookReturn ==
  ASSUME BookInv, Return
  PROVE  BookInv'
  <1>1. /\ phase' = "idle" /\ phase # "linking" /\ trades' = << >>
        /\ order' = None /\ original_qty' = 0 /\ result' \in Result
        /\ UNCHANGED <<arenas, indexes, locals, order_id_counter>>
    <2>1. 0 \in 0..MaxQty
      OBVIOUS
    <2> QED
      BY <2>1, OkIsResult DEF Return, NoResult
  <1>2. Structure' /\ Resting' = Resting /\ Placed' = Placed
    BY <1>1, StructureStays DEF arenas, indexes, locals
  <1>3. Shape'
    BY <1>1 DEF BookInv, Shape, arenas, indexes, locals
  <1>4. InHand' /\ OrdersIndexed'
    BY <1>1, <1>2 DEF BookInv, InHand, OrdersIndexed, arenas, indexes, Id, PriceOf, SideAt
  <1>5. Linking' /\ Room' /\ RefusedBeforeTrading'
    BY <1>1 DEF BookInv, Linking, Room, RefusedBeforeTrading, locals
  <1> QED
    BY <1>2, <1>3, <1>4, <1>5 DEF BookInv, Structure

\* The maker at the head of the best level is reduced and stays where it is.
LEMMA BookFillPartial ==
  ASSUME BookInv, FillPartial
  PROVE  BookInv'
  <1>1. phase = "matching" /\ LoopGoesOn /\ Maker.qty > order.qty
    BY DEF FillPartial, CanMatch
  <1>2. /\ order \in Order /\ order.qty \in 1..MaxQty
        /\ BestLevel \in LevelSlots
        /\ HeadOrder \in Resting /\ HeadOrder \in OrderSlots
        /\ Maker \in Order /\ Maker.qty \in 1..MaxQty
    BY <1>1, MakerTerms
  <1> DEFINE left == [Maker EXCEPT !.qty = @ - order.qty]
  <1>3. /\ left \in Order /\ left.qty = Maker.qty - order.qty /\ left.qty > 0
        /\ left.id = Maker.id /\ left.price = Maker.price /\ left.side = Maker.side
        /\ left.user_id = Maker.user_id /\ left.client_order_id = Maker.client_order_id
    BY <1>1, <1>2, RemainderIsOrder
  <1>4. /\ node' = [node EXCEPT ![HeadOrder].order = left]
        /\ level' = [level EXCEPT ![BestLevel].total_qty = @ - order.qty]
        /\ UNCHANGED <<order_free, level_free, best, price_index, indexes,
                       order_id_counter, phase, original_qty, result, locals>>
    BY <1>2 DEF FillPartial, Executed, Maker, BookInv, Shape
  <1>5. node \in [OrderSlots -> OrderNode] /\ level \in [LevelSlots -> LooseLevel]
    BY DEF BookInv, Shape
  <1> HIDE DEF left
  <1>6. \A n \in OrderSlots :
          /\ node'[n].active = node[n].active
          /\ node'[n].next = node[n].next
          /\ node'[n].prev = node[n].prev
          /\ node'[n].order = IF n = HeadOrder THEN left ELSE node[n].order
    BY <1>4, <1>5 DEF OrderNode
  <1>7. \A l \in LevelSlots :
           /\ level'[l].price = level[l].price
           /\ level'[l].active = level[l].active
           /\ level'[l].head_order = level[l].head_order
           /\ level'[l].tail_order = level[l].tail_order
           /\ level'[l].prev_level = level[l].prev_level
           /\ level'[l].next_level = level[l].next_level
           /\ level'[l].next_free = level[l].next_free
    BY <1>4, <1>5 DEF LooseLevel
  <1>8. Structure' /\ Resting' = Resting /\ Placed' = Placed
    BY <1>3, <1>4, <1>6, <1>7, StructureStays DEF indexes, locals, Maker
  <1>9. /\ order' \in Order /\ order'.qty = 0 /\ order'.id = order.id
    <2>1. order' = [order EXCEPT !.qty = @ - order.qty]
      BY DEF FillPartial, Executed
    <2>2. order.qty \in Nat /\ order.qty <= order.qty /\ order.qty - order.qty = 0
      BY <1>2
    <2> QED
      BY <1>2, <2>1, <2>2, RemainderIsOrder
  <1>10. trades' \in Seq(Trade)
    BY <1>2, TradeIsTyped DEF FillPartial, Executed, BookInv, Shape
  <1>11. node' \in [OrderSlots -> OrderNode]
    BY <1>3, <1>4, <1>5 DEF OrderNode
  <1>12. level' \in [LevelSlots -> LooseLevel]
    BY <1>2, <1>4, <1>5 DEF LooseLevel
  <1>13. Shape'
    BY <1>4, <1>9, <1>10, <1>11, <1>12 DEF BookInv, Shape, indexes, locals
  <1>14. \A n \in OrderSlots : Id(n)' = Id(n) /\ PriceOf(n)' = PriceOf(n)
    BY <1>3, <1>6 DEF Id, PriceOf, Maker
  <1>15. InHand'
    BY <1>1, <1>2, <1>4, <1>8, <1>9, <1>14, RestingTerms DEF BookInv, InHand, Shape
  <1>16. OrdersIndexed'
    <2>1. \A n \in OrderSlots : node'[n].active => node'[n].order \in Order
      BY <1>3, <1>6 DEF BookInv, OrdersIndexed
    <2>2. \A n \in OrderSlots :
            /\ node'[n].order.id = node[n].order.id
            /\ node'[n].order.price = node[n].order.price
            /\ node'[n].order.side = node[n].order.side
            /\ node'[n].order.user_id = node[n].order.user_id
            /\ node'[n].order.client_order_id = node[n].order.client_order_id
      BY <1>3, <1>6 DEF Maker
    <2>3. \A id \in 1..MaxId : order_index[id] # None => order_index[id].node_idx \in OrderSlots
      BY DEF BookInv, Shape, FastIndexEntry
    <2>4. \A n \in Resting : n \in OrderSlots /\ node'[n].order.qty > 0
      BY <1>3, <1>6, RestingTerms
    <2> QED
      BY <1>4, <1>6, <1>8, <2>1, <2>2, <2>3, <2>4 DEF BookInv, OrdersIndexed, Id, PriceOf, SideAt, indexes
  <1>17. Linking' /\ Room' /\ RefusedBeforeTrading'
    BY <1>1, <1>4, <1>9 DEF BookInv, Linking, Room, RefusedBeforeTrading, locals
  <1> QED
    BY <1>8, <1>13, <1>15, <1>16, <1>17 DEF BookInv, Structure

-----------------------------------------------------------------------------
(* An order leaves its queue, and its level the ladder if it was alone in it: *)
(* pop_order is unlink_order of a head.                                       *)

\* The level an order is at.
LevelOf(n) == price_index[PriceOf(n)]

\* The order of slot n leaves the book, by being filled or cancelled.
Removes(n) ==
  /\ n \in Resting
  /\ Deallocate(n, NodesAfterUnlink(n))
  /\ order_index' = [order_index EXCEPT ![Id(n)] = None]
  /\ LevelLosesOrder(LevelOf(n), SideAt(n), LevelAfterUnlink(LevelOf(n), n))
  /\ UNCHANGED level_idx

\* It is the only one of its level.
Alone(n) == node[n].prev = NULL_IDX /\ node[n].next = NULL_IDX

\* What the links of an order and of its neighbours say of each other.
LEMMA Neighbours ==
  ASSUME BookInv, NEW n \in Resting
  PROVE  /\ node[n].next # NULL_IDX =>
              /\ node[n].next \in Resting /\ Ahead(n, node[n].next)
              /\ node[node[n].next].prev = n
         /\ node[n].prev # NULL_IDX =>
              /\ node[n].prev \in Resting /\ Ahead(node[n].prev, n)
              /\ node[node[n].prev].next = n
              /\ node[n].prev # node[n].next
         /\ node[n].prev = NULL_IDX <=> level[LevelOf(n)].head_order = n
         /\ node[n].next = NULL_IDX <=> level[LevelOf(n)].tail_order = n
         /\ node[n].next # n /\ node[n].prev # n
  <1>1. node[n].next # NULL_IDX =>
          /\ node[n].next \in Resting /\ Ahead(n, node[n].next)
          /\ node[node[n].next].prev = n
    BY DEF BookInv, QueueLinks
  <1>2. node[n].prev # NULL_IDX =>
          node[n].prev \in Resting /\ node[node[n].prev].next = n
    BY DEF BookInv, QueueLinks
  <1>3. n \in OrderSlots /\ LevelOf(n) \in Placed /\ level[LevelOf(n)].price = PriceOf(n)
    BY RestingTerms DEF LevelOf
  <1>4. node[n].prev # NULL_IDX => Ahead(node[n].prev, n)
    BY <1>2, <1>3, NullIsNoSlot DEF BookInv, QueueLinks
  <1>5. \A m \in Resting : Id(m) \in Nat
    BY RestingTerms
  <1>6. node[n].prev # NULL_IDX => node[n].prev # node[n].next
    BY <1>1, <1>2, <1>4, <1>5 DEF Ahead
  <1>7. node[n].prev = NULL_IDX <=> level[LevelOf(n)].head_order = n
    BY <1>3 DEF BookInv, QueueLinks, QueueEnds, LevelOf
  <1>8. node[n].next = NULL_IDX <=> level[LevelOf(n)].tail_order = n
    <2> DEFINE t == level[LevelOf(n)].tail_order
    <2>1. t \in Resting /\ PriceOf(t) = PriceOf(n) /\ node[t].next = NULL_IDX
      BY <1>3 DEF BookInv, QueueEnds
    <2>2. \A m \in Resting : ~Ahead(t, m)
      BY <2>1 DEF BookInv, QueueLinks
    <2>3. ASSUME node[n].next = NULL_IDX PROVE t = n
      <3>1. ~Ahead(n, t) /\ ~Ahead(t, n)
        BY <2>1, <2>2, <2>3 DEF BookInv, QueueLinks
      <3> QED
        BY <2>1, <3>1, <1>5, RestingIdsDiffer DEF Ahead
    <2> QED
      BY <2>1, <2>3
  <1>9. node[n].next # n /\ node[n].prev # n
    BY <1>1, <1>3, <1>4, <1>5, NullIsNoSlot DEF Ahead
  <1> QED
    BY <1>1, <1>2, <1>4, <1>6, <1>7, <1>8, <1>9

\* What unlinking an order does to the slots of the arena.
LEMMA RemovedNodes ==
  ASSUME BookInv, NEW n \in Resting, Removes(n)
  PROVE  /\ n \in OrderSlots /\ n # NULL_IDX
         /\ node'[n] = FreeNode(order_free)
         /\ \A m \in OrderSlots \ {n} :
              /\ node'[m].active = node[m].active
              /\ node'[m].order = node[m].order
              /\ node'[m].next = IF m = node[n].prev THEN node[n].next ELSE node[m].next
              /\ node'[m].prev = IF m = node[n].next THEN node[n].prev ELSE node[m].prev
         /\ node' \in [OrderSlots -> OrderNode]
         /\ order_free' = n
         /\ Resting' = Resting \ {n}
  <1>1. n \in OrderSlots /\ n # NULL_IDX
    BY RestingTerms, NullIsNoSlot
  <1>2. node \in [OrderSlots -> OrderNode] /\ order_free \in OrderIdx
    BY DEF BookInv, Shape
  <1>3. node[n].prev # node[n].next \/ node[n].prev = NULL_IDX
    BY Neighbours
  <1> DEFINE relinked == NodesAfterUnlink(n)
  <1>4. \A m \in OrderSlots :
          /\ relinked[m] \in OrderNode
          /\ relinked[m].active = node[m].active
          /\ relinked[m].order = node[m].order
          /\ relinked[m].next = IF m = node[n].prev THEN node[n].next ELSE node[m].next
          /\ relinked[m].prev = IF m = node[n].next THEN node[n].prev ELSE node[m].prev
    BY <1>1, <1>2, <1>3, NullIsNoSlot DEF NodesAfterUnlink, OrderNode
  <1>5. DOMAIN relinked = OrderSlots /\ relinked = [m \in OrderSlots |-> relinked[m]]
    BY DEF NodesAfterUnlink
  <1>6. node' = [relinked EXCEPT ![n] = FreeNode(order_free)] /\ order_free' = n
    BY DEF Removes, Deallocate
  <1> HIDE DEF relinked
  <1>7. node'[n] = FreeNode(order_free) /\ \A m \in OrderSlots \ {n} : node'[m] = relinked[m]
    BY <1>1, <1>5, <1>6
  <1>8. FreeNode(order_free) \in OrderNode
    BY <1>2 DEF FreeNode, OrderNode, OrderIdx
  <1>9. node' \in [OrderSlots -> OrderNode]
    BY <1>4, <1>5, <1>6, <1>8
  <1>10. \A m \in OrderSlots \ {n} : node'[m].active = node[m].active /\ node'[m].order = node[m].order
    BY <1>4, <1>7
  <1>11. Resting' = Resting \ {n}
    <2>1. order_index' = [order_index EXCEPT ![Id(n)] = None] /\ ~node'[n].active
      BY <1>7 DEF Removes, FreeNode
    <2>2. ASSUME NEW m \in OrderSlots \ {n} PROVE m \in Resting' <=> m \in Resting
      <3>1. Id(m)' = Id(m)
        BY <1>10 DEF Id
      <3>2. node'[m].active = node[m].active
        BY <1>10
      <3>3. CASE Id(m) = Id(n)
        <4>1. order_index[Id(n)].node_idx = n /\ Id(n) \in 1..MaxId
          BY RestingTerms DEF Resting
        <4>2. order_index'[Id(n)] = None
          BY <2>1, <4>1 DEF BookInv, Shape
        <4> QED
          BY <3>1, <3>3, <4>1, <4>2 DEF Resting, Id
      <3>4. CASE Id(m) # Id(n)
        <4>1. order_index'[Id(m)] = order_index[Id(m)]
          BY <2>1, <3>4
        <4> QED
          BY <1>10, <3>2, <4>1 DEF Resting, Id
      <3> QED
        BY <3>3, <3>4
    <2>3. n \notin Resting'
      BY <2>1 DEF Resting
    <2>4. \A m \in Resting' : m \in OrderSlots
      BY DEF Resting
    <2> QED
      BY <2>2, <2>3, <2>4, RestingTerms
  <1> QED
    BY <1>1, <1>4, <1>6, <1>7, <1>9, <1>10, <1>11

\* What the links of a level and of its neighbours say of each other.
LEMMA LadderNeighbours ==
  ASSUME BookInv, NEW l \in Placed
  PROVE  /\ level[l].next_level # NULL_IDX =>
              /\ level[l].next_level \in Placed /\ Above(l, level[l].next_level)
              /\ level[level[l].next_level].prev_level = l
         /\ level[l].prev_level # NULL_IDX =>
              /\ level[l].prev_level \in Placed /\ Above(level[l].prev_level, l)
              /\ level[level[l].prev_level].next_level = l
              /\ level[l].prev_level # level[l].next_level
         /\ level[l].prev_level = NULL_IDX <=> best[LevelSide(l)] = l
         /\ level[l].next_level # l /\ level[l].prev_level # l
  <1>1. level[l].next_level # NULL_IDX =>
          /\ level[l].next_level \in Placed /\ Above(l, level[l].next_level)
          /\ level[level[l].next_level].prev_level = l
    BY DEF BookInv, LadderLinks
  <1>2. level[l].prev_level # NULL_IDX =>
          level[l].prev_level \in Placed /\ level[level[l].prev_level].next_level = l
    BY DEF BookInv, LadderLinks
  <1>3. l \in LevelSlots /\ LevelSide(l) \in Side
    BY PlacedTerms
  <1>4. level[l].prev_level # NULL_IDX => Above(level[l].prev_level, l)
    BY <1>2, <1>3, NullIsNoSlot DEF BookInv, LadderLinks
  <1>5. ASSUME NEW j \in Placed, NEW k \in Placed, Above(j, k)
        PROVE  j # k /\ ~Above(k, j)
    BY <1>5, PlacedTerms DEF Above, BetterPrice
  <1>6. level[l].prev_level = NULL_IDX <=> best[LevelSide(l)] = l
    BY <1>3, NullIsNoSlot DEF BookInv, LadderLinks, LadderTops
  <1>7. level[l].next_level # l /\ level[l].prev_level # l
    BY <1>1, <1>2, <1>3, <1>4, <1>5, NullIsNoSlot
  <1> QED
    BY <1>1, <1>2, <1>4, <1>5, <1>6, <1>7

\* Others are left in the level: it stays where it is.
LEMMA RemovedFromLevel ==
  ASSUME BookInv, NEW n \in Resting, Removes(n), ~Alone(n)
  PROVE  LET l == LevelOf(n)
         IN  /\ UNCHANGED <<best, price_index, level_free>>
             /\ level' \in [LevelSlots -> LooseLevel]
             /\ \A k \in LevelSlots :
                  /\ level'[k].price = level[k].price
                  /\ level'[k].active = level[k].active
                  /\ level'[k].prev_level = level[k].prev_level
                  /\ level'[k].next_level = level[k].next_level
                  /\ level'[k].next_free = level[k].next_free
                  /\ level'[k].head_order =
                       IF k = l /\ node[n].prev = NULL_IDX THEN node[n].next
                       ELSE level[k].head_order
                  /\ level'[k].tail_order =
                       IF k = l /\ node[n].next = NULL_IDX THEN node[n].prev
                       ELSE level[k].tail_order
                  /\ level'[k].total_qty =
                       IF k = l THEN level[k].total_qty - node[n].order.qty
                       ELSE level[k].total_qty
                  /\ level'[k].order_count =
                       IF k = l THEN level[k].order_count - 1 ELSE level[k].order_count
             /\ Placed' = Placed
  <1> DEFINE l == LevelOf(n)
             rec == LevelAfterUnlink(l, n)
  <1>1. n \in OrderSlots /\ l \in Placed /\ l \in LevelSlots /\ node[n].order.qty \in Int
    BY RestingTerms, PlacedTerms DEF LevelOf
  <1>2. level \in [LevelSlots -> LooseLevel] /\ node \in [OrderSlots -> OrderNode]
    BY DEF BookInv, Shape
  <1>3. node[n].prev \in OrderIdx /\ node[n].next \in OrderIdx
    BY <1>1, <1>2 DEF OrderNode
  <1>4. /\ rec \in LooseLevel
        /\ rec.price = level[l].price
        /\ rec.active = level[l].active
        /\ rec.prev_level = level[l].prev_level
        /\ rec.next_level = level[l].next_level
        /\ rec.next_free = level[l].next_free
        /\ rec.head_order = IF node[n].prev = NULL_IDX THEN node[n].next ELSE level[l].head_order
        /\ rec.tail_order = IF node[n].next = NULL_IDX THEN node[n].prev ELSE level[l].tail_order
        /\ rec.total_qty = level[l].total_qty - node[n].order.qty
        /\ rec.order_count = level[l].order_count - 1
    <2>1. level[l] \in LooseLevel
      BY <1>1, <1>2
    <2>2. level[l].total_qty - node[n].order.qty \in Int /\ level[l].order_count - 1 \in Int
      BY <1>1, <2>1 DEF LooseLevel
    <2> HIDE DEF l
    <2> QED
      BY <1>3, <2>1, <2>2 DEF LevelAfterUnlink, LooseLevel
  <1>5. rec.head_order # NULL_IDX
    BY <1>1, <1>4, PlacedTerms, RestingTerms, NullIsNoSlot DEF Alone
  <1>6. level' = [level EXCEPT ![l] = rec] /\ UNCHANGED <<best, price_index, level_free, level_idx>>
    BY <1>5 DEF Removes, LevelLosesOrder
  <1> HIDE DEF rec
  <1>7. \A k \in LevelSlots : level'[k] = IF k = l THEN rec ELSE level[k]
    BY <1>2, <1>6
  <1>8. level' \in [LevelSlots -> LooseLevel]
    BY <1>2, <1>4, <1>6
  <1>9. Placed' = Placed
    BY <1>4, <1>6, <1>7 DEF Placed
  <1> QED
    BY <1>4, <1>6, <1>7, <1>8, <1>9

\* It was the only one: the level leaves the ladder and the price index.
LEMMA RemovedLevel ==
  ASSUME BookInv, NEW n \in Resting, Removes(n), Alone(n), phase # "linking"
  PROVE  LET l == LevelOf(n)
         IN  /\ best' = IF level[l].prev_level = NULL_IDX
                        THEN [best EXCEPT ![SideAt(n)] = level[l].next_level] ELSE best
             /\ price_index' = [price_index EXCEPT ![PriceOf(n)] = NULL_IDX]
             /\ level_free' = l
             /\ level' \in [LevelSlots -> LooseLevel]
             /\ level'[l] = FreeLevel(level_free)
             /\ \A k \in LevelSlots \ {l} :
                  /\ level'[k].price = level[k].price
                  /\ level'[k].active = level[k].active
                  /\ level'[k].next_free = level[k].next_free
                  /\ level'[k].head_order = level[k].head_order
                  /\ level'[k].tail_order = level[k].tail_order
                  /\ level'[k].next_level =
                       IF k = level[l].prev_level THEN level[l].next_level
                       ELSE level[k].next_level
                  /\ level'[k].prev_level =
                       IF k = level[l].next_level THEN level[l].prev_level
                       ELSE level[k].prev_level
                  /\ level'[k].total_qty = level[k].total_qty
                  /\ level'[k].order_count = level[k].order_count
             /\ Placed' = Placed \ {l}
  <1> DEFINE l == LevelOf(n)
  <1>1. n \in OrderSlots /\ l \in Placed /\ l \in LevelSlots /\ level[l].price = PriceOf(n)
    BY RestingTerms, PlacedTerms DEF LevelOf
  <1>2. level \in [LevelSlots -> LooseLevel] /\ level_free \in LevelIdx
    BY DEF BookInv, Shape
  <1>3. LevelAfterUnlink(l, n).head_order = NULL_IDX
    BY <1>1, <1>2 DEF LevelAfterUnlink, LooseLevel, Alone
  <1>4. DropLevel(l, SideAt(n)) /\ UNCHANGED level_idx
    BY <1>3 DEF Removes, LevelLosesOrder
  <1>5. /\ level[l].prev_level # level[l].next_level \/ level[l].prev_level = NULL_IDX
        /\ l # level[l].prev_level /\ l # level[l].next_level
    BY <1>1, LadderNeighbours
  <1>6. level' = LevelsWithout(l)
    BY <1>4 DEF DropLevel
  <1>7. level'[l] = FreeLevel(level_free)
    BY <1>1, <1>5, <1>6 DEF LevelsWithout
  <1>8. \A k \in LevelSlots \ {l} :
          /\ level'[k] \in LooseLevel
          /\ level'[k].price = level[k].price
          /\ level'[k].active = level[k].active
          /\ level'[k].next_free = level[k].next_free
          /\ level'[k].head_order = level[k].head_order
          /\ level'[k].tail_order = level[k].tail_order
          /\ level'[k].next_level =
               IF k = level[l].prev_level THEN level[l].next_level ELSE level[k].next_level
          /\ level'[k].prev_level =
               IF k = level[l].next_level THEN level[l].prev_level ELSE level[k].prev_level
          /\ level'[k].total_qty = level[k].total_qty
          /\ level'[k].order_count = level[k].order_count
    <2> TAKE k \in LevelSlots \ {l}
    <2>1. level[k] \in LooseLevel /\ level[l].prev_level \in LevelIdx /\ level[l].next_level \in LevelIdx
      BY <1>1, <1>2 DEF LooseLevel
    <2>2. level'[k] = CASE k = level[l].prev_level -> [level[k] EXCEPT !.next_level = level[l].next_level]
                        [] k = level[l].next_level -> [level[k] EXCEPT !.prev_level = level[l].prev_level]
                        [] OTHER                   -> level[k]
      BY <1>1, <1>5, <1>6, NullIsNoSlot DEF LevelsWithout
    <2> HIDE DEF l
    <2>3. CASE k = level[l].prev_level
      BY <1>5, <2>1, <2>2, <2>3, NullIsNoSlot DEF LooseLevel
    <2>4. CASE k = level[l].next_level
      BY <1>5, <2>1, <2>2, <2>4, NullIsNoSlot DEF LooseLevel
    <2>5. CASE k # level[l].prev_level /\ k # level[l].next_level
      BY <2>1, <2>2, <2>5 DEF LooseLevel
    <2> QED
      BY <2>3, <2>4, <2>5
  <1>9. FreeLevel(level_free) \in LooseLevel
    BY <1>2 DEF FreeLevel, LooseLevel, LevelIdx, OrderIdx
  <1>10. level' \in [LevelSlots -> LooseLevel]
    BY <1>6, <1>7, <1>8, <1>9 DEF LevelsWithout
  <1>11. Placed' = Placed \ {l}
    BY <1>1, <1>4, <1>7, <1>8 DEF Placed, FreeLevel
  <1> QED
    BY <1>1, <1>4, <1>7, <1>8, <1>10, <1>11 DEF DropLevel, BestWithout

\* An order without neighbours is the only one at its price.
LEMMA RemovedOrdersAlone ==
  ASSUME BookInv, NEW n \in Resting, Alone(n), NEW m \in Resting, PriceOf(m) = PriceOf(n)
  PROVE  m = n
  <1>1. level[LevelOf(n)].head_order = n /\ LevelOf(n) \in Placed /\ level[LevelOf(n)].price = PriceOf(n)
    BY Neighbours, RestingTerms DEF Alone, LevelOf
  <1>2. m = n \/ Ahead(n, m)
    BY <1>1 DEF BookInv, QueueEnds
  <1>3. ~Ahead(n, m)
    BY DEF BookInv, QueueLinks, Alone
  <1> QED
    BY <1>2, <1>3

\* The queues close up over the order that has left.
LEMMA RemovedQueues ==
  ASSUME BookInv, NEW n \in Resting, Removes(n), phase # "linking"
  PROVE  QueueLinks' /\ QueueEnds' /\ OneSideAPrice'
  <1>1. /\ Resting' = Resting \ {n}
        /\ \A m \in Resting \ {n} :
              /\ m \in OrderSlots
              /\ Id(m)' = Id(m) /\ PriceOf(m)' = PriceOf(m) /\ SideAt(m)' = SideAt(m)
              /\ node'[m].order = node[m].order
              /\ node'[m].next = IF m = node[n].prev THEN node[n].next ELSE node[m].next
              /\ node'[m].prev = IF m = node[n].next THEN node[n].prev ELSE node[m].prev
    BY RemovedNodes, RestingTerms DEF Id, PriceOf, SideAt
  <1>2. OneSideAPrice'
    BY <1>1 DEF BookInv, OneSideAPrice
  <1>3. \A m \in Resting : Id(m) \in Nat /\ LevelOf(m) \in Placed /\ LevelOf(m) \in LevelSlots
    BY RestingTerms, PlacedTerms DEF LevelOf
  <1>4. ASSUME NEW m \in Resting \ {n}
        PROVE  LET next == node'[m].next
               IN  IF next = NULL_IDX
                   THEN \A k \in Resting \ {n} : ~Ahead(m, k)
                   ELSE /\ next \in Resting \ {n}
                        /\ Ahead(m, next)
                        /\ node'[next].prev = m
                        /\ \A k \in Resting \ {n} : Ahead(m, k) => k = next \/ Ahead(next, k)
    <2>1. QueueLinks
      BY DEF BookInv
    <2>2. CASE m = node[n].prev
      <3>1. /\ node'[m].next = node[n].next /\ node[m].next = n
            /\ \A k \in Resting : Ahead(m, k) => k = n \/ Ahead(n, k)
        BY <1>1, <2>1, <2>2, Neighbours, NullIsNoSlot, RestingTerms DEF QueueLinks
      <3>2. CASE node[n].next = NULL_IDX
        BY <2>1, <3>1, <3>2 DEF QueueLinks
      <3>3. CASE node[n].next # NULL_IDX
        <4> DEFINE x == node[n].next
        <4>1. /\ x \in Resting \ {n} /\ Ahead(n, x) /\ Ahead(m, n)
              /\ \A k \in Resting : Ahead(n, k) => k = x \/ Ahead(x, k)
          BY <2>1, <2>2, <3>3, Neighbours, NullIsNoSlot, RestingTerms DEF QueueLinks
        <4>2. Ahead(m, x)
          BY <1>3, <4>1 DEF Ahead
        <4>3. node'[x].prev = m
          BY <1>1, <2>2, <4>1
        <4> QED
          BY <3>1, <3>3, <4>1, <4>2, <4>3
      <3> QED
        BY <3>2, <3>3
    <2>3. CASE m # node[n].prev
      <3>1. node'[m].next = node[m].next /\ node[m].next # n
        BY <1>1, <2>1, <2>3, RestingTerms, NullIsNoSlot DEF QueueLinks
      <3>2. ASSUME node[m].next # NULL_IDX PROVE node[m].next # node[n].next
        BY <2>1, <3>2, Neighbours DEF QueueLinks
      <3> QED
        BY <1>1, <2>1, <3>1, <3>2 DEF QueueLinks
    <2> QED
      BY <2>2, <2>3
  <1>5. ASSUME NEW m \in Resting \ {n}
        PROVE  LET prev == node'[m].prev
               IN  IF prev = NULL_IDX
                   THEN level'[price_index'[PriceOf(m)]].head_order = m
                   ELSE prev \in Resting \ {n} /\ node'[prev].next = m
    <2>1. CASE node'[m].prev = NULL_IDX
      <3>1. CASE Alone(n)
        <4>1. LevelOf(m) # LevelOf(n) /\ PriceOf(m) # PriceOf(n) /\ PriceOf(m) \in Prices
          BY <3>1, RemovedOrdersAlone, RestingTerms DEF LevelOf
        <4>2. m # node[n].next
          BY <3>1, RestingTerms, NullIsNoSlot DEF Alone
        <4>3. level[LevelOf(m)].head_order = m
          BY <1>1, <2>1, <4>2, Neighbours
        <4>4. price_index'[PriceOf(m)] = LevelOf(m)
          BY <3>1, <4>1, RemovedLevel DEF LevelOf, BookInv, Shape
        <4> QED
          BY <1>3, <2>1, <3>1, <4>1, <4>3, <4>4, RemovedLevel
      <3>2. CASE ~Alone(n)
        <4>1. price_index' = price_index /\ price_index'[PriceOf(m)] = LevelOf(m)
          BY <3>2, RemovedFromLevel DEF LevelOf
        <4>2. CASE m = node[n].next
          <5>1. node[n].prev = NULL_IDX /\ PriceOf(m) = PriceOf(n)
            BY <1>1, <2>1, <4>2, Neighbours, RestingTerms, NullIsNoSlot DEF Ahead
          <5> QED
            BY <1>3, <2>1, <3>2, <4>1, <4>2, <5>1, RemovedFromLevel DEF LevelOf
        <4>3. CASE m # node[n].next
          <5>1. level[LevelOf(m)].head_order = m
            BY <1>1, <2>1, <4>3, Neighbours
          <5>2. ~(LevelOf(m) = LevelOf(n) /\ node[n].prev = NULL_IDX)
            BY <5>1, Neighbours
          <5> QED
            BY <1>3, <2>1, <3>2, <4>1, <5>1, <5>2, RemovedFromLevel
        <4> QED
          BY <4>2, <4>3
      <3> QED
        BY <3>1, <3>2
    <2>2. CASE node'[m].prev # NULL_IDX
      <3>1. CASE m = node[n].next
        BY <1>1, <2>2, <3>1, Neighbours, RestingTerms, NullIsNoSlot
      <3>2. CASE m # node[n].next
        <4>1. node'[m].prev = node[m].prev
          BY <1>1, <3>2
        <4>2. node[m].prev \in Resting /\ node[node[m].prev].next = m
          BY <2>2, <4>1, Neighbours
        <4>3. node[m].prev # n /\ node[m].prev # node[n].prev
          BY <3>2, <4>2, Neighbours, RestingTerms, NullIsNoSlot
        <4> QED
          BY <1>1, <2>2, <4>1, <4>2, <4>3
      <3> QED
        BY <3>1, <3>2
    <2> QED
      BY <2>1, <2>2
  <1>6. QueueLinks'
    BY <1>1, <1>4, <1>5 DEF QueueLinks, Ahead
  <1>7. QueueEnds'
    <2> SUFFICES ASSUME NEW l \in Placed'
                 PROVE  LET head == level'[l].head_order
                            tail == level'[l].tail_order
                        IN  /\ head \in Resting \ {n}
                            /\ PriceOf(head) = level'[l].price
                            /\ node'[head].prev = NULL_IDX
                            /\ \A m \in Resting \ {n} :
                                 PriceOf(m) = level'[l].price => m = head \/ Ahead(head, m)
                            /\ tail \in Resting \ {n}
                            /\ PriceOf(tail) = level'[l].price
                            /\ node'[tail].next = NULL_IDX
      BY <1>1 DEF QueueEnds, Ahead
    <2>1. /\ l \in Placed /\ l \in LevelSlots /\ level'[l].price = level[l].price
          /\ Alone(n) => l # LevelOf(n)
      BY RemovedFromLevel, RemovedLevel, PlacedTerms
    <2> DEFINE h == level[l].head_order
               t == level[l].tail_order
    <2>2. /\ h \in Resting /\ PriceOf(h) = level[l].price /\ node[h].prev = NULL_IDX
          /\ \A m \in Resting : PriceOf(m) = level[l].price => m = h \/ Ahead(h, m)
          /\ t \in Resting /\ PriceOf(t) = level[l].price /\ node[t].next = NULL_IDX
      BY <2>1 DEF BookInv, QueueEnds
    <2>3. l = LevelOf(n) <=> level[l].price = PriceOf(n)
      BY <2>1, RestingTerms, PlacedTerms DEF LevelOf
    <2>4. /\ node'[level'[l].head_order].prev = NULL_IDX
          /\ level'[l].head_order \in Resting \ {n}
          /\ PriceOf(level'[l].head_order) = level[l].price
          /\ \A m \in Resting \ {n} :
               PriceOf(m) = level[l].price => m = level'[l].head_order \/ Ahead(level'[l].head_order, m)
      <3>1. CASE l = LevelOf(n) /\ node[n].prev = NULL_IDX
        <4> DEFINE x == node[n].next
        <4>1. ~Alone(n) /\ x # NULL_IDX /\ h = n
          BY <2>1, <3>1, Neighbours DEF Alone
        <4>2. level'[l].head_order = x
          BY <2>1, <3>1, <4>1, RemovedFromLevel
        <4>3. /\ x \in Resting \ {n} /\ Ahead(n, x)
              /\ \A m \in Resting : Ahead(n, m) => m = x \/ Ahead(x, m)
          BY <4>1, Neighbours DEF BookInv, QueueLinks
        <4>4. node'[x].prev = NULL_IDX
          BY <1>1, <3>1, <4>3
        <4>5. PriceOf(x) = level[l].price
          BY <2>2, <4>1, <4>3 DEF Ahead
        <4> QED
          BY <2>2, <4>1, <4>2, <4>3, <4>4, <4>5
      <3>2. CASE ~(l = LevelOf(n) /\ node[n].prev = NULL_IDX)
        <4>1. level'[l].head_order = h
          BY <2>1, <3>2, RemovedFromLevel, RemovedLevel
        <4>2. h # n
          <5>1. h = n => l = LevelOf(n)
            BY <2>2, <2>3
          <5> QED
            BY <3>2, <5>1, Neighbours
        <4>3. node'[h].prev = NULL_IDX
          <5>1. h # node[n].next
            BY <2>2, Neighbours, RestingTerms, NullIsNoSlot
          <5> QED
            BY <1>1, <2>2, <4>2, <5>1
        <4> QED
          BY <2>2, <4>1, <4>2, <4>3
      <3> QED
        BY <3>1, <3>2
    <2>5. /\ node'[level'[l].tail_order].next = NULL_IDX
          /\ level'[l].tail_order \in Resting \ {n}
          /\ PriceOf(level'[l].tail_order) = level[l].price
      <3>1. CASE l = LevelOf(n) /\ node[n].next = NULL_IDX
        <4> DEFINE p == node[n].prev
        <4>1. ~Alone(n) /\ p # NULL_IDX /\ p \in Resting \ {n} /\ Ahead(p, n)
          BY <2>1, <3>1, Neighbours DEF Alone
        <4>2. level'[l].tail_order = p
          BY <2>1, <3>1, <4>1, RemovedFromLevel
        <4>3. node'[p].next = NULL_IDX
          BY <1>1, <3>1, <4>1
        <4> QED
          BY <2>3, <3>1, <4>1, <4>2, <4>3 DEF Ahead
      <3>2. CASE ~(l = LevelOf(n) /\ node[n].next = NULL_IDX)
        <4>1. level'[l].tail_order = t
          BY <2>1, <3>2, RemovedFromLevel, RemovedLevel
        <4>2. t # n
          BY <2>2, <2>3, <3>2
        <4>3. node'[t].next = NULL_IDX
          <5>1. t # node[n].prev
            BY <2>2, Neighbours, RestingTerms, NullIsNoSlot
          <5> QED
            BY <1>1, <2>2, <4>2, <5>1
        <4> QED
          BY <2>2, <4>1, <4>2, <4>3
      <3> QED
        BY <3>1, <3>2
    <2> QED
      BY <2>1, <2>4, <2>5
  <1> QED
    BY <1>2, <1>6, <1>7

\* The levels that stay keep their side, if not their first order.
LEMMA RemovedSides ==
  ASSUME BookInv, NEW n \in Resting, Removes(n), phase # "linking", NEW k \in Placed'
  PROVE  k \in Placed /\ k \in LevelSlots /\ level'[k].price = level[k].price
         /\ LevelSide(k)' = LevelSide(k)
  <1>1. k \in Placed /\ k \in LevelSlots /\ level'[k].price = level[k].price
    BY RemovedFromLevel, RemovedLevel, PlacedTerms
  <1>2. QueueEnds'
    BY RemovedQueues
  <1> DEFINE h == level'[k].head_order
  <1>3. h \in Resting' /\ node'[h].order.price = level'[k].price
    BY <1>2 DEF QueueEnds, PriceOf
  <1>4. h \in Resting /\ PriceOf(h) = level[k].price /\ node'[h].order = node[h].order
    <2>1. h \in Resting \ {n} /\ h \in OrderSlots
      BY <1>3, RemovedNodes, RestingTerms
    <2>2. node'[h].order = node[h].order
      BY <2>1, RemovedNodes
    <2> QED
      BY <1>1, <1>3, <2>1, <2>2 DEF PriceOf
  <1>5. SideAt(h) = LevelSide(k)
    BY <1>1, <1>4, PlacedTerms DEF BookInv, OneSideAPrice, LevelSide
  <1>6. LevelSide(k)' = SideOf(node'[h].order)
    BY DEF LevelSide, SideAt
  <1> QED
    BY <1>1, <1>4, <1>5, <1>6 DEF SideAt

\* The ladders close up over a level that is left empty.
LEMMA RemovedLadders ==
  ASSUME BookInv, NEW n \in Resting, Removes(n), phase # "linking"
  PROVE  LadderLinks' /\ LadderTops'
  <1>1. \A k \in Placed' : /\ k \in Placed /\ k \in LevelSlots /\ level'[k].price = level[k].price
                           /\ LevelSide(k)' = LevelSide(k)
    BY RemovedSides
  <1>2. \A j, k \in Placed' : Above(j, k)' <=> Above(j, k)
    BY <1>1 DEF Above
  <1>3. LadderLinks /\ LadderTops
    BY DEF BookInv
  <1>4. CASE ~Alone(n)
    <2>1. /\ Placed' = Placed /\ UNCHANGED best
          /\ \A k \in Placed : /\ level'[k].prev_level = level[k].prev_level
                               /\ level'[k].next_level = level[k].next_level
      BY <1>1, <1>4, RemovedFromLevel, PlacedTerms
    <2>2. LadderLinks'
      <3>1. ASSUME NEW l \in Placed
            PROVE  LET next == level[l].next_level
                   IN  IF next = NULL_IDX
                       THEN \A k \in Placed : ~Above(l, k)'
                       ELSE /\ next \in Placed
                            /\ Above(l, next)'
                            /\ level'[next].prev_level = l
                            /\ \A k \in Placed : Above(l, k)' => k = next \/ Above(next, k)'
        BY <1>2, <1>3, <2>1 DEF LadderLinks
      <3>2. ASSUME NEW l \in Placed
            PROVE  LET prev == level[l].prev_level
                   IN  IF prev = NULL_IDX
                       THEN best[LevelSide(l)'] = l
                       ELSE prev \in Placed /\ level'[prev].next_level = l
        BY <1>1, <1>3, <2>1 DEF LadderLinks
      <3> QED
        BY <2>1, <3>1, <3>2, SMTT(30) DEF LadderLinks, Above, LevelSide, SideAt
    <2>3. LadderTops'
      BY <1>1, <1>2, <1>3, <2>1 DEF LadderTops, Above, LevelSide, SideAt
    <2> QED
      BY <2>2, <2>3
  <1>5. CASE Alone(n)
    <2> DEFINE l == LevelOf(n)
               p == level[l].prev_level
               x == level[l].next_level
    <2>1. l \in Placed /\ l \in LevelSlots /\ LevelSide(l) = SideAt(n) /\ SideAt(n) \in Side
      <3>1. l \in Placed /\ level[l].price = PriceOf(n) /\ SideAt(n) \in Side
        BY RestingTerms DEF LevelOf
      <3>2. SideAt(level[l].head_order) = SideAt(n)
        BY <3>1, PlacedTerms DEF BookInv, OneSideAPrice
      <3> QED
        BY <3>1, <3>2, PlacedTerms DEF LevelSide
    <2>2. /\ Placed' = Placed \ {l}
          /\ best' = IF p = NULL_IDX THEN [best EXCEPT ![SideAt(n)] = x] ELSE best
          /\ \A k \in Placed \ {l} :
               /\ level'[k].next_level = IF k = p THEN x ELSE level[k].next_level
               /\ level'[k].prev_level = IF k = x THEN p ELSE level[k].prev_level
      BY <1>5, RemovedLevel, PlacedTerms
    <2>3. /\ x # NULL_IDX => x \in Placed \ {l} /\ Above(l, x) /\ level[x].prev_level = l
          /\ p # NULL_IDX => p \in Placed \ {l} /\ Above(p, l) /\ level[p].next_level = l /\ p # x
          /\ p = NULL_IDX <=> best[SideAt(n)] = l
          /\ \A k \in Placed : k \in LevelSlots /\ k # NULL_IDX
      BY <2>1, LadderNeighbours, PlacedTerms, NullIsNoSlot
    <2>4. \A i, j, k \in Placed : Above(i, j) /\ Above(j, k) => Above(i, k)
      BY PlacedTerms DEF Above, BetterPrice
    <2> HIDE DEF l, p, x
    <2>5. ASSUME NEW m \in Placed \ {l}
          PROVE  LET next == level'[m].next_level
                 IN  IF next = NULL_IDX
                     THEN \A k \in Placed \ {l} : ~Above(m, k)
                     ELSE /\ next \in Placed \ {l}
                          /\ Above(m, next)
                          /\ level'[next].prev_level = m
                          /\ \A k \in Placed \ {l} : Above(m, k) => k = next \/ Above(next, k)
      <3>1. CASE m = p
        <4>1. /\ level'[m].next_level = x /\ level[m].next_level = l
              /\ \A k \in Placed : Above(m, k) => k = l \/ Above(l, k)
          BY <1>3, <2>1, <2>2, <2>3, <3>1 DEF LadderLinks
        <4>2. CASE x = NULL_IDX
          BY <1>3, <2>1, <4>1, <4>2 DEF LadderLinks, x
        <4>3. CASE x # NULL_IDX
          <5>1. /\ x \in Placed \ {l} /\ Above(l, x) /\ Above(m, l)
                /\ \A k \in Placed : Above(l, k) => k = x \/ Above(x, k)
            BY <1>3, <2>1, <2>3, <3>1, <4>3 DEF LadderLinks, x
          <5>2. Above(m, x)
            BY <2>1, <2>4, <5>1
          <5>3. level'[x].prev_level = m
            BY <2>2, <3>1, <5>1
          <5> QED
            BY <4>1, <4>3, <5>1, <5>2, <5>3
        <4> QED
          BY <4>2, <4>3
      <3>2. CASE m # p
        <4>1. level'[m].next_level = level[m].next_level /\ level[m].next_level # l
          BY <1>3, <2>1, <2>2, <2>3, <3>2 DEF LadderLinks, p
        <4>2. ASSUME level[m].next_level # NULL_IDX PROVE level[m].next_level # x
          BY <1>3, <2>3, <4>2 DEF LadderLinks
        <4> QED
          BY <1>3, <2>2, <4>1, <4>2 DEF LadderLinks
      <3> QED
        BY <3>1, <3>2
    <2>6. ASSUME NEW m \in Placed \ {l}
          PROVE  LET prev == level'[m].prev_level
                 IN  IF prev = NULL_IDX
                     THEN best'[LevelSide(m)] = m
                     ELSE prev \in Placed \ {l} /\ level'[prev].next_level = m
      <3>1. CASE m = x
        <4>1. level'[m].prev_level = p /\ Above(l, m)
          BY <2>2, <2>3, <3>1
        <4>2. CASE p = NULL_IDX
          <5>1. best' = [best EXCEPT ![SideAt(n)] = x] /\ LevelSide(m) = SideAt(n)
            BY <2>1, <2>2, <4>1, <4>2 DEF Above
          <5>2. DOMAIN best = Side
            BY DEF BookInv, Shape
          <5> QED
            BY <2>1, <3>1, <4>1, <4>2, <5>1, <5>2
        <4>3. CASE p # NULL_IDX
          BY <2>2, <2>3, <3>1, <4>1, <4>3
        <4> QED
          BY <4>2, <4>3
      <3>2. CASE m # x
        <4>1. level'[m].prev_level = level[m].prev_level
          BY <2>2, <3>2
        <4>2. CASE level[m].prev_level = NULL_IDX
          <5>1. best[LevelSide(m)] = m
            BY <1>3, <4>2 DEF LadderLinks
          <5>2. p = NULL_IDX => LevelSide(m) # SideAt(n)
            BY <2>3, <5>1
          <5> QED
            BY <2>2, <4>1, <4>2, <5>1, <5>2
        <4>3. CASE level[m].prev_level # NULL_IDX
          <5>1. level[m].prev_level \in Placed /\ level[level[m].prev_level].next_level = m
            BY <1>3, <4>3 DEF LadderLinks
          <5>2. level[m].prev_level # l /\ level[m].prev_level # p
            BY <2>3, <3>2, <5>1 DEF x
          <5> QED
            BY <2>2, <4>1, <4>3, <5>1, <5>2
        <4> QED
          BY <4>2, <4>3
      <3> QED
        BY <3>1, <3>2
    <2>7. LadderLinks'
      <3>1. ASSUME NEW m \in Placed', NEW next, next = level'[m].next_level
            PROVE  IF next = NULL_IDX
                   THEN \A k \in Placed' : ~Above(m, k)'
                   ELSE /\ next \in Placed'
                        /\ Above(m, next)'
                        /\ level'[next].prev_level = m
                        /\ \A k \in Placed' : Above(m, k)' => k = next \/ Above(next, k)'
        BY <1>2, <2>2, <2>5, <3>1
      <3>2. ASSUME NEW m \in Placed'
            PROVE  LET prev == level'[m].prev_level
                   IN  IF prev = NULL_IDX
                       THEN best'[LevelSide(m)'] = m
                       ELSE prev \in Placed' /\ level'[prev].next_level = m
        BY <1>1, <2>2, <2>6
      <3> QED
        BY <3>1, <3>2, SMTT(30) DEF LadderLinks, Above, LevelSide, SideAt
    <2>8. LadderTops'
      <3>1. ASSUME NEW s \in Side
            PROVE  IF best'[s] = NULL_IDX
                   THEN \A k \in Placed' : LevelSide(k)' # s
                   ELSE /\ best'[s] \in Placed'
                        /\ LevelSide(best'[s]) = s
                        /\ level'[best'[s]].prev_level = NULL_IDX
                        /\ \A k \in Placed' : LevelSide(k)' = s => k = best'[s] \/ Above(best'[s], k)
        <4>1. best \in [Side -> LevelIdx]
          BY DEF BookInv, Shape
        <4>2. CASE p = NULL_IDX /\ s = SideAt(n)
          <5>1. best'[s] = x /\ best[s] = l
            BY <2>2, <2>3, <4>1, <4>2
          <5>2. \A k \in Placed : LevelSide(k) = s => k = l \/ Above(l, k)
            BY <1>3, <2>3, <2>1, <5>1 DEF LadderTops
          <5>3. CASE x = NULL_IDX
            <6>1. \A k \in Placed : ~Above(l, k)
              BY <1>3, <2>1, <5>3 DEF LadderLinks, x
            <6> QED
              BY <1>1, <2>2, <5>1, <5>2, <5>3, <6>1
          <5>4. CASE x # NULL_IDX
            <6>1. \A k \in Placed : Above(l, k) => k = x \/ Above(x, k)
              BY <1>3, <2>1, <5>4 DEF LadderLinks, x
            <6>2. x \in Placed \ {l} /\ LevelSide(x) = s /\ level'[x].prev_level = NULL_IDX
              BY <2>1, <2>2, <2>3, <4>2, <5>4 DEF Above
            <6> QED
              BY <1>1, <2>2, <5>1, <5>2, <5>4, <6>1, <6>2
          <5> QED
            BY <5>3, <5>4
        <4>3. CASE ~(p = NULL_IDX /\ s = SideAt(n))
          <5>1. best'[s] = best[s]
            BY <2>2, <4>1, <4>3
          <5>2. best[s] # NULL_IDX => best[s] \in Placed /\ LevelSide(best[s]) = s /\ best[s] # l
            BY <1>3, <2>1, <2>3, <4>3 DEF LadderTops
          <5>3. best[s] # NULL_IDX => level'[best[s]].prev_level = NULL_IDX
            <6>1. ASSUME best[s] # NULL_IDX PROVE best[s] # x
              <7>1. level[best[s]].prev_level = NULL_IDX
                BY <1>3, <6>1 DEF LadderTops
              <7> QED
                BY <2>3, <6>1, <7>1, <2>1
            <6> QED
              BY <1>3, <2>2, <5>2, <6>1 DEF LadderTops
          <5> QED
            BY <1>1, <1>3, <2>2, <5>1, <5>2, <5>3 DEF LadderTops
        <4> QED
          BY <4>2, <4>3
      <3>2. ASSUME NEW s \in Side, best'[s] # NULL_IDX
            PROVE  LevelSide(best'[s]) = SideOf(node'[level'[best'[s]].head_order].order)
        <4>1. best'[s] \in Placed'
          BY <3>1, <3>2
        <4>2. \A k \in Placed' : LevelSide(k) = SideOf(node'[level'[k].head_order].order)
          BY <1>1 DEF LevelSide, SideAt
        <4> QED
          BY <4>1, <4>2
      <3> QED
        BY <1>1, <3>1, <3>2 DEF LadderTops, Above, LevelSide, SideAt
    <2> QED
      BY <2>7, <2>8
  <1> QED
    BY <1>4, <1>5

\* The indexes forget the order, and the level that is left empty.
LEMMA RemovedIndexes ==
  ASSUME BookInv, NEW n \in Resting, Removes(n), phase # "linking", UNCHANGED order_id_counter
  PROVE  LevelsIndexed' /\ OrdersIndexed'
  <1>1. /\ n \in OrderSlots /\ Id(n) \in 1..MaxId
        /\ LevelOf(n) \in Placed /\ LevelOf(n) \in LevelSlots /\ level[LevelOf(n)].active
        /\ level[LevelOf(n)].price = PriceOf(n)
        /\ PriceOf(n) \in Prices /\ LevelOf(n) # NULL_IDX
    BY RestingTerms, PlacedTerms, NullIsNoSlot DEF LevelOf
  <1>2. price_index \in [Prices -> LevelIdx] /\ order_index \in [1..MaxId -> FastIndexEntry \cup {None}]
    BY DEF BookInv, Shape
  <1>3. LevelsIndexed'
    <2>1. LevelsIndexed
      BY DEF BookInv
    <2>2. CASE ~Alone(n)
      <3>1. \A p \in Prices : price_index[p] # NULL_IDX => price_index[p] \in LevelSlots
        BY <1>2 DEF LevelIdx
      <3> QED
        BY <2>1, <2>2, <3>1, RemovedFromLevel DEF LevelsIndexed
    <2>3. CASE Alone(n)
      <3>1. \A p \in Prices : price_index[p] # NULL_IDX => price_index[p] \in LevelSlots
        BY <1>2 DEF LevelIdx
      <3>2. /\ \A p \in Prices \ {PriceOf(n)} : price_index'[p] = price_index[p]
            /\ price_index'[PriceOf(n)] = NULL_IDX
        BY <1>1, <1>2, <2>3, RemovedLevel
      <3>3. \A p \in Prices \ {PriceOf(n)} : price_index[p] # LevelOf(n)
        BY <1>1, <2>1 DEF LevelsIndexed
      <3>4. ~level'[LevelOf(n)].active
        BY <2>3, RemovedLevel DEF FreeLevel
      <3>5. \A l \in LevelSlots \ {LevelOf(n)} :
              /\ level'[l].active = level[l].active
              /\ level'[l].price = level[l].price
              /\ level[l].active => level[l].price # PriceOf(n)
        BY <1>1, <2>1, <2>3, RemovedLevel DEF LevelsIndexed, LevelOf
      <3>6. \A p \in Prices : price_index'[p] # NULL_IDX =>
              level'[price_index'[p]].active /\ level'[price_index'[p]].price = p
        <4> SUFFICES ASSUME NEW p \in Prices, price_index'[p] # NULL_IDX
                     PROVE  level'[price_index'[p]].active /\ level'[price_index'[p]].price = p
          OBVIOUS
        <4>1. p # PriceOf(n)
          BY ONLY <3>2, price_index'[p] # NULL_IDX, p \in Prices, Zenon
        <4>2. price_index'[p] = price_index[p] /\ price_index[p] # LevelOf(n)
          BY <3>2, <3>3, <4>1
        <4>3. price_index[p] \in LevelSlots \ {LevelOf(n)}
          BY <3>1, <4>2
        <4>4. level[price_index[p]].active /\ level[price_index[p]].price = p
          BY <2>1, <4>2 DEF LevelsIndexed
        <4> QED
          BY <3>5, <4>2, <4>3, <4>4
      <3>7. \A l \in LevelSlots : level'[l].active =>
              level'[l].price \in Prices /\ price_index'[level'[l].price] = l
        <4> SUFFICES ASSUME NEW l \in LevelSlots, level'[l].active
                     PROVE  level'[l].price \in Prices /\ price_index'[level'[l].price] = l
          OBVIOUS
        <4>1. l # LevelOf(n)
          BY <3>4
        <4>2. level[l].active /\ level'[l].price = level[l].price /\ level[l].price # PriceOf(n)
          BY <3>5, <4>1
        <4>3. level[l].price \in Prices /\ price_index[level[l].price] = l
          BY <2>1, <4>2 DEF LevelsIndexed
        <4> QED
          BY <3>2, <4>2, <4>3
      <3> QED
        BY <3>6, <3>7 DEF LevelsIndexed
    <2> QED
      BY <2>2, <2>3
  <1>4. OrdersIndexed'
    <2>1. \A m \in OrderSlots : node'[m].active => node'[m].order \in Order
      BY <1>1, RemovedNodes DEF FreeNode, BookInv, OrdersIndexed
    <2>2. \A id \in 1..MaxId : order_index'[id] = IF id = Id(n) THEN None ELSE order_index[id]
      BY <1>2 DEF Removes
    <2>3. ASSUME NEW id \in 1..MaxId, order_index[id] # None, id # Id(n)
          PROVE  /\ order_index[id].node_idx \in OrderSlots \ {n}
                 /\ node'[order_index[id].node_idx].order = node[order_index[id].node_idx].order
                 /\ node'[order_index[id].node_idx].active = node[order_index[id].node_idx].active
      <3>1. order_index[id] \in FastIndexEntry
        BY <1>2, <2>3
      <3>2. order_index[id].node_idx \in OrderSlots
        BY <3>1 DEF FastIndexEntry
      <3>3. order_index[id].node_idx # n
        BY <2>3 DEF BookInv, OrdersIndexed
      <3> QED
        BY <3>2, <3>3, RemovedNodes
    <2>4. \A id \in 1..MaxId :
            order_index'[id] # None =>
              LET e == order_index'[id]
                  m == e.node_idx
              IN  /\ node'[m].active
                  /\ node'[m].order.id = id
                  /\ node'[m].order.price = e.price
                  /\ node'[m].order.side = e.side
                  /\ node'[m].order.user_id = e.user_id
                  /\ node'[m].order.client_order_id = e.client_order_id
      BY <2>2, <2>3 DEF BookInv, OrdersIndexed, Id, PriceOf, SideAt
    <2>5. ASSUME NEW m \in Resting'
          PROVE  /\ node'[m].order.qty > 0
                 /\ node'[m].order.id < order_id_counter'
                 /\ price_index'[node'[m].order.price] \in Placed'
      <3>1. m \in Resting /\ m # n /\ node'[m].order = node[m].order
        BY RemovedNodes, RestingTerms
      <3>2. /\ node[m].order.qty > 0 /\ node[m].order.id < order_id_counter
            /\ price_index[PriceOf(m)] \in Placed /\ PriceOf(m) \in Prices
        BY <3>1, RestingTerms DEF Id
      <3>3. price_index'[PriceOf(m)] \in Placed'
        <4>1. CASE ~Alone(n)
          BY <3>2, <4>1, RemovedFromLevel
        <4>2. CASE Alone(n)
          <5>1. PriceOf(m) # PriceOf(n)
            BY <3>1, <4>2, RemovedOrdersAlone
          <5>2. price_index'[PriceOf(m)] = price_index[PriceOf(m)]
            BY <1>2, <3>2, <4>2, <5>1, RemovedLevel
          <5>3. price_index[PriceOf(m)] # LevelOf(n)
            BY <1>1, <3>1, <5>1, RestingTerms
          <5> QED
            BY <3>2, <4>2, <5>2, <5>3, RemovedLevel
        <4> QED
          BY <4>1, <4>2
      <3> QED
        BY <3>1, <3>2, <3>3 DEF PriceOf
    <2> QED
      BY <2>1, <2>4, <2>5 DEF OrdersIndexed, Id, PriceOf, SideAt
  <1> QED
    BY <1>3, <1>4

\* The slots given back are in front of their free lists.
LEMMA RemovedFree ==
  ASSUME BookInv, NEW n \in Resting, Removes(n), phase # "linking"
  PROVE  FreeOrders' /\ FreeLevels'
  <1>1. FreeOrders'
    <2> DEFINE S == {m \in OrderSlots : ~node[m].active}
               S2 == {m \in OrderSlots : ~node'[m].active}
    <2>1. PICK After \in SUBSET (OrderSlots \X OrderSlots) : IsChain(order_free, NextOrder, S, After)
      BY DEF BookInv, FreeOrders
    <2>2. /\ n \in OrderSlots /\ n # NULL_IDX /\ n \notin S
          /\ node'[n].next = order_free /\ ~node'[n].active /\ order_free' = n
      BY RemovedNodes, RestingTerms DEF FreeNode
    <2>3. ASSUME NEW m \in S PROVE node'[m].next = node[m].next
      <3>1. m # node[n].prev /\ m # n /\ m \in OrderSlots
        BY <2>2, <2>3, Neighbours, RestingTerms, NullIsNoSlot
      <3> QED
        BY <3>1, RemovedNodes
    <2>4. S2 = S \cup {n}
      BY <2>2, RemovedNodes
    <2>5. NextOrder'[n] = order_free /\ \A m \in S : NextOrder'[m] = NextOrder[m]
      BY <2>2, <2>3 DEF NextOrder
    <2> HIDE DEF S, S2
    <2>6. NULL_IDX \notin S /\ S \subseteq OrderSlots
      BY NullIsNoSlot DEF S
    <2>7. IsChain(n, NextOrder', S \cup {n}, After \cup ({n} \X S))
      BY <2>1, <2>2, <2>5, <2>6, ChainPush
    <2>8. After \cup ({n} \X S) \in SUBSET (OrderSlots \X OrderSlots)
      BY <2>2, <2>6
    <2> QED
      BY <2>2, <2>4, <2>7, <2>8 DEF FreeOrders, S2
  <1>2. FreeLevels'
    <2> DEFINE S == {l \in LevelSlots : ~level[l].active}
               S2 == {l \in LevelSlots : ~level'[l].active}
               l == LevelOf(n)
    <2>1. PICK After \in SUBSET (LevelSlots \X LevelSlots) : IsChain(level_free, NextFreeLevel, S, After)
      BY DEF BookInv, FreeLevels
    <2>2. CASE ~Alone(n)
      <3>1. S2 = S /\ level_free' = level_free /\ \A k \in S : NextFreeLevel'[k] = NextFreeLevel[k]
        BY <2>2, RemovedFromLevel DEF NextFreeLevel
      <3> HIDE DEF S, S2
      <3>2. IsChain(level_free, NextFreeLevel', S, After)
        BY <2>1, <3>1, ChainFrame
      <3> QED
        BY <3>1, <3>2 DEF FreeLevels, S2
    <2>3. CASE Alone(n)
      <3>1. l \in LevelSlots /\ l # NULL_IDX /\ l \notin S
        BY RestingTerms, PlacedTerms, NullIsNoSlot DEF LevelOf
      <3>2. level'[l].next_free = level_free /\ ~level'[l].active /\ level_free' = l
        BY <2>3, RemovedLevel DEF FreeLevel
      <3>3. S2 = S \cup {l} /\ \A k \in S : level'[k].next_free = level[k].next_free
        BY <2>3, <3>1, <3>2, RemovedLevel
      <3>4. NextFreeLevel'[l] = level_free /\ \A k \in S : NextFreeLevel'[k] = NextFreeLevel[k]
        BY <3>1, <3>2, <3>3 DEF NextFreeLevel
      <3> HIDE DEF S, S2, l
      <3>5. NULL_IDX \notin S /\ S \subseteq LevelSlots
        BY NullIsNoSlot DEF S
      <3>6. IsChain(l, NextFreeLevel', S \cup {l}, After \cup ({l} \X S))
        BY <2>1, <3>1, <3>4, <3>5, ChainPush
      <3>7. After \cup ({l} \X S) \in SUBSET (LevelSlots \X LevelSlots)
        BY <3>1, <3>5
      <3> QED
        BY <3>2, <3>3, <3>6, <3>7 DEF FreeLevels, S2
    <2> QED
      BY <2>2, <2>3
  <1> QED
    BY <1>1, <1>2

\* An order that leaves the book leaves its structure intact (pop_order and
\* unlink_order).
LEMMA RemovalKeepsStructure ==
  ASSUME BookInv, NEW n \in Resting, Removes(n), phase # "linking", UNCHANGED order_id_counter
  PROVE  Structure' /\ OrdersIndexed' /\ Resting' = Resting \ {n}
  BY RemovedNodes, RemovedQueues, RemovedLadders, RemovedIndexes, RemovedFree DEF Structure

\* The types of what a removal changes in the arenas.
LEMMA RemovalKeepsShape ==
  ASSUME BookInv, NEW n \in Resting, Removes(n), phase # "linking"
  PROVE  /\ node' \in [OrderSlots -> OrderNode]
         /\ order_free' \in OrderIdx
         /\ level' \in [LevelSlots -> LooseLevel]
         /\ level_free' \in LevelIdx
         /\ best' \in [Side -> LevelIdx]
         /\ price_index' \in [Prices -> LevelIdx]
         /\ order_index' \in [1..MaxId -> FastIndexEntry \cup {None}]
  <1>1. Shape
    BY DEF BookInv
  <1>2. node' \in [OrderSlots -> OrderNode] /\ order_free' \in OrderIdx
    BY RemovedNodes DEF OrderIdx
  <1>3. order_index' \in [1..MaxId -> FastIndexEntry \cup {None}]
    BY <1>1 DEF Shape, Removes
  <1>4. LevelOf(n) \in LevelSlots /\ NULL_IDX \in LevelIdx
    BY RestingTerms, PlacedTerms DEF LevelOf, LevelIdx
  <1>5. level[LevelOf(n)].next_level \in LevelIdx
    BY <1>1, <1>4 DEF Shape, LooseLevel
  <1>6. CASE ~Alone(n)
    BY <1>1, <1>2, <1>3, <1>6, RemovedFromLevel DEF Shape
  <1>7. CASE Alone(n)
    <2>1. level' \in [LevelSlots -> LooseLevel] /\ level_free' \in LevelIdx
      BY <1>4, <1>7, RemovedLevel DEF LevelIdx
    <2>2. best' \in [Side -> LevelIdx] /\ price_index' \in [Prices -> LevelIdx]
      <3>1. best \in [Side -> LevelIdx] /\ price_index \in [Prices -> LevelIdx]
        BY <1>1 DEF Shape
      <3>2. best' = best \/ best' = [best EXCEPT ![SideAt(n)] = level[LevelOf(n)].next_level]
        BY <1>7, RemovedLevel
      <3>3. price_index' = [price_index EXCEPT ![PriceOf(n)] = NULL_IDX]
        BY <1>7, RemovedLevel
      <3> QED
        BY <1>4, <1>5, <3>1, <3>2, <3>3
    <2> QED
      BY <1>2, <1>3, <2>1, <2>2
  <1> QED
    BY <1>6, <1>7

\* The maker is filled and leaves.
LEMMA BookFillWhole ==
  ASSUME BookInv, FillWhole
  PROVE  BookInv' /\ Removes(HeadOrder)
  <1>1. phase = "matching" /\ LoopGoesOn /\ Maker.qty <= order.qty
    BY DEF FillWhole, CanMatch
  <1>2. /\ order \in Order /\ order.qty \in 1..MaxQty
        /\ BestLevel \in Placed /\ BestLevel \in LevelSlots /\ LevelSide(BestLevel) = Opposite
        /\ HeadOrder \in Resting /\ HeadOrder \in OrderSlots
        /\ Maker \in Order /\ Maker.qty \in 1..MaxQty
        /\ Maker.price = level[BestLevel].price /\ SideOf(Maker) = Opposite
    BY <1>1, MakerTerms
  <1>3. /\ LevelOf(HeadOrder) = BestLevel /\ SideAt(HeadOrder) = Opposite /\ Id(HeadOrder) = Maker.id
        /\ node[HeadOrder].prev = NULL_IDX
    BY <1>2, PlacedTerms DEF LevelOf, PriceOf, SideAt, Id, Maker, BookInv, QueueEnds, HeadOrder
  <1>4. NodesAfterPop(BestLevel) = NodesAfterUnlink(HeadOrder)
    BY <1>3, NullIsNoSlot DEF NodesAfterPop, NodesAfterUnlink, HeadOrder
  <1>5. LevelAfterPop(BestLevel, Maker.qty) = LevelAfterUnlink(BestLevel, HeadOrder)
    BY <1>3 DEF LevelAfterPop, LevelAfterUnlink, HeadOrder, Maker
  <1>6. Removes(HeadOrder) /\ UNCHANGED order_id_counter
    BY <1>2, <1>3, <1>4, <1>5 DEF FillWhole, Removes, Forget, Executed, locals
  <1>7. Structure' /\ OrdersIndexed' /\ Resting' = Resting \ {HeadOrder}
    BY <1>1, <1>2, <1>6, RemovalKeepsStructure
  <1>8. order' \in Order /\ order'.qty = order.qty - Maker.qty /\ order'.id = order.id
        /\ order'.order_type = order.order_type /\ order'.side = order.side /\ order'.price = order.price
    <2>1. order' = [order EXCEPT !.qty = @ - Maker.qty] /\ Maker.qty \in Nat
      BY <1>2 DEF FillWhole, Executed
    <2> QED
      BY <1>1, <1>2, <2>1, RemainderIsOrder
  <1>9. trades' \in Seq(Trade)
    BY <1>2, TradeIsTyped DEF FillWhole, Executed, BookInv, Shape
  <1>10. client_order_index' \in [Users \X ClientIds -> 0..MaxId]
    <2>1. 0 \in 0..MaxId
      OBVIOUS
    <2> QED
      BY <2>1 DEF BookInv, Shape, FillWhole, Forget
  <1>11. Shape'
    BY <1>1, <1>2, <1>6, <1>8, <1>9, <1>10, RemovalKeepsShape DEF BookInv, Shape, FillWhole, Executed, locals
  <1>12. /\ phase' = "matching" /\ UNCHANGED <<order_id_counter, original_qty, result, locals>>
    BY <1>1 DEF FillWhole, Executed
  <1>13. InHand'
    <2>1. \A m \in Resting' : node'[m].order = node[m].order /\ m \in Resting
      BY <1>2, <1>6, <1>7, RemovedNodes, RestingTerms
    <2>2. /\ order.qty <= original_qty /\ order.id < order_id_counter /\ original_qty \in Nat
          /\ \A m \in Resting : Id(m) < order.id
      BY <1>1 DEF BookInv, InHand, Shape
    <2>3. order'.qty <= original_qty
      BY <1>1, <1>2, <1>8, <2>2
    <2>4. \A m \in Resting' : Id(m)' < order'.id
      BY <1>8, <2>1, <2>2 DEF Id
    <2> QED
      BY <1>8, <1>12, <2>2, <2>3, <2>4 DEF InHand
  <1>14. Linking' /\ RefusedBeforeTrading'
    BY <1>1, <1>12 DEF BookInv, Linking, RefusedBeforeTrading, locals
  <1>15. Room'
    <2>1. order_free' # NULL_IDX
      BY <1>2, <1>6, RemovedNodes
    <2>2. CASE Alone(HeadOrder)
      <3>1. level_free' # NULL_IDX
        BY <1>1, <1>2, <1>3, <1>6, <2>2, RemovedLevel, NullIsNoSlot
      <3> QED
        BY <2>1, <3>1 DEF Room
    <2>3. CASE ~Alone(HeadOrder)
      <3>1. UNCHANGED best /\ level'[BestLevel].price = level[BestLevel].price
        BY <1>2, <1>6, <2>3, RemovedFromLevel
      <3>2. best'[OtherSide(SideOf(order'))] = BestLevel
        BY <1>8, <3>1 DEF BestLevel, Opposite, SideOf
      <3>3. order'.qty > 0 => LoopGoesOn'
        BY <1>1, <1>8, <3>1, <3>2 DEF LoopGoesOn, BestLevel, Opposite, Crosses, HasBoundary, SideOf
      <3> QED
        BY <2>1, <3>3 DEF Room
    <2> QED
      BY <2>2, <2>3
  <1> QED
    BY <1>6, <1>7, <1>11, <1>13, <1>14, <1>15 DEF BookInv, Structure

\* The reference a cancellation found names an order where the entry says.
LEMMA FoundTerms ==
  ASSUME BookInv, NEW id \in 1..MaxId, order_index[id] # None
  PROVE  LET e == order_index[id]
         IN  /\ e.node_idx \in Resting /\ Id(e.node_idx) = id
             /\ PriceOf(e.node_idx) = e.price /\ node[e.node_idx].order.side = e.side
             /\ node[e.node_idx].order.user_id = e.user_id
             /\ node[e.node_idx].order.client_order_id = e.client_order_id
             /\ ~Stale(id)
  <1>1. order_index[id] \in FastIndexEntry
    BY DEF BookInv, Shape
  <1>2. order_index[id].node_idx \in OrderSlots
    BY <1>1 DEF FastIndexEntry
  <1> QED
    BY <1>2 DEF BookInv, OrdersIndexed, Resting, Stale, Id

\* A reference that is found is a resting order's id.
LEMMA ResolvedTerms ==
  ASSUME BookInv, NEW user \in Users, NEW ref \in (1..MaxId) \cup ClientIds, Found(Resolved(user, ref))
  PROVE  Resolved(user, ref) \in 1..MaxId /\ order_index[Resolved(user, ref)] # None
  <1>1. \A k \in ClientIds : client_order_index[<<user, k>>] \in 0..MaxId
    BY DEF BookInv, Shape
  <1> QED
    BY <1>1 DEF Resolved, Found

\* A cancelled order leaves, wherever it is in its queue.
LEMMA BookCancelOrder ==
  ASSUME BookInv, NEW user \in Users, NEW ref \in (1..MaxId) \cup ClientIds, CancelOrder(user, ref)
  PROVE  LET n == order_index[Resolved(user, ref)].node_idx
         IN  BookInv' /\ Removes(n) /\ RemoveOrder(Resolved(user, ref))
  <1> DEFINE id == Resolved(user, ref)
             n == order_index[id].node_idx
  <1>1. phase = "idle" /\ id \in 1..MaxId /\ order_index[id] # None
    BY ResolvedTerms DEF CancelOrder
  <1>2. /\ n \in Resting /\ Id(n) = id
        /\ PriceOf(n) = order_index[id].price /\ node[n].order.side = order_index[id].side
        /\ ~Stale(id)
    BY <1>1, FoundTerms
  <1>3. RemoveOrder(id)
    BY <1>2 DEF CancelOrder
  <1>4. LevelOf(n) = price_index[order_index[id].price] /\ LevelOf(n) # NULL_IDX
    BY <1>2, RestingTerms, PlacedTerms, NullIsNoSlot DEF LevelOf
  <1> HIDE DEF id
  <1>5. Removes(n) /\ UNCHANGED order_id_counter
    BY <1>2, <1>3, <1>4 DEF RemoveOrder, Removes, Forget, CancelAnswer, SideAt, SideOf, locals
  <1>6. Structure' /\ OrdersIndexed' /\ Resting' = Resting \ {n}
    BY <1>1, <1>2, <1>5, RemovalKeepsStructure
  <1>7. node[n].order \in Order /\ node[n].order.qty \in 0..MaxQty
    BY <1>2, RestingTerms
  <1>8. /\ phase' = "cancelled" /\ order' = node[n].order /\ result' \in Result
        /\ UNCHANGED <<order_id_counter, original_qty, trades, locals>>
    <2>1. 0 \in 0..MaxQty
      OBVIOUS
    <2>2. result' = Ok(0, node[n].order.qty, FALSE)
      BY <1>3 DEF RemoveOrder, CancelAnswer
    <2>3. result' \in Result
      BY <1>7, <2>1, <2>2, OkIsResult
    <2> QED
      BY <1>3, <2>3 DEF RemoveOrder, CancelAnswer
  <1>9. client_order_index' \in [Users \X ClientIds -> 0..MaxId]
    <2>1. 0 \in 0..MaxId
      OBVIOUS
    <2> QED
      BY <1>3, <2>1 DEF BookInv, Shape, RemoveOrder, Forget
  <1>10. Shape'
    BY <1>1, <1>2, <1>5, <1>7, <1>8, <1>9, RemovalKeepsShape DEF BookInv, Shape, locals
  <1>11. InHand' /\ Linking' /\ Room' /\ RefusedBeforeTrading'
    BY <1>1, <1>8 DEF BookInv, InHand, Linking, Room, RefusedBeforeTrading, locals
  <1>12. BookInv'
    BY <1>6, <1>10, <1>11 DEF BookInv, Structure
  <1> QED
    BY <1>3, <1>5, <1>12 DEF id

-----------------------------------------------------------------------------
(* The resting branch. *)

\* Opposite orders that the loop has not reached do not cross either.
LEMMA NothingCrosses ==
  ASSUME BookInv, order \in Order, order.qty > 0, ~LoopGoesOn,
         NEW l \in Placed, LevelSide(l) = Opposite
  PROVE  ~Crosses(order, level[l].price)
  <1>1. Opposite \in Side /\ order.price \in Nat
    BY OrderTerms DEF Opposite, OtherSide, Side
  <1>2. BestLevel # NULL_IDX /\ (l = BestLevel \/ Above(BestLevel, l)) /\ LevelSide(BestLevel) = Opposite
    BY <1>1 DEF BookInv, LadderTops, BestLevel
  <1>3. BestLevel \in Placed /\ ~Crosses(order, level[BestLevel].price)
    BY <1>1, <1>2, BestTerms DEF LoopGoesOn, BestLevel
  <1>4. level[l].price \in Nat /\ level[BestLevel].price \in Nat
    BY <1>3, PlacedTerms
  <1>5. CASE SideOf(order) = "Buy"
    BY <1>1, <1>2, <1>3, <1>4, <1>5 DEF Crosses, Above, BetterPrice, Opposite, OtherSide
  <1>6. CASE SideOf(order) # "Buy"
    BY <1>1, <1>2, <1>3, <1>4, <1>6 DEF Crosses, Above, BetterPrice, Opposite, OtherSide
  <1> QED
    BY <1>5, <1>6

\* The order in hand is new to the index.
LEMMA OrderIsNew ==
  ASSUME BookInv, phase \in {"matching", "linking"}
  PROVE  /\ order \in Order /\ order.id \in 1..MaxId /\ order_index[order.id] = None
         /\ \A m \in Resting : Id(m) < order.id
  <1>1. order \in Order /\ order.id \in 1..MaxId /\ \A m \in Resting : Id(m) < order.id
    BY OrderTerms DEF BookInv, InHand
  <1>2. ASSUME order_index[order.id] # None PROVE FALSE
    <2>1. order_index[order.id].node_idx \in Resting /\ Id(order_index[order.id].node_idx) = order.id
      BY <1>1, <1>2, FoundTerms
    <2> QED
      BY <1>1, <2>1
  <1> QED
    BY <1>1, <1>2

\* A slot is taken from the arena.
LEMMA Allocated ==
  ASSUME BookInv, order_free # NULL_IDX
  PROVE  /\ order_free \in OrderSlots /\ ~node[order_free].active /\ order_free \notin Resting
         /\ \A m \in OrderSlots :
              NodesAfterAllocate[m] =
                IF m = order_free
                THEN [order |-> order, active |-> TRUE, prev |-> NULL_IDX, next |-> NULL_IDX]
                ELSE node[m]
         /\ order \in Order => NodesAfterAllocate \in [OrderSlots -> OrderNode]
         /\ node[order_free].next \in OrderIdx
  <1>1. node \in [OrderSlots -> OrderNode] /\ order_free \in OrderSlots
    BY DEF BookInv, Shape, OrderIdx
  <1>2. ~node[order_free].active
    BY DEF BookInv, FreeOrders, IsChain
  <1>3. \A m \in OrderSlots :
          NodesAfterAllocate[m] =
            IF m = order_free
            THEN [order |-> order, active |-> TRUE, prev |-> NULL_IDX, next |-> NULL_IDX]
            ELSE node[m]
    BY <1>1 DEF NodesAfterAllocate
  <1>4. order \in Order => NodesAfterAllocate \in [OrderSlots -> OrderNode]
    BY <1>1 DEF NodesAfterAllocate, OrderNode, OrderIdx
  <1> QED
    BY <1>1, <1>2, <1>3, <1>4 DEF Resting, OrderNode

\* A slot taken for an order leaves a chain of free ones.
LEMMA AllocatedFree ==
  ASSUME BookInv, order_free # NULL_IDX, order_free' = node[order_free].next,
         \A m \in OrderSlots :
           /\ node'[m].active <=> (m = order_free \/ node[m].active)
           /\ ~node[m].active /\ m # order_free => node'[m].next = node[m].next
  PROVE  FreeOrders'
  <1> DEFINE S == {m \in OrderSlots : ~node[m].active}
             S2 == {m \in OrderSlots : ~node'[m].active}
  <1>1. PICK After \in SUBSET (OrderSlots \X OrderSlots) : IsChain(order_free, NextOrder, S, After)
    BY DEF BookInv, FreeOrders
  <1>2. S2 = S \ {order_free} /\ \A m \in S \ {order_free} : NextOrder'[m] = NextOrder[m]
    BY DEF NextOrder
  <1>3. NextOrder[order_free] = node[order_free].next
    BY Allocated DEF NextOrder
  <1> HIDE DEF S, S2
  <1>4. NULL_IDX \notin S
    BY NullIsNoSlot DEF S
  <1>5. IsChain(NextOrder[order_free], NextOrder', S \ {order_free},
                After \cap ((S \ {order_free}) \X (S \ {order_free})))
    BY <1>1, <1>2, <1>4, ChainPop
  <1>6. After \cap ((S \ {order_free}) \X (S \ {order_free})) \in SUBSET (OrderSlots \X OrderSlots)
    BY <1>1
  <1> QED
    BY <1>2, <1>3, <1>5, <1>6 DEF FreeOrders, S2

\* A slot taken for a level leaves a chain of free ones.
LEMMA LevelsAllocatedFree ==
  ASSUME BookInv, level_free # NULL_IDX, level_free' = level[level_free].next_free,
         \A l \in LevelSlots :
           /\ level'[l].active <=> (l = level_free \/ level[l].active)
           /\ ~level[l].active /\ l # level_free => level'[l].next_free = level[l].next_free
  PROVE  FreeLevels' /\ level_free \in LevelSlots /\ ~level[level_free].active
  <1> DEFINE S == {m \in LevelSlots : ~level[m].active}
             S2 == {m \in LevelSlots : ~level'[m].active}
  <1>1. PICK After \in SUBSET (LevelSlots \X LevelSlots) : IsChain(level_free, NextFreeLevel, S, After)
    BY DEF BookInv, FreeLevels
  <1>2. S2 = S \ {level_free} /\ \A m \in S \ {level_free} : NextFreeLevel'[m] = NextFreeLevel[m]
    BY DEF NextFreeLevel
  <1>3. level_free \in S /\ NextFreeLevel[level_free] = level[level_free].next_free
    BY <1>1 DEF NextFreeLevel, IsChain
  <1>4. level_free \in LevelSlots /\ ~level[level_free].active
    BY <1>3
  <1> HIDE DEF S, S2
  <1>5. NULL_IDX \notin S
    BY NullIsNoSlot DEF S
  <1>6. IsChain(NextFreeLevel[level_free], NextFreeLevel', S \ {level_free},
                After \cap ((S \ {level_free}) \X (S \ {level_free})))
    BY <1>1, <1>2, <1>5, ChainPop
  <1>7. After \cap ((S \ {level_free}) \X (S \ {level_free})) \in SUBSET (LevelSlots \X LevelSlots)
    BY <1>1
  <1> QED
    BY <1>2, <1>3, <1>4, <1>6, <1>7 DEF FreeLevels, S2

\* The slots of the orders and levels on the book are as they were.
LEMMA BookFrame ==
  ASSUME BookInv, Resting' = Resting, Placed' = Placed, best' = best,
         \A m \in Resting : node'[m] = node[m] /\ price_index'[PriceOf(m)] = price_index[PriceOf(m)],
         \A l \in Placed : level'[l] = level[l]
  PROVE  OneSideAPrice' /\ QueueLinks' /\ QueueEnds' /\ LadderLinks' /\ LadderTops'
  <1>1. OneSideAPrice'
    BY DEF BookInv, OneSideAPrice, PriceOf, SideAt
  <1>2. \A m \in Resting : price_index[PriceOf(m)] \in Placed
    BY RestingTerms
  <1>3. QueueLinks'
    BY <1>2 DEF BookInv, QueueLinks, Ahead, PriceOf, Id
  <1>4. QueueEnds'
    BY DEF BookInv, QueueEnds, Ahead, PriceOf, Id
  <1>5. \A l \in Placed : LevelSide(l)' = LevelSide(l)
    BY PlacedTerms DEF LevelSide, SideAt
  <1>6. LadderLinks'
    BY <1>5 DEF BookInv, LadderLinks, Above
  <1>7. LadderTops'
    BY <1>5 DEF BookInv, LadderTops, Above
  <1> QED
    BY <1>1, <1>3, <1>4, <1>6, <1>7

\* The level arena is full: the order's slot stays allocated, and no pointer
\* leads to it.
LEMMA BookRestNoLevelSlot ==
  ASSUME BookInv, RestNoLevelSlot
  PROVE  BookInv'
  <1>1. /\ phase = "matching" /\ phase' = "done" /\ order.qty > 0
        /\ order_free # NULL_IDX /\ node' = NodesAfterAllocate /\ order_free' = node[order_free].next
        /\ level_free = NULL_IDX /\ ~LoopGoesOn
        /\ result' = Err("EngineFull")
        /\ UNCHANGED <<level, level_free, best, price_index, indexes, locals,
                       order_id_counter, order, original_qty, trades>>
    BY DEF RestNoLevelSlot, MustRest, MatchingOver, Answer
  <1>2. order \in Order /\ order_index[order.id] = None
    BY <1>1, OrderIsNew
  <1>3. /\ \A m \in OrderSlots :
              node'[m] = IF m = order_free
                         THEN [order |-> order, active |-> TRUE, prev |-> NULL_IDX, next |-> NULL_IDX]
                         ELSE node[m]
        /\ order_free \in OrderSlots /\ ~node[order_free].active /\ order_free \notin Resting
        /\ node' \in [OrderSlots -> OrderNode] /\ order_free' \in OrderIdx
    BY <1>1, <1>2, Allocated
  <1>4. Resting' = Resting /\ Placed' = Placed
    BY <1>1, <1>2, <1>3 DEF Resting, Placed, Id, indexes, locals
  <1>5. \A m \in Resting : m \in OrderSlots /\ node'[m] = node[m]
    BY <1>3, RestingTerms
  <1>6. OneSideAPrice' /\ QueueLinks' /\ QueueEnds' /\ LadderLinks' /\ LadderTops'
    BY <1>1, <1>4, <1>5, BookFrame
  <1>7. FreeOrders'
    BY <1>1, <1>3, AllocatedFree
  <1>8. FreeLevels' /\ LevelsIndexed'
    BY <1>1 DEF BookInv, FreeLevels, NextFreeLevel, LevelsIndexed
  <1>9. result' \in Result /\ result'.error = "EngineFull"
    BY <1>1, ErrIsResult
  <1>10. Shape'
    BY <1>1, <1>3, <1>9 DEF BookInv, Shape, indexes, locals
  <1>11. InHand' /\ Linking' /\ Room'
    BY <1>1, <1>4, <1>5 DEF BookInv, InHand, Linking, Room, locals
  <1>12. RefusedBeforeTrading'
    BY <1>1 DEF BookInv, Room, RefusedBeforeTrading
  <1>13. OrdersIndexed'
    <2>1. \A id \in 1..MaxId : order_index[id] # None =>
            order_index[id].node_idx \in Resting
      BY FoundTerms
    <2>2. \A m \in OrderSlots : node'[m].active => node'[m].order \in Order
      BY <1>2, <1>3 DEF BookInv, OrdersIndexed
    <2> QED
      BY <1>1, <1>4, <1>5, <2>1, <2>2 DEF BookInv, OrdersIndexed, Id, PriceOf, SideAt, indexes
  <1> QED
    BY <1>6, <1>7, <1>8, <1>10, <1>11, <1>12, <1>13 DEF BookInv

\* A level is allocated and indexed by its price; it is not in a ladder yet.
LEMMA BookOpenLevel ==
  ASSUME BookInv, OpenLevel
  PROVE  BookInv' /\ Resting' = Resting /\ \A m \in Resting : node'[m] = node[m]
  <1>1. /\ phase = "matching" /\ phase' = "linking" /\ order.qty > 0 /\ order.order_type = "Limit"
        /\ order_free # NULL_IDX /\ node' = NodesAfterAllocate /\ order_free' = node[order_free].next
        /\ level_free # NULL_IDX /\ ~LoopGoesOn /\ price_index[order.price] = NULL_IDX
        /\ level' = [level EXCEPT ![level_free] =
                       [FreeLevel(NULL_IDX) EXCEPT !.price = order.price, !.active = TRUE]]
        /\ level_free' = level[level_free].next_free
        /\ price_index' = [price_index EXCEPT ![order.price] = level_free]
        /\ node_idx' = order_free /\ level_idx' = level_free /\ curr' = best[SideOf(order)]
        /\ UNCHANGED <<best, indexes, order_id_counter, order, original_qty, trades, result>>
    BY DEF OpenLevel, MustRest, MatchingOver
  <1>2. /\ order \in Order /\ order_index[order.id] = None
        /\ order.price \in Prices /\ order.price \in Nat /\ SideOf(order) \in Side
    BY <1>1, OrderIsNew, OrderTerms
  <1>3. /\ \A m \in OrderSlots :
              node'[m] = IF m = order_free
                         THEN [order |-> order, active |-> TRUE, prev |-> NULL_IDX, next |-> NULL_IDX]
                         ELSE node[m]
        /\ order_free \in OrderSlots /\ ~node[order_free].active /\ order_free \notin Resting
        /\ node' \in [OrderSlots -> OrderNode] /\ order_free' \in OrderIdx
    BY <1>1, <1>2, Allocated
  <1>4. level_free \in LevelSlots /\ level \in [LevelSlots -> LooseLevel] /\ level_idx = NULL_IDX
    BY <1>1 DEF BookInv, Shape, LevelIdx, Linking
  <1> DEFINE new == [FreeLevel(NULL_IDX) EXCEPT !.price = order.price, !.active = TRUE]
  <1>5. new \in LooseLevel /\ new.price = order.price /\ new.active
    <2>1. NULL_IDX \in LevelIdx /\ NULL_IDX \in OrderIdx /\ 0 \in Int /\ order.price \in Prices \cup {0}
      BY <1>2 DEF LevelIdx, OrderIdx
    <2>2. FreeLevel(NULL_IDX) \in LooseLevel
      <3>1. 0 \in Prices \cup {0} /\ FALSE \in BOOLEAN
        OBVIOUS
      <3> QED
        BY <2>1, <3>1 DEF FreeLevel, LooseLevel
    <2> QED
      BY <2>1, <2>2 DEF LooseLevel
  <1> HIDE DEF new
  <1>6. \A l \in LevelSlots : level'[l] = IF l = level_free THEN new ELSE level[l]
    BY <1>1, <1>4 DEF new
  <1>7. FreeLevels' /\ ~level[level_free].active
    <2>1. \A l \in LevelSlots :
           /\ level'[l].active <=> (l = level_free \/ level[l].active)
           /\ ~level[l].active /\ l # level_free => level'[l].next_free = level[l].next_free
      BY <1>5, <1>6
    <2> QED
      BY <1>1, <2>1, LevelsAllocatedFree
  <1>8. Resting' = Resting /\ \A m \in Resting : m \in OrderSlots /\ node'[m] = node[m]
    BY <1>1, <1>2, <1>3, RestingTerms, SMTT(30) DEF Resting, Id, indexes
  <1>9. Placed' = Placed /\ \A l \in Placed : level'[l] = level[l] /\ l \in LevelSlots /\ l # level_free
    BY <1>1, <1>4, <1>5, <1>6, <1>7, NullIsNoSlot DEF Placed
  <1>10. \A m \in Resting : PriceOf(m) # order.price /\ price_index'[PriceOf(m)] = price_index[PriceOf(m)]
    BY <1>1, RestingTerms, PlacedTerms, NullIsNoSlot
  <1>11. OneSideAPrice' /\ QueueLinks' /\ QueueEnds' /\ LadderLinks' /\ LadderTops'
    BY <1>1, <1>8, <1>9, <1>10, BookFrame
  <1>12. FreeOrders'
    BY <1>1, <1>3, AllocatedFree
  <1>13. LevelsIndexed'
    <2>1. /\ price_index \in [Prices -> LevelIdx]
          /\ \A p \in Prices : price_index[p] # NULL_IDX => price_index[p] \in LevelSlots /\ price_index[p] # level_free
      BY <1>7 DEF BookInv, Shape, LevelIdx, LevelsIndexed
    <2>2. \A p \in Prices : price_index'[p] = IF p = order.price THEN level_free ELSE price_index[p]
      BY <1>1, <2>1
    <2>3. \A l \in LevelSlots \ {level_free} : level[l].active => level[l].price # order.price
      BY <1>1, NullIsNoSlot DEF BookInv, LevelsIndexed
    <2>4. ASSUME NEW p \in Prices, price_index'[p] # NULL_IDX
          PROVE  level'[price_index'[p]].active /\ level'[price_index'[p]].price = p
      BY <1>4, <1>5, <1>6, <2>1, <2>2, <2>4 DEF BookInv, LevelsIndexed
    <2>5. ASSUME NEW l \in LevelSlots, level'[l].active
          PROVE  level'[l].price \in Prices /\ price_index'[level'[l].price] = l
      <3>1. CASE l = level_free
        BY <1>2, <1>5, <1>6, <2>2, <3>1
      <3>2. CASE l # level_free
        <4>1. level'[l] = level[l] /\ level[l].active /\ level[l].price # order.price
          BY <1>6, <2>3, <2>5, <3>2
        <4>2. level[l].price \in Prices /\ price_index[level[l].price] = l
          BY <4>1 DEF BookInv, LevelsIndexed
        <4> QED
          BY <2>2, <4>1, <4>2
      <3> QED
        BY <3>1, <3>2
    <2> QED
      BY <2>4, <2>5 DEF LevelsIndexed
  <1>14. Shape'
    <2>1. level' \in [LevelSlots -> LooseLevel]
      BY <1>1, <1>4, <1>5 DEF new
    <2>2. level_free' \in LevelIdx
      BY <1>1, <1>4 DEF LooseLevel
    <2>3. price_index' \in [Prices -> LevelIdx]
      BY <1>1, <1>2, <1>4 DEF BookInv, Shape, LevelIdx
    <2>4. curr' \in LevelIdx /\ level_idx' \in LevelIdx /\ node_idx' \in OrderIdx
      BY <1>1, <1>2, <1>3, <1>4 DEF BookInv, Shape, LevelIdx, OrderIdx
    <2> QED
      BY <1>1, <1>3, <2>1, <2>2, <2>3, <2>4 DEF BookInv, Shape, indexes
  <1>15. InHand' /\ Room' /\ RefusedBeforeTrading'
    BY <1>1, <1>8 DEF BookInv, InHand, Room, RefusedBeforeTrading, Id
  <1>16. OrdersIndexed'
    <2>1. \A id \in 1..MaxId : order_index[id] # None =>
            order_index[id].node_idx \in Resting
      BY FoundTerms
    <2>2. \A m \in OrderSlots : node'[m].active => node'[m].order \in Order
      BY <1>2, <1>3 DEF BookInv, OrdersIndexed
    <2> QED
      BY <1>1, <1>8, <1>9, <1>10, <2>1, <2>2 DEF BookInv, OrdersIndexed, Id, PriceOf, SideAt, indexes
  <1>17. Linking'
    <2>1. ~LoopGoesOn'
      <3>1. BestLevel' = BestLevel /\ (BestLevel # NULL_IDX => level'[BestLevel] = level[BestLevel])
        <4>1. Opposite \in Side
          BY DEF Opposite, OtherSide, Side
        <4> QED
          BY <1>1, <1>9, <4>1, BestTerms DEF BestLevel, Opposite
      <3> QED
        BY <1>1, <3>1 DEF LoopGoesOn
    <2>2. best[SideOf(order)] # NULL_IDX =>
             /\ best[SideOf(order)] \in Placed /\ LevelSide(best[SideOf(order)]) = SideOf(order)
             /\ level[best[SideOf(order)]].price \in Nat
             /\ level[best[SideOf(order)]].price # order.price
             /\ level'[best[SideOf(order)]] = level[best[SideOf(order)]]
      BY <1>1, <1>2, <1>9, BestTerms, PlacedTerms, NullIsNoSlot
    <2>3. ~GoesFirst' =>
             /\ best[SideOf(order)] # NULL_IDX
             /\ BetterPrice(SideOf(order), level[best[SideOf(order)]].price, order.price)
      <3>1. ~GoesFirst' =>
               /\ best[SideOf(order)] # NULL_IDX
               /\ ~BetterPrice(SideOf(order), order.price, level[best[SideOf(order)]].price)
        BY <1>1, <2>2 DEF GoesFirst
      <3> QED
        BY <1>2, <2>2, <3>1 DEF BetterPrice
    <2>4. best[SideOf(order)] # NULL_IDX => LevelSide(best[SideOf(order)])' = LevelSide(best[SideOf(order)])
      <3>1. best[SideOf(order)] # NULL_IDX => level[best[SideOf(order)]].head_order \in Resting
        BY <2>2, PlacedTerms
      <3> QED
        BY <1>1, <1>8, <2>2, <3>1 DEF LevelSide, SideAt
    <2>5. ~GoesFirst' =>
             /\ curr' \in Placed'
             /\ LevelSide(curr)' = SideOf(order')
             /\ BetterPrice(SideOf(order'), level'[curr'].price, order'.price)
      BY <1>1, <1>9, <2>2, <2>3, <2>4 DEF LevelSide, SideAt
    <2>6. level'[level_idx'] = [FreeLevel(NULL_IDX) EXCEPT !.price = order'.price, !.active = TRUE]
      BY <1>1, <1>4, <1>6 DEF new
    <2> QED
      BY <1>1, <1>3, <1>4, <2>1, <2>5, <2>6 DEF Linking
  <1> QED
    BY <1>7, <1>8, <1>11, <1>12, <1>13, <1>14, <1>15, <1>16, <1>17 DEF BookInv

\* The order in hand rests at slot n and is indexed.
LEMMA OrderRests ==
  ASSUME BookInv, phase \in {"matching", "linking"}, order.qty > 0,
         NEW n \in OrderSlots, n \notin Resting, IndexAndAnswer(n),
         node'[n].order = order, node'[n].active,
         \A m \in OrderSlots \ {n} : node'[m].order = node[m].order /\ node'[m].active = node[m].active,
         price_index' = price_index, Placed \subseteq Placed', price_index[order.price] \in Placed'
  PROVE  /\ Resting' = Resting \cup {n}
         /\ Id(n)' = order.id /\ PriceOf(n)' = order.price /\ SideAt(n)' = SideOf(order)
         /\ \A m \in Resting : /\ m # n /\ Id(m)' = Id(m) /\ PriceOf(m)' = PriceOf(m) /\ SideAt(m)' = SideAt(m)
                               /\ Id(m) \in Nat /\ Id(m) < order.id
         /\ order.id \in Nat
         /\ order_index' \in [1..MaxId -> FastIndexEntry \cup {None}]
         /\ client_order_index' \in [Users \X ClientIds -> 0..MaxId]
         /\ result' \in Result /\ result'.error = "None" /\ phase' = "done"
         /\ UNCHANGED <<order_id_counter, order, original_qty, trades>>
         /\ OrdersIndexed' /\ InHand'
  <1> DEFINE entry == [client_order_id |-> order.client_order_id, user_id |-> order.user_id,
                       price |-> order.price, node_idx |-> n, side |-> order.side]
  <1>1. /\ order \in Order /\ order.id \in 1..MaxId /\ order_index[order.id] = None
        /\ \A m \in Resting : Id(m) < order.id
    BY OrderIsNew
  <1>2. /\ order.client_order_id \in ClientIds /\ order.user_id \in Users /\ order.price \in Prices
        /\ order.side \in Sides /\ order.qty \in 0..MaxQty
    BY <1>1, OrderTerms
  <1>3. /\ order.qty <= original_qty /\ original_qty \in 0..MaxQty /\ order.id < order_id_counter
        /\ order_id_counter \in Nat
    BY DEF BookInv, Shape, InHand
  <1>4. entry \in FastIndexEntry /\ entry.node_idx = n /\ entry.price = order.price /\ entry.side = order.side
        /\ entry.user_id = order.user_id /\ entry.client_order_id = order.client_order_id
    BY <1>2 DEF FastIndexEntry
  <1>5. entry # None
    BY <1>4, NoneIsNoEntry
  <1>6. /\ order_index' = [order_index EXCEPT ![order.id] = entry]
        /\ client_order_index' = [client_order_index EXCEPT ![ClientKey(order)] = order.id]
        /\ result' = Ok(original_qty - order.qty, order.qty, FALSE) /\ phase' = "done"
        /\ UNCHANGED <<order_id_counter, order, original_qty, trades>>
    BY DEF IndexAndAnswer, Answer
  <1> HIDE DEF entry
  <1>7. order_index \in [1..MaxId -> FastIndexEntry \cup {None}]
    BY DEF BookInv, Shape
  <1>8. \A id \in 1..MaxId : order_index'[id] = IF id = order.id THEN entry ELSE order_index[id]
    BY <1>1, <1>6, <1>7
  <1>9. \A m \in Resting : m \in OrderSlots /\ m # n /\ Id(m) \in Nat /\ Id(m) \in 1..MaxId /\ Id(m) # order.id
    BY <1>1, RestingTerms
  <1>10. Id(n)' = order.id /\ PriceOf(n)' = order.price /\ SideAt(n)' = SideOf(order)
    BY DEF Id, PriceOf, SideAt
  <1>11. \A m \in OrderSlots \ {n} : Id(m)' = Id(m) /\ PriceOf(m)' = PriceOf(m) /\ SideAt(m)' = SideAt(m)
    BY DEF Id, PriceOf, SideAt
  <1>12. n \in Resting'
    BY <1>1, <1>4, <1>5, <1>8, <1>10 DEF Resting
  <1>13. ASSUME NEW m \in OrderSlots \ {n} PROVE m \in Resting' <=> m \in Resting
    <2>1. CASE ~node[m].active
      BY <2>1 DEF Resting
    <2>2. CASE node[m].active
      <3>1. Id(m) \in 1..MaxId
        BY <2>2, OrderTerms DEF BookInv, OrdersIndexed, Id
      <3> QED
        BY <1>1, <1>4, <1>8, <1>11, <3>1, <2>2 DEF Resting
    <2> QED
      BY <2>1, <2>2
  <1>14. Resting' = Resting \cup {n}
    <2>1. Resting \subseteq OrderSlots /\ Resting' \subseteq OrderSlots
      BY DEF Resting
    <2> QED
      BY <1>12, <1>13, <2>1
  <1>15. order_index' \in [1..MaxId -> FastIndexEntry \cup {None}]
    BY <1>4, <1>6, <1>7
  <1>16. client_order_index' \in [Users \X ClientIds -> 0..MaxId]
    <2>1. order.id \in 0..MaxId /\ client_order_index \in [Users \X ClientIds -> 0..MaxId]
      BY <1>1 DEF BookInv, Shape
    <2> QED
      BY <1>6, <2>1
  <1>17. result' \in Result /\ result'.error = "None"
    <2>1. original_qty - order.qty \in 0..MaxQty
      BY <1>2, <1>3
    <2> QED
      BY <1>2, <1>6, <2>1, OkIsResult
  <1>18. OrdersIndexed'
    <2>1. \A m \in OrderSlots : node'[m].active => node'[m].order \in Order
      BY <1>1 DEF BookInv, OrdersIndexed
    <2>2. ASSUME NEW id \in 1..MaxId, order_index'[id] # None
          PROVE  LET e == order_index'[id]
                     m == e.node_idx
                 IN  /\ node'[m].active
                     /\ node'[m].order.id = id
                     /\ node'[m].order.price = e.price
                     /\ node'[m].order.side = e.side
                     /\ node'[m].order.user_id = e.user_id
                     /\ node'[m].order.client_order_id = e.client_order_id
      <3>1. CASE id = order.id
        BY <1>4, <1>8, <3>1
      <3>2. CASE id # order.id
        <4>1. order_index'[id] = order_index[id] /\ order_index[id] # None
          BY <1>8, <2>2, <3>2
        <4> DEFINE m == order_index[id].node_idx
        <4>2. /\ m \in Resting /\ Id(m) = id
              /\ PriceOf(m) = order_index[id].price /\ node[m].order.side = order_index[id].side
              /\ node[m].order.user_id = order_index[id].user_id
              /\ node[m].order.client_order_id = order_index[id].client_order_id
          BY <4>1, FoundTerms
        <4> HIDE DEF m
        <4>3. node'[m].order = node[m].order /\ node'[m].active = node[m].active /\ node[m].active
          BY <1>9, <4>2 DEF Resting
        <4> QED
          BY <4>1, <4>2, <4>3 DEF Id, PriceOf, SideAt, m
      <3> QED
        BY <3>1, <3>2
    <2>3. ASSUME NEW m \in Resting
          PROVE  node'[m].order.qty > 0 /\ Id(m)' < order_id_counter' /\ price_index'[PriceOf(m)'] \in Placed'
      <3>1. node[m].order.qty > 0 /\ Id(m) < order_id_counter /\ price_index[PriceOf(m)] \in Placed
        BY DEF BookInv, OrdersIndexed
      <3> QED
        BY <1>6, <1>9, <1>11, <3>1
    <2>4. node'[n].order.qty > 0 /\ Id(n)' < order_id_counter' /\ price_index'[PriceOf(n)'] \in Placed'
      BY <1>3, <1>6, <1>10
    <2> QED
      BY <1>14, <2>1, <2>2, <2>3, <2>4 DEF OrdersIndexed, Id, PriceOf, SideAt
  <1>19. InHand'
    BY <1>1, <1>3, <1>6 DEF InHand
  <1>20. \A m \in Resting : /\ m # n /\ Id(m)' = Id(m) /\ PriceOf(m)' = PriceOf(m) /\ SideAt(m)' = SideAt(m)
                             /\ Id(m) \in Nat /\ Id(m) < order.id
    BY <1>1, <1>9, <1>11
  <1>21. order.id \in Nat
    BY <1>1
  <1> QED
    BY <1>6, <1>10, <1>14, <1>15, <1>16, <1>17, <1>18, <1>19, <1>20, <1>21

\* The ladders, when the links and the first orders of their levels stay.
LEMMA LaddersStay ==
  ASSUME BookInv, Placed' = Placed, UNCHANGED best,
         \A m \in Resting : node'[m].order.side = node[m].order.side,
         \A l \in Placed : /\ level'[l].price = level[l].price
                           /\ level'[l].head_order = level[l].head_order
                           /\ level'[l].prev_level = level[l].prev_level
                           /\ level'[l].next_level = level[l].next_level
  PROVE  LadderLinks' /\ LadderTops'
  <1>1. \A l \in Placed : LevelSide(l)' = LevelSide(l)
    BY PlacedTerms DEF LevelSide, SideAt, SideOf
  <1>2. LadderLinks'
    BY <1>1 DEF BookInv, LadderLinks, Above
  <1>3. LadderTops'
    BY <1>1 DEF BookInv, LadderTops, Above
  <1> QED
    BY <1>2, <1>3

\* The order joins the end of the queue at its price, being the newest.
LEMMA BookRestAtLevel ==
  ASSUME BookInv, RestAtLevel, NEW n, n = order_free
  PROVE  /\ BookInv' /\ Resting' = Resting \cup {n} /\ n \notin Resting
         /\ node'[n].order = order
         /\ \A m \in Resting : node'[m].order = node[m].order
  <1>l. PICK l : l = price_index[order.price]
    OBVIOUS
  <1>t. PICK t : t = level[l].tail_order
    OBVIOUS
  <1>1. /\ phase = "matching" /\ order.qty > 0 /\ order.order_type = "Limit" /\ ~LoopGoesOn
        /\ n # NULL_IDX /\ l # NULL_IDX
        /\ node' = NodesAfterPush(NodesAfterAllocate, l, n)
        /\ level' = [level EXCEPT ![l] = Pushed(@, n, order.qty)]
        /\ order_free' = node[n].next
        /\ IndexAndAnswer(n)
        /\ UNCHANGED <<level_free, best, price_index, locals>>
    BY <1>l DEF RestAtLevel, MustRest, MatchingOver
  <1>2. order \in Order /\ order.price \in Prices /\ order.price \in Nat /\ SideOf(order) \in Side
        /\ order.qty \in Nat
    BY <1>1, OrderIsNew, OrderTerms
  <1>3. /\ n \in OrderSlots /\ ~node[n].active /\ n \notin Resting
        /\ \A m \in OrderSlots :
             NodesAfterAllocate[m] =
                IF m = n
                THEN [order |-> order, active |-> TRUE, prev |-> NULL_IDX, next |-> NULL_IDX]
                ELSE node[m]
        /\ NodesAfterAllocate \in [OrderSlots -> OrderNode]
        /\ order_free' \in OrderIdx
    BY <1>1, <1>2, Allocated
  <1>4. l \in LevelSlots /\ level[l].active /\ level[l].price = order.price /\ l \in Placed
    <2>1. l \in LevelSlots
      BY <1>l, <1>1, <1>2 DEF BookInv, Shape, LevelIdx
    <2>2. level[l].active /\ level[l].price = order.price
      BY <1>l, <1>1, <1>2 DEF BookInv, LevelsIndexed
    <2>3. level_idx = NULL_IDX
      BY <1>1 DEF BookInv, Linking
    <2> QED
      BY <1>1, <2>1, <2>2, <2>3 DEF Placed
  <1>5. t \in Resting /\ t \in OrderSlots /\ t # n /\ t # NULL_IDX /\ PriceOf(t) = order.price /\ node[t].next = NULL_IDX
    BY <1>t, <1>3, <1>4, RestingTerms, NullIsNoSlot DEF BookInv, QueueEnds
  <1>6. level \in [LevelSlots -> LooseLevel]
    BY DEF BookInv, Shape
  <1>7. \A m \in OrderSlots :
          /\ node'[m].order = IF m = n THEN order ELSE node[m].order
          /\ node'[m].active = IF m = n THEN TRUE ELSE node[m].active
          /\ node'[m].prev = IF m = n THEN t ELSE node[m].prev
          /\ node'[m].next = IF m = n THEN NULL_IDX ELSE IF m = t THEN n ELSE node[m].next
    <2> DEFINE base == NodesAfterAllocate
    <2>1. \A m \in OrderSlots :
            node'[m] = CASE m = n -> [base[m] EXCEPT !.prev = t]
                         [] m = t -> [base[m] EXCEPT !.next = n]
                         [] OTHER -> base[m]
      BY <1>t, <1>1 DEF NodesAfterPush
    <2>2. base \in [OrderSlots -> OrderNode]
      BY <1>3
    <2>3. \A m \in OrderSlots : base[m] =
                IF m = n
                THEN [order |-> order, active |-> TRUE, prev |-> NULL_IDX, next |-> NULL_IDX]
                ELSE node[m]
      BY <1>3
    <2> HIDE DEF base
    <2>4. base[n] = [order |-> order, active |-> TRUE, prev |-> NULL_IDX, next |-> NULL_IDX]
      BY <1>3, <2>3
    <2>5. node'[n] = [base[n] EXCEPT !.prev = t]
      BY <1>3, <1>5, <2>1
    <2>6. node'[n].order = order /\ node'[n].active /\ node'[n].prev = t /\ node'[n].next = NULL_IDX
      BY <2>4, <2>5
    <2>7. base[t] = node[t] /\ base[t] \in OrderNode
      BY <1>5, <2>2, <2>3
    <2>8. node'[t] = [base[t] EXCEPT !.next = n]
      BY <1>5, <2>1
    <2>9. /\ node'[t].order = node[t].order /\ node'[t].active = node[t].active
          /\ node'[t].prev = node[t].prev /\ node'[t].next = n
      BY <2>7, <2>8 DEF OrderNode
    <2>10. \A m \in OrderSlots \ {n, t} : node'[m] = node[m]
      BY <2>1, <2>3
    <2> QED
      BY <1>5, <2>6, <2>9, <2>10
  <1>8. node' \in [OrderSlots -> OrderNode]
    <2>1. NodesAfterAllocate \in [OrderSlots -> OrderNode] /\ n \in OrderIdx /\ t \in OrderIdx
      BY <1>3, <1>5 DEF OrderIdx
    <2>2. \A m \in OrderSlots :
             /\ [NodesAfterAllocate[m] EXCEPT !.prev = t] \in OrderNode
             /\ [NodesAfterAllocate[m] EXCEPT !.next = n] \in OrderNode
      BY <2>1 DEF OrderNode
    <2> QED
      BY <1>t, <1>1, <2>1, <2>2 DEF NodesAfterPush
  <1>9. \A k \in LevelSlots :
           /\ level'[k].price = level[k].price
           /\ level'[k].active = level[k].active
           /\ level'[k].head_order = level[k].head_order
           /\ level'[k].tail_order = IF k = l THEN n ELSE level[k].tail_order
           /\ level'[k].prev_level = level[k].prev_level
           /\ level'[k].next_level = level[k].next_level
           /\ level'[k].next_free = level[k].next_free
    BY <1>t, <1>1, <1>4, <1>5, <1>6 DEF LooseLevel, Pushed
  <1>10. level' \in [LevelSlots -> LooseLevel]
    <2>1. n \in OrderIdx
      BY <1>3 DEF OrderIdx
    <2>2. Pushed(level[l], n, order.qty) \in LooseLevel
      <3>1. level[l] \in LooseLevel
        BY <1>4, <1>6
      <3>2. level[l].total_qty + order.qty \in Int /\ level[l].order_count + 1 \in Int
        BY <1>2, <3>1 DEF LooseLevel
      <3> QED
        BY <2>1, <3>1, <3>2 DEF LooseLevel, Pushed
    <2> QED
      BY <1>1, <1>6, <2>2
  <1>11. Placed' = Placed
    BY <1>1, <1>9 DEF Placed, locals
  <1>12. /\ Resting' = Resting \cup {n}
         /\ Id(n)' = order.id /\ PriceOf(n)' = order.price /\ SideAt(n)' = SideOf(order)
         /\ \A m \in Resting : /\ m # n /\ Id(m)' = Id(m) /\ PriceOf(m)' = PriceOf(m) /\ SideAt(m)' = SideAt(m)
                               /\ Id(m) \in Nat /\ Id(m) < order.id
         /\ order.id \in Nat
         /\ order_index' \in [1..MaxId -> FastIndexEntry \cup {None}]
         /\ client_order_index' \in [Users \X ClientIds -> 0..MaxId]
         /\ result' \in Result /\ result'.error = "None" /\ phase' = "done"
         /\ UNCHANGED <<order_id_counter, order, original_qty, trades>>
         /\ OrdersIndexed' /\ InHand'
    <2>1. price_index[order.price] \in Placed' /\ Placed \subseteq Placed' /\ price_index' = price_index
      BY <1>l, <1>1, <1>4, <1>11
    <2>2. \A m \in OrderSlots \ {n} : node'[m].order = node[m].order /\ node'[m].active = node[m].active
      BY <1>7
    <2>3. node'[n].order = order /\ node'[n].active
      BY <1>3, <1>7
    <2> QED
      BY <1>1, <1>3, <2>1, <2>2, <2>3, OrderRests
  \* The queue it joins is of its own side.
  <1>13. LevelSide(l) = SideOf(order)
    <2> SUFFICES ASSUME LevelSide(l) # SideOf(order) PROVE FALSE
      OBVIOUS
    <2>1. LevelSide(l) = Opposite
      BY <1>2, <1>4, PlacedTerms DEF Opposite, OtherSide, Side
    <2>2. ~Crosses(order, level[l].price)
      BY <1>1, <1>2, <1>4, <2>1, NothingCrosses
    <2> QED
      BY <1>1, <1>2, <1>4, <2>2 DEF Crosses, HasBoundary, Side
  <1>14. OneSideAPrice'
    <2>1. \A m \in Resting : PriceOf(m) = order.price => SideAt(m) = SideOf(order)
      BY <1>4, <1>13, PlacedTerms DEF LevelSide, BookInv, OneSideAPrice
    <2>2. \A a, b \in Resting' : PriceOf(a)' = PriceOf(b)' => SideAt(a)' = SideAt(b)'
      BY <1>12, <2>1 DEF BookInv, OneSideAPrice
    <2> QED
      BY <2>2 DEF OneSideAPrice, PriceOf, SideAt
  <1>15. \A a, b \in Resting : Ahead(a, b)' <=> Ahead(a, b)
    BY <1>12 DEF Ahead
  <1>16. \A a \in Resting : Ahead(a, n)' <=> PriceOf(a) = order.price
    BY <1>12 DEF Ahead
  <1>17. \A b \in Resting' : ~Ahead(n, b)'
    BY <1>12 DEF Ahead
  <1>18. \A m \in Resting : m \in OrderSlots /\ m # n /\ node'[m].prev = node[m].prev
                            /\ node'[m].next = IF m = t THEN n ELSE node[m].next
    BY <1>7, <1>12, RestingTerms
  <1>19. node'[n].prev = t /\ node'[n].next = NULL_IDX
    BY <1>3, <1>7
  <1>20. ASSUME NEW x \in Resting', NEW y, y = node'[x].next
         PROVE  IF y = NULL_IDX
                THEN \A m \in Resting' : ~Ahead(x, m)'
                ELSE /\ y \in Resting'
                     /\ Ahead(x, y)'
                     /\ node'[y].prev = x
                     /\ \A m \in Resting' : Ahead(x, m)' => m = y \/ Ahead(y, m)'
    <2>1. CASE x = n
      BY <1>17, <1>19, <1>20, <2>1
    <2>2. CASE x = t
      <3>1. node'[t].next = n /\ n # NULL_IDX /\ Ahead(t, n)'
        BY <1>1, <1>5, <1>16, <1>18, NullIsNoSlot
      <3>2. \A m \in Resting : ~Ahead(t, m)
        BY <1>5 DEF BookInv, QueueLinks
      <3> QED
        BY <1>5, <1>12, <1>15, <1>19, <1>20, <2>2, <3>1, <3>2
    <2>3. CASE x # n /\ x # t
      <3>1. x \in Resting /\ node'[x].next = node[x].next
        BY <1>12, <1>18, <2>3
      <3>2. CASE node[x].next = NULL_IDX
        <4>1. \A m \in Resting : ~Ahead(x, m)
          BY <3>1, <3>2 DEF BookInv, QueueLinks
        <4>2. \A m \in Resting : ~Ahead(t, m)
          BY <1>5 DEF BookInv, QueueLinks
        <4>3. PriceOf(x) # order.price
          <5> SUFFICES ASSUME PriceOf(x) = order.price PROVE FALSE
            OBVIOUS
          <5>1. Id(x) # Id(t)
            BY <1>5, <2>3, <3>1, RestingIdsDiffer
          <5> QED
            BY <1>5, <1>12, <3>1, <4>1, <4>2, <5>1 DEF Ahead
        <4> QED
          BY <1>12, <1>15, <1>16, <1>20, <3>1, <3>2, <4>1, <4>3
      <3>3. CASE node[x].next # NULL_IDX
        <4>0. y = node[x].next
          BY <1>20, <3>1
        <4>1. /\ y \in Resting /\ Ahead(x, y) /\ node[y].prev = x
              /\ \A m \in Resting : Ahead(x, m) => m = y \/ Ahead(y, m)
          BY <3>1, <3>3, <4>0 DEF BookInv, QueueLinks
        <4>2. y # NULL_IDX /\ PriceOf(x) = PriceOf(y)
          BY <3>3, <4>0, <4>1 DEF Ahead
        <4> QED
          BY <1>12, <1>15, <1>16, <1>18, <3>1, <4>1, <4>2
      <3> QED
        BY <3>2, <3>3
    <2> QED
      BY <2>1, <2>2, <2>3
  <1>21. ASSUME NEW x \in Resting'
         PROVE  LET prev == node'[x].prev
                IN  IF prev = NULL_IDX
                    THEN level'[price_index'[PriceOf(x)']].head_order = x
                    ELSE prev \in Resting' /\ node'[prev].next = x
    <2>1. CASE x = n
      BY <1>5, <1>12, <1>18, <1>19, <2>1
    <2>2. CASE x # n
      <3>1. x \in Resting /\ node'[x].prev = node[x].prev
        BY <1>12, <1>18, <2>2
      <3>2. CASE node[x].prev = NULL_IDX
        <4>1. level[price_index[PriceOf(x)]].head_order = x /\ price_index[PriceOf(x)] \in LevelSlots
          BY <3>1, <3>2, RestingTerms, PlacedTerms DEF BookInv, QueueLinks
        <4> QED
          BY <1>1, <1>9, <1>12, <3>1, <3>2, <4>1
      <3>3. CASE node[x].prev # NULL_IDX
        <4>1. node[x].prev \in Resting /\ node[node[x].prev].next = x
          BY <3>1, <3>3 DEF BookInv, QueueLinks
        <4>2. x # NULL_IDX
          BY <3>1, RestingTerms, NullIsNoSlot
        <4> QED
          BY <1>5, <1>12, <1>18, <3>1, <3>3, <4>1, <4>2
      <3> QED
        BY <3>2, <3>3
    <2> QED
      BY <2>1, <2>2
  <1>22. QueueLinks'
    BY <1>20, <1>21 DEF QueueLinks, Ahead, PriceOf, Id
  <1>23. QueueEnds'
    <2>1. ASSUME NEW k \in Placed, NEW h, h = level[k].head_order
          PROVE  /\ h \in Resting'
                 /\ PriceOf(h)' = level[k].price
                 /\ node'[h].prev = NULL_IDX
                 /\ level'[k].head_order = h /\ level'[k].price = level[k].price
                 /\ \A m \in Resting' :
                      PriceOf(m)' = level[k].price => m = h \/ Ahead(h, m)'
      <3>1. k \in LevelSlots /\ level'[k].head_order = h /\ level'[k].price = level[k].price
        BY <1>9, <2>1, PlacedTerms
      <3>2. /\ h \in Resting /\ PriceOf(h) = level[k].price
            /\ node[h].prev = NULL_IDX
            /\ \A m \in Resting : PriceOf(m) = level[k].price => m = h \/ Ahead(h, m)
        BY <2>1 DEF BookInv, QueueEnds
      <3>3. ASSUME NEW m \in Resting', PriceOf(m)' = level[k].price
            PROVE  m = h \/ Ahead(h, m)'
        <4>1. CASE m = n
          BY <1>12, <1>16, <3>2, <3>3, <4>1
        <4>2. CASE m # n
          BY <1>12, <1>15, <3>2, <3>3, <4>2
        <4> QED
          BY <4>1, <4>2
      <3> QED
        BY <1>12, <1>18, <3>1, <3>2, <3>3
    <2>2. ASSUME NEW k \in Placed
          PROVE  /\ level'[k].tail_order \in Resting'
                 /\ node'[level'[k].tail_order].order.price = level[k].price
                 /\ node'[level'[k].tail_order].next = NULL_IDX
      <3>1. k \in LevelSlots /\ price_index[level[k].price] = k
        BY PlacedTerms
      <3>2. /\ level[k].tail_order \in Resting
            /\ PriceOf(level[k].tail_order) = level[k].price
            /\ node[level[k].tail_order].next = NULL_IDX
        BY DEF BookInv, QueueEnds
      <3>3. CASE k = l
        <4>1. level'[k].tail_order = n /\ level[k].price = order.price
          BY <1>4, <1>9, <3>1, <3>3
        <4> QED
          BY <1>12, <1>19, <4>1 DEF PriceOf
      <3>4. CASE k # l
        <4>1. level'[k].tail_order = level[k].tail_order /\ level[k].tail_order # t
          BY <1>l, <1>5, <1>9, <3>1, <3>2, <3>4
        <4>2. node'[level[k].tail_order].next = NULL_IDX /\ node'[level[k].tail_order].order.price = level[k].price
          BY <1>7, <1>12, <1>18, <3>2, <4>1 DEF PriceOf
        <4> QED
          BY <1>12, <3>2, <4>1, <4>2 DEF PriceOf
      <3> QED
        BY <3>3, <3>4
    <2> QED
      BY <1>11, <2>1, <2>2 DEF QueueEnds, Ahead, PriceOf, Id
  <1>24. LadderLinks' /\ LadderTops'
    <2>1. \A m \in Resting : node'[m].order.side = node[m].order.side
      BY <1>7, <1>18
    <2> QED
      BY <1>1, <1>9, <1>11, <2>1, PlacedTerms, LaddersStay
  <1>25. LevelsIndexed'
    <2>1. \A p \in Prices : price_index[p] \in LevelIdx
      BY DEF BookInv, Shape
    <2> QED
      BY <1>1, <1>9, <2>1 DEF BookInv, LevelsIndexed, LevelIdx
  <1>26. FreeOrders'
    <2>1. \A m \in OrderSlots :
           /\ node'[m].active <=> (m = n \/ node[m].active)
           /\ ~node[m].active /\ m # n => node'[m].next = node[m].next
      BY <1>5, <1>7 DEF Resting
    <2> QED
      BY <1>1, <2>1, AllocatedFree
  <1>27. FreeLevels'
    <2>1. NextFreeLevel' = NextFreeLevel
      BY <1>9 DEF NextFreeLevel
    <2>2. {k \in LevelSlots : ~level'[k].active} = {k \in LevelSlots : ~level[k].active}
      BY <1>9
    <2> QED
      BY <1>1, <2>1, <2>2 DEF BookInv, FreeLevels
  <1>28. Shape'
    BY <1>1, <1>3, <1>8, <1>10, <1>12 DEF BookInv, Shape, locals
  <1>29. Linking' /\ Room' /\ RefusedBeforeTrading'
    BY <1>1, <1>12 DEF BookInv, Linking, Room, RefusedBeforeTrading, locals
  <1>30. node'[n].order = order /\ \A m \in Resting : node'[m].order = node[m].order
    BY <1>3, <1>7, <1>18
  <1> QED
    BY <1>3, <1>12, <1>14, <1>22, <1>23, <1>24, <1>25, <1>26, <1>27, <1>28, <1>29, <1>30 DEF BookInv

-----------------------------------------------------------------------------
(* The new level enters its ladder. *)

\* Level x, of the order n in hand, is put between prev and next: either
\* first, or behind a better level whose next one is worse.
Inserts(x, n, prev, next) ==
  /\ phase = "linking" /\ x = level_idx /\ n = node_idx
  /\ LinkLevel(prev, next)
  /\ prev = NULL_IDX =>
       /\ next = best[SideOf(order)]
       /\ best' = [best EXCEPT ![SideOf(order)] = x]
       /\ next # NULL_IDX => BetterPrice(SideOf(order), order.price, level[next].price)
  /\ prev # NULL_IDX =>
       /\ prev \in Placed /\ LevelSide(prev) = SideOf(order)
       /\ BetterPrice(SideOf(order), level[prev].price, order.price)
       /\ next = level[prev].next_level
       /\ next # NULL_IDX => ~BetterPrice(SideOf(order), level[next].price, order.price)
       /\ best' = best

\* What is in hand, and the neighbours it is put between.
LEMMA InsertTerms ==
  ASSUME BookInv, NEW x, NEW n, NEW prev, NEW next, Inserts(x, n, prev, next)
  PROVE  /\ order \in Order /\ order.qty \in Nat /\ order.qty > 0
         /\ order.price \in Prices /\ order.price \in Nat /\ SideOf(order) \in Side
         /\ x \in LevelSlots /\ x \notin Placed /\ level[x].active /\ x # NULL_IDX
         /\ level[x] = [FreeLevel(NULL_IDX) EXCEPT !.price = order.price, !.active = TRUE]
         /\ price_index[order.price] = x
         /\ \A k \in Placed : level[k].price # order.price
         /\ n \in OrderSlots /\ n \notin Resting /\ n # NULL_IDX
         /\ node[n] = [order |-> order, active |-> TRUE, prev |-> NULL_IDX, next |-> NULL_IDX]
         /\ \A m \in Resting : PriceOf(m) # order.price
         /\ next # NULL_IDX =>
              /\ next \in Placed /\ LevelSide(next) = SideOf(order) /\ next # prev
              /\ level[next].prev_level = prev
              /\ BetterPrice(SideOf(order), order.price, level[next].price)
         /\ prev # NULL_IDX => prev \in Placed
         /\ prev \in LevelIdx /\ next \in LevelIdx
  <1>1. phase = "linking" /\ x = level_idx /\ n = node_idx
    BY DEF Inserts
  <1>2. /\ order \in Order /\ order.qty \in Nat /\ order.qty > 0
        /\ order.price \in Prices /\ order.price \in Nat /\ SideOf(order) \in Side
        /\ order_index[order.id] = None
    BY <1>1, OrderIsNew, OrderTerms DEF BookInv, Linking
  <1>3. /\ x \in LevelSlots
        /\ level[x] = [FreeLevel(NULL_IDX) EXCEPT !.price = order.price, !.active = TRUE]
        /\ n \in OrderSlots
        /\ node[n] = [order |-> order, active |-> TRUE, prev |-> NULL_IDX, next |-> NULL_IDX]
    BY <1>1 DEF BookInv, Linking
  <1>4. level[x].active /\ level[x].price = order.price
    BY <1>3 DEF FreeLevel
  <1>5. x \notin Placed /\ x # NULL_IDX /\ n # NULL_IDX
    BY <1>1, <1>3, NullIsNoSlot DEF Placed
  <1>6. price_index[order.price] = x
    BY <1>3, <1>4 DEF BookInv, LevelsIndexed
  <1>7. \A k \in Placed : level[k].price # order.price
    BY <1>5, <1>6, PlacedTerms
  <1>8. n \notin Resting
    <2>1. Id(n) = order.id
      BY <1>3 DEF Id
    <2> QED
      BY <1>2, <2>1 DEF Resting
  <1>9. \A m \in Resting : PriceOf(m) # order.price
    BY <1>7, RestingTerms
  <1>10. prev # NULL_IDX => prev \in Placed
    BY DEF Inserts
  <1>11. ASSUME next # NULL_IDX
         PROVE  /\ next \in Placed /\ LevelSide(next) = SideOf(order) /\ next # prev
                /\ level[next].prev_level = prev
                /\ BetterPrice(SideOf(order), order.price, level[next].price)
    <2>1. CASE prev = NULL_IDX
      <3>1. next = best[SideOf(order)] /\ BetterPrice(SideOf(order), order.price, level[next].price)
        BY <1>11, <2>1 DEF Inserts
      <3> QED
        BY <1>2, <1>11, <2>1, <3>1 DEF BookInv, LadderTops
    <2>2. CASE prev # NULL_IDX
      <3>1. /\ prev \in Placed /\ LevelSide(prev) = SideOf(order)
            /\ next = level[prev].next_level /\ ~BetterPrice(SideOf(order), level[next].price, order.price)
        BY <1>11, <2>2 DEF Inserts
      <3>2. next \in Placed /\ Above(prev, next) /\ level[next].prev_level = prev
        BY <1>11, <3>1 DEF BookInv, LadderLinks
      <3>3. level[next].price \in Nat /\ level[prev].price \in Nat /\ level[next].price # order.price
        BY <1>7, <3>1, <3>2, PlacedTerms
      <3> QED
        BY <1>2, <3>1, <3>2, <3>3 DEF Above, BetterPrice
    <2> QED
      BY <2>1, <2>2
  <1>12. prev \in LevelIdx /\ next \in LevelIdx
    BY <1>10, <1>11, PlacedTerms DEF LevelIdx
  <1> QED
    BY <1>2, <1>3, <1>4, <1>5, <1>6, <1>7, <1>8, <1>9, <1>10, <1>11, <1>12

\* The fields of the levels after it.
LEMMA InsertedLevels ==
  ASSUME BookInv, NEW x, NEW n, NEW prev, NEW next, Inserts(x, n, prev, next)
  PROVE  /\ level' \in [LevelSlots -> LooseLevel]
         /\ \A k \in LevelSlots :
              /\ level'[k].price = level[k].price
              /\ level'[k].active = level[k].active
              /\ level'[k].head_order = IF k = x THEN n ELSE level[k].head_order
              /\ level'[k].tail_order = IF k = x THEN n ELSE level[k].tail_order
              /\ level'[k].prev_level = IF k = x THEN prev ELSE IF k = next THEN x ELSE level[k].prev_level
              /\ level'[k].next_level = IF k = x THEN next ELSE IF k = prev THEN x ELSE level[k].next_level
              /\ level'[k].next_free = level[k].next_free
         /\ level'[x].price = order.price
         /\ level'[x].total_qty = order.qty /\ level'[x].order_count = 1
         /\ \A k \in LevelSlots \ {x} : level'[k].total_qty = level[k].total_qty /\ level'[k].order_count = level[k].order_count
         /\ Placed' = Placed \cup {x}
  <1>1. /\ x \in LevelSlots /\ x \notin Placed /\ level[x].active /\ x # NULL_IDX
        /\ level[x] = [FreeLevel(NULL_IDX) EXCEPT !.price = order.price, !.active = TRUE]
        /\ prev # NULL_IDX => prev \in Placed
        /\ next # NULL_IDX => next \in Placed /\ next # prev
        /\ prev \in LevelIdx /\ next \in LevelIdx /\ n \in OrderSlots /\ order.qty \in Nat
    BY InsertTerms
  <1>2. level \in [LevelSlots -> LooseLevel] /\ x \in LevelIdx /\ n \in OrderIdx
    BY <1>1 DEF BookInv, Shape, LevelIdx, OrderIdx
  <1>3. \A k \in LevelSlots :
          level'[k] = CASE k = x    -> NewLevel(prev, next)
                        [] k = prev -> [level[k] EXCEPT !.next_level = x]
                        [] k = next -> [level[k] EXCEPT !.prev_level = x]
                        [] OTHER    -> level[k]
    BY DEF Inserts, LinkLevel
  <1>4. /\ x # prev /\ x # next
        /\ \A k \in LevelSlots : k # NULL_IDX
    BY <1>1, NullIsNoSlot
  <1> DEFINE base == [level[x] EXCEPT !.prev_level = prev, !.next_level = next]
  <1>5. /\ base \in LooseLevel
        /\ base.price = order.price /\ base.active
        /\ base.tail_order = NULL_IDX /\ base.prev_level = prev /\ base.next_level = next
        /\ base.total_qty = 0 /\ base.order_count = 0 /\ base.next_free = level[x].next_free
    <2>1. level[x] \in LooseLevel
      BY <1>1, <1>2
    <2>2. base \in LooseLevel /\ base.prev_level = prev /\ base.next_level = next
      BY <1>1, <2>1 DEF LooseLevel
    <2>3. /\ base.price = level[x].price /\ base.active = level[x].active
          /\ base.tail_order = level[x].tail_order /\ base.total_qty = level[x].total_qty
          /\ base.order_count = level[x].order_count /\ base.next_free = level[x].next_free
      BY <2>1 DEF LooseLevel
    <2>4. /\ level[x].price = order.price /\ level[x].active /\ level[x].tail_order = NULL_IDX
          /\ level[x].total_qty = 0 /\ level[x].order_count = 0
      BY <1>1 DEF FreeLevel
    <2> HIDE DEF base
    <2> QED
      BY <2>2, <2>3, <2>4
  <1>6. level'[x] = Pushed(base, n, order.qty)
    <2>1. level'[x] = NewLevel(prev, next)
      BY <1>1, <1>3, <1>4
    <2> QED
      BY <2>1 DEF NewLevel, Inserts
  <1> HIDE DEF base
  <1>7. /\ level'[x] \in LooseLevel
        /\ level'[x].price = order.price /\ level'[x].active
        /\ level'[x].head_order = n /\ level'[x].tail_order = n
        /\ level'[x].prev_level = prev /\ level'[x].next_level = next
        /\ level'[x].total_qty = order.qty /\ level'[x].order_count = 1
        /\ level'[x].next_free = level[x].next_free
    <2>1. base.total_qty + order.qty = order.qty /\ order.qty \in Int /\ base.order_count + 1 = 1 /\ 1 \in Int
      BY <1>1, <1>5
    <2>2. level'[x] = [base EXCEPT !.head_order = n, !.tail_order = n, !.total_qty = order.qty, !.order_count = 1]
      BY <1>5, <1>6, <2>1 DEF Pushed
    <2>3. level'[x] \in LooseLevel
      BY <1>2, <1>5, <2>1, <2>2 DEF LooseLevel
    <2> QED
      BY <1>5, <2>2, <2>3 DEF LooseLevel
  <1>8. ASSUME NEW k \in LevelSlots, k = prev
        PROVE  /\ level'[k] \in LooseLevel /\ level'[k].next_level = x
               /\ level'[k].price = level[k].price /\ level'[k].active = level[k].active
               /\ level'[k].head_order = level[k].head_order /\ level'[k].tail_order = level[k].tail_order
               /\ level'[k].prev_level = level[k].prev_level /\ level'[k].next_free = level[k].next_free
               /\ level'[k].total_qty = level[k].total_qty /\ level'[k].order_count = level[k].order_count
    <2>1. k # next /\ k # x
      BY <1>1, <1>4, <1>8
    <2>2. level'[k] = [level[k] EXCEPT !.next_level = x] /\ level[k] \in LooseLevel
      BY <1>2, <1>3, <1>8, <2>1
    <2> QED
      BY <1>2, <2>2 DEF LooseLevel
  <1>9. ASSUME NEW k \in LevelSlots, k = next
        PROVE  /\ level'[k] \in LooseLevel /\ level'[k].prev_level = x
               /\ level'[k].price = level[k].price /\ level'[k].active = level[k].active
               /\ level'[k].head_order = level[k].head_order /\ level'[k].tail_order = level[k].tail_order
               /\ level'[k].next_level = level[k].next_level /\ level'[k].next_free = level[k].next_free
               /\ level'[k].total_qty = level[k].total_qty /\ level'[k].order_count = level[k].order_count
    <2>1. k # prev /\ k # x
      BY <1>1, <1>4, <1>9
    <2>2. level'[k] = [level[k] EXCEPT !.prev_level = x] /\ level[k] \in LooseLevel
      BY <1>2, <1>3, <1>9, <2>1
    <2> QED
      BY <1>2, <2>2 DEF LooseLevel
  <1>10. ASSUME NEW k \in LevelSlots, k # x, k # prev, k # next PROVE level'[k] = level[k]
    BY <1>3, <1>10
  <1>11. level' \in [LevelSlots -> LooseLevel]
    <2>1. level' = [k \in LevelSlots |-> level'[k]]
      BY DEF Inserts, LinkLevel
    <2>2. \A k \in LevelSlots : level'[k] \in LooseLevel
      BY <1>2, <1>7, <1>8, <1>9, <1>10
    <2> QED
      BY <2>1, <2>2
  <1>12. \A k \in LevelSlots :
              /\ level'[k].price = level[k].price
              /\ level'[k].active = level[k].active
              /\ level'[k].head_order = IF k = x THEN n ELSE level[k].head_order
              /\ level'[k].tail_order = IF k = x THEN n ELSE level[k].tail_order
              /\ level'[k].prev_level = IF k = x THEN prev ELSE IF k = next THEN x ELSE level[k].prev_level
              /\ level'[k].next_level = IF k = x THEN next ELSE IF k = prev THEN x ELSE level[k].next_level
              /\ level'[k].next_free = level[k].next_free
    <2> TAKE k \in LevelSlots
    <2>0. level[x].price = order.price
      BY <1>1 DEF FreeLevel
    <2>1. CASE k = x
      BY <1>1, <1>7, <2>0, <2>1
    <2>2. CASE k = prev
      BY <1>1, <1>4, <1>8, <2>2
    <2>3. CASE k = next
      BY <1>1, <1>4, <1>9, <2>3
    <2>4. CASE k # x /\ k # prev /\ k # next
      BY <1>10, <2>4
    <2> QED
      BY <2>1, <2>2, <2>3, <2>4
  <1>13. \A k \in LevelSlots \ {x} : level'[k].total_qty = level[k].total_qty /\ level'[k].order_count = level[k].order_count
    BY <1>8, <1>9, <1>10
  <1>14. Placed' = Placed \cup {x}
    <2>1. level_idx' = NULL_IDX /\ x = level_idx
      BY DEF Inserts, LinkLevel
    <2>2. \A k \in LevelSlots : k # NULL_IDX /\ level'[k].active = level[k].active
      BY <1>4, <1>12
    <2> QED
      BY <1>1, <2>1, <2>2 DEF Placed
  <1> QED
    BY <1>7, <1>11, <1>12, <1>13, <1>14

\* Where the new level is in the order of its ladder.
LEMMA InsertedOrder ==
  ASSUME BookInv, NEW x, NEW n, NEW prev, NEW next, Inserts(x, n, prev, next)
  PROVE  /\ LevelSide(x)' = SideOf(order)
         /\ \A k \in Placed : LevelSide(k)' = LevelSide(k) /\ k # x /\ k \in LevelSlots
         /\ \A j, k \in Placed : Above(j, k)' <=> Above(j, k)
         /\ \A i, j, k \in Placed' : Above(i, j)' /\ Above(j, k)' => Above(i, k)'
         /\ \A k \in Placed' : ~Above(k, k)'
         /\ next # NULL_IDX => Above(x, next)'
         /\ prev # NULL_IDX => Above(prev, x)'
         /\ \A k \in Placed : Above(k, x)' => prev # NULL_IDX /\ (k = prev \/ Above(k, prev))
         /\ \A k \in Placed : Above(x, k)' => next # NULL_IDX /\ (k = next \/ Above(next, k))
         /\ \A k \in Placed : LevelSide(k) = SideOf(order) => Above(x, k)' \/ Above(k, x)'
  <1>1. /\ order.price \in Nat /\ SideOf(order) \in Side
        /\ x \in LevelSlots /\ x \notin Placed
        /\ \A k \in Placed : level[k].price # order.price
        /\ node[n] = [order |-> order, active |-> TRUE, prev |-> NULL_IDX, next |-> NULL_IDX]
        /\ next # NULL_IDX =>
              /\ next \in Placed /\ LevelSide(next) = SideOf(order) /\ next # prev
              /\ BetterPrice(SideOf(order), order.price, level[next].price)
        /\ prev # NULL_IDX => prev \in Placed
    <2>1. node[n] = [order |-> order, active |-> TRUE, prev |-> NULL_IDX, next |-> NULL_IDX]
      BY InsertTerms, Zenon
    <2>2. /\ order.price \in Nat /\ SideOf(order) \in Side
          /\ x \in LevelSlots /\ x \notin Placed
          /\ \A k \in Placed : level[k].price # order.price
          /\ prev # NULL_IDX => prev \in Placed
      BY InsertTerms
    <2>3. next # NULL_IDX =>
              /\ next \in Placed /\ LevelSide(next) = SideOf(order) /\ next # prev
              /\ BetterPrice(SideOf(order), order.price, level[next].price)
      BY InsertTerms
    <2> QED
      BY <2>1, <2>2, <2>3
  <1>2. /\ \A k \in LevelSlots :
              /\ level'[k].price = level[k].price
              /\ level'[k].head_order = IF k = x THEN n ELSE level[k].head_order
        /\ level'[x].price = order.price
        /\ Placed' = Placed \cup {x}
    BY InsertedLevels
  <1>3. UNCHANGED node
    BY DEF Inserts, LinkLevel
  <1>4. \A k \in Placed : k \in LevelSlots /\ k # x /\ level[k].price \in Nat /\ LevelSide(k) \in Side
    BY <1>1, PlacedTerms
  <1>5. LevelSide(x)' = SideOf(order)
    BY <1>1, <1>2, <1>3 DEF LevelSide, SideAt
  <1>6. \A k \in Placed : LevelSide(k)' = LevelSide(k) /\ level'[k].price = level[k].price
    BY <1>2, <1>3, <1>4 DEF LevelSide, SideAt
  <1>7. \A j, k \in Placed : Above(j, k)' <=> Above(j, k)
    BY <1>6 DEF Above
  <1>8. \A k \in Placed' : level'[k].price \in Nat /\ LevelSide(k)' \in Side
    BY <1>1, <1>2, <1>4, <1>5, <1>6
  <1>9. \A i, j, k \in Placed' : Above(i, j)' /\ Above(j, k)' => Above(i, k)'
    BY <1>8 DEF Above, BetterPrice
  <1>10. \A k \in Placed' : ~Above(k, k)'
    BY <1>8 DEF Above, BetterPrice
  <1>11. \A k \in Placed : Above(k, x)' <=> LevelSide(k) = SideOf(order) /\ BetterPrice(SideOf(order), level[k].price, order.price)
    BY <1>2, <1>5, <1>6 DEF Above
  <1>12. \A k \in Placed : Above(x, k)' <=> LevelSide(k) = SideOf(order) /\ BetterPrice(SideOf(order), order.price, level[k].price)
    BY <1>2, <1>5, <1>6 DEF Above
  <1>13. next # NULL_IDX => Above(x, next)'
    BY <1>1, <1>12
  <1>14. prev # NULL_IDX => Above(prev, x)'
    BY <1>11 DEF Inserts
  <1>15. \A k \in Placed : LevelSide(k) = SideOf(order) => Above(x, k)' \/ Above(k, x)'
    BY <1>1, <1>4, <1>11, <1>12 DEF BetterPrice
  <1>16. \A k \in Placed : ~(Above(x, k)' /\ Above(k, x)')
    BY <1>1, <1>4, <1>11, <1>12 DEF BetterPrice
  \* Every level of the side is on either side of the new one with its neighbours.
  <1>17. ASSUME NEW k \in Placed, LevelSide(k) = SideOf(order)
         PROVE  \/ next # NULL_IDX /\ (k = next \/ Above(next, k))
                \/ prev # NULL_IDX /\ (k = prev \/ Above(k, prev))
    <2>1. CASE prev = NULL_IDX
      <3>1. next = best[SideOf(order)]
        BY <2>1 DEF Inserts
      <3> QED
        BY <1>1, <1>17, <3>1 DEF BookInv, LadderTops
    <2>2. CASE prev # NULL_IDX
      <3>1. prev \in Placed /\ LevelSide(prev) = SideOf(order) /\ next = level[prev].next_level
        BY <2>2 DEF Inserts
      <3>2. CASE k = prev
        BY <2>2, <3>2
      <3>3. CASE Above(prev, k)
        BY <3>1, <3>3 DEF BookInv, LadderLinks
      <3>4. CASE k # prev /\ ~Above(prev, k)
        <4>1. level[k].price # level[prev].price
          BY <3>1, <3>4, PlacedTerms
        <4> QED
          BY <1>4, <1>17, <2>2, <3>1, <3>4, <4>1 DEF Above, BetterPrice
      <3> QED
        BY <3>2, <3>3, <3>4
    <2> QED
      BY <2>1, <2>2
  <1>18. ASSUME NEW k \in Placed, Above(k, x)'
         PROVE  prev # NULL_IDX /\ (k = prev \/ Above(k, prev))
    <2>1. LevelSide(k) = SideOf(order)
      BY <1>11, <1>18
    <2>2. CASE next # NULL_IDX /\ (k = next \/ Above(next, k))
      <3>1. next \in Placed /\ next \in Placed' /\ k \in Placed' /\ x \in Placed'
        BY <1>1, <1>2, <2>2
      <3>2. Above(x, k)'
        BY <1>7, <1>9, <1>13, <2>2, <3>1
      <3> QED
        BY <1>16, <1>18, <3>2
    <2> QED
      BY <1>17, <2>1, <2>2
  <1>19. ASSUME NEW k \in Placed, Above(x, k)'
         PROVE  next # NULL_IDX /\ (k = next \/ Above(next, k))
    <2>1. LevelSide(k) = SideOf(order)
      BY <1>12, <1>19
    <2>2. CASE prev # NULL_IDX /\ (k = prev \/ Above(k, prev))
      <3>1. prev \in Placed /\ prev \in Placed' /\ k \in Placed' /\ x \in Placed'
        BY <1>1, <1>2, <2>2
      <3>2. Above(k, x)'
        BY <1>7, <1>9, <1>14, <2>2, <3>1
      <3> QED
        BY <1>16, <1>19, <3>2
    <2> QED
      BY <1>17, <2>1, <2>2
  <1> QED
    BY <1>4, <1>5, <1>6, <1>7, <1>9, <1>10, <1>13, <1>14, <1>15, <1>18, <1>19

\* A level put between two neighbours of a ladder, or at an end.
LEMMA InsertedLadders ==
  ASSUME BookInv, NEW x, NEW n, NEW prev, NEW next, Inserts(x, n, prev, next)
  PROVE  LadderLinks' /\ LadderTops'
  <1>1. /\ SideOf(order) \in Side
        /\ x \in LevelSlots /\ x \notin Placed /\ x # NULL_IDX
        /\ next # NULL_IDX =>
              /\ next \in Placed /\ LevelSide(next) = SideOf(order) /\ next # prev
              /\ level[next].prev_level = prev
        /\ prev # NULL_IDX => prev \in Placed
    BY InsertTerms
  <1>2. /\ \A k \in LevelSlots :
              /\ level'[k].prev_level = IF k = x THEN prev ELSE IF k = next THEN x ELSE level[k].prev_level
              /\ level'[k].next_level = IF k = x THEN next ELSE IF k = prev THEN x ELSE level[k].next_level
        /\ Placed' = Placed \cup {x}
    BY InsertedLevels
  <1>3. /\ LevelSide(x)' = SideOf(order)
        /\ \A k \in Placed : LevelSide(k)' = LevelSide(k) /\ k # x /\ k \in LevelSlots /\ k # NULL_IDX
        /\ \A j, k \in Placed : Above(j, k)' <=> Above(j, k)
        /\ \A i, j, k \in Placed' : Above(i, j)' /\ Above(j, k)' => Above(i, k)'
        /\ \A k \in Placed' : ~Above(k, k)'
        /\ next # NULL_IDX => Above(x, next)'
        /\ prev # NULL_IDX => Above(prev, x)'
        /\ \A k \in Placed : Above(k, x)' => prev # NULL_IDX /\ (k = prev \/ Above(k, prev))
        /\ \A k \in Placed : Above(x, k)' => next # NULL_IDX /\ (k = next \/ Above(next, k))
        /\ \A k \in Placed : LevelSide(k) = SideOf(order) => Above(x, k)' \/ Above(k, x)'
    BY InsertedOrder, NullIsNoSlot
  <1>4. prev # NULL_IDX => LevelSide(prev) = SideOf(order) /\ next = level[prev].next_level /\ best' = best
    BY DEF Inserts
  <1>5. prev = NULL_IDX => next = best[SideOf(order)] /\ best' = [best EXCEPT ![SideOf(order)] = x]
    BY DEF Inserts
  <1>6. best \in [Side -> LevelIdx]
    BY DEF BookInv, Shape
  <1>7. ASSUME NEW k \in Placed', NEW y, y = level'[k].next_level
        PROVE  IF y = NULL_IDX
               THEN \A j \in Placed' : ~Above(k, j)'
               ELSE /\ y \in Placed'
                    /\ Above(k, y)'
                    /\ level'[y].prev_level = k
                    /\ \A j \in Placed' : Above(k, j)' => j = y \/ Above(y, j)'
    <2>1. CASE k = x
      <3>1. y = next
        BY <1>1, <1>2, <1>7, <2>1
      <3>2. \A j \in Placed' : Above(x, j)' => j \in Placed
        BY <1>2, <1>3
      <3> QED
        BY <1>1, <1>2, <1>3, <2>1, <3>1, <3>2
    <2>2. CASE k = prev /\ k # x
      <3>1. prev \in Placed /\ prev # NULL_IDX
        BY <1>2, <1>3, <2>2
      <3>2. y = x
        BY <1>2, <1>3, <1>7, <2>2, <3>1
      <3>3. level'[x].prev_level = prev
        BY <1>1, <1>2
      <3>4. ASSUME NEW j \in Placed, Above(prev, j) PROVE Above(x, j)'
        <4>1. next # NULL_IDX /\ (j = next \/ Above(next, j))
          BY <1>4, <3>1, <3>4 DEF BookInv, LadderLinks
        <4>2. next \in Placed' /\ j \in Placed' /\ x \in Placed'
          BY <1>1, <1>2, <4>1
        <4> QED
          BY <1>1, <1>3, <4>1, <4>2
      <3> QED
        BY <1>1, <1>2, <1>3, <2>2, <3>1, <3>2, <3>3, <3>4
    <2>3. CASE k # x /\ k # prev
      <3>1. k \in Placed /\ y = level[k].next_level
        BY <1>2, <1>3, <1>7, <2>3
      <3>2. CASE y = NULL_IDX
        <4>1. \A j \in Placed : ~Above(k, j)
          BY <3>1, <3>2 DEF BookInv, LadderLinks
        <4>2. ~Above(k, x)'
          BY <1>1, <1>3, <2>3, <3>1, <4>1
        <4> QED
          BY <1>2, <1>3, <3>1, <3>2, <4>1, <4>2
      <3>3. CASE y # NULL_IDX
        <4>1. /\ y \in Placed /\ Above(k, y) /\ level[y].prev_level = k
              /\ \A j \in Placed : Above(k, j) => j = y \/ Above(y, j)
          BY <3>1, <3>3 DEF BookInv, LadderLinks
        <4>2. y # next
          BY <1>1, <2>3, <3>3, <4>1
        <4>3. level'[y].prev_level = k
          BY <1>2, <1>3, <4>1, <4>2
        <4>4. Above(k, x)' => Above(y, x)'
          <5> SUFFICES ASSUME Above(k, x)' PROVE Above(y, x)'
            OBVIOUS
          <5>1. prev # NULL_IDX /\ Above(k, prev)
            BY <1>3, <2>3, <3>1
          <5>2. prev = y \/ Above(y, prev)
            BY <1>1, <4>1, <5>1
          <5> QED
            BY <1>1, <1>2, <1>3, <4>1, <5>1, <5>2
        <4> QED
          BY <1>2, <1>3, <3>1, <3>3, <4>1, <4>3, <4>4
      <3> QED
        BY <3>2, <3>3
    <2> QED
      BY <2>1, <2>2, <2>3
  <1>8. ASSUME NEW k \in Placed', NEW y, y = level'[k].prev_level
        PROVE  IF y = NULL_IDX
               THEN best'[LevelSide(k)'] = k
               ELSE y \in Placed' /\ level'[y].next_level = k
    <2>1. CASE k = x
      <3>1. y = prev
        BY <1>1, <1>2, <1>8, <2>1
      <3> QED
        BY <1>1, <1>2, <1>3, <1>5, <1>6, <2>1, <3>1
    <2>2. CASE k = next /\ k # x
      <3>1. y = x
        BY <1>2, <1>3, <1>8, <2>2
      <3> QED
        BY <1>1, <1>2, <2>2, <3>1
    <2>3. CASE k # x /\ k # next
      <3>1. k \in Placed /\ y = level[k].prev_level
        BY <1>2, <1>3, <1>8, <2>3
      <3>2. CASE y = NULL_IDX
        <4>1. best[LevelSide(k)] = k
          BY <3>1, <3>2 DEF BookInv, LadderLinks
        <4>2. best'[LevelSide(k)] = best[LevelSide(k)]
          <5>1. LevelSide(k) \in Side
            BY <3>1, PlacedTerms
          <5> QED
            BY <1>1, <1>4, <1>5, <1>6, <2>3, <4>1, <5>1
        <4> QED
          BY <1>3, <3>1, <3>2, <4>1, <4>2
      <3>3. CASE y # NULL_IDX
        <4>1. y \in Placed /\ level[y].next_level = k
          BY <3>1, <3>3 DEF BookInv, LadderLinks
        <4>2. y # prev
          BY <1>4, <2>3, <3>3, <4>1
        <4> QED
          BY <1>2, <1>3, <3>3, <4>1, <4>2
      <3> QED
        BY <3>2, <3>3
    <2> QED
      BY <2>1, <2>2, <2>3
  <1>9. LadderLinks'
    BY <1>7, <1>8, SMTT(30) DEF LadderLinks, Above, LevelSide, SideAt
  <1>10. ASSUME NEW s \in Side, NEW b, b = best'[s]
         PROVE  IF b = NULL_IDX
                THEN \A l \in Placed' : LevelSide(l)' # s
                ELSE /\ b \in Placed'
                     /\ LevelSide(b)' = s
                     /\ level'[b].prev_level = NULL_IDX
                     /\ \A k \in Placed' : LevelSide(k)' = s => k = b \/ Above(b, k)'
    <2>1. CASE s = SideOf(order) /\ prev = NULL_IDX
      <3>1. b = x
        BY <1>5, <1>6, <1>10, <2>1
      <3>2. level'[x].prev_level = NULL_IDX
        BY <1>1, <1>2, <2>1
      <3>3. \A k \in Placed : LevelSide(k) = s => Above(x, k)'
        BY <1>3, <2>1
      <3> QED
        BY <1>1, <1>2, <1>3, <2>1, <3>1, <3>2, <3>3
    <2>2. CASE s = SideOf(order) /\ prev # NULL_IDX
      <3>1. b = best[s] /\ prev \in Placed /\ LevelSide(prev) = s
        BY <1>1, <1>4, <1>10, <2>2
      <3>2. /\ b # NULL_IDX /\ b \in Placed /\ LevelSide(b) = s /\ level[b].prev_level = NULL_IDX
            /\ \A k \in Placed : LevelSide(k) = s => k = b \/ Above(b, k)
        BY <3>1 DEF BookInv, LadderTops
      <3>3. b # next
        BY <1>1, <2>2, <3>2
      <3>4. level'[b].prev_level = NULL_IDX
        BY <1>2, <1>3, <3>2, <3>3
      <3>5. Above(b, x)'
        BY <1>2, <1>3, <2>2, <3>1, <3>2
      <3> QED
        BY <1>2, <1>3, <2>2, <3>2, <3>4, <3>5
    <2>3. CASE s # SideOf(order)
      <3>1. b = best[s]
        BY <1>1, <1>4, <1>5, <1>6, <1>10, <2>3
      <3>2. CASE b = NULL_IDX
        <4>1. \A l \in Placed : LevelSide(l) # s
          BY <3>1, <3>2 DEF BookInv, LadderTops
        <4> QED
          BY <1>2, <1>3, <2>3, <3>2, <4>1
      <3>3. CASE b # NULL_IDX
        <4>1. /\ b \in Placed /\ LevelSide(b) = s /\ level[b].prev_level = NULL_IDX
              /\ \A k \in Placed : LevelSide(k) = s => k = b \/ Above(b, k)
          BY <3>1, <3>3 DEF BookInv, LadderTops
        <4>2. b # next
          BY <1>1, <2>3, <3>3, <4>1
        <4>3. level'[b].prev_level = NULL_IDX
          BY <1>2, <1>3, <4>1, <4>2
        <4> QED
          BY <1>2, <1>3, <2>3, <3>3, <4>1, <4>3
      <3> QED
        BY <3>2, <3>3
    <2> QED
      BY <2>1, <2>2, <2>3
  <1>11. LadderTops'
    BY <1>10 DEF LadderTops, Above, LevelSide, SideAt
  <1> QED
    BY <1>9, <1>11

\* The queues: the new level's is the order in hand alone.
LEMMA InsertedQueues ==
  ASSUME BookInv, NEW x, NEW n, NEW prev, NEW next, Inserts(x, n, prev, next)
  PROVE  /\ OneSideAPrice' /\ QueueLinks' /\ QueueEnds' /\ OrdersIndexed' /\ InHand'
         /\ Resting' = Resting \cup {n} /\ n \notin Resting /\ node'[n].order = order
         /\ order_index' \in [1..MaxId -> FastIndexEntry \cup {None}]
         /\ client_order_index' \in [Users \X ClientIds -> 0..MaxId]
         /\ result' \in Result /\ result'.error = "None" /\ phase' = "done"
         /\ UNCHANGED <<order_id_counter, order, original_qty, trades>>
  <1>1. /\ order.qty > 0
        /\ x \in LevelSlots /\ x \notin Placed /\ price_index[order.price] = x
        /\ n \in OrderSlots /\ n \notin Resting /\ n # NULL_IDX
        /\ \A k \in Placed : level[k].price # order.price
        /\ \A m \in Resting : PriceOf(m) # order.price
    BY InsertTerms
  <1>2. node[n] = [order |-> order, active |-> TRUE, prev |-> NULL_IDX, next |-> NULL_IDX]
    BY InsertTerms, Zenon
  <1>3. /\ node[n].order = order /\ node[n].active /\ node[n].prev = NULL_IDX /\ node[n].next = NULL_IDX
    BY <1>2
  <1>4. /\ phase = "linking" /\ IndexAndAnswer(n)
        /\ UNCHANGED <<node, order_free, level_free, price_index>>
    BY DEF Inserts, LinkLevel
  <1>5. /\ \A k \in LevelSlots :
              /\ level'[k].price = level[k].price
              /\ level'[k].head_order = IF k = x THEN n ELSE level[k].head_order
              /\ level'[k].tail_order = IF k = x THEN n ELSE level[k].tail_order
        /\ level'[x].price = order.price
        /\ Placed' = Placed \cup {x}
    BY InsertedLevels
  <1>6. /\ Resting' = Resting \cup {n}
        /\ Id(n)' = order.id /\ PriceOf(n)' = order.price /\ SideAt(n)' = SideOf(order)
        /\ \A m \in Resting : /\ m # n /\ Id(m)' = Id(m) /\ PriceOf(m)' = PriceOf(m) /\ SideAt(m)' = SideAt(m)
                               /\ Id(m) \in Nat /\ Id(m) < order.id
        /\ order.id \in Nat
        /\ order_index' \in [1..MaxId -> FastIndexEntry \cup {None}]
        /\ client_order_index' \in [Users \X ClientIds -> 0..MaxId]
        /\ result' \in Result /\ result'.error = "None" /\ phase' = "done"
        /\ UNCHANGED <<order_id_counter, order, original_qty, trades>>
        /\ OrdersIndexed' /\ InHand'
    <2>1. node'[n].order = order /\ node'[n].active
      BY <1>3, <1>4
    <2>2. \A m \in OrderSlots \ {n} : node'[m].order = node[m].order /\ node'[m].active = node[m].active
      BY <1>4
    <2>3. price_index' = price_index /\ Placed \subseteq Placed' /\ price_index[order.price] \in Placed'
      BY <1>1, <1>4, <1>5
    <2>4. phase \in {"matching", "linking"}
      BY <1>4
    <2> QED
      BY <1>1, <1>4, <2>1, <2>2, <2>3, <2>4, OrderRests
  <1>7. \A a, b \in Resting' : PriceOf(a)' = PriceOf(b)' => (a = n /\ b = n) \/ (a \in Resting /\ b \in Resting)
    BY <1>1, <1>6
  <1>8. OneSideAPrice'
    <2>1. \A a, b \in Resting' : PriceOf(a)' = PriceOf(b)' => SideAt(a)' = SideAt(b)'
      BY <1>6, <1>7 DEF BookInv, OneSideAPrice
    <2> QED
      BY <2>1 DEF OneSideAPrice, PriceOf, SideAt
  <1>9. \A a, b \in Resting : Ahead(a, b)' <=> Ahead(a, b)
    BY <1>6 DEF Ahead
  <1>10. \A a \in Resting' : ~Ahead(a, n)' /\ ~Ahead(n, a)'
    BY <1>6, <1>7 DEF Ahead
  <1>11. \A m \in Resting : m \in OrderSlots /\ m # n /\ m # NULL_IDX
    BY <1>1, RestingTerms, NullIsNoSlot
  <1>12. ASSUME NEW a \in Resting', NEW y, y = node'[a].next
         PROVE  IF y = NULL_IDX
                THEN \A m \in Resting' : ~Ahead(a, m)'
                ELSE /\ y \in Resting'
                     /\ Ahead(a, y)'
                     /\ node'[y].prev = a
                     /\ \A m \in Resting' : Ahead(a, m)' => m = y \/ Ahead(y, m)'
    <2>1. CASE a = n
      BY <1>3, <1>4, <1>10, <1>12, <2>1
    <2>2. CASE a # n
      <3>1. a \in Resting /\ y = node[a].next
        BY <1>4, <1>6, <1>12, <2>2
      <3>2. IF y = NULL_IDX
            THEN \A m \in Resting : ~Ahead(a, m)
            ELSE /\ y \in Resting /\ Ahead(a, y) /\ node[y].prev = a
                 /\ \A m \in Resting : Ahead(a, m) => m = y \/ Ahead(y, m)
        BY <3>1 DEF BookInv, QueueLinks
      <3> QED
        BY <1>4, <1>6, <1>9, <1>10, <3>1, <3>2
    <2> QED
      BY <2>1, <2>2
  <1>13. ASSUME NEW a \in Resting'
         PROVE  LET prev1 == node'[a].prev
                IN  IF prev1 = NULL_IDX
                    THEN level'[price_index'[PriceOf(a)']].head_order = a
                    ELSE prev1 \in Resting' /\ node'[prev1].next = a
    <2>1. CASE a = n
      BY <1>1, <1>3, <1>4, <1>5, <1>6, <2>1
    <2>2. CASE a # n
      <3>1. a \in Resting /\ price_index[PriceOf(a)] \in LevelSlots /\ price_index[PriceOf(a)] # x
        BY <1>1, <1>6, <2>2, RestingTerms, PlacedTerms
      <3> QED
        BY <1>4, <1>5, <1>6, <3>1 DEF BookInv, QueueLinks
    <2> QED
      BY <2>1, <2>2
  <1>14. QueueLinks'
    BY <1>12, <1>13 DEF QueueLinks, Ahead, PriceOf, Id
  <1>15. ASSUME NEW k \in Placed', NEW h, h = level'[k].head_order, NEW t, t = level'[k].tail_order
         PROVE  /\ h \in Resting' /\ PriceOf(h)' = level'[k].price /\ node'[h].prev = NULL_IDX
                /\ \A m \in Resting' : PriceOf(m)' = level'[k].price => m = h \/ Ahead(h, m)'
                /\ t \in Resting' /\ PriceOf(t)' = level'[k].price /\ node'[t].next = NULL_IDX
    <2>1. CASE k = x
      <3>1. h = n /\ t = n /\ level'[k].price = order.price
        BY <1>1, <1>5, <1>15, <2>1
      <3> QED
        BY <1>1, <1>3, <1>4, <1>6, <3>1
    <2>2. CASE k # x
      <3>1. k \in Placed /\ k \in LevelSlots
        BY <1>5, <2>2, PlacedTerms
      <3>2. h = level[k].head_order /\ t = level[k].tail_order /\ level'[k].price = level[k].price
            /\ level[k].price # order.price
        BY <1>1, <1>5, <1>15, <2>2, <3>1
      <3>3. /\ h \in Resting /\ PriceOf(h) = level[k].price /\ node[h].prev = NULL_IDX
            /\ \A m \in Resting : PriceOf(m) = level[k].price => m = h \/ Ahead(h, m)
            /\ t \in Resting /\ PriceOf(t) = level[k].price /\ node[t].next = NULL_IDX
        BY <3>1, <3>2 DEF BookInv, QueueEnds
      <3> QED
        BY <1>4, <1>6, <1>9, <3>2, <3>3
    <2> QED
      BY <2>1, <2>2
  <1>16. QueueEnds'
    BY <1>15 DEF QueueEnds, Ahead, PriceOf, Id
  <1> QED
    BY <1>1, <1>3, <1>4, <1>6, <1>8, <1>14, <1>16

\* The new level with its first order is in its place.
LEMMA BookInserted ==
  ASSUME BookInv, NEW x, NEW n, NEW prev, NEW next, Inserts(x, n, prev, next)
  PROVE  /\ BookInv' /\ Resting' = Resting \cup {n} /\ n \notin Resting
         /\ node'[n].order = order
         /\ \A m \in Resting : node'[m].order = node[m].order
  <1>1. /\ UNCHANGED <<node, order_free, level_free, price_index>>
        /\ node_idx' = NULL_IDX /\ level_idx' = NULL_IDX /\ curr' = NULL_IDX
    BY DEF Inserts, LinkLevel
  <1>2. /\ OneSideAPrice' /\ QueueLinks' /\ QueueEnds' /\ OrdersIndexed' /\ InHand'
        /\ Resting' = Resting \cup {n} /\ n \notin Resting /\ node'[n].order = order
        /\ order_index' \in [1..MaxId -> FastIndexEntry \cup {None}]
        /\ client_order_index' \in [Users \X ClientIds -> 0..MaxId]
        /\ result' \in Result /\ result'.error = "None" /\ phase' = "done"
        /\ UNCHANGED <<order_id_counter, order, original_qty, trades>>
    BY InsertedQueues
  <1>3. LadderLinks' /\ LadderTops'
    BY InsertedLadders
  <1>4. /\ level' \in [LevelSlots -> LooseLevel]
        /\ \A k \in LevelSlots :
              /\ level'[k].price = level[k].price
              /\ level'[k].active = level[k].active
              /\ level'[k].next_free = level[k].next_free
    BY InsertedLevels
  <1>5. LevelsIndexed'
    <2>1. \A p \in Prices : price_index[p] # NULL_IDX => price_index[p] \in LevelSlots
      BY DEF BookInv, Shape, LevelIdx
    <2>2. \A p \in Prices :
            price_index'[p] # NULL_IDX =>
              level'[price_index'[p]].active /\ level'[price_index'[p]].price = p
      BY <1>1, <1>4, <2>1 DEF BookInv, LevelsIndexed
    <2>3. \A k \in LevelSlots :
            level'[k].active => level'[k].price \in Prices /\ price_index'[level'[k].price] = k
      BY <1>1, <1>4 DEF BookInv, LevelsIndexed
    <2> QED
      BY <2>2, <2>3 DEF LevelsIndexed
  <1>6. FreeOrders'
    BY <1>1 DEF BookInv, FreeOrders, NextOrder
  <1>7. FreeLevels'
    <2>1. NextFreeLevel' = NextFreeLevel
      BY <1>4 DEF NextFreeLevel
    <2>2. {k \in LevelSlots : ~level'[k].active} = {k \in LevelSlots : ~level[k].active}
      BY <1>4
    <2> QED
      BY <1>1, <2>1, <2>2 DEF BookInv, FreeLevels
  <1>8. best' \in [Side -> LevelIdx]
    <2>1. best \in [Side -> LevelIdx]
      BY DEF BookInv, Shape
    <2>2. best' = best \/ best' = [best EXCEPT ![SideOf(order)] = x]
      BY DEF Inserts
    <2>3. x \in LevelIdx
      BY InsertTerms DEF LevelIdx
    <2> QED
      BY <2>1, <2>2, <2>3
  <1>9. Shape'
    BY <1>1, <1>2, <1>4, <1>8 DEF BookInv, Shape, OrderIdx, LevelIdx
  <1>10. Linking' /\ Room' /\ RefusedBeforeTrading'
    BY <1>1, <1>2 DEF Linking, Room, RefusedBeforeTrading
  <1> QED
    BY <1>1, <1>2, <1>3, <1>5, <1>6, <1>7, <1>9, <1>10 DEF BookInv

\* It becomes the best of its side.
LEMMA BookLinkFirst ==
  ASSUME BookInv, LinkFirst, NEW n, n = node_idx
  PROVE  /\ BookInv' /\ Resting' = Resting \cup {n} /\ n \notin Resting
         /\ node'[n].order = order
         /\ \A m \in Resting : node'[m].order = node[m].order
  <1>1. PICK x : x = level_idx
    OBVIOUS
  <1>2. PICK next : next = best[SideOf(order)]
    OBVIOUS
  <1>3. Inserts(x, n, NULL_IDX, next)
    BY <1>1, <1>2 DEF LinkFirst, Inserts, GoesFirst
  <1> QED
    BY <1>3, BookInserted

\* The cursor is at a level of the side that is better than the new one.
LEMMA CursorTerms ==
  ASSUME BookInv, phase = "linking", ~GoesFirst
  PROVE  /\ curr \in Placed /\ curr # NULL_IDX /\ LevelSide(curr) = SideOf(order)
         /\ BetterPrice(SideOf(order), level[curr].price, order.price)
         /\ level[curr].next_level # NULL_IDX =>
              /\ level[curr].next_level \in Placed
              /\ LevelSide(level[curr].next_level) = SideOf(order)
  <1>1. /\ curr \in Placed /\ LevelSide(curr) = SideOf(order)
        /\ BetterPrice(SideOf(order), level[curr].price, order.price)
    BY DEF BookInv, Linking
  <1> QED
    BY <1>1, PlacedTerms, NullIsNoSlot DEF BookInv, LadderLinks, Above

\* It is put behind the level the search stopped at.
LEMMA BookLinkAfter ==
  ASSUME BookInv, LinkAfter, NEW n, n = node_idx
  PROVE  /\ BookInv' /\ Resting' = Resting \cup {n} /\ n \notin Resting
         /\ node'[n].order = order
         /\ \A m \in Resting : node'[m].order = node[m].order
  <1>1. PICK x : x = level_idx
    OBVIOUS
  <1>2. PICK prev : prev = curr
    OBVIOUS
  <1>3. PICK next : next = level[curr].next_level
    OBVIOUS
  <1>4. phase = "linking" /\ ~GoesFirst /\ ~WalkGoesOn /\ LinkLevel(prev, next) /\ best' = best
    BY <1>2, <1>3 DEF LinkAfter
  <1>5. Inserts(x, n, prev, next)
    BY <1>1, <1>2, <1>3, <1>4, CursorTerms DEF Inserts, WalkGoesOn
  <1> QED
    BY <1>5, BookInserted

\* The search goes on while the next level is better.
LEMMA BookLinkWalk ==
  ASSUME BookInv, LinkWalk
  PROVE  BookInv'
  <1>1. /\ phase = "linking" /\ ~GoesFirst /\ WalkGoesOn /\ curr' = level[curr].next_level
        /\ UNCHANGED <<arenas, indexes, order_id_counter, call, node_idx, level_idx>>
    BY DEF LinkWalk
  <1>2. /\ level[curr].next_level \in Placed
        /\ LevelSide(level[curr].next_level) = SideOf(order)
        /\ BetterPrice(SideOf(order), level[level[curr].next_level].price, order.price)
    BY <1>1, CursorTerms DEF WalkGoesOn
  <1>3. Structure' /\ Resting' = Resting /\ Placed' = Placed
    BY <1>1, StructureStays DEF arenas, indexes
  <1>4. curr' \in LevelIdx
    BY <1>1, <1>2, PlacedTerms DEF LevelIdx
  <1>5. Shape'
    BY <1>1, <1>4 DEF BookInv, Shape, arenas, indexes, call
  <1>6. InHand' /\ OrdersIndexed'
    BY <1>1, <1>3 DEF BookInv, InHand, OrdersIndexed, arenas, indexes, call, Id, PriceOf, SideAt
  <1>7. Room' /\ RefusedBeforeTrading'
    BY <1>1 DEF Room, RefusedBeforeTrading, call
  <1>8. curr' \in Placed' /\ LevelSide(curr)' = SideOf(order')
        /\ BetterPrice(SideOf(order'), level'[curr'].price, order'.price)
    BY <1>1, <1>2, <1>3 DEF LevelSide, SideAt, arenas, call
  <1>9. Linking'
    BY <1>1, <1>8 DEF BookInv, Linking, LoopGoesOn, BestLevel, Opposite, arenas, call
  <1> QED
    BY <1>3, <1>5, <1>6, <1>7, <1>9 DEF BookInv, Structure

\* Every step of the engine keeps the invariant.
LEMMA BookNext == BookInv /\ [Next]_vars => BookInv'
  <1> SUFFICES ASSUME BookInv, [Next]_vars PROVE BookInv'
    OBVIOUS
  <1>1. CASE UNCHANGED vars
    <2>1. Structure' /\ Resting' = Resting /\ Placed' = Placed
      BY <1>1, StructureStays DEF vars, arenas, indexes, locals
    <2>2. Shape' /\ Linking' /\ Room' /\ RefusedBeforeTrading'
      BY <1>1 DEF vars, arenas, indexes, call, locals, BookInv, Shape, Linking, Room, RefusedBeforeTrading,
                  LoopGoesOn, GoesFirst, BestLevel, Opposite, LevelSide, SideAt, Placed
    <2>3. InHand' /\ OrdersIndexed'
      BY <1>1, <2>1 DEF vars, arenas, indexes, call, locals, BookInv, InHand, OrdersIndexed, Id, PriceOf, SideAt
    <2> QED
      BY <2>1, <2>2, <2>3 DEF BookInv, Structure
  <1>2. CASE ProcessAny
    BY <1>2, BookProcess DEF ProcessAny
  <1>3. CASE CancelAny
    BY <1>3, BookCancelOrder, BookRefusedCancel DEF CancelAny
  <1>4. CASE Work
    <2>1. CASE FillPartial
      BY <2>1, BookFillPartial
    <2>2. CASE FillWhole
      BY <2>2, BookFillWhole
    <2>3. CASE SelfTrade \/ Finish \/ RestNoOrderSlot
      BY <2>3, BookAnswer
    <2>4. CASE RestNoLevelSlot
      BY <2>4, BookRestNoLevelSlot
    <2>5. CASE RestAtLevel
      BY <2>5, BookRestAtLevel
    <2>6. CASE OpenLevel
      BY <2>6, BookOpenLevel
    <2>7. CASE LinkFirst
      BY <2>7, BookLinkFirst
    <2>8. CASE LinkWalk
      BY <2>8, BookLinkWalk
    <2>9. CASE LinkAfter
      BY <2>9, BookLinkAfter
    <2>10. CASE Return
      BY <2>10, BookReturn
    <2> QED
      BY <1>4, <2>1, <2>2, <2>3, <2>4, <2>5, <2>6, <2>7, <2>8, <2>9, <2>10 DEF Work
  <1> QED
    BY <1>1, <1>2, <1>3, <1>4 DEF Next

\* The invariant holds throughout: slots, queues, ladders, indexes and free
\* lists agree after any sequence of calls (book.rs, all of MultiAssetEngine's
\* process and cancel_order).
THEOREM BookInvariant == Spec => []BookInv
  <1>1. Init => BookInv
    BY InitBook
  <1>2. BookInv /\ [Next]_vars => BookInv'
    BY BookNext
  <1> QED
    BY <1>1, <1>2, PTL DEF Spec

-----------------------------------------------------------------------------
(* What the pointers lead to. *)

\* The orders at a level's price, and the levels of a side.
OrdersAt(l) == {n \in Resting : PriceOf(n) = level[l].price}

LevelsOf(side) == {l \in Placed : LevelSide(l) = side}

\* The arenas are finite.
LEMMA SlotsFinite ==
  /\ IsFiniteSet(OrderSlots) /\ Cardinality(OrderSlots) = MAX_ARENA_ORDERS
  /\ IsFiniteSet(LevelSlots) /\ Cardinality(LevelSlots) = MAX_PRICE_LEVELS
  <1>1. /\ MAX_ARENA_ORDERS - 1 \in Nat /\ (MAX_ARENA_ORDERS - 1) + 1 = MAX_ARENA_ORDERS
        /\ MAX_PRICE_LEVELS - 1 \in Nat /\ (MAX_PRICE_LEVELS - 1) + 1 = MAX_PRICE_LEVELS
    OBVIOUS
  <1>2. IsFiniteSet(0..MAX_ARENA_ORDERS - 1) /\ Cardinality(0..MAX_ARENA_ORDERS - 1) = MAX_ARENA_ORDERS
    BY <1>1, IntervalSize
  <1>3. IsFiniteSet(0..MAX_PRICE_LEVELS - 1) /\ Cardinality(0..MAX_PRICE_LEVELS - 1) = MAX_PRICE_LEVELS
    BY <1>1, IntervalSize
  <1> QED
    BY <1>2, <1>3 DEF OrderSlots, LevelSlots

\* What the next pointers of a level lead to is every order at its price.
LEMMA QueueIs ==
  ASSUME BookInv, NEW l \in Placed
  PROVE  Queue(l) = OrdersAt(l)
  <1> DEFINE S == OrdersAt(l)
             After == {a \in S \X S : Ahead(a[1], a[2])}
             first == level[l].head_order
  <1>1. \A a, b : <<a, b>> \in After <=> a \in S /\ b \in S /\ Ahead(a, b)
    OBVIOUS
  <1>2. \A n \in S : n \in OrderSlots /\ n \in Resting /\ PriceOf(n) = level[l].price /\ Id(n) \in Nat
    BY RestingTerms DEF OrdersAt
  <1>3. \A n \in Resting : PriceOf(n) = level[l].price => n \in S
    BY DEF OrdersAt
  <1>4. NULL_IDX \notin S /\ S \subseteq OrderSlots
    BY <1>2, NullIsNoSlot
  <1>5. /\ first \in Resting /\ PriceOf(first) = level[l].price
        /\ \A m \in Resting : PriceOf(m) = level[l].price => m = first \/ Ahead(first, m)
    BY DEF BookInv, QueueEnds
  <1> HIDE DEF S, After, first
  <1>6. \A x \in S : <<x, x>> \notin After
    BY <1>1, <1>2 DEF Ahead
  <1>7. \A x, y, z \in S : <<x, y>> \in After /\ <<y, z>> \in After => <<x, z>> \in After
    BY <1>1, <1>2 DEF Ahead
  <1>8. first \in S \cup {NULL_IDX} /\ \A x \in S : first # NULL_IDX /\ (x = first \/ <<first, x>> \in After)
    BY <1>1, <1>2, <1>3, <1>4, <1>5
  <1>9. ASSUME NEW y \in S
        PROVE  /\ NextOrder[y] \in S \cup {NULL_IDX}
               /\ NextOrder[y] # NULL_IDX => <<y, NextOrder[y]>> \in After
               /\ \A x \in S : <<y, x>> \in After =>
                    NextOrder[y] # NULL_IDX /\ (x = NextOrder[y] \/ <<NextOrder[y], x>> \in After)
    <2>1. NextOrder[y] = node[y].next
      BY <1>2 DEF NextOrder
    <2>2. LET next == node[y].next
          IN  IF next = NULL_IDX
              THEN \A m \in Resting : ~Ahead(y, m)
              ELSE /\ next \in Resting /\ Ahead(y, next)
                   /\ \A m \in Resting : Ahead(y, m) => m = next \/ Ahead(next, m)
      BY <1>2 DEF BookInv, QueueLinks
    <2>3. node[y].next # NULL_IDX => node[y].next \in S
      BY <1>2, <1>3, <2>2 DEF Ahead
    <2> QED
      BY <1>1, <1>2, <2>1, <2>2, <2>3
  <1>10. After \subseteq S \X S
    BY DEF After
  <1>11. IsChain(first, NextOrder, S, After)
    BY <1>6, <1>7, <1>8, <1>9, <1>10 DEF IsChain
  <1>12. IsFiniteSet(S) /\ Cardinality(S) <= MAX_ARENA_ORDERS
    BY <1>4, SlotsFinite, FS_Subset
  <1> QED
    BY <1>4, <1>11, <1>12, ChainWalk DEF Queue, S, first

\* What the next_level pointers lead to is every level of the side, and they end.
LEMMA LadderIs ==
  ASSUME BookInv, NEW s \in Side
  PROVE  Ladder(s) = LevelsOf(s) /\ Ends(best[s], NextLevel, MAX_PRICE_LEVELS)
  <1> DEFINE S == LevelsOf(s)
             After == {a \in S \X S : Above(a[1], a[2])}
  <1>1. \A a, b : <<a, b>> \in After <=> a \in S /\ b \in S /\ Above(a, b)
    OBVIOUS
  <1>2. \A l \in S : l \in LevelSlots /\ l \in Placed /\ LevelSide(l) = s /\ level[l].price \in Nat
    BY PlacedTerms DEF LevelsOf
  <1>3. \A l \in Placed : LevelSide(l) = s => l \in S
    BY DEF LevelsOf
  <1>4. NULL_IDX \notin S /\ S \subseteq LevelSlots
    BY <1>2, NullIsNoSlot
  <1> HIDE DEF S, After
  <1>5. \A x \in S : <<x, x>> \notin After
    BY <1>1, <1>2 DEF Above, BetterPrice
  <1>6. \A x, y, z \in S : <<x, y>> \in After /\ <<y, z>> \in After => <<x, z>> \in After
    BY <1>1, <1>2 DEF Above, BetterPrice
  <1>7. best[s] \in S \cup {NULL_IDX} /\ \A x \in S : best[s] # NULL_IDX /\ (x = best[s] \/ <<best[s], x>> \in After)
    BY <1>1, <1>2, <1>3 DEF BookInv, LadderTops
  <1>8. ASSUME NEW y \in S
        PROVE  /\ NextLevel[y] \in S \cup {NULL_IDX}
               /\ NextLevel[y] # NULL_IDX => <<y, NextLevel[y]>> \in After
               /\ \A x \in S : <<y, x>> \in After =>
                    NextLevel[y] # NULL_IDX /\ (x = NextLevel[y] \/ <<NextLevel[y], x>> \in After)
    <2>1. NextLevel[y] = level[y].next_level
      BY <1>2 DEF NextLevel
    <2>2. LET next == level[y].next_level
          IN  IF next = NULL_IDX
              THEN \A k \in Placed : ~Above(y, k)
              ELSE /\ next \in Placed /\ Above(y, next)
                   /\ \A k \in Placed : Above(y, k) => k = next \/ Above(next, k)
      BY <1>2 DEF BookInv, LadderLinks
    <2>3. level[y].next_level # NULL_IDX => level[y].next_level \in S
      BY <1>2, <1>3, <2>2 DEF Above
    <2> QED
      BY <1>1, <1>2, <2>1, <2>2, <2>3
  <1>9. After \subseteq S \X S
    BY DEF After
  <1>10. IsChain(best[s], NextLevel, S, After)
    BY <1>5, <1>6, <1>7, <1>8, <1>9 DEF IsChain
  <1>11. IsFiniteSet(S) /\ Cardinality(S) <= MAX_PRICE_LEVELS
    BY <1>4, SlotsFinite, FS_Subset
  <1> QED
    BY <1>4, <1>10, <1>11, ChainWalk DEF Ladder, S

\* What the pointers lead to from the best levels is all that rests.
LEMMA ReachedIs ==
  ASSUME BookInv
  PROVE  Ladders = Placed /\ Linked = Resting
  <1>1. Ladders = Placed
    <2>1. Ladder("Buy") = LevelsOf("Buy") /\ Ladder("Sell") = LevelsOf("Sell")
      BY LadderIs DEF Side
    <2>2. \A l \in Placed : LevelSide(l) = "Buy" \/ LevelSide(l) = "Sell"
      BY PlacedTerms DEF Side
    <2> QED
      BY <2>1, <2>2 DEF Ladders, LevelsOf
  <1>2. \A n \in Resting : \E l \in Placed : n \in OrdersAt(l)
    BY RestingTerms DEF OrdersAt
  <1>3. \A l \in Placed : Queue(l) = OrdersAt(l)
    BY QueueIs
  <1>4. Linked = Resting
    BY <1>1, <1>2, <1>3 DEF Linked, OrdersAt
  <1> QED
    BY <1>1, <1>4

\* The chains as ChainsExact has them.
LEMMA ChainsFollow ==
  ASSUME BookInv
  PROVE  ChainsExact
  <1>1. LaddersSorted
    <2>1. ASSUME NEW s \in Side
          PROVE  /\ Ends(best[s], NextLevel, MAX_PRICE_LEVELS)
                 /\ best[s] # NULL_IDX => level[best[s]].prev_level = NULL_IDX
                 /\ \A l \in LevelsOf(s) :
                      LET next == level[l].next_level
                      IN  next # NULL_IDX =>
                            /\ level[next].prev_level = l
                            /\ BetterPrice(s, level[l].price, level[next].price)
      <3>1. Ends(best[s], NextLevel, MAX_PRICE_LEVELS)
        BY LadderIs
      <3>2. best[s] # NULL_IDX => level[best[s]].prev_level = NULL_IDX
        BY DEF BookInv, LadderTops
      <3> QED
        BY <3>1, <3>2 DEF BookInv, LadderLinks, LevelsOf, Above
    <2> QED
      BY <2>1, LadderIs DEF LaddersSorted
  <1>2. QueuesFifo
    <2>1. ASSUME NEW s \in Side, NEW l \in LevelsOf(s)
          PROVE  /\ level[l].head_order # NULL_IDX
                 /\ node[level[l].head_order].prev = NULL_IDX
                 /\ \A n \in OrdersAt(l) :
                      LET next == node[n].next
                      IN  /\ node[n].active
                          /\ SideOf(node[n].order) = s
                          /\ node[n].order.price = level[l].price
                          /\ next = NULL_IDX => level[l].tail_order = n
                          /\ next # NULL_IDX =>
                               node[next].prev = n /\ node[next].order.id > node[n].order.id
      <3>1. /\ l \in Placed /\ SideAt(level[l].head_order) = s
            /\ level[l].head_order \in Resting /\ PriceOf(level[l].head_order) = level[l].price
        BY PlacedTerms DEF LevelsOf, LevelSide
      <3>2. level[l].head_order # NULL_IDX /\ node[level[l].head_order].prev = NULL_IDX
        BY <3>1, RestingTerms, NullIsNoSlot DEF BookInv, QueueEnds
      <3>3. ASSUME NEW n \in OrdersAt(l)
            PROVE  /\ node[n].active
                   /\ SideOf(node[n].order) = s
                   /\ node[n].order.price = level[l].price
                   /\ node[n].next = NULL_IDX => level[l].tail_order = n
                   /\ node[n].next # NULL_IDX =>
                        node[node[n].next].prev = n /\ node[node[n].next].order.id > node[n].order.id
        <4>1. n \in Resting /\ PriceOf(n) = level[l].price /\ node[n].active /\ Id(n) \in Nat
          BY RestingTerms DEF OrdersAt
        <4>2. SideAt(n) = s
          BY <3>1, <4>1 DEF BookInv, OneSideAPrice
        <4>3. node[n].next = NULL_IDX => level[l].tail_order = n
          <5> DEFINE t == level[l].tail_order
          <5>1. t \in Resting /\ PriceOf(t) = level[l].price /\ node[t].next = NULL_IDX
            BY <3>1 DEF BookInv, QueueEnds
          <5> HIDE DEF t
          <5>2. Id(t) \in Nat
            BY <5>1, RestingTerms
          <5>3. \A m \in Resting : ~Ahead(t, m)
            BY <5>1 DEF BookInv, QueueLinks
          <5>4. node[n].next = NULL_IDX => \A m \in Resting : ~Ahead(n, m)
            BY <4>1 DEF BookInv, QueueLinks
          <5>5. node[n].next = NULL_IDX => Id(n) = Id(t)
            BY <4>1, <5>1, <5>2, <5>3, <5>4 DEF Ahead
          <5> QED
            BY <4>1, <5>1, <5>5, RestingIdsDiffer DEF t
        <4>4. node[n].next # NULL_IDX =>
                /\ node[n].next \in Resting /\ Ahead(n, node[n].next) /\ node[node[n].next].prev = n
          BY <4>1 DEF BookInv, QueueLinks
        <4>5. node[n].next # NULL_IDX => Id(node[n].next) \in Nat
          BY <4>4, RestingTerms
        <4> QED
          BY <4>1, <4>2, <4>3, <4>4, <4>5 DEF PriceOf, SideAt, Ahead, Id
      <3> QED
        BY <3>2, <3>3
    <2>2. \A s \in Side : Ladder(s) = LevelsOf(s) /\ LevelsOf(s) \subseteq Placed
      BY LadderIs DEF LevelsOf
    <2>3. \A l \in Placed : Queue(l) = OrdersAt(l)
      BY QueueIs
    <2>4. \A s \in Side : \A l \in LevelsOf(s) : Queue(l) = OrdersAt(l)
      BY <2>2, <2>3
    <2> QED
      BY <2>1, <2>2, <2>4 DEF QueuesFifo
  <1> QED
    BY <1>1, <1>2 DEF ChainsExact

\* The ladders and queues are exact: they hold each resting order once, sorted
\* by price and then by time, and their back pointers and ends agree with them
\* (link_price_level, unlink_price_level, push_order, pop_order, unlink_order).
THEOREM ChainsAreExact == Spec => []ChainsExact
  BY BookInvariant, ChainsFollow, PTL

\* The indexes as IndexesExact has them.
LEMMA IndexesFollow ==
  ASSUME BookInv
  PROVE  IndexesExact
  <1>1. Ladders = Placed /\ Linked = Resting
    BY ReachedIs
  <1>2. OrderIndexExact
    <2>1. ASSUME NEW id \in 1..MaxId, order_index[id] # None
          PROVE  LET e == order_index[id]
                 IN  /\ e.node_idx \in Linked
                     /\ node[e.node_idx].order.id = id
                     /\ node[e.node_idx].order.price = e.price
                     /\ node[e.node_idx].order.side = e.side
                     /\ ClientKey(node[e.node_idx].order) = <<e.user_id, e.client_order_id>>
      BY <1>1, <2>1, FoundTerms DEF ClientKey, Id, PriceOf, SideAt
    <2>2. \A n \in Linked : order_index[node[n].order.id] # None
      BY <1>1 DEF Resting, Id
    <2> QED
      BY <2>1, <2>2 DEF OrderIndexExact
  <1>3. PriceIndexExact
    <2>1. ASSUME NEW p \in Prices, price_index[p] # NULL_IDX
          PROVE  price_index[p] \in Ladders \cup {level_idx} /\ level[price_index[p]].price = p
      <3>1. price_index[p] \in LevelSlots
        BY <2>1 DEF BookInv, Shape, LevelIdx
      <3>2. level[price_index[p]].active /\ level[price_index[p]].price = p
        BY <2>1 DEF BookInv, LevelsIndexed
      <3> QED
        BY <1>1, <3>1, <3>2 DEF Placed
    <2>2. \A l \in Ladders : price_index[level[l].price] = l
      BY <1>1, PlacedTerms
    <2>3. Ladder("Buy") \cap Ladder("Sell") = {}
      BY LadderIs DEF LevelsOf, Side
    <2> QED
      BY <2>1, <2>2, <2>3 DEF PriceIndexExact
  <1> QED
    BY <1>2, <1>3 DEF IndexesExact

\* The id and price indexes name exactly what is on the book (order_index,
\* price_index: every removal is paired with the unlinking).
THEOREM IndexesAreExact == Spec => []IndexesExact
  BY BookInvariant, IndexesFollow, PTL

\* The free lists as FreeListsExact has them.
LEMMA FreeListsFollow ==
  ASSUME BookInv
  PROVE  FreeListsExact
  <1>1. Ends(order_free, NextOrder, MAX_ARENA_ORDERS)
        /\ Reached(order_free, NextOrder, MAX_ARENA_ORDERS) = {n \in OrderSlots : ~node[n].active}
    <2> DEFINE S == {n \in OrderSlots : ~node[n].active}
    <2>1. PICK After : IsChain(order_free, NextOrder, S, After)
      BY DEF BookInv, FreeOrders
    <2>2. NULL_IDX \notin S /\ S \subseteq OrderSlots
      BY NullIsNoSlot
    <2> HIDE DEF S
    <2>3. IsFiniteSet(S) /\ Cardinality(S) <= MAX_ARENA_ORDERS
      BY <2>2, SlotsFinite, FS_Subset
    <2>4. Ends(order_free, NextOrder, MAX_ARENA_ORDERS) /\ Reached(order_free, NextOrder, MAX_ARENA_ORDERS) = S
      BY <2>1, <2>2, <2>3, ChainWalk
    <2> QED
      BY <2>4 DEF S
  <1>2. Ends(level_free, NextFreeLevel, MAX_PRICE_LEVELS)
        /\ Reached(level_free, NextFreeLevel, MAX_PRICE_LEVELS) = {l \in LevelSlots : ~level[l].active}
    <2> DEFINE S == {l \in LevelSlots : ~level[l].active}
    <2>1. PICK After : IsChain(level_free, NextFreeLevel, S, After)
      BY DEF BookInv, FreeLevels
    <2>2. NULL_IDX \notin S /\ S \subseteq LevelSlots
      BY NullIsNoSlot
    <2> HIDE DEF S
    <2>3. IsFiniteSet(S) /\ Cardinality(S) <= MAX_PRICE_LEVELS
      BY <2>2, SlotsFinite, FS_Subset
    <2>4. Ends(level_free, NextFreeLevel, MAX_PRICE_LEVELS) /\ Reached(level_free, NextFreeLevel, MAX_PRICE_LEVELS) = S
      BY <2>1, <2>2, <2>3, ChainWalk
    <2> QED
      BY <2>4 DEF S
  <1> QED
    BY <1>1, <1>2 DEF FreeListsExact

\* The free lists hold each slot that is not allocated, once: no slot is given
\* out twice (allocate and deallocate of both arenas).
THEOREM FreeListsAreExact == Spec => []FreeListsExact
  BY BookInvariant, FreeListsFollow, PTL

\* An order that is refused for want of room has traded nothing: the trades of
\* a call whose report is an error, which the exchange does not settle, do not
\* exist (the two capacity checks of process come after the matching loop).
THEOREM NoTradeIsRefused == Spec => []RefusedBeforeTrading
  <1>1. BookInv => RefusedBeforeTrading
    BY DEF BookInv
  <1> QED
    BY <1>1, BookInvariant, PTL

-----------------------------------------------------------------------------
(* The slots in use. *)

\* The slots that are allocated.
Active == {n \in OrderSlots : node[n].active}

\* The allocated slots that hold no order of the book.
Lost == Active \ (Resting \cup InFlight)

\* Slots in use are allocated.
LEMMA UsedAreActive ==
  ASSUME BookInv
  PROVE  Resting \cup InFlight \subseteq Active
  BY DEF BookInv, Linking, Resting, InFlight, Active

\* Nothing changes hands while the chains and the phase of the resting branch stay.
LEMMA LostStays ==
  ASSUME BookInv, Resting' = Resting, phase # "linking", phase' # "linking",
         \A m \in OrderSlots : node'[m].active = node[m].active
  PROVE  Lost' = Lost
  BY DEF Lost, Active, InFlight

\* An order that leaves the book gives its slot back.
LEMMA RemovalLosesNone ==
  ASSUME BookInv, NEW n \in Resting, Removes(n), phase # "linking", phase' # "linking"
  PROVE  Lost' = Lost
  <1>1. /\ n \in OrderSlots /\ ~node'[n].active
        /\ \A m \in OrderSlots \ {n} : node'[m].active = node[m].active
        /\ Resting' = Resting \ {n}
    BY RemovedNodes DEF FreeNode
  <1>2. Active' = Active \ {n}
    BY <1>1 DEF Active
  <1> QED
    BY <1>1, <1>2 DEF Lost, InFlight

\* Of all the steps, only a refusal for want of a level can lose a slot.
LEMMA NextLosesNone ==
  ASSUME BookInv, [Next]_vars, ~RestNoLevelSlot
  PROVE  Lost' = Lost
  <1>1. CASE UNCHANGED vars
    BY <1>1 DEF vars, arenas, indexes, call, locals, Lost, Active, InFlight, Resting, Id
  <1>2. CASE ProcessAny
    BY <1>2, LostStays DEF ProcessAny, Process, arenas, indexes, Resting, Id
  <1>3. CASE CancelAny
    <2>1. PICK user \in Users, ref \in (1..MaxId) \cup ClientIds :
            \/ CancelOrder(user, ref) \/ CancelUnauthorized(user, ref) \/ CancelNotFound(user, ref)
      BY <1>3 DEF CancelAny
    <2>2. CASE CancelOrder(user, ref)
      <3>1. PICK n : n = order_index[Resolved(user, ref)].node_idx
        OBVIOUS
      <3>2. Removes(n) /\ RemoveOrder(Resolved(user, ref))
        BY <2>2, <3>1, BookCancelOrder
      <3>3. n \in Resting /\ phase = "idle" /\ phase' = "cancelled"
        BY <2>2, <3>2 DEF Removes, CancelOrder, RemoveOrder, CancelAnswer
      <3> QED
        BY <3>2, <3>3, RemovalLosesNone
    <2>3. CASE CancelUnauthorized(user, ref) \/ CancelNotFound(user, ref)
      <3>1. phase = "idle" /\ phase' = "cancelled" /\ UNCHANGED <<arenas, indexes>>
        BY <2>3 DEF CancelUnauthorized, CancelNotFound, CancelAnswer
      <3> QED
        BY <3>1, LostStays DEF arenas, indexes, Resting, Id
    <2> QED
      BY <2>1, <2>2, <2>3
  <1>4. CASE FillPartial
    <2>1. phase = "matching" /\ LoopGoesOn /\ HeadOrder \in OrderSlots
      BY <1>4, MakerTerms DEF FillPartial, CanMatch
    <2>2. /\ node' = [node EXCEPT ![HeadOrder].order.qty = @ - order.qty]
          /\ UNCHANGED <<order_index, phase>>
      BY <1>4 DEF FillPartial, Executed, indexes
    <2>3. node \in [OrderSlots -> OrderNode] /\ Maker \in Order
      BY <2>1, MakerTerms DEF BookInv, Shape
    <2>4. \A m \in OrderSlots : node'[m].active = node[m].active /\ node'[m].order.id = node[m].order.id
      BY <2>1, <2>2, <2>3 DEF OrderNode, Order, Maker
    <2>5. Resting' = Resting
      BY <2>2, <2>4 DEF Resting, Id
    <2> QED
      BY <2>1, <2>2, <2>4, <2>5, LostStays
  <1>5. CASE FillWhole
    <2>1. PICK n : n = HeadOrder
      OBVIOUS
    <2>2. Removes(n) /\ n \in Resting /\ phase = "matching" /\ phase' = "matching"
      BY <1>5, <2>1, BookFillWhole DEF FillWhole, CanMatch, Executed, Removes
    <2> QED
      BY <2>2, RemovalLosesNone
  <1>6. CASE SelfTrade \/ Finish \/ RestNoOrderSlot
    <2>1. phase = "matching" /\ phase' = "done" /\ UNCHANGED <<arenas, indexes>>
      BY <1>6 DEF SelfTrade, Finish, RestNoOrderSlot, CanMatch, MatchingOver, MustRest, Answer
    <2> QED
      BY <2>1, LostStays DEF arenas, indexes, Resting, Id
  <1>7. CASE RestAtLevel
    <2>1. PICK n : n = order_free
      OBVIOUS
    <2>2. Resting' = Resting \cup {n}
      BY <1>7, <2>1, BookRestAtLevel
    <2>3. phase = "matching" /\ phase' = "done" /\ n # NULL_IDX
          /\ node' = NodesAfterPush(NodesAfterAllocate, price_index[order.price], n)
      BY <1>7, <2>1 DEF RestAtLevel, MustRest, MatchingOver, IndexAndAnswer, Answer
    <2>4. order \in Order
      BY <2>3, OrderIsNew
    <2>5. /\ n \in OrderSlots
          /\ NodesAfterAllocate \in [OrderSlots -> OrderNode]
          /\ \A m \in OrderSlots : NodesAfterAllocate[m].active <=> m = n \/ node[m].active
      <3>1. \A m \in OrderSlots :
              NodesAfterAllocate[m] =
                IF m = order_free
                THEN [order |-> order, active |-> TRUE, prev |-> NULL_IDX, next |-> NULL_IDX]
                ELSE node[m]
        BY <2>1, <2>3, Allocated
      <3>2. \A m \in OrderSlots : node[m].active \in BOOLEAN
        BY DEF BookInv, Shape, OrderNode
      <3> QED
        BY <2>1, <2>3, <2>4, <3>1, <3>2, Allocated
    <2>6. \A m \in OrderSlots : node'[m].active <=> m = n \/ node[m].active
      <3> DEFINE base == NodesAfterAllocate
      <3>1. PICK t : t = level[price_index[order.price]].tail_order
        OBVIOUS
      <3>2. \A m \in OrderSlots :
              node'[m] = CASE m = n -> [base[m] EXCEPT !.prev = t]
                           [] m = t -> [base[m] EXCEPT !.next = n]
                           [] OTHER -> base[m]
        BY <2>3, <3>1 DEF NodesAfterPush
      <3>3. base \in [OrderSlots -> OrderNode] /\ \A m \in OrderSlots : base[m].active <=> m = n \/ node[m].active
        BY <2>5
      <3> HIDE DEF base
      <3>4. \A m \in OrderSlots : node'[m].active = base[m].active
        BY <3>2, <3>3 DEF OrderNode
      <3> QED
        BY <3>3, <3>4
    <2>7. Active' = Active \cup {n}
      BY <2>5, <2>6 DEF Active
    <2>8. n \notin Active
      BY <2>1, <2>3, Allocated DEF Active
    <2> QED
      BY <2>2, <2>3, <2>7, <2>8 DEF Lost, InFlight
  <1>8. CASE OpenLevel
    <2>1. Resting' = Resting
      BY <1>8, BookOpenLevel
    <2>2. /\ phase = "matching" /\ phase' = "linking" /\ order_free # NULL_IDX
          /\ node' = NodesAfterAllocate /\ node_idx' = order_free
      BY <1>8 DEF OpenLevel, MustRest, MatchingOver
    <2>3. /\ \A m \in OrderSlots : node'[m].active <=> m = order_free \/ node[m].active
          /\ order_free \in OrderSlots /\ ~node[order_free].active /\ order_free \notin Resting
      <3>1. \A m \in OrderSlots : node[m].active \in BOOLEAN
        BY DEF BookInv, Shape, OrderNode
      <3> QED
        BY <2>2, <3>1, Allocated
    <2>4. Active' = Active \cup {order_free} /\ order_free \notin Active
      BY <2>3 DEF Active
    <2> QED
      BY <2>1, <2>2, <2>4 DEF Lost, InFlight
  <1>9. CASE LinkFirst \/ LinkAfter
    <2>1. PICK n : n = node_idx
      OBVIOUS
    <2>2. Resting' = Resting \cup {n}
      BY <1>9, <2>1, BookLinkFirst, BookLinkAfter
    <2>3. phase = "linking" /\ phase' = "done" /\ UNCHANGED node
      BY <1>9 DEF LinkFirst, LinkAfter, LinkLevel, IndexAndAnswer, Answer
    <2> QED
      BY <2>1, <2>2, <2>3 DEF Lost, InFlight, Active
  <1>10. CASE LinkWalk
    BY <1>10 DEF LinkWalk, arenas, indexes, call, Lost, Active, InFlight, Resting, Id
  <1>11. CASE Return
    <2>1. phase # "linking" /\ phase' = "idle" /\ UNCHANGED <<arenas, indexes>>
      BY <1>11 DEF Return
    <2> QED
      BY <2>1, LostStays DEF arenas, indexes, Resting, Id
  <1> QED
    BY <1>1, <1>2, <1>3, <1>4, <1>5, <1>6, <1>7, <1>8, <1>9, <1>10, <1>11 DEF Next, Work

\* Only the refusal of an order for want of a level loses a slot: every other
\* step of the book leaves the allocated slots without an order as they were.
THEOREM OnlyRefusalLosesSlots == Spec => [][~RestNoLevelSlot => Lost' = Lost]_vars
  <1>1. BookInv /\ [Next]_vars => [~RestNoLevelSlot => Lost' = Lost]_vars
    BY NextLosesNone
  <1> QED
    BY <1>1, BookInvariant, PTL DEF Spec

\* The arena of levels has a slot for every price.
LevelForEveryPrice == IsFiniteSet(Prices) /\ Cardinality(Prices) <= MAX_PRICE_LEVELS

\* Then a price without a level finds a free slot.
LEMMA LevelsSuffice ==
  ASSUME BookInv, LevelForEveryPrice, NEW p \in Prices, price_index[p] = NULL_IDX
  PROVE  level_free # NULL_IDX
  <1> SUFFICES ASSUME level_free = NULL_IDX PROVE FALSE
    OBVIOUS
  <1>1. \A l \in LevelSlots : level[l].active
    BY DEF BookInv, FreeLevels, IsChain
  <1>2. \A l \in LevelSlots : level[l].price \in Prices \ {p} /\ price_index[level[l].price] = l
    BY <1>1, NullIsNoSlot DEF BookInv, LevelsIndexed
  <1> DEFINE f == [l \in LevelSlots |-> level[l].price]
  <1>3. f \in [LevelSlots -> Prices \ {p}]
    BY <1>2
  <1>4. \A k, l \in LevelSlots : f[k] = f[l] => k = l
    BY <1>2
  <1>5. IsFiniteSet(Prices \ {p}) /\ Cardinality(Prices \ {p}) = Cardinality(Prices) - 1
    BY FS_RemoveElement DEF LevelForEveryPrice
  <1>6. Cardinality(Prices \ {p}) < Cardinality(LevelSlots)
    <2>1. Cardinality(Prices) \in Nat /\ Cardinality(Prices) <= MAX_PRICE_LEVELS
      BY FS_CardinalityType DEF LevelForEveryPrice
    <2> QED
      BY <1>5, <2>1, SlotsFinite
  <1> HIDE DEF f
  <1>7. \E k, l \in LevelSlots : k # l /\ f[k] = f[l]
    <2>1. IsFiniteSet(LevelSlots) /\ IsFiniteSet(Prices \ {p})
      BY <1>5, SlotsFinite
    <2> QED
      BY ONLY <1>3, <1>6, <2>1, FS_PigeonHole, Zenon
  <1> QED
    BY <1>4, <1>7

\* Every slot of the two arenas is on its free list, or linked, or in the hand
\* of the resting branch, when there is a level for every price.
THEOREM SlotsAreExact == LevelForEveryPrice => (Spec => []SlotsExact)
  <1> SUFFICES ASSUME LevelForEveryPrice PROVE Spec => []SlotsExact
    OBVIOUS
  <1>1. Init => Lost = {}
    BY DEF Init, Lost, Active, FreeNode
  <1>2. BookInv => ~RestNoLevelSlot
    <2> SUFFICES ASSUME BookInv, RestNoLevelSlot PROVE FALSE
      OBVIOUS
    <2>1. order.price \in Prices
      BY OrderIsNew, OrderTerms DEF RestNoLevelSlot, MustRest, MatchingOver
    <2> QED
      BY <2>1, LevelsSuffice DEF RestNoLevelSlot
  <1>3. BookInv /\ Lost = {} /\ [Next]_vars => (Lost = {})'
    BY <1>2, NextLosesNone
  <1>4. BookInv /\ Lost = {} => SlotsExact
    <2> SUFFICES ASSUME BookInv, Lost = {} PROVE SlotsExact
      OBVIOUS
    <2>1. Active = Resting \cup InFlight
      BY UsedAreActive DEF Lost
    <2> QED
      BY <2>1, ReachedIs, FreeListsFollow DEF SlotsExact, NoSlotLost, Active
  <1> QED
    BY <1>1, <1>3, <1>4, BookInvariant, PTL DEF Spec
-----------------------------------------------------------------------------
(* The totals of the levels. *)

\* The sum and the count a level should have.
Qty == [n \in OrderSlots |-> node[n].order.qty]

LevelTotals(l) ==
  /\ level[l].order_count = Cardinality(OrdersAt(l))
  /\ level[l].total_qty = SumFunctionOnSet(Qty, OrdersAt(l))

\* A level in a ladder counts and adds up its queue; any other is empty.
Totals ==
  \A l \in LevelSlots :
    IF l \in Placed THEN LevelTotals(l)
    ELSE level[l].order_count = 0 /\ level[l].total_qty = 0

\* The orders of a level are finitely many and have quantities.
LEMMA OrdersAtTerms ==
  ASSUME BookInv, NEW l \in LevelSlots
  PROVE  /\ IsFiniteSet(OrdersAt(l)) /\ Cardinality(OrdersAt(l)) \in Nat
         /\ OrdersAt(l) \subseteq OrderSlots
         /\ \A n \in OrdersAt(l) : Qty[n] \in Nat /\ Qty[n] = node[n].order.qty
         /\ SumFunctionOnSet(Qty, OrdersAt(l)) \in Nat
  <1>1. OrdersAt(l) \subseteq OrderSlots
    BY DEF OrdersAt, Resting
  <1>2. IsFiniteSet(OrdersAt(l))
    BY <1>1, SlotsFinite, FS_Subset
  <1>3. Cardinality(OrdersAt(l)) \in Nat
    BY <1>2, FS_CardinalityType
  <1>4. \A n \in OrdersAt(l) : Qty[n] \in Nat /\ Qty[n] = node[n].order.qty
    BY <1>1, RestingTerms DEF OrdersAt, Qty
  <1>5. SumFunctionOnSet(Qty, OrdersAt(l)) \in Nat
    BY <1>2, <1>4, SumType
  <1> QED
    BY <1>1, <1>2, <1>3, <1>4, <1>5

\* A queue left alone.
LEMMA LevelKeeps ==
  ASSUME BookInv, NEW l \in LevelSlots, LevelTotals(l), OrdersAt(l)' = OrdersAt(l),
         \A n \in OrdersAt(l) : node'[n].order.qty = node[n].order.qty,
         level'[l].total_qty = level[l].total_qty,
         level'[l].order_count = level[l].order_count
  PROVE  LevelTotals(l)'
  <1>1. \A n \in OrdersAt(l) : Qty'[n] = Qty[n]
    BY OrdersAtTerms DEF Qty
  <1>2. SumFunctionOnSet(Qty', OrdersAt(l)) = SumFunctionOnSet(Qty, OrdersAt(l))
    BY <1>1, OrdersAtTerms, SumSame
  <1> QED
    BY <1>2 DEF LevelTotals

\* A queue that loses the order n.
LEMMA LevelLoses ==
  ASSUME BookInv, NEW l \in LevelSlots, LevelTotals(l),
         NEW n \in OrdersAt(l), OrdersAt(l)' = OrdersAt(l) \ {n},
         \A m \in OrdersAt(l) \ {n} : node'[m].order.qty = node[m].order.qty,
         level'[l].total_qty = level[l].total_qty - node[n].order.qty,
         level'[l].order_count = level[l].order_count - 1
  PROVE  LevelTotals(l)'
  <1>1. IsFiniteSet(OrdersAt(l) \ {n}) /\ Cardinality(OrdersAt(l) \ {n}) = Cardinality(OrdersAt(l)) - 1
    BY OrdersAtTerms, FS_RemoveElement
  <1>2. \A m \in OrdersAt(l) \ {n} : Qty'[m] = Qty[m]
    <2>1. OrdersAt(l) \subseteq OrderSlots
      BY OrdersAtTerms
    <2> QED
      BY <2>1 DEF Qty
  <1>3. SumFunctionOnSet(Qty', OrdersAt(l) \ {n}) = SumFunctionOnSet(Qty, OrdersAt(l) \ {n})
    BY <1>1, <1>2, SumSame
  <1>4. SumFunctionOnSet(Qty, OrdersAt(l)) = Qty[n] + SumFunctionOnSet(Qty, OrdersAt(l) \ {n})
    <2>1. \A y \in OrdersAt(l) : Qty[y] \in Int
      BY OrdersAtTerms
    <2> QED
      BY <2>1, OrdersAtTerms, SumRemove
  <1>5. PICK r : r = SumFunctionOnSet(Qty, OrdersAt(l) \ {n})
    OBVIOUS
  <1>6. r \in Nat
    <2>1. \A y \in OrdersAt(l) \ {n} : Qty[y] \in Nat
      BY OrdersAtTerms
    <2> QED
      BY <1>1, <1>5, <2>1, SumType
  <1>7. Qty[n] = node[n].order.qty /\ Qty[n] \in Nat
    BY OrdersAtTerms
  <1>8. level[l].total_qty = Qty[n] + r
    BY <1>4, <1>5 DEF LevelTotals
  <1>9. level'[l].total_qty = r
    BY <1>6, <1>7, <1>8
  <1> QED
    BY <1>1, <1>3, <1>5, <1>9 DEF LevelTotals

\* A queue that gains the order n.
LEMMA LevelGains ==
  ASSUME BookInv, NEW l \in LevelSlots, LevelTotals(l),
         NEW n \in OrderSlots, n \notin OrdersAt(l), OrdersAt(l)' = OrdersAt(l) \cup {n},
         \A m \in OrdersAt(l) : node'[m].order.qty = node[m].order.qty,
         NEW q \in Nat, node'[n].order.qty = q,
         level'[l].total_qty = level[l].total_qty + q,
         level'[l].order_count = level[l].order_count + 1
  PROVE  LevelTotals(l)'
  <1>1. Cardinality(OrdersAt(l) \cup {n}) = Cardinality(OrdersAt(l)) + 1
    BY OrdersAtTerms, FS_AddElement
  <1>2. \A m \in OrdersAt(l) : Qty'[m] = Qty[m] /\ Qty'[m] \in Int
    <2>1. OrdersAt(l) \subseteq OrderSlots /\ \A m \in OrdersAt(l) : Qty[m] \in Nat
      BY OrdersAtTerms
    <2>2. \A m \in OrdersAt(l) : Qty'[m] = Qty[m]
      BY <2>1 DEF Qty
    <2> QED
      BY <2>1, <2>2
  <1>3. Qty'[n] = q
    BY DEF Qty
  <1>4. SumFunctionOnSet(Qty', OrdersAt(l)) = SumFunctionOnSet(Qty, OrdersAt(l))
    BY <1>2, OrdersAtTerms, SumSame
  <1>5. SumFunctionOnSet(Qty', OrdersAt(l) \cup {n}) = SumFunctionOnSet(Qty', OrdersAt(l)) + Qty'[n]
    <2>1. PICK f : f = Qty'
      OBVIOUS
    <2>2. IsFiniteSet(OrdersAt(l)) /\ (\A y \in OrdersAt(l) : f[y] \in Int) /\ f[n] \in Int
      BY <1>2, <1>3, <2>1, OrdersAtTerms
    <2>3. SumFunctionOnSet(f, OrdersAt(l) \cup {n}) = SumFunctionOnSet(f, OrdersAt(l)) + f[n]
      BY <2>2, SumAdd
    <2> QED
      BY <2>1, <2>3
  <1> QED
    BY <1>1, <1>3, <1>4, <1>5 DEF LevelTotals

\* The queues and their totals are left alone.
LEMMA TotalsStay ==
  ASSUME BookInv, Totals, Resting' = Resting, Placed' = Placed,
         \A n \in Resting : node'[n].order = node[n].order,
         \A l \in LevelSlots : /\ level'[l].price = level[l].price
                               /\ level'[l].total_qty = level[l].total_qty
                               /\ level'[l].order_count = level[l].order_count
  PROVE  Totals'
  <1>1. ASSUME NEW l \in LevelSlots, l \in Placed
        PROVE  LevelTotals(l)'
    <2>1. OrdersAt(l)' = OrdersAt(l)
      BY DEF OrdersAt, PriceOf
    <2>2. \A n \in OrdersAt(l) : node'[n].order.qty = node[n].order.qty
      BY DEF OrdersAt
    <2> QED
      BY <1>1, <2>1, <2>2, LevelKeeps DEF Totals
  <1> QED
    BY <1>1 DEF Totals

\* The level of a maker that is reduced loses what was traded.
LEMMA TotalsFillPartial ==
  ASSUME BookInv, Totals, FillPartial
  PROVE  Totals'
  <1>1. phase = "matching" /\ LoopGoesOn /\ Maker.qty > order.qty
    BY DEF FillPartial, CanMatch
  <1>b. PICK b : b = BestLevel
    OBVIOUS
  <1>h. PICK h : h = HeadOrder
    OBVIOUS
  <1>2. /\ order \in Order /\ order.qty \in 1..MaxQty
        /\ b \in LevelSlots /\ b \in Placed
        /\ h \in Resting /\ h \in OrderSlots
        /\ node[h].order \in Order /\ node[h].order.qty \in 1..MaxQty
        /\ node[h].order.price = level[b].price
        /\ node[h].order.qty > order.qty
    BY <1>1, <1>b, <1>h, MakerTerms DEF Maker
  <1>3. /\ node' = [node EXCEPT ![h].order.qty = @ - order.qty]
        /\ level' = [level EXCEPT ![b].total_qty = @ - order.qty]
        /\ UNCHANGED <<order_index, level_idx>>
    BY <1>b, <1>h DEF FillPartial, Executed, indexes, locals
  <1>4. node \in [OrderSlots -> OrderNode] /\ level \in [LevelSlots -> LooseLevel]
    BY DEF BookInv, Shape
  <1>5. /\ \A n \in OrderSlots : node'[n].active = node[n].active
        /\ \A n \in OrderSlots \ {h} : node'[n].order = node[n].order
        /\ node'[h].order = [node[h].order EXCEPT !.qty = @ - order.qty]
    BY <1>2, <1>3, <1>4 DEF OrderNode
  <1>6. /\ node'[h].order.qty = node[h].order.qty - order.qty
        /\ node'[h].order.price = node[h].order.price
        /\ node'[h].order.id = node[h].order.id
    <2>1. order.qty \in Nat /\ order.qty <= node[h].order.qty
      BY <1>2
    <2> QED
      BY <1>2, <1>5, <2>1, RemainderIsOrder
  <1>7. /\ \A l \in LevelSlots : /\ level'[l].price = level[l].price
                                 /\ level'[l].active = level[l].active
                                 /\ level'[l].order_count = level[l].order_count
        /\ \A l \in LevelSlots \ {b} : level'[l].total_qty = level[l].total_qty
        /\ level'[b].total_qty = level[b].total_qty - order.qty
    BY <1>2, <1>3, <1>4 DEF LooseLevel
  <1>8. \A n \in OrderSlots : Id(n)' = Id(n) /\ PriceOf(n)' = PriceOf(n)
    BY <1>5, <1>6 DEF Id, PriceOf
  <1>9. Resting' = Resting /\ Placed' = Placed
    BY <1>3, <1>5, <1>7, <1>8 DEF Resting, Placed
  <1>10. \A l \in LevelSlots : OrdersAt(l)' = OrdersAt(l)
    BY <1>7, <1>8, <1>9 DEF OrdersAt, Resting
  <1>11. h \in OrdersAt(b) /\ \A l \in LevelSlots \ {b} : l \in Placed => h \notin OrdersAt(l)
    <2>1. \A l \in Placed : price_index[level[l].price] = l
      BY PlacedTerms
    <2> QED
      BY <1>2, <2>1 DEF OrdersAt, PriceOf
  <1>12. ASSUME NEW l \in LevelSlots, l \in Placed, l # b
         PROVE  LevelTotals(l)'
    <2>1. \A n \in OrdersAt(l) : node'[n].order.qty = node[n].order.qty
      BY <1>5, <1>11, <1>12, OrdersAtTerms
    <2> QED
      BY <1>7, <1>10, <1>12, <2>1, LevelKeeps DEF Totals
  <1>13. LevelTotals(b)'
    <2>1. PICK f : f = Qty'
      OBVIOUS
    <2>2. \A n \in OrdersAt(b) : Qty[n] \in Int /\ f[n] \in Int
      <3>1. ASSUME NEW n \in OrdersAt(b)
            PROVE  Qty[n] \in Int /\ f[n] \in Int
        <4>1. n \in OrderSlots /\ Qty[n] \in Nat /\ Qty[n] = node[n].order.qty
          BY <1>2, OrdersAtTerms
        <4>2. f[n] = node'[n].order.qty
          BY <2>1, <4>1 DEF Qty
        <4>3. node'[n].order.qty \in Int
          <5>1. CASE n = h
            BY <1>2, <1>6, <5>1
          <5>2. CASE n # h
            BY <1>5, <4>1, <5>2
          <5> QED
            BY <5>1, <5>2
        <4> QED
          BY <4>1, <4>2, <4>3
      <3> QED
        BY <3>1
    <2>3. \A n \in OrdersAt(b) \ {h} : Qty[n] = f[n]
      BY <1>2, <1>5, <2>1, OrdersAtTerms DEF Qty
    <2>4. SumFunctionOnSet(f, OrdersAt(b)) = SumFunctionOnSet(Qty, OrdersAt(b)) - Qty[h] + f[h]
      BY <1>2, <1>11, <2>2, <2>3, OrdersAtTerms, SumChange
    <2>5. f[h] = Qty[h] - order.qty /\ Qty[h] \in Nat /\ order.qty \in Nat
      BY <1>2, <1>6, <2>1 DEF Qty
    <2>6. PICK r : r = SumFunctionOnSet(Qty, OrdersAt(b))
      OBVIOUS
    <2>7. r \in Nat /\ level[b].total_qty = r
      BY <1>2, <2>6, OrdersAtTerms DEF Totals, LevelTotals
    <2>8. SumFunctionOnSet(f, OrdersAt(b)) = r - Qty[h] + f[h]
      BY <2>4, <2>6
    <2>9. level'[b].total_qty = SumFunctionOnSet(f, OrdersAt(b))
      BY <1>7, <2>5, <2>7, <2>8
    <2>10. level[b].order_count = Cardinality(OrdersAt(b))
      BY <1>2 DEF Totals, LevelTotals
    <2> QED
      BY <1>2, <1>7, <1>10, <2>1, <2>9, <2>10 DEF LevelTotals
  <1> QED
    BY <1>2, <1>7, <1>9, <1>12, <1>13 DEF Totals

\* The level of an order that leaves loses what was left of it.
LEMMA TotalsRemoval ==
  ASSUME BookInv, Totals, NEW n \in Resting, Removes(n), phase # "linking"
  PROVE  Totals'
  <1>l. PICK l : l = LevelOf(n)
    OBVIOUS
  <1>1. /\ l \in Placed /\ l \in LevelSlots /\ level[l].price = PriceOf(n) /\ n \in OrderSlots
        /\ \A k \in Placed : level[k].price = PriceOf(n) => k = l
    <2>1. l \in Placed /\ level[l].price = PriceOf(n) /\ n \in OrderSlots
      BY <1>l, RestingTerms DEF LevelOf
    <2> QED
      BY <1>l, <2>1, PlacedTerms DEF LevelOf
  <1>2. /\ \A m \in OrderSlots \ {n} : node'[m].order = node[m].order
        /\ Resting' = Resting \ {n}
    BY RemovedNodes
  <1>3. /\ \A m \in Resting \ {n} : m \in OrderSlots /\ PriceOf(m)' = PriceOf(m)
        /\ n \in OrdersAt(l)
    BY <1>1, <1>2 DEF PriceOf, Resting, OrdersAt
  <1>4. ASSUME NEW k \in LevelSlots, k \in Placed, k # l, level'[k].price = level[k].price,
               level'[k].total_qty = level[k].total_qty, level'[k].order_count = level[k].order_count
        PROVE  LevelTotals(k)'
    <2>1. n \notin OrdersAt(k)
      BY <1>1, <1>4 DEF OrdersAt
    <2>2. OrdersAt(k)' = OrdersAt(k)
      BY <1>2, <1>3, <1>4, <2>1 DEF OrdersAt
    <2>3. \A m \in OrdersAt(k) : node'[m].order.qty = node[m].order.qty
      BY <1>2, <1>3, <2>1 DEF OrdersAt
    <2> QED
      BY <1>4, <2>2, <2>3, LevelKeeps DEF Totals
  <1>5. CASE Alone(n)
    <2>1. /\ level'[l] = FreeLevel(level_free)
          /\ \A k \in LevelSlots \ {l} :
               /\ level'[k].price = level[k].price
               /\ level'[k].total_qty = level[k].total_qty
               /\ level'[k].order_count = level[k].order_count
          /\ Placed' = Placed \ {l}
      BY <1>l, <1>5, RemovedLevel
    <2>2. level'[l].total_qty = 0 /\ level'[l].order_count = 0
      BY <2>1 DEF FreeLevel
    <2> QED
      BY <1>1, <1>4, <2>1, <2>2 DEF Totals
  <1>6. CASE ~Alone(n)
    <2>1. /\ \A k \in LevelSlots : level'[k].price = level[k].price
          /\ \A k \in LevelSlots \ {l} :
               /\ level'[k].total_qty = level[k].total_qty
               /\ level'[k].order_count = level[k].order_count
          /\ level'[l].total_qty = level[l].total_qty - node[n].order.qty
          /\ level'[l].order_count = level[l].order_count - 1
          /\ Placed' = Placed
      BY <1>l, <1>1, <1>6, RemovedFromLevel
    <2>2. OrdersAt(l)' = OrdersAt(l) \ {n}
      BY <1>1, <1>2, <1>3, <2>1 DEF OrdersAt
    <2>3. \A m \in OrdersAt(l) \ {n} : node'[m].order.qty = node[m].order.qty
      BY <1>2, <1>3 DEF OrdersAt
    <2>4. LevelTotals(l)'
      BY <1>1, <1>3, <2>1, <2>2, <2>3, LevelLoses DEF Totals
    <2> QED
      BY <1>1, <1>4, <2>1, <2>4 DEF Totals
  <1> QED
    BY <1>5, <1>6

\* The order in hand joins level l, which may be the one being linked.
LEMMA TotalsGain ==
  ASSUME BookInv, Totals, NEW n \in OrderSlots, n \notin Resting, Resting' = Resting \cup {n},
         order \in Order, node'[n].order = order,
         \A m \in Resting : node'[m].order = node[m].order,
         NEW l \in LevelSlots, LevelTotals(l), level[l].price = order.price,
         \A k \in LevelSlots : level'[k].price = level[k].price,
         \A k \in Placed : level[k].price = order.price => k = l,
         Placed' = Placed \cup {l},
         level'[l].total_qty = level[l].total_qty + order.qty,
         level'[l].order_count = level[l].order_count + 1,
         \A k \in LevelSlots \ {l} : /\ level'[k].total_qty = level[k].total_qty
                                     /\ level'[k].order_count = level[k].order_count
  PROVE  Totals'
  <1>1. \A k \in LevelSlots :
          OrdersAt(k)' = IF level[k].price = order.price THEN OrdersAt(k) \cup {n} ELSE OrdersAt(k)
    BY DEF OrdersAt, PriceOf
  <1>2. \A k \in LevelSlots : \A m \in OrdersAt(k) : node'[m].order.qty = node[m].order.qty
    BY DEF OrdersAt
  <1>3. LevelTotals(l)'
    <2>1. order.qty \in Nat
      BY OrderTerms
    <2>2. n \notin OrdersAt(l) /\ OrdersAt(l)' = OrdersAt(l) \cup {n}
      BY <1>1 DEF OrdersAt
    <2>3. \A m \in OrdersAt(l) : node'[m].order.qty = node[m].order.qty
      BY <1>2
    <2>4. PICK q : q = order.qty
      OBVIOUS
    <2> QED
      BY <2>1, <2>2, <2>3, <2>4, LevelGains
  <1>4. ASSUME NEW k \in LevelSlots, k \in Placed, k # l
        PROVE  LevelTotals(k)'
    <2>1. OrdersAt(k)' = OrdersAt(k)
      BY <1>1, <1>4
    <2> QED
      BY <1>2, <1>4, <2>1, LevelKeeps DEF Totals
  <1> QED
    BY <1>3, <1>4 DEF Totals

\* The level that an order joins gains its quantity.
LEMMA TotalsRestAtLevel ==
  ASSUME BookInv, Totals, RestAtLevel
  PROVE  Totals'
  <1>l. PICK l : l = price_index[order.price]
    OBVIOUS
  <1>n. PICK n : n = order_free
    OBVIOUS
  <1>1. /\ phase = "matching" /\ n # NULL_IDX /\ l # NULL_IDX
        /\ level' = [level EXCEPT ![l] = Pushed(@, n, order.qty)]
        /\ level_idx' = level_idx
    BY <1>l, <1>n DEF RestAtLevel, MustRest, MatchingOver, locals
  <1>2. order \in Order /\ order.price \in Prices
    BY <1>1, OrderIsNew, OrderTerms
  <1>3. n \in OrderSlots
    BY <1>1, <1>n, Allocated
  <1>4. /\ Resting' = Resting \cup {n} /\ n \notin Resting
        /\ node'[n].order = order
        /\ \A m \in Resting : node'[m].order = node[m].order
    BY <1>n, BookRestAtLevel
  <1>5. /\ l \in LevelSlots /\ level[l].active /\ level[l].price = order.price /\ l \in Placed
        /\ \A k \in Placed : level[k].price = order.price => k = l
    <2>1. l \in LevelSlots
      BY <1>l, <1>1, <1>2 DEF BookInv, Shape, LevelIdx
    <2>2. level[l].active /\ level[l].price = order.price
      BY <1>l, <1>1, <1>2 DEF BookInv, LevelsIndexed
    <2>3. level_idx = NULL_IDX
      BY <1>1 DEF BookInv, Linking
    <2>4. l \in Placed
      BY <1>1, <2>1, <2>2, <2>3 DEF Placed
    <2> QED
      BY <1>l, <2>1, <2>2, <2>4, PlacedTerms
  <1>6. level \in [LevelSlots -> LooseLevel]
    BY DEF BookInv, Shape
  <1>7. /\ \A k \in LevelSlots : level'[k].price = level[k].price /\ level'[k].active = level[k].active
        /\ \A k \in LevelSlots \ {l} : level'[k] = level[k]
        /\ level'[l].total_qty = level[l].total_qty + order.qty
        /\ level'[l].order_count = level[l].order_count + 1
    BY <1>1, <1>5, <1>6 DEF LooseLevel, Pushed
  <1>8. Placed' = Placed \cup {l}
    BY <1>1, <1>5, <1>7 DEF Placed
  <1>9. LevelTotals(l)
    BY <1>5 DEF Totals
  <1> QED
    BY <1>2, <1>3, <1>4, <1>5, <1>7, <1>8, <1>9, TotalsGain

\* A level that is linked starts with its first order's.
LEMMA TotalsInserted ==
  ASSUME BookInv, Totals, NEW x, NEW n, NEW prev, NEW next, Inserts(x, n, prev, next)
  PROVE  Totals'
  <1>1. /\ order \in Order
        /\ x \in LevelSlots /\ x \notin Placed
        /\ level[x] = [FreeLevel(NULL_IDX) EXCEPT !.price = order.price, !.active = TRUE]
        /\ \A k \in Placed : level[k].price # order.price
        /\ n \in OrderSlots
        /\ \A m \in Resting : PriceOf(m) # order.price
    BY InsertTerms
  <1>2. /\ Resting' = Resting \cup {n} /\ n \notin Resting
        /\ node'[n].order = order
        /\ \A m \in Resting : node'[m].order = node[m].order
    BY BookInserted
  <1>3. level[x].price = order.price /\ level[x].total_qty = 0 /\ level[x].order_count = 0
    BY <1>1 DEF FreeLevel
  <1>4. OrdersAt(x) = {}
    BY <1>1, <1>3 DEF OrdersAt
  <1>5. LevelTotals(x)
    BY <1>3, <1>4, FS_EmptySet, SumEmpty DEF LevelTotals
  <1>6. /\ \A k \in LevelSlots : level'[k].price = level[k].price
        /\ level'[x].total_qty = order.qty /\ level'[x].order_count = 1
        /\ \A k \in LevelSlots \ {x} : level'[k].total_qty = level[k].total_qty
                                       /\ level'[k].order_count = level[k].order_count
        /\ Placed' = Placed \cup {x}
    BY InsertedLevels
  <1>7. level'[x].total_qty = level[x].total_qty + order.qty
        /\ level'[x].order_count = level[x].order_count + 1
    <2>1. order.qty \in Nat
      BY <1>1, OrderTerms
    <2> QED
      BY <1>3, <1>6, <2>1
  <1>8. \A k \in Placed : level[k].price = order.price => k = x
    BY <1>1
  <1> QED
    BY <1>1, <1>2, <1>3, <1>5, <1>6, <1>7, <1>8, TotalsGain

\* A level that is allocated starts empty.
LEMMA TotalsOpenLevel ==
  ASSUME BookInv, Totals, OpenLevel
  PROVE  Totals'
  <1>1. /\ phase = "matching" /\ level_free # NULL_IDX
        /\ level' = [level EXCEPT ![level_free] =
                       [FreeLevel(NULL_IDX) EXCEPT !.price = order.price, !.active = TRUE]]
        /\ level_idx' = level_free
    BY DEF OpenLevel, MustRest, MatchingOver
  <1>2. PICK x : x = level_free
    OBVIOUS
  <1>3. /\ x \in LevelSlots /\ ~level[x].active
        /\ level \in [LevelSlots -> LooseLevel] /\ level_idx = NULL_IDX
    BY <1>1, <1>2 DEF BookInv, Shape, LevelIdx, FreeLevels, IsChain, Linking
  <1>4. /\ \A k \in LevelSlots \ {x} : level'[k] = level[k]
        /\ level'[x].total_qty = 0 /\ level'[x].order_count = 0
    BY <1>1, <1>2, <1>3 DEF FreeLevel
  <1>5. x \notin Placed /\ Placed' = Placed
    BY <1>1, <1>2, <1>3, <1>4, NullIsNoSlot DEF Placed
  <1>6. Resting' = Resting /\ \A m \in Resting : node'[m] = node[m]
    BY BookOpenLevel
  <1>7. ASSUME NEW l \in LevelSlots, l \in Placed
        PROVE  LevelTotals(l)'
    <2>1. level'[l] = level[l]
      BY <1>4, <1>5, <1>7
    <2>2. OrdersAt(l)' = OrdersAt(l)
      BY <1>6, <2>1 DEF OrdersAt, PriceOf
    <2>3. \A n \in OrdersAt(l) : node'[n].order.qty = node[n].order.qty
      BY <1>6 DEF OrdersAt
    <2> QED
      BY <1>7, <2>1, <2>2, <2>3, LevelKeeps DEF Totals
  <1> QED
    BY <1>4, <1>5, <1>7 DEF Totals

\* Every step keeps the totals.
LEMMA TotalsNext == BookInv /\ Totals /\ [Next]_vars => Totals'
  <1> SUFFICES ASSUME BookInv, Totals, [Next]_vars PROVE Totals'
    OBVIOUS
  \* Most steps leave the book alone.
  <1>0. UNCHANGED <<node, level, level_idx, order_index>> => Totals'
    BY TotalsStay DEF Resting, Placed, Id
  <1>1. CASE UNCHANGED vars \/ LinkWalk
    BY <1>0, <1>1 DEF vars, LinkWalk, arenas, indexes, locals
  <1>2. CASE ProcessAny
    BY <1>0, <1>2 DEF ProcessAny, Process, arenas, indexes, locals
  <1>3. CASE CancelAny
    <2>1. PICK user \in Users, ref \in (1..MaxId) \cup ClientIds :
            \/ CancelOrder(user, ref) \/ CancelUnauthorized(user, ref) \/ CancelNotFound(user, ref)
      BY <1>3 DEF CancelAny
    <2>2. CASE CancelOrder(user, ref)
      <3>1. PICK n : n = order_index[Resolved(user, ref)].node_idx
        OBVIOUS
      <3>2. Removes(n)
        BY <2>2, <3>1, BookCancelOrder
      <3>3. n \in Resting /\ phase = "idle"
        BY <2>2, <3>2 DEF Removes, CancelOrder
      <3> QED
        BY <3>2, <3>3, TotalsRemoval
    <2>3. CASE CancelUnauthorized(user, ref) \/ CancelNotFound(user, ref)
      BY <1>0, <2>3 DEF CancelUnauthorized, CancelNotFound, CancelAnswer, arenas, indexes, locals
    <2> QED
      BY <2>1, <2>2, <2>3
  <1>4. CASE FillPartial
    BY <1>4, TotalsFillPartial
  <1>5. CASE FillWhole
    <2>1. PICK n : n = HeadOrder
      OBVIOUS
    <2>2. Removes(n) /\ n \in Resting /\ phase = "matching"
      BY <1>5, <2>1, BookFillWhole DEF FillWhole, CanMatch, Removes
    <2> QED
      BY <2>2, TotalsRemoval
  <1>6. CASE SelfTrade \/ Finish \/ RestNoOrderSlot \/ Return
    BY <1>0, <1>6 DEF SelfTrade, Finish, RestNoOrderSlot, Return, arenas, indexes, locals
  <1>7. CASE RestNoLevelSlot
    <2>1. /\ phase = "matching" /\ order_free # NULL_IDX
          /\ node' = NodesAfterAllocate /\ UNCHANGED <<level, order_index, level_idx>>
      BY <1>7 DEF RestNoLevelSlot, MustRest, MatchingOver, indexes, locals
    <2>2. /\ order_free \notin Resting
          /\ \A m \in OrderSlots : m # order_free => node'[m] = node[m]
          /\ node'[order_free].order = order /\ order_free \in OrderSlots
      BY <2>1, Allocated
    <2>3. order_index[order.id] = None
      BY <2>1, OrderIsNew
    <2>4. Resting' = Resting
      BY <2>1, <2>2, <2>3 DEF Resting, Id
    <2>5. Placed' = Placed
      BY <2>1 DEF Placed
    <2>6. \A m \in Resting : node'[m].order = node[m].order
      BY <2>2 DEF Resting
    <2> QED
      BY <2>1, <2>4, <2>5, <2>6, TotalsStay
  <1>8. CASE RestAtLevel
    BY <1>8, TotalsRestAtLevel
  <1>9. CASE OpenLevel
    BY <1>9, TotalsOpenLevel
  <1>10. CASE LinkFirst
    <2>1. PICK x, n, next : x = level_idx /\ n = node_idx /\ next = best[SideOf(order)]
      OBVIOUS
    <2>2. Inserts(x, n, NULL_IDX, next)
      BY <1>10, <2>1 DEF LinkFirst, GoesFirst, Inserts
    <2> QED
      BY <2>2, TotalsInserted
  <1>11. CASE LinkAfter
    <2>1. PICK x, n, prev, next : x = level_idx /\ n = node_idx /\ prev = curr /\ next = level[curr].next_level
      OBVIOUS
    <2>2. Inserts(x, n, prev, next)
      BY <1>11, <2>1, CursorTerms DEF LinkAfter, WalkGoesOn, Inserts
    <2> QED
      BY <2>2, TotalsInserted
  <1> QED
    BY <1>1, <1>2, <1>3, <1>4, <1>5, <1>6, <1>7, <1>8, <1>9, <1>10, <1>11 DEF Next, Work

\* The totals get_bbo and get_depth report are those of the queues, in every
\* reachable state of every instance: fills, cancellations and insertions
\* maintain them one order at a time, each in its own code.
LEMMA DepthFollows ==
  ASSUME BookInv, Totals
  PROVE  DepthExact
  <1>1. Ladders = Placed
    BY ReachedIs
  <1>2. ASSUME NEW l \in Placed
        PROVE  /\ level[l].order_count = Cardinality(Queue(l))
               /\ level[l].total_qty =
                    SumFunctionOnSet([n \in OrderSlots |-> node[n].order.qty], Queue(l))
    <2>1. Queue(l) = OrdersAt(l)
      BY QueueIs
    <2>2. LevelTotals(l)
      BY PlacedTerms DEF Totals
    <2> QED
      BY <2>1, <2>2 DEF LevelTotals, Qty
  <1> QED
    BY <1>1, <1>2 DEF DepthExact

\* They hold throughout.
LEMMA TotalsInvariant == Spec => []Totals
  <1>1. Init => Totals
    BY DEF Init, Totals, Placed, FreeLevel
  <1>2. BookInv /\ Totals /\ [Next]_vars => Totals'
    BY TotalsNext
  <1> QED
    BY <1>1, <1>2, BookInvariant, PTL DEF Spec

\* The depth a level reports is that of its queue, exactly: the quantity and
\* count that are kept by adding and subtracting never drift (total_qty and
\* order_count in push_order, pop_order, unlink_order and match_level).
THEOREM DepthIsExact == Spec => []DepthExact
  BY DepthFollows, BookInvariant, TotalsInvariant, PTL

\* The level's totals are what the invariant's types leave open.
LEMMA TypesFollow ==
  ASSUME BookInv, Totals
  PROVE  TypeOK
  <1>1. \A l \in LevelSlots : level[l].total_qty \in Nat /\ level[l].order_count \in Nat
    <2>1. ASSUME NEW l \in LevelSlots
          PROVE  level[l].total_qty \in Nat /\ level[l].order_count \in Nat
      <3>1. CASE l \in Placed
        BY <3>1, OrdersAtTerms DEF Totals, LevelTotals
      <3>2. CASE l \notin Placed
        BY <3>2 DEF Totals
      <3> QED
        BY <3>1, <3>2
    <2> QED
      BY <2>1
  <1>2. level \in [LevelSlots -> LooseLevel]
    BY DEF BookInv, Shape
  <1>3. ASSUME NEW l \in LevelSlots
        PROVE  level[l] \in PriceLevelNode
    <2>1. level[l] \in LooseLevel /\ level[l].total_qty \in Nat /\ level[l].order_count \in Nat
      BY <1>1, <1>2
    <2> QED
      BY <2>1 DEF LooseLevel, PriceLevelNode
  <1>4. level \in [LevelSlots -> PriceLevelNode]
    BY <1>2, <1>3
  <1> QED
    BY <1>4 DEF BookInv, Shape, TypeOK

\* Every variable stays in its type: in particular no subtraction from a
\* level's unsigned totals goes below zero.
THEOREM BookTypeCorrect == Spec => []TypeOK
  BY TypesFollow, BookInvariant, TotalsInvariant, PTL

-----------------------------------------------------------------------------
(* The book implements price-time priority. *)

\* The orders that rest.
Book == {node[n].order : n \in Resting}

\* They are those the pointers lead to.
LEMMA BookIs == BookInv => RestingOrders = Book
  BY ReachedIs DEF RestingOrders, Book

\* And still are after a step.
LEMMA BookIsNext == BookInv' => (RestingOrders = Book)'
  BY BookIs, PTL

\* The vocabulary of orders is the same in both.
LEMMA Vocabulary ==
  /\ \A a, b : PT!Better(a, b) <=> Better(a, b)
  /\ \A o, p : PT!Crosses(o, p) <=> Crosses(o, p)
  /\ \A side : PT!OtherSide(side) = OtherSide(side)
  /\ \A o : PT!SideOf(o) = SideOf(o)
  /\ \A o, m, q : PT!TradeBetween(o, m, q) = TradeBetween(o, m, q)
  /\ \A a, b, c : PT!Ok(a, b, c) = Ok(a, b, c)
  /\ \A r : PT!Err(r) = Err(r)
  /\ PT!NoResult = NoResult
  BY DEF PT!Better, PT!BetterPrice, PT!Crosses, PT!HasBoundary, PT!OtherSide, PT!SideOf,
         PT!TradeBetween, PT!Ok, PT!Err, PT!NoResult,
         Better, BetterPrice, Crosses, HasBoundary, OtherSide, SideOf, TradeBetween, Ok, Err, NoResult

\* There is one book: every order is of its symbol.
LEMMA SymbolsAgree == \A s, t \in Symbols : s = t
  BY OneSymbol

\* An order of the book is at one slot.
LEMMA BookTerms ==
  ASSUME BookInv, NEW n \in Resting
  PROVE  /\ node[n].order \in Book /\ node[n].order \in Order
         /\ \A m \in Resting : node[m].order = node[n].order => m = n
  BY RestingTerms, RestingIdsDiffer DEF Book, Id

\* The set of orders when a slot is emptied.
LEMMA BookLoses ==
  ASSUME BookInv, NEW n \in Resting, Resting' = Resting \ {n},
         \A m \in Resting \ {n} : node'[m].order = node[m].order
  PROVE  Book' = Book \ {node[n].order}
  <1>1. \A m \in Resting \ {n} : node[m].order # node[n].order
    BY BookTerms
  <1> QED
    BY <1>1 DEF Book

\* The set of orders when a slot is filled.
LEMMA BookGains ==
  ASSUME NEW n, Resting' = Resting \cup {n}, n \notin Resting,
         \A m \in Resting : node'[m].order = node[m].order
  PROVE  Book' = Book \cup {node'[n].order}
  BY DEF Book

\* The set of orders when one is reduced.
LEMMA BookChanges ==
  ASSUME BookInv, NEW n \in Resting, Resting' = Resting,
         \A m \in Resting \ {n} : node'[m].order = node[m].order
  PROVE  Book' = (Book \ {node[n].order}) \cup {node'[n].order}
  <1>1. \A m \in Resting \ {n} : node[m].order # node[n].order
    BY BookTerms
  <1> QED
    BY <1>1 DEF Book

\* The set of orders when none is touched.
LEMMA BookStays ==
  ASSUME Resting' = Resting, \A m \in Resting : node'[m].order = node[m].order
  PROVE  Book' = Book
  BY DEF Book

\* An entry written in the client index, as PriceTime writes it.
LEMMA ClientIndexIs ==
  ASSUME BookInv, NEW o \in Order, NEW id \in 0..MaxId,
         client_order_index' = [client_order_index EXCEPT ![ClientKey(o)] = id]
  PROVE  ClientIndex' = [ClientIndex EXCEPT ![PT!ClientKey(o)] = id]
  <1>1. /\ o.user_id \in Users /\ o.symbol_id \in Symbols /\ o.client_order_id \in ClientIds
    BY OrderTerms
  <1>2. \A s \in Symbols : s = o.symbol_id
    BY <1>1, SymbolsAgree
  <1>3. client_order_index \in [Users \X ClientIds -> 0..MaxId]
    BY DEF BookInv, Shape
  <1>4. ASSUME NEW u \in Users, NEW s \in Symbols, NEW c \in ClientIds
        PROVE  client_order_index'[<<u, c>>] =
                 IF <<u, s, c>> = PT!ClientKey(o) THEN id ELSE client_order_index[<<u, c>>]
    BY <1>1, <1>2, <1>3 DEF ClientKey, PT!ClientKey
  <1>5. ClientIndex' = [k \in Users \X Symbols \X ClientIds |->
                          IF k = PT!ClientKey(o) THEN id ELSE client_order_index[<<k[1], k[3]>>]]
    <2>1. \A k \in Users \X Symbols \X ClientIds :
            client_order_index'[<<k[1], k[3]>>] =
              IF k = PT!ClientKey(o) THEN id ELSE client_order_index[<<k[1], k[3]>>]
      <3>1. ASSUME NEW k \in Users \X Symbols \X ClientIds
            PROVE  client_order_index'[<<k[1], k[3]>>] =
                     IF k = PT!ClientKey(o) THEN id ELSE client_order_index[<<k[1], k[3]>>]
        <4>1. /\ k[1] \in Users /\ k[2] \in Symbols /\ k[3] \in ClientIds
              /\ k = <<k[1], k[2], k[3]>>
          OBVIOUS
        <4>2. PICK u, t, c : u = k[1] /\ t = k[2] /\ c = k[3]
          OBVIOUS
        <4>3. u \in Users /\ t \in Symbols /\ c \in ClientIds
          BY <4>1, <4>2
        <4>4. client_order_index'[<<u, c>>] =
                IF <<u, t, c>> = PT!ClientKey(o) THEN id ELSE client_order_index[<<u, c>>]
          BY ONLY <1>4, <4>3, Zenon
        <4> QED
          BY <4>1, <4>2, <4>4
      <3> QED
        BY <3>1
    <2> QED
      BY <2>1 DEF ClientIndex
  <1>6. [ClientIndex EXCEPT ![PT!ClientKey(o)] = id] =
          [k \in Users \X Symbols \X ClientIds |->
             IF k = PT!ClientKey(o) THEN id ELSE client_order_index[<<k[1], k[3]>>]]
    BY DEF ClientIndex
  <1> QED
    BY <1>5, <1>6

\* The head of the best level is the best order to trade with.
LEMMA HeadIsBest ==
  ASSUME BookInv, phase = "matching", LoopGoesOn
  PROVE  Maker \in RestingOrders /\ PT!IsBestFor(Maker, order)
  <1>1. /\ order \in Order /\ Opposite \in Side
        /\ BestLevel \in Placed /\ LevelSide(BestLevel) = Opposite
        /\ HeadOrder \in Resting
        /\ Maker \in Order
        /\ Maker.price = level[BestLevel].price /\ SideOf(Maker) = Opposite
    BY MakerTerms
  <1>2. RestingOrders = Book
    BY BookIs
  <1>3. \A o, p \in Order : o.symbol_id = p.symbol_id
    BY OrderTerms, SymbolsAgree
  <1>4. Maker \in Book
    BY <1>1 DEF Book, Maker
  <1>5. ASSUME NEW n \in Resting, SideAt(n) = Opposite, n # HeadOrder
        PROVE  Better(Maker, node[n].order)
    <2>1. PICK k : k = price_index[PriceOf(n)]
      OBVIOUS
    <2>2. k \in Placed /\ level[k].price = PriceOf(n) /\ PriceOf(n) \in Nat
      BY <2>1, RestingTerms
    <2>3. level[k].head_order \in Resting /\ PriceOf(level[k].head_order) = level[k].price
      BY <2>2, PlacedTerms
    <2>4. LevelSide(k) = Opposite
      BY <1>5, <2>2, <2>3 DEF BookInv, OneSideAPrice, LevelSide
    <2>5. CASE k = BestLevel
      <3>1. Ahead(HeadOrder, n)
        BY <1>1, <1>5, <2>2, <2>5 DEF BookInv, QueueEnds, HeadOrder
      <3> QED
        BY <3>1 DEF Ahead, Better, Maker, PriceOf, Id
    <2>6. CASE k # BestLevel
      <3>1. Above(BestLevel, k)
        BY <1>1, <2>2, <2>4, <2>6, NullIsNoSlot, PlacedTerms DEF BookInv, LadderTops, BestLevel
      <3> QED
        BY <1>1, <2>2, <3>1 DEF Above, Better, PriceOf
    <2> QED
      BY <2>5, <2>6
  <1>6. PT!OppositeOrders(order) = {o \in Book : SideOf(o) = Opposite}
    <2>1. \A o \in Book : o \in Order
      BY BookTerms DEF Book
    <2> QED
      BY <1>1, <1>2, <1>3, <2>1, Vocabulary DEF PT!OppositeOrders, Opposite
  <1>7. \A o \in PT!OppositeOrders(order) \ {Maker} : Better(Maker, o)
    <2>1. ASSUME NEW o \in PT!OppositeOrders(order) \ {Maker}
          PROVE  Better(Maker, o)
      <3>1. PICK n \in Resting : o = node[n].order
        BY <1>6 DEF Book
      <3>2. SideAt(n) = Opposite /\ n # HeadOrder
        BY <1>6, <3>1 DEF SideAt, Maker
      <3> QED
        BY <1>5, <3>1, <3>2
    <2> QED
      BY <2>1
  <1>8. Maker \in PT!OppositeOrders(order)
    BY <1>1, <1>4, <1>6
  <1> QED
    BY <1>2, <1>4, <1>7, <1>8, Vocabulary DEF PT!IsBestFor

\* The loop ends when nothing is left to trade or nothing is acceptable.
LEMMA LoopIsOver ==
  ASSUME BookInv, phase \in {"matching", "linking"}, ~LoopGoesOn
  PROVE  PT!MatchingOver
  <1>1. order \in Order /\ CallPhase = "matching"
    BY DEF BookInv, InHand, CallPhase
  <1>2. CASE order.qty > 0
    <2>1. ASSUME NEW o \in PT!OppositeOrders(order)
          PROVE  ~Crosses(order, o.price)
      <3>1. o \in Book /\ SideOf(o) = Opposite
        BY BookIs, Vocabulary DEF PT!OppositeOrders, Opposite
      <3>2. PICK n \in Resting : o = node[n].order
        BY <3>1 DEF Book
      <3>3. PICK k : k = price_index[PriceOf(n)]
        OBVIOUS
      <3>4. k \in Placed /\ level[k].price = PriceOf(n)
        BY <3>3, RestingTerms
      <3>5. level[k].head_order \in Resting /\ PriceOf(level[k].head_order) = level[k].price
        BY <3>4, PlacedTerms
      <3>6. LevelSide(k) = Opposite
        BY <3>1, <3>2, <3>4, <3>5 DEF BookInv, OneSideAPrice, LevelSide, SideAt
      <3>7. ~Crosses(order, level[k].price)
        BY <1>1, <1>2, <3>4, <3>6, NothingCrosses
      <3> QED
        BY <3>2, <3>4, <3>7 DEF PriceOf
    <2> QED
      BY <1>1, <2>1, Vocabulary DEF PT!MatchingOver
  <1>3. CASE ~(order.qty > 0)
    <2>1. order.qty = 0
      BY <1>1, <1>3, OrderTerms
    <2> QED
      BY <1>1, <2>1 DEF PT!MatchingOver
  <1> QED
    BY <1>2, <1>3

\* What a reference resolves to.
LEMMA NamedIs ==
  ASSUME BookInv, NEW s \in Symbols, NEW id
  PROVE  PT!Named(s, id) =
           IF id \in 1..MaxId /\ order_index[id] # None
           THEN {node[order_index[id].node_idx].order} ELSE {}
  <1>1. PT!Named(s, id) = {o \in Book : o.id = id}
    <2>1. \A o \in Book : o.symbol_id = s
      BY BookTerms, OrderTerms, SymbolsAgree DEF Book
    <2> QED
      BY <2>1, BookIs DEF PT!Named
  <1>2. CASE id \in 1..MaxId /\ order_index[id] # None
    <2>1. PICK n : n = order_index[id].node_idx
      OBVIOUS
    <2>2. n \in Resting /\ Id(n) = id
      BY <1>2, <2>1, FoundTerms
    <2>3. \A m \in Resting : Id(m) = id => m = n
      BY <2>2, RestingIdsDiffer
    <2>4. {o \in Book : o.id = id} = {node[n].order}
      BY <2>2, <2>3 DEF Book, Id
    <2> QED
      BY <1>1, <1>2, <2>1, <2>4
  <1>3. CASE ~(id \in 1..MaxId /\ order_index[id] # None)
    <2>1. \A n \in Resting : Id(n) # id
      BY <1>3, RestingTerms DEF Resting
    <2>2. {o \in Book : o.id = id} = {}
      BY <2>1 DEF Book, Id
    <2> QED
      BY <1>1, <1>3, <2>2
  <1> QED
    BY <1>2, <1>3

\* A cancellation's reference resolves to the same order in both.
LEMMA ResolvedIs ==
  ASSUME BookInv, NEW user \in Users, NEW s \in Symbols, NEW ref \in (1..MaxId) \cup ClientIds
  PROVE  PT!Resolved(user, s, ref) =
           IF Found(Resolved(user, ref))
           THEN {node[order_index[Resolved(user, ref)].node_idx].order} ELSE {}
  <1>1. CASE ref \in 1..MaxId /\ order_index[ref] # None
    <2>1. Resolved(user, ref) = ref /\ Found(ref)
      BY <1>1 DEF Resolved, Found
    <2>2. PT!Named(s, ref) = {node[order_index[ref].node_idx].order}
      BY <1>1, NamedIs
    <2> QED
      BY <2>1, <2>2 DEF PT!Resolved
  <1>2. CASE ~(ref \in 1..MaxId /\ order_index[ref] # None)
    <2>1. PT!Named(s, ref) = {}
      BY <1>2, NamedIs
    <2>2. CASE ref \in ClientIds
      <3>1. PICK id : id = client_order_index[<<user, ref>>]
        OBVIOUS
      <3>2. id \in 0..MaxId
        BY <2>2, <3>1 DEF BookInv, Shape
      <3>3. Resolved(user, ref) = id
        BY <1>2, <2>2, <3>1 DEF Resolved
      <3>4. <<user, s, ref>> \in PT!ClientKeys /\ ClientIndex[<<user, s, ref>>] = id
        BY <2>2, <3>1 DEF PT!ClientKeys, ClientIndex
      <3>5. PT!Resolved(user, s, ref) = PT!Named(s, id)
        BY <2>1, <3>4 DEF PT!Resolved
      <3>6. Found(id) <=> id \in 1..MaxId /\ order_index[id] # None
        BY <3>2 DEF Found
      <3> QED
        BY <3>3, <3>5, <3>6, NamedIs
    <2>3. CASE ref \notin ClientIds
      <3>1. <<user, s, ref>> \notin PT!ClientKeys
        BY <2>3 DEF PT!ClientKeys
      <3>2. PT!Resolved(user, s, ref) = {}
        BY <2>1, <3>1 DEF PT!Resolved
      <3>3. Resolved(user, ref) = 0 /\ ~Found(0)
        BY <1>2, <2>3 DEF Resolved, Found
      <3> QED
        BY <3>2, <3>3
    <2> QED
      BY <2>2, <2>3
  <1> QED
    BY <1>1, <1>2

\* The empty book is the empty set.
LEMMA RefineInit == Init => PT!Init
  <1> SUFFICES ASSUME Init PROVE PT!Init
    OBVIOUS
  <1>1. BookInv
    BY InitBook
  <1>2. Resting = {}
    BY DEF Init, Resting, FreeNode
  <1>3. RestingOrders = {}
    BY <1>1, <1>2, BookIs DEF Book
  <1>4. ClientIndex = [k \in PT!ClientKeys |-> 0]
    <2>1. \A k \in Users \X Symbols \X ClientIds : client_order_index[<<k[1], k[3]>>] = 0
      BY DEF Init
    <2> QED
      BY <2>1 DEF ClientIndex, PT!ClientKeys
  <1> QED
    BY <1>3, <1>4, Vocabulary DEF Init, PT!Init, CallPhase

\* The steps that leave the book as it is.
LEMMA BookUntouched ==
  ASSUME BookInv, BookInv', UNCHANGED <<arenas, indexes>>
  PROVE  RestingOrders' = RestingOrders /\ ClientIndex' = ClientIndex
  <1>1. Resting' = Resting
    BY DEF arenas, indexes, Resting, Id
  <1>2. Book' = Book
    BY <1>1, BookStays DEF arenas
  <1>3. RestingOrders = Book /\ RestingOrders' = Book'
    BY BookIs, BookIsNext
  <1> QED
    BY <1>2, <1>3 DEF indexes, ClientIndex

\* A new order in hand is one in PriceTime.
LEMMA RefineProcess ==
  ASSUME BookInv, BookInv', NEW o \in Submissions, Process(o)
  PROVE  PT!Next
  <1>1. UNCHANGED <<arenas, indexes>>
    BY DEF Process
  <1>2. PT!Submit(o)
    BY <1>1, BookUntouched DEF Process, PT!Submit, CallPhase
  <1>3. o \in PT!Submissions
    BY DEF Submissions, PT!Submissions
  <1> QED
    BY <1>2, <1>3 DEF PT!Next, PT!SubmitAny

\* A cancellation is one in PriceTime, with the same answer.
LEMMA RefineCancel ==
  ASSUME BookInv, BookInv', NEW user \in Users, NEW ref \in (1..MaxId) \cup ClientIds,
         CancelOrder(user, ref) \/ CancelUnauthorized(user, ref) \/ CancelNotFound(user, ref)
  PROVE  PT!Next
  <1>1. PICK s \in Symbols : TRUE
    BY OneSymbol
  <1>i. PICK id : id = Resolved(user, ref)
    OBVIOUS
  <1>2. PT!CancelOk(user, s, ref) \/ PT!CancelUnauthorized(user, s, ref)
          \/ PT!CancelNotFound(user, s, ref) => PT!CancelAny
    BY DEF PT!CancelAny
  <1>3. PT!Resolved(user, s, ref) =
          IF Found(id) THEN {node[order_index[id].node_idx].order} ELSE {}
    BY <1>i, ResolvedIs
  <1>4. CASE CancelOrder(user, ref)
    <2>1. PICK n : n = order_index[id].node_idx
      OBVIOUS
    <2>2. Found(id) /\ order_index[id].user_id = user /\ phase = "idle" /\ id \in 1..MaxId /\ order_index[id] # None
      BY <1>4, <1>i, ResolvedTerms DEF CancelOrder
    <2>3. /\ n \in Resting
          /\ node[n].order.user_id = user
          /\ node[n].order.client_order_id = order_index[id].client_order_id
      BY <2>1, <2>2, FoundTerms
    <2>4. Removes(n) /\ RemoveOrder(id)
      BY <1>4, <1>i, <2>1, BookCancelOrder
    <2>5. PICK o : o = node[n].order
      OBVIOUS
    <2>6. o \in Order /\ o \in PT!Resolved(user, s, ref) /\ o.user_id = user
      BY <1>3, <2>1, <2>2, <2>3, <2>5, BookTerms
    <2>7. /\ client_order_index' = [client_order_index EXCEPT ![ClientKey(o)] = 0]
          /\ CancelAnswer(o, Ok(0, o.qty, FALSE))
      BY <2>1, <2>2, <2>3, <2>4, <2>5 DEF RemoveOrder, Forget, ClientKey
    <2>8. ClientIndex' = [ClientIndex EXCEPT ![PT!ClientKey(o)] = 0]
      <3>1. 0 \in 0..MaxId
        OBVIOUS
      <3> QED
        BY <2>6, <2>7, <3>1, ClientIndexIs
    <2>9. RestingOrders' = RestingOrders \ {o}
      <3>1. Resting' = Resting \ {n} /\ \A m \in Resting \ {n} : node'[m].order = node[m].order
        BY <2>3, <2>4, RemovedNodes DEF Resting
      <3> QED
        BY <2>3, <2>5, <3>1, BookLoses, BookIs, BookIsNext
    <2>10. PT!CancelAnswer(o, PT!Ok(0, o.qty, FALSE)) /\ CallPhase = "idle"
      BY <2>2, <2>7, Vocabulary DEF CancelAnswer, PT!CancelAnswer, CallPhase
    <2>11. PT!CancelOk(user, s, ref)
      BY <2>6, <2>8, <2>9, <2>10 DEF PT!CancelOk
    <2> QED
      BY <1>2, <2>11 DEF PT!Next
  <1>5. CASE CancelUnauthorized(user, ref)
    <2>1. Found(id) /\ order_index[id].user_id # user /\ id \in 1..MaxId /\ order_index[id] # None
      BY <1>5, <1>i, ResolvedTerms DEF CancelUnauthorized
    <2>2. \E o \in PT!Resolved(user, s, ref) : o.user_id # user
      BY <1>3, <2>1, FoundTerms
    <2>3. /\ RestingOrders' = RestingOrders /\ ClientIndex' = ClientIndex
          /\ phase = "idle" /\ CancelAnswer(None, Err("Unauthorized"))
      BY <1>5, BookUntouched DEF CancelUnauthorized
    <2>4. PT!CancelAnswer(None, PT!Err("Unauthorized")) /\ CallPhase = "idle"
      BY <2>3, Vocabulary DEF CancelAnswer, PT!CancelAnswer, CallPhase
    <2>5. PT!CancelUnauthorized(user, s, ref)
      BY <2>2, <2>3, <2>4 DEF PT!CancelUnauthorized
    <2> QED
      BY <1>2, <2>5 DEF PT!Next
  <1>6. CASE CancelNotFound(user, ref)
    <2>1. ~Found(id)
      BY <1>6, <1>i DEF CancelNotFound
    <2>2. PT!Resolved(user, s, ref) = {}
      BY <1>3, <2>1
    <2>3. /\ RestingOrders' = RestingOrders /\ ClientIndex' = ClientIndex
          /\ phase = "idle" /\ CancelAnswer(None, Err("OrderNotFound"))
      BY <1>6, BookUntouched DEF CancelNotFound
    <2>4. PT!CancelAnswer(None, PT!Err("OrderNotFound")) /\ CallPhase = "idle"
      BY <2>3, Vocabulary DEF CancelAnswer, PT!CancelAnswer, CallPhase
    <2>5. PT!CancelNotFound(user, s, ref)
      BY <2>2, <2>3, <2>4 DEF PT!CancelNotFound
    <2> QED
      BY <1>2, <2>5 DEF PT!Next
  <1> QED
    BY <1>4, <1>5, <1>6

\* A partial fill of the best level's head is one of the best order.
LEMMA RefineFillPartial ==
  ASSUME BookInv, BookInv', FillPartial
  PROVE  PT!Next
  <1>h. PICK h : h = HeadOrder
    OBVIOUS
  <1>m. PICK m : m = Maker
    OBVIOUS
  <1>1. phase = "matching" /\ LoopGoesOn /\ m.user_id # order.user_id /\ m.qty > order.qty
    BY <1>m DEF FillPartial, CanMatch
  <1>2. h \in Resting /\ h \in OrderSlots /\ m = node[h].order /\ m \in Order
        /\ order \in Order /\ order.qty \in 1..MaxQty
    BY <1>1, <1>h, <1>m, MakerTerms DEF Maker
  <1>3. m \in RestingOrders /\ PT!IsBestFor(m, order)
    BY <1>1, <1>m, HeadIsBest
  <1>4. PT!CanMatch(m)
    <2>1. order.qty > 0 /\ Crosses(order, m.price)
      BY <1>1, <1>m, MakerTerms DEF LoopGoesOn
    <2> QED
      BY <1>1, <1>3, <2>1, Vocabulary DEF PT!CanMatch, CallPhase
  <1>5. /\ node' = [node EXCEPT ![h].order.qty = @ - order.qty]
        /\ UNCHANGED <<order_index, client_order_index, phase>>
    BY <1>h DEF FillPartial, Executed, indexes
  <1>6. node \in [OrderSlots -> OrderNode]
    BY DEF BookInv, Shape
  <1>7. /\ \A n \in OrderSlots : node'[n].active = node[n].active
        /\ \A n \in OrderSlots \ {h} : node'[n].order = node[n].order
        /\ node'[h].order = [m EXCEPT !.qty = @ - order.qty]
    BY <1>2, <1>5, <1>6 DEF OrderNode
  <1>8. node'[h].order.id = m.id
    <2>1. order.qty \in Nat /\ order.qty <= m.qty
      BY <1>1, <1>2, OrderTerms
    <2> QED
      BY <1>2, <1>7, <2>1, RemainderIsOrder
  <1>9. Resting' = Resting
    BY <1>2, <1>5, <1>7, <1>8 DEF Resting, Id
  <1>10. Book' = (Book \ {m}) \cup {node'[h].order}
    <2>1. \A n \in Resting \ {h} : node'[n].order = node[n].order
      BY <1>7 DEF Resting
    <2> QED
      BY <1>2, <1>9, <2>1, BookChanges
  <1>11. RestingOrders' = (RestingOrders \ {m}) \cup {[m EXCEPT !.qty = @ - order.qty]}
    BY <1>7, <1>10, BookIs, BookIsNext
  <1>12. /\ trades' = Append(trades, TradeBetween(order, m, order.qty))
         /\ order' = [order EXCEPT !.qty = @ - order.qty]
         /\ UNCHANGED <<order_id_counter, phase, original_qty, result>>
    BY <1>m DEF FillPartial, Executed
  <1>13. PT!FillPartial(m)
    BY <1>1, <1>4, <1>5, <1>11, <1>12, Vocabulary DEF PT!FillPartial, PT!Executed, CallPhase, ClientIndex
  <1> QED
    BY <1>3, <1>13 DEF PT!Next, PT!Match

\* So is a fill of all of it.
LEMMA RefineFillWhole ==
  ASSUME BookInv, BookInv', FillWhole
  PROVE  PT!Next
  <1>h. PICK h : h = HeadOrder
    OBVIOUS
  <1>m. PICK m : m = Maker
    OBVIOUS
  <1>1. phase = "matching" /\ LoopGoesOn /\ m.user_id # order.user_id /\ m.qty <= order.qty
    BY <1>m DEF FillWhole, CanMatch
  <1>2. h \in Resting /\ m = node[h].order /\ m \in Order
    BY <1>1, <1>h, <1>m, MakerTerms DEF Maker
  <1>3. m \in RestingOrders /\ PT!IsBestFor(m, order)
    BY <1>1, <1>m, HeadIsBest
  <1>4. PT!CanMatch(m)
    <2>1. order.qty > 0 /\ Crosses(order, m.price)
      BY <1>1, <1>m, MakerTerms DEF LoopGoesOn
    <2> QED
      BY <1>1, <1>3, <2>1, Vocabulary DEF PT!CanMatch, CallPhase
  <1>5. Removes(h)
    BY <1>h, BookFillWhole
  <1>6. RestingOrders' = RestingOrders \ {m}
    <2>1. Resting' = Resting \ {h} /\ \A n \in Resting \ {h} : node'[n].order = node[n].order
      BY <1>2, <1>5, RemovedNodes DEF Resting
    <2> QED
      BY <1>2, <2>1, BookLoses, BookIs, BookIsNext
  <1>7. ClientIndex' = [ClientIndex EXCEPT ![PT!ClientKey(m)] = 0]
    <2>1. client_order_index' = [client_order_index EXCEPT ![ClientKey(m)] = 0] /\ 0 \in 0..MaxId
      BY <1>m DEF FillWhole, Forget
    <2> QED
      BY <1>2, <2>1, ClientIndexIs
  <1>8. /\ trades' = Append(trades, TradeBetween(order, m, m.qty))
        /\ order' = [order EXCEPT !.qty = @ - m.qty]
        /\ UNCHANGED <<order_id_counter, phase, original_qty, result>>
    BY <1>m DEF FillWhole, Executed
  <1>9. PT!FillWhole(m)
    BY <1>1, <1>4, <1>6, <1>7, <1>8, Vocabulary DEF PT!FillWhole, PT!Executed, CallPhase
  <1> QED
    BY <1>3, <1>9 DEF PT!Next, PT!Match

\* The answers of the matching loop, and the refusal for want of an order slot.
LEMMA RefineAnswer ==
  ASSUME BookInv, BookInv', SelfTrade \/ Finish \/ RestNoOrderSlot
  PROVE  PT!Next
  <1>1. UNCHANGED <<arenas, indexes>>
    BY DEF SelfTrade, Finish, RestNoOrderSlot
  <1>2. RestingOrders' = RestingOrders /\ ClientIndex' = ClientIndex
    BY <1>1, BookUntouched
  <1>3. CASE SelfTrade
    <2>m. PICK m : m = Maker
      OBVIOUS
    <2>1. phase = "matching" /\ LoopGoesOn /\ m.user_id = order.user_id
          /\ Answer(Ok(original_qty - order.qty, order.qty, TRUE))
      BY <1>3, <2>m DEF SelfTrade, CanMatch
    <2>2. m \in RestingOrders /\ PT!IsBestFor(m, order)
      BY <2>1, <2>m, HeadIsBest
    <2>3. order.qty > 0 /\ Crosses(order, m.price)
      BY <2>1, <2>m, MakerTerms DEF LoopGoesOn
    <2>4. PT!CanMatch(m)
      BY <2>1, <2>2, <2>3, Vocabulary DEF PT!CanMatch, CallPhase
    <2>5. PT!SelfTrade(m)
      BY <1>2, <2>1, <2>4, Vocabulary DEF PT!SelfTrade, PT!Answer, Answer, CallPhase
    <2> QED
      BY <2>2, <2>5 DEF PT!Next, PT!Match
  <1>4. CASE Finish
    <2>1. phase = "matching" /\ ~LoopGoesOn /\ (order.order_type # "Limit" \/ order.qty = 0)
          /\ Answer(Ok(original_qty - order.qty, order.qty, FALSE))
      BY <1>4 DEF Finish, MatchingOver
    <2>2. PT!MatchingOver
      BY <2>1, LoopIsOver
    <2>3. PT!Finish
      BY <1>2, <2>1, <2>2, Vocabulary DEF PT!Finish, PT!Answer, Answer, CallPhase
    <2> QED
      BY <2>3 DEF PT!Next, PT!Match
  <1>5. CASE RestNoOrderSlot
    <2>1. phase = "matching" /\ ~LoopGoesOn /\ order.order_type = "Limit" /\ order.qty > 0
          /\ Answer(Err("EngineFull"))
      BY <1>5 DEF RestNoOrderSlot, MustRest, MatchingOver
    <2>2. PT!MatchingOver
      BY <2>1, LoopIsOver
    <2>3. trades = << >>
      BY <2>1, ErrIsResult DEF Answer, BookInv, RefusedBeforeTrading
    <2>4. PT!RejectFull
      BY <1>2, <2>1, <2>2, <2>3, Vocabulary DEF PT!RejectFull, PT!Answer, Answer, CallPhase
    <2> QED
      BY <2>4 DEF PT!Next, PT!Match
  <1> QED
    BY <1>3, <1>4, <1>5

\* The refusal for want of a level slot.
LEMMA RefineRestNoLevelSlot ==
  ASSUME BookInv, BookInv', RestNoLevelSlot
  PROVE  PT!Next
  <1>1. /\ phase = "matching" /\ ~LoopGoesOn /\ order.order_type = "Limit" /\ order.qty > 0
        /\ order_free # NULL_IDX /\ node' = NodesAfterAllocate
        /\ Answer(Err("EngineFull")) /\ UNCHANGED <<order_index, client_order_index>>
    BY DEF RestNoLevelSlot, MustRest, MatchingOver, indexes
  <1>2. /\ order_free \in OrderSlots /\ order_free \notin Resting
        /\ \A m \in OrderSlots : m # order_free => node'[m] = node[m]
        /\ node'[order_free].order = order
    BY <1>1, Allocated
  <1>3. Resting' = Resting
    BY <1>1, <1>2, OrderIsNew DEF Resting, Id
  <1>4. \A m \in Resting : node'[m].order = node[m].order
    BY <1>2 DEF Resting
  <1>5. RestingOrders' = RestingOrders /\ ClientIndex' = ClientIndex
    BY <1>1, <1>3, <1>4, BookStays, BookIs, BookIsNext DEF ClientIndex
  <1>6. PT!MatchingOver
    BY <1>1, LoopIsOver
  <1>7. trades = << >>
    BY <1>1, ErrIsResult DEF Answer, BookInv, RefusedBeforeTrading
  <1>8. PT!RejectFull
    BY <1>1, <1>5, <1>6, <1>7, Vocabulary DEF PT!RejectFull, PT!Answer, Answer, CallPhase
  <1> QED
    BY <1>8 DEF PT!Next, PT!Match

\* The order in hand comes to rest, at a level there was or at a new one.
LEMMA RefineRest ==
  ASSUME BookInv, BookInv', phase \in {"matching", "linking"}, ~LoopGoesOn,
         order.order_type = "Limit", order.qty > 0,
         NEW n, Resting' = Resting \cup {n}, n \notin Resting, node'[n].order = order,
         \A m \in Resting : node'[m].order = node[m].order,
         IndexAndAnswer(n)
  PROVE  PT!Next
  <1>1. order \in Order /\ order.id \in 0..MaxId
    BY OrderIsNew
  <1>2. RestingOrders' = RestingOrders \cup {order}
    BY BookGains, BookIs, BookIsNext
  <1>3. ClientIndex' = [ClientIndex EXCEPT ![PT!ClientKey(order)] = order.id]
    <2>1. client_order_index' = [client_order_index EXCEPT ![ClientKey(order)] = order.id]
      BY DEF IndexAndAnswer
    <2>2. PICK o, id : o = order /\ id = order.id
      OBVIOUS
    <2> QED
      BY <1>1, <2>1, <2>2, ClientIndexIs
  <1>4. Answer(Ok(original_qty - order.qty, order.qty, FALSE))
    BY DEF IndexAndAnswer
  <1>5. PT!MatchingOver
    BY LoopIsOver
  <1>6. PT!Rest
    BY <1>2, <1>3, <1>4, <1>5, Vocabulary DEF PT!Rest, PT!Answer, Answer, CallPhase
  <1> QED
    BY <1>6 DEF PT!Next, PT!Match

\* Joining a level, or linking a new one, is the moment an order rests.
LEMMA RefineResting ==
  ASSUME BookInv, BookInv', RestAtLevel \/ LinkFirst \/ LinkAfter
  PROVE  PT!Next
  <1>1. CASE RestAtLevel
    <2>1. PICK n : n = order_free
      OBVIOUS
    <2>2. /\ phase = "matching" /\ ~LoopGoesOn /\ order.order_type = "Limit" /\ order.qty > 0
          /\ IndexAndAnswer(n)
      BY <1>1, <2>1 DEF RestAtLevel, MustRest, MatchingOver
    <2>3. /\ Resting' = Resting \cup {n} /\ n \notin Resting /\ node'[n].order = order
          /\ \A m \in Resting : node'[m].order = node[m].order
      BY <1>1, <2>1, BookRestAtLevel
    <2> QED
      BY <2>2, <2>3, RefineRest
  <1>2. CASE LinkFirst \/ LinkAfter
    <2>1. PICK n : n = node_idx
      OBVIOUS
    <2>2. phase = "linking" /\ IndexAndAnswer(n)
      BY <1>2, <2>1 DEF LinkFirst, LinkAfter, LinkLevel
    <2>3. ~LoopGoesOn /\ order.order_type = "Limit" /\ order.qty > 0
      BY <2>2 DEF BookInv, Linking
    <2>4. /\ Resting' = Resting \cup {n} /\ n \notin Resting /\ node'[n].order = order
          /\ \A m \in Resting : node'[m].order = node[m].order
      BY <1>2, <2>1, BookLinkFirst, BookLinkAfter
    <2> QED
      BY <2>2, <2>3, <2>4, RefineRest
  <1> QED
    BY <1>1, <1>2

\* The way to the place of a new level is invisible.
LEMMA RefineSilent ==
  ASSUME BookInv, BookInv', OpenLevel \/ LinkWalk \/ UNCHANGED vars
  PROVE  UNCHANGED PT!vars
  <1>1. RestingOrders' = RestingOrders
    <2>1. Resting' = Resting /\ \A m \in Resting : node'[m] = node[m]
      BY BookOpenLevel DEF LinkWalk, vars, arenas, indexes, Resting, Id
    <2> QED
      BY <2>1, BookStays, BookIs, BookIsNext
  <1>2. ClientIndex' = ClientIndex /\ CallPhase' = CallPhase
        /\ UNCHANGED <<order_id_counter, order, original_qty, trades, result>>
    BY DEF OpenLevel, LinkWalk, MustRest, MatchingOver, vars, indexes, call, ClientIndex, CallPhase
  <1> QED
    BY <1>1, <1>2 DEF PT!vars

\* The end of a call.
LEMMA RefineReturn ==
  ASSUME BookInv, BookInv', Return
  PROVE  PT!Next
  <1>1. RestingOrders' = RestingOrders /\ ClientIndex' = ClientIndex
    BY BookUntouched DEF Return
  <1>2. PT!Return
    BY <1>1, Vocabulary DEF Return, PT!Return, CallPhase
  <1> QED
    BY <1>2 DEF PT!Next

\* Every step is one of PriceTime or none.
LEMMA RefineNext == BookInv /\ BookInv' /\ [Next]_vars => [PT!Next]_PT!vars
  <1> SUFFICES ASSUME BookInv, BookInv', [Next]_vars PROVE [PT!Next]_PT!vars
    OBVIOUS
  <1>1. CASE ProcessAny
    BY <1>1, RefineProcess DEF ProcessAny
  <1>2. CASE CancelAny
    BY <1>2, RefineCancel DEF CancelAny
  <1>3. CASE FillPartial
    BY <1>3, RefineFillPartial
  <1>4. CASE FillWhole
    BY <1>4, RefineFillWhole
  <1>5. CASE SelfTrade \/ Finish \/ RestNoOrderSlot
    BY <1>5, RefineAnswer
  <1>6. CASE RestNoLevelSlot
    BY <1>6, RefineRestNoLevelSlot
  <1>7. CASE RestAtLevel \/ LinkFirst \/ LinkAfter
    BY <1>7, RefineResting
  <1>8. CASE OpenLevel \/ LinkWalk \/ UNCHANGED vars
    BY <1>8, RefineSilent
  <1>9. CASE Return
    BY <1>9, RefineReturn
  <1> QED
    BY <1>1, <1>2, <1>3, <1>4, <1>5, <1>6, <1>7, <1>8, <1>9 DEF Next, Work

\* The arenas, ladders, queues and indexes of a book, of any size, implement
\* price-time priority over a set of orders: every step of process and of
\* cancel_order is a step of PriceTime or invisible to it.
THEOREM BookImplementsPriceTime == Spec => RefinesPriceTime
  BY RefineInit, RefineNext, BookInvariant, PTL DEF Spec, RefinesPriceTime, PT!Spec

=============================================================================
