----------------------------- MODULE OrderBook -----------------------------
(***************************************************************************)
(* One OrderBook of src/src/book.rs: orders and price levels in            *)
(* pre-allocated arenas whose free slots form lists; a ladder of levels    *)
(* for each side; a FIFO queue of orders in each level; three indexes.     *)
(*                                                                         *)
(* An action is one turn of a loop of `process` (matching an order of the  *)
(* best level, walking the ladder) or one straight-line stretch of it.     *)
(* The open-addressing tables are maps here, which HashIndex implements;   *)
(* their capacities at 80% load exceed the arenas', so an insertion is     *)
(* never refused.  The contents of a free slot are never read: a free slot *)
(* holds no order and a free level price 0.                                *)
(***************************************************************************)
EXTENDS Types, FiniteSetsExt

CONSTANTS
  MAX_ARENA_ORDERS,  \* slots of the order arena
  MAX_PRICE_LEVELS,  \* slots of the level arena
  MaxIdGap           \* bound: ids the engine gave to other books in between

ASSUME OrderBookAssumption ==
  /\ MAX_ARENA_ORDERS \in Nat \ {0}
  /\ MAX_PRICE_LEVELS \in Nat \ {0}
  /\ MaxIdGap \in Nat

\* The engine keeps a book for each symbol: this one serves a single symbol.
ASSUME OneSymbol == \E s \in Symbols : Symbols = {s}

VARIABLES
  node,               \* order_arena.nodes
  order_free,         \* order_arena.free_head
  level,              \* level_arena.nodes
  level_free,         \* level_arena.free_head
  best,               \* best_bid and best_ask, by side
  price_index,        \* price -> level slot; one table for both sides
  order_index,        \* exchange id -> entry
  client_order_index, \* <<user, client id>> -> exchange id, 0 when absent
  order_id_counter,
  phase, order, original_qty, trades, result,   \* the call in progress
  node_idx, level_idx, curr  \* locals of the resting branch and its ladder walk

arenas == <<node, order_free, level, level_free, best, price_index>>
indexes == <<order_index, client_order_index>>
call == <<phase, order, original_qty, trades, result>>
locals == <<node_idx, level_idx, curr>>
vars == <<arenas, indexes, order_id_counter, call, locals>>

NULL_IDX == -1
OrderSlots == 0..MAX_ARENA_ORDERS - 1
LevelSlots == 0..MAX_PRICE_LEVELS - 1
OrderIdx == OrderSlots \cup {NULL_IDX}
LevelIdx == LevelSlots \cup {NULL_IDX}

OrderNode ==
  [order : Order \cup {None}, active : BOOLEAN, prev : OrderIdx, next : OrderIdx]

PriceLevelNode ==
  [price : Prices \cup {0}, active : BOOLEAN,
   head_order : OrderIdx, tail_order : OrderIdx,
   prev_level : LevelIdx, next_level : LevelIdx,
   total_qty : Nat, order_count : Nat, next_free : LevelIdx]

FastIndexEntry ==
  [client_order_id : ClientIds, user_id : Users, price : Prices,
   node_idx : OrderSlots, side : Sides]

\* The mark of an absent entry is none.
ASSUME NoneIsNoEntry == None \notin FastIndexEntry

TypeOK ==
  /\ node \in [OrderSlots -> OrderNode]
  /\ order_free \in OrderIdx
  /\ level \in [LevelSlots -> PriceLevelNode]
  /\ level_free \in LevelIdx
  /\ best \in [Side -> LevelIdx]
  /\ price_index \in [Prices -> LevelIdx]
  /\ order_index \in [1..MaxId -> FastIndexEntry \cup {None}]
  /\ client_order_index \in [Users \X ClientIds -> 0..MaxId]
  /\ order_id_counter \in 1..MaxId + 1
  /\ phase \in {"idle", "matching", "linking", "done", "cancelled"}
  /\ order \in Order \cup {None}
  /\ original_qty \in 0..MaxQty
  /\ trades \in Seq(Trade)
  /\ result \in Result
  /\ node_idx \in OrderIdx
  /\ level_idx \in LevelIdx
  /\ curr \in LevelIdx

\* A slot of either arena on its free list, before the slot nxt.
FreeNode(nxt) == [order |-> None, active |-> FALSE, prev |-> NULL_IDX, next |-> nxt]

FreeLevel(nxt) ==
  [price |-> 0, active |-> FALSE, head_order |-> NULL_IDX, tail_order |-> NULL_IDX,
   prev_level |-> NULL_IDX, next_level |-> NULL_IDX,
   total_qty |-> 0, order_count |-> 0, next_free |-> nxt]

Init ==
  /\ node = [n \in OrderSlots |->
               FreeNode(IF n + 1 \in OrderSlots THEN n + 1 ELSE NULL_IDX)]
  /\ order_free = 0
  /\ level = [l \in LevelSlots |->
                FreeLevel(IF l + 1 \in LevelSlots THEN l + 1 ELSE NULL_IDX)]
  /\ level_free = 0
  /\ best = [s \in Side |-> NULL_IDX]
  /\ price_index = [p \in Prices |-> NULL_IDX]
  /\ order_index = [i \in 1..MaxId |-> None]
  /\ client_order_index = [k \in Users \X ClientIds |-> 0]
  /\ order_id_counter = 1
  /\ phase = "idle"
  /\ order = None
  /\ original_qty = 0
  /\ trades = << >>
  /\ result = NoResult
  /\ node_idx = NULL_IDX
  /\ level_idx = NULL_IDX
  /\ curr = NULL_IDX

-----------------------------------------------------------------------------
(* The intrusive structures. *)

ClientKey(o) == <<o.user_id, o.client_order_id>>

\* Mutants of Deallocate: free_head is moved before the slot is linked to it;
\* the slot is never returned.
DeallocateSwapped(n, relinked) ==
  /\ node' = [relinked EXCEPT ![n] = FreeNode(n)]
  /\ order_free' = n

\* deallocate(n) in the order arena, its neighbours relinked as `relinked`.
Deallocate(n, relinked) ==
  /\ node' = [relinked EXCEPT ![n] = FreeNode(order_free)]
  /\ order_free' = n

\* Mutant of Forget: the client index keeps its entry.
ForgetOrderOnly(id, key) ==
  /\ order_index' = [order_index EXCEPT ![id] = None]
  /\ UNCHANGED client_order_index

Forget(id, key) ==
  /\ order_index' = [order_index EXCEPT ![id] = None]
  /\ client_order_index' = [client_order_index EXCEPT ![key] = 0]

\* pop_order: the order behind the head becomes the head.
NodesAfterPop(l) ==
  [m \in OrderSlots |->
     IF m = node[level[l].head_order].next
     THEN [node[m] EXCEPT !.prev = NULL_IDX] ELSE node[m]]

\* Mutant of LevelAfterPop: the traded quantity is subtracted once more.
LevelAfterPopTwice(l, traded) ==
  LET next == node[level[l].head_order].next
  IN  [level[l] EXCEPT
         !.head_order = next,
         !.tail_order = IF next = NULL_IDX THEN NULL_IDX ELSE @,
         !.total_qty = @ - traded - traded,
         !.order_count = @ - 1]

LevelAfterPop(l, traded) ==
  LET next == node[level[l].head_order].next
  IN  [level[l] EXCEPT
         !.head_order = next,
         !.tail_order = IF next = NULL_IDX THEN NULL_IDX ELSE @,
         !.total_qty = @ - traded,
         !.order_count = @ - 1]

\* Mutant of NodesAfterUnlink: the link back is not repaired.
NodesAfterUnlinkForward(n) ==
  [m \in OrderSlots |->
     IF m = node[n].prev THEN [node[m] EXCEPT !.next = node[n].next] ELSE node[m]]

\* unlink_order: the order's neighbours are joined to each other.
NodesAfterUnlink(n) ==
  [m \in OrderSlots |->
     CASE m = node[n].prev -> [node[m] EXCEPT !.next = node[n].next]
       [] m = node[n].next -> [node[m] EXCEPT !.prev = node[n].prev]
       [] OTHER            -> node[m]]

\* Mutant of LevelAfterUnlink: the level's quantity is left as it was.
LevelAfterUnlinkKeepsQty(l, n) ==
  [level[l] EXCEPT
     !.head_order = IF node[n].prev = NULL_IDX THEN node[n].next ELSE @,
     !.tail_order = IF node[n].next = NULL_IDX THEN node[n].prev ELSE @,
     !.order_count = @ - 1]

LevelAfterUnlink(l, n) ==
  [level[l] EXCEPT
     !.head_order = IF node[n].prev = NULL_IDX THEN node[n].next ELSE @,
     !.tail_order = IF node[n].next = NULL_IDX THEN node[n].prev ELSE @,
     !.total_qty = @ - node[n].order.qty,
     !.order_count = @ - 1]

\* The ladder with level l taken out of it, and put on the free list.
LevelsWithout(l) ==
  [k \in LevelSlots |->
     CASE k = l                   -> FreeLevel(level_free)
       [] k = level[l].prev_level -> [level[k] EXCEPT !.next_level = level[l].next_level]
       [] k = level[l].next_level -> [level[k] EXCEPT !.prev_level = level[l].prev_level]
       [] OTHER                   -> level[k]]

BestWithout(l, side) ==
  IF level[l].prev_level = NULL_IDX
  THEN [best EXCEPT ![side] = level[l].next_level] ELSE best

\* Mutants of DropLevel: the price stays indexed; the slot is not returned.
DropLevelKeepsPrice(l, side) ==
  /\ level' = LevelsWithout(l)
  /\ best' = BestWithout(l, side)
  /\ level_free' = l
  /\ UNCHANGED price_index

DropLevelLosesSlot(l, side) ==
  /\ level' = LevelsWithout(l)
  /\ best' = BestWithout(l, side)
  /\ price_index' = [price_index EXCEPT ![level[l].price] = NULL_IDX]
  /\ UNCHANGED level_free

\* unlink_price_level, price_index.remove and level_arena.deallocate.
DropLevel(l, side) ==
  /\ level' = LevelsWithout(l)
  /\ best' = BestWithout(l, side)
  /\ price_index' = [price_index EXCEPT ![level[l].price] = NULL_IDX]
  /\ level_free' = l

\* What follows the removal of an order from level l, which leaves it as rec.
LevelLosesOrder(l, side, rec) ==
  IF rec.head_order = NULL_IDX
  THEN DropLevel(l, side)
  ELSE /\ level' = [level EXCEPT ![l] = rec]
       /\ UNCHANGED <<best, price_index, level_free>>

\* push_order, of a slot already allocated for the order in hand.
NodesAfterPush(nodes, l, n) ==
  [m \in OrderSlots |->
     CASE m = n                   -> [nodes[m] EXCEPT !.prev = level[l].tail_order]
       [] m = level[l].tail_order -> [nodes[m] EXCEPT !.next = n]
       [] OTHER                   -> nodes[m]]

Pushed(rec, n, qty) ==
  [rec EXCEPT
     !.head_order = IF rec.tail_order = NULL_IDX THEN n ELSE @,
     !.tail_order = n,
     !.total_qty = @ + qty,
     !.order_count = @ + 1]

\* allocate(order) in the order arena.
NodesAfterAllocate ==
  [node EXCEPT ![order_free] =
     [order |-> order, active |-> TRUE, prev |-> NULL_IDX, next |-> NULL_IDX]]

-----------------------------------------------------------------------------
(* process: the matching loop. *)

Process(o) ==
  /\ phase = "idle"
  /\ o.id >= order_id_counter
  /\ order_id_counter' = o.id + 1
  /\ order' = o
  /\ original_qty' = o.qty
  /\ phase' = "matching"
  /\ UNCHANGED <<arenas, indexes, trades, result, locals>>

Opposite == OtherSide(SideOf(order))
BestLevel == best[Opposite]
HeadOrder == level[BestLevel].head_order
Maker == node[HeadOrder].order

LoopGoesOn ==
  /\ order.qty > 0
  /\ BestLevel # NULL_IDX
  /\ Crosses(order, level[BestLevel].price)

CanMatch == phase = "matching" /\ LoopGoesOn /\ HeadOrder # NULL_IDX

MatchingOver == phase = "matching" /\ ~LoopGoesOn

Executed(qty) ==
  /\ trades' = Append(trades, TradeBetween(order, Maker, qty))
  /\ order' = [order EXCEPT !.qty = @ - qty]
  /\ UNCHANGED <<order_id_counter, phase, original_qty, result, locals>>

\* Mutant of FillPartial: the maker's own quantity is not reduced.
FillPartialMakerKeeps ==
  /\ CanMatch
  /\ Maker.user_id # order.user_id
  /\ Maker.qty > order.qty
  /\ Executed(order.qty)
  /\ level' = [level EXCEPT ![BestLevel].total_qty = @ - order.qty]
  /\ UNCHANGED <<node, order_free, level_free, best, price_index, indexes>>

FillPartial ==
  /\ CanMatch
  /\ Maker.user_id # order.user_id
  /\ Maker.qty > order.qty
  /\ Executed(order.qty)
  /\ node' = [node EXCEPT ![HeadOrder].order.qty = @ - order.qty]
  /\ level' = [level EXCEPT ![BestLevel].total_qty = @ - order.qty]
  /\ UNCHANGED <<order_free, level_free, best, price_index, indexes>>

FillWhole ==
  /\ CanMatch
  /\ Maker.user_id # order.user_id
  /\ Maker.qty <= order.qty
  /\ Executed(Maker.qty)
  /\ Deallocate(HeadOrder, NodesAfterPop(BestLevel))
  /\ Forget(Maker.id, ClientKey(Maker))
  /\ LevelLosesOrder(BestLevel, Opposite, LevelAfterPop(BestLevel, Maker.qty))

Answer(r) ==
  /\ phase' = "done"
  /\ result' = r
  /\ UNCHANGED <<order_id_counter, order, original_qty, trades>>

SelfTrade ==
  /\ CanMatch
  /\ Maker.user_id = order.user_id
  /\ Answer(Ok(original_qty - order.qty, order.qty, TRUE))
  /\ UNCHANGED <<arenas, indexes, locals>>

Finish ==
  /\ MatchingOver
  /\ order.order_type # "Limit" \/ order.qty = 0
  /\ Answer(Ok(original_qty - order.qty, order.qty, FALSE))
  /\ UNCHANGED <<arenas, indexes, locals>>

-----------------------------------------------------------------------------
(* process: the resting branch. *)

MustRest == MatchingOver /\ order.order_type = "Limit" /\ order.qty > 0

\* order_arena.allocate fails.
RestNoOrderSlot ==
  /\ MustRest
  /\ order_free = NULL_IDX
  /\ Answer(Err("EngineFull"))
  /\ UNCHANGED <<arenas, indexes, locals>>

\* order_arena.allocate succeeds and level_arena.allocate fails: the slot
\* stays allocated.
RestNoLevelSlot ==
  /\ MustRest
  /\ order_free # NULL_IDX
  /\ price_index[order.price] = NULL_IDX
  /\ level_free = NULL_IDX
  /\ node' = NodesAfterAllocate
  /\ order_free' = node[order_free].next
  /\ Answer(Err("EngineFull"))
  /\ UNCHANGED <<level, level_free, best, price_index, indexes, locals>>

\* order_index.insert and client_order_index.insert, and the answer.
IndexAndAnswer(n) ==
  /\ order_index' = [order_index EXCEPT ![order.id] =
       [client_order_id |-> order.client_order_id, user_id |-> order.user_id,
        price |-> order.price, node_idx |-> n, side |-> order.side]]
  /\ client_order_index' = [client_order_index EXCEPT ![ClientKey(order)] = order.id]
  /\ Answer(Ok(original_qty - order.qty, order.qty, FALSE))

\* The price has a level already: the order joins the end of its queue.
RestAtLevel ==
  /\ MustRest
  /\ order_free # NULL_IDX
  /\ price_index[order.price] # NULL_IDX
  /\ LET l == price_index[order.price]
     IN  /\ node' = NodesAfterPush(NodesAfterAllocate, l, order_free)
         /\ level' = [level EXCEPT ![l] = Pushed(@, order_free, order.qty)]
  /\ order_free' = node[order_free].next
  /\ IndexAndAnswer(order_free)
  /\ UNCHANGED <<level_free, best, price_index, locals>>

\* A slot in each arena is taken and the new level indexed; its place in the
\* ladder is found next, from the best level down.
OpenLevel ==
  /\ MustRest
  /\ order_free # NULL_IDX
  /\ price_index[order.price] = NULL_IDX
  /\ level_free # NULL_IDX
  /\ node' = NodesAfterAllocate
  /\ order_free' = node[order_free].next
  /\ level' = [level EXCEPT ![level_free] =
                 [FreeLevel(NULL_IDX) EXCEPT !.price = order.price, !.active = TRUE]]
  /\ level_free' = level[level_free].next_free
  /\ price_index' = [price_index EXCEPT ![order.price] = level_free]
  /\ phase' = "linking"
  /\ node_idx' = order_free
  /\ level_idx' = level_free
  /\ curr' = best[SideOf(order)]
  /\ UNCHANGED <<best, indexes, order_id_counter, order, original_qty, trades, result>>

GoesFirst ==
  best[SideOf(order)] # NULL_IDX =>
    BetterPrice(SideOf(order), order.price, level[best[SideOf(order)]].price)

WalkGoesOn ==
  /\ level[curr].next_level # NULL_IDX
  /\ BetterPrice(SideOf(order), level[level[curr].next_level].price, order.price)

\* The new level, placed between prev and next, with its first order.
NewLevel(prev, next) ==
  Pushed([level[level_idx] EXCEPT !.prev_level = prev, !.next_level = next],
         node_idx, order.qty)

LinkLevel(prev, next) ==
  /\ level' = [k \in LevelSlots |->
       CASE k = level_idx -> NewLevel(prev, next)
         [] k = prev      -> [level[k] EXCEPT !.next_level = level_idx]
         [] k = next      -> [level[k] EXCEPT !.prev_level = level_idx]
         [] OTHER         -> level[k]]
  /\ IndexAndAnswer(node_idx)
  /\ node_idx' = NULL_IDX
  /\ level_idx' = NULL_IDX
  /\ curr' = NULL_IDX
  /\ UNCHANGED <<node, order_free, level_free, price_index>>

LinkFirst ==
  /\ phase = "linking"
  /\ GoesFirst
  /\ LinkLevel(NULL_IDX, best[SideOf(order)])
  /\ best' = [best EXCEPT ![SideOf(order)] = level_idx]

\* Mutant of LinkWalk: the cursor is not moved.
LinkWalkStays ==
  /\ phase = "linking"
  /\ ~GoesFirst
  /\ WalkGoesOn
  /\ UNCHANGED vars

LinkWalk ==
  /\ phase = "linking"
  /\ ~GoesFirst
  /\ WalkGoesOn
  /\ curr' = level[curr].next_level
  /\ UNCHANGED <<arenas, indexes, order_id_counter, call, node_idx, level_idx>>

LinkAfter ==
  /\ phase = "linking"
  /\ ~GoesFirst
  /\ ~WalkGoesOn
  /\ LinkLevel(curr, level[curr].next_level)
  /\ UNCHANGED best

-----------------------------------------------------------------------------
(* cancel_order. *)

CancelAnswer(o, r) ==
  /\ phase' = "cancelled"
  /\ order' = o
  /\ result' = r
  /\ UNCHANGED <<order_id_counter, original_qty, trades, locals>>

\* The exchange id a reference resolves to, 0 when it resolves to none.
Resolved(user, ref) ==
  CASE ref \in 1..MaxId /\ order_index[ref] # None -> ref
    [] OTHER -> IF ref \in ClientIds THEN client_order_index[<<user, ref>>] ELSE 0

Found(id) == id # 0 /\ order_index[id] # None

\* The entry's slot may only be trusted if it still holds that order.
Stale(id) ==
  LET n == order_index[id].node_idx
  IN  ~node[n].active \/ node[n].order.id # id

RemoveOrder(id) ==
  LET e == order_index[id]
      n == e.node_idx
      l == price_index[e.price]
      o == node[n].order
  IN  /\ Forget(id, <<e.user_id, e.client_order_id>>)
      /\ IF l = NULL_IDX
         THEN /\ Deallocate(n, node)
              /\ UNCHANGED <<level, level_free, best, price_index>>
         ELSE /\ Deallocate(n, NodesAfterUnlink(n))
              /\ LevelLosesOrder(l, SideOf(e), LevelAfterUnlink(l, n))
      /\ CancelAnswer(o, Ok(0, o.qty, FALSE))

CancelOrder(user, ref) ==
  LET id == Resolved(user, ref)
  IN  /\ phase = "idle"
      /\ Found(id)
      /\ order_index[id].user_id = user
      /\ IF Stale(id)
         THEN /\ Forget(id, <<user, order_index[id].client_order_id>>)
              /\ CancelAnswer(None, Err("OrderNotFound"))
              /\ UNCHANGED arenas
         ELSE RemoveOrder(id)

CancelUnauthorized(user, ref) ==
  /\ phase = "idle"
  /\ Found(Resolved(user, ref))
  /\ order_index[Resolved(user, ref)].user_id # user
  /\ CancelAnswer(None, Err("Unauthorized"))
  /\ UNCHANGED <<arenas, indexes>>

CancelNotFound(user, ref) ==
  /\ phase = "idle"
  /\ ~Found(Resolved(user, ref))
  /\ CancelAnswer(None, Err("OrderNotFound"))
  /\ UNCHANGED <<arenas, indexes>>

\* The caller has read the answer and the trades.
Return ==
  /\ phase \in {"done", "cancelled"}
  /\ phase' = "idle"
  /\ order' = None
  /\ original_qty' = 0
  /\ trades' = << >>
  /\ result' = NoResult
  /\ UNCHANGED <<arenas, indexes, order_id_counter, locals>>

-----------------------------------------------------------------------------
Submissions ==
  [id : (order_id_counter..order_id_counter + MaxIdGap) \cap (1..MaxId),
   user_id : Users, client_order_id : ClientIds, symbol_id : Symbols,
   side : Sides, order_type : OrderTypes, price : Prices, qty : 1..MaxQty]

ProcessAny == \E o \in Submissions : Process(o)

CancelAny ==
  \E user \in Users, ref \in (1..MaxId) \cup ClientIds :
    \/ CancelOrder(user, ref)
    \/ CancelUnauthorized(user, ref)
    \/ CancelNotFound(user, ref)

\* The book at work: what remains of a call once it has begun.
Work ==
  \/ FillPartial \/ FillWhole \/ SelfTrade \/ Finish
  \/ RestNoOrderSlot \/ RestNoLevelSlot \/ RestAtLevel \/ OpenLevel
  \/ LinkFirst \/ LinkWalk \/ LinkAfter
  \/ Return

Next == ProcessAny \/ CancelAny \/ Work

Spec == Init /\ [][Next]_vars

\* A call runs on the engine thread, which nothing preempts for ever.
FairSpec == Spec /\ WF_vars(Work)

-----------------------------------------------------------------------------
(* What the pointers lead to. *)

\* The slots met by following the links nxt from first, at most cap of them.
Walk(first, nxt, cap) ==
  LET at[i \in 0..cap] ==
        IF i = 0 THEN first
        ELSE IF at[i - 1] = NULL_IDX THEN NULL_IDX ELSE nxt[at[i - 1]]
  IN  at

Reached(first, nxt, cap) ==
  LET at == Walk(first, nxt, cap) IN {at[i] : i \in 0..cap} \ {NULL_IDX}

Ends(first, nxt, cap) == Walk(first, nxt, cap)[cap] = NULL_IDX

NextOrder == [n \in OrderSlots |-> node[n].next]
NextLevel == [l \in LevelSlots |-> level[l].next_level]
NextFreeLevel == [l \in LevelSlots |-> level[l].next_free]

Ladder(side) == Reached(best[side], NextLevel, MAX_PRICE_LEVELS)

Queue(l) == Reached(level[l].head_order, NextOrder, MAX_ARENA_ORDERS)

Ladders == Ladder("Buy") \cup Ladder("Sell")

Linked == UNION {Queue(l) : l \in Ladders}

\* The slots taken by the resting branch and not yet linked.
InFlight == IF phase = "linking" THEN {node_idx} ELSE {}

RestingOrders == {node[n].order : n \in Linked}

\* The free lists hold every free slot, once, and nothing else, whatever order
\* slots are returned in: deallocate reuses the link (`next`) that the queue
\* the slot comes from was chained by.
FreeListsExact ==
  /\ Ends(order_free, NextOrder, MAX_ARENA_ORDERS)
  /\ Reached(order_free, NextOrder, MAX_ARENA_ORDERS)
       = {n \in OrderSlots : ~node[n].active}
  /\ Ends(level_free, NextFreeLevel, MAX_PRICE_LEVELS)
  /\ Reached(level_free, NextFreeLevel, MAX_PRICE_LEVELS)
       = {l \in LevelSlots : ~level[l].active}

\* Each queue is a doubly linked list in order of arrival, of orders of one
\* side and of the level's price, and the tail is its end: push_order,
\* pop_order and unlink_order keep the four pointers of a removal or an
\* insertion consistent in every position of the list.
QueuesFifo ==
  \A side \in Side : \A l \in Ladder(side) :
    /\ level[l].head_order # NULL_IDX
    /\ node[level[l].head_order].prev = NULL_IDX
    /\ \A n \in Queue(l) :
         LET next == node[n].next
         IN  /\ node[n].active
             /\ SideOf(node[n].order) = side
             /\ node[n].order.price = level[l].price
             /\ next = NULL_IDX => level[l].tail_order = n
             /\ next # NULL_IDX =>
                  node[next].prev = n /\ node[next].order.id > node[n].order.id

\* Each ladder is a doubly linked list from the best price strictly down, with
\* no empty level in it: a level missed by cleanup after a fill or a
\* cancellation would stop the matching loop (link_price_level,
\* unlink_price_level).
LaddersSorted ==
  \A side \in Side :
    /\ Ends(best[side], NextLevel, MAX_PRICE_LEVELS)
    /\ best[side] # NULL_IDX => level[best[side]].prev_level = NULL_IDX
    /\ \A l \in Ladder(side) :
         LET next == level[l].next_level
         IN  next # NULL_IDX =>
               /\ level[next].prev_level = l
               /\ BetterPrice(side, level[l].price, level[next].price)

\* The chains the matching loop and the ladder walk follow are whole and in
\* order, as link_price_level, unlink_price_level and the queue operations are
\* to leave them.
ChainsExact == LaddersSorted /\ QueuesFifo

\* The quantity and the number of orders get_bbo and get_depth report for a
\* level are those of its queue, though fills, cancellations and insertions
\* each maintain them incrementally and pop_order subtracts again.
DepthExact ==
  \A l \in Ladders :
    /\ level[l].order_count = Cardinality(Queue(l))
    /\ level[l].total_qty =
         SumFunctionOnSet([n \in OrderSlots |-> node[n].order.qty], Queue(l))

\* The order index names the resting orders, all of them and nothing else, at
\* the slot, price and side they are at: cancel_order trusts the entry for
\* all three.
OrderIndexExact ==
  /\ \A id \in 1..MaxId :
       order_index[id] # None =>
         LET e == order_index[id]
         IN  /\ e.node_idx \in Linked
             /\ node[e.node_idx].order.id = id
             /\ node[e.node_idx].order.price = e.price
             /\ node[e.node_idx].order.side = e.side
             /\ ClientKey(node[e.node_idx].order) = <<e.user_id, e.client_order_id>>
  /\ \A n \in Linked : order_index[node[n].order.id] # None

\* The one price index serves both sides: an entry is the linked level of that
\* price, on whichever side, or the one being linked.  It relies on the book
\* never being crossed at a price.
PriceIndexExact ==
  /\ \A p \in Prices :
       price_index[p] # NULL_IDX =>
         /\ price_index[p] \in Ladders \cup {level_idx}
         /\ level[price_index[p]].price = p
  /\ \A l \in Ladders : price_index[level[l].price] = l
  /\ Ladder("Buy") \cap Ladder("Sell") = {}

\* Both indexes say where the resting orders and their levels are, after any
\* fills and cancellations (match_level, cancel_order, process).
IndexesExact == OrderIndexExact /\ PriceIndexExact

\* Every allocated slot holds an order that rests on the book, or the one
\* being put there: fills, cancellations and insertions lose none.  This needs
\* a level for every price; RestNoLevelSlot does lose one.
NoSlotLost == {n \in OrderSlots : node[n].active} = Linked \cup InFlight

\* Every slot is free or in use, never both and never neither (allocate and
\* deallocate against the chains they share a link with).
SlotsExact == FreeListsExact /\ NoSlotLost

\* An order refused for lack of room has traded with nobody: process returns
\* the error from the middle of the resting branch, and the exchange then
\* unlocks the whole margin and drops the trades (exchange.rs:253-255), which
\* is right only because the makers a taker removes leave it both slots.
RefusedBeforeTrading ==
  phase = "done" /\ result.error = "EngineFull" => trades = << >>

\* "All resting orders reside in pre-allocated intrusive arenas" of stated
\* capacities (README.md:49): an order is refused for lack of room only when
\* that many orders rest, or that many prices are taken and it needs another.
RefusedOnlyWhenFull ==
  phase = "done" /\ result.error = "EngineFull" =>
    \/ Cardinality(Linked) = MAX_ARENA_ORDERS
    \/ Cardinality(Ladders) = MAX_PRICE_LEVELS /\ price_index[order.price] = NULL_IDX

\* "User 1 cancels their order using client_order_id 100 ... must succeed"
\* (tests/book_tests.rs:400): a user's only order under a client id is the one
\* that a cancellation with this client id reaches.
ClientIdReachesOrder ==
  \A o \in RestingOrders :
    (\A other \in RestingOrders \ {o} : ClientKey(other) # ClientKey(o))
      => Resolved(o.user_id, o.client_order_id) = o.id

\* A call that has begun returns: the matching loop and the ladder walk end.
CallReturns == phase # "idle" ~> phase = "idle"

\* The client index and the phase as PriceTime has them.
ClientIndex ==
  [k \in Users \X Symbols \X ClientIds |-> client_order_index[<<k[1], k[3]>>]]

CallPhase == IF phase = "linking" THEN "matching" ELSE phase

\* The book implements price-time priority: the orders reached through the
\* ladders and queues are the abstract book, and a step is a step of it or
\* leaves it alone.
PT ==
  INSTANCE PriceTime WITH
    resting <- RestingOrders,
    client_index <- ClientIndex,
    next_id <- order_id_counter,
    phase <- CallPhase

RefinesPriceTime == PT!Spec
=============================================================================
