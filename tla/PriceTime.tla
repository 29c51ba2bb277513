----------------------------- MODULE PriceTime -----------------------------
(***************************************************************************)
(* What MultiAssetEngine promises: price-time priority over a SET of       *)
(* resting orders, with none of the arenas, ladders, queues and hash       *)
(* tables that OrderBook keeps.  OrderBook is shown to implement it.       *)
(*                                                                         *)
(* One order is in hand at a time (the engine is single-threaded); each    *)
(* step of the matching loop is an action.                                 *)
(***************************************************************************)
EXTENDS Types

CONSTANTS
  MaxIdGap      \* bound: ids skipped between two orders of one book, which
                \* the engine stamped on orders for the other books

ASSUME PriceTimeAssumption == MaxIdGap \in Nat

VARIABLES
  resting,        \* the orders on the books, qty being what is left of each
  client_index,   \* <<user, symbol, client id>> -> exchange id, 0 when absent
  next_id,        \* global_order_id_counter
  phase,          \* what the call in progress is doing
  order,          \* the order in hand: the taker, or the one just cancelled
  original_qty,   \* its quantity when it was submitted
  trades,         \* the trades of this call
  result          \* what the call returns

vars == <<resting, client_index, next_id, phase, order, original_qty, trades, result>>

ClientKeys == Users \X Symbols \X ClientIds

TypeOK ==
  /\ resting \in SUBSET Order
  /\ client_index \in [ClientKeys -> 0..MaxId]
  /\ next_id \in 1..MaxId + 1
  /\ phase \in {"idle", "matching", "done", "cancelled"}
  /\ order \in Order \cup {None}
  /\ original_qty \in 0..MaxQty
  /\ trades \in Seq(Trade)
  /\ result \in Result

Init ==
  /\ resting = {}
  /\ client_index = [k \in ClientKeys |-> 0]
  /\ next_id = 1
  /\ phase = "idle"
  /\ order = None
  /\ original_qty = 0
  /\ trades = << >>
  /\ result = NoResult

-----------------------------------------------------------------------------
\* The side of the book an incoming order trades against, and its best order.
OppositeOrders(o) ==
  {m \in resting : m.symbol_id = o.symbol_id /\ SideOf(m) = OtherSide(SideOf(o))}

IsBestFor(m, o) ==
  /\ m \in OppositeOrders(o)
  /\ \A other \in OppositeOrders(o) \ {m} : Better(m, other)

ClientKey(o) == <<o.user_id, o.symbol_id, o.client_order_id>>

\* The loop's condition: something is left to trade and the best opposite
\* order is within the incoming order's price boundary.
CanMatch(m) ==
  /\ phase = "matching"
  /\ order.qty > 0
  /\ IsBestFor(m, order)
  /\ Crosses(order, m.price)

MatchingOver ==
  /\ phase = "matching"
  /\ \/ order.qty = 0
     \/ \A m \in OppositeOrders(order) : ~Crosses(order, m.price)

\* Mutant of Submit: the counter is not moved past a given id.
SubmitForgetsId(o) ==
  /\ phase = "idle"
  /\ o.id >= next_id
  /\ next_id' = next_id
  /\ order' = o
  /\ original_qty' = o.qty
  /\ phase' = "matching"
  /\ UNCHANGED <<resting, client_index, trades, result>>

\* A new order enters the engine and is stamped with an id of its own.
Submit(o) ==
  /\ phase = "idle"
  /\ o.id >= next_id
  /\ next_id' = o.id + 1
  /\ order' = o
  /\ original_qty' = o.qty
  /\ phase' = "matching"
  /\ UNCHANGED <<resting, client_index, trades, result>>

Executed(qty) ==
  /\ order' = [order EXCEPT !.qty = @ - qty]
  /\ UNCHANGED <<next_id, phase, original_qty, result>>

\* The maker is larger than what the taker has left: it stays, reduced.
FillPartial(m) ==
  /\ CanMatch(m)
  /\ m.user_id # order.user_id
  /\ m.qty > order.qty
  /\ resting' = (resting \ {m}) \cup {[m EXCEPT !.qty = @ - order.qty]}
  /\ trades' = Append(trades, TradeBetween(order, m, order.qty))
  /\ Executed(order.qty)
  /\ UNCHANGED client_index

\* Mutant of FillWhole: the client id is not forgotten.
FillWholeKeepsClientId(m) ==
  /\ CanMatch(m)
  /\ m.user_id # order.user_id
  /\ m.qty <= order.qty
  /\ resting' = resting \ {m}
  /\ trades' = Append(trades, TradeBetween(order, m, m.qty))
  /\ Executed(m.qty)
  /\ UNCHANGED client_index

\* The maker is filled: it leaves the book and both indexes.
FillWhole(m) ==
  /\ CanMatch(m)
  /\ m.user_id # order.user_id
  /\ m.qty <= order.qty
  /\ resting' = resting \ {m}
  /\ client_index' = [client_index EXCEPT ![ClientKey(m)] = 0]
  /\ trades' = Append(trades, TradeBetween(order, m, m.qty))
  /\ Executed(m.qty)

Answer(r) ==
  /\ phase' = "done"
  /\ result' = r
  /\ UNCHANGED <<next_id, order, original_qty, trades>>

\* Mutant of SelfTrade: the level is left, but not the loop.
SelfTradeGoesOn(m) ==
  /\ CanMatch(m)
  /\ m.user_id = order.user_id
  /\ UNCHANGED vars

\* Self-trade prevention: the taker meets its own user's order and what is
\* left of it is dropped; the trades already made stand.
SelfTrade(m) ==
  /\ CanMatch(m)
  /\ m.user_id = order.user_id
  /\ Answer(Ok(original_qty - order.qty, order.qty, TRUE))
  /\ UNCHANGED <<resting, client_index>>

\* The taker is filled, or it is of a type that never rests.
Finish ==
  /\ MatchingOver
  /\ order.order_type # "Limit" \/ order.qty = 0
  /\ Answer(Ok(original_qty - order.qty, order.qty, FALSE))
  /\ UNCHANGED <<resting, client_index>>

\* The remainder of a limit order joins the book; its client id now names it,
\* whatever it named before.
Rest ==
  /\ MatchingOver
  /\ order.order_type = "Limit" /\ order.qty > 0
  /\ resting' = resting \cup {order}
  /\ client_index' = [client_index EXCEPT ![ClientKey(order)] = order.id]
  /\ Answer(Ok(original_qty - order.qty, order.qty, FALSE))

\* There may be no room for it: the call fails.  It has made no trade then: a
\* taker with quantity left has emptied every level it traded at, and so has
\* made room for itself.
RejectFull ==
  /\ MatchingOver
  /\ order.order_type = "Limit" /\ order.qty > 0
  /\ trades = << >>
  /\ Answer(Err("EngineFull"))
  /\ UNCHANGED <<resting, client_index>>

-----------------------------------------------------------------------------
\* The orders a cancellation's reference resolves to: none or one.  An
\* exchange id wins; only a reference that is no resting order's exchange id
\* is taken as a client id of the requesting user.
Named(symbol, ref) == {o \in resting : o.symbol_id = symbol /\ o.id = ref}

Resolved(user, symbol, ref) ==
  IF Named(symbol, ref) # {} THEN Named(symbol, ref)
  ELSE IF <<user, symbol, ref>> \in ClientKeys
       THEN Named(symbol, client_index[<<user, symbol, ref>>])
       ELSE {}

CancelAnswer(o, r) ==
  /\ phase' = "cancelled"
  /\ order' = o
  /\ result' = r
  /\ UNCHANGED <<next_id, original_qty, trades>>

CancelOk(user, symbol, ref) ==
  /\ phase = "idle"
  /\ \E o \in Resolved(user, symbol, ref) :
       /\ o.user_id = user
       /\ resting' = resting \ {o}
       /\ client_index' = [client_index EXCEPT ![ClientKey(o)] = 0]
       /\ CancelAnswer(o, Ok(0, o.qty, FALSE))

CancelUnauthorized(user, symbol, ref) ==
  /\ phase = "idle"
  /\ \E o \in Resolved(user, symbol, ref) : o.user_id # user
  /\ CancelAnswer(None, Err("Unauthorized"))
  /\ UNCHANGED <<resting, client_index>>

CancelNotFound(user, symbol, ref) ==
  /\ phase = "idle"
  /\ Resolved(user, symbol, ref) = {}
  /\ CancelAnswer(None, Err("OrderNotFound"))
  /\ UNCHANGED <<resting, client_index>>

\* The caller has read the answer and the trades.
Return ==
  /\ phase \in {"done", "cancelled"}
  /\ phase' = "idle"
  /\ order' = None
  /\ original_qty' = 0
  /\ trades' = << >>
  /\ result' = NoResult
  /\ UNCHANGED <<resting, client_index, next_id>>

-----------------------------------------------------------------------------
\* What callers submit and cancel.
Submissions ==
  [id : (next_id..next_id + MaxIdGap) \cap (1..MaxId), user_id : Users,
   client_order_id : ClientIds, symbol_id : Symbols, side : Sides,
   order_type : OrderTypes, price : Prices, qty : 1..MaxQty]

SubmitAny == \E o \in Submissions : Submit(o)

CancelAny ==
  \E user \in Users, symbol \in Symbols, ref \in (1..MaxId) \cup ClientIds :
    \/ CancelOk(user, symbol, ref)
    \/ CancelUnauthorized(user, symbol, ref)
    \/ CancelNotFound(user, symbol, ref)

\* One turn of the matching loop, or its end.
Match ==
  \/ \E m \in resting : FillPartial(m) \/ FillWhole(m) \/ SelfTrade(m)
  \/ Finish
  \/ Rest
  \/ RejectFull

Next == SubmitAny \/ CancelAny \/ Match \/ Return

Spec == Init /\ [][Next]_vars

-----------------------------------------------------------------------------
\* No order id is ever given twice: the id is the time in price-time
\* priority and the key of the order index (book.rs process, order id
\* assignment), so two live orders never share one.
IdsUnique ==
  /\ \A a, b \in resting : a.id = b.id => a = b
  /\ \A a \in resting : a.id < next_id /\ a.qty > 0
  /\ phase = "matching" => \A a \in resting : a.id < order.id

\* The book is never crossed or locked: whatever mixture of partial fills,
\* self-trade stops, slippage stops, refusals and cancellations went before,
\* every bid is strictly below every ask of its symbol (book.rs process:
\* both price boundaries, the self-trade return before the resting branch).
\* FastPriceIndex has one entry per price for both sides and relies on it.
Uncrossed ==
  \A bid, ask \in resting :
    /\ SideOf(bid) = "Buy" /\ SideOf(ask) = "Sell"
    /\ bid.symbol_id = ask.symbol_id
    => bid.price < ask.price

\* Nothing is traded through: as long as a call's trades are in hand, no
\* order better than a maker it traded with is left on the book
\* (match_level takes the head of the best level and nothing else).
NoTradeThrough ==
  phase \in {"matching", "done"} =>
    \A i \in 1..Len(trades) : \A m \in OppositeOrders(order) :
      /\ ~BetterPrice(SideOf(m), m.price, trades[i].price)
      /\ m.price = trades[i].price => m.id >= trades[i].maker_order_id

\* p is no worse than the price of o, for the side o is matched on.
WithinLimit(o, p) == IF SideOf(o) = "Buy" THEN p <= o.price ELSE p >= o.price

\* No limit order trades at a worse price than its own, no market order beyond
\* its slippage bound, and no order with one of its own user, at every point
\* of the call (the loops' breaks and the self-trade check of match_level).
TradesAreFair ==
  \A i \in 1..Len(trades) :
    /\ HasBoundary(order) => WithinLimit(order, trades[i].price)
    /\ trades[i].buyer_id # trades[i].seller_id

\* The client index has no ghost entry (README, "Zero Ghost Entry Leaks"):
\* what it maps a client id to is a resting order of that user and symbol.
NoGhostClientIds ==
  \A k \in ClientKeys :
    client_index[k] # 0 =>
      \E o \in resting : o.id = client_index[k] /\ ClientKey(o) = k
=============================================================================
