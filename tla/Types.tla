------------------------------- MODULE Types -------------------------------
(***************************************************************************)
(* Orders, trades and engine results: the vocabulary of src/src/types.rs   *)
(* that the matching engine and the risk engine share.  The wire layout,   *)
(* padding and byte order are left out; so are the trade's match_id and    *)
(* the connection numbers, which no decision of the engine reads.          *)
(***************************************************************************)
EXTENDS Integers, Sequences, FiniteSets

CONSTANTS
  Users,        \* user_id values
  Symbols,      \* the books of the engine
  Prices,       \* limit prices and market slippage bounds, in ticks
  MaxQty,       \* the largest quantity an order is submitted with
  ClientIds,    \* client_order_id values, in the same number space as ids
  Sides,        \* the side bytes orders carry, "Invalid" being all from 2 up
  OrderTypes,   \* the kinds of order submitted: "Limit", "Market", "Deposit"
  MaxId,        \* bound: the last exchange order id a behaviour hands out
  None          \* no order

ASSUME TypesAssumption ==
  /\ Prices \subseteq Nat
  /\ MaxQty \in Nat \ {0}
  /\ ClientIds \subseteq Nat \ {0}
  /\ Sides \subseteq {"Buy", "Sell", "Invalid"}
  /\ OrderTypes \subseteq {"Limit", "Market", "Deposit"}
  /\ MaxId \in Nat \ {0}
  /\ None \notin [id : 1..MaxId, user_id : Users, client_order_id : ClientIds,
                  symbol_id : Symbols, side : Sides,
                  order_type : OrderTypes, price : Prices, qty : 0..MaxQty]

Side == {"Buy", "Sell"}

\* Nothing checks the byte a client sends as the side.  Which book an order
\* is matched and rests in is asked as "is it Sell?", which margin is given
\* back as get_side().unwrap_or(Buy): both take an unreadable byte for a
\* buyer's.  lock_order_funds and match_level ask "is it Buy?" instead, and
\* there the byte counts as a seller's: o.side = "Buy" below.
SideOf(o) == IF o.side = "Sell" THEN "Sell" ELSE "Buy"

OtherSide(side) == IF side = "Buy" THEN "Sell" ELSE "Buy"

Order ==
  [id : 1..MaxId, user_id : Users, client_order_id : ClientIds,
   symbol_id : Symbols, side : Sides, order_type : OrderTypes,
   price : Prices, qty : 0..MaxQty]

Trade ==
  [maker_order_id : 1..MaxId, taker_order_id : 1..MaxId,
   maker_user_id : Users, taker_user_id : Users,
   buyer_id : Users, seller_id : Users,
   symbol_id : Symbols, price : Prices, qty : 1..MaxQty]

\* Mutant of TradeBetween: buyer and seller confused.
TradeReversed(incoming, maker, qty) ==
  [maker_order_id |-> maker.id, taker_order_id |-> incoming.id,
   maker_user_id |-> maker.user_id, taker_user_id |-> incoming.user_id,
   buyer_id |-> IF incoming.side = "Buy" THEN maker.user_id ELSE incoming.user_id,
   seller_id |-> IF incoming.side = "Buy" THEN incoming.user_id ELSE maker.user_id,
   symbol_id |-> incoming.symbol_id, price |-> maker.price, qty |-> qty]

\* The trade match_level records for an incoming order and the maker at the
\* head of the best level: the maker's price decides.  A taker whose side is
\* not Buy is the seller, though one that is not Sell either met asks.
TradeBetween(incoming, maker, qty) ==
  [maker_order_id |-> maker.id, taker_order_id |-> incoming.id,
   maker_user_id |-> maker.user_id, taker_user_id |-> incoming.user_id,
   buyer_id |-> IF incoming.side = "Buy" THEN incoming.user_id ELSE maker.user_id,
   seller_id |-> IF incoming.side = "Buy" THEN maker.user_id ELSE incoming.user_id,
   symbol_id |-> incoming.symbol_id, price |-> maker.price, qty |-> qty]

\* Ok(ExecutionReport), Ok(Order) of a cancellation, or Err(RejectReason).
Result ==
  [error : {"None", "EngineFull", "OrderNotFound", "Unauthorized"},
   executed_qty : 0..MaxQty, remaining_qty : 0..MaxQty, stp_triggered : BOOLEAN]

Ok(executed, remaining, stp) ==
  [error |-> "None", executed_qty |-> executed, remaining_qty |-> remaining,
   stp_triggered |-> stp]

Err(reason) ==
  [error |-> reason, executed_qty |-> 0, remaining_qty |-> 0,
   stp_triggered |-> FALSE]

NoResult == Ok(0, 0, FALSE)

\* Limit orders, and market orders with a slippage bound.  An order of type
\* Deposit that reaches the matching loop (the exchange does not stop it) is
\* neither, and trades at any price.
HasBoundary(incoming) ==
  \/ incoming.order_type = "Limit"
  \/ incoming.order_type = "Market" /\ incoming.price > 0

\* Mutant of Crosses: the boundary taken as exclusive.
CrossesStrictly(incoming, best_price) ==
  \/ ~HasBoundary(incoming)
  \/ SideOf(incoming) = "Buy" /\ best_price < incoming.price
  \/ SideOf(incoming) = "Sell" /\ best_price > incoming.price

\* Mutant of Crosses: the slippage bound of market orders is not looked at.
CrossesWithSlippage(incoming, best_price) ==
  \/ incoming.order_type # "Limit"
  \/ SideOf(incoming) = "Buy" /\ best_price <= incoming.price
  \/ SideOf(incoming) = "Sell" /\ best_price >= incoming.price

\* The price boundary of the two matching loops: a limit order never trades
\* beyond its price, and neither does a market order that carries a slippage
\* bound (price > 0).
Crosses(incoming, best_price) ==
  \/ ~HasBoundary(incoming)
  \/ SideOf(incoming) = "Buy" /\ best_price <= incoming.price
  \/ SideOf(incoming) = "Sell" /\ best_price >= incoming.price

\* p is a strictly better price than q to trade against on that side.
BetterPrice(side, p, q) == IF side = "Buy" THEN p > q ELSE p < q

\* Mutant of Better: last in, first out within a price.
BetterNewest(a, b) ==
  \/ BetterPrice(SideOf(a), a.price, b.price)
  \/ a.price = b.price /\ a.id > b.id

\* Price-time priority between two resting orders of one side.  An engine
\* stamps ids in the order it receives the orders, so the id is the time.
Better(a, b) ==
  \/ BetterPrice(SideOf(a), a.price, b.price)
  \/ a.price = b.price /\ a.id < b.id
=============================================================================
