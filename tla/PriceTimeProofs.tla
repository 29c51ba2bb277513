-------------------------- MODULE PriceTimeProofs --------------------------
(***************************************************************************)
(* Theorems about PriceTime, for every number of users, symbols, prices,   *)
(* quantities and orders.                                                  *)
(***************************************************************************)
EXTENDS PriceTime, TLAPS

\* While a call is in progress it holds an order that has been stamped, and of
\* which no more is left than was submitted.
InHand ==
  phase \in {"matching", "done"} =>
    /\ order \in Order
    /\ order.qty <= original_qty
    /\ order.id < next_id

TypeInv == TypeOK /\ IdsUnique /\ InHand

USE TypesAssumption, PriceTimeAssumption

LEMMA NoneIsNoOrder == None \notin Order
  BY DEF Order

LEMMA SideIsReadable ==
  ASSUME NEW o
  PROVE  SideOf(o) \in Side
  BY DEF SideOf, Side

LEMMA OrderTerms ==
  ASSUME NEW o \in Order
  PROVE  o.price \in Nat /\ o.id \in Nat /\ o.qty \in Nat /\ SideOf(o) \in Side
  <1>1. /\ o.price \in Prices /\ o.id \in 1..MaxId /\ o.qty \in 0..MaxQty
        /\ SideOf(o) \in Side
    BY SideIsReadable DEF Order
  <1>2. o.price \in Nat
    BY <1>1
  <1>3. o.id \in Nat /\ o.qty \in Nat
    BY <1>1
  <1> QED
    BY <1>1, <1>2, <1>3

LEMMA RemainderIsOrder ==
  ASSUME NEW o \in Order, NEW q \in Nat, q <= o.qty
  PROVE  /\ [o EXCEPT !.qty = @ - q] \in Order
         /\ [o EXCEPT !.qty = @ - q].qty = o.qty - q
         /\ [o EXCEPT !.qty = @ - q].id = o.id
         /\ [o EXCEPT !.qty = @ - q].user_id = o.user_id
         /\ [o EXCEPT !.qty = @ - q].client_order_id = o.client_order_id
         /\ [o EXCEPT !.qty = @ - q].symbol_id = o.symbol_id
         /\ [o EXCEPT !.qty = @ - q].side = o.side
         /\ [o EXCEPT !.qty = @ - q].order_type = o.order_type
         /\ [o EXCEPT !.qty = @ - q].price = o.price
  BY DEF Order

LEMMA RemainderKeepsSide ==
  ASSUME NEW o \in Order, NEW q \in Nat, q <= o.qty
  PROVE  SideOf([o EXCEPT !.qty = @ - q]) = SideOf(o)
  BY RemainderIsOrder DEF SideOf

LEMMA TradeIsTyped ==
  ASSUME NEW taker \in Order, NEW maker \in Order, NEW q \in 1..MaxQty
  PROVE  TradeBetween(taker, maker, q) \in Trade
  BY DEF Order, Trade, TradeBetween

LEMMA ClientKeyIsTyped ==
  ASSUME NEW o \in Order
  PROVE  ClientKey(o) \in ClientKeys
  BY DEF Order, ClientKey, ClientKeys

LEMMA OkIsResult ==
  ASSUME NEW a \in 0..MaxQty, NEW b \in 0..MaxQty, NEW c \in BOOLEAN
  PROVE  Ok(a, b, c) \in Result
  BY DEF Ok, Result

LEMMA ErrIsResult ==
  ASSUME NEW r \in {"EngineFull", "OrderNotFound", "Unauthorized"}
  PROVE  Err(r) \in Result
  BY DEF Err, Result

LEMMA TypeInvInit == Init => TypeInv
  <1> SUFFICES ASSUME Init PROVE TypeInv
    OBVIOUS
  <1>1. 0 \in 0..MaxQty /\ 0 \in 0..MaxId
    OBVIOUS
  <1>2. NoResult \in Result
    BY <1>1, OkIsResult DEF NoResult
  <1> QED
    BY <1>1, <1>2 DEF Init, TypeInv, TypeOK, IdsUnique, InHand

LEMMA TypeInvSubmit ==
  ASSUME TypeInv, NEW o \in Order, Submit(o)
  PROVE  TypeInv'
  <1>1. o.id \in 1..MaxId /\ o.qty \in 0..MaxQty
    BY DEF Order
  <1>2. TypeOK'
    BY <1>1 DEF TypeInv, TypeOK, Submit
  <1>3. next_id \in 1..MaxId + 1 /\ \A a \in resting : a.id \in 1..MaxId
    BY DEF TypeInv, TypeOK, Order
  <1>4. IdsUnique' /\ InHand'
    BY <1>1, <1>3 DEF TypeInv, IdsUnique, InHand, Submit
  <1> QED
    BY <1>2, <1>4 DEF TypeInv

LEMMA TypeInvSubmitAny ==
  ASSUME TypeInv, SubmitAny
  PROVE  TypeInv'
  <1>1. PICK o \in Submissions : Submit(o)
    BY DEF SubmitAny
  <1>2. o \in Order
    BY DEF Submissions, Order
  <1> QED
    BY <1>1, <1>2, TypeInvSubmit

LEMMA TypeInvFillPartial ==
  ASSUME TypeInv, NEW m \in resting, FillPartial(m)
  PROVE  TypeInv'
  <1> DEFINE left == [m EXCEPT !.qty = @ - order.qty]
  <1>1. m \in Order /\ order \in Order /\ order.qty \in 1..MaxQty /\ m.qty \in 1..MaxQty
    BY DEF TypeInv, TypeOK, InHand, FillPartial, CanMatch, Order
  <1>2. /\ left \in Order
        /\ left.qty = m.qty - order.qty
        /\ left.id = m.id
    <2>1. order.qty \in Nat /\ order.qty <= m.qty
      BY <1>1 DEF FillPartial
    <2> QED
      BY <1>1, <2>1, RemainderIsOrder
  <1>3. /\ order' \in Order
        /\ order'.qty = 0
        /\ order'.id = order.id
    BY <1>1, RemainderIsOrder DEF FillPartial, Executed
  <1>4. trades' \in Seq(Trade)
    BY <1>1, TradeIsTyped DEF FillPartial, TypeInv, TypeOK
  <1>5. resting' = (resting \ {m}) \cup {left}
    BY DEF FillPartial
  <1>6. left.qty > 0
    BY <1>1, <1>2 DEF FillPartial
  <1> HIDE DEF left
  <1>7. TypeOK'
    BY <1>1, <1>2, <1>3, <1>4, <1>5 DEF TypeInv, TypeOK, FillPartial, Executed
  <1>8. IdsUnique'
    BY <1>1, <1>2, <1>3, <1>5, <1>6 DEF TypeInv, IdsUnique, FillPartial, Executed, CanMatch
  <1>9. InHand'
    BY <1>1, <1>3 DEF TypeInv, TypeOK, InHand, FillPartial, Executed
  <1> QED
    BY <1>7, <1>8, <1>9 DEF TypeInv

LEMMA TypeInvFillWhole ==
  ASSUME TypeInv, NEW m \in resting, FillWhole(m)
  PROVE  TypeInv'
  <1>1. m \in Order /\ order \in Order /\ order.qty \in 1..MaxQty /\ m.qty \in 1..MaxQty
    BY DEF TypeInv, TypeOK, IdsUnique, InHand, FillWhole, CanMatch, Order
  <1>2. /\ order' \in Order
        /\ order'.qty = order.qty - m.qty
        /\ order'.id = order.id
    BY <1>1, RemainderIsOrder DEF FillWhole, Executed
  <1>3. trades' \in Seq(Trade)
    BY <1>1, TradeIsTyped DEF FillWhole, TypeInv, TypeOK
  <1>4. client_index' \in [ClientKeys -> 0..MaxId]
    <2>1. 0 \in 0..MaxId /\ client_index \in [ClientKeys -> 0..MaxId]
      BY DEF TypeInv, TypeOK
    <2> QED
      BY <2>1 DEF FillWhole
  <1>5. TypeOK'
    BY <1>1, <1>2, <1>3, <1>4 DEF TypeInv, TypeOK, FillWhole, Executed
  <1>6. IdsUnique'
    BY <1>1, <1>2 DEF TypeInv, IdsUnique, FillWhole, Executed
  <1>7. InHand'
    BY <1>1, <1>2 DEF TypeInv, TypeOK, InHand, FillWhole, Executed
  <1> QED
    BY <1>5, <1>6, <1>7 DEF TypeInv

\* Actions that answer the call: nothing but the book, the client index and
\* the answer changes.
LEMMA TypeInvAnswer ==
  ASSUME TypeInv, Finish \/ RejectFull \/ \E m \in resting : SelfTrade(m)
  PROVE  TypeInv'
  <1>1. phase = "matching" /\ phase' = "done"
    BY DEF Finish, RejectFull, SelfTrade, MatchingOver, CanMatch, Answer
  <1>2. UNCHANGED <<resting, client_index, next_id, order, original_qty, trades>>
    BY DEF Finish, RejectFull, SelfTrade, Answer
  <1>3. /\ order.qty \in 0..MaxQty /\ original_qty - order.qty \in 0..MaxQty
    BY <1>1 DEF TypeInv, TypeOK, InHand, Order
  <1>4. result' \in Result
    BY <1>3, OkIsResult, ErrIsResult DEF Finish, RejectFull, SelfTrade, Answer
  <1> QED
    BY <1>1, <1>2, <1>4 DEF TypeInv, TypeOK, IdsUnique, InHand

LEMMA TypeInvRest ==
  ASSUME TypeInv, Rest
  PROVE  TypeInv'
  <1>1. /\ phase = "matching" /\ phase' = "done"
        /\ order \in Order /\ order.qty > 0
        /\ UNCHANGED <<next_id, order, original_qty, trades>>
        /\ resting' = resting \cup {order}
    BY DEF Rest, MatchingOver, Answer, TypeInv, InHand
  <1>2. order.qty \in 0..MaxQty /\ original_qty - order.qty \in 0..MaxQty
    BY <1>1 DEF TypeInv, TypeOK, InHand, Order
  <1>3. result' \in Result
    BY <1>2, OkIsResult DEF Rest, Answer
  <1>4. client_index' \in [ClientKeys -> 0..MaxId]
    <2>1. order.id \in 0..MaxId /\ client_index \in [ClientKeys -> 0..MaxId]
      BY <1>1 DEF TypeInv, TypeOK, Order
    <2> QED
      BY <2>1 DEF Rest
  <1>5. TypeOK'
    BY <1>1, <1>3, <1>4 DEF TypeInv, TypeOK
  <1>6. IdsUnique' /\ InHand'
    <2>1. \A a \in resting : a.id < order.id /\ a.id \in Nat
      BY <1>1 DEF TypeInv, TypeOK, IdsUnique, Order
    <2>2. order.id < next_id /\ order.id \in Nat
      BY <1>1 DEF TypeInv, InHand, Order
    <2> QED
      BY <1>1, <2>1, <2>2 DEF TypeInv, IdsUnique, InHand
  <1> QED
    BY <1>5, <1>6 DEF TypeInv

LEMMA NamedIsResting ==
  ASSUME NEW user, NEW symbol, NEW ref
  PROVE  Resolved(user, symbol, ref) \in SUBSET resting
  BY DEF Resolved, Named

LEMMA TypeInvCancel ==
  ASSUME TypeInv, CancelAny
  PROVE  TypeInv'
  <1>1. PICK user \in Users, symbol \in Symbols, ref \in (1..MaxId) \cup ClientIds :
          \/ CancelOk(user, symbol, ref)
          \/ CancelUnauthorized(user, symbol, ref)
          \/ CancelNotFound(user, symbol, ref)
    BY DEF CancelAny
  <1>2. CASE CancelOk(user, symbol, ref)
    <2>1. PICK o \in resting :
            /\ resting' = resting \ {o}
            /\ client_index' = [client_index EXCEPT ![ClientKey(o)] = 0]
            /\ CancelAnswer(o, Ok(0, o.qty, FALSE))
      BY <1>2, NamedIsResting DEF CancelOk
    <2>2. o \in Order /\ o.qty \in 0..MaxQty /\ 0 \in 0..MaxQty
      BY <2>1 DEF TypeInv, TypeOK, Order
    <2>3. result' \in Result
      BY <2>1, <2>2, OkIsResult DEF CancelAnswer
    <2>4. client_index' \in [ClientKeys -> 0..MaxId]
      <3>1. 0 \in 0..MaxId /\ client_index \in [ClientKeys -> 0..MaxId]
        BY DEF TypeInv, TypeOK
      <3> QED
        BY <2>1, <3>1
    <2>5. TypeOK'
      BY <2>1, <2>2, <2>3, <2>4 DEF TypeInv, TypeOK, CancelAnswer
    <2>6. IdsUnique' /\ InHand'
      BY <2>1 DEF TypeInv, IdsUnique, InHand, CancelAnswer
    <2> QED
      BY <2>5, <2>6 DEF TypeInv
  <1>3. CASE \/ CancelUnauthorized(user, symbol, ref)
             \/ CancelNotFound(user, symbol, ref)
    <2>1. /\ UNCHANGED <<resting, client_index, next_id, original_qty, trades>>
          /\ phase' = "cancelled" /\ order' = None
      BY <1>3 DEF CancelUnauthorized, CancelNotFound, CancelAnswer
    <2>2. result' \in Result
      BY <1>3, ErrIsResult DEF CancelUnauthorized, CancelNotFound, CancelAnswer
    <2> QED
      BY <2>1, <2>2 DEF TypeInv, TypeOK, IdsUnique, InHand
  <1> QED
    BY <1>1, <1>2, <1>3

LEMMA TypeInvReturn ==
  ASSUME TypeInv, Return
  PROVE  TypeInv'
  <1>1. 0 \in 0..MaxQty
    OBVIOUS
  <1>2. NoResult \in Result
    BY <1>1, OkIsResult DEF NoResult
  <1> QED
    BY <1>1, <1>2 DEF Return, TypeInv, TypeOK, IdsUnique, InHand

LEMMA TypeInvNext == TypeInv /\ [Next]_vars => TypeInv'
  <1> SUFFICES ASSUME TypeInv, [Next]_vars PROVE TypeInv'
    OBVIOUS
  <1>1. CASE UNCHANGED vars
    BY <1>1 DEF vars, TypeInv, TypeOK, IdsUnique, InHand
  <1>2. CASE Match
    BY <1>2, TypeInvFillPartial, TypeInvFillWhole, TypeInvAnswer, TypeInvRest DEF Match
  <1> QED
    BY <1>1, <1>2, TypeInvSubmitAny, TypeInvCancel, TypeInvReturn DEF Next

\* Every order, trade and answer the engine handles is well formed, at every
\* step of every call, with any capacity and any interleaving of calls.
THEOREM TypeCorrect == Spec => []TypeOK
  <1>1. TypeInv => TypeOK
    BY DEF TypeInv
  <1> QED
    BY <1>1, TypeInvInit, TypeInvNext, PTL DEF Spec

\* The engine never gives an order id twice and never keeps an order of
\* quantity zero (book.rs process: id assignment; match_level: removal).
THEOREM IdsStayUnique == Spec => []IdsUnique
  <1>1. TypeInv => IdsUnique
    BY DEF TypeInv
  <1> QED
    BY <1>1, TypeInvInit, TypeInvNext, PTL DEF Spec

-----------------------------------------------------------------------------
\* How one step changes the book: an order of the new book is the taker, which
\* has just come to rest, or it was there with the same terms.
SameTerms(a, b) ==
  /\ a.id = b.id /\ a.side = b.side /\ a.price = b.price
  /\ a.symbol_id = b.symbol_id /\ a.user_id = b.user_id
  /\ a.client_order_id = b.client_order_id

LEMMA StepOnBook ==
  ASSUME TypeInv, Next
  PROVE  \/ /\ Rest
            /\ resting' = resting \cup {order}
         \/ \A a \in resting' : \E b \in resting : SameTerms(a, b)
  <1>1. CASE \E m \in resting : FillPartial(m)
    <2>1. PICK m \in resting : FillPartial(m)
      BY <1>1
    <2>2. m \in Order /\ order.qty \in Nat /\ order.qty <= m.qty
      BY <2>1 DEF TypeInv, TypeOK, InHand, FillPartial, CanMatch, Order
    <2>3. SameTerms([m EXCEPT !.qty = @ - order.qty], m)
      BY <2>2, RemainderIsOrder DEF SameTerms
    <2> QED
      BY <2>1, <2>3 DEF FillPartial, SameTerms
  <1>2. CASE Rest
    BY <1>2 DEF Rest
  <1>3. CASE \/ SubmitAny \/ CancelAny \/ Return \/ Finish \/ RejectFull
             \/ \E m \in resting : FillWhole(m) \/ SelfTrade(m)
    <2>1. resting' \in SUBSET resting
      BY <1>3 DEF SubmitAny, Submit, CancelAny, CancelOk, CancelUnauthorized,
         CancelNotFound, Return, Finish, RejectFull, FillWhole, SelfTrade
    <2> QED
      BY <2>1 DEF SameTerms
  <1> QED
    BY <1>1, <1>2, <1>3 DEF Next, Match

LEMMA UncrossedNext == TypeInv /\ Uncrossed /\ [Next]_vars => Uncrossed'
  <1> SUFFICES ASSUME TypeInv, Uncrossed, [Next]_vars PROVE Uncrossed'
    OBVIOUS
  <1>1. CASE UNCHANGED vars
    BY <1>1 DEF vars, Uncrossed
  <1>2. CASE Next /\ \A a \in resting' : \E b \in resting : SameTerms(a, b)
    BY <1>2 DEF Uncrossed, SameTerms, SideOf
  <1>3. CASE Rest /\ resting' = resting \cup {order}
    <2>1. order \in Order /\ order.qty \in Nat
      BY <1>3 DEF Rest, MatchingOver, TypeInv, InHand, Order
    <2>2. \A m \in OppositeOrders(order) : ~Crosses(order, m.price)
      BY <1>3, <2>1 DEF Rest, MatchingOver
    <2>3. \A m \in resting : m.price \in Nat
      BY DEF TypeInv, TypeOK, Order
    <2>4. order.price \in Nat
      BY <2>1 DEF Order
    <2>5. ASSUME NEW m \in resting, m.symbol_id = order.symbol_id
          PROVE  /\ SideOf(order) = "Buy" /\ SideOf(m) = "Sell" => order.price < m.price
                 /\ SideOf(order) = "Sell" /\ SideOf(m) = "Buy" => m.price < order.price
      BY <2>2, <2>3, <2>4, <2>5 DEF OppositeOrders, OtherSide, Crosses, HasBoundary
    <2> QED
      BY <1>3, <2>5, <2>4 DEF Uncrossed
  <1> QED
    BY <1>1, <1>2, <1>3, StepOnBook

\* No bid ever reaches an ask of its symbol: the price-boundary breaks of both
\* matching loops, the self-trade return and the market return leave nothing
\* to rest that would cross (book.rs process).
THEOREM BookStaysUncrossed == Spec => []Uncrossed
  <1>1. Init => Uncrossed
    BY DEF Init, Uncrossed
  <1> QED
    BY <1>1, TypeInvInit, TypeInvNext, UncrossedNext, PTL DEF Spec

-----------------------------------------------------------------------------
\* Between calls there are no trades in hand.
Fresh == phase \in {"idle", "cancelled"} => trades = << >>

PriorityInv == Fresh /\ NoTradeThrough

\* A fill adds a trade with the best order; all the orders left are behind it.
LEMMA PriorityFill ==
  ASSUME TypeInv, PriorityInv, NEW m \in resting, FillPartial(m) \/ FillWhole(m)
  PROVE  PriorityInv'
  <1>1. /\ m \in Order /\ order \in Order
        /\ m.price \in Nat /\ m.id \in Nat
        /\ IsBestFor(m, order)
        /\ phase = "matching" /\ phase' = "matching"
    BY DEF TypeInv, TypeOK, InHand, FillPartial, FillWhole, CanMatch, Executed, Order
  <1>2. order'.symbol_id = order.symbol_id /\ SideOf(order)' = SideOf(order)
    BY <1>1 DEF FillPartial, FillWhole, Executed, Order, SideOf
  <1>3. \A a \in resting' : \E b \in resting : SameTerms(a, b)
    <2>1. Next
      BY DEF Next, Match
    <2>2. ~Rest
      BY <1>1 DEF Rest, Answer
    <2> QED
      BY <2>1, <2>2, StepOnBook
  <1>4. ASSUME NEW a \in OppositeOrders(order)'
        PROVE  \E b \in OppositeOrders(order) : SameTerms(a, b)
    BY <1>2, <1>3 DEF OppositeOrders, SameTerms, SideOf
  <1>5. PICK t \in Trade : /\ trades' = Append(trades, t)
                           /\ t.price = m.price /\ t.maker_order_id = m.id
    <2>1. CASE FillPartial(m)
      <3>1. order.qty \in 1..MaxQty
        BY <1>1, <2>1 DEF FillPartial, CanMatch, Order
      <3> QED
        BY <1>1, <2>1, <3>1, TradeIsTyped DEF FillPartial, TradeBetween
    <2>2. CASE FillWhole(m)
      <3>1. m.qty \in 1..MaxQty
        BY <1>1 DEF TypeInv, IdsUnique, Order
      <3> QED
        BY <1>1, <2>2, <3>1, TradeIsTyped DEF FillWhole, TradeBetween
    <2> QED
      BY <2>1, <2>2
  <1>6. trades \in Seq(Trade)
    BY DEF TypeInv, TypeOK
  <1>7. ASSUME NEW b \in OppositeOrders(order)
        PROVE  /\ ~BetterPrice(SideOf(b), b.price, m.price)
               /\ b.price = m.price => b.id >= m.id
    <2>1. b \in Order /\ b.price \in Nat /\ b.id \in Nat /\ SideOf(b) = SideOf(m)
      <3>1. b \in resting /\ SideOf(b) = SideOf(m)
        BY <1>1, <1>7 DEF OppositeOrders, IsBestFor
      <3>2. resting \in SUBSET Order
        BY DEF TypeInv, TypeOK
      <3>3. b \in Order
        BY <3>1, <3>2
      <3> QED
        BY <3>1, <3>3, OrderTerms
    <2>2. b = m \/ Better(m, b)
      BY <1>1, <1>7 DEF IsBestFor
    <2> QED
      BY <1>1, <2>1, <2>2 DEF Better, BetterPrice
  <1>8. ASSUME NEW i \in 1..Len(trades'), NEW a \in OppositeOrders(order)'
        PROVE  /\ ~BetterPrice(SideOf(a), a.price, trades'[i].price)
               /\ a.price = trades'[i].price => a.id >= trades'[i].maker_order_id
    <2>1. PICK b \in OppositeOrders(order) : SameTerms(a, b)
      BY <1>4, <1>8
    <2>2. CASE i \in 1..Len(trades)
      <3>1. trades'[i] = trades[i]
        BY <1>5, <1>6, <2>2
      <3> QED
        BY <1>1, <2>1, <2>2, <3>1 DEF PriorityInv, NoTradeThrough, SameTerms, SideOf
    <2>3. CASE i = Len(trades) + 1
      <3>1. trades'[i] = t
        BY <1>5, <1>6, <2>3
      <3> QED
        BY <1>5, <1>7, <2>1, <3>1 DEF SameTerms, SideOf
    <2> QED
      BY <1>5, <1>6, <2>2, <2>3
  <1> QED
    BY <1>1, <1>8 DEF PriorityInv, Fresh, NoTradeThrough

LEMMA PriorityNext == TypeInv /\ PriorityInv /\ [Next]_vars => PriorityInv'
  <1> SUFFICES ASSUME TypeInv, PriorityInv, [Next]_vars PROVE PriorityInv'
    OBVIOUS
  <1>1. CASE UNCHANGED vars
    BY <1>1 DEF vars, PriorityInv, Fresh, NoTradeThrough, OppositeOrders
  <1>2. CASE SubmitAny
    BY <1>2 DEF SubmitAny, Submit, PriorityInv, Fresh, NoTradeThrough
  <1>3. CASE CancelAny \/ Return
    BY <1>3 DEF CancelAny, CancelOk, CancelUnauthorized, CancelNotFound,
       CancelAnswer, Return, PriorityInv, Fresh, NoTradeThrough
  <1>4. CASE Finish \/ RejectFull \/ \E m \in resting : SelfTrade(m)
    BY <1>4 DEF Finish, RejectFull, SelfTrade, Answer, MatchingOver, CanMatch,
       PriorityInv, Fresh, NoTradeThrough, OppositeOrders
  <1>5. CASE Rest
    <2>1. SideOf(order) # OtherSide(SideOf(order))
      BY DEF OtherSide
    <2>2. OppositeOrders(order)' = OppositeOrders(order)
      BY <1>5, <2>1 DEF Rest, Answer, OppositeOrders
    <2> QED
      BY <1>5, <2>2 DEF Rest, Answer, MatchingOver, PriorityInv, Fresh, NoTradeThrough
  <1> QED
    BY <1>1, <1>2, <1>3, <1>4, <1>5, PriorityFill DEF Next, Match

\* Price-time priority: as long as a call's trades are in hand, no order that
\* was better than one of their makers is left on the book (match_level).
THEOREM NothingTradedThrough == Spec => []NoTradeThrough
  <1>1. Init => PriorityInv
    BY DEF Init, PriorityInv, Fresh, NoTradeThrough
  <1>2. PriorityInv => NoTradeThrough
    BY DEF PriorityInv
  <1> QED
    BY <1>1, <1>2, TypeInvInit, TypeInvNext, PriorityNext, PTL DEF Spec

-----------------------------------------------------------------------------
FairInv == Fresh /\ TradesAreFair

\* What the loops' breaks compare is the taker's own limit.
LEMMA CrossesMeans ==
  \A o, p : Crosses(o, p) <=> (HasBoundary(o) => WithinLimit(o, p))
  BY DEF Crosses, WithinLimit, SideOf

LEMMA FairNext == TypeInv /\ FairInv /\ [Next]_vars => FairInv'
  <1> SUFFICES ASSUME TypeInv, FairInv, [Next]_vars PROVE FairInv'
    OBVIOUS
  <1>1. CASE UNCHANGED vars
    BY <1>1 DEF vars, FairInv, Fresh, TradesAreFair
  <1>2. CASE SubmitAny
    <2>1. trades' = << >> /\ phase' = "matching"
      BY <1>2 DEF SubmitAny, Submit, FairInv, Fresh
    <2>2. Len(trades') = 0
      BY <2>1
    <2> QED
      BY <2>1, <2>2 DEF FairInv, Fresh, TradesAreFair
  <1>3. CASE CancelAny \/ Return
    <2>1. trades' = << >>
      BY <1>3 DEF CancelAny, CancelOk, CancelUnauthorized, CancelNotFound,
         CancelAnswer, Return, FairInv, Fresh
    <2>2. Len(trades') = 0
      BY <2>1
    <2> QED
      BY <2>1, <2>2 DEF FairInv, Fresh, TradesAreFair
  <1>4. CASE Finish \/ RejectFull \/ Rest \/ \E m \in resting : SelfTrade(m)
    BY <1>4 DEF Finish, RejectFull, Rest, SelfTrade, Answer,
       FairInv, Fresh, TradesAreFair
  <1>5. CASE \E m \in resting : FillPartial(m) \/ FillWhole(m)
    <2>1. PICK m \in resting : FillPartial(m) \/ FillWhole(m)
      BY <1>5
    <2>2. /\ m \in Order /\ order \in Order
          /\ phase = "matching" /\ phase' = "matching"
          /\ Crosses(order, m.price) /\ m.user_id # order.user_id
      BY <2>1 DEF TypeInv, TypeOK, InHand, FillPartial, FillWhole, CanMatch, Executed
    <2>3. /\ SideOf(order') = SideOf(order) /\ order'.price = order.price
          /\ order'.order_type = order.order_type
      BY <2>1, <2>2 DEF FillPartial, FillWhole, Executed, Order, SideOf
    <2>4. \A p : Crosses(order', p) <=> Crosses(order, p)
      BY <2>3 DEF Crosses, HasBoundary
    <2>5. PICK t \in Trade : /\ trades' = Append(trades, t)
                             /\ t.price = m.price /\ t.buyer_id # t.seller_id
      <3>1. CASE FillPartial(m)
        <4>1. order.qty \in 1..MaxQty
          BY <2>2, <3>1 DEF FillPartial, CanMatch, Order
        <4> QED
          BY <2>2, <3>1, <4>1, TradeIsTyped DEF FillPartial, TradeBetween
      <3>2. CASE FillWhole(m)
        <4>1. m.qty \in 1..MaxQty
          BY <2>2 DEF TypeInv, IdsUnique, Order
        <4> QED
          BY <2>2, <3>2, <4>1, TradeIsTyped DEF FillWhole, TradeBetween
      <3> QED
        BY <2>1, <3>1, <3>2
    <2>6. trades \in Seq(Trade)
      BY DEF TypeInv, TypeOK
    <2>7. ASSUME NEW i \in 1..Len(trades')
          PROVE  /\ Crosses(order', trades'[i].price)
                 /\ trades'[i].buyer_id # trades'[i].seller_id
      <3>1. CASE i \in 1..Len(trades)
        <4>1. trades'[i] = trades[i]
          BY <2>5, <2>6, <3>1
        <4> QED
          BY <2>4, <3>1, <4>1, CrossesMeans DEF FairInv, TradesAreFair
      <3>2. CASE i = Len(trades) + 1
        <4>1. trades'[i] = t
          BY <2>5, <2>6, <3>2
        <4> QED
          BY <2>2, <2>4, <2>5, <4>1
      <3> QED
        BY <2>5, <2>6, <3>1, <3>2
    <2> QED
      BY <2>2, <2>7, CrossesMeans DEF FairInv, Fresh, TradesAreFair
  <1> QED
    BY <1>1, <1>2, <1>3, <1>4, <1>5 DEF Next, Match

\* Every trade is within the taker's price boundary and between two users
\* (the breaks of process, the self-trade check of match_level).
THEOREM TradesStayFair == Spec => []TradesAreFair
  <1>1. Init => FairInv
    BY DEF Init, FairInv, Fresh, TradesAreFair
  <1>2. FairInv => TradesAreFair
    BY DEF FairInv
  <1> QED
    BY <1>1, <1>2, TypeInvInit, TypeInvNext, FairNext, PTL DEF Spec

-----------------------------------------------------------------------------
\* An order that leaves the book takes its client id's entry with it.
LEMMA RemovalLeavesNoGhost ==
  ASSUME TypeInv, NoGhostClientIds, NEW m \in resting,
         resting' = resting \ {m},
         client_index' = [client_index EXCEPT ![ClientKey(m)] = 0]
  PROVE  NoGhostClientIds'
  <1> SUFFICES ASSUME NEW k \in ClientKeys, client_index'[k] # 0
               PROVE  \E o \in resting' : o.id = client_index'[k] /\ ClientKey(o) = k
    BY DEF NoGhostClientIds, ClientKey
  <1>1. client_index \in [ClientKeys -> 0..MaxId]
    BY DEF TypeInv, TypeOK
  <1>2. k # ClientKey(m) /\ client_index'[k] = client_index[k]
    BY <1>1
  <1>3. PICK o \in resting : o.id = client_index[k] /\ ClientKey(o) = k
    BY <1>2 DEF NoGhostClientIds
  <1> QED
    BY <1>2, <1>3

LEMMA NoGhostNext == TypeInv /\ NoGhostClientIds /\ [Next]_vars => NoGhostClientIds'
  <1> SUFFICES ASSUME TypeInv, NoGhostClientIds, [Next]_vars PROVE NoGhostClientIds'
    OBVIOUS
  <1>1. CASE \/ UNCHANGED vars \/ SubmitAny \/ Return \/ Finish \/ RejectFull
             \/ \E m \in resting : SelfTrade(m)
    BY <1>1 DEF vars, SubmitAny, Submit, Return, Finish, RejectFull, SelfTrade,
       NoGhostClientIds, ClientKey
  <1>2. CASE \E m \in resting : FillWhole(m)
    BY <1>2, RemovalLeavesNoGhost DEF FillWhole
  <1>3. CASE CancelAny
    <2>1. PICK user \in Users, symbol \in Symbols, ref \in (1..MaxId) \cup ClientIds :
            \/ CancelOk(user, symbol, ref)
            \/ CancelUnauthorized(user, symbol, ref)
            \/ CancelNotFound(user, symbol, ref)
      BY <1>3 DEF CancelAny
    <2>2. CASE CancelOk(user, symbol, ref)
      BY <2>2, NamedIsResting, RemovalLeavesNoGhost DEF CancelOk
    <2> QED
      BY <2>1, <2>2 DEF CancelUnauthorized, CancelNotFound, NoGhostClientIds, ClientKey
  <1>4. CASE \E m \in resting : FillPartial(m)
    <2>1. PICK m \in resting : FillPartial(m)
      BY <1>4
    <2> DEFINE left == [m EXCEPT !.qty = @ - order.qty]
    <2>2. m \in Order /\ order.qty \in Nat /\ order.qty <= m.qty
      BY <2>1 DEF TypeInv, TypeOK, InHand, FillPartial, CanMatch, Order
    <2>3. left.id = m.id /\ ClientKey(left) = ClientKey(m)
      BY <2>2, RemainderIsOrder DEF ClientKey
    <2>4. /\ resting' = (resting \ {m}) \cup {left}
          /\ client_index' = client_index
      BY <2>1 DEF FillPartial
    <2> HIDE DEF left
    <2> SUFFICES ASSUME NEW k \in ClientKeys, client_index'[k] # 0
                 PROVE  \E o \in resting' : o.id = client_index'[k] /\ ClientKey(o) = k
      BY DEF NoGhostClientIds, ClientKey
    <2>5. PICK o \in resting : o.id = client_index[k] /\ ClientKey(o) = k
      BY <2>4 DEF NoGhostClientIds
    <2> QED
      BY <2>3, <2>4, <2>5
  <1>5. CASE Rest
    <2>1. /\ resting' = resting \cup {order}
          /\ client_index' = [client_index EXCEPT ![ClientKey(order)] = order.id]
      BY <1>5 DEF Rest
    <2>2. client_index \in [ClientKeys -> 0..MaxId]
      BY DEF TypeInv, TypeOK
    <2> SUFFICES ASSUME NEW k \in ClientKeys, client_index'[k] # 0
                 PROVE  \E o \in resting' : o.id = client_index'[k] /\ ClientKey(o) = k
      BY DEF NoGhostClientIds, ClientKey
    <2>3. CASE k = ClientKey(order)
      BY <2>1, <2>2, <2>3
    <2>4. CASE k # ClientKey(order)
      <3>1. client_index'[k] = client_index[k]
        BY <2>1, <2>2, <2>4
      <3>2. PICK o \in resting : o.id = client_index[k] /\ ClientKey(o) = k
        BY <3>1 DEF NoGhostClientIds
      <3> QED
        BY <2>1, <3>1, <3>2
    <2> QED
      BY <2>3, <2>4
  <1> QED
    BY <1>1, <1>2, <1>3, <1>4, <1>5 DEF Next, Match

\* The client index never maps a client id to an order that has been filled or
\* cancelled, even when one user reuses a client id (match_level and
\* cancel_order remove the entry by client id, not by order).
THEOREM NoGhostEntries == Spec => []NoGhostClientIds
  <1>1. Init => NoGhostClientIds
    BY DEF Init, NoGhostClientIds
  <1> QED
    BY <1>1, TypeInvInit, TypeInvNext, NoGhostNext, PTL DEF Spec

=============================================================================
