--------------------------- MODULE ExchangeProofs ---------------------------
(***************************************************************************)
(* The engine thread runs the books as PriceTime says, so what is proved   *)
(* of PriceTime holds of it; its accounts never underflow; and what it has *)
(* locked is what its orders need.  The last follows from an account of    *)
(* every locked unit in the middle of a call too: it is for an order that  *)
(* rests (Booked), for the order in hand (InTheHand) or for a trade made   *)
(* and not settled (Due).                                                  *)
(***************************************************************************)
EXTENDS Exchange, PriceTimeProofs, SetLemmas

USE ExchangeAssumption, RiskAssumption, UsersAreFinite

\* Each step of the engine thread is one of the engine's or leaves it alone.
LEMMA XStepIsBookStep == [XNext]_xvars => [Next]_vars
  <1> SUFFICES ASSUME [XNext]_xvars PROVE [Next]_vars
    OBVIOUS
  <1>1. CASE UNCHANGED xvars
    BY <1>1 DEF xvars, vars
  <1>2. CASE \E o \in Submissions : RejectOrder(o) \/ AcceptOrder(o)
    BY <1>2 DEF RejectOrder, AcceptOrder, Next, SubmitAny
  <1>3. CASE CancelStep
    BY <1>3 DEF CancelStep, Next
  <1>4. CASE MatchStep
    BY <1>4 DEF MatchStep, Next, Match
  <1>5. CASE SettleNext
    BY <1>5 DEF SettleNext
  <1>6. CASE \/ ReturnLimit \/ ReturnSelfTrade \/ ReturnMarket \/ ReturnFull
             \/ ReturnCancelOk \/ ReturnCancelRejected
    BY <1>6 DEF ReturnLimit, ReturnSelfTrade, ReturnMarket, ReturnFull,
       ReturnCancelOk, ReturnCancelRejected, Next
  <1> QED
    BY <1>1, <1>2, <1>3, <1>4, <1>5, <1>6 DEF XNext, EngineStep

\* The exchange implements the abstract engine, whatever it does with margin
\* (exchange.rs calls process and cancel_order and nothing else on the books).
THEOREM ExchangeRunsPriceTime == XSpec => Spec
  <1>1. XInit => Init
    BY DEF XInit
  <1> QED
    BY <1>1, XStepIsBookStep, PTL DEF XSpec, Spec

\* The books the exchange keeps are never crossed.
THEOREM ExchangeStaysUncrossed == XSpec => []Uncrossed
  BY ExchangeRunsPriceTime, BookStaysUncrossed, PTL

-----------------------------------------------------------------------------
(* The accounts. *)

LEMMA ProductIsNat ==
  ASSUME NEW a \in Nat, NEW b \in Nat
  PROVE  a * b \in Nat
  OBVIOUS

LEMMA MinusIsNat ==
  ASSUME NEW a \in Nat, NEW b \in Nat
  PROVE  Minus(a, b) \in Nat
  BY DEF Minus

LEMMA OrderIsNat ==
  ASSUME NEW o \in Order
  PROVE  /\ o.price \in Nat /\ o.qty \in Nat
         /\ o.user_id \in Users /\ o.symbol_id \in Symbols
  BY OrderTerms DEF Order

\* The accounts start, and stay under each operation of the risk engine, natural
\* numbers.
LEMMA RiskInitTyped == RiskInit => RiskTypeOK
  BY DEF RiskInit, RiskTypeOK

LEMMA LockFundsTyped ==
  ASSUME RiskTypeOK, NEW o \in Order, LockError(o) = "None", LockFunds(o)
  PROVE  RiskTypeOK'
  <1>1. /\ o.price \in Nat /\ o.qty \in Nat /\ o.user_id \in Users
        /\ Asset(o) \in Holdings /\ o.price * o.qty \in Nat
    BY OrderIsNat, ProductIsNat DEF Asset, Holdings
  <1>2. CASE o.side = "Buy"
    <2>1. usd_available[o.user_id] >= o.price * o.qty
      BY <1>1, <1>2 DEF LockError, RiskTypeOK
    <2> QED
      BY <1>1, <1>2, <2>1 DEF LockFunds, RiskTypeOK, assets
  <1>3. CASE o.side # "Buy"
    <2>1. asset_available[Asset(o)] >= o.qty
      BY <1>1, <1>3 DEF LockError, RiskTypeOK
    <2> QED
      BY <1>1, <1>3, <2>1 DEF LockFunds, RiskTypeOK, usd
  <1> QED
    BY <1>2, <1>3

LEMMA UnlockUsdTyped ==
  ASSUME RiskTypeOK, NEW u \in Users, NEW amount \in Nat, UnlockUsd(u, amount)
  PROVE  RiskTypeOK'
  <1>1. Minus(usd_locked[u], amount) \in Nat
    BY MinusIsNat DEF RiskTypeOK
  <1> QED
    BY <1>1 DEF UnlockUsd, RiskTypeOK, assets

LEMMA UnlockAssetTyped ==
  ASSUME RiskTypeOK, NEW h \in Holdings, NEW qty \in Nat, UnlockAsset(h, qty)
  PROVE  RiskTypeOK'
  <1>1. Minus(asset_locked[h], qty) \in Nat
    BY MinusIsNat DEF RiskTypeOK
  <1> QED
    BY <1>1 DEF UnlockAsset, RiskTypeOK, usd

LEMMA UnlockFundsTyped ==
  ASSUME RiskTypeOK, NEW o \in Order, NEW qty \in Nat, UnlockFunds(o, qty)
  PROVE  RiskTypeOK'
  <1>1. o.user_id \in Users /\ Asset(o) \in Holdings /\ o.price * qty \in Nat
    BY OrderIsNat, ProductIsNat DEF Asset, Holdings
  <1> QED
    BY <1>1, UnlockUsdTyped, UnlockAssetTyped DEF UnlockFunds

LEMMA RefundTyped ==
  ASSUME RiskTypeOK, NEW o \in Order, NEW q \in Nat, NEW c \in Nat,
         RefundRemainder(o, q, c)
  PROVE  RiskTypeOK'
  <1>1. /\ o.user_id \in Users /\ Asset(o) \in Holdings
        /\ o.price * o.qty \in Nat /\ o.qty \in Nat
    BY OrderIsNat, ProductIsNat DEF Asset, Holdings
  <1>2. Minus(o.price * o.qty, c) \in Nat /\ Minus(o.qty, q) \in Nat
    BY <1>1, MinusIsNat
  <1> QED
    BY <1>1, <1>2, UnlockUsdTyped, UnlockAssetTyped DEF RefundRemainder

LEMMA SettleTyped ==
  ASSUME RiskTypeOK, NEW t \in Trade, NEW p \in Nat, SettleTrade(t, p)
  PROVE  RiskTypeOK' /\ t.price * t.qty \in Nat /\ t.qty \in Nat
  <1>1. /\ t.buyer_id \in Users /\ t.seller_id \in Users /\ t.symbol_id \in Symbols
        /\ t.price \in Nat /\ t.qty \in Nat
    <2>1. t.price \in Prices /\ t.qty \in 1..MaxQty
      BY DEF Trade
    <2>2. t.price \in Nat /\ t.qty \in Nat
      <3>1. t.price \in Nat
        BY <2>1, TypesAssumption, Zenon
      <3>2. t.qty \in Nat
        BY <2>1
      <3> QED
        BY <3>1, <3>2
    <2>3. t.buyer_id \in Users /\ t.seller_id \in Users /\ t.symbol_id \in Symbols
      BY DEF Trade
    <2> QED
      BY <2>2, <2>3
  <1>2. PICK locked \in Nat :
          usd_locked' = [usd_locked EXCEPT ![t.buyer_id] = Minus(@, locked)]
          /\ usd_available' =
               [usd_available EXCEPT ![t.buyer_id] = @ + Minus(locked, t.price * t.qty),
                                     ![t.seller_id] = @ + t.price * t.qty]
    BY <1>1, ProductIsNat DEF SettleTrade
  <1>3. t.price * t.qty \in Nat
    BY <1>1, ProductIsNat
  <1>4. Minus(locked, t.price * t.qty) \in Nat
    BY <1>2, <1>3, MinusIsNat
  <1>5. usd_locked' \in [Users -> Nat]
    BY <1>1, <1>2, MinusIsNat DEF RiskTypeOK
  <1>6. usd_available' \in [Users -> Nat]
    BY <1>1, <1>2, <1>3, <1>4 DEF RiskTypeOK
  <1>7. <<t.buyer_id, t.symbol_id>> \in Holdings /\ <<t.seller_id, t.symbol_id>> \in Holdings
    BY <1>1 DEF Holdings
  <1>8. asset_available' \in [Holdings -> Nat] /\ asset_locked' \in [Holdings -> Nat]
    <2>1. Minus(asset_locked[<<t.seller_id, t.symbol_id>>], t.qty) \in Nat
      BY <1>1, <1>7, MinusIsNat DEF RiskTypeOK
    <2>2. asset_locked' \in [Holdings -> Nat]
      BY <1>7, <2>1 DEF SettleTrade, RiskTypeOK
    <2>3. asset_available' \in [Holdings -> Nat]
      BY <1>1, <1>7 DEF SettleTrade, RiskTypeOK
    <2> QED
      BY <2>2, <2>3
  <1> QED
    BY <1>1, <1>3, <1>5, <1>6, <1>8 DEF RiskTypeOK

-----------------------------------------------------------------------------
\* The accounts are typed, and so is the order a cancellation took off.
XInv == XTypeOK /\ TypeInv /\ (phase = "cancelled" /\ result.error = "None" => order \in Order)

TallyTypeOK ==
  /\ settled \in Nat /\ total_executed_qty \in Nat /\ total_executed_cost \in Nat
  /\ answer \in Answers

LEMMA XInvInit == XInit => XInv
  BY TypeInvInit, RiskInitTyped DEF XInit, XInv, XTypeOK, TypeInv, Init, Answers

\* The exchange's copy of the order in hand, and what a cancellation found, are orders.
LEMMA SubmittedIsOrder ==
  ASSUME TypeInv, phase = "done"
  PROVE  /\ order \in Order /\ Submitted \in Order
         /\ original_qty \in Nat /\ result.remaining_qty \in Nat
         /\ order.price \in Nat
  <1>1. order \in Order /\ original_qty \in 0..MaxQty /\ result \in Result
    BY DEF TypeInv, TypeOK, InHand
  <1>2. Submitted \in Order
    BY <1>1 DEF Submitted, Order
  <1>3. result.remaining_qty \in 0..MaxQty
    BY <1>1 DEF Result
  <1> QED
    BY <1>1, <1>2, <1>3, OrderTerms

LEMMA CancelledIsOrder ==
  ASSUME TypeInv, CancelAny
  PROVE  result'.error = "None" => order' \in Order
  <1>1. PICK user \in Users, symbol \in Symbols, ref \in (1..MaxId) \cup ClientIds :
          \/ CancelOk(user, symbol, ref)
          \/ CancelUnauthorized(user, symbol, ref)
          \/ CancelNotFound(user, symbol, ref)
    BY DEF CancelAny
  <1>2. CASE CancelOk(user, symbol, ref)
    <2>1. PICK o \in resting : CancelAnswer(o, Ok(0, o.qty, FALSE))
      BY <1>2, NamedIsResting DEF CancelOk
    <2> QED
      BY <2>1 DEF CancelAnswer, TypeInv, TypeOK
  <1>3. CASE CancelUnauthorized(user, symbol, ref) \/ CancelNotFound(user, symbol, ref)
    <2>1. result'.error # "None"
      BY <1>3 DEF CancelUnauthorized, CancelNotFound, CancelAnswer, Err
    <2> QED
      BY <2>1
  <1> QED
    BY <1>1, <1>2, <1>3

\* Typed accounts stay typed: one case per operation of the engine thread.
LEMMA XInvNext == XInv /\ [XNext]_xvars => XInv'
  <1> SUFFICES ASSUME XInv, [XNext]_xvars PROVE XInv'
    OBVIOUS
  <1>1. TypeInv'
    BY XStepIsBookStep, TypeInvNext DEF XInv
  <1>2. /\ TypeInv /\ RiskTypeOK /\ TallyTypeOK
        /\ (phase = "cancelled" /\ result.error = "None" => order \in Order)
    BY DEF XInv, XTypeOK, TallyTypeOK
  <1>3. phase' = "cancelled" /\ result'.error = "None" => order' \in Order
    <2>1. CASE CancelStep
      BY <1>2, <2>1, CancelledIsOrder DEF CancelStep
    <2>2. CASE UNCHANGED vars
      BY <1>2, <2>2 DEF vars
    <2>3. CASE MatchStep \/ \E o \in Submissions : AcceptOrder(o)
      <3>1. phase' # "cancelled"
        BY <2>3 DEF MatchStep, AcceptOrder, Submit, FillPartial, FillWhole, SelfTrade,
           Finish, Rest, RejectFull, Answer, Executed, CanMatch
      <3> QED
        BY <3>1
    <2>4. CASE Return
      BY <2>4 DEF Return
    <2> QED
      BY <2>1, <2>2, <2>3, <2>4 DEF XNext, EngineStep, xvars, RejectOrder, SettleNext,
         ReturnLimit, ReturnSelfTrade, ReturnMarket, ReturnFull, ReturnCancelOk,
         ReturnCancelRejected
  <1>4. RiskTypeOK' /\ TallyTypeOK'
    <2>1. CASE UNCHANGED xvars
      BY <1>2, <2>1 DEF xvars, accounts, usd, assets, tally, RiskTypeOK, TallyTypeOK
    <2>2. ASSUME NEW o \in Submissions, RejectOrder(o)
          PROVE  RiskTypeOK' /\ TallyTypeOK'
      BY <1>2, <2>2 DEF RejectOrder, LockError, Answers, accounts, usd, assets, tally,
         RiskTypeOK, TallyTypeOK
    <2>3. ASSUME NEW o \in Submissions, AcceptOrder(o)
          PROVE  RiskTypeOK' /\ TallyTypeOK'
      <3>1. o \in Order
        BY DEF Submissions, Order
      <3> QED
        BY <1>2, <2>3, <3>1, LockFundsTyped DEF AcceptOrder, Answers, tally, TallyTypeOK
    <2>4. CASE CancelStep \/ MatchStep
      BY <1>2, <2>4 DEF CancelStep, MatchStep, Answers, accounts, usd, assets, tally,
         RiskTypeOK, TallyTypeOK
    <2>5. CASE SettleNext
      <3>1. settled + 1 \in 1..Len(trades) /\ trades \in Seq(Trade)
        BY <1>2, <2>5 DEF SettleNext, TallyTypeOK, TypeInv, TypeOK
      <3>2. PICK t \in Trade :
              /\ SettleTrade(t, order.price)
              /\ total_executed_qty' = total_executed_qty + t.qty
              /\ total_executed_cost' = total_executed_cost + t.price * t.qty
        BY <2>5, <3>1 DEF SettleNext
      <3>3. order.price \in Nat
        BY <1>2, <2>5, SubmittedIsOrder DEF SettleNext
      <3>4. RiskTypeOK' /\ t.price * t.qty \in Nat /\ t.qty \in Nat
        BY <1>2, <3>2, <3>3, SettleTyped
      <3>5. TallyTypeOK'
        BY <1>2, <2>5, <3>2, <3>4 DEF SettleNext, TallyTypeOK
      <3> QED
        BY <3>4, <3>5
    <2>6. CASE ReturnLimit \/ ReturnCancelRejected
      <3>1. RiskTypeOK'
        BY <1>2, <2>6 DEF ReturnLimit, ReturnCancelRejected, accounts, usd, assets, RiskTypeOK
      <3>2. result.error \in {"None", "EngineFull", "OrderNotFound", "Unauthorized"}
        BY <1>2 DEF TypeInv, TypeOK, Result
      <3>3. TallyTypeOK'
        BY <1>2, <2>6, <3>2 DEF ReturnLimit, ReturnCancelRejected, ResetTally, tally,
           TallyTypeOK, Answers
      <3> QED
        BY <3>1, <3>3
    <2>7. CASE ReturnSelfTrade \/ ReturnFull
      BY <1>2, <2>7, SubmittedIsOrder, UnlockFundsTyped
         DEF ReturnSelfTrade, ReturnFull, AllSettled, ResetTally, TallyTypeOK, Answers
    <2>8. CASE ReturnMarket
      BY <1>2, <2>8, SubmittedIsOrder, RefundTyped
         DEF ReturnMarket, AllSettled, ResetTally, TallyTypeOK
    <2>9. CASE ReturnCancelOk
      BY <1>2, <2>9, OrderTerms, UnlockFundsTyped
         DEF ReturnCancelOk, tally, TallyTypeOK, Answers
    <2> QED
      BY <2>1, <2>2, <2>3, <2>4, <2>5, <2>6, <2>7, <2>8, <2>9 DEF XNext, EngineStep
  <1> QED
    BY <1>1, <1>3, <1>4 DEF XInv, XTypeOK, TypeInv, TallyTypeOK

\* No balance ever underflows: every subtraction risk.rs makes without
\* saturation (lock_order_funds) is covered, for every order book and price.
THEOREM AccountsStayTyped == XSpec => []XTypeOK
  <1>1. XInv => XTypeOK
    BY DEF XInv
  <1> QED
    BY <1>1, XInvInit, XInvNext, PTL DEF XSpec
-----------------------------------------------------------------------------
(* Where the margin that is locked belongs. *)

\* The margin of an order, as an account sees it: a number for each order.
AssetOf(u, s) ==
  [o \in Order |-> IF o.user_id = u /\ o.symbol_id = s THEN AssetMargin(o) ELSE 0]

\* Dollars are locked for what the user's bids need.
UsdOf(u) == [o \in Order |-> IF o.user_id = u THEN UsdMargin(o) ELSE 0]

\* The margin a trade releases when it is settled.
AssetsSold(u, s) ==
  [t \in Trade |-> IF t.seller_id = u /\ t.symbol_id = s THEN t.qty ELSE 0]

\* A buying taker locked its limit price, a buying maker its own.
UsdReleased(u, limit) ==
  [t \in Trade |-> IF t.buyer_id = u
                   THEN t.qty * (IF t.buyer_id = t.maker_user_id THEN t.price ELSE limit)
                   ELSE 0]

\* A trade counts as much as it trades.
QtyOf == [t \in Trade |-> t.qty]

\* What rests on the books, what the order in hand still holds, and the trades
\* that are not settled yet.
Booked(M) == SumFunctionOnSet(M, resting)

\* The order in hand still holds margin: it is not on the book and nothing was
\* given back for it yet.  A limit order that is done has none left.
Held ==
  \/ phase = "matching"
  \/ /\ phase = "done"
     /\ \/ result.error # "None"
        \/ result.stp_triggered
        \/ order.order_type # "Limit"
  \/ phase = "cancelled" /\ result.error = "None"

\* Its margin, by the measure M.
InTheHand(M) == IF Held THEN M[order] ELSE 0

\* The trades of the call that the accounts have not seen yet.
Unsettled == settled + 1..Len(trades)

Due(T) == SumFunctionOnSet([i \in 1..Len(trades) |-> T[trades[i]]], Unsettled)

\* Locked assets that cover nothing any more, or nothing yet.
AssetSlack(u, s) ==
  asset_locked[<<u, s>>]
    - (Booked(AssetOf(u, s)) + InTheHand(AssetOf(u, s)) + Due(AssetsSold(u, s)))

\* The same for dollars.
UsdSlack(u) ==
  usd_locked[u]
    - (Booked(UsdOf(u)) + InTheHand(UsdOf(u)) + Due(UsdReleased(u, order.price)))

\* Nothing on the books, in the hand or due is short of its assets.
AssetsCovered == \A u \in Users, s \in Symbols : AssetSlack(u, s) >= 0

\* And no more is locked than that, in assets and in dollars.
AssetsExact == \A u \in Users, s \in Symbols : AssetSlack(u, s) = 0

UsdExact == \A u \in Users : UsdSlack(u) = 0

\* How far a call has come, and what its numbers add up to.
CallInv ==
  /\ settled <= Len(trades)
  /\ phase # "done" => settled = 0 /\ total_executed_qty = 0
  /\ phase \in {"matching", "done"} =>
       total_executed_qty + Due(QtyOf) + order.qty = original_qty
  /\ phase = "done" =>
       /\ result.error \in {"None", "EngineFull"}
       /\ result.error = "None" => result.remaining_qty = order.qty
       /\ result.error # "None" => trades = << >> /\ total_executed_qty = 0

\* A trade's buyer is the maker unless the taker's side is Buy.
TradesHaveSides ==
  \A i \in 1..Len(trades) :
    order.side # "Buy" => trades[i].buyer_id = trades[i].maker_user_id

\* Every order carries a side byte that can be read.
SidesAreReadable == Sides \subseteq {"Buy", "Sell"}

\* An order has a margin, which is nothing when it has no quantity.
IsMargin(M) == M \in [Order -> Nat] /\ \A o \in Order : o.qty = 0 => M[o] = 0

\* What a fill takes of the taker and of a maker.
Taken(m) == IF m.qty > order.qty THEN order.qty ELSE m.qty

\* An order after q of it was executed.
Less(o, q) == [o EXCEPT !.qty = @ - q]

\* The two measures of margin are ones.
LEMMA AssetOfIsMargin ==
  ASSUME NEW u, NEW s
  PROVE  IsMargin(AssetOf(u, s))
  <1>1. \A o \in Order : o.qty \in Nat
    BY OrderTerms
  <1> QED
    BY <1>1 DEF IsMargin, AssetOf, AssetMargin

LEMMA UsdOfIsMargin ==
  ASSUME NEW u
  PROVE  IsMargin(UsdOf(u))
  <1>1. \A o \in Order : o.qty \in Nat /\ o.price \in Nat
    BY OrderTerms
  <1>2. \A o \in Order : o.price * o.qty \in Nat
    BY <1>1, ProductIsNat
  <1>3. \A o \in Order : o.qty = 0 => o.price * o.qty = 0
    BY <1>1
  <1> QED
    BY <1>2, <1>3 DEF IsMargin, UsdOf, UsdMargin

\* What is on the books adds up to a number.
LEMMA BookedIsNat ==
  ASSUME resting \in SUBSET Order, IsFiniteSet(resting), NEW M, IsMargin(M)
  PROVE  Booked(M) \in Nat
  <1>1. \A o \in resting : M[o] \in Nat
    BY DEF IsMargin
  <1> QED
    BY <1>1, SumType DEF Booked

\* A fill takes a quantity off the maker and the taker and makes a trade of it.
LEMMA FillTerms ==
  ASSUME TypeInv, NEW m \in resting, FillPartial(m) \/ FillWhole(m)
  PROVE  /\ Taken(m) \in 1..MaxQty /\ Taken(m) <= m.qty /\ Taken(m) <= order.qty
         /\ m \in Order /\ order \in Order
         /\ Less(m, Taken(m)) \in Order /\ Less(order, Taken(m)) \in Order
         /\ order' = Less(order, Taken(m))
         /\ trades' = Append(trades, TradeBetween(order, m, Taken(m)))
         /\ TradeBetween(order, m, Taken(m)) \in Trade
         /\ SideOf(m) = OtherSide(SideOf(order)) /\ m.symbol_id = order.symbol_id
         /\ m.user_id # order.user_id
         /\ phase = "matching" /\ phase' = "matching"
         /\ Held /\ Held'
         /\ UNCHANGED <<original_qty, result>>
  <1>1. /\ m \in Order /\ order \in Order /\ order.qty \in 1..MaxQty
        /\ m.qty \in 1..MaxQty
    BY DEF TypeInv, TypeOK, IdsUnique, InHand, FillPartial, FillWhole, CanMatch, Order
  <1>2. /\ Taken(m) \in 1..MaxQty /\ Taken(m) <= m.qty /\ Taken(m) <= order.qty
        /\ Taken(m) \in Nat
    BY <1>1 DEF Taken
  <1>3. Less(m, Taken(m)) \in Order /\ Less(order, Taken(m)) \in Order
    BY <1>1, <1>2, RemainderIsOrder DEF Less
  <1>4. /\ order' = Less(order, Taken(m))
        /\ trades' = Append(trades, TradeBetween(order, m, Taken(m)))
        /\ UNCHANGED <<original_qty, result>>
    <2>1. CASE FillPartial(m)
      BY <2>1 DEF FillPartial, Executed, Taken, Less
    <2>2. CASE FillWhole(m)
      <3>1. Taken(m) = m.qty
        BY <1>1, <2>2 DEF FillWhole, Taken
      <3> QED
        BY <2>2, <3>1 DEF FillWhole, Executed, Less
    <2> QED
      BY <2>1, <2>2
  <1>5. TradeBetween(order, m, Taken(m)) \in Trade
    BY <1>1, <1>2, TradeIsTyped
  <1>6. /\ SideOf(m) = OtherSide(SideOf(order)) /\ m.symbol_id = order.symbol_id
        /\ m.user_id # order.user_id
        /\ phase = "matching" /\ phase' = "matching"
    BY DEF FillPartial, FillWhole, CanMatch, IsBestFor, OppositeOrders, Executed
  <1> QED
    BY <1>1, <1>2, <1>3, <1>4, <1>5, <1>6 DEF Held

\* What rests after a fill: the maker, less what was taken, if that is more
\* than nothing.
LEMMA FillBooked ==
  ASSUME TypeInv, IsFiniteSet(resting), NEW m \in resting,
         FillPartial(m) \/ FillWhole(m),
         NEW CONSTANT M, IsMargin(M)
  PROVE  /\ IsFiniteSet(resting')
         /\ Booked(M)' = Booked(M) - M[m] + M[Less(m, Taken(m))]
  <1> DEFINE left == Less(m, Taken(m))
             others == resting \ {m}
  <1>1. m \in Order /\ left \in Order /\ Taken(m) \in 1..MaxQty /\ order.qty \in Nat
    BY FillTerms, OrderTerms
  <1>2. resting \in SUBSET Order /\ \A o \in resting : M[o] \in Int
    BY DEF TypeInv, TypeOK, IsMargin
  <1>3. M[m] \in Nat /\ M[left] \in Nat
    BY <1>1 DEF IsMargin
  <1>4. IsFiniteSet(others) /\ \A o \in others : M[o] \in Int
    BY <1>2, FS_Subset
  <1>5. SumFunctionOnSet(M, resting) = M[m] + SumFunctionOnSet(M, others)
    BY <1>2, SumRemove
  <1>6. SumFunctionOnSet(M, others) \in Int
    BY <1>4, SumType
  <1>7. CASE FillPartial(m)
    <2>1. left.id = m.id /\ left.qty = m.qty - Taken(m)
      BY <1>1, FillTerms, OrderTerms DEF Less, Order
    <2>2. left.qty # m.qty
      BY <1>1, <2>1, OrderTerms
    <2>3. left \notin others
      BY <2>1, <2>2 DEF TypeInv, IdsUnique
    <2>4. resting' = others \cup {left}
      <3>1. Taken(m) = order.qty
        BY <1>7 DEF FillPartial, Taken
      <3> QED
        BY <1>7, <3>1 DEF FillPartial, Less
    <2> HIDE DEF others, left
    <2>5. SumFunctionOnSet(M, others \cup {left}) = SumFunctionOnSet(M, others) + M[left]
      BY <1>3, <1>4, <2>3, SumAdd
    <2>6. IsFiniteSet(others \cup {left})
      BY <1>4, FS_AddElement
    <2>7. SumFunctionOnSet(M, others \cup {left})
            = SumFunctionOnSet(M, resting) - M[m] + M[left]
      BY <1>3, <1>5, <1>6, <2>5
    <2> QED
      BY <2>4, <2>6, <2>7 DEF Booked, left
  <1>8. CASE FillWhole(m)
    <2>1. m.qty \in Nat /\ Taken(m) = m.qty
      BY <1>1, <1>8, OrderTerms DEF FillWhole, Taken
    <2>2. left.qty = 0
      BY <1>1, <2>1 DEF Less, Order
    <2>3. M[left] = 0
      BY <1>1, <2>2 DEF IsMargin
    <2>4. resting' = others
      BY <1>8 DEF FillWhole
    <2> HIDE DEF others, left
    <2>5. SumFunctionOnSet(M, others) = SumFunctionOnSet(M, resting) - M[m] + M[left]
      BY <1>3, <1>5, <1>6, <2>3
    <2> QED
      BY <1>4, <2>4, <2>5 DEF Booked, left
  <1> QED
    BY <1>7, <1>8

\* The other steps of a call move margin between the book and the hand only.
LEMMA AnswerBooked ==
  ASSUME TypeInv, IsFiniteSet(resting),
         Finish \/ Rest \/ RejectFull \/ \E m \in resting : SelfTrade(m),
         NEW CONSTANT M, IsMargin(M)
  PROVE  /\ IsFiniteSet(resting')
         /\ (Booked(M) + InTheHand(M))' = Booked(M) + InTheHand(M)
         /\ order \in Order /\ phase = "matching" /\ phase' = "done"
         /\ UNCHANGED <<order, original_qty, trades>>
  <1>1. /\ order \in Order /\ phase = "matching" /\ phase' = "done" /\ Held
        /\ UNCHANGED <<order, original_qty, trades>>
    BY DEF TypeInv, InHand, Finish, Rest, RejectFull, SelfTrade, MatchingOver, CanMatch,
       Answer, Held
  <1>2. resting \in SUBSET Order /\ \A o \in resting : M[o] \in Int
    BY DEF TypeInv, TypeOK, IsMargin
  <1>3. M[order] \in Nat /\ Booked(M) \in Nat
    BY <1>1, <1>2, BookedIsNat DEF IsMargin
  <1>4. CASE Rest
    <2>1. order \notin resting
      BY <1>1, OrderTerms DEF TypeInv, IdsUnique
    <2>2. resting' = resting \cup {order} /\ ~Held'
      BY <1>1, <1>4 DEF Rest, Answer, Ok, Held
    <2>3. SumFunctionOnSet(M, resting \cup {order}) = SumFunctionOnSet(M, resting) + M[order]
      BY <1>2, <1>3, <2>1, SumAdd
    <2>4. Booked(M)' = Booked(M) + M[order]
      BY <2>2, <2>3 DEF Booked
    <2>5. InTheHand(M) = M[order] /\ InTheHand(M)' = 0
      BY <1>1, <2>2 DEF InTheHand
    <2>6. IsFiniteSet(resting')
      BY <2>2, FS_AddElement
    <2> QED
      BY <1>1, <1>3, <2>4, <2>5, <2>6
  <1>5. CASE RejectFull \/ \E m \in resting : SelfTrade(m)
    <2>1. UNCHANGED resting /\ Held'
      BY <1>1, <1>5 DEF RejectFull, SelfTrade, Answer, Ok, Err, Held
    <2> QED
      BY <1>1, <2>1 DEF Booked, InTheHand
  <1>6. CASE Finish
    <2>1. UNCHANGED resting
      BY <1>6 DEF Finish
    <2>2. Held' \/ order.qty = 0
      BY <1>1, <1>6 DEF Finish, Answer, Ok, Held
    <2>3. InTheHand(M)' = InTheHand(M)
      <3>1. CASE Held'
        BY <1>1, <3>1 DEF InTheHand
      <3>2. CASE order.qty = 0
        <4>1. M[order] = 0
          BY <1>1, <3>2 DEF IsMargin
        <4> QED
          BY <1>1, <4>1 DEF InTheHand
      <3> QED
        BY <2>2, <3>1, <3>2
    <2> QED
      BY <1>1, <2>1, <2>3 DEF Booked
  <1> QED
    BY <1>4, <1>5, <1>6

\* A message from a client: an order is in hand, or one that was taken off.
LEMMA SubmitBooked ==
  ASSUME TypeInv, NEW o \in Order, Submit(o), NEW CONSTANT M, IsMargin(M)
  PROVE  /\ Booked(M)' = Booked(M)
         /\ InTheHand(M) = 0 /\ InTheHand(M)' = M[o]
         /\ UNCHANGED <<resting, trades>>
  BY DEF Submit, Booked, InTheHand, Held

\* A cancellation takes an order's margin from the book into the hand.
LEMMA CancelBooked ==
  ASSUME TypeInv, IsFiniteSet(resting), CancelAny, NEW CONSTANT M, IsMargin(M)
  PROVE  /\ IsFiniteSet(resting')
         /\ (Booked(M) + InTheHand(M))' = Booked(M) + InTheHand(M)
         /\ phase = "idle" /\ phase' = "cancelled"
         /\ UNCHANGED trades
  <1>1. resting \in SUBSET Order /\ \A o \in resting : M[o] \in Int
    BY DEF TypeInv, TypeOK, IsMargin
  <1>2. PICK user \in Users, symbol \in Symbols, ref \in (1..MaxId) \cup ClientIds :
          \/ CancelOk(user, symbol, ref)
          \/ CancelUnauthorized(user, symbol, ref)
          \/ CancelNotFound(user, symbol, ref)
    BY DEF CancelAny
  <1>3. phase = "idle" /\ phase' = "cancelled" /\ UNCHANGED trades /\ InTheHand(M) = 0
    BY <1>2 DEF CancelOk, CancelUnauthorized, CancelNotFound, CancelAnswer, InTheHand, Held
  <1>4. Booked(M) \in Nat
    BY <1>1, BookedIsNat
  <1>5. CASE CancelOk(user, symbol, ref)
    <2>1. PICK o \in resting : /\ resting' = resting \ {o}
                               /\ CancelAnswer(o, Ok(0, o.qty, FALSE))
      BY <1>5, NamedIsResting DEF CancelOk
    <2>2. SumFunctionOnSet(M, resting) = M[o] + SumFunctionOnSet(M, resting \ {o})
      BY <1>1, SumRemove
    <2>3. IsFiniteSet(resting \ {o}) /\ \A x \in resting \ {o} : M[x] \in Int
      BY <1>1, FS_Subset
    <2>4. SumFunctionOnSet(M, resting \ {o}) \in Int
      BY <2>3, SumType
    <2>5. Booked(M) = M[o] + Booked(M)' /\ Booked(M)' \in Int
      BY <2>1, <2>2, <2>4 DEF Booked
    <2>6. InTheHand(M)' = M[o]
      BY <2>1 DEF CancelAnswer, Ok, InTheHand, Held
    <2>7. M[o] \in Int
      BY <1>1, <2>1
    <2> QED
      BY <1>3, <1>4, <2>1, <2>3, <2>5, <2>6, <2>7
  <1>6. CASE CancelUnauthorized(user, symbol, ref) \/ CancelNotFound(user, symbol, ref)
    <2>1. UNCHANGED resting /\ InTheHand(M)' = 0
      BY <1>6 DEF CancelUnauthorized, CancelNotFound, CancelAnswer, Err, InTheHand, Held
    <2> QED
      BY <1>3, <2>1 DEF Booked
  <1> QED
    BY <1>2, <1>3, <1>5, <1>6

\* A call returns: whatever was in hand is not any more.
LEMMA ReturnBooked ==
  ASSUME Return, NEW CONSTANT M
  PROVE  /\ Booked(M)' = Booked(M)
         /\ InTheHand(M)' = 0
         /\ UNCHANGED resting
         /\ trades' = << >> /\ phase' = "idle"
  BY DEF Return, Booked, InTheHand, Held

-----------------------------------------------------------------------------
(* The trades of a call that are still to be settled. *)

\* What a trade counts: a number for each trade.
IsValue(T) == T \in [Trade -> Nat]

\* The three measures of a trade are ones.
LEMMA AssetsSoldIsValue ==
  ASSUME NEW u, NEW s
  PROVE  IsValue(AssetsSold(u, s))
  <1>1. \A t \in Trade : t.qty \in Nat
    BY DEF Trade
  <1> QED
    BY <1>1 DEF IsValue, AssetsSold

LEMMA QtyOfIsValue == IsValue(QtyOf)
  <1>1. \A t \in Trade : t.qty \in Nat
    BY DEF Trade
  <1> QED
    BY <1>1 DEF IsValue, QtyOf

\* What a trade is made of.
LEMMA TradeTerms ==
  ASSUME NEW t \in Trade
  PROVE  /\ t.qty \in Nat /\ t.price \in Nat
         /\ t.buyer_id \in Users /\ t.seller_id \in Users /\ t.symbol_id \in Symbols
  <1>1. t.price \in Prices /\ t.qty \in 1..MaxQty
    BY DEF Trade
  <1>2. t.price \in Nat
    BY <1>1, TypesAssumption, Zenon
  <1>3. t.qty \in Nat
    BY <1>1
  <1> QED
    BY <1>2, <1>3 DEF Trade

LEMMA UsdReleasedIsValue ==
  ASSUME NEW u, NEW limit \in Nat
  PROVE  IsValue(UsdReleased(u, limit))
  <1>1. \A t \in Trade : t.qty * t.price \in Nat /\ t.qty * limit \in Nat
    BY TradeTerms, ProductIsNat
  <1> QED
    BY <1>1 DEF IsValue, UsdReleased

\* The sum over the unsettled trades is well defined and a number.
LEMMA UnsettledIsFinite ==
  ASSUME settled \in Nat, trades \in Seq(Trade)
  PROVE  IsFiniteSet(Unsettled) /\ Unsettled \subseteq 1..Len(trades)
  <1>1. settled + 1 \in Int /\ Len(trades) \in Int
    OBVIOUS
  <1>2. IsFiniteSet(settled + 1..Len(trades))
    BY <1>1, FS_Interval
  <1> QED
    BY <1>2 DEF Unsettled

LEMMA DueIsNat ==
  ASSUME settled \in Nat, trades \in Seq(Trade), NEW T, IsValue(T)
  PROVE  Due(T) \in Nat
  <1> DEFINE f == [i \in 1..Len(trades) |-> T[trades[i]]]
  <1>1. \A i \in Unsettled : f[i] \in Nat
    BY UnsettledIsFinite DEF IsValue
  <1>2. SumFunctionOnSet(f, Unsettled) \in Nat
    BY <1>1, UnsettledIsFinite, SumType
  <1> QED
    BY <1>2 DEF Due

\* Nothing is due when every trade is settled.
LEMMA NothingDue ==
  ASSUME settled \in Nat, trades \in Seq(Trade), settled = Len(trades), NEW T
  PROVE  Due(T) = 0
  <1>1. Unsettled = {}
    BY DEF Unsettled
  <1> QED
    BY <1>1, SumEmpty DEF Due

\* A trade that is made becomes due.
LEMMA DueGrows ==
  ASSUME settled \in Nat, trades \in Seq(Trade), settled <= Len(trades),
         NEW t \in Trade, trades' = Append(trades, t), settled' = settled,
         NEW CONSTANT T, IsValue(T)
  PROVE  Due(T)' = Due(T) + T[t]
  <1> DEFINE f == [i \in 1..Len(trades) |-> T[trades[i]]]
             g == [i \in 1..Len(trades') |-> T[trades'[i]]]
             n == Len(trades) + 1
  <1>1. /\ Len(trades') = n /\ n \in Nat /\ n \notin Unsettled
        /\ trades'[n] = t
        /\ \A i \in 1..Len(trades) : trades'[i] = trades[i]
    BY DEF Unsettled
  <1>2. settled' + 1..Len(trades') = Unsettled \cup {n}
    BY <1>1 DEF Unsettled
  <1>3. /\ IsFiniteSet(Unsettled)
        /\ \A i \in Unsettled : f[i] \in Int /\ g[i] = f[i]
        /\ g[n] = T[t] /\ T[t] \in Int
    <2>1. IsFiniteSet(Unsettled) /\ \A i \in Unsettled : i \in 1..Len(trades)
      BY UnsettledIsFinite
    <2>2. \A i \in 1..Len(trades) : f[i] = T[trades[i]] /\ trades[i] \in Trade
      OBVIOUS
    <2>3. \A i \in 1..Len(trades) : i \in 1..Len(trades') /\ g[i] = T[trades[i]]
      BY <1>1
    <2>4. n \in 1..Len(trades') /\ g[n] = T[t]
      BY <1>1
    <2> QED
      BY <2>1, <2>2, <2>3, <2>4 DEF IsValue
  <1>4. Due(T)' = SumFunctionOnSet(g, Unsettled \cup {n})
    BY <1>2 DEF Due, Unsettled
  <1>5. Due(T) = SumFunctionOnSet(f, Unsettled)
    BY DEF Due
  <1> HIDE DEF f, g, n
  <1>6. SumFunctionOnSet(g, Unsettled \cup {n}) = SumFunctionOnSet(g, Unsettled) + g[n]
    BY <1>1, <1>3, SumAdd
  <1>7. SumFunctionOnSet(f, Unsettled) = SumFunctionOnSet(g, Unsettled)
    BY <1>3, SumSame
  <1> QED
    BY <1>3, <1>4, <1>5, <1>6, <1>7

\* A trade that is settled is not due any more.
LEMMA DueShrinks ==
  ASSUME settled \in Nat, trades \in Seq(Trade), settled < Len(trades),
         trades' = trades, settled' = settled + 1,
         NEW CONSTANT T, IsValue(T)
  PROVE  /\ trades[settled + 1] \in Trade
         /\ Due(T)' = Due(T) - T[trades[settled + 1]]
         /\ Due(T)' \in Nat
  <1> DEFINE f == [i \in 1..Len(trades) |-> T[trades[i]]]
             n == settled + 1
  <1>1. n \in Unsettled /\ n \in 1..Len(trades) /\ f[n] = T[trades[n]] /\ trades[n] \in Trade
    BY DEF Unsettled
  <1>2. settled' + 1..Len(trades') = Unsettled \ {n}
    BY DEF Unsettled
  <1>3. IsFiniteSet(Unsettled) /\ \A i \in Unsettled : f[i] \in Nat
    BY UnsettledIsFinite DEF IsValue
  <1>4. Due(T)' = SumFunctionOnSet(f, Unsettled \ {n})
    BY <1>2 DEF Due, Unsettled
  <1>5. Due(T) = SumFunctionOnSet(f, Unsettled)
    BY DEF Due
  <1>6. T[trades[n]] \in Nat
    BY <1>1 DEF IsValue
  <1> HIDE DEF f, n
  <1>7. SumFunctionOnSet(f, Unsettled) = f[n] + SumFunctionOnSet(f, Unsettled \ {n})
    <2>1. \A i \in Unsettled : f[i] \in Int
      BY <1>3
    <2> QED
      BY ONLY <1>1, <1>3, <2>1, SumRemove, Zenon
  <1>8. SumFunctionOnSet(f, Unsettled \ {n}) \in Nat
    <2>1. IsFiniteSet(Unsettled \ {n}) /\ \A i \in Unsettled \ {n} : f[i] \in Nat
      BY <1>3, FS_Subset
    <2> QED
      BY <2>1, SumType
  <1>9. Due(T)' = Due(T) - T[trades[n]] /\ Due(T)' \in Nat
    BY <1>1, <1>4, <1>5, <1>6, <1>7, <1>8
  <1> QED
    BY <1>1, <1>9 DEF n

\* A trade that is due is part of what is due.
LEMMA NextIsDue ==
  ASSUME settled \in Nat, trades \in Seq(Trade), settled < Len(trades),
         NEW T, IsValue(T)
  PROVE  trades[settled + 1] \in Trade /\ T[trades[settled + 1]] <= Due(T)
  <1> DEFINE f == [i \in 1..Len(trades) |-> T[trades[i]]]
             n == settled + 1
  <1>1. n \in Unsettled /\ n \in 1..Len(trades) /\ f[n] = T[trades[n]] /\ trades[n] \in Trade
    BY DEF Unsettled
  <1>2. IsFiniteSet(Unsettled) /\ \A i \in Unsettled : f[i] \in Nat
    BY UnsettledIsFinite DEF IsValue
  <1>3. Due(T) = SumFunctionOnSet(f, Unsettled)
    BY DEF Due
  <1> HIDE DEF f, n
  <1>4. SumFunctionOnSet(f, Unsettled) = f[n] + SumFunctionOnSet(f, Unsettled \ {n})
    <2>1. \A i \in Unsettled : f[i] \in Int
      BY <1>2
    <2> QED
      BY <1>1, <1>2, <2>1, SumRemove
  <1>5. SumFunctionOnSet(f, Unsettled \ {n}) \in Nat
    <2>1. IsFiniteSet(Unsettled \ {n}) /\ \A i \in Unsettled \ {n} : f[i] \in Nat
      BY <1>2, FS_Subset
    <2> QED
      BY <2>1, SumType
  <1>6. T[trades[n]] \in Nat
    BY <1>1 DEF IsValue
  <1>7. T[trades[n]] <= Due(T)
    BY <1>1, <1>3, <1>4, <1>5, <1>6
  <1> QED
    BY <1>1, <1>7 DEF n
-----------------------------------------------------------------------------
(* What each operation of the risk engine does to one holding and to one    *)
(* user's dollars.                                                          *)

\* What lock_order_funds does to one holding and to one dollar account.
LEMMA HoldingTyped ==
  ASSUME RiskTypeOK, NEW u \in Users, NEW s \in Symbols
  PROVE  /\ <<u, s>> \in Holdings
         /\ asset_locked[<<u, s>>] \in Nat /\ asset_available[<<u, s>>] \in Nat
         /\ usd_locked[u] \in Nat /\ usd_available[u] \in Nat
  BY DEF RiskTypeOK, Holdings

LEMMA LockAssets ==
  ASSUME RiskTypeOK, NEW o \in Order, LockFunds(o), NEW u \in Users, NEW s \in Symbols
  PROVE  /\ asset_locked'[<<u, s>>] = asset_locked[<<u, s>>] + AssetOf(u, s)[o]
         /\ Assets(u, s)' = Assets(u, s)
  <1>1. /\ o.qty \in Nat /\ Asset(o) \in Holdings /\ <<u, s>> \in Holdings
        /\ o.user_id \in Users /\ o.symbol_id \in Symbols
    BY OrderIsNat, HoldingTyped DEF Asset, Holdings
  <1>2. /\ asset_locked \in [Holdings -> Nat] /\ asset_available \in [Holdings -> Nat]
    BY DEF RiskTypeOK
  <1>3. AssetOf(u, s)[o] = IF <<u, s>> = Asset(o) /\ o.side # "Buy" THEN o.qty ELSE 0
    BY <1>1 DEF AssetOf, AssetMargin, Asset
  <1>4. CASE o.side = "Buy"
    <2>1. UNCHANGED <<asset_locked, asset_available>>
      BY <1>4 DEF LockFunds, assets
    <2> QED
      BY <1>1, <1>2, <1>3, <1>4, <2>1 DEF Assets
  <1>5. CASE o.side # "Buy"
    <2>1. /\ asset_available' = [asset_available EXCEPT ![Asset(o)] = @ - o.qty]
          /\ asset_locked' = [asset_locked EXCEPT ![Asset(o)] = @ + o.qty]
      BY <1>5 DEF LockFunds
    <2> QED
      BY <1>1, <1>2, <1>3, <1>5, <2>1 DEF Assets
  <1> QED
    BY <1>4, <1>5

LEMMA LockUsd ==
  ASSUME RiskTypeOK, NEW o \in Order, LockFunds(o), NEW u \in Users
  PROVE  /\ usd_locked'[u] = usd_locked[u] + UsdOf(u)[o]
         /\ Usd(u)' = Usd(u)
  <1>1. o.price * o.qty \in Nat /\ o.user_id \in Users
    BY OrderIsNat, ProductIsNat
  <1>2. usd_locked \in [Users -> Nat] /\ usd_available \in [Users -> Nat]
    BY DEF RiskTypeOK
  <1>3. UsdOf(u)[o] = IF u = o.user_id /\ o.side = "Buy" THEN o.price * o.qty ELSE 0
    BY <1>1 DEF UsdOf, UsdMargin
  <1>4. CASE o.side # "Buy"
    <2>1. UNCHANGED <<usd_locked, usd_available>>
      BY <1>4 DEF LockFunds, usd
    <2> QED
      BY <1>1, <1>2, <1>3, <1>4, <2>1 DEF Usd
  <1>5. CASE o.side = "Buy"
    <2>1. /\ usd_available' = [usd_available EXCEPT ![o.user_id] = @ - o.price * o.qty]
          /\ usd_locked' = [usd_locked EXCEPT ![o.user_id] = @ + o.price * o.qty]
      BY <1>5 DEF LockFunds
    <2>2. PICK cost \in Nat : cost = o.price * o.qty
      BY <1>1
    <2> QED
      BY <1>1, <1>2, <1>3, <1>5, <2>1, <2>2 DEF Usd
  <1> QED
    BY <1>4, <1>5

\* What is unlocked is the margin of the order as it stands, when that much is
\* locked.
LEMMA UnlockOneAsset ==
  ASSUME RiskTypeOK, NEW o \in Order, o.side = "Sell", UnlockAsset(Asset(o), o.qty),
         o.qty <= asset_locked[Asset(o)], NEW u \in Users, NEW s \in Symbols
  PROVE  /\ asset_locked'[<<u, s>>] = asset_locked[<<u, s>>] - AssetOf(u, s)[o]
         /\ Assets(u, s)' = Assets(u, s)
         /\ UNCHANGED usd
  <1>1. o.qty \in Nat /\ Asset(o) \in Holdings /\ <<u, s>> \in Holdings
    BY OrderIsNat, HoldingTyped DEF Asset, Holdings
  <1>2. asset_locked \in [Holdings -> Nat] /\ asset_available \in [Holdings -> Nat]
    BY DEF RiskTypeOK
  <1>3. AssetOf(u, s)[o] = IF <<u, s>> = Asset(o) THEN o.qty ELSE 0
    BY DEF AssetOf, AssetMargin, Asset
  <1>4. /\ asset_locked' = [asset_locked EXCEPT ![Asset(o)] = @ - o.qty]
        /\ asset_available' = [asset_available EXCEPT ![Asset(o)] = @ + o.qty]
        /\ UNCHANGED usd
    BY <1>1, <1>2 DEF UnlockAsset, Minus
  <1> QED
    BY <1>1, <1>2, <1>3, <1>4 DEF Assets

LEMMA UnlockOneUsd ==
  ASSUME RiskTypeOK, NEW o \in Order, o.side = "Buy",
         UnlockUsd(o.user_id, o.price * o.qty),
         o.price * o.qty <= usd_locked[o.user_id], NEW u \in Users
  PROVE  /\ usd_locked'[u] = usd_locked[u] - UsdOf(u)[o]
         /\ Usd(u)' = Usd(u)
  <1>1. o.price * o.qty \in Nat /\ o.user_id \in Users
    BY OrderIsNat, ProductIsNat
  <1>2. usd_locked \in [Users -> Nat] /\ usd_available \in [Users -> Nat]
    BY DEF RiskTypeOK
  <1>3. PICK cost \in Nat : cost = o.price * o.qty
    BY <1>1
  <1>4. UsdOf(u)[o] = IF u = o.user_id THEN cost ELSE 0
    BY <1>3 DEF UsdOf, UsdMargin
  <1>5. /\ usd_locked' = [usd_locked EXCEPT ![o.user_id] = @ - cost]
        /\ usd_available' = [usd_available EXCEPT ![o.user_id] = @ + cost]
    BY <1>1, <1>2, <1>3 DEF UnlockUsd, Minus
  <1> QED
    BY <1>1, <1>2, <1>4, <1>5 DEF Usd

\* Operations on dollars leave assets alone, and the other way round.
LEMMA SameAssets ==
  ASSUME RiskTypeOK, NEW o \in Order, o.side = "Buy", UNCHANGED assets,
         NEW u \in Users, NEW s \in Symbols
  PROVE  /\ asset_locked'[<<u, s>>] = asset_locked[<<u, s>>] - AssetOf(u, s)[o]
         /\ Assets(u, s)' = Assets(u, s)
  <1>1. AssetOf(u, s)[o] = 0
    BY DEF AssetOf, AssetMargin
  <1>2. UNCHANGED <<asset_locked, asset_available>>
    BY DEF assets
  <1> QED
    BY <1>1, <1>2, HoldingTyped DEF Assets

LEMMA SameUsd ==
  ASSUME RiskTypeOK, NEW o \in Order, o.side # "Buy", UNCHANGED usd, NEW u \in Users
  PROVE  /\ usd_locked'[u] = usd_locked[u] - UsdOf(u)[o]
         /\ Usd(u)' = Usd(u)
  <1>1. UsdOf(u)[o] = 0
    BY DEF UsdOf, UsdMargin
  <1>2. UNCHANGED <<usd_locked, usd_available>>
    BY DEF usd
  <1> QED
    BY <1>1, <1>2, HoldingTyped DEF Usd, RiskTypeOK

\* What settle_trade does to one holding when the seller's lock suffices.
LEMMA SettleAssets ==
  ASSUME RiskTypeOK, NEW t \in Trade, NEW p \in Nat, SettleTrade(t, p),
         t.qty <= asset_locked[<<t.seller_id, t.symbol_id>>],
         NEW u \in Users, NEW s \in Symbols
  PROVE  /\ asset_locked'[<<u, s>>] = asset_locked[<<u, s>>] - AssetsSold(u, s)[t]
         /\ Assets(u, s)' = Assets(u, s)
              + (IF u = t.buyer_id THEN IF s = t.symbol_id THEN t.qty ELSE 0 ELSE 0)
              - (IF u = t.seller_id THEN IF s = t.symbol_id THEN t.qty ELSE 0 ELSE 0)
  <1>1. /\ t.qty \in Nat /\ <<u, s>> \in Holdings
        /\ t.buyer_id \in Users /\ t.seller_id \in Users /\ t.symbol_id \in Symbols
    BY TradeTerms, HoldingTyped
  <1>2. PICK b \in Holdings, c \in Holdings :
          b = <<t.buyer_id, t.symbol_id>> /\ c = <<t.seller_id, t.symbol_id>>
    BY <1>1 DEF Holdings
  <1>3. /\ <<u, s>> = b <=> u = t.buyer_id /\ s = t.symbol_id
        /\ <<u, s>> = c <=> u = t.seller_id /\ s = t.symbol_id
    BY <1>2
  <1>4. asset_locked \in [Holdings -> Nat] /\ asset_available \in [Holdings -> Nat]
    BY DEF RiskTypeOK
  <1>5. AssetsSold(u, s)[t] = IF <<u, s>> = c THEN t.qty ELSE 0
    BY <1>3 DEF AssetsSold
  <1>6. /\ asset_available' = [asset_available EXCEPT ![b] = @ + t.qty]
        /\ asset_locked' = [asset_locked EXCEPT ![c] = @ - t.qty]
    BY <1>1, <1>2, <1>4 DEF SettleTrade, Minus
  <1>7. asset_locked'[<<u, s>>] = asset_locked[<<u, s>>] - AssetsSold(u, s)[t]
    BY <1>1, <1>4, <1>5, <1>6
  <1>8. asset_available'[<<u, s>>]
          = asset_available[<<u, s>>] + (IF <<u, s>> = b THEN t.qty ELSE 0)
    BY <1>1, <1>4, <1>6
  <1>9. Assets(u, s)' = Assets(u, s) + (IF <<u, s>> = b THEN t.qty ELSE 0)
                                     - (IF <<u, s>> = c THEN t.qty ELSE 0)
    BY <1>1, <1>4, <1>5, <1>7, <1>8 DEF Assets
  <1>10. /\ (IF <<u, s>> = b THEN t.qty ELSE 0)
              = (IF u = t.buyer_id THEN IF s = t.symbol_id THEN t.qty ELSE 0 ELSE 0)
         /\ (IF <<u, s>> = c THEN t.qty ELSE 0)
              = (IF u = t.seller_id THEN IF s = t.symbol_id THEN t.qty ELSE 0 ELSE 0)
    BY ONLY <1>3
  <1> QED
    BY ONLY <1>7, <1>9, <1>10

\* A buyer's margin is released at the price it was locked at, which is no less
\* than the trade's; what it did not have to spend is its own again.
LEMMA SettleUsd ==
  ASSUME RiskTypeOK, NEW t \in Trade, NEW p \in Nat, SettleTrade(t, p),
         UsdReleased(t.buyer_id, p)[t] <= usd_locked[t.buyer_id],
         t.price * t.qty <= UsdReleased(t.buyer_id, p)[t],
         t.buyer_id # t.seller_id, NEW u \in Users
  PROVE  /\ usd_locked'[u] = usd_locked[u] - UsdReleased(u, p)[t]
         /\ Usd(u)' = Usd(u) + (IF u = t.buyer_id THEN -(t.price * t.qty)
                                ELSE IF u = t.seller_id THEN t.price * t.qty ELSE 0)
  <1>1. t.buyer_id \in Users /\ t.seller_id \in Users /\ t.price * t.qty \in Nat
    BY TradeTerms, ProductIsNat
  <1>2. PICK cost \in Nat : cost = t.price * t.qty
    BY <1>1
  <1>3. IsValue(UsdReleased(t.buyer_id, p))
    BY UsdReleasedIsValue
  <1>4. PICK locked \in Nat : locked = UsdReleased(t.buyer_id, p)[t]
    BY <1>3 DEF IsValue
  <1>5. locked = t.qty * (IF t.buyer_id = t.maker_user_id THEN t.price ELSE p)
    BY <1>4 DEF UsdReleased
  <1>6. UsdReleased(u, p)[t] = IF u = t.buyer_id THEN locked ELSE 0
    BY <1>4 DEF UsdReleased
  <1>7. /\ usd_locked' = [usd_locked EXCEPT ![t.buyer_id] = Minus(@, locked)]
        /\ usd_available' = [usd_available EXCEPT ![t.buyer_id] = @ + Minus(locked, cost),
                                                  ![t.seller_id] = @ + cost]
    BY <1>2, <1>5 DEF SettleTrade
  <1>8. usd_locked \in [Users -> Nat] /\ usd_available \in [Users -> Nat]
    BY DEF RiskTypeOK
  <1>9. Minus(locked, cost) = locked - cost
        /\ Minus(usd_locked[t.buyer_id], locked) = usd_locked[t.buyer_id] - locked
    BY <1>1, <1>2, <1>4, <1>8 DEF Minus
  <1>10. usd_locked'[u] = usd_locked[u] - (IF u = t.buyer_id THEN locked ELSE 0)
    BY <1>1, <1>7, <1>8, <1>9
  <1>11. usd_available'[u] = usd_available[u]
           + (IF u = t.buyer_id THEN locked - cost
              ELSE IF u = t.seller_id THEN cost ELSE 0)
    BY <1>1, <1>7, <1>8, <1>9
  <1>12. Usd(u)' = Usd(u) + (IF u = t.buyer_id THEN -cost
                             ELSE IF u = t.seller_id THEN cost ELSE 0)
    <2>1. usd_locked[u] \in Int /\ usd_available[u] \in Int
      BY <1>8
    <2> QED
      BY <1>10, <1>11, <2>1 DEF Usd
  <1> QED
    BY <1>2, <1>6, <1>10, <1>12
-----------------------------------------------------------------------------
(* A call adds up. *)

\* What a call has come to, on typed books with fair trades.
BookInv == XInv /\ FairInv /\ IsFiniteSet(resting) /\ CallInv

\* What the other proofs use of it.
LEMMA BookInvTerms ==
  ASSUME BookInv
  PROVE  /\ TypeInv /\ RiskTypeOK /\ settled \in Nat /\ total_executed_qty \in Nat
         /\ trades \in Seq(Trade) /\ original_qty \in Nat
         /\ phase \in {"idle", "matching", "done", "cancelled"}
         /\ settled <= Len(trades)
         /\ Held => order \in Order
         /\ phase \in {"matching", "done"} => order \in Order
         /\ phase \in {"idle", "cancelled"} => trades = << >> /\ settled = 0
         /\ Due(QtyOf) \in Nat
  <1>1. /\ TypeInv /\ RiskTypeOK /\ settled \in Nat /\ total_executed_qty \in Nat
        /\ phase = "cancelled" /\ result.error = "None" => order \in Order
    BY DEF BookInv, XInv, XTypeOK
  <1>2. trades \in Seq(Trade) /\ original_qty \in Nat
        /\ phase \in {"idle", "matching", "done", "cancelled"}
    BY <1>1 DEF TypeInv, TypeOK
  <1>3. phase \in {"matching", "done"} => order \in Order
    BY <1>1 DEF TypeInv, InHand
  <1>4. Held => order \in Order
    BY <1>1, <1>3 DEF Held
  <1>5. phase \in {"idle", "cancelled"} => trades = << >> /\ settled = 0
    BY DEF BookInv, FairInv, Fresh, CallInv
  <1>6. settled <= Len(trades)
    BY DEF BookInv, CallInv
  <1>7. Due(QtyOf) \in Nat
    BY <1>1, <1>2, DueIsNat, QtyOfIsValue
  <1> QED
    BY <1>1, <1>2, <1>3, <1>4, <1>5, <1>6, <1>7

\* What is due depends on the trades and on how many are settled.
LEMMA SameDue ==
  ASSUME UNCHANGED <<trades, settled>>, NEW CONSTANT T
  PROVE  Due(T)' = Due(T)
  BY DEF Due, Unsettled

\* The engine's own steps leave the accounts and the tally as they are.
LEMMA FillIsMatch ==
  ASSUME MatchStep
  PROVE  /\ UNCHANGED <<accounts, tally, answer, settled, total_executed_qty, usd, assets>>
         /\ \/ \E m \in resting : FillPartial(m) \/ FillWhole(m)
            \/ Finish \/ Rest \/ RejectFull \/ \E m \in resting : SelfTrade(m)
  BY DEF MatchStep, accounts, tally

\* A call adds up at the start, after a fill and after any step.
LEMMA CallInvInit == XInit => CallInv
  <1> SUFFICES ASSUME XInit PROVE CallInv
    OBVIOUS
  <1>1. Len(<< >>) = 0
    OBVIOUS
  <1> QED
    BY <1>1 DEF XInit, Init, CallInv

LEMMA CallInvFill ==
  ASSUME BookInv, NEW m \in resting, FillPartial(m) \/ FillWhole(m),
         UNCHANGED <<settled, total_executed_qty>>
  PROVE  CallInv'
  <1> DEFINE t == TradeBetween(order, m, Taken(m))
  <1>1. /\ t \in Trade /\ trades' = Append(trades, t)
        /\ Taken(m) \in 1..MaxQty
        /\ phase = "matching" /\ phase' = "matching" /\ UNCHANGED original_qty
        /\ order \in Order /\ order' = Less(order, Taken(m))
    BY BookInvTerms, FillTerms
  <1>2. order'.qty = order.qty - Taken(m) /\ order.qty \in Nat
    BY <1>1, OrderTerms DEF Less, Order
  <1>3. QtyOf[t] = Taken(m)
    BY <1>1 DEF QtyOf, TradeBetween
  <1> HIDE DEF t
  <1>4. Due(QtyOf)' = Due(QtyOf) + Taken(m) /\ Due(QtyOf) \in Nat
    <2>1. IsValue(QtyOf) /\ settled \in Nat /\ trades \in Seq(Trade)
          /\ settled <= Len(trades) /\ Due(QtyOf) \in Nat
      BY BookInvTerms, QtyOfIsValue
    <2>2. Due(QtyOf)' = Due(QtyOf) + QtyOf[t]
      BY <1>1, <2>1, DueGrows
    <2> QED
      BY <1>3, <2>1, <2>2
  <1>5. total_executed_qty + Due(QtyOf) + order.qty = original_qty
        /\ settled = 0 /\ total_executed_qty = 0
    BY <1>1 DEF BookInv, CallInv
  <1>6. (total_executed_qty + Due(QtyOf) + order.qty)' = original_qty'
    BY <1>1, <1>2, <1>4, <1>5
  <1>7. settled' <= Len(trades')
    BY <1>1, <1>5, BookInvTerms
  <1> QED
    BY <1>1, <1>5, <1>6, <1>7 DEF CallInv

LEMMA CallInvNext == BookInv /\ [XNext]_xvars => CallInv' /\ IsFiniteSet(resting)'
  <1> SUFFICES ASSUME BookInv, [XNext]_xvars PROVE CallInv' /\ IsFiniteSet(resting')
    OBVIOUS
  <1>0. /\ TypeInv /\ IsFiniteSet(resting) /\ settled \in Nat /\ settled <= Len(trades)
        /\ phase # "done" => settled = 0 /\ total_executed_qty = 0
        /\ phase \in {"matching", "done"} =>
             total_executed_qty + Due(QtyOf) + order.qty = original_qty
        /\ trades \in Seq(Trade)
    BY BookInvTerms DEF BookInv, CallInv
  <1>1. CASE UNCHANGED <<vars, settled, total_executed_qty>>
    BY <1>0, <1>1, SameDue DEF vars, BookInv, CallInv
  <1>2. ASSUME NEW o \in Submissions, AcceptOrder(o)
        PROVE  CallInv' /\ IsFiniteSet(resting')
    <2>1. /\ phase = "idle" /\ phase' = "matching"
          /\ UNCHANGED <<resting, trades, settled, total_executed_qty>>
          /\ order' = o /\ original_qty' = o.qty /\ o \in Order
      BY <1>2 DEF AcceptOrder, Submit, tally, Submissions, Order
    <2>2. trades = << >> /\ settled = 0 /\ total_executed_qty = 0 /\ o.qty \in Nat
      BY <1>0, <2>1, BookInvTerms, OrderTerms
    <2>3. Due(QtyOf)' = 0
      BY <1>0, <2>1, <2>2, SameDue, NothingDue
    <2>4. (total_executed_qty + Due(QtyOf) + order.qty)' = original_qty'
      BY <2>1, <2>2, <2>3
    <2> QED
      BY <1>0, <2>1, <2>2, <2>4 DEF CallInv
  <1>3. CASE CancelStep
    <2>1. UNCHANGED <<trades, settled, total_executed_qty>>
          /\ phase = "idle" /\ phase' = "cancelled" /\ IsFiniteSet(resting')
      <3>1. CancelAny /\ UNCHANGED <<settled, total_executed_qty>>
        BY <1>3 DEF CancelStep, tally
      <3>2. IsMargin(AssetOf(0, 0))
        BY AssetOfIsMargin
      <3> QED
        BY <1>0, <3>1, <3>2, CancelBooked
    <2> QED
      BY <1>0, <2>1 DEF CallInv
  <1>4. CASE MatchStep
    <2>1. UNCHANGED <<settled, total_executed_qty>>
      BY <1>4, FillIsMatch
    <2>2. ASSUME NEW m \in resting, FillPartial(m) \/ FillWhole(m)
          PROVE  CallInv' /\ IsFiniteSet(resting')
      <3>1. IsMargin(AssetOf(0, 0))
        BY AssetOfIsMargin
      <3> QED
        BY <1>0, <2>1, <2>2, <3>1, CallInvFill, FillBooked
    <2>3. CASE Finish \/ Rest \/ RejectFull \/ \E m \in resting : SelfTrade(m)
      <3>1. IsFiniteSet(resting') /\ phase = "matching" /\ phase' = "done"
            /\ UNCHANGED <<order, original_qty, trades>>
        <4>1. IsMargin(AssetOf(0, 0))
          BY AssetOfIsMargin
        <4> QED
          BY <1>0, <2>3, <4>1, AnswerBooked
      <3>2. /\ result'.error \in {"None", "EngineFull"}
            /\ result'.error = "None" => result'.remaining_qty = order.qty
            /\ result'.error # "None" => trades = << >>
        BY <2>3 DEF Finish, Rest, RejectFull, SelfTrade, Answer, Ok, Err
      <3>3. Due(QtyOf)' = Due(QtyOf)
        BY <2>1, <3>1, SameDue
      <3> QED
        BY <1>0, <2>1, <3>1, <3>2, <3>3 DEF CallInv
    <2> QED
      BY <1>4, <2>2, <2>3, FillIsMatch
  <1>5. CASE SettleNext
    <2>1. /\ UNCHANGED <<vars, resting, order, original_qty, trades, phase, result>>
          /\ phase = "done" /\ result.error = "None"
          /\ settled < Len(trades) /\ settled' = settled + 1
          /\ total_executed_qty' = total_executed_qty + trades[settled + 1].qty
      BY <1>5 DEF SettleNext, vars
    <2>2. trades[settled + 1] \in Trade /\ IsValue(QtyOf)
      BY <1>0, <2>1, QtyOfIsValue
    <2>3. Due(QtyOf)' = Due(QtyOf) - trades[settled + 1].qty
      BY <1>0, <2>1, <2>2, DueShrinks DEF QtyOf
    <2>4. trades[settled + 1].qty \in Nat /\ Due(QtyOf) \in Nat
          /\ total_executed_qty \in Nat /\ order.qty \in Nat
      BY <2>1, <2>2, TradeTerms, BookInvTerms, OrderTerms
    <2>5. (total_executed_qty + Due(QtyOf) + order.qty)' = original_qty'
      <3>1. PICK q \in Nat : q = trades[settled + 1].qty
        BY <2>4
      <3>2. total_executed_qty' = total_executed_qty + q /\ Due(QtyOf)' = Due(QtyOf) - q
            /\ order'.qty = order.qty /\ original_qty' = original_qty
            /\ total_executed_qty + Due(QtyOf) + order.qty = original_qty
        BY <1>0, <2>1, <2>3, <3>1
      <3> QED
        BY ONLY <2>4, <3>1, <3>2
    <2>6. settled' <= Len(trades')
      BY <1>0, <2>1
    <2> QED
      BY <1>0, <2>1, <2>5, <2>6 DEF BookInv, CallInv
  <1>6. CASE Return /\ (ResetTally \/ (UNCHANGED tally /\ phase = "cancelled"))
    <2>1. phase' = "idle" /\ trades' = << >> /\ UNCHANGED resting
      BY <1>6 DEF Return
    <2>2. settled' = 0 /\ total_executed_qty' = 0
      <3>1. CASE ResetTally
        BY <3>1 DEF ResetTally
      <3>2. CASE UNCHANGED tally /\ phase = "cancelled"
        BY <1>0, <3>2 DEF tally
      <3> QED
        BY <1>6, <3>1, <3>2
    <2>3. Len(trades') = 0
      BY <2>1
    <2> QED
      BY <1>0, <2>1, <2>2, <2>3 DEF CallInv
  <1>7. CASE \/ ReturnLimit \/ ReturnSelfTrade \/ ReturnMarket \/ ReturnFull
             \/ ReturnCancelOk \/ ReturnCancelRejected
    <2>1. Return /\ (ResetTally \/ (UNCHANGED tally /\ phase = "cancelled"))
      BY <1>7 DEF ReturnLimit, ReturnSelfTrade, ReturnMarket, ReturnFull,
         ReturnCancelOk, ReturnCancelRejected
    <2> QED
      BY <1>6, <2>1
  <1>8. CASE UNCHANGED xvars \/ \E o \in Submissions : RejectOrder(o)
    BY <1>1, <1>8 DEF xvars, tally, RejectOrder
  <1> QED
    BY <1>2, <1>3, <1>4, <1>5, <1>7, <1>8 DEF XNext, EngineStep
-----------------------------------------------------------------------------
(* Assets: each step takes as much off what is locked as off what it is for. *)

\* The parts of what is locked are numbers.
LEMMA HeldIsNat ==
  ASSUME BookInv, NEW M, IsMargin(M)
  PROVE  Booked(M) \in Nat /\ InTheHand(M) \in Nat
  <1>1. resting \in SUBSET Order /\ IsFiniteSet(resting)
    BY DEF BookInv, XInv, TypeInv, TypeOK
  <1>2. Booked(M) \in Nat
    BY <1>1, BookedIsNat
  <1>3. InTheHand(M) \in Nat
    BY BookInvTerms DEF InTheHand, IsMargin
  <1> QED
    BY <1>2, <1>3

LEMMA AssetParts ==
  ASSUME BookInv, NEW u \in Users, NEW s \in Symbols
  PROVE  /\ Booked(AssetOf(u, s)) \in Nat /\ InTheHand(AssetOf(u, s)) \in Nat
         /\ Due(AssetsSold(u, s)) \in Nat
         /\ asset_locked[<<u, s>>] \in Nat /\ asset_available[<<u, s>>] \in Nat
  <1>1. IsMargin(AssetOf(u, s)) /\ IsValue(AssetsSold(u, s))
    BY AssetOfIsMargin, AssetsSoldIsValue
  <1>2. Due(AssetsSold(u, s)) \in Nat
    BY <1>1, BookInvTerms, DueIsNat
  <1> QED
    BY <1>1, <1>2, HeldIsNat, BookInvTerms, HoldingTyped

\* So the slack is one, of either sign.
SlackIsInt == \A u \in Users, s \in Symbols : AssetSlack(u, s) \in Int

LEMMA SlackIsTyped == BookInv => SlackIsInt
  <1> SUFFICES ASSUME BookInv, NEW u \in Users, NEW s \in Symbols
               PROVE  AssetSlack(u, s) \in Int
    BY DEF SlackIsInt
  <1>1. /\ Booked(AssetOf(u, s)) \in Nat /\ InTheHand(AssetOf(u, s)) \in Nat
        /\ Due(AssetsSold(u, s)) \in Nat /\ asset_locked[<<u, s>>] \in Nat
    BY AssetParts
  <1> QED
    BY <1>1 DEF AssetSlack

\* What is locked is enough for each of the parts.
LEMMA AssetsSuffice ==
  ASSUME BookInv, AssetsCovered, NEW u \in Users, NEW s \in Symbols
  PROVE  /\ Booked(AssetOf(u, s)) <= asset_locked[<<u, s>>]
         /\ InTheHand(AssetOf(u, s)) <= asset_locked[<<u, s>>]
         /\ Due(AssetsSold(u, s)) <= asset_locked[<<u, s>>]
  <1>1. AssetSlack(u, s) >= 0
    BY DEF AssetsCovered
  <1> QED
    BY <1>1, AssetParts DEF AssetSlack

\* A step that leaves the assets alone.
LEMMA SameHolding ==
  ASSUME UNCHANGED <<asset_locked, asset_available>>, NEW u, NEW s
  PROVE  asset_locked'[<<u, s>>] = asset_locked[<<u, s>>] /\ Assets(u, s)' = Assets(u, s)
  BY DEF Assets

\* A submission locks exactly what the order in hand then holds.
LEMMA AssetSlackAccept ==
  ASSUME BookInv, NEW o \in Submissions, AcceptOrder(o), NEW u \in Users, NEW s \in Symbols
  PROVE  AssetSlack(u, s)' = AssetSlack(u, s) /\ Assets(u, s)' = Assets(u, s)
  <1> DEFINE M == AssetOf(u, s)
  <1>1. o \in Order /\ Submit(o) /\ LockFunds(o) /\ settled' = settled /\ UNCHANGED trades
    BY DEF AcceptOrder, Submit, tally, Submissions, Order
  <1>2. /\ Booked(M)' = Booked(M) /\ InTheHand(M) = 0 /\ InTheHand(M)' = M[o]
    BY <1>1, BookInvTerms, SubmitBooked, AssetOfIsMargin
  <1>3. Due(AssetsSold(u, s))' = Due(AssetsSold(u, s))
    BY <1>1, SameDue
  <1>4. asset_locked'[<<u, s>>] = asset_locked[<<u, s>>] + M[o]
        /\ Assets(u, s)' = Assets(u, s)
    BY <1>1, BookInvTerms, LockAssets
  <1>5. M[o] \in Nat
    BY <1>1, AssetOfIsMargin DEF IsMargin
  <1> HIDE DEF M
  <1>6. asset_locked'[<<u, s>>] - (Booked(M)' + InTheHand(M)' + Due(AssetsSold(u, s))')
          = asset_locked[<<u, s>>] - (Booked(M) + InTheHand(M) + Due(AssetsSold(u, s)))
    BY <1>2, <1>3, <1>4, <1>5, AssetParts DEF M
  <1> QED
    BY <1>4, <1>6 DEF AssetSlack, M

\* Steps of the book that leave the accounts alone and move margin between
\* the book and the hand.
LEMMA AssetSlackMove ==
  ASSUME BookInv, UNCHANGED <<asset_locked, asset_available, trades, settled>>,
         NEW u \in Users, NEW s \in Symbols,
         (Booked(AssetOf(u, s)) + InTheHand(AssetOf(u, s)))'
           = Booked(AssetOf(u, s)) + InTheHand(AssetOf(u, s))
  PROVE  AssetSlack(u, s)' = AssetSlack(u, s) /\ Assets(u, s)' = Assets(u, s)
  <1>1. Due(AssetsSold(u, s))' = Due(AssetsSold(u, s))
    BY SameDue
  <1> QED
    BY <1>1, SameHolding DEF AssetSlack

\* A fill: what the seller has at the hand or on the book becomes due.  An
\* order whose side is unreadable has assets locked and is filled as a buyer,
\* or against a seller: what it had locked for the quantity covers nothing.
LEMMA AssetSlackFill ==
  ASSUME BookInv, NEW m \in resting, FillPartial(m) \/ FillWhole(m),
         UNCHANGED <<asset_locked, asset_available, settled>>,
         NEW u \in Users, NEW s \in Symbols
  PROVE  /\ AssetSlack(u, s)' >= AssetSlack(u, s)
         /\ SidesAreReadable => AssetSlack(u, s)' = AssetSlack(u, s)
         /\ Assets(u, s)' = Assets(u, s)
  <1> DEFINE M == AssetOf(u, s)
             T == AssetsSold(u, s)
             q == Taken(m)
             t == TradeBetween(order, m, q)
  <1>1. /\ q \in 1..MaxQty /\ q <= m.qty /\ q <= order.qty
        /\ m \in Order /\ order \in Order
        /\ Less(m, q) \in Order /\ Less(order, q) \in Order
        /\ order' = Less(order, q) /\ t \in Trade /\ trades' = Append(trades, t)
        /\ SideOf(m) = OtherSide(SideOf(order)) /\ m.symbol_id = order.symbol_id
        /\ Held /\ Held'
    BY BookInvTerms, FillTerms
  <1>2. Booked(M)' = Booked(M) - M[m] + M[Less(m, q)]
    <2>1. TypeInv /\ IsFiniteSet(resting) /\ IsMargin(M)
      BY AssetOfIsMargin DEF BookInv, XInv
    <2> QED
      BY <2>1, FillBooked
  <1>3. InTheHand(M) = M[order] /\ InTheHand(M)' = M[Less(order, q)]
    BY <1>1 DEF InTheHand
  <1>4. Due(T)' = Due(T) + T[t]
    <2>1. IsValue(T)
      BY AssetsSoldIsValue
    <2> HIDE DEF T, t
    <2> QED
      BY <1>1, <2>1, BookInvTerms, DueGrows
  <1>5. /\ M[m] + M[order] >= M[Less(m, q)] + M[Less(order, q)] + T[t]
        /\ SidesAreReadable => M[m] + M[order] = M[Less(m, q)] + M[Less(order, q)] + T[t]
    <2>1. \A o \in Order : /\ o.qty \in Nat
                           /\ M[o] = IF o.user_id = u /\ o.symbol_id = s /\ o.side # "Buy"
                                     THEN o.qty ELSE 0
      BY OrderTerms DEF AssetOf, AssetMargin
    <2>2. \A o \in Order : /\ Less(o, q).user_id = o.user_id /\ Less(o, q).side = o.side
                           /\ Less(o, q).symbol_id = o.symbol_id
                           /\ Less(o, q).qty = o.qty - q
      BY DEF Less, Order
    <2>3. T[t] = IF t.seller_id = u /\ t.symbol_id = s THEN q ELSE 0
      BY <1>1 DEF AssetsSold, TradeBetween
    <2>4. /\ t.symbol_id = order.symbol_id
          /\ t.seller_id = IF order.side = "Buy" THEN m.user_id ELSE order.user_id
      BY DEF TradeBetween
    <2>5. q \in Nat
      BY <1>1
    <2> HIDE DEF M, T, t, q
    <2>6. CASE order.side = "Buy"
      <3>1. m.side = "Sell"
        BY <1>1, <2>6 DEF OtherSide, SideOf
      <3> QED
        BY <1>1, <2>1, <2>2, <2>3, <2>4, <2>5, <2>6, <3>1
    <2>7. CASE order.side # "Buy"
      <3>1. SidesAreReadable => m.side = "Buy"
        BY <1>1, <2>7 DEF OtherSide, SideOf, SidesAreReadable, Order
      <3>2. M[order] = M[Less(order, q)] + T[t]
        BY <1>1, <2>1, <2>2, <2>3, <2>4, <2>5, <2>7
      <3>3. M[m] >= M[Less(m, q)] /\ (SidesAreReadable => M[m] = M[Less(m, q)])
        BY <1>1, <2>1, <2>2, <2>5, <3>1
      <3>4. /\ M[m] \in Nat /\ M[Less(m, q)] \in Nat
            /\ M[Less(order, q)] \in Nat /\ T[t] \in Nat
        BY <1>1, <2>1, <2>3, <2>5
      <3> QED
        BY <3>2, <3>3, <3>4
    <2> QED
      BY <2>6, <2>7
  <1>6. /\ M[m] \in Nat /\ M[order] \in Nat /\ M[Less(m, q)] \in Nat
        /\ M[Less(order, q)] \in Nat /\ T[t] \in Nat
    BY <1>1, AssetOfIsMargin, AssetsSoldIsValue DEF IsMargin, IsValue
  <1>7. asset_locked'[<<u, s>>] = asset_locked[<<u, s>>] /\ Assets(u, s)' = Assets(u, s)
    BY SameHolding
  <1>8. Booked(M) \in Nat /\ Due(T) \in Nat /\ asset_locked[<<u, s>>] \in Nat
    BY AssetParts
  <1> HIDE DEF M, T, t, q
  <1>9. asset_locked'[<<u, s>>] - (Booked(M)' + InTheHand(M)' + Due(T)')
          >= asset_locked[<<u, s>>] - (Booked(M) + InTheHand(M) + Due(T))
    BY ONLY <1>2, <1>3, <1>4, <1>5, <1>6, <1>7, <1>8
  <1>10. ASSUME SidesAreReadable
         PROVE  asset_locked'[<<u, s>>] - (Booked(M)' + InTheHand(M)' + Due(T)')
                  = asset_locked[<<u, s>>] - (Booked(M) + InTheHand(M) + Due(T))
    <2>1. M[m] + M[order] = M[Less(m, q)] + M[Less(order, q)] + T[t]
      BY <1>5, <1>10
    <2> QED
      BY ONLY <1>2, <1>3, <1>4, <1>6, <1>7, <1>8, <2>1
  <1> QED
    BY <1>7, <1>9, <1>10 DEF AssetSlack, M, T

\* What one settlement moves from one user to another.
AssetsMove ==
  \A s \in Symbols :
    \/ \A u \in Users : Assets(u, s)' = Assets(u, s)
    \/ \E a, b \in Users, q \in Nat : \A u \in Users :
         Assets(u, s)' = Assets(u, s) + (IF u = a THEN q ELSE 0) - (IF u = b THEN q ELSE 0)

\* A settlement takes off the seller's lock what it takes off what is due.
LEMMA AssetSlackSettle ==
  ASSUME BookInv, AssetsCovered, SettleNext
  PROVE  /\ \A u \in Users, s \in Symbols : AssetSlack(u, s)' = AssetSlack(u, s)
         /\ AssetsMove
  <1>1. PICK t : t = trades[settled + 1]
    OBVIOUS
  <1>2. /\ settled < Len(trades) /\ settled' = settled + 1 /\ trades' = trades
        /\ SettleTrade(t, order.price) /\ UNCHANGED vars /\ phase = "done"
        /\ settled \in Nat /\ trades \in Seq(Trade)
    BY <1>1, BookInvTerms DEF SettleNext, vars
  <1>3. t \in Trade /\ order.price \in Nat
    BY <1>1, <1>2, BookInvTerms, OrderTerms
  <1>4. ASSUME NEW u \in Users, NEW s \in Symbols
        PROVE  AssetsSold(u, s)[t] <= asset_locked[<<u, s>>] /\ AssetsSold(u, s)[t] \in Nat
    <2>1. IsValue(AssetsSold(u, s))
      BY AssetsSoldIsValue
    <2>2. AssetsSold(u, s)[t] <= Due(AssetsSold(u, s))
      BY <1>1, <1>2, <2>1, NextIsDue
    <2>3. AssetsSold(u, s)[t] \in Nat
      BY <1>3, <2>1 DEF IsValue
    <2> QED
      BY <2>2, <2>3, AssetsSuffice, AssetParts
  <1>5. t.qty <= asset_locked[<<t.seller_id, t.symbol_id>>]
    <2>1. t.seller_id \in Users /\ t.symbol_id \in Symbols
      BY <1>3, TradeTerms
    <2>2. AssetsSold(t.seller_id, t.symbol_id)[t] = t.qty
      BY <1>3 DEF AssetsSold
    <2> QED
      BY <1>4, <2>1, <2>2
  <1>6. ASSUME NEW u \in Users, NEW s \in Symbols
        PROVE  AssetSlack(u, s)' = AssetSlack(u, s)
    <2> DEFINE M == AssetOf(u, s)
               T == AssetsSold(u, s)
    <2>1. Booked(M)' = Booked(M) /\ InTheHand(M)' = InTheHand(M)
      BY <1>2 DEF vars, Booked, InTheHand, Held
    <2>2. Due(T)' = Due(T) - T[t]
      <3>1. IsValue(T)
        BY AssetsSoldIsValue
      <3> HIDE DEF T
      <3> QED
        BY <1>1, <1>2, <3>1, DueShrinks
    <2>3. asset_locked'[<<u, s>>] = asset_locked[<<u, s>>] - T[t]
      BY <1>2, <1>3, <1>5, BookInvTerms, SettleAssets
    <2>4. /\ T[t] \in Nat /\ Booked(M) \in Nat /\ InTheHand(M) \in Nat /\ Due(T) \in Nat
          /\ asset_locked[<<u, s>>] \in Nat
      BY <1>4, AssetParts
    <2> HIDE DEF M, T
    <2>5. asset_locked'[<<u, s>>] - (Booked(M)' + InTheHand(M)' + Due(T)')
            = asset_locked[<<u, s>>] - (Booked(M) + InTheHand(M) + Due(T))
      BY <2>1, <2>2, <2>3, <2>4
    <2> QED
      BY <2>5 DEF AssetSlack, M, T
  <1>7. ASSUME NEW s \in Symbols
        PROVE  \E a, b \in Users, q \in Nat : \A u \in Users :
                 Assets(u, s)' = Assets(u, s) + (IF u = a THEN q ELSE 0)
                                              - (IF u = b THEN q ELSE 0)
    <2>1. t.buyer_id \in Users /\ t.seller_id \in Users /\ t.qty \in Nat
      BY <1>3, TradeTerms
    <2>2. PICK q \in Nat : q = IF s = t.symbol_id THEN t.qty ELSE 0
      BY <2>1
    <2>3. ASSUME NEW u \in Users
          PROVE  Assets(u, s)' = Assets(u, s) + (IF u = t.buyer_id THEN q ELSE 0)
                                              - (IF u = t.seller_id THEN q ELSE 0)
      <3>1. Assets(u, s)' = Assets(u, s)
              + (IF u = t.buyer_id THEN IF s = t.symbol_id THEN t.qty ELSE 0 ELSE 0)
              - (IF u = t.seller_id THEN IF s = t.symbol_id THEN t.qty ELSE 0 ELSE 0)
        BY <1>2, <1>3, <1>5, BookInvTerms, SettleAssets
      <3> QED
        BY ONLY <2>2, <3>1
    <2> QED
      BY <2>1, <2>3, Zenon
  <1> QED
    BY <1>6, <1>7 DEF AssetsMove

\* A call that returns leaves nothing due.
LEMMA ReturnDue ==
  ASSUME BookInv, Return, settled' = 0, NEW CONSTANT T
  PROVE  Due(T)' = 0
  <1>1. trades' = << >> /\ Len(<< >>) = 0
    BY DEF Return
  <1>2. Unsettled' = {}
    BY <1>1 DEF Unsettled
  <1>3. Due(T)' = SumFunctionOnSet([i \in 1..Len(trades') |-> T[trades'[i]]], {})
    BY <1>2 DEF Due
  <1> QED
    BY <1>3, SumEmpty

\* How a call may return: all its trades settled, or having made none.
Returns ==
  /\ Return
  /\ settled = Len(trades)
  /\ settled' = 0

\* A call that returns has settled its trades; what it did not execute is left.
LEMMA CallReturns ==
  ASSUME BookInv, ReturnLimit \/ ReturnSelfTrade \/ ReturnMarket \/ ReturnFull
  PROVE  /\ Returns /\ phase = "done" /\ order \in Order
         /\ original_qty = total_executed_qty + order.qty
         /\ result.error = "None" => result.remaining_qty = order.qty
         /\ result.error # "None" => original_qty = order.qty
  <1>1. Return /\ ResetTally /\ phase = "done" /\ (AllSettled \/ result.error # "None")
    BY DEF ReturnLimit, ReturnSelfTrade, ReturnMarket, ReturnFull, AllSettled
  <1>2. /\ settled \in Nat /\ settled <= Len(trades) /\ trades \in Seq(Trade)
        /\ order \in Order /\ order.qty \in Nat /\ total_executed_qty \in Nat
    BY <1>1, BookInvTerms, OrderTerms
  <1>3. /\ total_executed_qty + Due(QtyOf) + order.qty = original_qty
        /\ result.error = "None" => result.remaining_qty = order.qty
        /\ result.error # "None" => trades = << >> /\ total_executed_qty = 0
    BY <1>1 DEF BookInv, CallInv
  <1>4. settled = Len(trades)
    <2>1. CASE AllSettled
      BY <2>1 DEF AllSettled
    <2>2. CASE result.error # "None"
      <3>1. Len(trades) = 0
        BY <1>3, <2>2
      <3> QED
        BY <1>2, <3>1
    <2> QED
      BY <1>1, <2>1, <2>2
  <1>5. Due(QtyOf) = 0
    BY <1>2, <1>4, NothingDue
  <1> QED
    BY <1>1, <1>2, <1>3, <1>4, <1>5 DEF Returns, ResetTally

\* A cancellation's answer: there are no trades.
LEMMA CancelReturns ==
  ASSUME BookInv, ReturnCancelOk \/ ReturnCancelRejected
  PROVE  Returns /\ phase = "cancelled"
  <1>1. Return /\ phase = "cancelled" /\ UNCHANGED settled
    BY DEF ReturnCancelOk, ReturnCancelRejected, tally
  <1>2. trades = << >> /\ settled = 0 /\ Len(<< >>) = 0
    BY <1>1, BookInvTerms
  <1> QED
    BY <1>1, <1>2 DEF Returns

\* A return gives up what was in hand.
LEMMA AssetSlackReturn ==
  ASSUME BookInv, Returns, NEW u \in Users, NEW s \in Symbols,
         NEW given \in Nat, asset_locked'[<<u, s>>] = asset_locked[<<u, s>>] - given
  PROVE  AssetSlack(u, s)' = AssetSlack(u, s) + InTheHand(AssetOf(u, s)) - given
  <1> DEFINE M == AssetOf(u, s)
             T == AssetsSold(u, s)
  <1>1. Booked(M)' = Booked(M) /\ InTheHand(M)' = 0
    BY ReturnBooked DEF Returns
  <1>2. Due(T)' = 0
    BY ReturnDue DEF Returns
  <1>3. Due(T) = 0
    BY BookInvTerms, NothingDue DEF Returns
  <1>4. Booked(M) \in Nat /\ InTheHand(M) \in Nat /\ asset_locked[<<u, s>>] \in Nat
    BY AssetParts
  <1> HIDE DEF M, T
  <1>5. asset_locked'[<<u, s>>] - (Booked(M)' + InTheHand(M)' + Due(T)')
          = asset_locked[<<u, s>>] - (Booked(M) + InTheHand(M) + Due(T))
            + InTheHand(M) - given
    BY <1>1, <1>2, <1>3, <1>4
  <1> QED
    BY <1>5 DEF AssetSlack, M, T

\* What the engine thread unlocks when it gives up an order of which margin is
\* held is the margin of what is left of it, if the order's side can be read.
Gives ==
  IF SideOf(order) = "Buy" THEN UNCHANGED assets
                           ELSE UnlockAsset(Asset(order), order.qty)

\* A return that unlocks the order's remainder leaves the slack as it is; one
\* that unlocks dollars for an order that locked assets adds to it.
LEMMA AssetSlackGive ==
  ASSUME BookInv, AssetsCovered, Returns, Held, Gives, NEW u \in Users, NEW s \in Symbols
  PROVE  /\ AssetSlack(u, s)' >= AssetSlack(u, s)
         /\ SidesAreReadable => AssetSlack(u, s)' = AssetSlack(u, s)
         /\ Assets(u, s)' = Assets(u, s)
  <1>1. order \in Order /\ RiskTypeOK /\ order.side \in Sides
        /\ order.user_id \in Users /\ order.symbol_id \in Symbols
    BY BookInvTerms, OrderIsNat DEF Order
  <1>2. InTheHand(AssetOf(u, s)) = AssetOf(u, s)[order] /\ AssetOf(u, s)[order] \in Nat
    BY <1>1, AssetOfIsMargin DEF InTheHand, IsMargin
  <1>3. AssetSlack(u, s) \in Int
    BY SlackIsTyped DEF SlackIsInt
  <1>4. CASE order.side \in {"Buy", "Sell"}
    <2>1. asset_locked'[<<u, s>>] = asset_locked[<<u, s>>] - AssetOf(u, s)[order]
          /\ Assets(u, s)' = Assets(u, s)
      <3>1. CASE order.side = "Buy"
        BY <1>1, <3>1, SameAssets DEF Gives, SideOf
      <3>2. CASE order.side = "Sell"
        <4>1. AssetOf(order.user_id, order.symbol_id)[order] = order.qty
          BY <1>1, <3>2 DEF AssetOf, AssetMargin
        <4>2. InTheHand(AssetOf(order.user_id, order.symbol_id)) = order.qty
          BY <4>1 DEF InTheHand
        <4>3. order.qty <= asset_locked[Asset(order)]
          BY <1>1, <4>2, AssetsSuffice DEF Asset
        <4>4. UnlockAsset(Asset(order), order.qty)
          BY <3>2 DEF Gives, SideOf
        <4> QED
          BY <1>1, <3>2, <4>3, <4>4, UnlockOneAsset
      <3> QED
        BY <1>4, <3>1, <3>2
    <2>2. AssetSlack(u, s)' = AssetSlack(u, s) + AssetOf(u, s)[order] - AssetOf(u, s)[order]
      BY <1>2, <2>1, AssetSlackReturn
    <2> QED
      BY <1>2, <1>3, <2>1, <2>2
  <1>5. CASE order.side \notin {"Buy", "Sell"}
    <2>1. UNCHANGED <<asset_locked, asset_available>> /\ ~SidesAreReadable
      BY <1>1, <1>5 DEF Gives, SideOf, SidesAreReadable, assets
    <2>2. asset_locked'[<<u, s>>] = asset_locked[<<u, s>>] - 0 /\ 0 \in Nat
          /\ Assets(u, s)' = Assets(u, s)
      BY <2>1, SameHolding, AssetParts
    <2>3. AssetSlack(u, s)' = AssetSlack(u, s) + AssetOf(u, s)[order] - 0
      BY <1>2, <2>2, AssetSlackReturn
    <2> QED
      BY <1>2, <1>3, <2>1, <2>2, <2>3
  <1> QED
    BY <1>4, <1>5

\* Self-trade prevention, refusal for lack of room, cancellation and the
\* refund of a market order all give up exactly that.
LEMMA ReturnsGive ==
  ASSUME BookInv, ReturnSelfTrade \/ ReturnMarket \/ ReturnFull \/ ReturnCancelOk
  PROVE  Returns /\ Held /\ Gives
  <1>1. CASE ReturnCancelOk
    <2>1. Returns /\ phase = "cancelled" /\ result.error = "None"
          /\ UnlockFunds(order, order.qty)
      BY <1>1, CancelReturns DEF ReturnCancelOk
    <2>2. Gives
      BY <2>1 DEF UnlockFunds, UnlockUsd, Gives
    <2> QED
      BY <2>1, <2>2 DEF Held
  <1>2. CASE ReturnSelfTrade \/ ReturnMarket \/ ReturnFull
    <2>1. /\ Returns /\ phase = "done" /\ order \in Order
          /\ original_qty = total_executed_qty + order.qty
          /\ result.error = "None" => result.remaining_qty = order.qty
          /\ result.error # "None" => original_qty = order.qty
      BY <1>2, CallReturns
    <2>2. SideOf(Submitted) = SideOf(order) /\ Asset(Submitted) = Asset(order)
          /\ Submitted.qty = original_qty
      BY <2>1 DEF Submitted, Asset, Order, SideOf
    <2>3. total_executed_qty \in Nat /\ order.qty \in Nat
      BY <2>1, BookInvTerms, OrderTerms
    <2>4. CASE ReturnSelfTrade
      BY <2>1, <2>2, <2>4
         DEF ReturnSelfTrade, AllSettled, UnlockFunds, UnlockUsd, Gives, Held
    <2>5. CASE ReturnFull
      BY <2>1, <2>2, <2>5 DEF ReturnFull, UnlockFunds, UnlockUsd, Gives, Held
    <2>6. CASE ReturnMarket
      <3>1. Minus(original_qty, total_executed_qty) = order.qty
        BY <2>1, <2>3 DEF Minus
      <3> QED
        BY <2>1, <2>2, <2>6, <3>1 DEF ReturnMarket, RefundRemainder, UnlockUsd, Gives, Held
    <2> QED
      BY <1>2, <2>4, <2>5, <2>6
  <1> QED
    BY <1>1, <1>2

\* A limit order gives up nothing: its margin has gone to what rests or to the
\* trades.  An order that is neither limit nor market keeps its margin locked.
LEMMA AssetSlackLimit ==
  ASSUME BookInv, ReturnLimit, NEW u \in Users, NEW s \in Symbols
  PROVE  /\ AssetSlack(u, s)' >= AssetSlack(u, s)
         /\ order.order_type = "Limit" => AssetSlack(u, s)' = AssetSlack(u, s)
         /\ Assets(u, s)' = Assets(u, s)
  <1>1. Returns /\ phase = "done" /\ UNCHANGED <<asset_locked, asset_available>>
        /\ ~result.stp_triggered /\ result.error = "None"
    BY CallReturns DEF ReturnLimit, AllSettled, accounts, assets
  <1>2. asset_locked'[<<u, s>>] = asset_locked[<<u, s>>] - 0 /\ 0 \in Nat
        /\ Assets(u, s)' = Assets(u, s)
    BY <1>1, SameHolding, AssetParts
  <1>3. AssetSlack(u, s)' = AssetSlack(u, s) + InTheHand(AssetOf(u, s)) - 0
    BY <1>1, <1>2, AssetSlackReturn
  <1>4. AssetSlack(u, s) \in Int /\ InTheHand(AssetOf(u, s)) \in Nat
    BY AssetParts, SlackIsTyped DEF SlackIsInt
  <1>5. order.order_type = "Limit" => InTheHand(AssetOf(u, s)) = 0
    BY <1>1 DEF InTheHand, Held
  <1> QED
    BY <1>2, <1>3, <1>4, <1>5

\* Limit and market orders whose side can be read: the engine gives back as
\* much as it locks.
PlainOrders == "Deposit" \notin OrderTypes /\ SidesAreReadable

\* Whatever the step, what is locked stays enough, and exact as long as every
\* order is of that kind; and what users own only moves between them.
LEMMA AssetsNext ==
  ASSUME BookInv, AssetsCovered, [XNext]_xvars
  PROVE  /\ \A u \in Users, s \in Symbols :
              /\ AssetSlack(u, s)' >= AssetSlack(u, s)
              /\ PlainOrders => AssetSlack(u, s)' = AssetSlack(u, s)
         /\ AssetsMove
  <1> DEFINE Same(u, s) == AssetSlack(u, s)' = AssetSlack(u, s) /\ Assets(u, s)' = Assets(u, s)
             Grows(u, s) ==
               /\ AssetSlack(u, s)' >= AssetSlack(u, s)
               /\ SidesAreReadable => AssetSlack(u, s)' = AssetSlack(u, s)
               /\ Assets(u, s)' = Assets(u, s)
             Goal == /\ \A u \in Users, s \in Symbols :
                          /\ AssetSlack(u, s)' >= AssetSlack(u, s)
                          /\ PlainOrders => AssetSlack(u, s)' = AssetSlack(u, s)
                     /\ AssetsMove
  <1>0. \A u \in Users, s \in Symbols : AssetSlack(u, s) \in Int
    BY SlackIsTyped DEF SlackIsInt
  <1>1. ASSUME \A u \in Users, s \in Symbols : Same(u, s)
        PROVE  Goal
    BY <1>0, <1>1 DEF AssetsMove
  <1>12. ASSUME \A u \in Users, s \in Symbols : Grows(u, s)
         PROVE  Goal
    BY <1>12 DEF AssetsMove, PlainOrders
  <1>2. TypeInv /\ IsFiniteSet(resting) /\ \A u, s : IsMargin(AssetOf(u, s))
    BY AssetOfIsMargin DEF BookInv, XInv
  <1>3. CASE UNCHANGED <<vars, accounts, tally>>
    <2>1. UNCHANGED <<asset_locked, asset_available, trades, settled>>
      BY <1>3 DEF vars, accounts, assets, tally
    <2>2. ASSUME NEW u \in Users, NEW s \in Symbols
          PROVE  (Booked(AssetOf(u, s)) + InTheHand(AssetOf(u, s)))'
                   = Booked(AssetOf(u, s)) + InTheHand(AssetOf(u, s))
      BY <1>3 DEF vars, Booked, InTheHand, Held
    <2> QED
      BY <1>1, <2>1, <2>2, AssetSlackMove
  <1>4. CASE \E o \in Submissions : AcceptOrder(o)
    BY <1>1, <1>4, AssetSlackAccept
  <1>5. CASE CancelStep
    <2>1. CancelAny /\ UNCHANGED <<asset_locked, asset_available, settled>>
      BY <1>5 DEF CancelStep, accounts, assets, tally
    <2>2. ASSUME NEW u \in Users, NEW s \in Symbols
          PROVE  Same(u, s)
      <3>1. /\ (Booked(AssetOf(u, s)) + InTheHand(AssetOf(u, s)))'
                 = Booked(AssetOf(u, s)) + InTheHand(AssetOf(u, s))
            /\ UNCHANGED trades
        BY <1>2, <2>1, CancelBooked
      <3> QED
        BY <2>1, <3>1, AssetSlackMove
    <2> QED
      BY <1>1, <2>2
  <1>6. CASE MatchStep
    <2>1. UNCHANGED <<asset_locked, asset_available, settled>>
      BY <1>6, FillIsMatch DEF assets
    <2>2. CASE \E m \in resting : FillPartial(m) \/ FillWhole(m)
      BY <1>12, <2>1, <2>2, AssetSlackFill
    <2>3. CASE Finish \/ Rest \/ RejectFull \/ \E m \in resting : SelfTrade(m)
      <3>1. ASSUME NEW u \in Users, NEW s \in Symbols
            PROVE  Same(u, s)
        <4>1. /\ (Booked(AssetOf(u, s)) + InTheHand(AssetOf(u, s)))'
                   = Booked(AssetOf(u, s)) + InTheHand(AssetOf(u, s))
              /\ UNCHANGED trades
          BY <1>2, <2>3, AnswerBooked
        <4> QED
          BY <2>1, <4>1, AssetSlackMove
      <3> QED
        BY <1>1, <3>1
    <2> QED
      BY <1>6, <2>2, <2>3, FillIsMatch
  <1>7. CASE SettleNext
    BY <1>0, <1>7, AssetSlackSettle
  <1>8. CASE ReturnLimit
    <2>1. order.order_type # "Market" /\ order.order_type \in OrderTypes
      BY <1>8, CallReturns DEF ReturnLimit, Order
    <2>2. "Deposit" \notin OrderTypes => order.order_type = "Limit"
      BY <2>1, TypesAssumption
    <2> QED
      BY <1>8, <2>2, AssetSlackLimit DEF AssetsMove, PlainOrders
  <1>9. CASE ReturnSelfTrade \/ ReturnMarket \/ ReturnFull \/ ReturnCancelOk
    BY <1>12, <1>9, ReturnsGive, AssetSlackGive
  <1>10. CASE ReturnCancelRejected
    <2>1. Returns /\ ~Held /\ UNCHANGED <<asset_locked, asset_available>>
      BY <1>10, CancelReturns DEF ReturnCancelRejected, Held, accounts, assets
    <2>2. ASSUME NEW u \in Users, NEW s \in Symbols
          PROVE  Same(u, s)
      <3>1. asset_locked'[<<u, s>>] = asset_locked[<<u, s>>] - 0 /\ 0 \in Nat
            /\ Assets(u, s)' = Assets(u, s)
        BY <2>1, SameHolding, AssetParts
      <3>2. AssetSlack(u, s)' = AssetSlack(u, s) + InTheHand(AssetOf(u, s)) - 0
        BY <2>1, <3>1, AssetSlackReturn
      <3>3. InTheHand(AssetOf(u, s)) = 0 /\ AssetSlack(u, s) \in Int
        BY <1>0, <2>1 DEF InTheHand
      <3> QED
        BY <3>1, <3>2, <3>3
    <2> QED
      BY <1>1, <2>2
  <1>11. CASE UNCHANGED xvars \/ \E o \in Submissions : RejectOrder(o)
    BY <1>3, <1>11 DEF xvars, RejectOrder
  <1> QED
    BY <1>4, <1>5, <1>6, <1>7, <1>8, <1>9, <1>10, <1>11 DEF XNext, EngineStep

\* The invariants hold at the start and every step preserves them.
LEMMA BookInvInit == XInit => BookInv
  <1> SUFFICES ASSUME XInit PROVE BookInv
    OBVIOUS
  <1>1. FairInv
    BY DEF XInit, Init, FairInv, Fresh, TradesAreFair
  <1>2. IsFiniteSet(resting)
    BY FS_EmptySet DEF XInit, Init
  <1> QED
    BY <1>1, <1>2, XInvInit, CallInvInit DEF BookInv

LEMMA BookInvNext == BookInv /\ [XNext]_xvars => BookInv'
  <1> SUFFICES ASSUME BookInv, [XNext]_xvars PROVE BookInv'
    OBVIOUS
  <1>1. XInv' /\ CallInv' /\ IsFiniteSet(resting)'
    BY XInvNext, CallInvNext DEF BookInv
  <1>2. FairInv'
    BY XStepIsBookStep, FairNext DEF BookInv, XInv
  <1> QED
    BY <1>1, <1>2 DEF BookInv

\* At the start nothing is locked and nothing needs to be.
LEMMA StartsExact == XInit => AssetsExact /\ UsdExact
  <1> SUFFICES ASSUME XInit PROVE AssetsExact /\ UsdExact
    OBVIOUS
  <1>1. resting = {} /\ trades = << >> /\ settled = 0 /\ ~Held /\ Len(<< >>) = 0
    BY DEF XInit, Init, Held
  <1>2. Unsettled = {}
    BY <1>1 DEF Unsettled
  <1>3. \A M : Booked(M) = 0 /\ InTheHand(M) = 0 /\ Due(M) = 0
    BY <1>1, <1>2, SumEmpty DEF Booked, InTheHand, Due
  <1>4. /\ \A u \in Users, s \in Symbols : asset_locked[<<u, s>>] = 0
        /\ \A u \in Users : usd_locked[u] = 0
    BY DEF XInit, RiskInit, Holdings
  <1> QED
    BY <1>3, <1>4 DEF AssetsExact, AssetSlack, UsdExact, UsdSlack

\* So no step takes from what is covered.
LEMMA CoveredInit == XInit => AssetsCovered
  <1> SUFFICES ASSUME XInit PROVE AssetsCovered
    OBVIOUS
  <1>1. \A u \in Users, s \in Symbols : AssetSlack(u, s) = 0
    BY StartsExact DEF AssetsExact
  <1> QED
    BY <1>1 DEF AssetsCovered

LEMMA CoveredNext == BookInv /\ AssetsCovered /\ [XNext]_xvars => AssetsCovered'
  <1> SUFFICES ASSUME BookInv, AssetsCovered, [XNext]_xvars PROVE AssetsCovered'
    OBVIOUS
  <1>1. ASSUME NEW u \in Users, NEW s \in Symbols
        PROVE  AssetSlack(u, s)' >= 0
    <2>1. AssetSlack(u, s)' >= AssetSlack(u, s) /\ AssetSlack(u, s) >= 0
      BY AssetsNext DEF AssetsCovered
    <2>2. AssetSlack(u, s) \in Int
      BY SlackIsTyped DEF SlackIsInt
    <2>3. AssetSlack(u, s)' \in Int
      <3>1. (BookInv => SlackIsInt)'
        BY SlackIsTyped, PTL
      <3> QED
        BY <3>1, BookInvNext DEF SlackIsInt
    <2> QED
      BY <2>1, <2>2, <2>3
  <1> QED
    BY <1>1 DEF AssetsCovered

\* The margin of the orders of one user and symbol, counted over the book.
LEMMA RestingAssetsIsBooked ==
  ASSUME BookInv, NEW u \in Users, NEW s \in Symbols
  PROVE  RestingAssets(u, s) = Booked(AssetOf(u, s))
  <1> DEFINE f == AssetOf(u, s)
             g == [o \in resting |-> AssetMargin(o)]
             T == {o \in OrdersOf(s) : o.user_id = u}
  <1>1. IsFiniteSet(resting) /\ resting \in SUBSET Order
    BY DEF BookInv, XInv, TypeInv, TypeOK
  <1>2. T \in SUBSET resting
    BY DEF OrdersOf
  <1>3. \A o \in resting : f[o] \in Int
    BY <1>1, AssetOfIsMargin DEF IsMargin
  <1>4. \A o \in T : g[o] = f[o]
    BY <1>1 DEF AssetOf, OrdersOf
  <1>5. \A o \in resting \ T : f[o] = 0
    BY <1>1 DEF AssetOf, OrdersOf
  <1> HIDE DEF f, g, T
  <1>6. SumFunctionOnSet(f, resting) = SumFunctionOnSet(g, T)
    BY <1>1, <1>2, <1>3, <1>4, <1>5, SumFiltered
  <1> QED
    BY <1>6 DEF RestingAssets, Booked, f, g, T

\* No resting ask is ever short of the assets it offers, in the middle of a
\* call too: no saturating_sub of risk.rs hides a shortfall, whatever orders,
\* refusals and cancellations the clients send.
THEOREM AsksStayCovered == XSpec => []AsksAreCovered
  <1>1. BookInv /\ AssetsCovered => AsksAreCovered
    <2> SUFFICES ASSUME BookInv, AssetsCovered, NEW u \in Users, NEW s \in Symbols
                 PROVE  asset_locked[<<u, s>>] >= RestingAssets(u, s)
      BY Zenon DEF AsksAreCovered
    <2> QED
      BY RestingAssetsIsBooked, AssetsSuffice, AssetParts
  <1> QED
    BY <1>1, BookInvInit, BookInvNext, CoveredInit, CoveredNext, PTL DEF XSpec

\* Every user starts with the same assets; a step moves them or leaves them.
LEMMA ConservedInit == XInit => AssetsConserved
  <1> SUFFICES ASSUME XInit, NEW s \in Symbols
               PROVE  SumFunctionOnSet([u \in Users |-> Assets(u, s)], Users)
                        = InitialAssets * Cardinality(Users)
    BY DEF AssetsConserved
  <1> DEFINE f == [u \in Users |-> Assets(u, s)]
  <1>1. \A u \in Users : f[u] = InitialAssets
    BY DEF XInit, RiskInit, Holdings, Assets
  <1> HIDE DEF f
  <1>2. SumFunctionOnSet(f, Users) = InitialAssets * Cardinality(Users)
    BY <1>1, SumConstant
  <1> QED
    BY <1>2 DEF f

LEMMA ConservedNext ==
  BookInv /\ AssetsCovered /\ AssetsConserved /\ [XNext]_xvars => AssetsConserved'
  <1> SUFFICES ASSUME BookInv, AssetsCovered, AssetsConserved, [XNext]_xvars,
                      NEW s \in Symbols
               PROVE  SumFunctionOnSet([u \in Users |-> Assets(u, s)], Users)'
                        = InitialAssets * Cardinality(Users)
    BY DEF AssetsConserved
  <1> DEFINE f == [u \in Users |-> Assets(u, s)]
             g == [u \in Users |-> Assets(u, s)']
  <1>1. SumFunctionOnSet(f, Users) = InitialAssets * Cardinality(Users)
    BY DEF AssetsConserved
  <1>2. \A u \in Users : f[u] = Assets(u, s) /\ g[u] = Assets(u, s)' /\ f[u] \in Int
    BY AssetParts DEF Assets
  <1>3. AssetsMove
    BY AssetsNext
  <1>4. CASE \A u \in Users : Assets(u, s)' = Assets(u, s)
    <2>1. \A u \in Users : f[u] = g[u]
      BY <1>2, <1>4
    <2> HIDE DEF f, g
    <2>2. SumFunctionOnSet(g, Users) = SumFunctionOnSet(f, Users)
      BY <2>1, SumSame
    <2> QED
      BY <1>1, <2>2 DEF g
  <1>5. CASE \E a, b \in Users, q \in Nat : \A u \in Users :
               Assets(u, s)' = Assets(u, s) + (IF u = a THEN q ELSE 0)
                                            - (IF u = b THEN q ELSE 0)
    <2>1. PICK a \in Users, b \in Users, q \in Nat : \A u \in Users :
            Assets(u, s)' = Assets(u, s) + (IF u = a THEN q ELSE 0)
                                         - (IF u = b THEN q ELSE 0)
      BY <1>5
    <2>2. Transfers(f, g, Users, a, b, q)
      BY <1>2, <2>1 DEF Transfers
    <2>3. q \in Int /\ \A u \in Users : f[u] \in Int
      BY <1>2
    <2> HIDE DEF f, g
    <2>4. SumFunctionOnSet(g, Users) = SumFunctionOnSet(f, Users)
      BY <2>2, <2>3, SumTransfer
    <2> QED
      BY <1>1, <2>4 DEF g
  <1> QED
    BY <1>3, <1>4, <1>5 DEF AssetsMove

\* No asset is created or destroyed, whatever clients submit: limit orders,
\* market orders and stray messages of type Deposit (settle_trade, the refunds
\* and the unlocks of risk.rs take from locked what they add to available).
THEOREM AssetsStayConserved == XSpec => []AssetsConserved
  BY BookInvInit, BookInvNext, CoveredInit, CoveredNext, ConservedInit, ConservedNext, PTL
     DEF XSpec
-----------------------------------------------------------------------------
(* Dollars, when every order is a limit order whose side can be read.  A     *)
(* market order that buys below its bound is refunded the difference twice,  *)
(* an order with any other side is unlocked in dollars it never locked (see  *)
(* the README), and one of type Deposit may pay more than it locked.         *)

\* Clients send limit orders and cancellations.
OnlyLimitOrders == OrderTypes \subseteq {"Limit"}

\* The inductive invariant for limit orders: locked funds are exactly accounted
\* for, at every step of every call.
LimitInv == BookInv /\ AssetsCovered /\ TradesHaveSides /\ UsdExact /\ AssetsExact

\* Arithmetic of prices and quantities.
LEMMA TimesMinus ==
  ASSUME NEW a \in Nat, NEW b \in Nat, NEW c \in Nat
  PROVE  a * (b - c) = a * b - a * c
  OBVIOUS

LEMMA TimesGrows ==
  ASSUME NEW a \in Nat, NEW b \in Nat, NEW c \in Nat, a <= b
  PROVE  a * c <= c * b
  OBVIOUS

\* Every order is a limit order.
LEMMA IsLimit ==
  ASSUME OnlyLimitOrders, NEW o \in Order
  PROVE  o.order_type = "Limit"
  BY DEF OnlyLimitOrders, Order

\* Its side is what it says it is.
LEMMA SideIsRead ==
  ASSUME SidesAreReadable, NEW o \in Order
  PROVE  o.side \in Side /\ SideOf(o) = o.side
  BY DEF SidesAreReadable, Order, Side, SideOf

\* With nothing to settle no limit price matters.
NothingIsDue ==
  trades = << >> /\ settled = 0 => \A u : Due(UsdReleased(u, order.price)) = 0

LEMMA NoTradesDue == NothingIsDue
  <1> SUFFICES ASSUME trades = << >>, settled = 0, NEW u
               PROVE  Due(UsdReleased(u, order.price)) = 0
    BY DEF NothingIsDue
  <1>1. Len(<< >>) = 0
    OBVIOUS
  <1>2. Unsettled = {}
    BY <1>1 DEF Unsettled
  <1> QED
    BY <1>2, SumEmpty DEF Due

\* The parts of a user's locked dollars are numbers.
LEMMA UsdParts ==
  ASSUME BookInv, NEW u \in Users
  PROVE  /\ Booked(UsdOf(u)) \in Nat /\ InTheHand(UsdOf(u)) \in Nat
         /\ Due(UsdReleased(u, order.price)) \in Nat
         /\ usd_locked[u] \in Nat /\ usd_available[u] \in Nat
  <1>1. IsMargin(UsdOf(u))
    BY UsdOfIsMargin
  <1>2. Due(UsdReleased(u, order.price)) \in Nat
    <2>1. CASE phase \in {"matching", "done"}
      <3>1. order.price \in Nat
        BY <2>1, BookInvTerms, OrderTerms
      <3>2. IsValue(UsdReleased(u, order.price))
        BY <3>1, UsdReleasedIsValue
      <3> QED
        BY <3>2, BookInvTerms, DueIsNat
    <2>2. CASE phase \in {"idle", "cancelled"}
      <3>1. Due(UsdReleased(u, order.price)) = 0
        BY <2>2, BookInvTerms, NoTradesDue DEF NothingIsDue
      <3> QED
        BY <3>1
    <2> QED
      BY <2>1, <2>2, BookInvTerms
  <1>3. usd_locked[u] \in Nat /\ usd_available[u] \in Nat
    BY BookInvTerms DEF RiskTypeOK
  <1> QED
    BY <1>1, <1>2, <1>3, HeldIsNat

\* What is locked is enough for each of the parts.
LEMMA UsdSuffices ==
  ASSUME BookInv, UsdExact, NEW u \in Users
  PROVE  /\ usd_locked[u] = Booked(UsdOf(u)) + InTheHand(UsdOf(u))
                              + Due(UsdReleased(u, order.price))
         /\ InTheHand(UsdOf(u)) <= usd_locked[u]
         /\ Due(UsdReleased(u, order.price)) <= usd_locked[u]
  <1>1. UsdSlack(u) = 0
    BY DEF UsdExact
  <1> QED
    BY <1>1, UsdParts DEF UsdSlack

\* A step after which what is locked is again the sum of the parts.
UsdBalances(u) ==
  /\ UsdSlack(u)' = 0
  /\ Usd(u)' = Usd(u)

\* A submission locks exactly what the order in hand then holds.
LEMMA UsdAccept ==
  ASSUME BookInv, UsdExact, NEW o \in Submissions, AcceptOrder(o), NEW u \in Users
  PROVE  UsdBalances(u)
  <1> DEFINE M == UsdOf(u)
  <1>1. o \in Order /\ Submit(o) /\ LockFunds(o) /\ settled' = settled /\ UNCHANGED trades
        /\ phase = "idle"
    BY DEF AcceptOrder, Submit, tally, Submissions, Order
  <1>2. /\ Booked(M)' = Booked(M) /\ InTheHand(M) = 0 /\ InTheHand(M)' = M[o]
    BY <1>1, BookInvTerms, SubmitBooked, UsdOfIsMargin
  <1>3. trades = << >> /\ settled = 0
    BY <1>1, BookInvTerms
  <1>4. Due(UsdReleased(u, order.price)) = 0
    BY <1>3, NoTradesDue DEF NothingIsDue
  <1>5. Due(UsdReleased(u, order.price))' = 0
    <2>1. NothingIsDue'
      BY NoTradesDue, PTL
    <2> QED
      BY <1>1, <1>3, <2>1 DEF NothingIsDue
  <1>6. usd_locked'[u] = usd_locked[u] + M[o] /\ Usd(u)' = Usd(u)
    BY <1>1, BookInvTerms, LockUsd
  <1>7. M[o] \in Nat /\ Booked(M) \in Nat /\ usd_locked[u] = Booked(M)
    BY <1>1, <1>2, <1>4, UsdOfIsMargin, UsdParts, UsdSuffices DEF IsMargin
  <1> HIDE DEF M
  <1>8. usd_locked'[u] - (Booked(M)' + InTheHand(M)' + Due(UsdReleased(u, order.price))') = 0
    BY <1>2, <1>5, <1>6, <1>7
  <1> QED
    BY <1>6, <1>8 DEF UsdSlack, UsdBalances, M

\* Margin that moves between the book and the hand stays locked.
LEMMA UsdMove ==
  ASSUME BookInv, UsdExact, UNCHANGED <<usd_locked, usd_available>>,
         NEW u \in Users,
         (Booked(UsdOf(u)) + InTheHand(UsdOf(u)))' = Booked(UsdOf(u)) + InTheHand(UsdOf(u)),
         Due(UsdReleased(u, order.price))' = Due(UsdReleased(u, order.price))
  PROVE  UsdBalances(u)
  <1>1. UsdSlack(u)' = UsdSlack(u)
    BY DEF UsdSlack
  <1>2. UsdSlack(u) = 0
    BY DEF UsdExact
  <1> QED
    BY <1>1, <1>2 DEF UsdBalances, Usd

\* A fill: the buyer's margin for the quantity, at the price it was locked at,
\* becomes due.
LEMMA UsdFill ==
  ASSUME SidesAreReadable, BookInv, UsdExact, NEW m \in resting, FillPartial(m) \/ FillWhole(m),
         UNCHANGED <<usd_locked, usd_available, settled>>, NEW u \in Users
  PROVE  UsdBalances(u)
  <1>0. PICK p : p = order.price
    OBVIOUS
  <1> DEFINE M == UsdOf(u)
             T == UsdReleased(u, p)
             q == Taken(m)
             t == TradeBetween(order, m, q)
  <1>1. /\ q \in 1..MaxQty /\ q <= m.qty /\ q <= order.qty
        /\ m \in Order /\ order \in Order
        /\ Less(m, q) \in Order /\ Less(order, q) \in Order
        /\ order' = Less(order, q) /\ t \in Trade /\ trades' = Append(trades, t)
        /\ m.side = OtherSide(order.side) /\ m.user_id # order.user_id
        /\ Held /\ Held'
    BY BookInvTerms, FillTerms, SideIsRead
  <1>2. Booked(M)' = Booked(M) - M[m] + M[Less(m, q)]
    <2>1. TypeInv /\ IsFiniteSet(resting) /\ IsMargin(M)
      BY UsdOfIsMargin DEF BookInv, XInv
    <2> QED
      BY <2>1, FillBooked
  <1>3. InTheHand(M) = M[order] /\ InTheHand(M)' = M[Less(order, q)]
    BY <1>1 DEF InTheHand
  <1>4. p \in Nat /\ order'.price = p
    BY <1>0, <1>1, OrderTerms DEF Less, Order
  <1>5. IsValue(T)
    BY <1>4, UsdReleasedIsValue
  <1>6. Due(T)' = Due(T) + T[t]
    <2> HIDE DEF T, t
    <2> QED
      BY <1>1, <1>5, BookInvTerms, DueGrows
  <1>7. M[m] + M[order] = M[Less(m, q)] + M[Less(order, q)] + T[t]
    <2>1. \A o \in Order : /\ o.qty \in Nat /\ o.price \in Nat /\ o.side \in Side
                           /\ M[o] = IF o.user_id = u /\ o.side = "Buy"
                                     THEN o.price * o.qty ELSE 0
      BY OrderTerms, SideIsRead DEF UsdOf, UsdMargin
    <2>2. q \in Nat
      BY <1>1
    <2>3. \A o \in Order : /\ Less(o, q).user_id = o.user_id /\ Less(o, q).side = o.side
                           /\ Less(o, q).price * Less(o, q).qty
                                = o.price * o.qty - o.price * q
      <3>1. ASSUME NEW o \in Order
            PROVE  /\ Less(o, q).user_id = o.user_id /\ Less(o, q).side = o.side
                   /\ Less(o, q).price = o.price /\ Less(o, q).qty = o.qty - q
        BY DEF Less, Order
      <3>2. \A o \in Order : o.price * (o.qty - q) = o.price * o.qty - o.price * q
        BY <2>1, <2>2, TimesMinus
      <3> QED
        BY <3>1, <3>2
    <2>4. /\ t.buyer_id = IF order.side = "Buy" THEN order.user_id ELSE m.user_id
          /\ t.maker_user_id = m.user_id /\ t.price = m.price /\ t.qty = q
      BY DEF TradeBetween
    <2>5. T[t] = IF t.buyer_id = u
                 THEN q * (IF t.buyer_id = m.user_id THEN m.price ELSE p) ELSE 0
      BY <1>1, <2>4 DEF UsdReleased
    <2>6. \A o \in Order : q * o.price = o.price * q /\ o.price * q \in Nat
      BY <2>1, <2>2, ProductIsNat
    <2>7. \A o \in Order : o.price * o.qty \in Nat
      BY <2>1, ProductIsNat
    <2> HIDE DEF M, T, t, q
    <2>8. CASE order.side = "Buy"
      <3>1. m.side = "Sell"
        BY <1>1, <2>8 DEF OtherSide
      <3>2. M[m] = 0 /\ M[Less(m, q)] = 0
        BY <1>1, <2>1, <2>3, <3>1
      <3>3. T[t] = IF order.user_id = u THEN order.price * q ELSE 0
        BY <1>0, <1>1, <2>4, <2>5, <2>6, <2>8
      <3>4. M[order] = (IF order.user_id = u THEN order.price * order.qty ELSE 0)
            /\ M[Less(order, q)] = (IF order.user_id = u
                                    THEN order.price * order.qty - order.price * q ELSE 0)
        BY <1>1, <2>1, <2>3, <2>8
      <3>5. order.price * order.qty \in Nat /\ order.price * q \in Nat
        BY <1>1, <2>6, <2>7
      <3> QED
        BY ONLY <3>2, <3>3, <3>4, <3>5
    <2>9. CASE order.side = "Sell"
      <3>1. m.side = "Buy"
        BY <1>1, <2>9 DEF OtherSide
      <3>2. M[order] = 0 /\ M[Less(order, q)] = 0
        BY <1>1, <2>1, <2>3, <2>9
      <3>3. T[t] = IF m.user_id = u THEN m.price * q ELSE 0
        BY <1>1, <2>4, <2>5, <2>6, <2>9
      <3>4. M[m] = (IF m.user_id = u THEN m.price * m.qty ELSE 0)
            /\ M[Less(m, q)] = (IF m.user_id = u
                                THEN m.price * m.qty - m.price * q ELSE 0)
        BY <1>1, <2>1, <2>3, <3>1
      <3>5. m.price * m.qty \in Nat /\ m.price * q \in Nat
        BY <1>1, <2>6, <2>7
      <3> QED
        BY ONLY <3>2, <3>3, <3>4, <3>5
    <2> QED
      BY <1>1, <2>1, <2>8, <2>9 DEF Side
  <1>8. /\ M[m] \in Nat /\ M[order] \in Nat /\ M[Less(m, q)] \in Nat
        /\ M[Less(order, q)] \in Nat /\ T[t] \in Nat
    BY <1>1, <1>5, UsdOfIsMargin DEF IsMargin, IsValue
  <1>9. usd_locked'[u] = Booked(M) + InTheHand(M) + Due(T) /\ Usd(u)' = Usd(u)
        /\ Booked(M) \in Nat /\ Due(T) \in Nat
    BY <1>0, UsdSuffices, UsdParts DEF Usd
  <1>10. UsdSlack(u)' = usd_locked'[u] - (Booked(M)' + InTheHand(M)' + Due(T)')
    BY <1>4 DEF UsdSlack, Due
  <1> HIDE DEF M, T, t, q
  <1>11. usd_locked'[u] - (Booked(M)' + InTheHand(M)' + Due(T)') = 0
    BY ONLY <1>2, <1>3, <1>6, <1>7, <1>8, <1>9
  <1> QED
    BY <1>9, <1>10, <1>11 DEF UsdBalances

\* A settlement releases what was locked for the trade, and that is no less
\* than the trade costs.
LEMMA UsdSettle ==
  ASSUME LimitInv, OnlyLimitOrders, SettleNext, NEW u \in Users
  PROVE  LET t == trades[settled + 1]
         IN  /\ UsdSlack(u)' = 0
             /\ Usd(u)' = Usd(u) + (IF u = t.buyer_id THEN -(t.price * t.qty)
                                    ELSE IF u = t.seller_id THEN t.price * t.qty ELSE 0)
  <1>1. PICK t : t = trades[settled + 1]
    OBVIOUS
  <1>0. PICK p : p = order.price
    OBVIOUS
  <1>2. /\ settled < Len(trades) /\ settled' = settled + 1 /\ trades' = trades
        /\ SettleTrade(t, p) /\ UNCHANGED vars /\ order' = order /\ phase = "done"
        /\ settled \in Nat /\ trades \in Seq(Trade)
    BY <1>0, <1>1, BookInvTerms DEF LimitInv, SettleNext, vars
  <1>3. t \in Trade /\ p \in Nat /\ order \in Order /\ settled + 1 \in 1..Len(trades)
    BY <1>0, <1>1, <1>2, BookInvTerms, OrderTerms DEF LimitInv
  <1>4. ASSUME NEW v \in Users
        PROVE  UsdReleased(v, p)[t] <= usd_locked[v] /\ UsdReleased(v, p)[t] \in Nat
    <2>1. IsValue(UsdReleased(v, p))
      BY <1>3, UsdReleasedIsValue
    <2>2. UsdReleased(v, p)[t] <= Due(UsdReleased(v, p))
      BY <1>1, <1>2, <2>1, NextIsDue
    <2>3. UsdReleased(v, p)[t] \in Nat
      BY <1>3, <2>1 DEF IsValue
    <2>4. Due(UsdReleased(v, p)) <= usd_locked[v] /\ Due(UsdReleased(v, p)) \in Nat
          /\ usd_locked[v] \in Nat
      BY <1>0, UsdSuffices, UsdParts DEF LimitInv
    <2> QED
      BY <2>2, <2>3, <2>4
  <1>5. t.buyer_id \in Users /\ t.price \in Nat /\ t.qty \in Nat
    BY <1>3, TradeTerms
  <1>6. t.buyer_id # t.seller_id /\ Crosses(order, t.price)
    BY <1>1, <1>3, CrossesMeans DEF LimitInv, BookInv, FairInv, TradesAreFair
  <1>7. t.price * t.qty <= UsdReleased(t.buyer_id, p)[t]
    <2>1. UsdReleased(t.buyer_id, p)[t]
            = t.qty * (IF t.buyer_id = t.maker_user_id THEN t.price ELSE p)
      BY <1>3 DEF UsdReleased
    <2>2. CASE t.buyer_id = t.maker_user_id
      <3>1. t.price * t.qty <= t.qty * t.price
        BY <1>5, TimesGrows
      <3> QED
        BY <2>1, <2>2, <3>1
    <2>3. CASE t.buyer_id # t.maker_user_id
      <3>1. order.side = "Buy"
        BY <1>1, <1>3, <2>3 DEF LimitInv, TradesHaveSides
      <3>2. t.price <= p
        BY <1>0, <1>3, <1>6, <3>1, IsLimit DEF Crosses, HasBoundary, SideOf
      <3>3. t.price * t.qty <= t.qty * p
        BY <1>3, <1>5, <3>2, TimesGrows
      <3> QED
        BY <2>1, <2>3, <3>3
    <2> QED
      BY <2>2, <2>3
  <1>8. /\ usd_locked'[u] = usd_locked[u] - UsdReleased(u, p)[t]
        /\ Usd(u)' = Usd(u) + (IF u = t.buyer_id THEN -(t.price * t.qty)
                               ELSE IF u = t.seller_id THEN t.price * t.qty ELSE 0)
    BY <1>2, <1>3, <1>4, <1>5, <1>6, <1>7, BookInvTerms, SettleUsd DEF LimitInv
  <1> DEFINE M == UsdOf(u)
             T == UsdReleased(u, p)
  <1>9. Booked(M)' = Booked(M) /\ InTheHand(M)' = InTheHand(M)
    BY <1>2 DEF vars, Booked, InTheHand, Held
  <1>10. Due(T)' = Due(T) - T[t]
    <2>1. IsValue(T)
      BY <1>3, UsdReleasedIsValue
    <2> HIDE DEF T
    <2> QED
      BY <1>1, <1>2, <2>1, DueShrinks
  <1>11. /\ usd_locked[u] = Booked(M) + InTheHand(M) + Due(T)
         /\ Booked(M) \in Nat /\ InTheHand(M) \in Nat /\ Due(T) \in Nat /\ T[t] \in Nat
    BY <1>0, <1>4, UsdSuffices, UsdParts DEF LimitInv
  <1>12. UsdSlack(u)' = usd_locked'[u] - (Booked(M)' + InTheHand(M)' + Due(T)')
    BY <1>0, <1>2 DEF UsdSlack, Due
  <1>13. usd_locked'[u] = usd_locked[u] - T[t]
    BY <1>8
  <1> HIDE DEF M, T
  <1>14. usd_locked'[u] - (Booked(M)' + InTheHand(M)' + Due(T)') = 0
    BY ONLY <1>9, <1>10, <1>11, <1>13
  <1> QED
    BY <1>1, <1>8, <1>12, <1>14

\* A return gives up the margin that was in hand.
LEMMA UsdReturn ==
  ASSUME BookInv, UsdExact, Returns, NEW u \in Users,
         usd_locked'[u] = usd_locked[u] - InTheHand(UsdOf(u)), Usd(u)' = Usd(u)
  PROVE  UsdBalances(u)
  <1> DEFINE M == UsdOf(u)
  <1>1. Booked(M)' = Booked(M) /\ InTheHand(M)' = 0
    BY ReturnBooked DEF Returns
  <1>2. Due(UsdReleased(u, order.price))' = 0
    <2>1. NothingIsDue'
      BY NoTradesDue, PTL
    <2>2. trades' = << >> /\ settled' = 0
      BY DEF Returns, Return
    <2> QED
      BY <2>1, <2>2 DEF NothingIsDue
  <1>3. Due(UsdReleased(u, order.price)) = 0
    BY BookInvTerms, NothingDue DEF Returns
  <1>4. usd_locked[u] = Booked(M) + InTheHand(M)
        /\ Booked(M) \in Nat /\ InTheHand(M) \in Nat
    BY <1>3, UsdSuffices, UsdParts
  <1> HIDE DEF M
  <1>5. usd_locked'[u] - (Booked(M)' + InTheHand(M)' + Due(UsdReleased(u, order.price))') = 0
    BY <1>1, <1>2, <1>4 DEF M
  <1> QED
    BY <1>5 DEF UsdBalances, UsdSlack, M

\* A return unlocks the dollars of the order's remainder.
UsdGives ==
  IF SideOf(order) = "Sell" THEN UNCHANGED usd
                            ELSE UnlockUsd(order.user_id, order.price * order.qty)

LEMMA UsdGive ==
  ASSUME SidesAreReadable, BookInv, UsdExact, Returns, Held, UsdGives, NEW u \in Users
  PROVE  UsdBalances(u)
  <1>1. /\ order \in Order /\ RiskTypeOK /\ order.user_id \in Users
        /\ order.side \in Side /\ SideOf(order) = order.side
    BY BookInvTerms, SideIsRead, OrderIsNat
  <1>2. InTheHand(UsdOf(u)) = UsdOf(u)[order]
    BY DEF InTheHand
  <1>3. usd_locked'[u] = usd_locked[u] - UsdOf(u)[order] /\ Usd(u)' = Usd(u)
    <2>1. CASE order.side = "Sell"
      BY <1>1, <2>1, SameUsd DEF UsdGives
    <2>2. CASE order.side = "Buy"
      <3>1. UsdOf(order.user_id)[order] = order.price * order.qty
        BY <1>1, <2>2 DEF UsdOf, UsdMargin
      <3>2. InTheHand(UsdOf(order.user_id)) = order.price * order.qty
        BY <3>1 DEF InTheHand
      <3>3. order.price * order.qty <= usd_locked[order.user_id]
        BY <1>1, <3>2, UsdSuffices
      <3>4. UnlockUsd(order.user_id, order.price * order.qty)
        BY <1>1, <2>2 DEF UsdGives
      <3> QED
        BY <1>1, <2>2, <3>3, <3>4, UnlockOneUsd
    <2> QED
      BY <1>1, <2>1, <2>2 DEF Side
  <1> QED
    BY <1>2, <1>3, UsdReturn

\* Every refusal, self-trade stop and cancellation does.
LEMMA ReturnsGiveUsd ==
  ASSUME BookInv, ReturnSelfTrade \/ ReturnFull \/ ReturnCancelOk
  PROVE  Returns /\ Held /\ UsdGives
  <1>1. CASE ReturnCancelOk
    <2>1. Returns /\ phase = "cancelled" /\ result.error = "None"
          /\ UnlockFunds(order, order.qty)
      BY <1>1, CancelReturns DEF ReturnCancelOk
    <2>2. UsdGives
      BY <2>1 DEF UnlockFunds, UnlockAsset, UsdGives, SideOf
    <2> QED
      BY <2>1, <2>2 DEF Held
  <1>2. CASE ReturnSelfTrade \/ ReturnFull
    <2>1. /\ Returns /\ phase = "done" /\ order \in Order
          /\ result.error = "None" => result.remaining_qty = order.qty
          /\ result.error # "None" => original_qty = order.qty
      BY <1>2, CallReturns
    <2>2. SideOf(Submitted) = SideOf(order) /\ Submitted.user_id = order.user_id
          /\ Submitted.price = order.price /\ SideOf(order) \in Side
      BY <2>1 DEF Submitted, Order, SideOf, Side
    <2>3. CASE ReturnSelfTrade
      BY <2>1, <2>2, <2>3
         DEF ReturnSelfTrade, AllSettled, UnlockFunds, UnlockAsset, UsdGives, Held, Side
    <2>4. CASE ReturnFull
      BY <2>1, <2>2, <2>4 DEF ReturnFull, UnlockFunds, UnlockAsset, UsdGives, Held, Side
    <2> QED
      BY <1>2, <2>3, <2>4
  <1> QED
    BY <1>1, <1>2

\* What a step does to a user's dollars (FundsMoveOnlyByTrades).
Gain(u) ==
  LET t == trades[settled + 1]
  IN  IF settled' # settled + 1 THEN 0
      ELSE IF u = t.buyer_id THEN -(t.price * t.qty)
      ELSE IF u = t.seller_id THEN t.price * t.qty ELSE 0

\* Whatever the step, what is locked stays exact and funds move only by trades.
LEMMA UsdNext ==
  ASSUME LimitInv, OnlyLimitOrders, SidesAreReadable, [XNext]_xvars, NEW u \in Users
  PROVE  UsdSlack(u)' = 0 /\ Usd(u)' = Usd(u) + Gain(u)
  <1>0. /\ BookInv /\ UsdExact /\ TypeInv /\ IsFiniteSet(resting) /\ IsMargin(UsdOf(u))
        /\ settled \in Nat /\ Usd(u) \in Int
    BY UsdOfIsMargin, BookInvTerms, UsdParts DEF LimitInv, BookInv, XInv, Usd
  <1>1. ASSUME UsdBalances(u), settled' # settled + 1
        PROVE  UsdSlack(u)' = 0 /\ Usd(u)' = Usd(u) + Gain(u)
    BY <1>0, <1>1 DEF UsdBalances, Gain
  <1>2. CASE UNCHANGED <<vars, accounts, tally>>
    <2>1. UNCHANGED <<usd_locked, usd_available, settled>>
      BY <1>2 DEF accounts, usd, tally
    <2>2. /\ (Booked(UsdOf(u)) + InTheHand(UsdOf(u)))' = Booked(UsdOf(u)) + InTheHand(UsdOf(u))
          /\ Due(UsdReleased(u, order.price))' = Due(UsdReleased(u, order.price))
      BY <1>2 DEF vars, Booked, InTheHand, Held, Due, Unsettled, tally
    <2> QED
      BY <1>0, <1>1, <2>1, <2>2, UsdMove
  <1>3. CASE \E o \in Submissions : AcceptOrder(o)
    <2>1. settled' # settled + 1
      BY <1>0, <1>3 DEF AcceptOrder, tally
    <2> QED
      BY <1>0, <1>1, <1>3, <2>1, UsdAccept
  <1>4. CASE CancelStep
    <2>1. CancelAny /\ UNCHANGED <<usd_locked, usd_available, settled>>
      BY <1>4 DEF CancelStep, accounts, usd, tally
    <2>2. /\ (Booked(UsdOf(u)) + InTheHand(UsdOf(u)))' = Booked(UsdOf(u)) + InTheHand(UsdOf(u))
          /\ UNCHANGED trades /\ phase = "idle"
      BY <1>0, <2>1, CancelBooked
    <2>3. Due(UsdReleased(u, order.price))' = Due(UsdReleased(u, order.price))
      <3>1. trades = << >> /\ settled = 0
        BY <1>0, <2>2, BookInvTerms
      <3>2. NothingIsDue'
        BY NoTradesDue, PTL
      <3> QED
        BY <2>1, <2>2, <3>1, <3>2, NoTradesDue DEF NothingIsDue
    <2> QED
      BY <1>0, <1>1, <2>1, <2>2, <2>3, UsdMove
  <1>5. CASE MatchStep
    <2>1. UNCHANGED <<usd_locked, usd_available, settled>>
      BY <1>5, FillIsMatch DEF usd
    <2>2. CASE \E m \in resting : FillPartial(m) \/ FillWhole(m)
      BY <1>0, <1>1, <2>1, <2>2, UsdFill
    <2>3. CASE Finish \/ Rest \/ RejectFull \/ \E m \in resting : SelfTrade(m)
      <3>1. /\ (Booked(UsdOf(u)) + InTheHand(UsdOf(u)))'
                 = Booked(UsdOf(u)) + InTheHand(UsdOf(u))
            /\ UNCHANGED <<order, trades>>
        BY <1>0, <2>3, AnswerBooked
      <3>2. Due(UsdReleased(u, order.price))' = Due(UsdReleased(u, order.price))
        BY <2>1, <3>1 DEF Due, Unsettled
      <3> QED
        BY <1>0, <1>1, <2>1, <3>1, <3>2, UsdMove
    <2> QED
      BY <1>5, <2>2, <2>3, FillIsMatch
  <1>6. CASE SettleNext
    <2>1. settled' = settled + 1
      BY <1>6 DEF SettleNext
    <2> QED
      BY <1>6, <2>1, UsdSettle DEF Gain
  <1>7. CASE ReturnLimit \/ ReturnCancelRejected
    <2>1. Returns /\ ~Held /\ UNCHANGED <<usd_locked, usd_available>>
      <3>1. CASE ReturnLimit
        <4>1. Returns /\ order \in Order
          BY <1>0, <3>1, CallReturns
        <4> QED
          BY <3>1, <4>1, IsLimit DEF ReturnLimit, AllSettled, Held, accounts, usd
      <3>2. CASE ReturnCancelRejected
        BY <1>0, <3>2, CancelReturns DEF ReturnCancelRejected, Held, accounts, usd
      <3> QED
        BY <1>7, <3>1, <3>2
    <2>2. usd_locked'[u] = usd_locked[u] - InTheHand(UsdOf(u)) /\ Usd(u)' = Usd(u)
      BY <1>0, <2>1, UsdParts DEF InTheHand, Usd
    <2>3. settled' # settled + 1
      BY <1>0, <2>1 DEF Returns
    <2> QED
      BY <1>0, <1>1, <2>1, <2>2, <2>3, UsdReturn
  <1>8. CASE ReturnSelfTrade \/ ReturnFull \/ ReturnCancelOk
    <2>1. Returns /\ Held /\ UsdGives
      BY <1>0, <1>8, ReturnsGiveUsd
    <2>2. settled' # settled + 1
      BY <1>0, <2>1 DEF Returns
    <2> QED
      BY <1>0, <1>1, <2>1, <2>2, UsdGive
  <1>9. CASE ReturnMarket
    <2>1. order \in Order /\ order.order_type = "Market"
      BY <1>0, <1>9, CallReturns DEF ReturnMarket
    <2> QED
      BY <2>1, IsLimit
  <1>10. CASE UNCHANGED xvars \/ \E o \in Submissions : RejectOrder(o)
    BY <1>2, <1>10 DEF xvars, RejectOrder
  <1> QED
    BY <1>3, <1>4, <1>5, <1>6, <1>7, <1>8, <1>9, <1>10 DEF XNext, EngineStep
-----------------------------------------------------------------------------
(* The limit-order theorems. *)

\* A trade's sides are fixed when it is made, and its order's side does not
\* change in the call.
LEMMA SidesFill ==
  ASSUME TypeInv, TradesHaveSides, NEW m \in resting, FillPartial(m) \/ FillWhole(m)
  PROVE  TradesHaveSides'
  <1> DEFINE t == TradeBetween(order, m, Taken(m))
  <1>1. /\ t \in Trade /\ trades' = Append(trades, t) /\ order \in Order
        /\ order' = Less(order, Taken(m)) /\ trades \in Seq(Trade)
    BY FillTerms DEF TypeInv, TypeOK
  <1>2. order'.side = order.side
    BY <1>1 DEF Less, Order
  <1>3. order.side # "Buy" => t.buyer_id = t.maker_user_id
    BY DEF TradeBetween
  <1> HIDE DEF t
  <1>4. SUFFICES ASSUME NEW i \in 1..Len(trades'), order.side # "Buy"
                 PROVE  trades'[i].buyer_id = trades'[i].maker_user_id
    BY <1>2 DEF TradesHaveSides
  <1>5. CASE i = Len(trades) + 1
    BY <1>1, <1>3, <1>4, <1>5
  <1>6. CASE i \in 1..Len(trades)
    <2>1. trades'[i] = trades[i]
      BY <1>1, <1>6
    <2> QED
      BY <1>4, <1>6, <2>1 DEF TradesHaveSides
  <1> QED
    BY <1>1, <1>5, <1>6

\* So the sides of the trades stay as they were made.
LEMMA SidesNext == BookInv /\ TradesHaveSides /\ [XNext]_xvars => TradesHaveSides'
  <1> SUFFICES ASSUME BookInv, TradesHaveSides, [XNext]_xvars PROVE TradesHaveSides'
    OBVIOUS
  <1>1. TypeInv /\ IsFiniteSet(resting) /\ IsMargin(AssetOf(0, 0))
    BY AssetOfIsMargin DEF BookInv, XInv
  <1>2. ASSUME trades' = << >> PROVE TradesHaveSides'
    <2>1. Len(trades') = 0
      BY <1>2
    <2> QED
      BY <2>1 DEF TradesHaveSides
  <1>3. CASE UNCHANGED <<order, trades>>
    BY <1>3 DEF TradesHaveSides
  <1>4. CASE \E o \in Submissions : AcceptOrder(o)
    <2>1. trades = << >> /\ UNCHANGED trades
      BY <1>4, BookInvTerms DEF AcceptOrder, Submit
    <2> QED
      BY <1>2, <2>1
  <1>5. CASE CancelStep
    <2>1. CancelAny
      BY <1>5 DEF CancelStep
    <2>2. phase = "idle" /\ UNCHANGED trades
      BY <1>1, <2>1, CancelBooked
    <2> QED
      BY <1>2, <2>2, BookInvTerms
  <1>6. CASE MatchStep
    <2>1. ASSUME Finish \/ Rest \/ RejectFull \/ \E m \in resting : SelfTrade(m)
          PROVE  UNCHANGED <<order, trades>>
      BY <1>1, <2>1, AnswerBooked
    <2> QED
      BY <1>1, <1>3, <1>6, <2>1, SidesFill, FillIsMatch
  <1>7. CASE SettleNext
    BY <1>3, <1>7 DEF SettleNext, vars
  <1>8. CASE \/ ReturnLimit \/ ReturnSelfTrade \/ ReturnMarket \/ ReturnFull
             \/ ReturnCancelOk \/ ReturnCancelRejected
    <2>1. Return
      BY <1>8 DEF ReturnLimit, ReturnSelfTrade, ReturnMarket, ReturnFull,
         ReturnCancelOk, ReturnCancelRejected
    <2> QED
      BY <1>2, <2>1 DEF Return
  <1>9. CASE UNCHANGED xvars \/ \E o \in Submissions : RejectOrder(o)
    BY <1>3, <1>9 DEF xvars, vars, RejectOrder
  <1> QED
    BY <1>4, <1>5, <1>6, <1>7, <1>8, <1>9 DEF XNext, EngineStep

\* The invariant holds at the start and every step preserves it.
LEMMA LimitInvInit == XInit => LimitInv
  <1> SUFFICES ASSUME XInit PROVE LimitInv
    OBVIOUS
  <1>1. Len(<< >>) = 0
    OBVIOUS
  <1>2. TradesHaveSides
    BY <1>1 DEF XInit, Init, TradesHaveSides
  <1> QED
    BY <1>2, BookInvInit, CoveredInit, StartsExact DEF LimitInv

LEMMA LimitInvNext ==
  OnlyLimitOrders /\ SidesAreReadable /\ LimitInv /\ [XNext]_xvars => LimitInv'
  <1> SUFFICES ASSUME OnlyLimitOrders, SidesAreReadable, LimitInv, [XNext]_xvars
               PROVE  LimitInv'
    OBVIOUS
  <1>1. BookInv' /\ AssetsCovered' /\ TradesHaveSides'
    BY BookInvNext, CoveredNext, SidesNext DEF LimitInv
  <1>2. UsdExact'
    <2>1. \A u \in Users : UsdSlack(u)' = 0
      BY UsdNext
    <2> QED
      BY <2>1 DEF UsdExact
  <1>3. AssetsExact'
    <2>1. PlainOrders
      BY DEF OnlyLimitOrders, PlainOrders
    <2>2. \A u \in Users, s \in Symbols : AssetSlack(u, s)' = AssetSlack(u, s)
      BY <2>1, AssetsNext DEF LimitInv
    <2> QED
      BY <2>2 DEF LimitInv, AssetsExact
  <1> QED
    BY <1>1, <1>2, <1>3 DEF LimitInv

\* The dollar margin of one user's orders, counted over the books.
LEMMA RestingUsdIsBooked ==
  ASSUME BookInv, NEW u \in Users
  PROVE  RestingUsd(u) = Booked(UsdOf(u))
  <1> DEFINE f == UsdOf(u)
             g == [o \in resting |-> UsdMargin(o)]
             T == {o \in resting : o.user_id = u}
  <1>1. IsFiniteSet(resting) /\ resting \in SUBSET Order
    BY DEF BookInv, XInv, TypeInv, TypeOK
  <1>2. T \in SUBSET resting
    OBVIOUS
  <1>3. \A o \in resting : f[o] \in Int
    BY <1>1, UsdOfIsMargin DEF IsMargin
  <1>4. \A o \in T : g[o] = f[o]
    BY <1>1 DEF UsdOf
  <1>5. \A o \in resting \ T : f[o] = 0
    BY <1>1 DEF UsdOf
  <1> HIDE DEF f, g, T
  <1>6. SumFunctionOnSet(f, resting) = SumFunctionOnSet(g, T)
    BY <1>1, <1>2, <1>3, <1>4, <1>5, SumFiltered
  <1> QED
    BY <1>6 DEF RestingUsd, Booked, f, g, T

\* Between messages the engine thread has locked exactly the margin of the
\* orders that rest, in dollars and in assets: partial fills, price
\* improvement, self-trade stops, refusals and cancellations leave nothing
\* trapped and nothing uncovered, when every order is a limit order whose side
\* is Buy or Sell.  Without either hypothesis it is false of the code: see
\* NothingTrapped for the side, UsdConserved for market orders.
THEOREM LockedStaysMargin ==
  OnlyLimitOrders /\ SidesAreReadable => (XSpec => []LockedIsMargin)
  <1> SUFFICES ASSUME OnlyLimitOrders, SidesAreReadable PROVE XSpec => []LockedIsMargin
    OBVIOUS
  <1>1. LimitInv => LockedIsMargin
    <2> SUFFICES ASSUME LimitInv, phase = "idle", NEW u \in Users
                 PROVE  /\ usd_locked[u] = RestingUsd(u)
                        /\ \A s \in Symbols : asset_locked[<<u, s>>] = RestingAssets(u, s)
      BY DEF LockedIsMargin
    <2>1. BookInv /\ UsdExact /\ AssetsExact /\ trades = << >> /\ settled = 0 /\ ~Held
      BY BookInvTerms DEF LimitInv, Held
    <2>2. usd_locked[u] = RestingUsd(u)
      <3>1. InTheHand(UsdOf(u)) = 0 /\ Due(UsdReleased(u, order.price)) = 0
        BY <2>1, NoTradesDue DEF InTheHand, NothingIsDue
      <3>2. usd_locked[u] = Booked(UsdOf(u)) + InTheHand(UsdOf(u))
                              + Due(UsdReleased(u, order.price))
            /\ Booked(UsdOf(u)) \in Nat
        BY <2>1, UsdSuffices, UsdParts
      <3> QED
        BY <2>1, <3>1, <3>2, RestingUsdIsBooked
    <2>3. ASSUME NEW s \in Symbols
          PROVE  asset_locked[<<u, s>>] = RestingAssets(u, s)
      <3>1. InTheHand(AssetOf(u, s)) = 0
        BY <2>1 DEF InTheHand
      <3>2. Due(AssetsSold(u, s)) = 0
        <4>1. trades \in Seq(Trade) /\ settled = Len(trades)
          BY <2>1, BookInvTerms
        <4> QED
          BY <4>1, NothingDue
      <3>3. AssetSlack(u, s) = 0 /\ Booked(AssetOf(u, s)) \in Nat
            /\ asset_locked[<<u, s>>] \in Nat
        BY <2>1, AssetParts DEF AssetsExact
      <3> QED
        BY <2>1, <3>1, <3>2, <3>3, RestingAssetsIsBooked DEF AssetSlack
    <2> QED
      BY <2>2, <2>3
  <1> QED
    BY <1>1, LimitInvInit, LimitInvNext, PTL DEF XSpec

\* With limit orders whose side can be read, the dollars a user owns change
\* when a trade is settled and then by its price times its quantity, never by a
\* lock, an unlock or the refund of a price improvement (settle_trade,
\* unlock_order_funds).  Cancelling an order with any other side byte credits
\* dollars with no trade.
THEOREM FundsOnlyMoveByTrades ==
  OnlyLimitOrders /\ SidesAreReadable => (XSpec => FundsMoveOnlyByTrades)
  <1> SUFFICES ASSUME OnlyLimitOrders, SidesAreReadable PROVE XSpec => FundsMoveOnlyByTrades
    OBVIOUS
  <1> DEFINE Moves == \A u \in Users :
               LET t == trades[settled + 1]
                   gain == IF settled' # settled + 1 THEN 0
                           ELSE IF u = t.buyer_id THEN -(t.price * t.qty)
                           ELSE IF u = t.seller_id THEN t.price * t.qty ELSE 0
               IN  Usd(u)' = Usd(u) + gain
  <1>1. LimitInv /\ [XNext]_xvars => Moves
    BY UsdNext DEF Gain
  <1> HIDE DEF Moves
  <1>2. XSpec => [][Moves]_xvars
    BY <1>1, LimitInvInit, LimitInvNext, PTL DEF XSpec
  <1> QED
    BY <1>2 DEF FundsMoveOnlyByTrades, Moves

\* Every user starts with the same dollars.
LEMMA UsdConservedInit == XInit => UsdConserved
  <1> SUFFICES ASSUME XInit PROVE UsdConserved
    OBVIOUS
  <1> DEFINE f == [u \in Users |-> Usd(u)]
  <1>1. \A u \in Users : f[u] = InitialUsd
    BY DEF XInit, RiskInit, Usd
  <1> HIDE DEF f
  <1>2. SumFunctionOnSet(f, Users) = InitialUsd * Cardinality(Users)
    BY <1>1, SumConstant
  <1> QED
    BY <1>2 DEF f, UsdConserved

\* Only the settlement of a trade counts one up.
LEMMA SettlesOnly ==
  ASSUME BookInv, [XNext]_xvars, settled' = settled + 1
  PROVE  SettleNext
  <1>1. settled \in Nat
    BY BookInvTerms
  <1>2. ~(settled' = settled) /\ ~(settled' = 0)
    BY <1>1
  <1> QED
    BY <1>2 DEF XNext, EngineStep, xvars, tally, RejectOrder, AcceptOrder, CancelStep,
       MatchStep, ReturnLimit, ReturnSelfTrade, ReturnMarket, ReturnFull,
       ReturnCancelOk, ReturnCancelRejected, ResetTally

\* What a settlement's buyer pays its seller receives, and they are two users.
LEMMA UsdConservedNext ==
  OnlyLimitOrders /\ SidesAreReadable /\ LimitInv /\ UsdConserved /\ [XNext]_xvars
    => UsdConserved'
  <1> SUFFICES ASSUME OnlyLimitOrders, SidesAreReadable, LimitInv, UsdConserved, [XNext]_xvars
               PROVE  UsdConserved'
    OBVIOUS
  <1> DEFINE f == [u \in Users |-> Usd(u)]
             g == [u \in Users |-> Usd(u)']
  <1>1. SumFunctionOnSet(f, Users) = InitialUsd * Cardinality(Users)
    BY DEF UsdConserved
  <1>2. \A u \in Users : f[u] \in Int /\ g[u] = f[u] + Gain(u)
    BY UsdNext, UsdParts DEF LimitInv, Usd
  <1>3. SumFunctionOnSet(g, Users) = SumFunctionOnSet(f, Users)
    <2>1. CASE settled' # settled + 1
      <3>1. \A u \in Users : f[u] = g[u]
        BY <1>2, <2>1 DEF Gain
      <3> HIDE DEF f, g
      <3> QED
        BY <3>1, SumSame
    <2>2. CASE settled' = settled + 1
      <3>1. SettleNext
        BY <2>2, SettlesOnly DEF LimitInv
      <3>2. PICK t : t = trades[settled + 1]
        OBVIOUS
      <3>3. /\ t.buyer_id \in Users /\ t.seller_id \in Users /\ t.buyer_id # t.seller_id
            /\ t.price * t.qty \in Int
        <4>1. settled + 1 \in 1..Len(trades) /\ trades \in Seq(Trade)
          BY <3>1, BookInvTerms DEF LimitInv, SettleNext
        <4>2. t.buyer_id # t.seller_id
          BY <3>2, <4>1 DEF LimitInv, BookInv, FairInv, TradesAreFair
        <4>3. t \in Trade
          BY <3>2, <4>1
        <4> QED
          BY <4>2, <4>3, TradeTerms, ProductIsNat
      <3>4. Transfers(f, g, Users, t.seller_id, t.buyer_id, t.price * t.qty)
        <4> SUFFICES ASSUME NEW u \in Users
                     PROVE  g[u] = f[u] + (IF u = t.seller_id THEN t.price * t.qty ELSE 0)
                                        - (IF u = t.buyer_id THEN t.price * t.qty ELSE 0)
          BY DEF Transfers
        <4>1. Gain(u) = IF u = t.buyer_id THEN -(t.price * t.qty)
                        ELSE IF u = t.seller_id THEN t.price * t.qty ELSE 0
          BY <2>2, <3>2 DEF Gain
        <4>2. f[u] \in Int /\ g[u] = f[u] + Gain(u)
          BY <1>2
        <4>3. PICK c \in Int : c = t.price * t.qty
          BY <3>3
        <4> HIDE DEF f, g
        <4> QED
          BY <3>3, <4>1, <4>2, <4>3
      <3>5. \A u \in Users : f[u] \in Int
        BY <1>2
      <3> HIDE DEF f, g
      <3> QED
        BY <3>3, <3>4, <3>5, SumTransfer
    <2> QED
      BY <2>1, <2>2
  <1> HIDE DEF f
  <1>4. SumFunctionOnSet(g, Users) = InitialUsd * Cardinality(Users)
    BY <1>1, <1>3
  <1> QED
    BY <1>4 DEF UsdConserved, Usd

\* With limit orders whose side can be read no dollar is created or destroyed
\* (README.md:58): what breaks UsdConserved is in the market orders' path, in
\* that of messages of type Deposit and in the unlocking of orders whose side
\* is neither Buy nor Sell.
THEOREM LimitOrdersConserveUsd ==
  OnlyLimitOrders /\ SidesAreReadable => (XSpec => []UsdConserved)
  <1> SUFFICES ASSUME OnlyLimitOrders, SidesAreReadable PROVE XSpec => []UsdConserved
    OBVIOUS
  <1> QED
    BY LimitInvInit, LimitInvNext, UsdConservedInit, UsdConservedNext, PTL DEF XSpec
=============================================================================
