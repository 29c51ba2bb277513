------------------------------ MODULE Exchange ------------------------------
(***************************************************************************)
(* The engine thread of src/src/bin/exchange.rs: for each inbound message, *)
(* reserve margin, match, settle each trade, give back what is left over.  *)
(* The books are PriceTime, which OrderBook implements; the accounts are   *)
(* RiskEngine.                                                             *)
(*                                                                         *)
(* The thread is alone in touching either; what is interleaved is the      *)
(* sequence of clients' orders and cancellations, in any order.  The WAL,  *)
(* the channels and the connections are not part of this module.           *)
(***************************************************************************)
EXTENDS PriceTime, RiskEngine, FiniteSetsExt

CONSTANTS
  MAX_ARENA_ORDERS,   \* orders a book has room for
  MAX_PRICE_LEVELS    \* price levels a book has room for

ASSUME ExchangeAssumption ==
  /\ MAX_ARENA_ORDERS \in Nat \ {0}
  /\ MAX_PRICE_LEVELS \in Nat \ {0}

\* user_id is a machine word.
ASSUME UsersAreFinite == IsFiniteSet(Users)

VARIABLES
  settled,               \* trades of this call settled so far
  total_executed_qty, total_executed_cost,
  answer                 \* what the message in hand, or the last one, was
                         \* answered so far

tally == <<settled, total_executed_qty, total_executed_cost>>
xvars == <<vars, accounts, tally, answer>>

Answers ==
  {"None", "Ack", "CancelOk", "InvalidOrder", "InsufficientFunds",
   "SelfTradePrevented", "EngineFull", "OrderNotFound", "Unauthorized"}

XTypeOK ==
  /\ TypeOK
  /\ RiskTypeOK
  /\ settled \in Nat
  /\ total_executed_qty \in Nat
  /\ total_executed_cost \in Nat
  /\ answer \in Answers

XInit ==
  /\ Init
  /\ RiskInit
  /\ settled = 0
  /\ total_executed_qty = 0
  /\ total_executed_cost = 0
  /\ answer = "None"

-----------------------------------------------------------------------------
\* The engine's capacity, which PriceTime leaves open.
OrdersOf(symbol) == {o \in resting : o.symbol_id = symbol}

PricesOf(symbol) == {o.price : o \in OrdersOf(symbol)}

BookFull(o) ==
  \/ Cardinality(OrdersOf(o.symbol_id)) >= MAX_ARENA_ORDERS
  \/ /\ o.price \notin PricesOf(o.symbol_id)
     /\ Cardinality(PricesOf(o.symbol_id)) >= MAX_PRICE_LEVELS

\* The order as the exchange handed it over: the engine reduces its own copy.
Submitted == [order EXCEPT !.qty = original_qty]

\* Margin cannot be reserved: the order goes no further.
RejectOrder(o) ==
  /\ phase = "idle"
  /\ LockError(o) # "None"
  /\ answer' = LockError(o)
  /\ UNCHANGED <<vars, accounts, tally>>

\* Margin is reserved, an exchange id stamped, the order acknowledged and
\* handed to the engine.
AcceptOrder(o) ==
  /\ LockError(o) = "None"
  /\ Submit(o)
  /\ LockFunds(o)
  /\ answer' = "Ack"
  /\ UNCHANGED tally

MatchStep ==
  /\ \/ \E m \in resting : FillPartial(m) \/ FillWhole(m) \/ SelfTrade(m)
     \/ Finish
     \/ Rest /\ ~BookFull(order)
     \/ RejectFull /\ BookFull(order)
  /\ UNCHANGED <<accounts, tally, answer>>

\* Ok(report): the trades are settled one after the other, in order.
SettleNext ==
  /\ phase = "done"
  /\ result.error = "None"
  /\ settled < Len(trades)
  /\ LET t == trades[settled + 1]
     IN  /\ SettleTrade(t, order.price)
         /\ total_executed_qty' = total_executed_qty + t.qty
         /\ total_executed_cost' = total_executed_cost + t.price * t.qty
  /\ settled' = settled + 1
  /\ UNCHANGED <<vars, answer>>

ResetTally ==
  /\ settled' = 0
  /\ total_executed_qty' = 0
  /\ total_executed_cost' = 0

AllSettled == phase = "done" /\ result.error = "None" /\ settled = Len(trades)

\* A limit order's call is over; its margin stays with what rests.  So does
\* that of an order of type Deposit, of which nothing rests.
ReturnLimit ==
  /\ AllSettled
  /\ ~result.stp_triggered
  /\ order.order_type # "Market"
  /\ Return
  /\ ResetTally
  /\ UNCHANGED <<accounts, answer>>

\* Self-trade prevention cancelled the remainder, of whatever order type.
ReturnSelfTrade ==
  /\ AllSettled
  /\ result.stp_triggered
  /\ UnlockFunds(Submitted, result.remaining_qty)
  /\ answer' = "SelfTradePrevented"
  /\ Return
  /\ ResetTally

\* A market order's unexecuted budget is refunded.
ReturnMarket ==
  /\ AllSettled
  /\ ~result.stp_triggered
  /\ order.order_type = "Market"
  /\ RefundRemainder(Submitted, total_executed_qty, total_executed_cost)
  /\ Return
  /\ ResetTally
  /\ UNCHANGED answer

\* Err(EngineFull): the margin of the whole order is unlocked and any trades
\* are not looked at.
ReturnFull ==
  /\ phase = "done"
  /\ result.error = "EngineFull"
  /\ UnlockFunds(Submitted, original_qty)
  /\ answer' = "EngineFull"
  /\ Return
  /\ ResetTally

CancelStep ==
  /\ CancelAny
  /\ answer' = "None"
  /\ UNCHANGED <<accounts, tally>>

ReturnCancelOk ==
  /\ phase = "cancelled"
  /\ result.error = "None"
  /\ UnlockFunds(order, order.qty)
  /\ answer' = "CancelOk"
  /\ Return
  /\ UNCHANGED tally

ReturnCancelRejected ==
  /\ phase = "cancelled"
  /\ result.error # "None"
  /\ answer' = result.error
  /\ Return
  /\ UNCHANGED <<accounts, tally>>

\* What the engine thread does once it has a message in hand.
EngineStep ==
  \/ MatchStep
  \/ SettleNext
  \/ ReturnLimit \/ ReturnSelfTrade \/ ReturnMarket \/ ReturnFull
  \/ ReturnCancelOk \/ ReturnCancelRejected

XNext ==
  \/ \E o \in Submissions : RejectOrder(o) \/ AcceptOrder(o)
  \/ CancelStep
  \/ EngineStep

XSpec == XInit /\ [][XNext]_xvars

\* The engine thread is not preempted for ever while it has work.
XFairSpec == XSpec /\ WF_xvars(EngineStep)

-----------------------------------------------------------------------------
\* The margin locked for the quantity an order still has.
UsdMargin(o) == IF o.side = "Buy" THEN o.price * o.qty ELSE 0
AssetMargin(o) == IF o.side = "Buy" THEN 0 ELSE o.qty

RestingUsd(u) ==
  SumFunctionOnSet([o \in resting |-> UsdMargin(o)], {o \in resting : o.user_id = u})
RestingAssets(u, s) ==
  SumFunctionOnSet([o \in resting |-> AssetMargin(o)],
                   {o \in OrdersOf(s) : o.user_id = u})

Usd(u) == usd_available[u] + usd_locked[u]
Assets(u, s) == asset_available[<<u, s>>] + asset_locked[<<u, s>>]

\* Whenever the engine is between messages, what is locked is exactly the
\* margin of the orders that rest: nothing stays trapped and nothing rests
\* uncovered, through partial fills, price improvement, self-trade
\* prevention, rejections and cancellations (exchange.rs settlement and
\* unlock branches against book.rs' quantities).
LockedIsMargin ==
  phase = "idle" =>
    \A u \in Users :
      /\ usd_locked[u] = RestingUsd(u)
      /\ \A s \in Symbols : asset_locked[<<u, s>>] = RestingAssets(u, s)

\* "Authorized cancels unlock funds immediately" (README.md:63): between
\* messages, a user none of whose orders rests has nothing locked
\* (unlock_cancelled_order_margin against lock_order_funds).
NothingTrapped ==
  phase = "idle" =>
    \A u \in {v \in Users : \A o \in resting : o.user_id # v} :
      /\ usd_locked[u] = 0
      /\ \A s \in Symbols : asset_locked[<<u, s>>] = 0

\* Orders on the book are covered at all times, in the middle of a call too:
\* a maker's asset margin never falls below what it still offers, whatever
\* market orders and refusals for lack of room do (saturating_sub in risk.rs
\* would otherwise hide the shortfall).
AsksAreCovered ==
  \A u \in Users, s \in Symbols :
    asset_locked[<<u, s>>] >= RestingAssets(u, s)

\* Settling a trade moves price * qty from buyer to seller and qty assets the
\* other way, at whatever price the margin was locked; no other step changes
\* what anyone owns (settle_trade's price improvement, and every lock and
\* unlock of risk.rs).
FundsMoveOnlyByTrades ==
  [][\A u \in Users :
       LET t == trades[settled + 1]
           gain == IF settled' # settled + 1 THEN 0
                   ELSE IF u = t.buyer_id THEN -(t.price * t.qty)
                   ELSE IF u = t.seller_id THEN t.price * t.qty ELSE 0
       IN  Usd(u)' = Usd(u) + gain]_xvars

\* No asset is created or lost, by any order type, refusal or self-trade stop.
AssetsConserved ==
  \A s \in Symbols :
    SumFunctionOnSet([u \in Users |-> Assets(u, s)], Users)
      = InitialAssets * Cardinality(Users)

\* "Orders cannot double-spend funds" (README.md:58): users own together the
\* dollars they were funded with.
UsdConserved ==
  SumFunctionOnSet([u \in Users |-> Usd(u)], Users) = InitialUsd * Cardinality(Users)

\* Every message the engine thread takes up is answered and finished with.
MessagesAreFinished == phase # "idle" ~> phase = "idle"
=============================================================================
