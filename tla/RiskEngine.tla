----------------------------- MODULE RiskEngine -----------------------------
(***************************************************************************)
(* The margin accounts of src/src/risk.rs: what each user may still use    *)
(* and what is locked as margin, in dollars and in the asset of each       *)
(* symbol.  Amounts are u64 in the code and unbounded here: a lock checks  *)
(* its product against the funds; only the product that is unlocked for an *)
(* order whose side is unreadable was never compared with anything.        *)
(***************************************************************************)
EXTENDS Types

CONSTANTS
  InitialUsd, InitialAssets    \* what each user is funded with at the start

ASSUME RiskAssumption == InitialUsd \in Nat /\ InitialAssets \in Nat

VARIABLES
  usd_available, usd_locked,      \* by user
  asset_available, asset_locked   \* by user and symbol

usd == <<usd_available, usd_locked>>
assets == <<asset_available, asset_locked>>
accounts == <<usd, assets>>

Holdings == Users \X Symbols

RiskTypeOK ==
  /\ usd_available \in [Users -> Nat]
  /\ usd_locked \in [Users -> Nat]
  /\ asset_available \in [Holdings -> Nat]
  /\ asset_locked \in [Holdings -> Nat]

\* Account::new and the deposits that fund the accounts.
RiskInit ==
  /\ usd_available = [u \in Users |-> InitialUsd]
  /\ usd_locked = [u \in Users |-> 0]
  /\ asset_available = [h \in Holdings |-> InitialAssets]
  /\ asset_locked = [h \in Holdings |-> 0]

\* u64::saturating_sub.
Minus(a, b) == IF a >= b THEN a - b ELSE 0

Asset(o) == <<o.user_id, o.symbol_id>>

\* Mutant of LockError: a buyer's dollars are not looked at.
LockErrorAssetsOnly(o) ==
  CASE o.side = "Buy" /\ o.price = 0 -> "InvalidOrder"
    [] o.side # "Buy" /\ asset_available[Asset(o)] < o.qty -> "InsufficientFunds"
    [] OTHER -> "None"

\* Why lock_order_funds refuses an order, or "None".
LockError(o) ==
  CASE o.side = "Buy" /\ o.price = 0 -> "InvalidOrder"
    [] o.side = "Buy" /\ o.price # 0 /\ usd_available[o.user_id] < o.price * o.qty
         -> "InsufficientFunds"
    [] o.side # "Buy" /\ asset_available[Asset(o)] < o.qty -> "InsufficientFunds"
    [] OTHER -> "None"

\* Margin moves from available to locked: the limit price of each unit when
\* buying, the units themselves when the side is anything but Buy.
LockFunds(o) ==
  IF o.side = "Buy"
  THEN /\ usd_available' = [usd_available EXCEPT ![o.user_id] = @ - o.price * o.qty]
       /\ usd_locked' = [usd_locked EXCEPT ![o.user_id] = @ + o.price * o.qty]
       /\ UNCHANGED assets
  ELSE /\ asset_available' = [asset_available EXCEPT ![Asset(o)] = @ - o.qty]
       /\ asset_locked' = [asset_locked EXCEPT ![Asset(o)] = @ + o.qty]
       /\ UNCHANGED usd

\* deposit, of dollars in the price field and assets in the quantity field.
Deposit(o) ==
  /\ usd_available' = [usd_available EXCEPT ![o.user_id] = @ + o.price]
  /\ asset_available' = [asset_available EXCEPT ![Asset(o)] = @ + o.qty]
  /\ UNCHANGED <<usd_locked, asset_locked>>

UnlockUsd(user, amount) ==
  /\ usd_locked' = [usd_locked EXCEPT ![user] = Minus(@, amount)]
  /\ usd_available' = [usd_available EXCEPT ![user] = @ + amount]
  /\ UNCHANGED assets

UnlockAsset(holding, qty) ==
  /\ asset_locked' = [asset_locked EXCEPT ![holding] = Minus(@, qty)]
  /\ asset_available' = [asset_available EXCEPT ![holding] = @ + qty]
  /\ UNCHANGED usd

\* unlock_cancelled_order_margin, which is unlock_order_funds at the order's
\* own price.  An order that locked assets for want of a readable side is
\* unlocked in dollars.
UnlockFunds(o, qty) ==
  IF SideOf(o) = "Buy" THEN UnlockUsd(o.user_id, o.price * qty)
                       ELSE UnlockAsset(Asset(o), qty)

\* Mutant of RefundRemainder: what was executed is refunded too.
RefundEverything(o, executed_qty, executed_cost) ==
  IF SideOf(o) = "Buy"
  THEN UnlockUsd(o.user_id, o.price * o.qty)
  ELSE UnlockAsset(Asset(o), o.qty)

\* refund_market_order_remainder: the whole budget less what was spent.
RefundRemainder(o, executed_qty, executed_cost) ==
  IF SideOf(o) = "Buy"
  THEN UnlockUsd(o.user_id, Minus(o.price * o.qty, executed_cost))
  ELSE UnlockAsset(Asset(o), Minus(o.qty, executed_qty))

\* Mutants of SettleTrade: a taker's margin is released at the trade's price
\* only; the price improvement is released and not refunded.
SettleAtTradePrice(t, taker_limit_price) ==
  LET cost == t.price * t.qty
  IN  /\ usd_locked' = [usd_locked EXCEPT ![t.buyer_id] = Minus(@, cost)]
      /\ usd_available' = [usd_available EXCEPT ![t.seller_id] = @ + cost]
      /\ asset_available' =
           [asset_available EXCEPT ![<<t.buyer_id, t.symbol_id>>] = @ + t.qty]
      /\ asset_locked' =
           [asset_locked EXCEPT ![<<t.seller_id, t.symbol_id>>] = Minus(@, t.qty)]

SettleNoImprovement(t, taker_limit_price) ==
  LET cost == t.price * t.qty
      locked == t.qty * (IF t.buyer_id = t.maker_user_id
                         THEN t.price ELSE taker_limit_price)
  IN  /\ usd_locked' = [usd_locked EXCEPT ![t.buyer_id] = Minus(@, locked)]
      /\ usd_available' = [usd_available EXCEPT ![t.seller_id] = @ + cost]
      /\ asset_available' =
           [asset_available EXCEPT ![<<t.buyer_id, t.symbol_id>>] = @ + t.qty]
      /\ asset_locked' =
           [asset_locked EXCEPT ![<<t.seller_id, t.symbol_id>>] = Minus(@, t.qty)]

\* settle_trade: a maker that buys locked at its own price, which is the
\* trade's; a taker that buys locked at its limit and gets the difference back.
SettleTrade(t, taker_limit_price) ==
  LET cost == t.price * t.qty
      locked == t.qty * (IF t.buyer_id = t.maker_user_id
                         THEN t.price ELSE taker_limit_price)
  IN  /\ usd_locked' = [usd_locked EXCEPT ![t.buyer_id] = Minus(@, locked)]
      /\ usd_available' = [usd_available EXCEPT ![t.buyer_id] = @ + Minus(locked, cost),
                                                ![t.seller_id] = @ + cost]
      /\ asset_available' =
           [asset_available EXCEPT ![<<t.buyer_id, t.symbol_id>>] = @ + t.qty]
      /\ asset_locked' =
           [asset_locked EXCEPT ![<<t.seller_id, t.symbol_id>>] = Minus(@, t.qty)]
=============================================================================
