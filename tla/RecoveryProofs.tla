--------------------------- MODULE RecoveryProofs ---------------------------
(***************************************************************************)
(* Theorems about Recovery, for every number of users, symbols, prices,    *)
(* messages and crashes: books and accounts stay sound across crashes, in  *)
(* the middle of a call, of a settlement or of a replay; a replay comes to *)
(* the state the live loop had, and no id in the journal is used again.    *)
(*                                                                         *)
(* The last two rest on the engine thread having no choice once it has     *)
(* taken a message up.  An engine is a value, After the engine after its   *)
(* next step, and Follows what a number of steps come to.                  *)
(***************************************************************************)
EXTENDS Recovery, ExchangeProofs, SequenceTheorems

USE RecoveryAssumption, TypesAssumption

\* The states that are noted.
States ==
  [resting : SUBSET Order, client_index : [ClientKeys -> 0..MaxId],
   usd_available : [Users -> Nat], usd_locked : [Users -> Nat],
   asset_available : [Holdings -> Nat], asset_locked : [Holdings -> Nat]]

JournalTyped ==
  /\ mode \in {"live", "replay"}
  /\ journal \in Seq(Message)
  /\ states \in Seq(States)
  /\ inexact \subseteq 1..Len(journal)
  /\ crashes \in 0..MaxCrashes

\* A cancellation that has succeeded is in hand until it is journaled.
MessageInHand ==
  /\ message \in Message \cup {None}
  /\ phase = "cancelled" /\ result.error = "None" => message \in Message

\* Every message journaled has its state noted, but for the one in hand and,
\* in a replay, the one that was in hand at the crash.
Places ==
  /\ replayed \in 0..Len(journal)
  /\ Len(states) \in Len(journal) - 1..Len(journal)
  /\ mode = "live" =>
       Len(states) = IF phase \in {"matching", "done"}
                     THEN Len(journal) - 1 ELSE Len(journal)
  /\ mode = "replay" =>
       /\ replayed <= Len(states)
       /\ phase # "idle" => replayed < Len(journal)

\* The inductive invariant.
RInv == XInv /\ JournalTyped /\ MessageInHand /\ Places

-----------------------------------------------------------------------------
LEMMA RInvInit == RInit => RInv
  BY XInvInit DEF RInit, XInit, Init, RInv, JournalTyped, MessageInHand, Places

\* A crash leaves what the program starts with.
LEMMA CrashStartsAgain == Crash => XInit'
  BY DEF Crash, XInit, Init, RiskInit, ResetTally

LEMMA RestartTyped == (Init' => TypeInv') /\ (XInit' => XInv')
  BY TypeInvInit, XInvInit, PTL

LEMMA DepositTyped ==
  ASSUME RiskTypeOK, NEW o \in Order, Deposit(o)
  PROVE  RiskTypeOK'
  <1>1. o.user_id \in Users /\ Asset(o) \in Holdings /\ o.price \in Nat /\ o.qty \in Nat
    BY OrderIsNat DEF Asset, Holdings
  <1> QED
    BY <1>1 DEF Deposit, RiskTypeOK

-----------------------------------------------------------------------------
(* What each step does to books and accounts. *)

\* Most steps, of a replay too, are steps of the live loop.
LEMMA StepOnEngine ==
  ASSUME RNext
  PROVE  \/ [XNext]_xvars
         \/ ReplayDeposit \/ ReplayAccept \/ ReplayFull \/ ReplayCancel
         \/ StartLive \/ Crash
  <1>1. CASE \E o \in Submissions : LiveReject(o) \/ LiveAccept(o)
    BY <1>1 DEF LiveReject, LiveAccept, XNext
  <1>2. CASE \E user \in Users, symbol \in Symbols, ref \in (1..MaxId) \cup ClientIds :
               LiveCancel(user, symbol, ref)
    BY <1>2 DEF LiveCancel, XNext, CancelStep, CancelAny
  <1>3. CASE LiveCancelOk \/ LiveCancelRejected \/ Process \/ FinishOrder \/ LiveFull
             \/ ReplayCancelled
    BY <1>3 DEF LiveCancelOk, LiveCancelRejected, Process, FinishOrder, LiveFull,
       ReplayCancelled, XNext, EngineStep
  <1>4. CASE ReplaySkip
    BY <1>4 DEF ReplaySkip
  <1> QED
    BY <1>1, <1>2, <1>3, <1>4 DEF RNext, Receive, Work

LEMMA EntryIsMessage ==
  ASSUME JournalTyped, Places, Replaying
  PROVE  Entry \in Message /\ (~IsCancel(Entry) => Entry \in Order)
  <1>1. replayed + 1 \in 1..Len(journal) /\ journal \in Seq(Message)
    BY DEF JournalTyped, Places, Replaying
  <1>2. Entry \in Message
    BY <1>1, ElementOfSeq DEF Entry
  <1> QED
    BY <1>2 DEF Message, IsCancel

\* The books: a step is the engine's, also on an order out of the journal,
\* or moves the counter only, or empties them.
LEMMA StepOnBooks ==
  ASSUME RInv, RNext
  PROVE  \/ [Next]_vars
         \/ \E o \in Order : Submit(o)
         \/ StartLive
         \/ Init'
  <1>1. CASE [XNext]_xvars
    BY <1>1, XStepIsBookStep
  <1>2. CASE ReplayDeposit
    BY <1>2 DEF ReplayDeposit
  <1>3. CASE ReplayAccept
    BY <1>3, EntryIsMessage DEF ReplayAccept, RInv
  <1>4. CASE ReplayFull
    BY <1>4 DEF ReplayFull, Next
  <1>5. CASE ReplayCancel
    BY <1>5 DEF ReplayCancel, Next, CancelAny, IsCancel, CancelRequest
  <1>6. CASE Crash
    BY <1>6, CrashStartsAgain DEF XInit
  <1> QED
    BY <1>1, <1>2, <1>3, <1>4, <1>5, <1>6, StepOnEngine

LEMMA CounterTyped ==
  ASSUME TypeInv, StartLive
  PROVE  TypeInv'
  <1>1. next_id \in Nat /\ next_id' \in 1..MaxId + 1 /\ next_id <= next_id'
    BY DEF TypeInv, TypeOK, StartLive
  <1>2. \A a \in resting : a.id \in Nat
    BY DEF TypeInv, TypeOK, Order
  <1>3. TypeOK'
    BY <1>1 DEF TypeInv, TypeOK, StartLive
  <1>4. IdsUnique' /\ InHand'
    BY <1>1, <1>2 DEF TypeInv, IdsUnique, InHand, StartLive
  <1> QED
    BY <1>3, <1>4 DEF TypeInv

LEMMA BooksStayTyped ==
  ASSUME RInv, RNext
  PROVE  TypeInv'
  <1>1. TypeInv
    BY DEF RInv, XInv
  <1> QED
    BY <1>1, RestartTyped, StepOnBooks, TypeInvNext, TypeInvSubmit, CounterTyped

LEMMA XInvStep ==
  ASSUME RInv, RNext
  PROVE  XInv'
  <1>1. /\ TypeInv' /\ TypeInv /\ RiskTypeOK /\ TallyTypeOK
        /\ (phase = "cancelled" /\ result.error = "None" => order \in Order)
    BY BooksStayTyped DEF RInv, XInv, XTypeOK, TallyTypeOK
  <1>2. SUFFICES /\ RiskTypeOK' /\ TallyTypeOK'
                 /\ (phase' = "cancelled" /\ result'.error = "None" => order' \in Order)
                 \/ XInv'
    BY <1>1 DEF XInv, XTypeOK, TypeInv, TallyTypeOK
  <1>3. CASE [XNext]_xvars
    BY <1>3, XInvNext DEF RInv
  <1>4. CASE ReplayDeposit
    <2>1. Entry \in Order
      BY <1>4, EntryIsMessage DEF ReplayDeposit, RInv, IsDeposit
    <2>2. RiskTypeOK'
      BY <1>1, <1>4, <2>1, DepositTyped DEF ReplayDeposit
    <2> QED
      BY <1>1, <1>4, <2>2 DEF ReplayDeposit, TallyTypeOK, tally, vars
  <1>5. CASE ReplayAccept
    <2>1. Entry \in Order
      BY <1>5, EntryIsMessage DEF ReplayAccept, RInv
    <2>2. RiskTypeOK'
      BY <1>1, <1>5, <2>1, LockFundsTyped DEF ReplayAccept
    <2> QED
      BY <1>1, <1>5, <2>2 DEF ReplayAccept, Submit, TallyTypeOK, tally
  <1>6. CASE ReplayFull
    BY <1>1, <1>6 DEF ReplayFull, Return, ResetTally, TallyTypeOK, accounts, usd, assets,
       RiskTypeOK
  <1>7. CASE ReplayCancel
    <2>1. CancelAny
      BY <1>7 DEF ReplayCancel, CancelAny, IsCancel, CancelRequest
    <2> QED
      BY <1>1, <1>7, <2>1, CancelledIsOrder
         DEF ReplayCancel, TallyTypeOK, tally, accounts, usd, assets, RiskTypeOK
  <1>8. CASE StartLive
    BY <1>1, <1>8 DEF StartLive, TallyTypeOK, tally, accounts, usd, assets, RiskTypeOK
  <1>9. CASE Crash
    BY <1>9, RestartTyped, CrashStartsAgain
  <1> QED
    BY <1>3, <1>4, <1>5, <1>6, <1>7, <1>8, <1>9, StepOnEngine

-----------------------------------------------------------------------------
(* What each step does to the journal. *)

Hand == MessageInHand /\ Places

\* A message is done with in its place, which is noted then if it is new.
LEMMA DoneTyped ==
  ASSUME RInv, XInv', Done, phase' = "idle",
         mode = "live" => phase \in {"matching", "done"},
         mode = "replay" => replayed < Len(journal),
         inexact' = inexact \/ inexact' = inexact \cup {Place}
  PROVE  JournalTyped' /\ Hand'
  <1>1. /\ journal \in Seq(Message) /\ Len(journal) \in Nat
        /\ states \in Seq(States) /\ Len(states) \in Nat
        /\ State' \in States /\ mode \in {"live", "replay"}
        /\ replayed \in 0..Len(journal)
        /\ Len(states) \in Len(journal) - 1..Len(journal)
    <2>1. State' \in States
      BY DEF XInv, XTypeOK, TypeOK, RiskTypeOK, State, States
    <2> QED
      BY <2>1 DEF RInv, JournalTyped, Places
  <1>2. Append(states, State') \in Seq(States) /\ Len(Append(states, State')) = Len(states) + 1
    BY <1>1, AppendProperties
  <1>3. Place \in 1..Len(journal)
    BY <1>1 DEF Place, RInv, Places
  <1>4. JournalTyped'
    BY <1>1, <1>2, <1>3 DEF Done, RInv, JournalTyped
  <1>5. CASE mode = "live"
    BY <1>1, <1>2, <1>4, <1>5 DEF Done, Place, RInv, Places, Hand, MessageInHand
  <1>6. CASE mode = "replay"
    BY <1>1, <1>2, <1>4, <1>6 DEF Done, Place, RInv, Places, Hand, MessageInHand
  <1> QED
    BY <1>1, <1>5, <1>6

\* The journal stays as it is while the message in hand is worked on.
LEMMA UnjournaledTyped ==
  ASSUME RInv, UNCHANGED <<mode, replayed, history, crashes>>,
         message' \in Message \cup {None},
         phase' = "cancelled" /\ result'.error = "None" => message' \in Message,
         mode = "live" =>
           (phase \in {"matching", "done"} <=> phase' \in {"matching", "done"}),
         mode = "replay" /\ phase' # "idle" => replayed < Len(journal)
  PROVE  JournalTyped' /\ Hand'
  BY DEF history, RInv, JournalTyped, Places, Hand, MessageInHand

LEMMA LiveRequestTyped ==
  ASSUME RInv, XInv', Receive
  PROVE  JournalTyped' /\ Hand'
  <1>1. ASSUME NEW o \in Submissions, LiveReject(o)
        PROVE  JournalTyped' /\ Hand'
    <2>1. phase' = phase /\ phase = "idle"
      BY <1>1 DEF LiveReject, RejectOrder, vars
    <2> QED
      BY <1>1, <2>1, UnjournaledTyped DEF LiveReject, RInv, MessageInHand, Receive
  <1>2. ASSUME NEW o \in Submissions, LiveAccept(o)
        PROVE  JournalTyped' /\ Hand'
    <2>1. o \in Message
      BY DEF Message, Submissions, Order
    <2>2. /\ journal \in Seq(Message) /\ Len(journal) \in Nat
          /\ Len(states) = Len(journal) /\ mode = "live"
      BY DEF RInv, JournalTyped, Places, Receive
    <2>3. Append(journal, o) \in Seq(Message) /\ Len(Append(journal, o)) = Len(journal) + 1
      BY <2>1, <2>2, AppendProperties
    <2>4. phase' = "matching"
      BY <1>2 DEF LiveAccept, AcceptOrder, Submit
    <2>5. JournalTyped'
      BY <1>2, <2>2, <2>3 DEF LiveAccept, RInv, JournalTyped
    <2> QED
      BY <1>2, <2>1, <2>2, <2>3, <2>4, <2>5
         DEF LiveAccept, RInv, JournalTyped, Places, Hand, MessageInHand
  <1>3. ASSUME NEW user \in Users, NEW symbol \in Symbols,
               NEW ref \in (1..MaxId) \cup ClientIds, LiveCancel(user, symbol, ref)
        PROVE  JournalTyped' /\ Hand'
    <2>1. phase = "idle" /\ phase' = "cancelled" /\ mode = "live"
      BY <1>3 DEF LiveCancel, CancelOk, CancelUnauthorized, CancelNotFound, CancelAnswer,
         Receive
    <2>2. CASE CancelOk(user, symbol, ref) /\ message' = [user_id |-> user, symbol_id |-> symbol, id |-> ref]
      <3>1. message' \in Message
        BY <2>2 DEF Message, CancelRequest
      <3> QED
        BY <1>3, <2>1, <3>1, UnjournaledTyped DEF LiveCancel
    <2>3. CASE (CancelUnauthorized(user, symbol, ref) \/ CancelNotFound(user, symbol, ref))
               /\ UNCHANGED message
      <3>1. result'.error # "None"
        BY <2>3 DEF CancelUnauthorized, CancelNotFound, CancelAnswer, Err
      <3> QED
        BY <1>3, <2>1, <2>3, <3>1, UnjournaledTyped DEF LiveCancel, RInv, MessageInHand
    <2> QED
      BY <1>3, <2>2, <2>3 DEF LiveCancel
  <1> QED
    BY <1>1, <1>2, <1>3 DEF Receive

LEMMA LiveEndTyped ==
  ASSUME RInv, XInv', LiveCancelOk \/ LiveCancelRejected \/ LiveFull
  PROVE  JournalTyped' /\ Hand'
  <1>1. CASE LiveCancelOk
    <2>1. /\ journal \in Seq(Message) /\ message \in Message /\ Len(journal) \in Nat
          /\ states \in Seq(States) /\ Len(states) = Len(journal) /\ State' \in States
      <3>1. State' \in States
        BY DEF XInv, XTypeOK, TypeOK, RiskTypeOK, State, States
      <3>2. phase = "cancelled" /\ result.error = "None"
        BY <1>1 DEF LiveCancelOk, ReturnCancelOk
      <3> QED
        BY <1>1, <3>1, <3>2 DEF LiveCancelOk, RInv, JournalTyped, MessageInHand, Places
    <2>2. /\ journal' \in Seq(Message) /\ Len(journal') = Len(journal) + 1
          /\ states' \in Seq(States) /\ Len(states') = Len(states) + 1
      BY <1>1, <2>1, AppendProperties DEF LiveCancelOk
    <2>3. phase' = "idle"
      BY <1>1 DEF LiveCancelOk, ReturnCancelOk, Return
    <2> QED
      BY <1>1, <2>1, <2>2, <2>3
         DEF LiveCancelOk, RInv, JournalTyped, Places, Hand, MessageInHand
  <1>2. CASE LiveCancelRejected
    <2>1. phase = "cancelled" /\ phase' = "idle"
      BY <1>2 DEF LiveCancelRejected, ReturnCancelRejected, Return
    <2> QED
      BY <1>2, <2>1, UnjournaledTyped DEF LiveCancelRejected, RInv, MessageInHand
  <1>3. CASE LiveFull
    BY <1>3, DoneTyped DEF LiveFull, ReturnFull, Return
  <1> QED
    BY <1>1, <1>2, <1>3

\* Matching, settling and the end of an order, in both modes.
LEMMA CallTyped ==
  ASSUME RInv, XInv', Process \/ FinishOrder
  PROVE  JournalTyped' /\ Hand'
  <1>1. CASE Process
    <2>1. phase \in {"matching", "done"} /\ phase' \in {"matching", "done"}
      BY <1>1 DEF Process, MatchStep, SettleNext, FillPartial, FillWhole, SelfTrade,
         Finish, Rest, RejectFull, Answer, Executed, CanMatch, MatchingOver, vars
    <2>2. mode = "replay" => replayed < Len(journal)
      BY <2>1 DEF RInv, Places
    <2> QED
      BY <1>1, <2>1, <2>2, UnjournaledTyped DEF Process, RInv, MessageInHand
  <1>2. CASE FinishOrder
    <2>1. phase = "done" /\ phase' = "idle"
      BY <1>2 DEF FinishOrder, ReturnLimit, ReturnSelfTrade, ReturnMarket, AllSettled, Return
    <2>2. mode = "replay" => replayed < Len(journal)
      BY <2>1 DEF RInv, Places
    <2> QED
      BY <1>2, <2>1, <2>2, DoneTyped DEF FinishOrder
  <1> QED
    BY <1>1, <1>2

LEMMA ReplayTyped ==
  ASSUME RInv, XInv',
         \/ ReplayDeposit \/ ReplayAccept \/ ReplaySkip
         \/ ReplayFull \/ ReplayCancel \/ ReplayCancelled
  PROVE  JournalTyped' /\ Hand'
  <1>1. CASE ReplayDeposit \/ ReplaySkip
    <2>1. phase' = "idle" /\ mode = "replay" /\ replayed < Len(journal)
      BY <1>1 DEF ReplayDeposit, ReplaySkip, Replaying, xvars, vars
    <2> QED
      BY <1>1, <2>1, DoneTyped DEF ReplayDeposit, ReplaySkip
  <1>2. CASE ReplayFull \/ ReplayCancelled
    <2>1. /\ phase # "idle" /\ phase' = "idle" /\ mode = "replay"
      BY <1>2 DEF ReplayFull, ReplayCancelled, ReturnCancelOk, ReturnCancelRejected, Return
    <2>2. replayed < Len(journal)
      BY <2>1 DEF RInv, Places
    <2> QED
      BY <1>2, <2>1, <2>2, DoneTyped DEF ReplayFull, ReplayCancelled
  <1>3. CASE ReplayAccept \/ ReplayCancel
    <2>1. mode = "replay" /\ replayed < Len(journal) /\ Entry \in Message
      BY <1>3, EntryIsMessage DEF ReplayAccept, ReplayCancel, Replaying, RInv
    <2> QED
      BY <1>3, <2>1, UnjournaledTyped DEF ReplayAccept, ReplayCancel
  <1> QED
    BY <1>1, <1>2, <1>3

LEMMA StartTyped ==
  ASSUME RInv, StartLive
  PROVE  JournalTyped' /\ Hand'
  BY DEF StartLive, history, RInv, JournalTyped, Places, Hand, MessageInHand

\* A crash leaves as many notes as journaled messages, whatever it takes.
LEMMA CrashTyped ==
  ASSUME RInv, Crash
  PROVE  JournalTyped' /\ Hand'
  <1>1. PICK n \in 0..Len(journal) :
          /\ journal' = SubSeq(journal, 1, n)
          /\ states' = SubSeq(states, 1, IF n < Len(states) THEN n ELSE Len(states))
          /\ inexact' = inexact \cap 1..n
    BY DEF Crash
  <1>2. /\ journal \in Seq(Message) /\ Len(journal) \in Nat
        /\ states \in Seq(States) /\ Len(states) \in Nat
        /\ Len(states) \in Len(journal) - 1..Len(journal)
    BY DEF RInv, JournalTyped, Places
  <1> DEFINE k == IF n < Len(states) THEN n ELSE Len(states)
  <1>3. journal' \in Seq(Message) /\ Len(journal') = n
    <2>1. \A i \in 1..n : journal[i] \in Message
      BY <1>2, ElementOfSeq
    <2> QED
      BY <1>1, <2>1, SubSeqProperties
  <1>4. states' \in Seq(States) /\ Len(states') = k
    <2>1. k \in 0..Len(states)
      BY <1>2
    <2>2. \A i \in 1..k : states[i] \in States
      BY <1>2, <2>1, ElementOfSeq
    <2> QED
      BY <1>1, <2>1, <2>2, SubSeqProperties
  <1>5. k \in n - 1..n
    BY <1>2
  <1>6. crashes' \in 0..MaxCrashes
    BY DEF Crash, RInv, JournalTyped
  <1> QED
    BY <1>1, <1>3, <1>4, <1>5, <1>6 DEF Crash, JournalTyped, Places, Hand, MessageInHand

-----------------------------------------------------------------------------
LEMMA RInvNext == RInv /\ [RNext]_rvars => RInv'
  <1> SUFFICES ASSUME RInv, [RNext]_rvars PROVE RInv'
    OBVIOUS
  <1>1. CASE RNext
    <2>1. XInv'
      BY <1>1, XInvStep
    <2>2. JournalTyped' /\ Hand'
      BY <1>1, <2>1, LiveRequestTyped, LiveEndTyped, CallTyped, ReplayTyped, StartTyped,
         CrashTyped DEF RNext, Work
    <2> QED
      BY <2>1, <2>2 DEF RInv, Hand
  <1>2. CASE UNCHANGED rvars
    <2>1. XInv'
      BY <1>2, XInvNext DEF RInv, rvars
    <2> QED
      BY <1>2, <2>1 DEF rvars, xvars, vars, RInv, JournalTyped, MessageInHand, Places
  <1> QED
    BY <1>1, <1>2

LEMMA RecoveryInvariant == RSpec => []RInv
  BY RInvInit, RInvNext, PTL DEF RSpec

\* Over any number of crashes, in the middle of a call, a settlement or a
\* replay, and whatever prefix of the journal is replayed, no balance
\* underflows: replay_order reserves each order's margin again, on accounts
\* that need not be those the live loop had.
THEOREM RecoveryStaysTyped == RSpec => []RTypeOK
  <1>1. RInv => RTypeOK
    BY DEF RInv, XInv, JournalTyped, MessageInHand, Places, RTypeOK
  <1> QED
    BY <1>1, RecoveryInvariant, PTL

\* The books rebuilt by a replay are never crossed either, at any point of it:
\* replay_order skips and fails where the live loop does not, and what it
\* leaves out never lets a bid reach an ask.
THEOREM RecoveredBooksStayUncrossed == RSpec => []Uncrossed
  <1>1. RInit => Uncrossed
    BY DEF RInit, XInit, Init, Uncrossed
  <1>2. RInv /\ Uncrossed /\ [RNext]_rvars => Uncrossed'
    <2> SUFFICES ASSUME RInv, Uncrossed, RNext \/ UNCHANGED rvars PROVE Uncrossed'
      OBVIOUS
    <2>1. CASE [Next]_vars \/ UNCHANGED rvars
      BY <2>1, UncrossedNext DEF RInv, XInv, rvars, xvars
    <2>2. CASE StartLive \/ \E o \in Order : Submit(o)
      BY <2>2 DEF StartLive, Submit, Uncrossed
    <2>3. CASE Init'
      BY <2>3 DEF Init, Uncrossed
    <2> QED
      BY <2>1, <2>2, <2>3, StepOnBooks
  <1> QED
    BY <1>1, <1>2, RecoveryInvariant, PTL DEF RSpec
-----------------------------------------------------------------------------
(* What a message does, as a function of the engine's state: the engine     *)
(* thread has no choice from the moment it takes a message up.              *)

\* Books, funds, the call in hand and its tally.  The answers and the id
\* counter are no part of an engine: nothing that is decided depends on them.
Books(orders, index) == [resting |-> orders, client_index |-> index]

Funds(usd_free, usd_held, asset_free, asset_held) ==
  [usd_available |-> usd_free, usd_locked |-> usd_held,
   asset_available |-> asset_free, asset_locked |-> asset_held]

Call(doing, o, qty, made, answered) ==
  [phase |-> doing, order |-> o, original_qty |-> qty, trades |-> made,
   result |-> answered]

Tally(n, qty, cost) == [settled |-> n, qty |-> qty, cost |-> cost]

Engine(books, funds, call, n) ==
  [books |-> books, funds |-> funds, call |-> call, tally |-> n]

Now ==
  Engine(Books(resting, client_index),
         Funds(usd_available, usd_locked, asset_available, asset_locked),
         Call(phase, order, original_qty, trades, result),
         Tally(settled, total_executed_qty, total_executed_cost))

Engines ==
  [books : [resting : SUBSET Order, client_index : [ClientKeys -> 0..MaxId]],
   funds : [usd_available : [Users -> Nat], usd_locked : [Users -> Nat],
            asset_available : [Holdings -> Nat], asset_locked : [Holdings -> Nat]],
   call : [phase : {"idle", "matching", "done", "cancelled"},
           order : Order \cup {None}, original_qty : 0..MaxQty,
           trades : Seq(Trade), result : Result],
   tally : [settled : Nat, qty : Nat, cost : Nat]]

\* What of an engine a recovery is to rebuild, and an engine that waits with it.
Rebuilt(e) ==
  [resting |-> e.books.resting, client_index |-> e.books.client_index,
   usd_available |-> e.funds.usd_available, usd_locked |-> e.funds.usd_locked,
   asset_available |-> e.funds.asset_available, asset_locked |-> e.funds.asset_locked]

BooksOf(s) == Books(s.resting, s.client_index)

FundsOf(s) == Funds(s.usd_available, s.usd_locked, s.asset_available, s.asset_locked)

Idle(books, funds) ==
  Engine(books, funds, Call("idle", None, 0, << >>, NoResult), Tally(0, 0, 0))

Waiting(s) == Idle(BooksOf(s), FundsOf(s))

-----------------------------------------------------------------------------
\* The funds, as the operations of RiskEngine leave them.
Locked(f, o) ==
  IF o.side = "Buy"
  THEN Funds([f.usd_available EXCEPT ![o.user_id] = @ - o.price * o.qty],
             [f.usd_locked EXCEPT ![o.user_id] = @ + o.price * o.qty],
             f.asset_available, f.asset_locked)
  ELSE Funds(f.usd_available, f.usd_locked,
             [f.asset_available EXCEPT ![Asset(o)] = @ - o.qty],
             [f.asset_locked EXCEPT ![Asset(o)] = @ + o.qty])

UsdUnlocked(f, u, amount) ==
  Funds([f.usd_available EXCEPT ![u] = @ + amount],
        [f.usd_locked EXCEPT ![u] = Minus(@, amount)],
        f.asset_available, f.asset_locked)

AssetUnlocked(f, h, qty) ==
  Funds(f.usd_available, f.usd_locked,
        [f.asset_available EXCEPT ![h] = @ + qty],
        [f.asset_locked EXCEPT ![h] = Minus(@, qty)])

Unlocked(f, o, qty) ==
  IF SideOf(o) = "Buy" THEN UsdUnlocked(f, o.user_id, o.price * qty)
                       ELSE AssetUnlocked(f, Asset(o), qty)

Refunded(f, o, n) ==
  IF SideOf(o) = "Buy"
  THEN UsdUnlocked(f, o.user_id, Minus(o.price * o.qty, n.cost))
  ELSE AssetUnlocked(f, Asset(o), Minus(o.qty, n.qty))

Paid(f, t, limit) ==
  LET cost == t.price * t.qty
      locked == t.qty * (IF t.buyer_id = t.maker_user_id THEN t.price ELSE limit)
  IN  Funds([f.usd_available EXCEPT ![t.buyer_id] = @ + Minus(locked, cost),
                                    ![t.seller_id] = @ + cost],
            [f.usd_locked EXCEPT ![t.buyer_id] = Minus(@, locked)],
            [f.asset_available EXCEPT ![<<t.buyer_id, t.symbol_id>>] = @ + t.qty],
            [f.asset_locked EXCEPT ![<<t.seller_id, t.symbol_id>>] = Minus(@, t.qty)])

-----------------------------------------------------------------------------
\* The books as an order sees them.
Against(b, o) ==
  {m \in b.resting : m.symbol_id = o.symbol_id /\ SideOf(m) = OtherSide(SideOf(o))}

IsBestAgainst(b, o, m) ==
  m \in Against(b, o) /\ \A other \in Against(b, o) \ {m} : Better(m, other)

BestAgainst(b, o) == CHOOSE m \in Against(b, o) : IsBestAgainst(b, o, m)

MayTrade(b, o) == o.qty > 0 /\ \E m \in Against(b, o) : Crosses(o, m.price)

NoRoom(b, o) ==
  LET orders == {other \in b.resting : other.symbol_id = o.symbol_id}
      prices == {other.price : other \in orders}
  IN  \/ Cardinality(orders) >= MAX_ARENA_ORDERS
      \/ /\ o.price \notin prices
         /\ Cardinality(prices) >= MAX_PRICE_LEVELS

\* The turns of the matching loop, and its ends.
Traded(e, m, qty, books) ==
  Engine(books, e.funds,
         Call("matching", Less(e.call.order, qty), e.call.original_qty,
              Append(e.call.trades, TradeBetween(e.call.order, m, qty)), e.call.result),
         e.tally)

Answered(e, books, r) ==
  Engine(books, e.funds,
         Call("done", e.call.order, e.call.original_qty, e.call.trades, r), e.tally)

Report(c, stp) == Ok(c.original_qty - c.order.qty, c.order.qty, stp)

Matched(e) ==
  LET o == e.call.order
      b == e.books
      m == BestAgainst(b, o)
  IN  IF m.user_id = o.user_id THEN Answered(e, b, Report(e.call, TRUE))
      ELSE IF m.qty > o.qty
      THEN Traded(e, m, o.qty,
                  Books((b.resting \ {m}) \cup {Less(m, o.qty)}, b.client_index))
      ELSE Traded(e, m, m.qty,
                  Books(b.resting \ {m}, [b.client_index EXCEPT ![ClientKey(m)] = 0]))

Placed(e) ==
  LET o == e.call.order
      b == e.books
  IN  IF o.order_type # "Limit" \/ o.qty = 0 THEN Answered(e, b, Report(e.call, FALSE))
      ELSE IF NoRoom(b, o) THEN Answered(e, b, Err("EngineFull"))
      ELSE Answered(e, Books(b.resting \cup {o},
                             [b.client_index EXCEPT ![ClientKey(o)] = o.id]),
                    Report(e.call, FALSE))

\* The settlement of the next trade, and what is given back at the end.
Settled(e) ==
  LET t == e.call.trades[e.tally.settled + 1]
  IN  Engine(e.books, Paid(e.funds, t, e.call.order.price), e.call,
             Tally(e.tally.settled + 1, e.tally.qty + t.qty, e.tally.cost + t.price * t.qty))

Closed(e) ==
  LET o == [e.call.order EXCEPT !.qty = e.call.original_qty]
  IN  IF e.call.result.stp_triggered
      THEN Idle(e.books, Unlocked(e.funds, o, e.call.result.remaining_qty))
      ELSE IF e.call.order.order_type = "Market"
      THEN Idle(e.books, Refunded(e.funds, o, e.tally))
      ELSE Idle(e.books, e.funds)

CancelClosed(e) ==
  IF e.call.result.error = "None"
  THEN Idle(e.books, Unlocked(e.funds, e.call.order, e.call.order.qty))
  ELSE Idle(e.books, e.funds)

\* The engine after its next step.
After(e) ==
  IF e.call.phase = "matching"
  THEN IF MayTrade(e.books, e.call.order) THEN Matched(e) ELSE Placed(e)
  ELSE IF e.call.phase = "done"
  THEN IF e.tally.settled < Len(e.call.trades) THEN Settled(e) ELSE Closed(e)
  ELSE CancelClosed(e)

-----------------------------------------------------------------------------
\* What a reference names on the books, and what of it the user may take off.
NamedIn(b, symbol, ref) == {o \in b.resting : o.symbol_id = symbol /\ o.id = ref}

ResolvedIn(b, m) ==
  IF NamedIn(b, m.symbol_id, m.id) # {} THEN NamedIn(b, m.symbol_id, m.id)
  ELSE IF <<m.user_id, m.symbol_id, m.id>> \in ClientKeys
       THEN NamedIn(b, m.symbol_id, b.client_index[<<m.user_id, m.symbol_id, m.id>>])
       ELSE {}

Own(b, m) == {o \in ResolvedIn(b, m) : o.user_id = m.user_id}

TakenUp(s, o) ==
  Engine(BooksOf(s), Locked(FundsOf(s), o), Call("matching", o, o.qty, << >>, NoResult),
         Tally(0, 0, 0))

Cancelled(s, m) ==
  LET b == BooksOf(s)
      o == CHOOSE o \in Own(b, m) : TRUE
      call(found, r) == Call("cancelled", found, 0, << >>, r)
  IN  IF Own(b, m) # {}
      THEN Engine(Books(b.resting \ {o}, [b.client_index EXCEPT ![ClientKey(o)] = 0]),
                  FundsOf(s), call(o, Ok(0, o.qty, FALSE)), Tally(0, 0, 0))
      ELSE Engine(b, FundsOf(s),
                  call(None, Err(IF ResolvedIn(b, m) = {} THEN "OrderNotFound"
                                                          ELSE "Unauthorized")),
                  Tally(0, 0, 0))

\* The engine that has just taken up a message in a state.
Begin(s, m) == IF IsCancel(m) THEN Cancelled(s, m) ELSE TakenUp(s, m)

\* Whether the order's margin can be reserved there.
Lockable(s, o) ==
  IF o.side = "Buy" THEN o.price # 0 /\ s.usd_available[o.user_id] >= o.price * o.qty
                    ELSE s.asset_available[Asset(o)] >= o.qty

\* Nothing is left in hand between two messages; only a call that settles
\* counts.
Clean ==
  /\ phase = "idle" =>
       order = None /\ original_qty = 0 /\ trades = << >> /\ result = NoResult
  /\ phase # "done" =>
       settled = 0 /\ total_executed_qty = 0 /\ total_executed_cost = 0

\* One engine comes after another: it is in every set of engines that has the
\* other and with each engine that is not idle the one after it.
Follows(a, b) ==
  /\ a \in Engines
  /\ \A S \in SUBSET Engines :
       (/\ a \in S
        /\ \A x \in S : x.call.phase # "idle" /\ After(x) \in Engines => After(x) \in S)
         => b \in S

LEMMA FollowsItself ==
  ASSUME NEW a \in Engines
  PROVE  Follows(a, a)
  BY DEF Follows

LEMMA FollowsOn ==
  ASSUME NEW a, NEW b, Follows(a, b), b.call.phase # "idle", After(b) \in Engines
  PROVE  Follows(a, After(b))
  <1> SUFFICES ASSUME NEW S \in SUBSET Engines, a \in S,
                      \A x \in S : x.call.phase # "idle" /\ After(x) \in Engines => After(x) \in S
               PROVE  After(b) \in S
    BY DEF Follows
  <1>1. b \in S
    BY Zenon DEF Follows
  <1> QED
    BY <1>1

\* A message is done with in one way only.
LEMMA OneEnd ==
  ASSUME NEW a, NEW b \in Engines, NEW c \in Engines,
         Follows(a, b), Follows(a, c), b.call.phase = "idle", c.call.phase = "idle"
  PROVE  b = c
  <1> DEFINE S == {x \in Engines : Follows(x, b)}
  <1>1. a \in S
    BY DEF Follows
  <1>2. ASSUME NEW x \in S, x.call.phase # "idle", After(x) \in Engines
        PROVE  After(x) \in S
    <2>1. SUFFICES ASSUME NEW T \in SUBSET Engines, After(x) \in T,
                          \A y \in T : y.call.phase # "idle" /\ After(y) \in Engines
                                         => After(y) \in T
                   PROVE  b \in T
      BY <1>2 DEF Follows
    <2>2. b \in T \cup {x}
      <3>1. T \cup {x} \in SUBSET Engines /\ x \in T \cup {x}
        OBVIOUS
      <3>2. \A y \in T \cup {x} : y.call.phase # "idle" /\ After(y) \in Engines
                                    => After(y) \in T \cup {x}
        BY <2>1
      <3>3. Follows(x, b)
        OBVIOUS
      <3> QED
        BY <3>1, <3>2, <3>3 DEF Follows
    <2> QED
      BY <1>2, <2>2
  <1>3. c \in S
    <2>1. S \in SUBSET Engines
      OBVIOUS
    <2>2. \A x \in S : x.call.phase # "idle" /\ After(x) \in Engines => After(x) \in S
      BY <1>2
    <2> HIDE DEF S
    <2> QED
      BY <1>1, <2>1, <2>2 DEF Follows
  <1>4. Follows(c, b)
    BY <1>3
  <1>5. {c} \in SUBSET Engines /\ c \in {c}
    OBVIOUS
  <1>6. \A x \in {c} : x.call.phase # "idle" /\ After(x) \in Engines => After(x) \in {c}
    OBVIOUS
  <1>7. b \in {c}
    BY <1>4, <1>5, <1>6 DEF Follows
  <1> QED
    BY <1>7

LEMMA NowTyped == XInv => Now \in Engines
  BY DEF XInv, XTypeOK, TypeOK, RiskTypeOK, Now, Engines, Engine, Books, Funds, Call, Tally

\* What an engine is made of, for the provers.
LEMMA NowParts ==
  /\ Now.books = Books(resting, client_index)
  /\ Now.funds = Funds(usd_available, usd_locked, asset_available, asset_locked)
  /\ Now.call = Call(phase, order, original_qty, trades, result)
  /\ Now.tally = Tally(settled, total_executed_qty, total_executed_cost)
  /\ Now.call.phase = phase /\ Now.call.order = order
  /\ Now.call.original_qty = original_qty /\ Now.call.trades = trades
  /\ Now.call.result = result
  /\ Now.books.resting = resting /\ Now.books.client_index = client_index
  /\ Now.tally.settled = settled /\ Now.tally.qty = total_executed_qty
  /\ Now.tally.cost = total_executed_cost
  /\ Now.funds.usd_available = usd_available /\ Now.funds.usd_locked = usd_locked
  /\ Now.funds.asset_available = asset_available /\ Now.funds.asset_locked = asset_locked
  BY DEF Now, Engine, Books, Funds, Call, Tally

\* The best order is one: ids are unique.
LEMMA OneBest ==
  ASSUME TypeInv, NEW m \in resting, IsBestFor(m, order)
  PROVE  /\ Against(Now.books, order) = OppositeOrders(order)
         /\ BestAgainst(Now.books, order) = m
  <1> DEFINE b == Now.books
  <1>1. Against(b, order) = OppositeOrders(order)
    BY NowParts DEF Against, OppositeOrders
  <1>2. IsBestAgainst(b, order, m) /\ m \in Against(b, order)
    BY <1>1 DEF IsBestAgainst, IsBestFor
  <1>3. ASSUME NEW x \in Against(b, order), IsBestAgainst(b, order, x), x # m
        PROVE  FALSE
    <2>1. Better(x, m) /\ Better(m, x) /\ x \in resting /\ SideOf(m) = SideOf(x)
      BY <1>1, <1>2, <1>3 DEF IsBestAgainst, OppositeOrders
    <2>2. x.price \in Nat /\ m.price \in Nat /\ x.id \in Nat /\ m.id \in Nat
      BY <2>1, OrderTerms DEF TypeInv, TypeOK
    <2> QED
      BY <2>1, <2>2 DEF Better, BetterPrice
  <1> HIDE DEF b
  <1>4. BestAgainst(b, order) = m
    BY <1>2, <1>3 DEF BestAgainst
  <1> QED
    BY <1>1, <1>4 DEF b

LEMMA FillIsAfter ==
  ASSUME TypeInv, NEW m \in resting, FillPartial(m) \/ FillWhole(m) \/ SelfTrade(m),
         UNCHANGED <<accounts, tally>>
  PROVE  Now' = After(Now)
  <1>1. /\ phase = "matching" /\ IsBestFor(m, order) /\ order.qty > 0
        /\ Crosses(order, m.price)
    BY DEF FillPartial, FillWhole, SelfTrade, CanMatch
  <1>2. MayTrade(Now.books, order) /\ BestAgainst(Now.books, order) = m
    BY <1>1, OneBest DEF MayTrade, IsBestFor
  <1>3. After(Now) = Matched(Now)
    BY <1>1, <1>2, NowParts DEF After
  <1>4. UNCHANGED <<usd_available, usd_locked, asset_available, asset_locked,
                    settled, total_executed_qty, total_executed_cost>>
    BY DEF accounts, usd, assets, tally
  <1>5. CASE SelfTrade(m)
    <2>1. Matched(Now) = Answered(Now, Now.books, Report(Now.call, TRUE))
      BY <1>2, <1>5, NowParts DEF Matched, SelfTrade
    <2> QED
      BY <1>3, <1>4, <1>5, <2>1, NowParts DEF SelfTrade, Answer, Answered, Report, Now
  <1>6. CASE FillPartial(m)
    <2>1. Matched(Now) = Traded(Now, m, order.qty,
              Books((resting \ {m}) \cup {Less(m, order.qty)}, client_index))
      BY <1>2, <1>6, NowParts DEF Matched, FillPartial
    <2> QED
      BY <1>1, <1>3, <1>4, <1>6, <2>1, NowParts DEF FillPartial, Executed, Traded, Less, Now
  <1>7. CASE FillWhole(m)
    <2>1. ~(m.qty > order.qty) /\ m.user_id # order.user_id
      BY <1>1, <1>7, OrderTerms DEF FillWhole, TypeInv, TypeOK, InHand
    <2>2. Matched(Now) = Traded(Now, m, m.qty,
              Books(resting \ {m}, [client_index EXCEPT ![ClientKey(m)] = 0]))
      BY <1>2, <2>1, NowParts DEF Matched
    <2> QED
      BY <1>1, <1>3, <1>4, <1>7, <2>2, NowParts DEF FillWhole, Executed, Traded, Less, Now
  <1> QED
    BY <1>5, <1>6, <1>7

LEMMA MatchIsAfter ==
  ASSUME TypeInv, MatchStep
  PROVE  Now' = After(Now) /\ phase = "matching"
  <1>1. UNCHANGED <<accounts, tally>>
    BY DEF MatchStep
  <1>2. CASE \E m \in resting : FillPartial(m) \/ FillWhole(m) \/ SelfTrade(m)
    BY <1>1, <1>2, FillIsAfter DEF FillPartial, FillWhole, SelfTrade, CanMatch
  <1>3. CASE Finish \/ (Rest /\ ~BookFull(order)) \/ (RejectFull /\ BookFull(order))
    <2>1. phase = "matching" /\ MatchingOver
      BY <1>3 DEF Finish, Rest, RejectFull, MatchingOver
    <2>2. order.qty \in Nat
      BY <2>1, OrderTerms DEF TypeInv, InHand
    <2>3. ~MayTrade(Now.books, order)
      BY <2>1, <2>2, NowParts DEF MatchingOver, MayTrade, Against, OppositeOrders
    <2>4. After(Now) = Placed(Now)
      BY <2>1, <2>3, NowParts DEF After
    <2>5. NoRoom(Now.books, order) <=> BookFull(order)
      BY NowParts DEF NoRoom, BookFull, OrdersOf, PricesOf
    <2>6. UNCHANGED <<usd_available, usd_locked, asset_available, asset_locked,
                      settled, total_executed_qty, total_executed_cost>>
      BY <1>1 DEF accounts, usd, assets, tally
    <2>7. ASSUME NEW r, NEW b, Answer(r), b = Books(resting', client_index')
          PROVE  Now' = Answered(Now, b, r)
      BY <2>6, <2>7, NowParts DEF Answer, Answered, Now
    <2>8. CASE Finish
      <3>1. Placed(Now) = Answered(Now, Now.books, Report(Now.call, FALSE))
        BY <2>8, NowParts DEF Placed, Finish
      <3>2. Answer(Report(Now.call, FALSE)) /\ Now.books = Books(resting', client_index')
        BY <2>8, NowParts DEF Finish, Report
      <3> QED
        BY <2>1, <2>4, <2>7, <3>1, <3>2
    <2>9. CASE Rest /\ ~BookFull(order)
      <3>1. ~NoRoom(Now.books, order) /\ order.order_type = "Limit" /\ order.qty # 0
        BY <2>2, <2>5, <2>9 DEF Rest
      <3>2. Placed(Now) = Answered(Now,
               Books(resting \cup {order}, [client_index EXCEPT ![ClientKey(order)] = order.id]),
               Report(Now.call, FALSE))
        BY <3>1, NowParts DEF Placed
      <3>3. Answer(Report(Now.call, FALSE))
        BY <2>9, NowParts DEF Rest, Report
      <3> QED
        BY <2>1, <2>4, <2>7, <2>9, <3>2, <3>3 DEF Rest
    <2>10. CASE RejectFull /\ BookFull(order)
      <3>1. NoRoom(Now.books, order) /\ order.order_type = "Limit" /\ order.qty # 0
        BY <2>2, <2>5, <2>10 DEF RejectFull
      <3>2. Placed(Now) = Answered(Now, Now.books, Err("EngineFull"))
        BY <3>1, NowParts DEF Placed
      <3>3. Answer(Err("EngineFull")) /\ Now.books = Books(resting', client_index')
        BY <2>10, NowParts DEF RejectFull
      <3> QED
        BY <2>1, <2>4, <2>7, <3>2, <3>3
    <2> QED
      BY <1>3, <2>1, <2>8, <2>9, <2>10
  <1> QED
    BY <1>2, <1>3 DEF MatchStep

LEMMA SettleIsAfter ==
  ASSUME SettleNext
  PROVE  Now' = After(Now) /\ phase = "done"
  <1>1. After(Now) = Settled(Now) /\ phase = "done"
    BY NowParts DEF SettleNext, After
  <1>2. Now'.books = Now.books /\ Now'.call = Now.call
    BY DEF SettleNext, vars, Now, Engine, Books, Call
  <1>3. SettleTrade(trades[settled + 1], order.price)
    BY DEF SettleNext
  <1>4. Funds(usd_available', usd_locked', asset_available', asset_locked')
          = Paid(Now.funds, trades[settled + 1], order.price)
    BY <1>3, NowParts DEF SettleTrade, Paid
  <1>5. Now' = Engine(Now.books, Paid(Now.funds, trades[settled + 1], order.price), Now.call,
                 Tally(settled', total_executed_qty', total_executed_cost'))
    BY <1>2, <1>4 DEF Now, Engine
  <1> QED
    BY <1>1, <1>5, NowParts DEF Settled, SettleNext

\* Unlocking and refunding.
LEMMA UnlockIsUnlocked ==
  ASSUME NEW o, NEW qty, UnlockFunds(o, qty)
  PROVE  Funds(usd_available', usd_locked', asset_available', asset_locked')
           = Unlocked(Now.funds, o, qty)
  BY NowParts DEF UnlockFunds, UnlockUsd, UnlockAsset, Unlocked, UsdUnlocked, AssetUnlocked,
     usd, assets

LEMMA RefundIsRefunded ==
  ASSUME NEW o, RefundRemainder(o, total_executed_qty, total_executed_cost)
  PROVE  Funds(usd_available', usd_locked', asset_available', asset_locked')
           = Refunded(Now.funds, o, Now.tally)
  BY NowParts DEF RefundRemainder, UnlockUsd, UnlockAsset, Refunded, UsdUnlocked,
     AssetUnlocked, usd, assets

\* A call that returns leaves an engine that waits.
LEMMA ReturnIsIdle ==
  ASSUME Return, settled' = 0, total_executed_qty' = 0, total_executed_cost' = 0
  PROVE  /\ Now' = Idle(Now.books, Funds(usd_available', usd_locked', asset_available',
                                         asset_locked'))
         /\ phase' = "idle"
  BY NowParts DEF Return, Now, Idle

LEMMA OrderClosed ==
  ASSUME ReturnLimit \/ ReturnSelfTrade \/ ReturnMarket, settled \in Nat
  PROVE  Now' = After(Now) /\ phase = "done" /\ phase' = "idle"
  <1> DEFINE F == Funds(usd_available', usd_locked', asset_available', asset_locked')
  <1>1. /\ phase = "done" /\ settled = Len(trades) /\ Return /\ ResetTally
        /\ result.error = "None"
    BY DEF ReturnLimit, ReturnSelfTrade, ReturnMarket, AllSettled
  <1>2. After(Now) = Closed(Now)
    BY <1>1, NowParts DEF After
  <1>3. Now' = Idle(Now.books, F) /\ phase' = "idle"
    BY <1>1, ReturnIsIdle DEF ResetTally
  <1>4. CASE ReturnLimit
    <2>1. F = Now.funds
      BY <1>4, NowParts DEF ReturnLimit, accounts, usd, assets
    <2> QED
      BY <1>1, <1>2, <1>3, <1>4, <2>1, NowParts DEF ReturnLimit, Closed
  <1>5. CASE ReturnSelfTrade
    <2>1. F = Unlocked(Now.funds, Submitted, result.remaining_qty)
      BY <1>5, UnlockIsUnlocked DEF ReturnSelfTrade
    <2> HIDE DEF F
    <2> QED
      BY <1>1, <1>2, <1>3, <1>5, <2>1, NowParts DEF ReturnSelfTrade, Closed, Submitted
  <1>6. CASE ReturnMarket
    <2>1. F = Refunded(Now.funds, Submitted, Now.tally)
      BY <1>6, RefundIsRefunded DEF ReturnMarket
    <2> HIDE DEF F
    <2> QED
      BY <1>1, <1>2, <1>3, <1>6, <2>1, NowParts DEF ReturnMarket, Closed, Submitted
  <1> QED
    BY <1>1, <1>3, <1>4, <1>5, <1>6

LEMMA CancelIsClosed ==
  ASSUME ReturnCancelOk \/ ReturnCancelRejected, Clean
  PROVE  Now' = After(Now) /\ phase = "cancelled" /\ phase' = "idle"
  <1> DEFINE F == Funds(usd_available', usd_locked', asset_available', asset_locked')
  <1>1. phase = "cancelled" /\ Return /\ UNCHANGED tally
    BY DEF ReturnCancelOk, ReturnCancelRejected
  <1>2. After(Now) = CancelClosed(Now)
    BY <1>1, NowParts DEF After
  <1>3. settled' = 0 /\ total_executed_qty' = 0 /\ total_executed_cost' = 0
    BY <1>1 DEF Clean, tally
  <1>4. Now' = Idle(Now.books, F) /\ phase' = "idle"
    BY <1>1, <1>3, ReturnIsIdle
  <1>5. CASE ReturnCancelOk
    <2>1. F = Unlocked(Now.funds, order, order.qty)
      BY <1>5, UnlockIsUnlocked DEF ReturnCancelOk
    <2> HIDE DEF F
    <2> QED
      BY <1>1, <1>2, <1>4, <1>5, <2>1, NowParts DEF ReturnCancelOk, CancelClosed
  <1>6. CASE ReturnCancelRejected
    <2>1. F = Now.funds
      BY <1>6, NowParts DEF ReturnCancelRejected, accounts, usd, assets
    <2> QED
      BY <1>1, <1>2, <1>4, <1>6, <2>1, NowParts DEF ReturnCancelRejected, CancelClosed
  <1> QED
    BY <1>1, <1>4, <1>5, <1>6

\* Between two messages an engine is its state.
LEMMA CleanWaits == Clean /\ phase = "idle" => Now = Waiting(State)
  BY DEF Clean, Now, Waiting, Idle, BooksOf, FundsOf, State, Books, Funds

LEMMA NowRebuilt == Rebuilt(Now) = State
  BY NowParts DEF Rebuilt, State

LEMMA OrderIsNoCancel ==
  ASSUME NEW o \in Order
  PROVE  ~IsCancel(o)
  <1>1. "client_order_id" \in DOMAIN o
    BY DEF Order
  <1>2. \A m \in CancelRequest : "client_order_id" \notin DOMAIN m
    BY DEF CancelRequest
  <1> QED
    BY <1>1, <1>2 DEF IsCancel

LEMMA CleanInit == RInit => Clean
  BY DEF RInit, XInit, Init, Clean

LEMMA CleanReturn ==
  ASSUME Clean, Return, ResetTally \/ (UNCHANGED tally /\ phase = "cancelled")
  PROVE  Clean'
  BY DEF Clean, Return, ResetTally, tally

LEMMA CleanNext ==
  ASSUME RInv, Clean, [RNext]_rvars
  PROVE  Clean'
  <1>1. CASE UNCHANGED <<vars, tally>>
    BY <1>1 DEF Clean, vars, tally
  <1>2. CASE \E o \in Order : Submit(o) /\ UNCHANGED tally
    BY <1>2 DEF Clean, Submit, tally
  <1>3. CASE CancelAny /\ UNCHANGED tally
    <2>1. phase = "idle" /\ phase' = "cancelled"
      BY <1>3 DEF CancelAny, CancelOk, CancelUnauthorized, CancelNotFound, CancelAnswer
    <2> QED
      BY <1>3, <2>1 DEF Clean, tally
  <1>4. CASE MatchStep
    <2>1. phase = "matching" /\ phase' \in {"matching", "done"} /\ UNCHANGED tally
      BY <1>4 DEF MatchStep, FillPartial, FillWhole, SelfTrade, Finish, Rest, RejectFull,
         Answer, Executed, CanMatch, MatchingOver
    <2> QED
      BY <2>1 DEF Clean, tally
  <1>5. CASE SettleNext
    BY <1>5 DEF Clean, SettleNext, vars
  <1>6. CASE Return /\ (ResetTally \/ (UNCHANGED tally /\ phase = "cancelled"))
    BY <1>6, CleanReturn
  <1>7. CASE [XNext]_xvars
    <2>1. CASE \E o \in Submissions : AcceptOrder(o)
      BY <1>2, <2>1 DEF AcceptOrder, Submissions, Order
    <2>2. CASE \/ ReturnLimit \/ ReturnSelfTrade \/ ReturnMarket \/ ReturnFull
               \/ ReturnCancelOk \/ ReturnCancelRejected
      BY <1>6, <2>2 DEF ReturnLimit, ReturnSelfTrade, ReturnMarket, ReturnFull,
         ReturnCancelOk, ReturnCancelRejected
    <2>3. CASE CancelStep
      BY <1>3, <2>3 DEF CancelStep
    <2>4. CASE UNCHANGED xvars \/ \E o \in Submissions : RejectOrder(o)
      BY <1>1, <2>4 DEF xvars, RejectOrder
    <2> QED
      BY <1>4, <1>5, <1>7, <2>1, <2>2, <2>3, <2>4 DEF XNext, EngineStep
  <1>8. CASE ReplayDeposit
    BY <1>1, <1>8 DEF ReplayDeposit
  <1>9. CASE ReplayAccept
    <2>1. Entry \in Order
      BY <1>9, EntryIsMessage DEF ReplayAccept, RInv
    <2> QED
      BY <1>2, <1>9, <2>1 DEF ReplayAccept
  <1>10. CASE ReplayFull
    BY <1>6, <1>10 DEF ReplayFull
  <1>11. CASE ReplayCancel
    <2>1. CancelAny
      BY <1>11 DEF ReplayCancel, CancelAny, IsCancel, CancelRequest
    <2> QED
      BY <1>3, <1>11, <2>1 DEF ReplayCancel
  <1>12. CASE StartLive
    BY <1>12 DEF StartLive, Clean, tally
  <1>13. CASE Crash
    BY <1>13 DEF Crash, ResetTally, Clean
  <1>14. CASE UNCHANGED rvars
    BY <1>7, <1>14 DEF rvars
  <1> QED
    BY <1>7, <1>8, <1>9, <1>10, <1>11, <1>12, <1>13, <1>14, StepOnEngine

-----------------------------------------------------------------------------
\* A message that is taken up begins as Begin says.
LEMMA OrderBegins ==
  ASSUME Clean, NEW o \in Order, Submit(o), LockFunds(o), UNCHANGED tally
  PROVE  Now' = Begin(State, o) /\ phase' = "matching"
  <1>1. /\ phase = "idle" /\ phase' = "matching" /\ order' = o /\ original_qty' = o.qty
        /\ trades' = << >> /\ result' = NoResult /\ UNCHANGED <<resting, client_index>>
        /\ settled' = 0 /\ total_executed_qty' = 0 /\ total_executed_cost' = 0
    BY DEF Submit, Clean, tally
  <1>2. Funds(usd_available', usd_locked', asset_available', asset_locked')
          = Locked(FundsOf(State), o)
    BY DEF LockFunds, Locked, FundsOf, State, Funds, usd, assets
  <1>3. Now' = Engine(Books(resting, client_index), Locked(FundsOf(State), o),
                      Call("matching", o, o.qty, << >>, NoResult), Tally(0, 0, 0))
    BY <1>1, <1>2 DEF Now
  <1>4. Begin(State, o) = TakenUp(State, o)
    BY OrderIsNoCancel DEF Begin
  <1> QED
    BY <1>1, <1>3, <1>4 DEF TakenUp, BooksOf, State

LEMMA LockErrorIsLockable ==
  ASSUME NEW o \in Order, RiskTypeOK
  PROVE  LockError(o) = "None" <=> Lockable(State, o)
  <1>1. /\ o.price \in Nat /\ o.qty \in Nat /\ o.user_id \in Users /\ Asset(o) \in Holdings
    BY OrderIsNat, OrderTerms DEF Asset, Holdings
  <1>2. /\ usd_available[o.user_id] \in Nat /\ asset_available[Asset(o)] \in Nat
        /\ o.price * o.qty \in Nat
    BY <1>1, ProductIsNat DEF RiskTypeOK
  <1>3. State.usd_available = usd_available /\ State.asset_available = asset_available
    BY DEF State
  <1>4. PICK c \in Nat : c = o.price * o.qty
    BY <1>2
  <1>5. CASE o.side = "Buy"
    BY <1>1, <1>2, <1>3, <1>4, <1>5 DEF LockError, Lockable
  <1>6. CASE o.side # "Buy"
    BY <1>1, <1>2, <1>3, <1>6 DEF LockError, Lockable
  <1> QED
    BY <1>5, <1>6

\* Cancellations: what is found is at most one order, since ids are unique.
LEMMA CancelBegins ==
  ASSUME TypeInv, Clean, NEW m \in CancelRequest, UNCHANGED <<accounts, tally>>,
         \/ CancelOk(m.user_id, m.symbol_id, m.id)
         \/ CancelUnauthorized(m.user_id, m.symbol_id, m.id)
         \/ CancelNotFound(m.user_id, m.symbol_id, m.id)
  PROVE  Now' = Begin(State, m) /\ phase' = "cancelled"
  <1> DEFINE b == BooksOf(State)
             found == Resolved(m.user_id, m.symbol_id, m.id)
  <1>1. b.resting = resting /\ b.client_index = client_index
        /\ b = Books(resting, client_index)
    BY DEF BooksOf, Books, State
  <1>2. ResolvedIn(b, m) = found
    BY <1>1 DEF ResolvedIn, Resolved, NamedIn, Named
  <1>3. Own(b, m) = {o \in found : o.user_id = m.user_id}
    BY <1>2 DEF Own
  <1>4. Begin(State, m) = Cancelled(State, m)
    BY DEF Begin, IsCancel
  <1>5. \A x, y \in found : x = y
    BY DEF Resolved, Named, TypeInv, IdsUnique
  <1>6. /\ phase' = "cancelled" /\ trades' = << >> /\ original_qty' = 0
        /\ settled' = 0 /\ total_executed_qty' = 0 /\ total_executed_cost' = 0
    BY DEF CancelOk, CancelUnauthorized, CancelNotFound, CancelAnswer, Clean, tally
  <1>7. /\ Funds(usd_available', usd_locked', asset_available', asset_locked')
             = FundsOf(State)
    BY DEF FundsOf, State, Funds, accounts, usd, assets
  <1>8. Now' = Engine(Books(resting', client_index'), FundsOf(State),
                      Call("cancelled", order', 0, << >>, result'), Tally(0, 0, 0))
    BY <1>6, <1>7 DEF Now
  <1> HIDE DEF b, found
  <1>9. CASE CancelOk(m.user_id, m.symbol_id, m.id)
    <2>1. PICK o \in found : /\ o.user_id = m.user_id
                             /\ resting' = resting \ {o}
                             /\ client_index' = [client_index EXCEPT ![ClientKey(o)] = 0]
                             /\ order' = o /\ result' = Ok(0, o.qty, FALSE)
      BY <1>9 DEF CancelOk, CancelAnswer, found
    <2>2. Own(b, m) # {} /\ (CHOOSE x \in Own(b, m) : TRUE) = o
      BY <1>3, <1>5, <2>1
    <2>3. Cancelled(State, m)
            = Engine(Books(resting \ {o}, [client_index EXCEPT ![ClientKey(o)] = 0]),
                     FundsOf(State), Call("cancelled", o, 0, << >>, Ok(0, o.qty, FALSE)),
                     Tally(0, 0, 0))
      BY <1>1, <2>2 DEF Cancelled, b
    <2> QED
      BY <1>4, <1>6, <1>8, <2>1, <2>3
  <1>10. CASE CancelUnauthorized(m.user_id, m.symbol_id, m.id)
    <2>1. PICK o \in found : o.user_id # m.user_id
      BY <1>10 DEF CancelUnauthorized, found
    <2>2. Own(b, m) = {} /\ ResolvedIn(b, m) # {}
      BY <1>2, <1>3, <1>5, <2>1
    <2>3. /\ order' = None /\ result' = Err("Unauthorized")
          /\ UNCHANGED <<resting, client_index>>
      BY <1>10 DEF CancelUnauthorized, CancelAnswer
    <2>4. Cancelled(State, m)
            = Engine(b, FundsOf(State), Call("cancelled", None, 0, << >>, Err("Unauthorized")),
                     Tally(0, 0, 0))
      BY <2>2 DEF Cancelled, b
    <2> QED
      BY <1>1, <1>4, <1>6, <1>8, <2>3, <2>4
  <1>11. CASE CancelNotFound(m.user_id, m.symbol_id, m.id)
    <2>1. found = {}
      BY <1>11 DEF CancelNotFound, found
    <2>2. Own(b, m) = {} /\ ResolvedIn(b, m) = {}
      BY <1>2, <1>3, <2>1
    <2>3. /\ order' = None /\ result' = Err("OrderNotFound")
          /\ UNCHANGED <<resting, client_index>>
      BY <1>11 DEF CancelNotFound, CancelAnswer
    <2>4. Cancelled(State, m)
            = Engine(b, FundsOf(State), Call("cancelled", None, 0, << >>, Err("OrderNotFound")),
                     Tally(0, 0, 0))
      BY <2>2 DEF Cancelled, b
    <2> QED
      BY <1>1, <1>4, <1>6, <1>8, <2>3, <2>4
  <1> QED
    BY <1>9, <1>10, <1>11


-----------------------------------------------------------------------------
(* What the journal says of the engine.                                     *)

\* Up to there every message is replayed as it was processed.
Exact(i) == inexact \cap 1..i = {}

\* The state after so many messages.
Initially ==
  [resting |-> {}, client_index |-> [k \in ClientKeys |-> 0],
   usd_available |-> [u \in Users |-> InitialUsd], usd_locked |-> [u \in Users |-> 0],
   asset_available |-> [h \in Holdings |-> InitialAssets],
   asset_locked |-> [h \in Holdings |-> 0]]

StateAt(i) == IF i = 0 THEN Initially ELSE states[i]

\* How many messages are done with, and whether the next is yet to come.  A
\* live cancellation that failed is no message of the journal.
Base == IF mode = "live" THEN Len(states) ELSE replayed

Waits ==
  \/ phase = "idle"
  \/ mode = "live" /\ phase = "cancelled" /\ result.error # "None"

\* The note of a message is what processing it on the note before comes to.
Noted(i) ==
  \E e \in Engines :
    /\ e.call.phase = "idle"
    /\ Follows(Begin(StateAt(i - 1), journal[i]), e)
    /\ Rebuilt(e) = states[i]

NotesHold == \A i \in 1..Len(states) : Exact(i) => Noted(i)

\* An order was journaled when its margin was reserved.
OrdersWereLockable ==
  \A i \in 1..Len(journal) :
    ~IsCancel(journal[i]) /\ Exact(i - 1) => Lockable(StateAt(i - 1), journal[i])

HandIsNext ==
  /\ phase \in {"matching", "done"} \/ (mode = "replay" /\ phase # "idle") =>
       Base + 1 <= Len(journal) /\ message = journal[Base + 1]
  /\ mode = "live" /\ phase = "cancelled" /\ result.error = "None" => IsCancel(message)

\* The engine is where the notes and the message in hand lead.
OnTheWay ==
  Exact(Base) =>
    IF Waits THEN State = StateAt(Base) ELSE Follows(Begin(StateAt(Base), message), Now)

Notes == NotesHold /\ OrdersWereLockable

Agrees == Notes /\ HandIsNext /\ OnTheWay

-----------------------------------------------------------------------------
LEMMA Counts ==
  ASSUME RInv
  PROVE  /\ journal \in Seq(Message) /\ Len(journal) \in Nat
         /\ states \in Seq(States) /\ Len(states) \in Nat
         /\ Len(journal) - 1 <= Len(states) /\ Len(states) <= Len(journal)
         /\ Base \in 0..Len(states)
  BY DEF RInv, JournalTyped, Places, Base

LEMMA NextNow == (XInv' => Now' \in Engines) /\ Rebuilt(Now)' = State'
  <1>1. (Rebuilt(Now) = State)' /\ (XInv => Now \in Engines)'
    BY NowRebuilt, NowTyped, PTL
  <1> QED
    BY <1>1

\* What is noted stays noted while journal and notes grow or are cut off.
LEMMA NotesStay ==
  ASSUME Notes, NEW j \in 0..Len(journal), NEW k \in 0..Len(states),
         j - 1 <= k, k <= j, Len(journal) \in Nat, Len(states) \in Nat,
         \A i \in 1..j : journal'[i] = journal[i],
         \A i \in 1..k : states'[i] = states[i],
         inexact \cap 1..j \subseteq inexact'
  PROVE  /\ \A i \in 1..k : Exact(i)' => Noted(i)'
         /\ \A i \in 1..j : ~IsCancel(journal'[i]) /\ Exact(i - 1)'
                              => Lockable(StateAt(i - 1)', journal'[i])
         /\ \A i \in 0..k : StateAt(i)' = StateAt(i)
  <1>1. \A i \in 0..k : StateAt(i)' = StateAt(i)
    BY DEF StateAt, Initially
  <1>2. \A i \in 0..j : Exact(i)' => Exact(i)
    BY DEF Exact
  <1>3. ASSUME NEW i \in 1..k, Exact(i)'
        PROVE  Noted(i)'
    <2>1. Noted(i)
      BY <1>2, <1>3 DEF Notes, NotesHold
    <2>2. /\ journal'[i] = journal[i] /\ states'[i] = states[i]
          /\ StateAt(i - 1)' = StateAt(i - 1)
      BY <1>1
    <2> QED
      BY <2>1, <2>2 DEF Noted
  <1>4. ASSUME NEW i \in 1..j, ~IsCancel(journal'[i]), Exact(i - 1)'
        PROVE  Lockable(StateAt(i - 1)', journal'[i])
    <2>1. journal'[i] = journal[i] /\ StateAt(i - 1)' = StateAt(i - 1) /\ Exact(i - 1)
      BY <1>1, <1>2, <1>4
    <2> QED
      BY <1>4, <2>1 DEF Notes, OrdersWereLockable
  <1> QED
    BY <1>1, <1>3, <1>4

LEMMA NotesUnchanged ==
  ASSUME RInv, Notes, UNCHANGED <<journal, states>>, inexact \subseteq inexact'
  PROVE  Notes' /\ \A i \in 0..Len(states) : StateAt(i)' = StateAt(i)
  BY Counts, NotesStay DEF Notes, NotesHold, OrdersWereLockable

-----------------------------------------------------------------------------
\* A message is done with, in either mode: its note is the state it came to,
\* or the state it comes to again.
LEMMA DoneAgrees ==
  ASSUME RInv, XInv', Agrees, Done, phase' = "idle",
         mode = "live" => phase \in {"matching", "done"},
         mode = "replay" => replayed < Len(journal),
         inexact \subseteq inexact',
         inexact' \cap 1..Place = {} =>
           Follows(Begin(StateAt(Base), journal[Base + 1]), Now')
  PROVE  Agrees'
  <1>1. Place = Base + 1 /\ Place \in 1..Len(journal) /\ mode \in {"live", "replay"}
    BY Counts DEF RInv, JournalTyped, Places, Place, Base
  <1>2. Base' = Place /\ Waits' /\ HandIsNext' /\ journal' = journal
    <2>1. mode = "live" => Place > Len(states) /\ Len(states') = Len(states) + 1
      BY Counts, AppendProperties DEF Done, RInv, Places, Place
    <2> QED
      BY <1>1, <2>1 DEF Done, Place, Base, Waits, HandIsNext
  <1>3. Now' \in Engines /\ Now'.call.phase = "idle" /\ Rebuilt(Now') = State'
    <2>1. Now'.call.phase = phase'
      BY DEF Now, Engine, Call
    <2> QED
      BY <2>1, NextNow
  <1>4. PICK p \in 1..Len(journal) : p = Place /\ p = Base + 1
    BY <1>1
  <1>5. Exact(p)' => Follows(Begin(StateAt(p - 1), journal[p]), Now')
    BY <1>4, Counts DEF Exact
  <1>6. CASE Place <= Len(states)
    <2>1. UNCHANGED <<journal, states>>
      BY <1>6, Counts, <1>1 DEF Done
    <2>2. Notes' /\ StateAt(p)' = StateAt(p)
      BY <1>4, <1>6, <2>1, NotesUnchanged, Counts DEF Agrees
    <2>3. Exact(p)' => State' = StateAt(p)
      <3> SUFFICES ASSUME Exact(p)' PROVE State' = StateAt(p)
        OBVIOUS
      <3>1. Noted(p)
        <4>1. Exact(p)
          BY DEF Exact
        <4> QED
          BY <1>4, <1>6, <4>1, Counts DEF Agrees, Notes, NotesHold
      <3>2. PICK e \in Engines : /\ e.call.phase = "idle"
                                 /\ Follows(Begin(StateAt(p - 1), journal[p]), e)
                                 /\ Rebuilt(e) = states[p]
        BY <3>1 DEF Noted
      <3>3. Follows(Begin(StateAt(p - 1), journal[p]), Now')
        BY <1>5
      <3>4. e = Now'
        BY ONLY <1>3, <3>2, <3>3, OneEnd
      <3> QED
        BY <1>3, <1>4, <3>2, <3>4 DEF StateAt
    <2>4. OnTheWay'
      BY <1>2, <1>4, <2>2, <2>3 DEF OnTheWay
    <2> QED
      BY <1>2, <2>2, <2>4 DEF Agrees
  <1>7. CASE Place > Len(states)
    <2>1. /\ states' = Append(states, State') /\ Len(states') = Len(states) + 1
          /\ p = Len(states) + 1 /\ Len(journal) = p /\ states'[p] = State'
          /\ \A i \in 1..Len(states) : states'[i] = states[i]
      BY <1>1, <1>4, <1>7, Counts, AppendProperties DEF Done
    <2>2. /\ \A i \in 1..Len(states) : Exact(i)' => Noted(i)'
          /\ \A i \in 1..Len(journal) : ~IsCancel(journal'[i]) /\ Exact(i - 1)'
                                          => Lockable(StateAt(i - 1)', journal'[i])
          /\ \A i \in 0..Len(states) : StateAt(i)' = StateAt(i)
      <3>1. /\ Notes /\ Len(states) \in 0..Len(states) /\ Len(journal) \in 0..Len(journal)
            /\ inexact \cap 1..Len(journal) \subseteq inexact'
        BY Counts DEF Agrees
      <3> QED
        BY <1>2, <2>1, <3>1, NotesStay, Counts
    <2>3. StateAt(p)' = State' /\ StateAt(p - 1)' = StateAt(p - 1)
      BY <2>1, <2>2, Counts DEF StateAt
    <2>4. Exact(p)' => Noted(p)'
      BY <1>2, <1>3, <1>5, <2>1, <2>3 DEF Noted
    <2>5. Notes'
      BY <1>2, <2>1, <2>2, <2>4, Counts DEF Notes, NotesHold, OrdersWereLockable
    <2>6. OnTheWay'
      BY <1>2, <1>4, <2>3 DEF OnTheWay
    <2> QED
      BY <1>2, <2>5, <2>6 DEF Agrees
  <1> QED
    BY <1>1, <1>6, <1>7, Counts

\* A message is taken up while the engine waits: from there on it is followed.
LEMMA BeginAgrees ==
  ASSUME RInv, XInv', Agrees, Waits, ~Waits', Notes', HandIsNext', Base' = Base,
         Exact(Base)' => Exact(Base),
         StateAt(Base)' = StateAt(Base), NEW m, message' = m, Now' = Begin(State, m)
  PROVE  Agrees'
  <1>1. PICK n \in Nat : n = Base
    BY Counts
  <1>2. Base' = n /\ StateAt(n)' = StateAt(n) /\ (Exact(n)' => Exact(n))
    BY <1>1
  <1>3. Exact(n)' => Follows(Begin(StateAt(n), m), Now')
    <2>1. Exact(n)' => State = StateAt(n)
      BY <1>1, <1>2 DEF Agrees, OnTheWay
    <2>2. Follows(Now', Now')
      BY NextNow, FollowsItself
    <2> QED
      BY <2>1, <2>2
  <1>4. OnTheWay'
    BY <1>2, <1>3 DEF OnTheWay
  <1> QED
    BY <1>4 DEF Agrees

LEMMA LiveAcceptAgrees ==
  ASSUME RInv, XInv', Clean, Agrees, Receive, NEW o \in Submissions, LiveAccept(o)
  PROVE  Agrees'
  <1>1. /\ mode = "live" /\ phase = "idle" /\ mode' = "live" /\ o \in Order
        /\ Submit(o) /\ LockFunds(o) /\ LockError(o) = "None" /\ UNCHANGED tally
        /\ journal' = Append(journal, o) /\ states' = states /\ inexact' = inexact
        /\ message' = o
    BY DEF Receive, LiveAccept, AcceptOrder, Submissions, Order
  <1>2. Now' = Begin(State, o) /\ phase' = "matching"
    BY <1>1, OrderBegins
  <1>3. Len(states) = Len(journal) /\ Base = Len(states) /\ Base' = Len(states)
    BY <1>1 DEF RInv, Places, Base
  <1>4. /\ Len(journal') = Len(journal) + 1 /\ journal'[Len(journal) + 1] = o
        /\ \A i \in 1..Len(journal) : journal'[i] = journal[i]
    BY <1>1, Counts, AppendProperties
  <1>5. Waits /\ ~Waits'
    BY <1>1, <1>2 DEF Waits
  <1>6. HandIsNext'
    BY <1>1, <1>2, <1>3, <1>4 DEF HandIsNext
  <1>7. /\ \A i \in 1..Len(states) : Exact(i)' => Noted(i)'
        /\ \A i \in 1..Len(journal) : ~IsCancel(journal'[i]) /\ Exact(i - 1)'
                                        => Lockable(StateAt(i - 1)', journal'[i])
        /\ \A i \in 0..Len(states) : StateAt(i)' = StateAt(i)
    <2>1. /\ Notes /\ Len(states) \in 0..Len(states) /\ Len(journal) \in 0..Len(journal)
          /\ inexact \cap 1..Len(journal) \subseteq inexact'
          /\ \A i \in 1..Len(states) : states'[i] = states[i]
      BY <1>1, Counts DEF Agrees
    <2> QED
      BY <1>3, <1>4, <2>1, NotesStay, Counts
  <1>8. PICK n \in Nat : n = Len(journal)
    BY Counts
  <1>9. Exact(n)' => Lockable(StateAt(n)', o)
    <2>1. Exact(n)' => Exact(n)
      BY <1>1 DEF Exact
    <2>2. Exact(n) => State = StateAt(n)
      BY <1>3, <1>5, <1>8 DEF Agrees, OnTheWay
    <2>3. Lockable(State, o)
      BY <1>1, LockErrorIsLockable DEF RInv, XInv, XTypeOK
    <2>4. StateAt(n)' = StateAt(n)
      BY <1>3, <1>7, <1>8
    <2> QED
      BY <2>1, <2>2, <2>3, <2>4
  <1>10. OrdersWereLockable'
    <2>1. ASSUME NEW i \in 1..n + 1, ~IsCancel(journal'[i]), Exact(i - 1)'
          PROVE  Lockable(StateAt(i - 1)', journal'[i])
      <3>1. CASE i \in 1..n
        BY <1>7, <1>8, <2>1, <3>1
      <3>2. CASE i = n + 1
        BY <1>4, <1>8, <1>9, <2>1, <3>2
      <3> QED
        BY <3>1, <3>2
    <2>2. Len(journal') = n + 1
      BY <1>4, <1>8
    <2> QED
      BY <2>1, <2>2 DEF OrdersWereLockable
  <1>11. Notes'
    BY <1>1, <1>7, <1>10 DEF Notes, NotesHold
  <1>12. StateAt(Base)' = StateAt(Base) /\ (Exact(Base)' => Exact(Base))
    <2>1. StateAt(n)' = StateAt(n) /\ Base = n /\ Base' = n /\ (Exact(n)' => Exact(n))
      BY <1>1, <1>3, <1>7, <1>8 DEF Exact
    <2> QED
      BY <2>1 DEF StateAt, Exact
  <1> QED
    BY <1>1, <1>2, <1>3, <1>5, <1>6, <1>11, <1>12, BeginAgrees

\* Nothing comes of a step while the engine waits.
LEMMA WaitAgrees ==
  ASSUME RInv, XInv', Agrees, Waits, Waits', phase' \in {"idle", "cancelled"},
         mode = "live" \/ phase' = "idle",
         State' = State, UNCHANGED <<mode, replayed, history>>
  PROVE  Agrees'
  <1>1. /\ UNCHANGED <<journal, states, inexact, mode, replayed>>
    BY DEF history
  <1>2. Notes' /\ \A i \in 0..Len(states) : StateAt(i)' = StateAt(i)
    BY <1>1, NotesUnchanged DEF Agrees
  <1>3. PICK n \in 0..Len(states) : n = Base /\ n = Base'
    BY <1>1, Counts DEF Base
  <1>4. HandIsNext'
    BY <1>1 DEF HandIsNext, Waits
  <1>5. Exact(n)' => State' = StateAt(n)'
    BY <1>1, <1>2, <1>3 DEF Agrees, OnTheWay, Exact
  <1>6. OnTheWay'
    BY <1>3, <1>5 DEF OnTheWay
  <1> QED
    BY <1>2, <1>4, <1>6 DEF Agrees

\* The engine takes its next step with the message in hand.
LEMMA ProcessAgrees ==
  ASSUME RInv, XInv', Agrees, Process
  PROVE  Agrees'
  <1>1. /\ UNCHANGED <<journal, states, inexact, mode, replayed, message>>
        /\ phase \in {"matching", "done"} /\ phase' \in {"matching", "done"}
    BY DEF Process, history, MatchStep, SettleNext, FillPartial, FillWhole, SelfTrade,
       Finish, Rest, RejectFull, Answer, Executed, CanMatch, MatchingOver, vars
  <1>2. Now' = After(Now) /\ Now.call.phase # "idle" /\ Now' \in Engines
    <2>1. TypeInv
      BY DEF RInv, XInv
    <2> QED
      BY <1>1, <2>1, MatchIsAfter, SettleIsAfter, NowParts, NextNow DEF Process
  <1>3. Notes' /\ \A i \in 0..Len(states) : StateAt(i)' = StateAt(i)
    BY <1>1, NotesUnchanged DEF Agrees
  <1>4. PICK n \in 0..Len(states) : n = Base /\ n = Base'
    BY <1>1, Counts DEF Base
  <1>5. ~Waits /\ ~Waits' /\ HandIsNext'
    BY <1>1, <1>4 DEF Waits, HandIsNext, Agrees
  <1>6. Exact(n)' => Follows(Begin(StateAt(n)', message'), Now')
    <2> SUFFICES ASSUME Exact(n)' PROVE Follows(Begin(StateAt(n)', message'), Now')
      OBVIOUS
    <2>1. Exact(n) /\ StateAt(n)' = StateAt(n) /\ message' = message
      BY <1>1, <1>3 DEF Exact
    <2>2. Follows(Begin(StateAt(n), message), Now)
      BY <1>4, <1>5, <2>1 DEF Agrees, OnTheWay
    <2>3. Follows(Begin(StateAt(n), message), After(Now))
      BY ONLY <1>2, <2>2, FollowsOn
    <2> QED
      BY <1>2, <2>1, <2>3
  <1>7. OnTheWay'
    BY <1>4, <1>5, <1>6 DEF OnTheWay
  <1> QED
    BY <1>3, <1>5, <1>7 DEF Agrees

LEMMA LiveCancelAgrees ==
  ASSUME RInv, XInv', Clean, Agrees, Receive,
         NEW user \in Users, NEW symbol \in Symbols, NEW ref \in (1..MaxId) \cup ClientIds,
         LiveCancel(user, symbol, ref)
  PROVE  Agrees'
  <1>1. /\ mode = "live" /\ phase = "idle" /\ Waits /\ UNCHANGED <<accounts, tally>>
        /\ UNCHANGED <<journal, states, inexact, mode, replayed>>
    BY DEF Receive, LiveCancel, Waits, history
  <1> DEFINE m == [user_id |-> user, symbol_id |-> symbol, id |-> ref]
  <1>2. m \in CancelRequest /\ m.user_id = user /\ m.symbol_id = symbol /\ m.id = ref
    BY DEF CancelRequest
  <1> HIDE DEF m
  <1>3. CASE CancelOk(user, symbol, ref) /\ message' = m
    <2>1. Now' = Begin(State, m) /\ phase' = "cancelled"
      BY <1>1, <1>2, <1>3, CancelBegins DEF RInv, XInv
    <2>2. result'.error = "None"
      BY <1>3 DEF CancelOk, CancelAnswer, Ok
    <2>3. ~Waits' /\ HandIsNext'
      BY <1>1, <1>2, <1>3, <2>1, <2>2 DEF Waits, HandIsNext, IsCancel
    <2>4. Notes' /\ \A i \in 0..Len(states) : StateAt(i)' = StateAt(i)
      BY <1>1, NotesUnchanged DEF Agrees
    <2>5. /\ Base' = Base /\ StateAt(Base)' = StateAt(Base)
          /\ (Exact(Base)' => Exact(Base))
      BY <1>1, Counts DEF Base, StateAt, Initially, Exact
    <2> QED
      BY <1>1, <1>3, <2>1, <2>3, <2>4, <2>5, BeginAgrees
  <1>4. CASE CancelUnauthorized(user, symbol, ref) \/ CancelNotFound(user, symbol, ref)
    <2>1. /\ phase' = "cancelled" /\ result'.error # "None"
          /\ UNCHANGED <<resting, client_index>>
      BY <1>4 DEF CancelUnauthorized, CancelNotFound, CancelAnswer, Err
    <2>2. State' = State /\ Waits'
      BY <1>1, <2>1 DEF State, accounts, usd, assets, Waits
    <2> QED
      BY <1>1, <2>1, <2>2, WaitAgrees DEF LiveCancel
  <1> QED
    BY <1>3, <1>4 DEF LiveCancel, m

LEMMA LiveCancelOkAgrees ==
  ASSUME RInv, XInv', Clean, Agrees, LiveCancelOk
  PROVE  Agrees'
  <1>1. /\ mode = "live" /\ mode' = "live" /\ phase = "cancelled" /\ phase' = "idle"
        /\ result.error = "None" /\ inexact' = inexact
        /\ journal' = Append(journal, message) /\ states' = Append(states, State')
    BY DEF LiveCancelOk, ReturnCancelOk, Return
  <1>2. Now' = After(Now) /\ Now.call.phase # "idle" /\ Now' \in Engines
        /\ Now'.call.phase = "idle" /\ Rebuilt(Now') = State'
    <2>1. Now'.call.phase = phase'
      BY DEF Now, Engine, Call
    <2> QED
      BY <1>1, <2>1, CancelIsClosed, NowParts, NextNow DEF LiveCancelOk
  <1>3. PICK n \in Nat : n = Len(states) /\ n = Len(journal) /\ n = Base
    BY <1>1, Counts DEF RInv, Places, Base
  <1>4. /\ Len(journal') = n + 1 /\ journal'[n + 1] = message
        /\ \A i \in 1..n : journal'[i] = journal[i]
        /\ Len(states') = n + 1 /\ states'[n + 1] = State'
        /\ \A i \in 1..n : states'[i] = states[i]
    <2>1. message \in Message
      BY <1>1 DEF RInv, MessageInHand
    <2>2. State' \in States
      BY DEF XInv, XTypeOK, TypeOK, RiskTypeOK, State, States
    <2>3. /\ Len(journal') = Len(journal) + 1 /\ journal'[Len(journal) + 1] = message
          /\ \A i \in 1..Len(journal) : journal'[i] = journal[i]
      BY <1>1, <2>1, Counts, AppendProperties
    <2>4. /\ Len(states') = Len(states) + 1 /\ states'[Len(states) + 1] = State'
          /\ \A i \in 1..Len(states) : states'[i] = states[i]
      BY <1>1, <2>2, Counts, AppendProperties
    <2> QED
      BY ONLY <1>3, <2>3, <2>4
  <1>5. IsCancel(message) /\ ~Waits
    BY <1>1 DEF Agrees, HandIsNext, Waits
  <1>6. /\ \A i \in 1..n : Exact(i)' => Noted(i)'
        /\ \A i \in 1..n : ~IsCancel(journal'[i]) /\ Exact(i - 1)'
                             => Lockable(StateAt(i - 1)', journal'[i])
        /\ \A i \in 0..n : StateAt(i)' = StateAt(i)
    <2>1. /\ Notes /\ n \in 0..Len(states) /\ n \in 0..Len(journal)
          /\ inexact \cap 1..n \subseteq inexact'
      BY <1>1, <1>3 DEF Agrees
    <2> QED
      BY <1>3, <1>4, <2>1, NotesStay, Counts
  <1>7. Exact(n + 1)' => Follows(Begin(StateAt(n)', message), Now')
    <2> SUFFICES ASSUME Exact(n + 1)' PROVE Follows(Begin(StateAt(n)', message), Now')
      OBVIOUS
    <2>1. Exact(n) /\ StateAt(n)' = StateAt(n)
      BY <1>1, <1>3, <1>6 DEF Exact
    <2>2. Follows(Begin(StateAt(n), message), Now)
      BY <1>3, <1>5, <2>1 DEF Agrees, OnTheWay
    <2>3. Follows(Begin(StateAt(n), message), After(Now))
      BY ONLY <1>2, <2>2, FollowsOn
    <2> QED
      BY <1>2, <2>1, <2>3
  <1>8. StateAt(n + 1)' = State'
    BY <1>4 DEF StateAt
  <1>9. Exact(n + 1)' => Noted(n + 1)'
    BY <1>2, <1>4, <1>7 DEF Noted
  <1>10. Notes'
    BY <1>4, <1>5, <1>6, <1>9 DEF Notes, NotesHold, OrdersWereLockable
  <1>11. Base' = n + 1 /\ Waits' /\ HandIsNext'
    BY <1>1, <1>4 DEF Base, Waits, HandIsNext
  <1>12. OnTheWay'
    BY <1>8, <1>11 DEF OnTheWay
  <1> QED
    BY <1>10, <1>11, <1>12 DEF Agrees

LEMMA ReplayBeginAgrees ==
  ASSUME RInv, XInv', Clean, Agrees, ReplayAccept \/ ReplayCancel
  PROVE  Agrees'
  <1>1. /\ mode = "replay" /\ mode' = "replay" /\ phase = "idle" /\ replayed < Len(journal)
        /\ UNCHANGED <<tally, journal, states, inexact, replayed>> /\ message' = Entry
        /\ Waits
    BY DEF ReplayAccept, ReplayCancel, Replaying, history, Waits
  <1>2. Now' = Begin(State, Entry) /\ phase' \in {"matching", "cancelled"}
    <2>1. CASE ReplayAccept
      <3>1. Entry \in Order
        BY <2>1, EntryIsMessage DEF ReplayAccept, RInv
      <3> QED
        BY <2>1, <3>1, OrderBegins DEF ReplayAccept
    <2>2. CASE ReplayCancel
      BY <2>2, CancelBegins DEF ReplayCancel, IsCancel, RInv, XInv
    <2> QED
      BY <2>1, <2>2
  <1>3. ~Waits' /\ HandIsNext'
    BY <1>1, <1>2, Counts DEF Waits, HandIsNext, Base, Entry
  <1>4. Notes' /\ \A i \in 0..Len(states) : StateAt(i)' = StateAt(i)
    BY <1>1, NotesUnchanged DEF Agrees
  <1>5. /\ Base' = Base /\ StateAt(Base)' = StateAt(Base)
        /\ (Exact(Base)' => Exact(Base))
    BY <1>1, Counts DEF Base, StateAt, Initially, Exact
  <1> QED
    BY <1>1, <1>2, <1>3, <1>4, <1>5, BeginAgrees

\* Orders and replayed cancellations come to an end as the engine does.
LEMMA EndAgrees ==
  ASSUME RInv, XInv', Clean, Agrees, FinishOrder \/ ReplayCancelled
  PROVE  Agrees'
  <1>1. /\ Now' = After(Now) /\ Now.call.phase # "idle" /\ Now' \in Engines
        /\ phase # "idle" /\ phase' = "idle" /\ Done
        /\ (mode = "live" => phase = "done")
        /\ inexact \subseteq inexact'
    <2>1. settled \in Nat
      BY DEF RInv, XInv, TallyTypeOK, XTypeOK
    <2> QED
      BY <2>1, OrderClosed, CancelIsClosed, NowParts, NextNow DEF FinishOrder, ReplayCancelled
  <1>2. mode = "replay" => replayed < Len(journal)
    BY <1>1 DEF RInv, Places
  <1>3. ~Waits /\ message = journal[Base + 1] /\ Place = Base + 1
    BY <1>1, Counts DEF RInv, JournalTyped, Places, Waits, Agrees, HandIsNext, Place, Base
  <1>4. inexact' \cap 1..Place = {} => Follows(Begin(StateAt(Base), journal[Base + 1]), Now')
    <2> SUFFICES ASSUME inexact' \cap 1..Place = {}
                 PROVE  Follows(Begin(StateAt(Base), message), Now')
      BY <1>3
    <2>1. Exact(Base)
      BY <1>1, <1>3, Counts DEF Exact
    <2>2. Follows(Begin(StateAt(Base), message), Now)
      BY <1>3, <2>1 DEF Agrees, OnTheWay
    <2>3. Follows(Begin(StateAt(Base), message), After(Now))
      BY ONLY <1>1, <2>2, FollowsOn
    <2> QED
      BY <1>1, <2>3
  <1> QED
    BY <1>1, <1>2, <1>4, DoneAgrees

\* An order that was journaled is passed over only behind a message that the
\* two treat differently.
LEMMA SkipIsMarked ==
  ASSUME RInv, Agrees, ReplaySkip
  PROVE  /\ Place = Base + 1 /\ Place \in 1..Len(journal) /\ inexact' = inexact
         /\ mode = "replay" /\ replayed < Len(journal) /\ phase' = "idle" /\ Done
         /\ inexact' \cap 1..Place # {}
  <1>1. /\ mode = "replay" /\ phase = "idle" /\ phase' = "idle" /\ replayed < Len(journal)
        /\ Base = replayed /\ Entry = journal[Base + 1] /\ ~IsCancel(Entry)
        /\ LockError(Entry) # "None" /\ Entry \in Order /\ inexact' = inexact /\ Done
    BY EntryIsMessage DEF ReplaySkip, Replaying, Base, Entry, RInv, xvars, vars
  <1>2. Place = Base + 1 /\ Place \in 1..Len(journal)
    BY <1>1, Counts DEF Place
  <1>3. ~Lockable(State, Entry)
    BY <1>1, LockErrorIsLockable DEF RInv, XInv, XTypeOK
  <1>4. ~Exact(Base)
    <2> SUFFICES ASSUME Exact(Base) PROVE FALSE
      OBVIOUS
    <2>1. PICK n \in Nat : n = Base
      BY Counts
    <2>2. State = StateAt(n)
      BY <1>1, <2>1 DEF Agrees, OnTheWay, Waits
    <2>3. n + 1 \in 1..Len(journal) /\ journal[n + 1] = Entry /\ (n + 1) - 1 = n
      BY <1>1, <1>2, <2>1
    <2>4. Lockable(StateAt(n), Entry)
      BY <1>1, <2>1, <2>3 DEF Agrees, Notes, OrdersWereLockable
    <2> QED
      BY <1>3, <2>2, <2>4
  <1>5. inexact' \cap 1..Place # {}
    BY <1>1, <1>2, <1>4, Counts DEF Exact
  <1> QED
    BY <1>1, <1>2, <1>5

\* A message that the two treat differently is marked.
LEMMA MarkedAgrees ==
  ASSUME RInv, XInv', Agrees, LiveFull \/ ReplayFull \/ ReplayDeposit \/ ReplaySkip
  PROVE  Agrees'
  <1>1. Place = Base + 1 /\ Place \in 1..Len(journal)
        /\ (mode = "live" => phase \in {"matching", "done"})
        /\ (mode = "replay" => replayed < Len(journal))
        /\ phase' = "idle" /\ Done
    <2>1. CASE LiveFull \/ ReplayFull
      <3>1. phase = "done" /\ phase' = "idle" /\ Done
        BY <2>1 DEF LiveFull, ReplayFull, ReturnFull, Return
      <3> QED
        BY <3>1, Counts DEF RInv, JournalTyped, Places, Place, Base
    <2>2. CASE ReplayDeposit \/ ReplaySkip
      <3>1. phase' = "idle" /\ Done /\ Replaying
        BY <2>2 DEF ReplayDeposit, ReplaySkip, Replaying, xvars, vars
      <3> QED
        BY <3>1, Counts DEF RInv, JournalTyped, Places, Place, Base, Replaying
    <2> QED
      BY <2>1, <2>2
  <1>2. CASE LiveFull \/ ReplayFull \/ ReplayDeposit
    <2>1. inexact' = inexact \cup {Place}
      BY <1>2 DEF LiveFull, ReplayFull, ReplayDeposit
    <2>2. inexact \subseteq inexact' /\ inexact' \cap 1..Place # {}
      BY <1>1, <2>1
    <2> QED
      BY <1>1, <2>2, DoneAgrees
  <1>3. CASE ReplaySkip
    BY <1>1, <1>3, SkipIsMarked, DoneAgrees
  <1> QED
    BY <1>2, <1>3

LEMMA StartAgrees ==
  ASSUME RInv, XInv', Agrees, StartLive
  PROVE  Agrees'
  <1>1. /\ mode = "replay" /\ phase = "idle" /\ phase' = "idle" /\ mode' = "live"
        /\ UNCHANGED <<journal, states, inexact>> /\ State' = State /\ Waits /\ Waits'
    BY DEF StartLive, history, State, accounts, usd, assets, Waits
  <1>2. Notes' /\ \A i \in 0..Len(states) : StateAt(i)' = StateAt(i)
    BY <1>1, NotesUnchanged DEF Agrees
  <1>3. PICK n \in 0..Len(states) : n = Base /\ n = Base'
    BY <1>1, Counts DEF Base, StartLive, RInv, Places
  <1>4. HandIsNext'
    BY <1>1 DEF HandIsNext
  <1>5. Exact(n)' => State' = StateAt(n)'
    BY <1>1, <1>2, <1>3 DEF Agrees, OnTheWay, Exact
  <1>6. OnTheWay'
    BY <1>1, <1>3, <1>5 DEF OnTheWay
  <1> QED
    BY <1>2, <1>4, <1>6 DEF Agrees

\* What a crash leaves of the journal is noted as it was.
LEMMA CrashAgrees ==
  ASSUME RInv, XInv', Agrees, Crash
  PROVE  Agrees'
  <1>1. PICK n \in 0..Len(journal) :
          /\ journal' = SubSeq(journal, 1, n)
          /\ states' = SubSeq(states, 1, IF n < Len(states) THEN n ELSE Len(states))
          /\ inexact' = inexact \cap 1..n
    BY DEF Crash
  <1>2. PICK k \in 0..Len(states) :
          /\ states' = SubSeq(states, 1, k) /\ k <= n /\ n - 1 <= k
    BY <1>1, Counts
  <1>3. Len(journal') = n /\ \A i \in 1..n : journal'[i] = journal[i]
    <2>1. \A i \in 1..n : journal[i] \in Message
      BY Counts, ElementOfSeq
    <2> QED
      BY <1>1, <2>1, SubSeqProperties
  <1>4. Len(states') = k /\ \A i \in 1..k : states'[i] = states[i]
    <2>1. \A i \in 1..k : states[i] \in States
      BY Counts, ElementOfSeq
    <2> QED
      BY <1>2, <2>1, SubSeqProperties
  <1>5. Notes'
    <2>1. inexact \cap 1..n \subseteq inexact' /\ Notes
      BY <1>1 DEF Agrees
    <2>2. /\ \A i \in 1..k : Exact(i)' => Noted(i)'
          /\ \A i \in 1..n : ~IsCancel(journal'[i]) /\ Exact(i - 1)'
                               => Lockable(StateAt(i - 1)', journal'[i])
      BY <1>2, <1>3, <1>4, <2>1, NotesStay, Counts
    <2> QED
      BY <1>3, <1>4, <2>2 DEF Notes, NotesHold, OrdersWereLockable
  <1>6. mode' = "replay" /\ replayed' = 0 /\ phase' = "idle" /\ State' = Initially
    BY DEF Crash, State, Initially
  <1>7. HandIsNext' /\ OnTheWay'
    BY <1>6 DEF HandIsNext, OnTheWay, Base, Waits, StateAt
  <1> QED
    BY <1>5, <1>7 DEF Agrees

LEMMA AgreesInit == RInit => Agrees
  BY DEF RInit, XInit, Init, RiskInit, Agrees, Notes, NotesHold, OrdersWereLockable, HandIsNext,
     OnTheWay, Base, Waits, StateAt, State, Initially

LEMMA AgreesNext ==
  ASSUME RInv, RInv', Clean, Agrees, [RNext]_rvars
  PROVE  Agrees'
  <1>1. XInv'
    BY DEF RInv
  <1>2. CASE \E o \in Submissions : LiveReject(o) /\ Receive
    <2>1. /\ Waits /\ phase' = "idle" /\ Waits' /\ State' = State
          /\ UNCHANGED <<mode, replayed, history>>
      BY <1>2 DEF LiveReject, RejectOrder, Receive, vars, accounts, usd, assets, State, Waits
    <2> QED
      BY <1>1, <2>1, WaitAgrees
  <1>3. CASE LiveCancelRejected
    <2>1. /\ Waits /\ phase' = "idle" /\ Waits' /\ State' = State
          /\ UNCHANGED <<mode, replayed, history>>
      BY <1>3 DEF LiveCancelRejected, ReturnCancelRejected, Return, accounts, usd, assets,
         State, Waits
    <2> QED
      BY <1>1, <2>1, WaitAgrees
  <1>4. CASE UNCHANGED rvars
    <2>1. UNCHANGED <<journal, states, inexact, mode, replayed, message, phase, result>>
          /\ Now' = Now /\ State' = State
      BY <1>4 DEF rvars, xvars, vars, accounts, usd, assets, tally, Now, State
    <2>2. Notes' /\ \A i \in 0..Len(states) : StateAt(i)' = StateAt(i)
      BY <2>1, NotesUnchanged DEF Agrees
    <2> QED
      BY <2>1, <2>2, Counts DEF Agrees, HandIsNext, OnTheWay, Base, Waits, Exact
  <1>5. CASE Receive
    BY <1>1, <1>2, <1>5, LiveAcceptAgrees, LiveCancelAgrees DEF Receive
  <1>6. CASE Work
    BY <1>1, <1>3, <1>6, LiveCancelOkAgrees, ProcessAgrees, EndAgrees, MarkedAgrees,
       ReplayBeginAgrees, StartAgrees DEF Work
  <1> QED
    BY <1>1, <1>4, <1>5, <1>6, CrashAgrees DEF RNext

LEMMA RecoveryFollows == RSpec => [](RInv /\ Clean /\ Agrees)
  <1>1. RInit => RInv /\ Clean /\ Agrees
    BY RInvInit, CleanInit, AgreesInit
  <1>2. RInv /\ Clean /\ Agrees /\ [RNext]_rvars => (RInv /\ Clean /\ Agrees)'
    BY RInvNext, CleanNext, AgreesNext
  <1> QED
    BY <1>1, <1>2, PTL DEF RSpec

\* Over any number of crashes, at any point of a call and of a replay too, the
\* replay of a prefix of the journal comes to the books and accounts the live
\* loop had after the same messages ("reconstruct engine state",
\* exchange.rs:67), as long as no order in it found the engine full and none
\* is of type Deposit.  In particular no order that was journaled is passed
\* over for want of margin.
THEOREM ReplayStaysExact == RSpec => []ReplayAgrees
  <1>1. RInv /\ Agrees => ReplayAgrees
    <2> SUFFICES ASSUME RInv, Agrees, mode = "replay", phase = "idle",
                        replayed \in 1..Len(states), inexact \cap 1..replayed = {}
                 PROVE  State = states[replayed]
      BY DEF ReplayAgrees
    <2>1. Base = replayed /\ Exact(replayed) /\ Waits
      BY DEF Base, Exact, Waits
    <2> QED
      BY <2>1, Counts DEF Agrees, OnTheWay, StateAt
  <1> QED
    BY <1>1, RecoveryFollows, PTL

-----------------------------------------------------------------------------
(* The ids in the journal. *)

JournaledIdsRise ==
  \A i, j \in OrderPlaces : i < j /\ Exact(j - 1) => journal[i].id < journal[j].id

\* The counter is past every id stamped on a message that was taken up.
CounterIsPast ==
  Exact(Base) =>
    \A i \in OrderPlaces :
      i <= Base \/ (i = Base + 1 /\ phase # "idle") => journal[i].id < next_id

IdsInv == JournaledIdsRise /\ CounterIsPast

LEMMA PlaceIsOrder ==
  ASSUME RInv
  PROVE  /\ next_id \in Nat
         /\ \A i \in OrderPlaces : i \in 1..Len(journal) /\ journal[i] \in Order
                                   /\ journal[i].id \in Nat
  <1>1. next_id \in Nat
    BY DEF RInv, XInv, XTypeOK, TypeOK
  <1>2. ASSUME NEW i \in OrderPlaces
        PROVE  i \in 1..Len(journal) /\ journal[i] \in Order /\ journal[i].id \in Nat
    <2>1. i \in 1..Len(journal) /\ ~IsCancel(journal[i])
      BY DEF OrderPlaces
    <2>2. journal[i] \in Order
      BY <2>1, Counts, ElementOfSeq DEF Message, IsCancel
    <2> QED
      BY <2>1, <2>2, OrderTerms
  <1> QED
    BY <1>1, <1>2

\* The journal keeps its first entries.
LEMMA RiseKept ==
  ASSUME RInv, RInv', IdsInv, NEW n \in 0..Len(journal), Len(journal') = n,
         \A i \in 1..n : journal'[i] = journal[i], inexact \cap 1..n \subseteq inexact'
  PROVE  JournaledIdsRise' /\ \A i \in OrderPlaces' : i \in OrderPlaces /\ i <= n
  <1>1. \A i \in OrderPlaces' : i \in 1..n /\ i \in OrderPlaces /\ journal'[i] = journal[i]
    BY Counts DEF OrderPlaces
  <1>2. \A i \in 1..n : Exact(i - 1)' => Exact(i - 1)
    BY DEF Exact
  <1>3. ASSUME NEW i \in OrderPlaces', NEW j \in OrderPlaces', i < j, Exact(j - 1)'
        PROVE  journal'[i].id < journal'[j].id
    BY <1>1, <1>2, <1>3 DEF IdsInv, JournaledIdsRise
  <1> QED
    BY <1>1, <1>3 DEF JournaledIdsRise

\* The journal stays: what the counter has to be past besides is said.
LEMMA IdsKept ==
  ASSUME RInv, RInv', IdsInv, UNCHANGED journal, inexact \subseteq inexact',
         next_id' >= next_id, Base <= Base',
         \A i \in OrderPlaces :
           Exact(Base)' /\ (i <= Base' \/ (i = Base' + 1 /\ phase' # "idle"))
             => i <= Base \/ (i = Base + 1 /\ phase # "idle") \/ journal[i].id < next_id'
  PROVE  IdsInv'
  <1>1. JournaledIdsRise' /\ OrderPlaces' = OrderPlaces
    BY Counts, RiseKept DEF OrderPlaces
  <1>2. next_id' \in Nat /\ next_id \in Nat
    BY PlaceIsOrder DEF RInv, XInv, XTypeOK, TypeOK
  <1>3. Exact(Base)' => Exact(Base)
    <2>1. Base \in Nat /\ Base' \in Nat
      BY Counts DEF Base, RInv, Places, JournalTyped
    <2> QED
      BY <2>1 DEF Exact
  <1>4. ASSUME Exact(Base)', NEW i \in OrderPlaces,
               i <= Base' \/ (i = Base' + 1 /\ phase' # "idle")
        PROVE  journal'[i].id < next_id'
    <2>1. journal'[i] = journal[i] /\ journal[i].id \in Nat
      BY PlaceIsOrder
    <2>2. CASE i <= Base \/ (i = Base + 1 /\ phase # "idle")
      <3>1. journal[i].id < next_id
        BY <1>3, <1>4, <2>2 DEF IdsInv, CounterIsPast
      <3> QED
        BY <1>2, <2>1, <3>1
    <2> QED
      BY <1>4, <2>1, <2>2
  <1>5. CounterIsPast'
    BY <1>1, <1>4 DEF CounterIsPast
  <1> QED
    BY <1>1, <1>5 DEF IdsInv

\* The counter stays where it was unless a message is stamped.
LEMMA CounterKept ==
  ASSUME \/ MatchStep \/ SettleNext \/ Return \/ CancelAny \/ UNCHANGED vars
  PROVE  next_id' = next_id
  BY DEF MatchStep, FillPartial, FillWhole, SelfTrade, Finish, Rest, RejectFull, Answer,
     Executed, SettleNext, Return, CancelAny, CancelOk, CancelUnauthorized, CancelNotFound,
     CancelAnswer, vars

\* The journal grows by a message: behind it the ids rise.
LEMMA LiveAcceptIds ==
  ASSUME RInv, RInv', IdsInv, Receive, NEW o \in Submissions, LiveAccept(o)
  PROVE  IdsInv'
  <1>1. /\ mode = "live" /\ mode' = "live" /\ next_id' = o.id + 1 /\ o.id = next_id
        /\ journal' = Append(journal, o) /\ states' = states /\ inexact' = inexact
        /\ o \in Order
    BY DEF Receive, LiveAccept, AcceptOrder, Submit, Submissions, Order
  <1>2. PICK n \in Nat : n = Len(journal) /\ n = Base /\ n = Base'
    BY <1>1, Counts DEF RInv, Places, Base, Receive
  <1>3. /\ Len(journal') = n + 1 /\ journal'[n + 1] = o
        /\ \A i \in 1..n : journal'[i] = journal[i]
    <2>1. o \in Message
      BY <1>1 DEF Message
    <2>2. /\ Len(journal') = Len(journal) + 1 /\ journal'[Len(journal) + 1] = o
          /\ \A i \in 1..Len(journal) : journal'[i] = journal[i]
      BY <1>1, <2>1, Counts, AppendProperties
    <2> QED
      BY ONLY <1>2, <2>2
  <1>4. next_id \in Nat /\ next_id' = next_id + 1
    BY PlaceIsOrder, <1>1
  <1>5. ASSUME NEW i \in OrderPlaces'
        PROVE  i = n + 1 \/ (i \in OrderPlaces /\ i <= n /\ journal'[i] = journal[i])
    <2>1. i \in 1..n + 1 /\ ~IsCancel(journal'[i])
      BY <1>3 DEF OrderPlaces
    <2>2. i \in 1..n => i \in 1..Len(journal) /\ journal'[i] = journal[i]
      BY ONLY <1>2, <1>3
    <2> QED
      <3>1. CASE i # n + 1
        <4>1. i \in 1..n
          BY ONLY <2>1, <3>1
        <4>2. i <= n
          BY ONLY <4>1
        <4> QED
          BY ONLY <2>1, <2>2, <4>1, <4>2 DEF OrderPlaces
      <3> QED
        BY ONLY <3>1
  <1>6. Exact(n)' => \A i \in OrderPlaces : i <= n => journal[i].id < next_id
    BY <1>1, <1>2 DEF IdsInv, CounterIsPast, Exact
  <1>7. ASSUME NEW i \in OrderPlaces', NEW j \in OrderPlaces', i < j, Exact(j - 1)'
        PROVE  journal'[i].id < journal'[j].id
    <2>1. i \in 1..n + 1 /\ j \in 1..n + 1
      BY <1>3 DEF OrderPlaces
    <2>2. CASE j = n + 1
      BY <1>1, <1>3, <1>5, <1>6, <1>7, <2>1, <2>2
    <2>3. CASE j # n + 1
      <3>1. i \in OrderPlaces /\ j \in OrderPlaces /\ journal'[i] = journal[i]
            /\ journal'[j] = journal[j] /\ Exact(j - 1)
        <4>1. Exact(j - 1)
          BY <1>1, <1>7 DEF Exact
        <4>2. i # n + 1
          BY <1>7, <2>1, <2>3
        <4> QED
          BY <1>5, <2>3, <4>1, <4>2
      <3> QED
        BY <1>7, <3>1 DEF IdsInv, JournaledIdsRise
    <2> QED
      BY <2>2, <2>3
  <1>8. ASSUME Exact(n)', NEW i \in OrderPlaces'
        PROVE  journal'[i].id < next_id'
    <2>1. CASE i = n + 1
      BY <1>1, <1>3, <1>4, <2>1
    <2>2. CASE i # n + 1
      <3>1. journal'[i].id < next_id /\ journal'[i].id \in Nat
        BY <1>5, <1>6, <1>8, <2>2, PlaceIsOrder
      <3> QED
        BY ONLY <1>4, <3>1
    <2> QED
      BY <2>1, <2>2
  <1>9. CounterIsPast'
    BY <1>2, <1>8 DEF CounterIsPast
  <1> QED
    BY <1>7, <1>9 DEF IdsInv, JournaledIdsRise

LEMMA LiveCancelOkIds ==
  ASSUME RInv, RInv', Agrees, IdsInv, LiveCancelOk
  PROVE  IdsInv'
  <1>1. /\ mode = "live" /\ mode' = "live" /\ phase = "cancelled" /\ phase' = "idle"
        /\ result.error = "None" /\ inexact' = inexact /\ next_id' = next_id
        /\ journal' = Append(journal, message) /\ Len(states') = Len(states) + 1
    <2>1. Len(states') = Len(states) + 1
      BY Counts, AppendProperties DEF LiveCancelOk
    <2> QED
      BY <2>1, CounterKept DEF LiveCancelOk, ReturnCancelOk, Return
  <1>2. PICK n \in Nat : n = Len(journal) /\ n = Base /\ n + 1 = Base'
    BY <1>1, Counts DEF RInv, Places, Base
  <1>3. IsCancel(message) /\ message \in Message
    BY <1>1 DEF Agrees, HandIsNext, RInv, MessageInHand
  <1>4. /\ Len(journal') = n + 1 /\ journal'[n + 1] = message
        /\ \A i \in 1..n : journal'[i] = journal[i]
    <2>1. /\ Len(journal') = Len(journal) + 1 /\ journal'[Len(journal) + 1] = message
          /\ \A i \in 1..Len(journal) : journal'[i] = journal[i]
      BY <1>1, <1>3, Counts, AppendProperties
    <2> QED
      BY ONLY <1>2, <2>1
  <1>5. ASSUME NEW i \in OrderPlaces'
        PROVE  i \in OrderPlaces /\ i <= n /\ i \in Nat /\ journal'[i] = journal[i]
    <2>1. i \in 1..n + 1 /\ ~IsCancel(journal'[i]) /\ i # n + 1
      BY <1>3, <1>4 DEF OrderPlaces
    <2>2. i \in 1..n
      BY ONLY <1>2, <2>1
    <2>3. journal'[i] = journal[i] /\ i \in 1..Len(journal)
      BY ONLY <1>2, <1>4, <2>2
    <2> QED
      BY ONLY <2>1, <2>2, <2>3 DEF OrderPlaces
  <1>6. ASSUME NEW i \in OrderPlaces', NEW j \in OrderPlaces', i < j, Exact(j - 1)'
        PROVE  journal'[i].id < journal'[j].id
    <2>1. i \in OrderPlaces /\ j \in OrderPlaces /\ Exact(j - 1)
          /\ journal'[i] = journal[i] /\ journal'[j] = journal[j]
      BY <1>1, <1>5, <1>6 DEF Exact
    <2> QED
      BY <1>6, <2>1 DEF IdsInv, JournaledIdsRise
  <1>7. ASSUME Exact(n + 1)', NEW i \in OrderPlaces'
        PROVE  journal'[i].id < next_id'
    <2>1. Exact(n)
      BY <1>1, <1>2, <1>7 DEF Exact
    <2> QED
      BY <1>1, <1>2, <1>5, <2>1 DEF IdsInv, CounterIsPast
  <1>8. CounterIsPast'
    BY <1>2, <1>7 DEF CounterIsPast
  <1> QED
    BY <1>6, <1>8 DEF IdsInv, JournaledIdsRise

LEMMA CrashIds ==
  ASSUME RInv, RInv', IdsInv, Crash
  PROVE  IdsInv'
  <1>1. PICK n \in 0..Len(journal) :
          journal' = SubSeq(journal, 1, n) /\ inexact' = inexact \cap 1..n
    BY DEF Crash
  <1>2. Len(journal') = n /\ \A i \in 1..n : journal'[i] = journal[i]
    <2>1. \A i \in 1..n : journal[i] \in Message
      BY Counts, ElementOfSeq
    <2> QED
      BY <1>1, <2>1, SubSeqProperties
  <1>3. JournaledIdsRise'
    BY <1>1, <1>2, RiseKept
  <1>4. CounterIsPast'
    BY DEF Crash, Base, CounterIsPast, OrderPlaces
  <1> QED
    BY <1>3, <1>4 DEF IdsInv

LEMMA ReplayAcceptIds ==
  ASSUME RInv, RInv', IdsInv, ReplayAccept
  PROVE  IdsInv'
  <1>1. /\ mode = "replay" /\ mode' = "replay" /\ Base = replayed /\ Base' = replayed
        /\ UNCHANGED <<journal, inexact>> /\ Entry = journal[Base + 1]
        /\ next_id' = Entry.id + 1 /\ Entry.id >= next_id /\ Entry \in Order
    BY EntryIsMessage DEF ReplayAccept, Replaying, Submit, Base, Entry, history, RInv
  <1>2. Entry.id \in Nat /\ next_id \in Nat
    BY <1>1, OrderTerms, PlaceIsOrder
  <1>3. PICK n \in Nat : n = Base
    BY Counts
  <1>4. \A i \in OrderPlaces : i \in Nat
    BY DEF OrderPlaces
  <1>5. /\ UNCHANGED journal /\ inexact \subseteq inexact' /\ next_id' >= next_id
        /\ Base <= Base' /\ journal[n + 1].id < next_id'
    BY <1>1, <1>2, <1>3
  <1>6. \A i \in OrderPlaces : i <= Base' \/ i = Base' + 1 => i <= n \/ i = n + 1
    BY <1>1, <1>3, <1>4
  <1> QED
    BY <1>3, <1>5, <1>6, IdsKept

LEMMA IdsInit == RInit => IdsInv
  BY DEF RInit, XInit, Init, IdsInv, JournaledIdsRise, CounterIsPast, OrderPlaces

\* What ends a message takes it among those that are done with.
LEMMA DoneIds ==
  ASSUME RInv, RInv', IdsInv, Done, phase' = "idle", next_id' = next_id,
         mode = "live" => phase \in {"matching", "done"},
         mode = "replay" => replayed < Len(journal),
         inexact \subseteq inexact',
         phase # "idle" \/ inexact' \cap 1..Place # {}
  PROVE  IdsInv'
  <1>1. Place = Base + 1 /\ Base' = Base + 1 /\ journal' = journal
    <2>1. mode = "live" => Place > Len(states) /\ Len(states') = Len(states) + 1
      BY Counts, AppendProperties DEF Done, RInv, Places, Place
    <2> QED
      BY <2>1, Counts DEF Done, RInv, JournalTyped, Places, Place, Base
  <1>2. PICK n \in Nat : n = Base
    BY Counts
  <1>3. next_id \in Nat
    BY PlaceIsOrder
  <1>4. Exact(n + 1)' => phase # "idle"
    BY <1>1, <1>2 DEF Exact
  <1>5. \A i \in OrderPlaces : i \in Nat
    BY DEF OrderPlaces
  <1>6. Exact(Base)' => phase # "idle"
    BY <1>1, <1>2, <1>4
  <1> QED
    BY <1>1, <1>2, <1>3, <1>5, <1>6, IdsKept

LEMMA IdsNext ==
  ASSUME RInv, RInv', Agrees, IdsInv, [RNext]_rvars
  PROVE  IdsInv'
  <1>1. next_id \in Nat /\ \A i \in OrderPlaces : i \in 1..Len(journal)
    BY PlaceIsOrder
  <1>2. ASSUME UNCHANGED <<journal, states, inexact, mode, replayed>>, next_id' = next_id,
               phase' # "idle" => phase # "idle" \/ Base + 1 \notin OrderPlaces
        PROVE  IdsInv'
    <2>1. Base' = Base /\ Base \in Nat
      BY <1>2, Counts DEF Base
    <2> QED
      BY <1>1, <1>2, <2>1, IdsKept
  <1>3. CASE Receive
    <2>1. phase = "idle" /\ mode = "live" /\ Base + 1 \notin OrderPlaces
      <3>1. phase = "idle" /\ mode = "live" /\ Len(states) = Len(journal)
        BY <1>3 DEF Receive, RInv, Places
      <3> QED
        BY <3>1, Counts DEF Base, OrderPlaces
    <2>2. CASE \E o \in Submissions : LiveReject(o)
      BY <1>2, <2>1, <2>2, CounterKept DEF LiveReject, RejectOrder, history
    <2>3. CASE \E user \in Users, symbol \in Symbols, ref \in (1..MaxId) \cup ClientIds :
                 LiveCancel(user, symbol, ref)
      BY <1>2, <2>1, <2>3, CounterKept DEF LiveCancel, CancelAny, history
    <2> QED
      BY <1>3, <2>2, <2>3, LiveAcceptIds DEF Receive
  <1>4. CASE Process
    <2>1. phase # "idle"
      BY <1>4 DEF Process, MatchStep, SettleNext, FillPartial, FillWhole, SelfTrade,
         Finish, Rest, RejectFull, CanMatch, MatchingOver
    <2> QED
      BY <1>2, <1>4, <2>1, CounterKept DEF Process, history
  <1>5. CASE LiveCancelRejected
    BY <1>2, <1>5, CounterKept DEF LiveCancelRejected, ReturnCancelRejected, Return, history
  <1>6. CASE FinishOrder \/ LiveFull \/ ReplayFull \/ ReplayCancelled
    <2>1. /\ phase # "idle" /\ phase' = "idle" /\ Return /\ Done /\ inexact \subseteq inexact'
          /\ (mode = "live" => phase = "done")
      BY <1>6 DEF FinishOrder, LiveFull, ReplayFull, ReplayCancelled, ReturnLimit,
         ReturnSelfTrade, ReturnMarket, ReturnFull, AllSettled, ReturnCancelOk,
         ReturnCancelRejected, Return
    <2>2. mode = "replay" => replayed < Len(journal)
      BY <2>1 DEF RInv, Places
    <2> QED
      BY <2>1, <2>2, CounterKept, DoneIds
  <1>7. CASE ReplaySkip
    <2>1. next_id' = next_id
      BY <1>7 DEF ReplaySkip, xvars, vars
    <2> QED
      BY <1>7, <2>1, SkipIsMarked, DoneIds
  <1>8. CASE ReplayDeposit
    <2>1. /\ mode = "replay" /\ phase' = "idle" /\ replayed < Len(journal) /\ Done
          /\ next_id' = next_id /\ inexact' = inexact \cup {Place}
          /\ Place = replayed + 1
      BY <1>8 DEF ReplayDeposit, Replaying, vars, Place
    <2>2. inexact' \cap 1..Place # {} /\ inexact \subseteq inexact'
      <3>1. Place \in 1..Place
        BY <2>1 DEF RInv, Places
      <3> QED
        BY ONLY <2>1, <3>1
    <2> QED
      BY <2>1, <2>2, DoneIds
  <1>9. CASE ReplayCancel
    <2>1. CancelAny
      BY <1>9 DEF ReplayCancel, CancelAny, IsCancel, CancelRequest
    <2>2. Base + 1 \notin OrderPlaces /\ UNCHANGED <<journal, states, inexact, mode, replayed>>
      BY <1>9 DEF ReplayCancel, Replaying, Base, Entry, OrderPlaces, history
    <2> QED
      BY <1>2, <2>1, <2>2, CounterKept
  <1>10. CASE StartLive
    <2>1. /\ UNCHANGED <<journal, states, inexact, phase>> /\ phase = "idle"
          /\ next_id' \in {next_id, next_id + 1} /\ Base' = Base /\ Base \in Nat
      BY <1>10, Counts DEF StartLive, history, RInv, Places, Base
    <2> QED
      BY <1>1, <2>1, IdsKept
  <1>11. CASE UNCHANGED rvars
    BY <1>2, <1>11 DEF rvars, xvars, vars
  <1> QED
    BY <1>3, <1>4, <1>5, <1>6, <1>7, <1>8, <1>9, <1>10, <1>11, LiveCancelOkIds,
       ReplayAcceptIds, CrashIds DEF RNext, Work

\* Over any number of crashes no exchange id in the journal is stamped again:
\* the ids rise along the journal and the counter of a live engine is past
\* them all, as long as no journaled order found the engine full and none is
\* of type Deposit.  The ids of what a crash cut off are free again.
THEOREM JournaledIdsStayFresh == RSpec => []IdsStayFresh
  <1>1. RInv /\ IdsInv => IdsStayFresh
    <2> SUFFICES ASSUME RInv, IdsInv, inexact = {}
                 PROVE  /\ \A i, j \in OrderPlaces : i < j => journal[i].id < journal[j].id
                        /\ mode = "live" => \A i \in OrderPlaces : journal[i].id < next_id
      BY DEF IdsStayFresh
    <2>1. \A n : Exact(n)
      BY DEF Exact
    <2>2. mode = "live" =>
            \A i \in OrderPlaces : i <= Base \/ (i = Base + 1 /\ phase # "idle")
      BY Counts, PlaceIsOrder DEF RInv, Places, Base
    <2> QED
      BY <2>1, <2>2 DEF IdsInv, JournaledIdsRise, CounterIsPast
  <1>2. RInit => IdsInv
    BY IdsInit
  <1>3. RInv /\ RInv' /\ Agrees /\ IdsInv /\ [RNext]_rvars => IdsInv'
    BY IdsNext
  <1> QED
    BY <1>1, <1>2, <1>3, RecoveryFollows, PTL DEF RSpec
=============================================================================
