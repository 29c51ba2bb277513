------------------------------ MODULE Recovery ------------------------------
(***************************************************************************)
(* The engine thread of src/src/bin/exchange.rs over crashes: it journals  *)
(* what it processes, and after a restart rebuilds its books and accounts  *)
(* with MultiAssetEngine::replay_order (src/src/book.rs).                  *)
(*                                                                         *)
(* Extends Exchange, whose actions are the live loop and, where            *)
(* replay_order makes the same calls, the replay.  Of the log only what    *)
(* Journal promises is known: a crash leaves any prefix of it.             *)
(***************************************************************************)
EXTENDS Exchange

CONSTANTS
  MaxCrashes      \* bound: crashes of a behaviour

ASSUME RecoveryAssumption == MaxCrashes \in Nat

VARIABLES
  mode,           \* replaying the journal, or live
  message,        \* the message in hand, as it was or would be journaled
  journal,        \* messages handed to the logger, as far as they survived
  replayed,       \* how many of them this run has replayed
  states,         \* the engine's state after each of them
  inexact,        \* those whose replay makes other calls than the live loop
  crashes

rvars == <<xvars, mode, message, journal, replayed, states, inexact, crashes>>

history == <<journal, states, inexact>>

CancelRequest ==
  [user_id : Users, symbol_id : Symbols, id : (1..MaxId) \cup ClientIds]

Message == Order \cup CancelRequest

IsCancel(m) == m \in CancelRequest

IsDeposit(m) == ~IsCancel(m) /\ m.order_type = "Deposit"

\* What a recovery is to rebuild.  The id counter is not part of it: it only
\* has to be past every id in use.
State ==
  [resting |-> resting, client_index |-> client_index,
   usd_available |-> usd_available, usd_locked |-> usd_locked,
   asset_available |-> asset_available, asset_locked |-> asset_locked]

RTypeOK ==
  /\ XTypeOK
  /\ mode \in {"live", "replay"}
  /\ message \in Message \cup {None}
  /\ journal \in Seq(Message)
  /\ replayed \in 0..Len(journal)
  /\ Len(states) \in Len(journal) - 1..Len(journal)
  /\ inexact \subseteq 1..Len(journal)
  /\ crashes \in 0..MaxCrashes

RInit ==
  /\ XInit
  /\ mode = "live"
  /\ message = None
  /\ journal = << >>
  /\ replayed = 0
  /\ states = << >>
  /\ inexact = {}
  /\ crashes = 0

-----------------------------------------------------------------------------
\* The place of the message in hand in the journal.
Place == IF mode = "live" THEN Len(journal) ELSE replayed + 1

\* A journaled message is done with.  Its state is noted the first time.
Done ==
  /\ replayed' = IF mode = "replay" THEN replayed + 1 ELSE replayed
  /\ states' = IF Place > Len(states) THEN Append(states, State') ELSE states
  /\ message' = None
  /\ UNCHANGED <<mode, journal, crashes>>

\* An order is refused for want of margin: it is not journaled.
LiveReject(o) ==
  /\ RejectOrder(o)
  /\ UNCHANGED <<mode, message, replayed, history, crashes>>

\* An order is journaled when its margin is reserved, before it is matched.
\* It carries the id that next_order_id stamps on it.
LiveAccept(o) ==
  /\ o.id = next_id
  /\ AcceptOrder(o)
  /\ message' = o
  /\ journal' = Append(journal, o)
  /\ UNCHANGED <<mode, replayed, states, inexact, crashes>>

\* Only a cancellation that succeeds is ever needed again.
LiveCancel(user, symbol, ref) ==
  /\ \/ /\ CancelOk(user, symbol, ref)
        /\ message' = [user_id |-> user, symbol_id |-> symbol, id |-> ref]
     \/ /\ CancelUnauthorized(user, symbol, ref) \/ CancelNotFound(user, symbol, ref)
        /\ UNCHANGED message
  /\ answer' = "None"
  /\ UNCHANGED <<accounts, tally>>
  /\ UNCHANGED <<mode, replayed, history, crashes>>

\* A cancellation is journaled when it has succeeded.
LiveCancelOk ==
  /\ mode = "live"
  /\ ReturnCancelOk
  /\ journal' = Append(journal, message)
  /\ states' = Append(states, State')
  /\ message' = None
  /\ UNCHANGED <<mode, replayed, inexact, crashes>>

LiveCancelRejected ==
  /\ mode = "live"
  /\ ReturnCancelRejected
  /\ UNCHANGED <<mode, message, replayed, history, crashes>>

\* The matching loop and the settlement, the same in both modes.
Process ==
  /\ MatchStep \/ SettleNext
  /\ UNCHANGED <<mode, message, replayed, history, crashes>>

\* A message of type Deposit is matched as an order when it comes from a
\* client, and funds the account when it is replayed.
FinishOrder ==
  /\ ReturnLimit \/ ReturnSelfTrade \/ ReturnMarket
  /\ Done
  /\ inexact' = inexact \cup (IF IsDeposit(message) THEN {Place} ELSE {})

\* The engine had no room: the live loop unlocks the margin.
LiveFull ==
  /\ mode = "live"
  /\ ReturnFull
  /\ Done
  /\ inexact' = inexact \cup {Place}

-----------------------------------------------------------------------------
\* The record to replay.
Entry == journal[replayed + 1]

Replaying ==
  /\ mode = "replay"
  /\ phase = "idle"
  /\ replayed < Len(journal)

ReplayDeposit ==
  /\ Replaying
  /\ IsDeposit(Entry)
  /\ Deposit(Entry)
  /\ UNCHANGED <<vars, tally, answer>>
  /\ Done
  /\ inexact' = inexact \cup {Place}

\* Mutant of ReplayAccept: that the margin cannot be reserved is ignored.
ReplayAcceptUnchecked ==
  /\ Replaying
  /\ ~IsCancel(Entry) /\ ~IsDeposit(Entry)
  /\ Submit(Entry)
  /\ LockFunds(Entry)
  /\ message' = Entry
  /\ UNCHANGED <<tally, answer>>
  /\ UNCHANGED <<mode, replayed, history, crashes>>

\* The order's margin is reserved again and it is matched again.
ReplayAccept ==
  /\ Replaying
  /\ ~IsCancel(Entry) /\ ~IsDeposit(Entry)
  /\ LockError(Entry) = "None"
  /\ Submit(Entry)
  /\ LockFunds(Entry)
  /\ message' = Entry
  /\ UNCHANGED <<tally, answer>>
  /\ UNCHANGED <<mode, replayed, history, crashes>>

\* Its margin cannot be reserved any more: it is passed over.
ReplaySkip ==
  /\ Replaying
  /\ ~IsCancel(Entry) /\ ~IsDeposit(Entry)
  /\ LockError(Entry) # "None"
  /\ UNCHANGED xvars
  /\ Done
  /\ UNCHANGED inexact

\* The engine has no room: process fails and nothing more is done.
ReplayFull ==
  /\ mode = "replay"
  /\ phase = "done"
  /\ result.error = "EngineFull"
  /\ Return
  /\ ResetTally
  /\ UNCHANGED <<accounts, answer>>
  /\ Done
  /\ inexact' = inexact \cup {Place}

ReplayCancel ==
  /\ Replaying
  /\ IsCancel(Entry)
  /\ \/ CancelOk(Entry.user_id, Entry.symbol_id, Entry.id)
     \/ CancelUnauthorized(Entry.user_id, Entry.symbol_id, Entry.id)
     \/ CancelNotFound(Entry.user_id, Entry.symbol_id, Entry.id)
  /\ message' = Entry
  /\ UNCHANGED <<accounts, tally, answer>>
  /\ UNCHANGED <<mode, replayed, history, crashes>>

\* Mutants of ReplayCancelled: the record is taken up again and again; the
\* margin of what was cancelled stays locked.
ReplayCancelledAgain ==
  /\ mode = "replay"
  /\ ReturnCancelOk \/ ReturnCancelRejected
  /\ message' = None
  /\ UNCHANGED <<mode, replayed, history, crashes>>

ReplayCancelledLocked ==
  /\ mode = "replay"
  /\ phase = "cancelled"
  /\ Return
  /\ UNCHANGED <<accounts, answer, tally>>
  /\ Done
  /\ UNCHANGED inexact

ReplayCancelled ==
  /\ mode = "replay"
  /\ ReturnCancelOk \/ ReturnCancelRejected
  /\ Done
  /\ UNCHANGED inexact

\* The journal is used up.  Announcing the next order id uses one up as well.
StartLive ==
  /\ mode = "replay"
  /\ phase = "idle"
  /\ replayed = Len(journal)
  /\ mode' = "live"
  /\ next_id' = IF journal # << >> /\ next_id <= MaxId THEN next_id + 1 ELSE next_id
  /\ UNCHANGED <<resting, client_index, phase, order, original_qty, trades, result>>
  /\ UNCHANGED <<accounts, tally, answer, message, replayed, history, crashes>>

-----------------------------------------------------------------------------
\* The process dies, at any point of a call too.  It starts again with empty
\* books, the accounts as they are funded at every start, and a prefix of the
\* journal.
Crash ==
  /\ crashes < MaxCrashes
  /\ crashes' = crashes + 1
  /\ mode' = "replay"
  /\ message' = None
  /\ replayed' = 0
  /\ \E n \in 0..Len(journal) :
       /\ journal' = SubSeq(journal, 1, n)
       /\ states' = SubSeq(states, 1, IF n < Len(states) THEN n ELSE Len(states))
       /\ inexact' = inexact \cap 1..n
  /\ resting' = {}
  /\ client_index' = [k \in ClientKeys |-> 0]
  /\ next_id' = 1
  /\ phase' = "idle"
  /\ order' = None
  /\ original_qty' = 0
  /\ trades' = << >>
  /\ result' = NoResult
  /\ usd_available' = [u \in Users |-> InitialUsd]
  /\ usd_locked' = [u \in Users |-> 0]
  /\ asset_available' = [h \in Holdings |-> InitialAssets]
  /\ asset_locked' = [h \in Holdings |-> 0]
  /\ ResetTally
  /\ answer' = "None"

\* What the engine thread does of itself: finish a message, replay the next.
Work ==
  \/ LiveCancelOk \/ LiveCancelRejected
  \/ Process \/ FinishOrder \/ LiveFull
  \/ ReplayDeposit \/ ReplayAccept \/ ReplaySkip \/ ReplayFull
  \/ ReplayCancel \/ ReplayCancelled
  \/ StartLive

\* A client's message reaches an engine thread that waits for one.
Receive ==
  /\ mode = "live" /\ phase = "idle"
  /\ \/ \E o \in Submissions : LiveReject(o) \/ LiveAccept(o)
     \/ \E user \in Users, symbol \in Symbols, ref \in (1..MaxId) \cup ClientIds :
          LiveCancel(user, symbol, ref)

RNext == Receive \/ Work \/ Crash

RSpec == RInit /\ [][RNext]_rvars

\* The engine thread is not preempted for ever while it has a journal to
\* replay; it waits for nobody then.
RFairSpec == RSpec /\ WF_rvars(mode = "replay" /\ Work)

-----------------------------------------------------------------------------
\* Replay rebuilds exactly the books and accounts the live loop had after the
\* same messages, whatever was lost behind them, wherever in a call the crash
\* came, and after a crash of the replay too ("reconstruct engine state",
\* exchange.rs:67).  It holds up to the first order the engine had no room
\* for, whose margin replay_order does not unlock, and the first message of
\* type Deposit, which the two treat differently.
ReplayAgrees ==
  (/\ mode = "replay" /\ phase = "idle"
   /\ replayed \in 1..Len(states)
   /\ inexact \cap 1..replayed = {}) => State = states[replayed]

OrderPlaces == {i \in 1..Len(journal) : ~IsCancel(journal[i])}

\* No id in the journal is ever stamped again, over any number of restarts:
\* the ids rise along it, and a live engine is past them all (process takes
\* its counter past the ids it is given; replay relies on it).  With the same
\* exception: a replayed Deposit, and an order whose margin cannot be reserved
\* again, do not reach process, and announcing the next id makes up for one
\* of them only.
IdsStayFresh ==
  inexact = {} =>
    /\ \A i, j \in OrderPlaces : i < j => journal[i].id < journal[j].id
    /\ mode = "live" => \A i \in OrderPlaces : journal[i].id < next_id

\* A recovery comes to an end unless another crash cuts it short, whatever the
\* journal holds; then the exchange is live.
RecoveryEnds == mode = "replay" ~> mode = "live"
=============================================================================
