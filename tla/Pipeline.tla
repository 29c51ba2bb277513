------------------------------ MODULE Pipeline ------------------------------
(***************************************************************************)
(* Orders in, answers out: the gateway's task per connection and its       *)
(* writer task (src/src/gateway.rs), the engine thread's use of its        *)
(* channels and the egress dispatcher (src/src/bin/exchange.rs).           *)
(*                                                                         *)
(* Every channel is bounded.  What the engine decides is left open: any    *)
(* answers it may give to a message, in the order it gives them (Exchange  *)
(* says which).  An order's contents are left out, but for the id the      *)
(* client wrote in it.                                                     *)
(***************************************************************************)
EXTENDS Integers, Sequences, FiniteSets

CONSTANTS
  ClientOrderIds,     \* ids clients write in their orders
  ORDER_CHANNEL,      \* capacities: order_tx (100,000), outbound_tx
  OUTBOUND_CHANNEL,   \* (100,000), conn_tx (1,024), and the output
  CONN_CHANNEL,       \* channel of each client (8,192)
  CLIENT_CHANNEL,
  MaxClients,         \* bound: connections accepted
  MaxMessages         \* bound: messages that clients send

ASSUME PipelineAssumption ==
  /\ ClientOrderIds \subseteq Nat
  /\ {ORDER_CHANNEL, OUTBOUND_CHANNEL, CONN_CHANNEL, CLIENT_CHANNEL} \subseteq Nat \ {0}
  /\ MaxClients \in Nat /\ MaxMessages \in Nat

VARIABLES
  NEXT_CLIENT_ID,
  task,           \* client -> where its handle_client task is
  writer_task,    \* client -> where its writer task is
  order_rx,       \* inbound messages
  taken,          \* messages the engine thread has taken up
  pending,        \* events it has yet to send for the one in hand
  next_order_id,
  traders,        \* clients that have an order acknowledged: makers to be
  events,         \* all events it has sent to the dispatcher, in order
  dispatched,     \* how many of them the dispatcher has handled
  conn_rx,        \* connection events
  client_senders, \* clients the dispatcher has a sender for
  output,         \* client -> places in events of all it was sent, in order
  written,        \* client -> how many of those have left its channel
  since           \* client -> events handled before it was registered

gateway == <<NEXT_CLIENT_ID, task>>
engine == <<taken, pending, next_order_id, traders>>
dispatcher == <<dispatched, client_senders, since>>
vars == <<gateway, engine, dispatcher, writer_task, order_rx, events, conn_rx,
          output, written>>

Clients == 1..MaxClients

Message == [client : Clients, cancel : BOOLEAN, id : ClientOrderIds \cup {0}]

\* An event, whom it is for, one after the other, and the message it is about.
\* An Ack carries the id stamped on the order, a Reply is a ClientReject or a
\* ClientCancelOk, a Bbo is for everyone.
Event ==
  [kind : {"Ack", "Reply", "Fill", "Bbo"},
   to : Seq(Clients), id : Nat, number : 1..MaxMessages]

ConnectionEvent == {"Connected", "Disconnected"} \X Clients

Queued(c) == Len(output[c]) - written[c]

TypeOK ==
  /\ NEXT_CLIENT_ID \in 1..MaxClients + 1
  /\ task \in [Clients -> {"none", "accepted", "reading", "closing", "closed"}]
  /\ writer_task \in [Clients -> {"none", "running", "ended"}]
  /\ order_rx \in Seq(Message) /\ Len(order_rx) <= ORDER_CHANNEL
  /\ taken \in 0..MaxMessages
  /\ pending \in Seq(Event)
  /\ next_order_id \in Nat \ {0}
  /\ traders \subseteq Clients
  /\ events \in Seq(Event)
  /\ dispatched \in 0..Len(events) /\ Len(events) - dispatched <= OUTBOUND_CHANNEL
  /\ conn_rx \in Seq(ConnectionEvent) /\ Len(conn_rx) <= CONN_CHANNEL
  /\ client_senders \subseteq Clients
  /\ output \in [Clients -> Seq(1..Len(events))]
  /\ written \in [Clients -> Nat]
  /\ \A c \in Clients : Queued(c) \in 0..CLIENT_CHANNEL
  /\ since \in [Clients -> Nat]

Init ==
  /\ NEXT_CLIENT_ID = 1
  /\ task = [c \in Clients |-> "none"]
  /\ writer_task = [c \in Clients |-> "none"]
  /\ order_rx = << >>
  /\ taken = 0
  /\ pending = << >>
  /\ next_order_id = 1
  /\ traders = {}
  /\ events = << >>
  /\ dispatched = 0
  /\ conn_rx = << >>
  /\ client_senders = {}
  /\ output = [c \in Clients |-> << >>]
  /\ written = [c \in Clients |-> 0]
  /\ since = [c \in Clients |-> 0]

-----------------------------------------------------------------------------
\* The gateway.  run_gateway accepts a connection and spawns its task.
Accept ==
  /\ NEXT_CLIENT_ID \in Clients
  /\ task' = [task EXCEPT ![NEXT_CLIENT_ID] = "accepted"]
  /\ NEXT_CLIENT_ID' = NEXT_CLIENT_ID + 1
  /\ UNCHANGED <<engine, dispatcher, writer_task, order_rx, events, conn_rx,
                 output, written>>

\* The task hands the dispatcher its client's sender, waiting for room, and
\* starts the writer.
Connect(c) ==
  /\ task[c] = "accepted"
  /\ Len(conn_rx) < CONN_CHANNEL
  /\ conn_rx' = Append(conn_rx, <<"Connected", c>>)
  /\ task' = [task EXCEPT ![c] = "reading"]
  /\ writer_task' = [writer_task EXCEPT ![c] = "running"]
  /\ UNCHANGED <<NEXT_CLIENT_ID, engine, dispatcher, order_rx, events, output, written>>

\* Mutant of Quarantined: the client's id goes on to the engine.
NotQuarantined(cancel, id) == id

\* The id an order has in the engine is the engine's to give; a cancellation
\* names the order it is for.
Quarantined(cancel, id) == IF cancel THEN id ELSE 0

\* Mutant of Read: the channel to the engine is not bounded.
ReadUnbounded(c) ==
  /\ task[c] = "reading"
  /\ taken + Len(order_rx) < MaxMessages
  /\ \E cancel \in BOOLEAN, id \in ClientOrderIds :
       order_rx' = Append(order_rx, [client |-> c, cancel |-> cancel,
                                     id |-> Quarantined(cancel, id)])
  /\ UNCHANGED <<gateway, engine, dispatcher, writer_task, events, conn_rx,
                 output, written>>

\* A message is read and sent on.  The task reads no further, and does not
\* notice a disconnection, before there is room for it.
Read(c) ==
  /\ task[c] = "reading"
  /\ Len(order_rx) < ORDER_CHANNEL
  /\ taken + Len(order_rx) < MaxMessages
  /\ \E cancel \in BOOLEAN, id \in ClientOrderIds :
       order_rx' = Append(order_rx, [client |-> c, cancel |-> cancel,
                                     id |-> Quarantined(cancel, id)])
  /\ UNCHANGED <<gateway, engine, dispatcher, writer_task, events, conn_rx,
                 output, written>>

\* A writer that ends drops the receiver, and with it what it holds.
StopWriter(c) ==
  /\ writer_task' = [writer_task EXCEPT ![c] = "ended"]
  /\ written' = [written EXCEPT ![c] = Len(output[c])]

\* The client has gone, or sent something that is no order: the writer is
\* aborted.
Close(c) ==
  /\ task[c] = "reading"
  /\ task' = [task EXCEPT ![c] = "closing"]
  /\ StopWriter(c)
  /\ UNCHANGED <<NEXT_CLIENT_ID, engine, dispatcher, order_rx, events, conn_rx, output>>

\* Mutant of Disconnect: the task returns without a word.
DisconnectSilently(c) ==
  /\ task[c] = "closing"
  /\ task' = [task EXCEPT ![c] = "closed"]
  /\ UNCHANGED <<NEXT_CLIENT_ID, engine, dispatcher, writer_task, order_rx, events,
                 conn_rx, output, written>>

Disconnect(c) ==
  /\ task[c] = "closing"
  /\ Len(conn_rx) < CONN_CHANNEL
  /\ conn_rx' = Append(conn_rx, <<"Disconnected", c>>)
  /\ task' = [task EXCEPT ![c] = "closed"]
  /\ UNCHANGED <<NEXT_CLIENT_ID, engine, dispatcher, writer_task, order_rx, events,
                 output, written>>

\* The writer takes the next message, having written the one before: when
\* that is, is up to the client.
Write(c) ==
  /\ writer_task[c] = "running"
  /\ Queued(c) > 0
  /\ written' = [written EXCEPT ![c] = @ + 1]
  /\ UNCHANGED <<gateway, engine, dispatcher, writer_task, order_rx, events, conn_rx,
                 output>>

\* Writing fails; or the last sender is gone, the dispatcher's or the one on
\* its way to it, and everything is written.
EndWriter(c) ==
  /\ writer_task[c] = "running"
  /\ \/ written[c] > 0
     \/ /\ c \notin client_senders
        /\ \A i \in 1..Len(conn_rx) : conn_rx[i] # <<"Connected", c>>
        /\ Queued(c) = 0
  /\ StopWriter(c)
  /\ UNCHANGED <<gateway, engine, dispatcher, order_rx, events, conn_rx, output>>

-----------------------------------------------------------------------------
\* The engine thread.
ToClient(kind, c, id) == [kind |-> kind, to |-> <<c>>, id |-> id, number |-> taken + 1]

Fill(taker, maker) ==
  [kind |-> "Fill", to |-> <<taker, maker>>, id |-> 0, number |-> taken + 1]

Bbo == [kind |-> "Bbo", to |-> << >>, id |-> 0, number |-> taken + 1]

\* What it sends for an order that passes the margin check and has this id:
\* the acknowledgement before it is matched; at most one fill here, by an order
\* some client placed before; a rejection when self-trade prevention stopped it.
Acknowledged(c, id) ==
  LET ack == ToClient("Ack", c, id)
      reject == ToClient("Reply", c, 0)
  IN  {<<ack, reject>>}
      \cup UNION {{<<ack>> \o fills \o <<Bbo>>, <<ack>> \o fills \o <<reject, Bbo>>} :
                    fills \in {<< >>} \cup {<<Fill(c, maker)>> : maker \in traders}}

\* A cancellation, done or refused, and an order refused for want of margin
\* get one reply.
TakeReplied ==
  /\ pending' = <<ToClient("Reply", Head(order_rx).client, 0)>>
  /\ UNCHANGED <<next_order_id, traders>>

\* An id is given to an order that has none; process takes the counter past it.
TakeOrder ==
  /\ ~Head(order_rx).cancel
  /\ LET c == Head(order_rx).client
         id == IF Head(order_rx).id = 0 THEN next_order_id ELSE Head(order_rx).id
     IN  /\ pending' \in Acknowledged(c, id)
         /\ next_order_id' = IF id < next_order_id THEN next_order_id ELSE id + 1
         /\ traders' = traders \cup {c}

Take ==
  /\ pending = << >>
  /\ order_rx # << >>
  /\ TakeReplied \/ TakeOrder
  /\ taken' = taken + 1
  /\ order_rx' = Tail(order_rx)
  /\ UNCHANGED <<gateway, dispatcher, writer_task, events, conn_rx, output, written>>

\* blocking_send: the engine thread waits for room.
Send ==
  /\ pending # << >>
  /\ Len(events) - dispatched < OUTBOUND_CHANNEL
  /\ events' = Append(events, Head(pending))
  /\ pending' = Tail(pending)
  /\ UNCHANGED <<gateway, dispatcher, taken, next_order_id, traders, writer_task,
                 order_rx, conn_rx, output, written>>

-----------------------------------------------------------------------------
\* The dispatcher.  select! takes from either channel that has something.
Register ==
  /\ conn_rx # << >>
  /\ LET c == Head(conn_rx)[2]
     IN  IF Head(conn_rx)[1] = "Connected"
         THEN /\ client_senders' = client_senders \cup {c}
              /\ since' = [since EXCEPT ![c] = dispatched]
         ELSE /\ client_senders' = client_senders \ {c}
              /\ UNCHANGED since
  /\ conn_rx' = Tail(conn_rx)
  /\ UNCHANGED <<gateway, engine, dispatched, writer_task, order_rx, events, output,
                 written>>

\* The clients' channels while an event is handed out.
Egress == [senders |-> client_senders, output |-> output]

\* Whether try_send succeeds: neither Full nor Closed.
Accepts(egress, c) ==
  /\ writer_task[c] = "running"
  /\ Len(egress.output[c]) - written[c] < CLIENT_CHANNEL

\* The next place in a client's channel is taken.
Sent(egress, c, place) ==
  [senders |-> egress.senders, output |-> [egress.output EXCEPT ![c] = Append(@, place)]]

\* Mutant of Handed: a client that does not accept is kept.
HandedOrDropped(egress, c, place) ==
  IF c \notin egress.senders \/ ~Accepts(egress, c) THEN egress ELSE Sent(egress, c, place)

\* A registered client gets the message, or is evicted.
Handed(egress, c, place) ==
  IF c \notin egress.senders THEN egress
  ELSE IF Accepts(egress, c) THEN Sent(egress, c, place)
  ELSE [senders |-> egress.senders \ {c}, output |-> egress.output]

\* A BBO update goes to all, to each on its own.
Broadcast(place) ==
  [senders |-> {c \in client_senders : c \in Handed(Egress, c, place).senders},
   output |-> [c \in Clients |-> Handed(Egress, c, place).output[c]]]

\* A fill goes to the taker and then to the maker, who may be the same client.
AfterHanding(place) ==
  LET event == events[place]
      first == Handed(Egress, event.to[1], place)
  IN  IF event.kind = "Bbo" THEN Broadcast(place)
      ELSE IF event.kind = "Fill" THEN Handed(first, event.to[2], place)
      ELSE first

\* Mutant of Dispatch: the dispatcher waits for the client (send for try_send).
DispatchWaiting ==
  /\ dispatched < Len(events)
  /\ LET event == events[dispatched + 1]
     IN  \A c \in client_senders :
           (/\ event.kind = "Bbo" \/ c \in {event.to[i] : i \in DOMAIN event.to}
            /\ writer_task[c] = "running") => Accepts(Egress, c)
  /\ dispatched' = dispatched + 1
  /\ LET after == AfterHanding(dispatched + 1)
     IN  client_senders' = after.senders /\ output' = after.output
  /\ UNCHANGED <<gateway, engine, since, writer_task, order_rx, events, conn_rx, written>>

Dispatch ==
  /\ dispatched < Len(events)
  /\ dispatched' = dispatched + 1
  /\ LET after == AfterHanding(dispatched + 1)
     IN  client_senders' = after.senders /\ output' = after.output
  /\ UNCHANGED <<gateway, engine, since, writer_task, order_rx, events, conn_rx, written>>

-----------------------------------------------------------------------------
Next ==
  \/ Accept
  \/ \E c \in Clients :
       Connect(c) \/ Read(c) \/ Close(c) \/ Disconnect(c) \/ Write(c) \/ EndWriter(c)
  \/ Take \/ Send
  \/ Register \/ Dispatch

Spec == Init /\ [][Next]_vars

\* The engine thread runs; select! polls its branches in random order, so
\* neither starves; a task runs when it can.  Clients owe nothing: they may
\* never read.
FairSpec ==
  /\ Spec
  /\ WF_vars(Take \/ Send)
  /\ WF_vars(Register)
  /\ WF_vars(Dispatch)
  /\ \A c \in Clients : WF_vars(Disconnect(c))

-----------------------------------------------------------------------------
\* How often a client is addressed: twice when it is taker and maker of a trade.
Times(event, c) ==
  IF event.kind = "Bbo" THEN 1 ELSE Cardinality({i \in DOMAIN event.to : event.to[i] = c})

\* The places of the events for a client among those handled since it was
\* registered.
Addressed(c) ==
  LET stream[n \in 0..dispatched] ==
        IF n <= since[c] THEN << >>
        ELSE stream[n - 1] \o [i \in 1..Times(events[n], c) |-> n]
  IN  stream[dispatched]

\* A client sees a gapless stream: all that was addressed to it from its
\* registration on, in the engine's order, up to an end.  A client too slow is
\* cut off, it never misses a message and gets later ones (the dispatcher's
\* try_send branches, exchange.rs:311-367).
StreamsHaveNoGaps ==
  \A c \in Clients :
    /\ \E n \in 0..Len(Addressed(c)) : output[c] = SubSeq(Addressed(c), 1, n)
    /\ c \in client_senders => output[c] = Addressed(c)

\* "Strict ingress quarantine: client IDs cannot dictate internal exchange
\* order IDs" (gateway.rs:126): no two acknowledgements carry the same id,
\* whatever ids clients choose.
AckedIdsDiffer ==
  \A i, j \in 1..Len(events) :
    (i # j /\ events[i].kind = "Ack" /\ events[j].kind = "Ack")
      => events[i].id # events[j].id

Drained == order_rx = << >> /\ pending = << >> /\ dispatched = Len(events)

\* The pipeline keeps moving: once no more messages come in, all that clients
\* got into it is processed and all answers are dispatched, though no client
\* may ever read what it is sent ("Evicting to prevent HoL blocking",
\* exchange.rs:315).  Here messages stop at MaxMessages.
PipelineDrains == []<>Drained

Forgotten(c) ==
  /\ c \notin client_senders
  /\ \A i \in 1..Len(conn_rx) : conn_rx[i][2] # c

\* A connection that ends is forgotten, and nothing is on its way that would
\* bring it back, however its end, its registration and the answers to it
\* interleave: client_senders does not grow with every client that ever was.
\* Here connections stop at MaxClients.
ClosedAreForgotten ==
  []<>(\A c \in Clients :
         /\ task[c] # "closing"
         /\ task[c] = "closed" => Forgotten(c))
=============================================================================
