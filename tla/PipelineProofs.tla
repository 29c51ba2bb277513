--------------------------- MODULE PipelineProofs ---------------------------
(***************************************************************************)
(* Theorems about Pipeline, for every number of clients, every capacity    *)
(* and every set of ids that clients write in their orders.                *)
(*                                                                         *)
(* Three invariants, each resting on the one before: acknowledged ids      *)
(* (AckInv), types and capacities (TypeInv), and the streams that clients  *)
(* see (StreamInv), for which the order in which connections come about    *)
(* (Unseen) and the effect of one event on one client (Gives) are needed.  *)
(***************************************************************************)
EXTENDS Pipeline, SequenceTheorems, SetLemmas

\* Ids as the engine gets them: an order has none of its own.
QuarantineHolds ==
  /\ order_rx \in Seq(Message)
  /\ \A i \in 1..Len(order_rx) : ~order_rx[i].cancel => order_rx[i].id = 0

\* The engine sends an acknowledgement first, if at all, and with an id below
\* its counter that no event sent before carries.
AckIsNext ==
  /\ pending \in Seq(Event)
  /\ \A i \in 1..Len(pending) :
       pending[i].kind = "Ack" =>
         /\ i = 1
         /\ pending[i].id < next_order_id
         /\ \A j \in 1..Len(events) :
              events[j].kind = "Ack" => events[j].id # pending[i].id

AcksAreBelow ==
  /\ events \in Seq(Event)
  /\ \A i \in 1..Len(events) : events[i].kind = "Ack" => events[i].id < next_order_id

\* The inductive invariant: of the dispatcher and the clients it says nothing.
AckInv ==
  /\ next_order_id \in Nat \ {0}
  /\ taken \in Nat /\ taken + Len(order_rx) <= MaxMessages
  /\ traders \subseteq Clients
  /\ QuarantineHolds
  /\ AckIsNext
  /\ AcksAreBelow
  /\ AckedIdsDiffer

USE PipelineAssumption

LEMMA AckInit == Init => AckInv
  BY DEF Init, AckInv, QuarantineHolds, AckIsNext, AcksAreBelow, AckedIdsDiffer

-----------------------------------------------------------------------------
NoAck(sent) ==
  /\ sent \in Seq(Event)
  /\ \A i \in 1..Len(sent) : sent[i].kind # "Ack"

\* The acknowledgement with this id and then nothing that is one.
AckFirst(sent, id) ==
  /\ sent \in Seq(Event)
  /\ Len(sent) > 0
  /\ sent[1].id = id
  /\ \A i \in 1..Len(sent) : sent[i].kind = "Ack" => i = 1

LEMMA AckStaysFirst ==
  ASSUME NEW id, NEW sent, AckFirst(sent, id), NEW more, NoAck(more)
  PROVE  AckFirst(sent \o more, id)
  <1>1. /\ sent \o more \in Seq(Event)
        /\ Len(sent \o more) = Len(sent) + Len(more)
        /\ \A i \in 1..Len(sent) + Len(more) :
             (sent \o more)[i] = IF i <= Len(sent) THEN sent[i] ELSE more[i - Len(sent)]
    BY ConcatProperties DEF AckFirst, NoAck
  <1>2. Len(sent) \in Nat /\ Len(more) \in Nat
    BY LenProperties DEF AckFirst, NoAck
  <1>3. ASSUME NEW i \in 1..Len(sent) + Len(more), i > Len(sent)
        PROVE  (sent \o more)[i].kind # "Ack"
    <2>1. i - Len(sent) \in 1..Len(more)
      BY <1>2, <1>3
    <2> QED
      BY <1>1, <1>3, <2>1 DEF NoAck
  <1> QED
    BY <1>1, <1>2, <1>3 DEF AckFirst

\* Whatever the engine thread sends for an order begins with its only
\* acknowledgement.
LEMMA AckComesFirst ==
  ASSUME NEW c \in Clients, NEW id \in Nat, NEW sent \in Acknowledged(c, id),
         taken + 1 \in 1..MaxMessages, traders \subseteq Clients
  PROVE  AckFirst(sent, id)
  <1> DEFINE ack == ToClient("Ack", c, id)
             reject == ToClient("Reply", c, 0)
  <1>1. /\ ack \in Event /\ ack.kind = "Ack" /\ ack.id = id
        /\ reject \in Event /\ reject.kind = "Reply"
    BY DEF ToClient, Event
  <1>2. Bbo \in Event /\ Bbo.kind = "Bbo"
    BY DEF Bbo, Event
  <1>3. ASSUME NEW maker \in traders
        PROVE  Fill(c, maker) \in Event /\ Fill(c, maker).kind = "Fill"
    BY DEF Fill, Event
  <1> HIDE DEF ack, reject
  <1>4. AckFirst(<<ack>>, id) /\ NoAck(<<reject, Bbo>>) /\ NoAck(<<Bbo>>) /\ NoAck(<< >>)
    BY <1>1, <1>2 DEF AckFirst, NoAck
  <1>5. CASE sent = <<ack, reject>>
    BY <1>1, <1>5 DEF AckFirst
  <1>6. ASSUME NEW fills \in {<< >>} \cup {<<Fill(c, maker)>> : maker \in traders},
               \/ sent = <<ack>> \o fills \o <<Bbo>>
               \/ sent = <<ack>> \o fills \o <<reject, Bbo>>
        PROVE  AckFirst(sent, id)
    <2>1. NoAck(fills)
      <3>1. CASE fills = << >>
        BY <1>4, <3>1
      <3>2. ASSUME NEW maker \in traders, fills = <<Fill(c, maker)>>
            PROVE  NoAck(fills)
        <4>1. /\ <<Fill(c, maker)>> \in Seq(Event)
              /\ Len(<<Fill(c, maker)>>) = 1
              /\ <<Fill(c, maker)>>[1] = Fill(c, maker)
          BY <1>3
        <4> QED
          BY <1>3, <3>2, <4>1 DEF NoAck
      <3> QED
        BY <3>1, <3>2
    <2>2. AckFirst(<<ack>> \o fills, id)
      BY <1>4, <2>1, AckStaysFirst
    <2> QED
      BY <1>4, <1>6, <2>2, AckStaysFirst
  <1>7. \/ sent = <<ack, reject>>
        \/ \E fills \in {<< >>} \cup {<<Fill(c, maker)>> : maker \in traders} :
             \/ sent = <<ack>> \o fills \o <<Bbo>>
             \/ sent = <<ack>> \o fills \o <<reject, Bbo>>
    BY Zenon DEF Acknowledged, ack, reject
  <1> QED
    BY <1>5, <1>6, <1>7

-----------------------------------------------------------------------------
\* A message joins the queue for the engine: an order without an id.
LEMMA ReadKeepsInv == ASSUME AckInv, NEW c \in Clients, Read(c) PROVE AckInv'
  <1>1. PICK cancel \in BOOLEAN, id \in ClientOrderIds :
          order_rx' = Append(order_rx, [client |-> c, cancel |-> cancel,
                                        id |-> Quarantined(cancel, id)])
    BY DEF Read
  <1> DEFINE m == [client |-> c, cancel |-> cancel, id |-> Quarantined(cancel, id)]
  <1>2. m \in Message /\ (~m.cancel => m.id = 0)
    BY DEF Message, Quarantined
  <1> HIDE DEF m
  <1>3. order_rx' = Append(order_rx, m) /\ order_rx \in Seq(Message)
    BY <1>1 DEF m, AckInv, QuarantineHolds
  <1>4. /\ order_rx' \in Seq(Message)
        /\ Len(order_rx') = Len(order_rx) + 1
        /\ \A i \in 1..Len(order_rx) : order_rx'[i] = order_rx[i]
        /\ order_rx'[Len(order_rx) + 1] = m
    BY <1>2, <1>3, AppendProperties
  <1>5. Len(order_rx) \in Nat
    BY <1>3, LenProperties
  <1>6. QuarantineHolds'
    BY <1>2, <1>4, <1>5 DEF AckInv, QuarantineHolds
  <1>7. UNCHANGED <<engine, events>> /\ taken + Len(order_rx) < MaxMessages
    BY DEF Read
  <1> QED
    BY <1>4, <1>5, <1>6, <1>7
       DEF AckInv, AckIsNext, AcksAreBelow, AckedIdsDiffer, engine

\* The engine thread takes a message up: the id it gives is its counter's, and
\* the counter moves past it.
LEMMA TakeKeepsInv == ASSUME AckInv, Take PROVE AckInv'
  <1>1. /\ order_rx \in Seq(Message) /\ order_rx # << >>
        /\ order_rx' = Tail(order_rx) /\ taken' = taken + 1
        /\ UNCHANGED events
    BY DEF AckInv, QuarantineHolds, Take
  <1>2. /\ order_rx' \in Seq(Message)
        /\ Len(order_rx') = Len(order_rx) - 1
        /\ \A i \in 1..Len(order_rx') : order_rx'[i] = order_rx[i + 1]
        /\ Len(order_rx) \in Nat \ {0}
        /\ Head(order_rx) = order_rx[1] /\ Head(order_rx) \in Message
    BY <1>1, HeadTailProperties, EmptySeq, LenProperties
  <1>3. QuarantineHolds'
    <2> SUFFICES ASSUME NEW i \in 1..Len(order_rx'), ~order_rx'[i].cancel
                 PROVE  order_rx'[i].id = 0
      BY <1>2 DEF QuarantineHolds
    <2>1. i + 1 \in 1..Len(order_rx) /\ order_rx'[i] = order_rx[i + 1]
      BY <1>2
    <2>2. ~order_rx[i + 1].cancel => order_rx[i + 1].id = 0
      BY <2>1 DEF AckInv, QuarantineHolds
    <2> QED
      BY <2>1, <2>2
  <1>4. /\ taken \in Nat /\ taken + Len(order_rx) <= MaxMessages
        /\ next_order_id \in Nat \ {0}
        /\ traders \subseteq Clients
    BY DEF AckInv
  <1>5. taken' \in Nat /\ taken' + Len(order_rx') <= MaxMessages
        /\ taken + 1 \in 1..MaxMessages
    BY <1>1, <1>2, <1>4
  <1>6. Head(order_rx).client \in Clients
    BY <1>2 DEF Message
  <1>7. AcksAreBelow /\ AckedIdsDiffer
    BY DEF AckInv
  <1>8. CASE TakeReplied
    <2>1. /\ ToClient("Reply", Head(order_rx).client, 0) \in Event
          /\ ToClient("Reply", Head(order_rx).client, 0).kind = "Reply"
      BY <1>5, <1>6 DEF ToClient, Event
    <2>2. AckIsNext'
      BY <1>8, <2>1 DEF TakeReplied, AckIsNext
    <2>3. AcksAreBelow' /\ AckedIdsDiffer' /\ UNCHANGED <<next_order_id, traders>>
      BY <1>1, <1>7, <1>8 DEF TakeReplied, AcksAreBelow, AckedIdsDiffer
    <2> QED
      BY <1>3, <1>4, <1>5, <2>2, <2>3 DEF AckInv
  <1>9. CASE TakeOrder
    <2> DEFINE c == Head(order_rx).client
    <2>1. Head(order_rx).id = 0
      BY <1>2, <1>9 DEF TakeOrder, AckInv, QuarantineHolds
    <2>2. /\ pending' \in Acknowledged(c, next_order_id)
          /\ next_order_id' = next_order_id + 1
          /\ traders' = traders \cup {c}
      BY <1>4, <1>9, <2>1 DEF TakeOrder
    <2>3. AckFirst(pending', next_order_id)
      BY <1>4, <1>5, <1>6, <2>2, AckComesFirst
    <2>4. ASSUME NEW i \in 1..Len(events), events[i].kind = "Ack"
          PROVE  events[i].id < next_order_id + 1 /\ events[i].id # next_order_id
      <3>1. events[i] \in Event
        BY <1>7, ElementOfSeq DEF AcksAreBelow
      <3>2. events[i].id \in Nat /\ events[i].id < next_order_id
        BY <1>7, <2>4, <3>1 DEF AcksAreBelow, Event
      <3> QED
        BY <1>4, <3>2
    <2>5. AckIsNext'
      <3> SUFFICES ASSUME NEW i \in 1..Len(pending'), pending'[i].kind = "Ack"
                   PROVE  /\ i = 1
                          /\ pending'[i].id < next_order_id'
                          /\ \A j \in 1..Len(events) :
                               events[j].kind = "Ack" => events[j].id # pending'[i].id
        BY <1>1, <2>3 DEF AckIsNext, AckFirst
      <3>1. i = 1 /\ pending'[i].id = next_order_id
        BY <2>3 DEF AckFirst
      <3> QED
        BY <1>4, <2>2, <2>4, <3>1
    <2>6. AcksAreBelow' /\ AckedIdsDiffer'
      BY <1>1, <1>7, <2>2, <2>4 DEF AcksAreBelow, AckedIdsDiffer
    <2>7. next_order_id' \in Nat \ {0} /\ traders' \subseteq Clients
      BY <1>4, <1>6, <2>2
    <2> QED
      BY <1>3, <1>5, <2>5, <2>6, <2>7 DEF AckInv
  <1> QED
    BY <1>8, <1>9 DEF Take

\* The next event goes out: it is no second acknowledgement of one id.
LEMMA SendKeepsInv == ASSUME AckInv, Send PROVE AckInv'
  <1>1. /\ pending \in Seq(Event) /\ pending # << >>
        /\ events \in Seq(Event)
        /\ pending' = Tail(pending)
        /\ events' = Append(events, Head(pending))
        /\ UNCHANGED <<taken, next_order_id, traders, order_rx>>
    BY DEF AckInv, AckIsNext, AcksAreBelow, Send
  <1>2. /\ pending' \in Seq(Event)
        /\ Len(pending') = Len(pending) - 1
        /\ \A i \in 1..Len(pending') : pending'[i] = pending[i + 1]
        /\ Len(pending) \in Nat \ {0}
        /\ Head(pending) = pending[1] /\ Head(pending) \in Event
    BY <1>1, HeadTailProperties, EmptySeq, LenProperties
  <1>3. /\ events' \in Seq(Event)
        /\ Len(events') = Len(events) + 1
        /\ \A i \in 1..Len(events) : events'[i] = events[i]
        /\ events'[Len(events) + 1] = pending[1]
        /\ Len(events) \in Nat
    BY <1>1, <1>2, AppendProperties, LenProperties
  <1>4. pending[1].kind = "Ack" =>
          /\ pending[1].id < next_order_id
          /\ \A j \in 1..Len(events) :
               events[j].kind = "Ack" => events[j].id # pending[1].id
    BY <1>2 DEF AckInv, AckIsNext
  <1>5. \A i \in 1..Len(pending') : pending'[i].kind # "Ack"
    BY <1>2 DEF AckInv, AckIsNext
  <1>6. AckIsNext'
    BY <1>2, <1>5 DEF AckIsNext
  <1>7. AcksAreBelow'
    BY <1>1, <1>3, <1>4 DEF AckInv, AcksAreBelow
  <1>8. AckedIdsDiffer'
    <2> SUFFICES ASSUME NEW i \in 1..Len(events) + 1, NEW j \in 1..Len(events) + 1,
                        i < j, events'[i].kind = "Ack", events'[j].kind = "Ack"
                 PROVE  events'[i].id # events'[j].id
      BY <1>3 DEF AckedIdsDiffer
    <2>1. i \in 1..Len(events) /\ events'[i] = events[i]
      BY <1>3
    <2>2. CASE j \in 1..Len(events)
      BY <1>3, <2>1, <2>2 DEF AckInv, AckedIdsDiffer
    <2>3. CASE j = Len(events) + 1
      BY <1>3, <1>4, <2>1, <2>3
    <2> QED
      BY <1>3, <2>2, <2>3
  <1> QED
    BY <1>1, <1>6, <1>7, <1>8 DEF AckInv, QuarantineHolds

\* Nobody else touches what the invariant is about.
LEMMA OthersKeepInv ==
  ASSUME AckInv, UNCHANGED <<engine, order_rx, events>>
  PROVE  AckInv'
  BY DEF AckInv, QuarantineHolds, AckIsNext, AcksAreBelow, AckedIdsDiffer, engine

LEMMA AckStep == ASSUME AckInv, [Next]_vars PROVE AckInv'
  <1>1. ASSUME NEW c \in Clients, Read(c)
        PROVE  AckInv'
    BY <1>1, ReadKeepsInv
  <1>2. CASE Take
    BY <1>2, TakeKeepsInv
  <1>3. CASE Send
    BY <1>3, SendKeepsInv
  <1>4. CASE Accept \/ Register \/ Dispatch
    BY <1>4, OthersKeepInv DEF Accept, Register, Dispatch, engine
  <1>5. ASSUME NEW c \in Clients,
               Connect(c) \/ Close(c) \/ Disconnect(c) \/ Write(c) \/ EndWriter(c)
        PROVE  AckInv'
    BY <1>5, OthersKeepInv DEF Connect, Close, Disconnect, Write, EndWriter, engine
  <1>6. CASE UNCHANGED vars
    BY <1>6, OthersKeepInv DEF vars, engine
  <1> QED
    BY <1>1, <1>2, <1>3, <1>4, <1>5, <1>6 DEF Next

\* No two acknowledgements carry the same id, whatever ids clients write in
\* their orders and however connections, evictions and the dispatcher
\* interleave (gateway.rs:126-134, exchange.rs:142-161).
THEOREM AcknowledgedIdsDiffer == Spec => []AckedIdsDiffer
  <1>1. AckInv => AckedIdsDiffer
    BY DEF AckInv
  <1> QED
    BY <1>1, AckInit, AckStep, PTL DEF Spec

-----------------------------------------------------------------------------
(* What a client is addressed, as the dispatcher goes on. *)

Copies(n, k) == [i \in 1..k |-> n]

\* f has after each number of events what of them was for the client.
IsStream(f, sent, c, from, n) ==
  f = [m \in 0..n |-> IF m <= from THEN << >>
                      ELSE f[m - 1] \o Copies(m, Times(sent[m], c))]

LEMMA StreamExists ==
  ASSUME NEW sent, NEW c, NEW from \in Nat, NEW n \in Nat
  PROVE  \E f : IsStream(f, sent, c, from, n)
  <1> DEFINE T == {k \in Nat : \E f : IsStream(f, sent, c, from, k)}
  <1>1. 0 \in T
    <2> DEFINE f == [m \in 0..0 |-> << >>]
    <2>1. f = [m \in 0..0 |-> IF m <= from THEN << >>
                              ELSE f[m - 1] \o Copies(m, Times(sent[m], c))]
      OBVIOUS
    <2> HIDE DEF f
    <2>2. IsStream(f, sent, c, from, 0)
      BY <2>1 DEF IsStream
    <2> QED
      BY <2>2
  <1>2. ASSUME NEW k \in T
        PROVE  k + 1 \in T
    <2>1. k \in Nat
      OBVIOUS
    <2>2. PICK f : IsStream(f, sent, c, from, k)
      OBVIOUS
    <2> DEFINE More(m) == IF m <= from THEN << >>
                          ELSE f[m - 1] \o Copies(m, Times(sent[m], c))
               g == [m \in 0..k + 1 |-> More(m)]
    <2>3. \A m \in 0..k : f[m] = More(m)
      BY <2>2 DEF IsStream
    <2>4. \A m \in 0..k : g[m] = f[m]
      BY <2>1, <2>3
    <2>5. ASSUME NEW m \in 0..k + 1
          PROVE  More(m) = IF m <= from THEN << >>
                           ELSE g[m - 1] \o Copies(m, Times(sent[m], c))
      <3>1. ~(m <= from) => m - 1 \in 0..k
        BY <2>1
      <3> QED
        BY <2>4, <3>1
    <2> HIDE DEF More
    <2>6. g = [m \in 0..k + 1 |-> IF m <= from THEN << >>
                                  ELSE g[m - 1] \o Copies(m, Times(sent[m], c))]
      BY <2>5
    <2> HIDE DEF g
    <2>7. IsStream(g, sent, c, from, k + 1)
      BY <2>6 DEF IsStream
    <2> QED
      BY <2>1, <2>7
  <1>3. T \in SUBSET Nat
    OBVIOUS
  <1> HIDE DEF T
  <1>4. T = Nat
    BY <1>1, <1>2, <1>3, SetInduction
  <1> QED
    BY <1>4 DEF T

\* What is addressed depends on the events handled and on nothing else.
LEMMA StreamsAgree ==
  ASSUME NEW sent, NEW more, NEW c, NEW from \in Nat, NEW n \in Nat, NEW k \in 0..n,
         \A m \in 1..k : sent[m] = more[m],
         NEW f, IsStream(f, sent, c, from, k), NEW g, IsStream(g, more, c, from, n)
  PROVE  f[k] = g[k]
  <1> DEFINE T == {m \in Nat : m <= k => f[m] = g[m]}
  <1>1. \A m \in 0..k :
          f[m] = IF m <= from THEN << >> ELSE f[m - 1] \o Copies(m, Times(sent[m], c))
    BY DEF IsStream
  <1>2. \A m \in 0..k :
          g[m] = IF m <= from THEN << >> ELSE g[m - 1] \o Copies(m, Times(more[m], c))
    <2>1. \A m \in 0..n :
            g[m] = IF m <= from THEN << >> ELSE g[m - 1] \o Copies(m, Times(more[m], c))
      BY DEF IsStream
    <2>2. \A m \in 0..k : m \in 0..n
      OBVIOUS
    <2> QED
      BY <2>1, <2>2
  <1>3. 0 \in T
    BY <1>1, <1>2
  <1>4. ASSUME NEW m \in T
        PROVE  m + 1 \in T
    <2>1. m \in Nat /\ (m <= k => f[m] = g[m])
      OBVIOUS
    <2>2. ASSUME m + 1 <= k
          PROVE  f[m + 1] = g[m + 1]
      <3>1. m + 1 \in 0..k /\ (m + 1) - 1 = m /\ f[m] = g[m] /\ sent[m + 1] = more[m + 1]
        BY <2>1, <2>2
      <3> QED
        BY <1>1, <1>2, <3>1
    <2> QED
      BY <2>1, <2>2
  <1>5. T \in SUBSET Nat
    OBVIOUS
  <1> HIDE DEF T
  <1>6. T = Nat
    BY <1>3, <1>4, <1>5, SetInduction
  <1> QED
    BY <1>6 DEF T

LEMMA TimesIsNat ==
  ASSUME NEW event \in Event, NEW c
  PROVE  Times(event, c) \in Nat
  <1>1. event.to \in Seq(Clients) /\ DOMAIN event.to = 1..Len(event.to) /\ Len(event.to) \in Nat
    BY LenProperties DEF Event
  <1>2. IsFiniteSet(1..Len(event.to))
    <2>1. 1 \in Int /\ Len(event.to) \in Int
      BY <1>1
    <2> QED
      BY <2>1, FS_Interval, Zenon
  <1>3. IsFiniteSet({i \in DOMAIN event.to : event.to[i] = c})
    BY <1>1, <1>2, FS_Subset
  <1>4. Cardinality({i \in DOMAIN event.to : event.to[i] = c}) \in Nat
    BY <1>3, FS_CardinalityType
  <1> QED
    BY <1>4 DEF Times

LEMMA CopiesAreSeq ==
  ASSUME NEW n \in Nat, NEW k \in Nat
  PROVE  Copies(n, k) \in Seq(Nat) /\ Len(Copies(n, k)) = k
  BY DEF Copies

LEMMA StreamTyped ==
  ASSUME NEW n \in Nat, NEW sent \in Seq(Event), n <= Len(sent), NEW c, NEW from \in Nat,
         NEW f, IsStream(f, sent, c, from, n)
  PROVE  f[n] \in Seq(Nat)
  <1> DEFINE T == {m \in Nat : m <= n => f[m] \in Seq(Nat)}
  <1>1. \A m \in 0..n :
          f[m] = IF m <= from THEN << >> ELSE f[m - 1] \o Copies(m, Times(sent[m], c))
    BY DEF IsStream
  <1>2. 0 \in T
    <2>1. f[0] = << >> /\ << >> \in Seq(Nat)
      BY <1>1
    <2> QED
      BY <2>1
  <1>3. ASSUME NEW m \in T
        PROVE  m + 1 \in T
    <2>1. m \in Nat /\ (m <= n => f[m] \in Seq(Nat))
      OBVIOUS
    <2>2. ASSUME m + 1 <= n
          PROVE  f[m + 1] \in Seq(Nat)
      <3>1. m + 1 \in 0..n /\ (m + 1) - 1 = m /\ f[m] \in Seq(Nat) /\ m + 1 \in 1..Len(sent)
        BY <2>1, <2>2, LenProperties
      <3>2. Times(sent[m + 1], c) \in Nat
        BY <3>1, ElementOfSeq, TimesIsNat
      <3>3. f[m] \o Copies(m + 1, Times(sent[m + 1], c)) \in Seq(Nat)
        BY <2>1, <3>1, <3>2, CopiesAreSeq, ConcatProperties
      <3>4. << >> \in Seq(Nat)
        OBVIOUS
      <3>5. f[m + 1] = << >> \/ f[m + 1] = f[m] \o Copies(m + 1, Times(sent[m + 1], c))
        BY <1>1, <3>1
      <3> QED
        BY <3>3, <3>4, <3>5
    <2> QED
      BY <2>1, <2>2
  <1>4. T \in SUBSET Nat
    OBVIOUS
  <1> HIDE DEF T
  <1>5. T = Nat
    BY <1>2, <1>3, <1>4, SetInduction
  <1> QED
    BY <1>5 DEF T

HasStreams ==
  \A c \in Clients :
    \E f : /\ IsStream(f, events, c, since[c], dispatched)
           /\ Addressed(c) = f[dispatched]

LEMMA AddressedIs == since \in [Clients -> Nat] /\ dispatched \in Nat => HasStreams
  <1> SUFFICES ASSUME since \in [Clients -> Nat], dispatched \in Nat, NEW c \in Clients
               PROVE  \E f : /\ IsStream(f, events, c, since[c], dispatched)
                             /\ Addressed(c) = f[dispatched]
    BY DEF HasStreams
  <1> DEFINE f == CHOOSE g : IsStream(g, events, c, since[c], dispatched)
  <1>1. IsStream(f, events, c, since[c], dispatched)
    <2>1. since[c] \in Nat
      OBVIOUS
    <2>2. \E g : IsStream(g, events, c, since[c], dispatched)
      BY <2>1, StreamExists
    <2> QED
      BY <2>2, Zenon
  <1>2. Addressed(c) = f[dispatched]
    BY DEF Addressed, IsStream, Copies
  <1> HIDE DEF f
  <1> QED
    BY <1>1, <1>2

\* What the dispatcher has handled, and from where on each client is served.
Served ==
  /\ events \in Seq(Event)
  /\ dispatched \in 0..Len(events)
  /\ since \in [Clients -> Nat]

LEMMA ServedStreams ==
  /\ Served => HasStreams
  /\ Served' => HasStreams'
  <1>1. Served => HasStreams
    BY AddressedIs DEF Served
  <1> QED
    BY <1>1, PTL

LEMMA AddressedTyped ==
  ASSUME Served, NEW c \in Clients
  PROVE  Addressed(c) \in Seq(Nat)
  <1>1. PICK f : /\ IsStream(f, events, c, since[c], dispatched)
                 /\ Addressed(c) = f[dispatched]
    BY ServedStreams DEF HasStreams
  <1>2. /\ dispatched \in Nat /\ dispatched <= Len(events) /\ events \in Seq(Event)
        /\ since[c] \in Nat
    BY LenProperties DEF Served
  <1> QED
    BY <1>1, <1>2, StreamTyped

LEMMA AddressedNone ==
  ASSUME Served, NEW c \in Clients, since[c] >= dispatched
  PROVE  Addressed(c) = << >>
  <1>1. PICK f : /\ IsStream(f, events, c, since[c], dispatched)
                 /\ Addressed(c) = f[dispatched]
    BY ServedStreams DEF HasStreams
  <1>2. dispatched \in Nat
    BY LenProperties DEF Served
  <1> QED
    BY <1>1, <1>2 DEF IsStream

NewcomersHaveNone == \A c \in Clients : since[c] >= dispatched => Addressed(c) = << >>

LEMMA NoneAddressed ==
  /\ Served => NewcomersHaveNone
  /\ Served' => NewcomersHaveNone'
  <1>1. Served => NewcomersHaveNone
    BY AddressedNone DEF NewcomersHaveNone
  <1> QED
    BY <1>1, PTL

LEMMA AddressedSame ==
  ASSUME Served, Served', NEW c \in Clients, dispatched' = dispatched, since'[c] = since[c],
         \A i \in 1..dispatched : events'[i] = events[i]
  PROVE  Addressed(c)' = Addressed(c)
  <1>1. PICK f : /\ IsStream(f, events, c, since[c], dispatched)
                 /\ Addressed(c) = f[dispatched]
    BY ServedStreams DEF HasStreams
  <1>2. PICK g : /\ IsStream(g, events', c, since'[c], dispatched')
                 /\ Addressed(c)' = g[dispatched']
    BY ServedStreams DEF HasStreams
  <1>3. PICK n \in Nat : n = dispatched
    BY LenProperties DEF Served
  <1>4. PICK from \in Nat : from = since[c]
    BY DEF Served
  <1>5. n \in 0..n /\ \A i \in 1..n : events[i] = events'[i]
    BY <1>3
  <1>6. IsStream(f, events, c, from, n) /\ IsStream(g, events', c, from, n)
    BY <1>1, <1>2, <1>3, <1>4
  <1>7. f[n] = g[n]
    BY <1>5, <1>6, StreamsAgree
  <1> QED
    BY <1>1, <1>2, <1>3, <1>7

LEMMA AddressedMore ==
  ASSUME Served, Served', NEW c \in Clients, dispatched' = dispatched + 1,
         since'[c] = since[c], since[c] <= dispatched, events' = events
  PROVE  Addressed(c)'
           = Addressed(c) \o Copies(dispatched + 1, Times(events[dispatched + 1], c))
  <1>1. PICK f : /\ IsStream(f, events, c, since[c], dispatched)
                 /\ Addressed(c) = f[dispatched]
    BY ServedStreams DEF HasStreams
  <1>2. PICK g : /\ IsStream(g, events', c, since'[c], dispatched')
                 /\ Addressed(c)' = g[dispatched']
    BY ServedStreams DEF HasStreams
  <1>3. PICK n \in Nat : n = dispatched
    BY LenProperties DEF Served
  <1>4. PICK from \in Nat : from = since[c]
    BY DEF Served
  <1>5. n + 1 \in Nat /\ n \in 0..n + 1 /\ (n + 1) - 1 = n /\ ~(n + 1 <= from)
    BY <1>3, <1>4
  <1>6. IsStream(f, events, c, from, n) /\ IsStream(g, events, c, from, n + 1)
    BY <1>1, <1>2, <1>3, <1>4
  <1>7. f[n] = g[n]
    BY <1>5, <1>6, StreamsAgree
  <1>8. g[n + 1] = g[n] \o Copies(n + 1, Times(events[n + 1], c))
    <2>1. \A m \in 0..n + 1 :
            g[m] = IF m <= from THEN << >> ELSE g[m - 1] \o Copies(m, Times(events[m], c))
      BY <1>6 DEF IsStream
    <2>2. n + 1 \in 0..n + 1
      BY <1>3
    <2> QED
      BY <1>5, <2>1, <2>2
  <1> QED
    BY <1>1, <1>2, <1>3, <1>7, <1>8

-----------------------------------------------------------------------------
(* Sequences: copies at the end, and beginnings. *)

\* The place goes to a client that often.
With(s, place, k) == s \o Copies(place, k)

LEMMA CopiesLength ==
  ASSUME NEW S, NEW s \in Seq(S), NEW p \in S, NEW k \in Nat
  PROVE  Len(With(s, p, k)) = Len(s) + k
  <1>1. Copies(p, k) \in Seq(S) /\ Len(Copies(p, k)) = k
    BY DEF Copies
  <1>2. Len(s \o Copies(p, k)) = Len(s) + Len(Copies(p, k))
    BY <1>1, ConcatProperties
  <1> QED
    BY <1>1, <1>2 DEF With

LEMMA CopiesAdd ==
  ASSUME NEW S, NEW s \in Seq(S), NEW p \in S, NEW j \in Nat, NEW k \in Nat,
         NEW n, n = j + k
  PROVE  /\ With(With(s, p, j), p, k) = With(s, p, n)
         /\ With(s, p, 0) = s
         /\ With(s, p, 1) = Append(s, p)
  <1>1. \A i \in Nat : Copies(p, i) \in Seq(S) /\ Len(Copies(p, i)) = i
                       /\ \A x \in 1..i : Copies(p, i)[x] = p
    BY DEF Copies
  <1>2. Len(s) \in Nat
    BY LenProperties
  <1>3. ASSUME NEW i \in Nat
        PROVE  /\ s \o Copies(p, i) \in Seq(S)
               /\ Len(s \o Copies(p, i)) = Len(s) + i
               /\ \A x \in 1..Len(s) + i :
                    (s \o Copies(p, i))[x] = IF x <= Len(s) THEN s[x] ELSE p
    <2>1. /\ s \o Copies(p, i) \in Seq(S)
          /\ Len(s \o Copies(p, i)) = Len(s) + i
          /\ \A x \in 1..Len(s) + i :
               (s \o Copies(p, i))[x]
                 = IF x <= Len(s) THEN s[x] ELSE Copies(p, i)[x - Len(s)]
      <3>1. Copies(p, i) \in Seq(S) /\ Len(Copies(p, i)) = i
        BY <1>1
      <3> QED
        BY <3>1, ConcatProperties
    <2>2. \A x \in 1..Len(s) + i : ~(x <= Len(s)) => x - Len(s) \in 1..i
      BY <1>2
    <2> QED
      BY <1>1, <2>1, <2>2
  <1> DEFINE a == s \o Copies(p, j)
  <1>4. a \in Seq(S) /\ Len(a) = Len(s) + j
        /\ \A x \in 1..Len(s) + j : a[x] = IF x <= Len(s) THEN s[x] ELSE p
    BY <1>3
  <1> HIDE DEF a
  <1>5. /\ a \o Copies(p, k) \in Seq(S)
        /\ Len(a \o Copies(p, k)) = Len(s) + j + k
        /\ \A x \in 1..Len(s) + j + k :
             (a \o Copies(p, k))[x] = IF x <= Len(s) THEN s[x] ELSE p
    <2>1. /\ a \o Copies(p, k) \in Seq(S)
          /\ Len(a \o Copies(p, k)) = Len(a) + k
          /\ \A x \in 1..Len(a) + k :
               (a \o Copies(p, k))[x] = IF x <= Len(a) THEN a[x] ELSE Copies(p, k)[x - Len(a)]
      <3>1. Copies(p, k) \in Seq(S) /\ Len(Copies(p, k)) = k
        BY <1>1
      <3> QED
        BY <1>4, <3>1, ConcatProperties
    <2>2. ASSUME NEW x \in 1..Len(s) + j + k
          PROVE  (a \o Copies(p, k))[x] = IF x <= Len(s) THEN s[x] ELSE p
      <3>1. CASE x <= Len(a)
        <4>1. x \in 1..Len(a) + k /\ x \in 1..Len(s) + j
          BY <1>2, <1>4, <3>1
        <4> QED
          BY <1>4, <2>1, <3>1, <4>1
      <3>2. CASE ~(x <= Len(a))
        <4>1. x - Len(a) \in 1..k /\ ~(x <= Len(s)) /\ x \in 1..Len(a) + k
          BY <1>2, <1>4, <3>2
        <4> QED
          BY <1>1, <2>1, <3>2, <4>1
      <3> QED
        BY <3>1, <3>2
    <2> QED
      BY <1>2, <1>4, <2>1, <2>2
  <1>6. a \o Copies(p, k) = s \o Copies(p, n)
    <2> DEFINE u == a \o Copies(p, k)
               v == s \o Copies(p, n)
    <2>1. /\ v \in Seq(S) /\ Len(v) = Len(s) + (j + k)
          /\ \A x \in 1..Len(s) + (j + k) : v[x] = IF x <= Len(s) THEN s[x] ELSE p
      <3>1. j + k \in Nat
        OBVIOUS
      <3> QED
        BY <1>3, <3>1
    <2>2. /\ u \in Seq(S) /\ Len(u) = Len(s) + j + k
          /\ \A x \in 1..Len(s) + j + k : u[x] = IF x <= Len(s) THEN s[x] ELSE p
      BY <1>5
    <2> HIDE DEF u, v
    <2>3. Len(s) + (j + k) = Len(s) + j + k
      BY <1>2
    <2>4. Len(u) = Len(v) /\ \A x \in 1..Len(u) : u[x] = v[x]
      BY ONLY <2>1, <2>2, <2>3
    <2>5. u = v
      BY <2>1, <2>2, <2>4, SeqEqual
    <2> QED
      BY <2>5 DEF u, v
  <1>7. s \o Copies(p, 0) = s
    <2>1. /\ s \o Copies(p, 0) \in Seq(S) /\ Len(s \o Copies(p, 0)) = Len(s)
          /\ \A x \in 1..Len(s) : (s \o Copies(p, 0))[x] = s[x]
      BY <1>2, <1>3
    <2> QED
      BY <2>1, SeqEqual
  <1>8. s \o Copies(p, 1) = Append(s, p)
    <2>1. /\ s \o Copies(p, 1) \in Seq(S) /\ Len(s \o Copies(p, 1)) = Len(s) + 1
          /\ \A x \in 1..Len(s) + 1 :
               (s \o Copies(p, 1))[x] = IF x <= Len(s) THEN s[x] ELSE p
      BY <1>3
    <2>2. /\ Append(s, p) \in Seq(S) /\ Len(Append(s, p)) = Len(s) + 1
          /\ \A x \in 1..Len(s) : Append(s, p)[x] = s[x]
          /\ Append(s, p)[Len(s) + 1] = p
      BY AppendProperties
    <2>3. \A x \in 1..Len(s) + 1 : (s \o Copies(p, 1))[x] = Append(s, p)[x]
      BY <1>2, <2>1, <2>2
    <2> QED
      BY <2>1, <2>2, <2>3, SeqEqual
  <1> QED
    BY <1>3, <1>6, <1>7, <1>8 DEF a, With

\* s is the beginning of t.
Begins(s, t) == \E n \in 0..Len(t) : s = SubSeq(t, 1, n)

LEMMA BeginsItself ==
  ASSUME NEW S, NEW s \in Seq(S)
  PROVE  Begins(s, s) /\ Begins(<< >>, s)
  <1>1. Len(s) \in Nat
    BY LenProperties
  <1>2. s = SubSeq(s, 1, Len(s))
    <2>1. \A i \in 1..Len(s) : s[i] \in S
      BY ElementOfSeq
    <2>2. /\ SubSeq(s, 1, Len(s)) \in Seq(S) /\ Len(SubSeq(s, 1, Len(s))) = Len(s)
          /\ \A i \in 1..Len(s) : SubSeq(s, 1, Len(s))[i] = s[i]
      BY <1>1, <2>1, SubSeqProperties
    <2> QED
      BY <2>2, SeqEqual
  <1>3. << >> = SubSeq(s, 1, 0)
    OBVIOUS
  <1> QED
    <2>1. Len(s) \in 0..Len(s) /\ 0 \in 0..Len(s)
      BY <1>1
    <2> QED
      BY <1>2, <1>3, <2>1, Zenon DEF Begins

LEMMA BeginsOn ==
  ASSUME NEW S, NEW s, NEW t \in Seq(S), NEW u \in Seq(S), Begins(s, t)
  PROVE  Begins(s, t \o u)
  <1>1. PICK n \in 0..Len(t) : s = SubSeq(t, 1, n)
    BY DEF Begins
  <1>2. /\ t \o u \in Seq(S) /\ Len(t \o u) = Len(t) + Len(u)
        /\ Len(t) \in Nat /\ Len(u) \in Nat
        /\ \A i \in 1..Len(t) : (t \o u)[i] = t[i]
    BY ConcatProperties, LenProperties
  <1>3. n \in 0..Len(t \o u)
    BY <1>2
  <1>4. SubSeq(t \o u, 1, n) = SubSeq(t, 1, n)
    <2>1. \A i \in 1..n : t[i] \in S /\ (t \o u)[i] = t[i]
      BY <1>2, ElementOfSeq
    <2>2. /\ SubSeq(t, 1, n) \in Seq(S) /\ Len(SubSeq(t, 1, n)) = n
          /\ \A i \in 1..n : SubSeq(t, 1, n)[i] = t[i]
      BY <1>2, <2>1, SubSeqProperties
    <2>3. /\ SubSeq(t \o u, 1, n) \in Seq(S) /\ Len(SubSeq(t \o u, 1, n)) = n
          /\ \A i \in 1..n : SubSeq(t \o u, 1, n)[i] = (t \o u)[i]
      BY <1>2, <1>3, <2>1, SubSeqProperties
    <2> QED
      BY <2>1, <2>2, <2>3, SeqEqual
  <1> QED
    BY <1>1, <1>3, <1>4 DEF Begins

-----------------------------------------------------------------------------
(* What handing out an event does to one client. *)

\* An event names as many clients as its kind has.
Formed(event) ==
  /\ event.kind \in {"Ack", "Reply"} => Len(event.to) = 1
  /\ event.kind = "Fill" => Len(event.to) = 2

One(c, d) == IF c = d THEN 1 ELSE 0

LEMMA TimesAre ==
  ASSUME NEW event \in Event, Formed(event), NEW c
  PROVE  /\ event.kind = "Bbo" => Times(event, c) = 1
         /\ event.kind \in {"Ack", "Reply"} =>
              event.to[1] \in Clients /\ Times(event, c) = One(c, event.to[1])
         /\ event.kind = "Fill" =>
              /\ event.to[1] \in Clients /\ event.to[2] \in Clients
              /\ Times(event, c) = One(c, event.to[1]) + One(c, event.to[2])
  <1> DEFINE to == event.to
             places == {i \in DOMAIN to : to[i] = c}
  <1>1. to \in Seq(Clients) /\ DOMAIN to = 1..Len(to) /\ \A i \in 1..Len(to) : to[i] \in Clients
    BY ElementOfSeq, LenProperties DEF Event
  <1>2. event.kind # "Bbo" => Times(event, c) = Cardinality(places)
    BY DEF Times
  <1>3. Cardinality({}) = 0
    BY FS_EmptySet
  <1>4. Cardinality({1}) = 1 /\ Cardinality({2}) = 1
    BY FS_Singleton, Zenon
  <1> HIDE DEF to
  <1>5. CASE event.kind \in {"Ack", "Reply"}
    <2>1. Len(to) = 1 /\ 1..Len(to) = {1}
      <3>1. Len(to) = 1
        BY <1>5 DEF Formed, to
      <3> QED
        BY ONLY <3>1
    <2>2. places = IF c = to[1] THEN {1} ELSE {}
      BY <1>1, <2>1
    <2>3. Cardinality(places) = One(c, to[1])
      BY <1>3, <1>4, <2>2 DEF One
    <2> QED
      BY <1>1, <1>2, <1>5, <2>1, <2>3 DEF to
  <1>6. CASE event.kind = "Fill"
    <2>1. Len(to) = 2 /\ 1..Len(to) = {1, 2}
      <3>1. Len(to) = 2
        BY <1>6 DEF Formed, to
      <3> QED
        BY ONLY <3>1
    <2>2. Cardinality({1, 2}) = 2
      <3>1. IsFiniteSet({1}) /\ Cardinality({1}) = 1
        BY FS_Singleton, Zenon
      <3>2. Cardinality({1} \cup {2}) = 1 + 1
        <4>1. 2 \notin {1}
          OBVIOUS
        <4> QED
          BY <3>1, <4>1, FS_AddElement
      <3>3. {1} \cup {2} = {1, 2}
        OBVIOUS
      <3> QED
        BY <3>2, <3>3
    <2>3. places = {i \in {1, 2} : to[i] = c}
      BY <1>1, <2>1
    <2>4. /\ c = to[1] /\ c = to[2] => places = {1, 2}
          /\ c = to[1] /\ c # to[2] => places = {1}
          /\ c # to[1] /\ c = to[2] => places = {2}
          /\ c # to[1] /\ c # to[2] => places = {}
      BY <2>3
    <2> HIDE DEF places
    <2>5. Cardinality(places) = One(c, to[1]) + One(c, to[2])
      BY <1>3, <1>4, <2>2, <2>4 DEF One
    <2> QED
      BY <1>1, <1>2, <1>6, <2>1, <2>5 DEF to
  <1> QED
    BY <1>5, <1>6 DEF Times

IsEgress(e) ==
  /\ e.senders \subseteq Clients
  /\ e.output \in [Clients -> Seq(1..Len(events))]
  /\ \A c \in Clients : Len(e.output[c]) - written[c] <= CLIENT_CHANNEL

\* From one to the other, of an event for it that often, a client that stays
\* got every copy, and one that does not is evicted then or was before.
Gives(e, after, c, place, times) ==
  \E k \in 0..times :
    /\ after.output[c] = With(e.output[c], place, k)
    /\ c \in after.senders => c \in e.senders /\ k = times
    /\ c \notin e.senders => k = 0

LEMMA OutputCopies ==
  ASSUME NEW s \in Seq(1..Len(events)), NEW place \in 1..Len(events)
  PROVE  /\ \A j, k, n \in Nat :
              n = j + k =>
                With(With(s, place, j), place, k) = With(s, place, n)
         /\ With(s, place, 0) = s
         /\ With(s, place, 1) = Append(s, place)
  <1>1. PICK S : S = 1..Len(events)
    OBVIOUS
  <1>2. s \in Seq(S) /\ place \in S
    BY <1>1
  <1>3. ASSUME NEW j \in Nat, NEW k \in Nat, NEW n \in Nat, n = j + k
        PROVE  With(With(s, place, j), place, k) = With(s, place, n)
    BY ONLY <1>2, <1>3, j \in Nat, k \in Nat, CopiesAdd
  <1>4. With(s, place, 0) = s /\ With(s, place, 1) = Append(s, place)
    <2>1. PICK j \in Nat, n \in Nat : n = j + j
      BY 0 \in Nat, 0 + 0 = 0
    <2> QED
      BY ONLY <1>2, <2>1, j \in Nat, CopiesAdd
  <1> QED
    BY <1>3, <1>4

LEMMA GivesMore ==
  ASSUME NEW e, IsEgress(e), NEW e2, NEW e3, NEW c \in Clients, NEW place \in 1..Len(events),
         NEW m \in Nat, NEW n \in Nat, Gives(e, e2, c, place, m), Gives(e2, e3, c, place, n)
  PROVE  Gives(e, e3, c, place, m + n)
  <1>1. PICK j \in 0..m :
          /\ e2.output[c] = With(e.output[c], place, j)
          /\ c \in e2.senders => c \in e.senders /\ j = m
          /\ c \notin e.senders => j = 0
    BY DEF Gives
  <1>2. PICK k \in 0..n :
          /\ e3.output[c] = With(e2.output[c], place, k)
          /\ c \in e3.senders => c \in e2.senders /\ k = n
          /\ c \notin e2.senders => k = 0
    BY DEF Gives
  <1>3. e.output[c] \in Seq(1..Len(events))
    BY DEF IsEgress
  <1>4. e3.output[c] = With(e.output[c], place, j + k)
    <2>1. PICK i \in Nat : i = j + k
      OBVIOUS
    <2>2. j \in Nat /\ k \in Nat
      OBVIOUS
    <2>3. With(With(e.output[c], place, j), place, k) = With(e.output[c], place, i)
      BY <1>3, <2>1, <2>2, OutputCopies
    <2> QED
      BY <1>1, <1>2, <2>1, <2>3
  <1>5. j + k \in 0..m + n
    OBVIOUS
  <1>6. c \in e3.senders => c \in e.senders /\ j + k = m + n
    BY <1>1, <1>2
  <1>7. c \notin e.senders => j + k = 0
    BY <1>1, <1>2
  <1> QED
    BY <1>4, <1>5, <1>6, <1>7 DEF Gives

LEMMA HandedGives ==
  ASSUME NEW e, IsEgress(e), NEW d \in Clients, NEW place \in 1..Len(events),
         written \in [Clients -> Nat]
  PROVE  /\ IsEgress(Handed(e, d, place))
         /\ \A c \in Clients : Gives(e, Handed(e, d, place), c, place, One(c, d))
         /\ \A c \in Clients \ {d} :
              /\ Handed(e, d, place).output[c] = e.output[c]
              /\ c \in Handed(e, d, place).senders <=> c \in e.senders
  <1> DEFINE h == Handed(e, d, place)
  <1>1. /\ e.senders \subseteq Clients
        /\ e.output \in [Clients -> Seq(1..Len(events))]
        /\ \A c \in Clients : e.output[c] \in Seq(1..Len(events))
        /\ \A c \in Clients : Len(e.output[c]) - written[c] <= CLIENT_CHANNEL
    BY DEF IsEgress
  <1>2. \A c \in Clients : With(e.output[c], place, 0) = e.output[c]
    BY <1>1, OutputCopies
  <1>3. CASE d \notin e.senders
    <2>1. h = e
      BY <1>3 DEF Handed
    <2>2. \A c \in Clients : Gives(e, e, c, place, One(c, d))
      BY <1>2, <1>3 DEF Gives, One
    <2> QED
      BY <2>1, <2>2
  <1>4. CASE d \in e.senders /\ ~Accepts(e, d)
    <2>1. h = [senders |-> e.senders \ {d}, output |-> e.output]
      BY <1>4 DEF Handed
    <2>2. h.senders = e.senders \ {d} /\ h.output = e.output
      BY <2>1
    <2> HIDE DEF h
    <2>3. IsEgress(h)
      BY <1>1, <2>2 DEF IsEgress
    <2>4. \A c \in Clients : Gives(e, h, c, place, One(c, d))
      <3>1. ASSUME NEW c \in Clients
            PROVE  Gives(e, h, c, place, One(c, d))
        <4>1. h.output[c] = With(e.output[c], place, 0) /\ 0 \in 0..One(c, d)
          BY <1>2, <2>2 DEF One
        <4>2. c \in h.senders => c \in e.senders /\ 0 = One(c, d)
          BY <2>2 DEF One
        <4> QED
          BY <4>1, <4>2 DEF Gives
      <3> QED
        BY <3>1
    <2> QED
      BY <2>2, <2>3, <2>4 DEF h
  <1>5. CASE d \in e.senders /\ Accepts(e, d)
    <2>1. h = Sent(e, d, place)
      BY <1>5 DEF Handed
    <2>2. h.senders = e.senders /\ h.output = [e.output EXCEPT ![d] = Append(@, place)]
      BY <2>1 DEF Sent
    <2> HIDE DEF h
    <2>3. /\ Append(e.output[d], place) \in Seq(1..Len(events))
          /\ Len(Append(e.output[d], place)) = Len(e.output[d]) + 1
          /\ Append(e.output[d], place) = With(e.output[d], place, 1)
      <3>1. e.output[d] \in Seq(1..Len(events))
        BY <1>1
      <3>2. Append(e.output[d], place) = With(e.output[d], place, 1)
        BY <3>1, OutputCopies
      <3>3. PICK S : S = 1..Len(events)
        OBVIOUS
      <3>4. e.output[d] \in Seq(S) /\ place \in S
        BY <3>1, <3>3
      <3>5. /\ Append(e.output[d], place) \in Seq(S)
            /\ Len(Append(e.output[d], place)) = Len(e.output[d]) + 1
        BY ONLY <3>4, AppendProperties
      <3> QED
        BY <3>2, <3>3, <3>5
    <2>4. /\ h.output \in [Clients -> Seq(1..Len(events))]
          /\ h.output[d] = Append(e.output[d], place)
          /\ \A c \in Clients \ {d} : h.output[c] = e.output[c]
      BY <1>1, <2>2, <2>3
    <2>5. Len(h.output[d]) - written[d] <= CLIENT_CHANNEL
      <3>1. Len(e.output[d]) - written[d] < CLIENT_CHANNEL
        BY <1>5 DEF Accepts
      <3>2. Len(e.output[d]) \in Nat /\ written[d] \in Nat /\ CLIENT_CHANNEL \in Nat
        BY <1>1, LenProperties
      <3>3. Len(h.output[d]) = Len(e.output[d]) + 1
        BY <2>3, <2>4
      <3>4. PICK l \in Nat, w \in Nat, capacity \in Nat :
              l = Len(e.output[d]) /\ w = written[d] /\ capacity = CLIENT_CHANNEL
        BY <3>2
      <3>5. l - w < capacity
        BY <3>1, <3>4
      <3>6. l + 1 - w <= capacity
        BY ONLY <3>5
      <3>7. Len(h.output[d]) = l + 1
        BY <3>3, <3>4
      <3> QED
        BY ONLY <3>4, <3>6, <3>7
    <2>6. IsEgress(h)
      BY <1>1, <2>2, <2>4, <2>5 DEF IsEgress
    <2>7. ASSUME NEW c \in Clients
          PROVE  Gives(e, h, c, place, One(c, d))
      <3>1. CASE c = d
        <4>1. h.output[c] = With(e.output[c], place, 1) /\ One(c, d) = 1
          BY <2>3, <2>4, <3>1 DEF One
        <4>2. c \in e.senders /\ 1 \in 0..One(c, d)
          BY <1>5, <3>1, <4>1
        <4> QED
          BY ONLY <4>1, <4>2 DEF Gives
      <3>2. CASE c # d
        <4>1. h.output[c] = With(e.output[c], place, 0) /\ One(c, d) = 0
          BY <1>2, <2>4, <3>2 DEF One
        <4>2. 0 \in 0..One(c, d) /\ (c \in h.senders => c \in e.senders)
          BY <2>2, <4>1
        <4> QED
          BY ONLY <4>1, <4>2 DEF Gives
      <3> QED
        BY <3>1, <3>2
    <2> QED
      BY <2>2, <2>4, <2>6, <2>7 DEF h
  <1> QED
    BY <1>3, <1>4, <1>5

\* A broadcast is, for each client, a message handed to it.
LEMMA BroadcastGives ==
  ASSUME IsEgress(Egress), NEW place \in 1..Len(events), written \in [Clients -> Nat]
  PROVE  /\ IsEgress(Broadcast(place))
         /\ \A c \in Clients : Gives(Egress, Broadcast(place), c, place, 1)
  <1> DEFINE h(c) == Handed(Egress, c, place)
             b == Broadcast(place)
  <1>1. ASSUME NEW c \in Clients
        PROVE  /\ h(c).output[c] \in Seq(1..Len(events))
               /\ Len(h(c).output[c]) - written[c] <= CLIENT_CHANNEL
               /\ Gives(Egress, h(c), c, place, 1)
    <2>1. IsEgress(h(c)) /\ Gives(Egress, h(c), c, place, One(c, c))
      BY HandedGives
    <2> QED
      BY <2>1 DEF IsEgress, One
  <1>2. Egress.senders = client_senders /\ client_senders \subseteq Clients
    BY DEF Egress, IsEgress
  <1>3. /\ b.senders = {c \in client_senders : c \in h(c).senders}
        /\ b.output = [c \in Clients |-> h(c).output[c]]
    BY DEF Broadcast
  <1> HIDE DEF h, b
  <1>4. \A c \in Clients : b.output[c] = h(c).output[c]
    BY <1>3
  <1>5. IsEgress(b)
    BY <1>1, <1>2, <1>3, <1>4 DEF IsEgress
  <1>6. ASSUME NEW c \in Clients
        PROVE  Gives(Egress, b, c, place, 1)
    <2>1. PICK k \in 0..1 :
            /\ h(c).output[c] = With(Egress.output[c], place, k)
            /\ c \in h(c).senders => c \in Egress.senders /\ k = 1
            /\ c \notin Egress.senders => k = 0
      BY <1>1 DEF Gives
    <2>2. c \in b.senders => c \in h(c).senders
      BY <1>3
    <2> QED
      BY <1>4, <2>1, <2>2 DEF Gives
  <1> QED
    BY <1>5, <1>6 DEF b

LEMMA AfterGives ==
  ASSUME IsEgress(Egress), NEW place \in 1..Len(events), written \in [Clients -> Nat],
         events[place] \in Event, Formed(events[place])
  PROVE  /\ IsEgress(AfterHanding(place))
         /\ \A c \in Clients :
              Gives(Egress, AfterHanding(place), c, place, Times(events[place], c))
  <1> DEFINE event == events[place]
             a == AfterHanding(place)
  <1>1. event.kind \in {"Ack", "Reply", "Fill", "Bbo"} /\ event \in Event /\ Formed(event)
    BY DEF Event
  <1>2. CASE event.kind = "Bbo"
    <2>1. a = Broadcast(place)
      BY <1>2 DEF AfterHanding
    <2>2. \A c \in Clients : Times(event, c) = 1
      BY <1>1, <1>2, TimesAre
    <2> QED
      BY <2>1, <2>2, BroadcastGives
  <1>3. CASE event.kind \in {"Ack", "Reply"}
    <2>1. a = Handed(Egress, event.to[1], place)
      BY <1>3 DEF AfterHanding
    <2>2. event.to[1] \in Clients
          /\ \A c \in Clients : Times(event, c) = One(c, event.to[1])
      BY <1>1, <1>3, TimesAre
    <2> HIDE DEF a, event
    <2> QED
      BY <2>1, <2>2, HandedGives DEF a, event
  <1>4. CASE event.kind = "Fill"
    <2> DEFINE first == Handed(Egress, event.to[1], place)
    <2>1. a = Handed(first, event.to[2], place)
      BY <1>4 DEF AfterHanding
    <2>2. event.to[1] \in Clients /\ event.to[2] \in Clients
          /\ \A c \in Clients : Times(event, c) = One(c, event.to[1]) + One(c, event.to[2])
      BY <1>1, <1>4, TimesAre
    <2> HIDE DEF a, event
    <2>3. /\ IsEgress(first)
          /\ \A c \in Clients : Gives(Egress, first, c, place, One(c, event.to[1]))
      BY <2>2, HandedGives
    <2> HIDE DEF first
    <2>4. /\ IsEgress(Handed(first, event.to[2], place))
          /\ \A c \in Clients :
               Gives(first, Handed(first, event.to[2], place), c, place, One(c, event.to[2]))
      BY <2>2, <2>3, HandedGives
    <2>5. ASSUME NEW c \in Clients
          PROVE  Gives(Egress, a, c, place, Times(event, c))
      <3>1. One(c, event.to[1]) \in Nat /\ One(c, event.to[2]) \in Nat
        BY DEF One
      <3>2. Gives(Egress, a, c, place, One(c, event.to[1]) + One(c, event.to[2]))
        BY <2>1, <2>3, <2>4, <3>1, GivesMore
      <3> QED
        BY <2>2, <3>2
    <2> QED
      BY <2>1, <2>4, <2>5 DEF a, event
  <1> QED
    BY <1>1, <1>2, <1>3, <1>4

-----------------------------------------------------------------------------
(* The events that the engine sends name the clients they are for. *)

AllFormed(sent) ==
  /\ sent \in Seq(Event)
  /\ \A i \in 1..Len(sent) : Formed(sent[i])

EventsFormed == AllFormed(pending) /\ AllFormed(events)

LEMMA FormedConcat ==
  ASSUME NEW s, NEW t, AllFormed(s), AllFormed(t)
  PROVE  AllFormed(s \o t)
  <1>1. /\ s \o t \in Seq(Event)
        /\ Len(s \o t) = Len(s) + Len(t)
        /\ \A i \in 1..Len(s) + Len(t) :
             (s \o t)[i] = IF i <= Len(s) THEN s[i] ELSE t[i - Len(s)]
    BY ConcatProperties DEF AllFormed
  <1>2. Len(s) \in Nat /\ Len(t) \in Nat
    BY LenProperties DEF AllFormed
  <1>3. ASSUME NEW i \in 1..Len(s) + Len(t)
        PROVE  Formed((s \o t)[i])
    <2>1. CASE i <= Len(s)
      BY <1>1, <1>2, <2>1 DEF AllFormed
    <2>2. CASE ~(i <= Len(s))
      <3>1. i - Len(s) \in 1..Len(t) /\ (s \o t)[i] = t[i - Len(s)]
        BY <1>1, <1>2, <2>2
      <3> QED
        BY <3>1 DEF AllFormed
    <2> QED
      BY <2>1, <2>2
  <1> QED
    BY <1>1, <1>3 DEF AllFormed

LEMMA FormedOne ==
  ASSUME NEW event \in Event, Formed(event)
  PROVE  AllFormed(<<event>>)
  <1>1. <<event>> \in Seq(Event) /\ Len(<<event>>) = 1 /\ <<event>>[1] = event
    OBVIOUS
  <1> QED
    BY <1>1 DEF AllFormed

LEMMA FormedTwo ==
  ASSUME NEW one \in Event, Formed(one), NEW two \in Event, Formed(two)
  PROVE  AllFormed(<<one, two>>)
  <1>1. <<one, two>> \in Seq(Event) /\ Len(<<one, two>>) = 2
        /\ <<one, two>>[1] = one /\ <<one, two>>[2] = two
    OBVIOUS
  <1>2. \A i \in 1..2 : Formed(<<one, two>>[i])
    BY <1>1
  <1> QED
    BY <1>1, <1>2 DEF AllFormed

LEMMA AcknowledgedFormed ==
  ASSUME NEW c \in Clients, NEW id \in Nat, NEW sent \in Acknowledged(c, id),
         taken + 1 \in 1..MaxMessages, traders \subseteq Clients
  PROVE  AllFormed(sent)
  <1> DEFINE ack == ToClient("Ack", c, id)
             reject == ToClient("Reply", c, 0)
  <1>1. ack \in Event /\ Formed(ack) /\ reject \in Event /\ Formed(reject)
    BY DEF ToClient, Event, Formed
  <1>2. Bbo \in Event /\ Formed(Bbo)
    BY DEF Bbo, Event, Formed
  <1>3. ASSUME NEW maker \in traders
        PROVE  AllFormed(<<Fill(c, maker)>>)
    <2>1. Fill(c, maker) \in Event /\ Formed(Fill(c, maker))
      BY DEF Fill, Event, Formed
    <2> QED
      BY <2>1, FormedOne
  <1>4. AllFormed(<< >>)
    BY DEF AllFormed
  <1>5. \/ sent = <<ack, reject>>
        \/ \E fills \in {<< >>} \cup {<<Fill(c, maker)>> : maker \in traders} :
             \/ sent = <<ack>> \o fills \o <<Bbo>>
             \/ sent = <<ack>> \o fills \o <<reject, Bbo>>
    BY Zenon DEF Acknowledged, ack, reject
  <1> HIDE DEF ack, reject
  <1>6. /\ AllFormed(<<ack>>) /\ AllFormed(<<Bbo>>)
        /\ AllFormed(<<ack, reject>>) /\ AllFormed(<<reject, Bbo>>)
    BY <1>1, <1>2, FormedOne, FormedTwo
  <1>8. ASSUME NEW fills \in {<< >>} \cup {<<Fill(c, maker)>> : maker \in traders},
               \/ sent = <<ack>> \o fills \o <<Bbo>>
               \/ sent = <<ack>> \o fills \o <<reject, Bbo>>
        PROVE  AllFormed(sent)
    <2>1. AllFormed(fills)
      BY <1>3, <1>4
    <2>2. AllFormed(<<ack>> \o fills)
      BY <1>6, <2>1, FormedConcat
    <2> QED
      BY <1>6, <1>8, <2>2, FormedConcat
  <1> QED
    BY <1>5, <1>6, <1>8

LEMMA FormedStep == ASSUME AckInv, EventsFormed, [Next]_vars PROVE EventsFormed'
  <1>1. CASE UNCHANGED <<pending, events>>
    BY <1>1 DEF EventsFormed, AllFormed
  <1>2. CASE Take
    <2>1. /\ order_rx \in Seq(Message) /\ order_rx # << >>
          /\ taken \in Nat /\ taken + Len(order_rx) <= MaxMessages
          /\ traders \subseteq Clients /\ next_order_id \in Nat \ {0}
      BY <1>2 DEF AckInv, QuarantineHolds, Take
    <2>2. Head(order_rx) \in Message /\ Len(order_rx) \in Nat \ {0}
      BY <2>1, HeadTailProperties, EmptySeq
    <2>3. taken + 1 \in 1..MaxMessages
      BY <2>1, <2>2
    <2>4. CASE TakeReplied
      <3> DEFINE reply == ToClient("Reply", Head(order_rx).client, 0)
      <3>1. Head(order_rx).client \in Clients
        BY <2>2 DEF Message
      <3>2. reply \in Event /\ Formed(reply)
        BY <2>3, <3>1 DEF ToClient, Event, Formed
      <3>3. pending' = <<reply>>
        BY <2>4 DEF TakeReplied
      <3> HIDE DEF reply
      <3> QED
        BY <1>2, <3>2, <3>3, FormedOne DEF EventsFormed, AllFormed, Take
    <2>5. CASE TakeOrder
      <3>1. PICK c, id : /\ c = Head(order_rx).client
                         /\ id = IF Head(order_rx).id = 0 THEN next_order_id
                                 ELSE Head(order_rx).id
                         /\ pending' \in Acknowledged(c, id)
        BY <2>5 DEF TakeOrder
      <3>2. c \in Clients /\ id \in Nat
        BY <2>1, <2>2, <3>1 DEF Message
      <3>3. AllFormed(pending')
        BY <2>1, <2>3, <3>1, <3>2, AcknowledgedFormed
      <3> QED
        BY <1>2, <3>3 DEF EventsFormed, AllFormed, Take
    <2> QED
      BY <1>2, <2>4, <2>5 DEF Take
  <1>3. CASE Send
    <2>1. /\ pending \in Seq(Event) /\ pending # << >> /\ events \in Seq(Event)
          /\ pending' = Tail(pending) /\ events' = Append(events, Head(pending))
          /\ \A i \in 1..Len(pending) : Formed(pending[i])
          /\ \A i \in 1..Len(events) : Formed(events[i])
      BY <1>3 DEF EventsFormed, AllFormed, Send
    <2>2. /\ pending' \in Seq(Event)
          /\ Len(pending') = Len(pending) - 1
          /\ \A i \in 1..Len(pending') : pending'[i] = pending[i + 1]
          /\ Len(pending) \in Nat \ {0}
          /\ Head(pending) = pending[1] /\ Head(pending) \in Event
      BY <2>1, HeadTailProperties, EmptySeq
    <2>3. /\ events' \in Seq(Event)
          /\ Len(events') = Len(events) + 1
          /\ \A i \in 1..Len(events) : events'[i] = events[i]
          /\ events'[Len(events) + 1] = pending[1]
          /\ Len(events) \in Nat
      BY <2>1, <2>2, AppendProperties, LenProperties
    <2>4. AllFormed(pending)'
      BY <2>1, <2>2 DEF AllFormed
    <2>5. Formed(pending[1])
      BY <2>1, <2>2
    <2>6. AllFormed(events)'
      BY <2>1, <2>3, <2>5 DEF AllFormed
    <2> QED
      BY <2>4, <2>6 DEF EventsFormed
  <1> QED
    BY <1>1, <1>2, <1>3
       DEF Next, vars, gateway, engine, dispatcher, Accept, Connect, Read, Close, Disconnect,
           Write, EndWriter, Register, Dispatch

-----------------------------------------------------------------------------
(* Types. *)

GatewayTyped ==
  /\ NEXT_CLIENT_ID \in 1..MaxClients + 1
  /\ task \in [Clients -> {"none", "accepted", "reading", "closing", "closed"}]
  /\ writer_task \in [Clients -> {"none", "running", "ended"}]

QueuesTyped ==
  /\ order_rx \in Seq(Message) /\ Len(order_rx) <= ORDER_CHANNEL
  /\ conn_rx \in Seq(ConnectionEvent) /\ Len(conn_rx) <= CONN_CHANNEL

EgressTyped ==
  /\ events \in Seq(Event)
  /\ dispatched \in 0..Len(events) /\ Len(events) - dispatched <= OUTBOUND_CHANNEL
  /\ client_senders \subseteq Clients
  /\ output \in [Clients -> Seq(1..Len(events))]
  /\ written \in [Clients -> Nat]
  /\ \A c \in Clients : Queued(c) \in 0..CLIENT_CHANNEL
  /\ since \in [Clients -> Nat]

LEMMA TypedInit == Init => GatewayTyped /\ QueuesTyped /\ EgressTyped /\ EventsFormed
  <1> SUFFICES ASSUME Init PROVE GatewayTyped /\ QueuesTyped /\ EgressTyped /\ EventsFormed
    OBVIOUS
  <1>1. GatewayTyped
    BY DEF Init, GatewayTyped
  <1>2. QueuesTyped
    BY DEF Init, QueuesTyped
  <1>3. EgressTyped
    BY DEF Init, EgressTyped, Queued
  <1>4. EventsFormed
    BY DEF Init, EventsFormed, AllFormed
  <1> QED
    BY <1>1, <1>2, <1>3, <1>4

LEMMA GatewayStep == ASSUME GatewayTyped, [Next]_vars PROVE GatewayTyped'
  <1>1. CASE UNCHANGED <<gateway, writer_task>>
    BY <1>1 DEF GatewayTyped, gateway
  <1>2. CASE Accept
    BY <1>2 DEF GatewayTyped, Accept, Clients
  <1>3. ASSUME NEW c \in Clients, Connect(c) \/ Close(c) \/ Disconnect(c) \/ EndWriter(c)
        PROVE  GatewayTyped'
    BY <1>3 DEF GatewayTyped, Connect, Close, Disconnect, EndWriter, StopWriter, gateway
  <1> QED
    BY <1>1, <1>2, <1>3
       DEF Next, vars, Read, Write, Take, Send, Register, Dispatch, gateway

LEMMA QueuesStep == ASSUME QueuesTyped, [Next]_vars PROVE QueuesTyped'
  <1>1. CASE UNCHANGED <<order_rx, conn_rx>>
    BY <1>1 DEF QueuesTyped
  <1>2. ASSUME NEW c \in Clients, Read(c)
        PROVE  QueuesTyped'
    <2>1. PICK m : m \in Message /\ order_rx' = Append(order_rx, m)
      BY <1>2 DEF Read, Message, Quarantined
    <2> QED
      BY <1>2, <2>1, AppendProperties DEF QueuesTyped, Read
  <1>3. ASSUME NEW c \in Clients, Connect(c) \/ Disconnect(c)
        PROVE  QueuesTyped'
    <2>1. PICK m : m \in ConnectionEvent /\ conn_rx' = Append(conn_rx, m)
      BY <1>3 DEF Connect, Disconnect, ConnectionEvent
    <2> QED
      BY <1>3, <2>1, AppendProperties DEF QueuesTyped, Connect, Disconnect
  <1>4. CASE Take
    BY <1>4, HeadTailProperties DEF QueuesTyped, Take
  <1>5. CASE Register
    BY <1>5, HeadTailProperties DEF QueuesTyped, Register
  <1> QED
    BY <1>1, <1>2, <1>3, <1>4, <1>5
       DEF Next, vars, Accept, Close, Write, EndWriter, Send, Dispatch

\* The writer of one client takes what is queued, all of it when it ends.
LEMMA WriterStep ==
  ASSUME EgressTyped, NEW c \in Clients, Write(c) \/ Close(c) \/ EndWriter(c)
  PROVE  EgressTyped'
  <1>1. UNCHANGED <<events, dispatcher, output>>
    BY DEF Write, Close, EndWriter
  <1>2. output[c] \in Seq(1..Len(events)) /\ Len(output[c]) \in Nat
    BY LenProperties DEF EgressTyped
  <1>3. /\ written' \in [Clients -> Nat]
        /\ Len(output[c]) - written'[c] \in 0..CLIENT_CHANNEL
        /\ \A d \in Clients \ {c} : written'[d] = written[d]
    <2>1. CASE Write(c)
      <3>1. /\ written' = [written EXCEPT ![c] = written[c] + 1]
            /\ Len(output[c]) - written[c] > 0
            /\ Len(output[c]) - written[c] \in 0..CLIENT_CHANNEL
            /\ written \in [Clients -> Nat]
        BY <2>1 DEF Write, EgressTyped, Queued
      <3>2. PICK n \in Nat, w \in Nat : n = Len(output[c]) /\ w = written[c]
        BY <1>2, <3>1
      <3>3. written' \in [Clients -> Nat] /\ written'[c] = w + 1
            /\ \A d \in Clients \ {c} : written'[d] = written[d]
        BY <3>1, <3>2
      <3>4. n - (w + 1) \in 0..CLIENT_CHANNEL
        BY <3>1, <3>2
      <3> QED
        BY <3>2, <3>3, <3>4
    <2>2. CASE Close(c) \/ EndWriter(c)
      <3>1. written' = [written EXCEPT ![c] = Len(output[c])] /\ written \in [Clients -> Nat]
        BY <2>2 DEF Close, EndWriter, StopWriter, EgressTyped
      <3>2. PICK n \in Nat : n = Len(output[c])
        BY <1>2
      <3>3. written' \in [Clients -> Nat] /\ written'[c] = n
            /\ \A d \in Clients \ {c} : written'[d] = written[d]
        <4>1. written' = [written EXCEPT ![c] = n]
          BY <3>1, <3>2
        <4> QED
          BY <3>1, <4>1
      <3>4. n - n \in 0..CLIENT_CHANNEL
        OBVIOUS
      <3> QED
        BY <3>2, <3>3, <3>4
    <2> QED
      BY <2>1, <2>2
  <1>4. \A d \in Clients : Queued(d)' \in 0..CLIENT_CHANNEL
    BY <1>1, <1>3 DEF EgressTyped, Queued
  <1> QED
    BY <1>1, <1>3, <1>4 DEF EgressTyped, dispatcher

LEMMA SendStep == ASSUME EgressTyped, pending \in Seq(Event), Send PROVE EgressTyped'
  <1>1. /\ events' = Append(events, Head(pending))
        /\ Len(events) - dispatched < OUTBOUND_CHANNEL
        /\ UNCHANGED <<dispatcher, output, written>>
    BY DEF Send
  <1>2. Head(pending) \in Event
    BY HeadTailProperties DEF Send
  <1>3. /\ events' \in Seq(Event) /\ Len(events') = Len(events) + 1 /\ Len(events) \in Nat
    BY <1>1, <1>2, AppendProperties, LenProperties DEF EgressTyped
  <1>4. 1..Len(events) \subseteq 1..Len(events')
    BY <1>3
  <1>5. \A c \in Clients : output[c] \in Seq(1..Len(events'))
    <2>1. \A c \in Clients : output[c] \in Seq(1..Len(events))
      BY DEF EgressTyped
    <2>2. PICK S, T : S = 1..Len(events) /\ T = 1..Len(events')
      OBVIOUS
    <2>3. \A c \in Clients : output[c] \in Seq(T)
      BY ONLY <1>4, <2>1, <2>2, SeqMonotonic
    <2> QED
      BY ONLY <2>2, <2>3
  <1>6. output' \in [Clients -> Seq(1..Len(events'))]
    BY <1>1, <1>5 DEF EgressTyped
  <1>7. dispatched' \in 0..Len(events') /\ Len(events') - dispatched' <= OUTBOUND_CHANNEL
    BY <1>1, <1>3 DEF EgressTyped, dispatcher
  <1> QED
    BY <1>1, <1>3, <1>6, <1>7 DEF EgressTyped, Queued, dispatcher

LEMMA RegisterStep == ASSUME EgressTyped, QueuesTyped, Register PROVE EgressTyped'
  <1>1. Head(conn_rx) \in {"Connected", "Disconnected"} \X Clients
    BY HeadTailProperties DEF QueuesTyped, ConnectionEvent, Register
  <1>2. Head(conn_rx)[2] \in Clients
    BY <1>1
  <1>3. client_senders' \subseteq Clients /\ since' \in [Clients -> Nat]
    <2>1. /\ client_senders \subseteq Clients /\ since \in [Clients -> Nat] /\ dispatched \in Nat
      BY LenProperties DEF EgressTyped
    <2>2. PICK c \in Clients : c = Head(conn_rx)[2]
      BY <1>2
    <2>3. \/ client_senders' = client_senders \cup {c} /\ since' = [since EXCEPT ![c] = dispatched]
          \/ client_senders' = client_senders \ {c} /\ since' = since
      BY <2>2 DEF Register
    <2> QED
      BY <2>1, <2>3
  <1>4. UNCHANGED <<dispatched, events, output, written>>
    BY DEF Register
  <1> QED
    BY <1>3, <1>4 DEF EgressTyped, Queued

\* What the next event brings each client.
LEMMA DispatchGives ==
  ASSUME EgressTyped, EventsFormed, Dispatch
  PROVE  /\ dispatched + 1 \in 1..Len(events)
         /\ events[dispatched + 1] \in Event
         /\ IsEgress(AfterHanding(dispatched + 1))
         /\ \A c \in Clients :
              Gives(Egress, AfterHanding(dispatched + 1), c, dispatched + 1,
                    Times(events[dispatched + 1], c))
         /\ client_senders' = AfterHanding(dispatched + 1).senders
         /\ output' = AfterHanding(dispatched + 1).output
  <1>1. dispatched + 1 \in 1..Len(events) /\ written \in [Clients -> Nat]
    BY LenProperties DEF EgressTyped, Dispatch
  <1>2. events[dispatched + 1] \in Event /\ Formed(events[dispatched + 1])
    BY <1>1, ElementOfSeq DEF EgressTyped, EventsFormed, AllFormed
  <1>3. IsEgress(Egress)
    <2>1. \A c \in Clients : Len(output[c]) - written[c] <= CLIENT_CHANNEL
      BY DEF EgressTyped, Queued
    <2>2. Egress.senders = client_senders /\ Egress.output = output
      BY DEF Egress
    <2> QED
      BY <2>1, <2>2 DEF IsEgress, EgressTyped
  <1>4. client_senders' = AfterHanding(dispatched + 1).senders
        /\ output' = AfterHanding(dispatched + 1).output
    BY DEF Dispatch
  <1> QED
    BY <1>1, <1>2, <1>3, <1>4, AfterGives

LEMMA DispatchStep == ASSUME EgressTyped, EventsFormed, Dispatch PROVE EgressTyped'
  <1>1. /\ dispatched' = dispatched + 1 /\ dispatched + 1 \in 1..Len(events)
        /\ UNCHANGED <<since, events, written>>
    BY DispatchGives DEF Dispatch
  <1>2. /\ client_senders' \subseteq Clients
        /\ output' \in [Clients -> Seq(1..Len(events))]
        /\ \A c \in Clients : Len(output'[c]) - written[c] <= CLIENT_CHANNEL
    BY DispatchGives DEF IsEgress
  <1>3. ASSUME NEW c \in Clients
        PROVE  Queued(c)' \in 0..CLIENT_CHANNEL
    <2>1. /\ output[c] \in Seq(1..Len(events)) /\ Len(output[c]) - written[c] \in Nat
          /\ written[c] \in Nat
      BY DEF EgressTyped, Queued
    <2>2. Len(output'[c]) \in Nat /\ Len(output'[c]) >= Len(output[c])
      <3>1. PICK k \in Nat : output'[c] = With(output[c], dispatched + 1, k)
        <4>1. Gives(Egress, AfterHanding(dispatched + 1), c, dispatched + 1,
                    Times(events[dispatched + 1], c))
              /\ Times(events[dispatched + 1], c) \in Nat
          BY DispatchGives, TimesIsNat
        <4> QED
          BY <4>1, DispatchGives DEF Gives, Egress
      <3>2. PICK S : S = 1..Len(events)
        OBVIOUS
      <3>3. PICK s, p : s = output[c] /\ p = dispatched + 1 /\ s \in Seq(S) /\ p \in S
        BY <1>1, <2>1, <3>2
      <3>4. Len(With(s, p, k)) = Len(s) + k
        BY ONLY <3>3, k \in Nat, CopiesLength
      <3>5. Len(output[c]) \in Nat
        BY <2>1, LenProperties
      <3> QED
        BY <3>1, <3>3, <3>4, <3>5
    <2>3. Len(output'[c]) - written[c] <= CLIENT_CHANNEL /\ written'[c] = written[c]
      BY <1>1, <1>2
    <2>4. Len(output[c]) \in Nat
      BY <2>1, LenProperties
    <2>5. Len(output'[c]) - written[c] \in 0..CLIENT_CHANNEL
      <3>1. PICK n \in Nat, n2 \in Nat, w \in Nat :
              n = Len(output[c]) /\ n2 = Len(output'[c]) /\ w = written[c]
        BY <2>1, <2>2, <2>4
      <3>2. n - w \in Nat /\ n2 >= n /\ n2 - w <= CLIENT_CHANNEL
        BY <2>1, <2>2, <2>3, <3>1
      <3>3. n2 - w \in 0..CLIENT_CHANNEL
        BY <3>2
      <3> QED
        BY <3>1, <3>3
    <2> QED
      BY <2>3, <2>5 DEF Queued
  <1>4. dispatched' \in 0..Len(events') /\ Len(events') - dispatched' <= OUTBOUND_CHANNEL
    BY <1>1, LenProperties DEF EgressTyped
  <1>5. output' \in [Clients -> Seq(1..Len(events'))]
    BY <1>1, <1>2
  <1> QED
    BY <1>1, <1>2, <1>3, <1>4, <1>5 DEF EgressTyped

LEMMA EgressStep ==
  ASSUME EgressTyped, QueuesTyped, EventsFormed, [Next]_vars
  PROVE  EgressTyped'
  <1>1. CASE UNCHANGED <<events, dispatcher, output, written>>
    BY <1>1 DEF EgressTyped, Queued, dispatcher
  <1>2. ASSUME NEW c \in Clients, Write(c) \/ Close(c) \/ EndWriter(c)
        PROVE  EgressTyped'
    BY <1>2, WriterStep
  <1>3. CASE Send
    BY <1>3, SendStep DEF EventsFormed, AllFormed
  <1>4. CASE Register
    BY <1>4, RegisterStep
  <1>5. CASE Dispatch
    BY <1>5, DispatchStep
  <1> QED
    BY <1>1, <1>2, <1>3, <1>4, <1>5
       DEF Next, vars, Accept, Connect, Read, Disconnect, Take

\* The inductive invariant behind the types: the acknowledgements' own, that
\* events name the clients they are for, and the types themselves.
TypeInv == AckInv /\ EventsFormed /\ GatewayTyped /\ QueuesTyped /\ EgressTyped

LEMMA TypeInvInit == Init => TypeInv
  BY AckInit, TypedInit DEF TypeInv

LEMMA TypeInvStep == ASSUME TypeInv, [Next]_vars PROVE TypeInv'
  BY AckStep, FormedStep, GatewayStep, QueuesStep, EgressStep DEF TypeInv

\* Every bounded channel keeps to its capacity, the one to the engine, the
\* dispatcher's two and each client's (exchange.rs:19-21, gateway.rs:91), and
\* no writer is ahead of what was sent to its client.
THEOREM PipelineTypeCorrect == Spec => []TypeOK
  <1>1. TypeInv => TypeOK
    <2> SUFFICES ASSUME TypeInv PROVE TypeOK
      OBVIOUS
    <2>1. taken \in 0..MaxMessages
      BY LenProperties DEF TypeInv, AckInv, QuarantineHolds
    <2>2. next_order_id \in Nat \ {0} /\ traders \subseteq Clients /\ pending \in Seq(Event)
      BY DEF TypeInv, AckInv, AckIsNext
    <2> QED
      BY <2>1, <2>2 DEF TypeInv, TypeOK, GatewayTyped, QueuesTyped, EgressTyped
  <1> QED
    BY <1>1, TypeInvInit, TypeInvStep, PTL DEF Spec

-----------------------------------------------------------------------------
(* Connections, in the order they come about. *)

\* Nothing was ever sent to the client, and the dispatcher does not know it.
Fresh(c) == c \notin client_senders /\ output[c] = << >>

Announced(c, i) == conn_rx[i] = <<"Connected", c>>

\* A client is announced to the dispatcher at most once and has got nothing by
\* then.
Unseen ==
  /\ \A c \in Clients : c >= NEXT_CLIENT_ID => task[c] = "none"
  /\ \A c \in Clients :
       task[c] \in {"none", "accepted"} =>
         Fresh(c) /\ \A i \in 1..Len(conn_rx) : ~Announced(c, i)
  /\ \A c \in Clients : \A i \in 1..Len(conn_rx) : Announced(c, i) => Fresh(c)
  /\ \A c \in Clients : \A i, j \in 1..Len(conn_rx) :
       Announced(c, i) /\ Announced(c, j) => i = j
  /\ \A c \in Clients : since[c] <= dispatched

LEMMA UnseenInit == Init => Unseen
  <1> SUFFICES ASSUME Init PROVE Unseen
    OBVIOUS
  <1>1. Len(conn_rx) = 0 /\ dispatched = 0 /\ client_senders = {}
        /\ \A c \in Clients : task[c] = "none" /\ output[c] = << >> /\ since[c] = 0
    BY DEF Init
  <1> QED
    BY <1>1 DEF Unseen, Fresh

LEMMA AnnounceStep ==
  ASSUME TypeInv, Unseen, NEW c \in Clients, Connect(c) \/ Disconnect(c)
  PROVE  Unseen'
  <1>1. /\ conn_rx \in Seq(ConnectionEvent) /\ task \in [Clients -> {"none", "accepted",
             "reading", "closing", "closed"}]
        /\ UNCHANGED <<NEXT_CLIENT_ID, client_senders, output, since, dispatched>>
    BY DEF TypeInv, QueuesTyped, GatewayTyped, Connect, Disconnect, dispatcher
  <1>2. PICK m \in ConnectionEvent : conn_rx' = Append(conn_rx, m)
    BY DEF Connect, Disconnect, ConnectionEvent
  <1>3. PICK n \in Nat : n = Len(conn_rx) + 1
    BY <1>1, LenProperties
  <1>4. /\ Len(conn_rx') = n /\ Len(conn_rx) \in Nat
        /\ \A i \in 1..Len(conn_rx) : conn_rx'[i] = conn_rx[i]
        /\ conn_rx'[n] = m
    BY <1>1, <1>2, <1>3, AppendProperties, LenProperties
  <1>5. \A d \in Clients : Fresh(d)' <=> Fresh(d)
    BY <1>1 DEF Fresh
  <1>6. \A d \in Clients : \A i \in 1..Len(conn_rx) : Announced(d, i)' <=> Announced(d, i)
    BY <1>4 DEF Announced
  <1>7. /\ \A d \in Clients : task'[d] \in {"none", "accepted"} => task'[d] = task[d]
        /\ \A d \in Clients : task[d] = "none" => task'[d] = "none"
        /\ task'[c] \notin {"none", "accepted"}
    BY <1>1 DEF Connect, Disconnect
  <1>8. \A d \in Clients : Announced(d, n)' => d = c /\ task[c] = "accepted"
    <2>1. CASE Connect(c)
      <3>1. conn_rx'[n] = <<"Connected", c>> /\ task[c] = "accepted"
        BY <1>1, <1>3, <2>1, AppendProperties DEF Connect, ConnectionEvent
      <3> QED
        BY <3>1, <1>4 DEF Announced
    <2>2. CASE Disconnect(c)
      <3>1. conn_rx'[n] = <<"Disconnected", c>>
        BY <1>1, <1>3, <2>2, AppendProperties DEF Disconnect, ConnectionEvent
      <3> QED
        BY <3>1, <1>4 DEF Announced
    <2> QED
      BY <2>1, <2>2
  <1>9. \A i \in 1..Len(conn_rx') : i \in 1..Len(conn_rx) \/ i = n
    BY <1>3, <1>4
  <1>10. \A d \in Clients :
          task[d] = "accepted" => Fresh(d) /\ \A i \in 1..Len(conn_rx) : ~Announced(d, i)
    BY DEF Unseen
  <1>11. \A d \in Clients : d >= NEXT_CLIENT_ID' => task'[d] = "none"
    BY <1>1, <1>7 DEF Unseen
  <1>12. \A d \in Clients :
           task'[d] \in {"none", "accepted"} =>
             Fresh(d)' /\ \A i \in 1..Len(conn_rx') : ~Announced(d, i)'
    <2> SUFFICES ASSUME NEW d \in Clients, task'[d] \in {"none", "accepted"}
                 PROVE  Fresh(d)' /\ \A i \in 1..Len(conn_rx') : ~Announced(d, i)'
      OBVIOUS
    <2>1. d # c /\ Fresh(d) /\ \A i \in 1..Len(conn_rx) : ~Announced(d, i)
      BY <1>7 DEF Unseen
    <2> QED
      BY <1>5, <1>6, <1>8, <1>9, <2>1
  <1>13. \A d \in Clients : \A i \in 1..Len(conn_rx') : Announced(d, i)' => Fresh(d)'
    <2> SUFFICES ASSUME NEW d \in Clients, NEW i \in 1..Len(conn_rx'), Announced(d, i)'
                 PROVE  Fresh(d)
      BY <1>5
    <2>1. CASE i \in 1..Len(conn_rx)
      BY <1>6, <2>1 DEF Unseen
    <2>2. CASE i = n
      BY <1>8, <1>10, <2>2
    <2> QED
      BY <1>9, <2>1, <2>2
  <1>14. \A d \in Clients : \A i, j \in 1..Len(conn_rx') :
           Announced(d, i)' /\ Announced(d, j)' => i = j
    <2> SUFFICES ASSUME NEW d \in Clients,
                        NEW i \in 1..Len(conn_rx'), NEW j \in 1..Len(conn_rx'),
                        Announced(d, i)', Announced(d, j)'
                 PROVE  i = j
      OBVIOUS
    <2>1. CASE i \in 1..Len(conn_rx) /\ j \in 1..Len(conn_rx)
      BY <1>6, <2>1 DEF Unseen
    <2>2. CASE i \in 1..Len(conn_rx) /\ j = n
      BY <1>6, <1>8, <1>10, <2>2
    <2>3. CASE i = n /\ j \in 1..Len(conn_rx)
      BY <1>6, <1>8, <1>10, <2>3
    <2> QED
      BY <1>9, <2>1, <2>2, <2>3
  <1>15. \A d \in Clients : since'[d] <= dispatched'
    BY <1>1 DEF Unseen
  <1> QED
    BY <1>11, <1>12, <1>13, <1>14, <1>15 DEF Unseen

LEMMA RegisterUnseen == ASSUME TypeInv, Unseen, Register PROVE Unseen'
  <1>1. /\ conn_rx \in Seq(ConnectionEvent) /\ conn_rx # << >>
        /\ conn_rx' = Tail(conn_rx)
        /\ UNCHANGED <<NEXT_CLIENT_ID, task, output, dispatched>>
        /\ since \in [Clients -> Nat] /\ dispatched \in Nat
    BY LenProperties DEF TypeInv, QueuesTyped, EgressTyped, Register, gateway
  <1>2. /\ Len(conn_rx') = Len(conn_rx) - 1 /\ Len(conn_rx) \in Nat \ {0}
        /\ \A i \in 1..Len(conn_rx') : conn_rx'[i] = conn_rx[i + 1]
        /\ Head(conn_rx) = conn_rx[1] /\ Head(conn_rx) \in ConnectionEvent
    BY <1>1, HeadTailProperties, EmptySeq
  <1>3. \A i \in 1..Len(conn_rx') : i + 1 \in 1..Len(conn_rx) /\ 1 \in 1..Len(conn_rx)
                                    /\ i + 1 # 1
    BY <1>2
  <1>4. \A d \in Clients : \A i \in 1..Len(conn_rx') :
          Announced(d, i)' => Announced(d, i + 1)
    BY <1>2 DEF Announced
  <1>5. PICK c \in Clients : c = Head(conn_rx)[2]
    BY <1>2 DEF ConnectionEvent
  <1>6. \/ /\ Announced(c, 1)
           /\ client_senders' = client_senders \cup {c}
           /\ since' = [since EXCEPT ![c] = dispatched]
        \/ client_senders' = client_senders \ {c} /\ since' = since
    <2>1. CASE Head(conn_rx)[1] = "Connected"
      <3>1. conn_rx[1] = <<"Connected", c>>
        BY <1>2, <1>5, <2>1 DEF ConnectionEvent
      <3> QED
        BY <1>5, <2>1, <3>1 DEF Register, Announced
    <2>2. CASE Head(conn_rx)[1] # "Connected"
      BY <1>5, <2>2 DEF Register
    <2> QED
      BY <2>1, <2>2
  <1>7. \A d \in Clients : Fresh(d) /\ ~(d = c /\ Announced(c, 1)) => Fresh(d)'
    BY <1>1, <1>6 DEF Fresh
  <1>8. 1 \in 1..Len(conn_rx)
    BY <1>2
  <1>9. \A d \in Clients : d >= NEXT_CLIENT_ID' => task'[d] = "none"
    BY <1>1 DEF Unseen
  <1>10. \A d \in Clients :
           task'[d] \in {"none", "accepted"} =>
             Fresh(d)' /\ \A i \in 1..Len(conn_rx') : ~Announced(d, i)'
    <2> SUFFICES ASSUME NEW d \in Clients, task'[d] \in {"none", "accepted"}
                 PROVE  Fresh(d)' /\ \A i \in 1..Len(conn_rx') : ~Announced(d, i)'
      OBVIOUS
    <2>1. Fresh(d) /\ \A i \in 1..Len(conn_rx) : ~Announced(d, i)
      BY <1>1 DEF Unseen
    <2> QED
      BY <1>3, <1>4, <1>7, <1>8, <2>1
  <1>11. \A d \in Clients : \A i \in 1..Len(conn_rx') : Announced(d, i)' => Fresh(d)'
    <2> SUFFICES ASSUME NEW d \in Clients, NEW i \in 1..Len(conn_rx'), Announced(d, i)'
                 PROVE  Fresh(d)'
      OBVIOUS
    <2>1. Announced(d, i + 1) /\ i + 1 \in 1..Len(conn_rx) /\ i + 1 # 1
      BY <1>3, <1>4
    <2>2. Fresh(d)
      BY <2>1 DEF Unseen
    <2>3. ~(d = c /\ Announced(c, 1))
      BY <1>8, <2>1 DEF Unseen
    <2> QED
      BY <1>7, <2>2, <2>3
  <1>12. \A d \in Clients : \A i, j \in 1..Len(conn_rx') :
           Announced(d, i)' /\ Announced(d, j)' => i = j
    <2> SUFFICES ASSUME NEW d \in Clients,
                        NEW i \in 1..Len(conn_rx'), NEW j \in 1..Len(conn_rx'),
                        Announced(d, i)', Announced(d, j)'
                 PROVE  i = j
      OBVIOUS
    <2>1. i + 1 = j + 1
      BY <1>3, <1>4 DEF Unseen
    <2> QED
      BY <2>1
  <1>13. \A d \in Clients : since'[d] <= dispatched'
    <2> SUFFICES ASSUME NEW d \in Clients PROVE since'[d] <= dispatched
      BY <1>1
    <2>1. since'[d] = since[d] \/ since'[d] = dispatched
      BY <1>1, <1>6
    <2> QED
      BY <1>1, <2>1 DEF Unseen
  <1> QED
    BY <1>9, <1>10, <1>11, <1>12, <1>13 DEF Unseen

LEMMA DispatchUnseen == ASSUME TypeInv, Unseen, Dispatch PROVE Unseen'
  <1>1. /\ EgressTyped /\ EventsFormed /\ dispatched \in Nat
        /\ dispatched' = dispatched + 1
        /\ since \in [Clients -> Nat]
        /\ UNCHANGED <<NEXT_CLIENT_ID, task, conn_rx, since>>
    BY LenProperties DEF TypeInv, EgressTyped, Dispatch, gateway
  <1>2. ASSUME NEW d \in Clients, Fresh(d)
        PROVE  Fresh(d)'
    <2>1. PICK k : /\ output'[d] = With(output[d], dispatched + 1, k)
                   /\ d \in client_senders' => d \in client_senders
                   /\ d \notin client_senders => k = 0
      BY <1>1, DispatchGives DEF Gives, Egress
    <2>2. PICK p \in 1..Len(events) : p = dispatched + 1
      BY <1>1, DispatchGives
    <2>3. output[d] \in Seq(1..Len(events))
      BY <1>1 DEF EgressTyped
    <2>4. With(output[d], p, 0) = output[d]
      BY <2>3, OutputCopies
    <2> QED
      BY <1>2, <2>1, <2>2, <2>4 DEF Fresh
  <1>3. \A d \in Clients : \A i : Announced(d, i)' <=> Announced(d, i)
    BY <1>1 DEF Announced
  <1>4. \A d \in Clients : since'[d] <= dispatched'
    BY <1>1 DEF Unseen
  <1> QED
    BY <1>1, <1>2, <1>3, <1>4 DEF Unseen

LEMMA UnseenStep == ASSUME TypeInv, Unseen, [Next]_vars PROVE Unseen'
  <1>1. CASE UNCHANGED <<gateway, conn_rx, dispatcher, output>>
    BY <1>1 DEF Unseen, Fresh, Announced, gateway, dispatcher
  <1>2. CASE Accept
    <2>1. /\ task' = [task EXCEPT ![NEXT_CLIENT_ID] = "accepted"]
          /\ NEXT_CLIENT_ID' = NEXT_CLIENT_ID + 1
          /\ NEXT_CLIENT_ID \in Clients /\ task[NEXT_CLIENT_ID] = "none"
          /\ DOMAIN task = Clients
          /\ UNCHANGED <<conn_rx, client_senders, output, since, dispatched>>
      BY <1>2 DEF Accept, Unseen, TypeInv, GatewayTyped, Clients, dispatcher
    <2>2. \A d \in Clients :
            /\ d >= NEXT_CLIENT_ID + 1 => d >= NEXT_CLIENT_ID /\ d # NEXT_CLIENT_ID
            /\ d # NEXT_CLIENT_ID => task'[d] = task[d]
            /\ d = NEXT_CLIENT_ID => task[d] = "none"
      BY <2>1 DEF Clients
    <2>3. \A d \in Clients : Fresh(d)' <=> Fresh(d)
      BY <2>1 DEF Fresh
    <2>4. \A d \in Clients : \A i : Announced(d, i)' <=> Announced(d, i)
      BY <2>1 DEF Announced
    <2> QED
      BY <2>1, <2>2, <2>3, <2>4 DEF Unseen
  <1>3. ASSUME NEW c \in Clients, Connect(c) \/ Disconnect(c)
        PROVE  Unseen'
    BY <1>3, AnnounceStep
  <1>4. ASSUME NEW c \in Clients, Close(c)
        PROVE  Unseen'
    <2>1. /\ task' = [task EXCEPT ![c] = "closing"] /\ task[c] = "reading"
          /\ DOMAIN task = Clients
          /\ UNCHANGED <<NEXT_CLIENT_ID, conn_rx, client_senders, output, since, dispatched>>
      BY <1>4 DEF Close, TypeInv, GatewayTyped, dispatcher
    <2>2. \A d \in Clients :
            /\ d # c => task'[d] = task[d]
            /\ d = c => task'[d] = "closing" /\ task[d] = "reading"
      BY <2>1
    <2>3. \A d \in Clients : Fresh(d)' <=> Fresh(d)
      BY <2>1 DEF Fresh
    <2>4. \A d \in Clients : \A i : Announced(d, i)' <=> Announced(d, i)
      BY <2>1 DEF Announced
    <2> QED
      BY <2>1, <2>2, <2>3, <2>4 DEF Unseen
  <1>5. CASE Register
    BY <1>5, RegisterUnseen
  <1>6. CASE Dispatch
    BY <1>6, DispatchUnseen
  <1> QED
    BY <1>1, <1>2, <1>3, <1>4, <1>5, <1>6
       DEF Next, vars, Read, Write, EndWriter, Take, Send

-----------------------------------------------------------------------------
(* Streams without gaps. *)

Gapless(c) ==
  /\ Begins(output[c], Addressed(c))
  /\ c \in client_senders => output[c] = Addressed(c)

LEMMA GaplessAll ==
  /\ StreamsHaveNoGaps <=> \A c \in Clients : Gapless(c)
  /\ StreamsHaveNoGaps' <=> \A c \in Clients : Gapless(c)'
  <1>1. StreamsHaveNoGaps <=> \A c \in Clients : Gapless(c)
    BY Zenon DEF StreamsHaveNoGaps, Gapless, Begins
  <1>2. StreamsHaveNoGaps' <=> \A c \in Clients : Gapless(c)'
    BY Zenon DEF StreamsHaveNoGaps, Gapless, Begins
  <1> QED
    BY <1>1, <1>2

LEMMA TypeInvServed ==
  /\ TypeInv => Served
  /\ TypeInv' => Served'
  <1>1. TypeInv => Served
    BY DEF TypeInv, EgressTyped, Served
  <1> QED
    BY <1>1, PTL

LEMMA SameStream ==
  ASSUME TypeInv, TypeInv', NEW c \in Clients, Gapless(c),
         dispatched' = dispatched, since'[c] = since[c], output'[c] = output[c],
         c \in client_senders' => c \in client_senders,
         \A i \in 1..dispatched : events'[i] = events[i]
  PROVE  Gapless(c)'
  <1>1. Addressed(c)' = Addressed(c)
    BY TypeInvServed, AddressedSame
  <1> QED
    BY <1>1 DEF Gapless

LEMMA RegisterStream ==
  ASSUME TypeInv, TypeInv', Unseen, Register, NEW c \in Clients, Gapless(c)
  PROVE  Gapless(c)'
  <1>1. /\ conn_rx \in Seq(ConnectionEvent) /\ conn_rx # << >>
        /\ since \in [Clients -> Nat] /\ dispatched \in Nat
        /\ UNCHANGED <<dispatched, events, output>>
    BY LenProperties DEF TypeInv, QueuesTyped, EgressTyped, Register
  <1>2. Head(conn_rx) = conn_rx[1] /\ Head(conn_rx) \in ConnectionEvent
        /\ 1 \in 1..Len(conn_rx)
    BY <1>1, HeadTailProperties, EmptySeq
  <1>3. CASE Head(conn_rx) = <<"Connected", c>>
    <2>1. Fresh(c)
      BY <1>2, <1>3 DEF Unseen, Announced
    <2>2. since'[c] = dispatched
      BY <1>1, <1>3 DEF Register
    <2>3. Addressed(c)' = << >>
      <3>1. since'[c] >= dispatched'
        BY <1>1, <2>2
      <3> QED
        BY <3>1, NoneAddressed, TypeInvServed DEF NewcomersHaveNone
    <2>4. output'[c] = << >>
      BY <1>1, <2>1 DEF Fresh
    <2>5. Begins(<< >>, << >>)
      BY BeginsItself, EmptySeq
    <2> QED
      BY <2>3, <2>4, <2>5 DEF Gapless
  <1>4. CASE Head(conn_rx) # <<"Connected", c>>
    <2>1. since'[c] = since[c] /\ (c \in client_senders' => c \in client_senders)
      <3>1. CASE Head(conn_rx)[1] = "Connected"
        <4>1. Head(conn_rx)[2] # c
          BY <1>2, <1>4, <3>1 DEF ConnectionEvent
        <4> QED
          BY <1>1, <3>1, <4>1 DEF Register
      <3>2. CASE Head(conn_rx)[1] # "Connected"
        BY <3>2 DEF Register
      <3> QED
        BY <3>1, <3>2
    <2> QED
      BY <1>1, <2>1, SameStream
  <1> QED
    BY <1>3, <1>4

LEMMA DispatchStream ==
  ASSUME TypeInv, TypeInv', Unseen, Dispatch, NEW c \in Clients, Gapless(c)
  PROVE  Gapless(c)'
  <1>1. /\ EgressTyped /\ EventsFormed
        /\ dispatched' = dispatched + 1
        /\ UNCHANGED <<since, events>>
        /\ since[c] <= dispatched
    BY DEF TypeInv, Unseen, Dispatch
  <1>2. PICK p \in 1..Len(events) : p = dispatched + 1
    BY <1>1, DispatchGives
  <1>3. PICK t \in Nat : t = Times(events[dispatched + 1], c)
    BY <1>1, DispatchGives, TimesIsNat
  <1>4. PICK s \in Seq(Nat) : s = Addressed(c)
    BY TypeInvServed, AddressedTyped
  <1>5. Addressed(c)' = With(s, p, t)
    <2>1. Addressed(c)'
            = Addressed(c) \o Copies(dispatched + 1, Times(events[dispatched + 1], c))
      BY <1>1, TypeInvServed, AddressedMore
    <2> QED
      BY <1>2, <1>3, <1>4, <2>1 DEF With
  <1>6. PICK k \in 0..t :
          /\ output'[c] = With(output[c], p, k)
          /\ c \in client_senders' => c \in client_senders /\ k = t
          /\ c \notin client_senders => k = 0
    BY <1>1, <1>2, <1>3, DispatchGives DEF Gives, Egress
  <1>7. p \in Nat /\ k \in Nat
    BY LenProperties
  <1>8. CASE c \in client_senders
    <2>1. output'[c] = With(s, p, k)
      BY <1>4, <1>6, <1>8 DEF Gapless
    <2>2. Begins(With(s, p, k), With(s, p, t))
      <3>1. PICK m \in Nat : t = k + m
        <4>1. t - k \in Nat /\ t = k + (t - k)
          BY <1>7
        <4> QED
          BY <4>1
      <3>2. With(With(s, p, k), p, m) = With(s, p, t)
        <4>1. PICK S : S = Nat
          OBVIOUS
        <4>2. s \in Seq(S) /\ p \in S
          BY <1>7, <4>1
        <4> QED
          BY ONLY <3>1, <4>2, k \in Nat, m \in Nat, CopiesAdd
      <3>3. Copies(p, m) \in Seq(Nat) /\ Copies(p, k) \in Seq(Nat)
        BY <1>7, CopiesAreSeq
      <3>4. With(s, p, k) \in Seq(Nat)
        BY <3>3, ConcatProperties DEF With
      <3>5. Begins(With(s, p, k), With(s, p, k))
        BY <3>4, BeginsItself
      <3>6. Begins(With(s, p, k), With(s, p, k) \o Copies(p, m))
        BY <3>3, <3>4, <3>5, BeginsOn
      <3> QED
        BY <3>2, <3>6 DEF With
    <2> QED
      BY <1>5, <1>6, <2>1, <2>2 DEF Gapless
  <1>9. CASE c \notin client_senders
    <2>1. output'[c] = output[c]
      <3>1. output[c] \in Seq(1..Len(events))
        BY <1>1 DEF EgressTyped
      <3>2. With(output[c], p, 0) = output[c]
        BY <3>1, OutputCopies
      <3> QED
        BY <1>6, <1>9, <3>2
    <2>2. Begins(output[c], s \o Copies(p, t))
      <3>1. Begins(output[c], s)
        BY <1>4 DEF Gapless
      <3>2. Copies(p, t) \in Seq(Nat)
        BY <1>7, CopiesAreSeq
      <3> QED
        BY <3>1, <3>2, BeginsOn
    <2>3. Begins(output'[c], With(s, p, t))
      BY <2>1, <2>2 DEF With
    <2> QED
      BY <1>5, <1>6, <1>9, <2>3 DEF Gapless
  <1> QED
    BY <1>8, <1>9

\* The inductive invariant of the streams.
StreamInv == TypeInv /\ Unseen /\ StreamsHaveNoGaps

LEMMA StreamInit == Init => StreamInv
  <1> SUFFICES ASSUME Init PROVE StreamInv
    OBVIOUS
  <1>1. TypeInv /\ Unseen
    BY TypeInvInit, UnseenInit
  <1>2. ASSUME NEW c \in Clients
        PROVE  Gapless(c)
    <2>1. since[c] >= dispatched /\ output[c] = << >> /\ c \notin client_senders
      BY DEF Init
    <2>2. Addressed(c) = << >>
      BY <1>1, <2>1, TypeInvServed, AddressedNone
    <2>3. Begins(<< >>, << >>)
      BY BeginsItself, EmptySeq
    <2> QED
      BY <2>1, <2>2, <2>3 DEF Gapless
  <1> QED
    BY <1>1, <1>2, GaplessAll DEF StreamInv

LEMMA StreamStep == ASSUME StreamInv, [Next]_vars PROVE StreamInv'
  <1>1. TypeInv /\ Unseen /\ TypeInv' /\ Unseen'
    BY TypeInvStep, UnseenStep DEF StreamInv
  <1>2. ASSUME NEW c \in Clients
        PROVE  Gapless(c)'
    <2>1. Gapless(c)
      BY GaplessAll DEF StreamInv
    <2>2. CASE UNCHANGED <<dispatcher, output, events>>
      BY <1>1, <2>1, <2>2, SameStream DEF dispatcher
    <2>3. CASE Send
      <3>1. /\ events' = Append(events, Head(pending)) /\ events \in Seq(Event)
            /\ Head(pending) \in Event /\ dispatched \in 0..Len(events)
            /\ UNCHANGED <<dispatcher, output>>
        BY <1>1, <2>3, HeadTailProperties
           DEF Send, TypeInv, EgressTyped, EventsFormed, AllFormed
      <3>2. \A i \in 1..dispatched : events'[i] = events[i]
        BY <3>1, AppendProperties, LenProperties
      <3> QED
        BY <1>1, <2>1, <3>1, <3>2, SameStream DEF dispatcher
    <2>4. CASE Register
      BY <1>1, <2>1, <2>4, RegisterStream
    <2>5. CASE Dispatch
      BY <1>1, <2>1, <2>5, DispatchStream
    <2> QED
      BY <2>2, <2>3, <2>4, <2>5
         DEF Next, vars, Accept, Connect, Read, Close, Disconnect, Write, EndWriter, Take
  <1> QED
    BY <1>1, <1>2, GaplessAll DEF StreamInv

\* A client sees a gapless stream, both copies of a fill with itself included,
\* until its end: whoever cannot take a message is cut off then and there
\* (exchange.rs:311-367), and before its own task's announcement
\* (gateway.rs:93-97) has reached the dispatcher nothing is sent to it.
THEOREM StreamsStayGapless == Spec => []StreamsHaveNoGaps
  <1>1. StreamInv => StreamsHaveNoGaps
    BY DEF StreamInv
  <1> QED
    BY <1>1, StreamInit, StreamStep, PTL DEF Spec
=============================================================================
