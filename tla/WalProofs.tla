----------------------------- MODULE WalProofs -----------------------------
(***************************************************************************)
(* Theorems about Wal, for every set of messages, every size of buffer and *)
(* channel, and any number of crashes.                                     *)
(***************************************************************************)
EXTENDS Wal, SequenceTheorems, TLAPS

Entry == Record \cup {Torn}

\* The file as it will be once the writer's buffer is flushed.
Flushed == file \o writer

\* What a reader of f gets to is what the engine processed, under its number.
Matches(f) ==
  \A i \in 1..Len(f) :
    (\A j \in 1..i : f[j] # Torn)
      => /\ i <= Len(processed)
         /\ f[i].order = processed[i]
         /\ f[i].seq_id = i

Clean == \A i \in 1..Len(file) : file[i] # Torn

\* As long as nothing in the file is torn, the messages on their way to it
\* follow on it, in order and numbered so.
InFlight ==
  (up /\ Clean) =>
    /\ Len(processed) = Len(Flushed) + Len(channel)
    /\ seq_counter = Len(Flushed) + 1
    /\ \A k \in 1..Len(channel) : channel[k] = processed[Len(Flushed) + k]

DownIsEmpty == ~up => channel = << >> /\ writer = << >> /\ opened = 0

\* The inductive invariant.
WalInv ==
  /\ TypeOK
  /\ Matches(Flushed)
  /\ InFlight
  /\ DownIsEmpty
  /\ SyncedBeforeTearSurvives
  /\ synced <= durable

USE WalAssumption

-----------------------------------------------------------------------------
\* The entries of a file with records added to it.
LEMMA Added ==
  ASSUME NEW f \in Seq(Entry), NEW w \in Seq(Record)
  PROVE  /\ f \o w \in Seq(Entry)
         /\ Len(f \o w) = Len(f) + Len(w)
         /\ \A i \in 1..Len(f) : (f \o w)[i] = f[i]
         /\ \A i \in Len(f) + 1..Len(f) + Len(w) :
              /\ (f \o w)[i] = w[i - Len(f)]
              /\ (f \o w)[i] \in Record
              /\ (f \o w)[i] # Torn
  <1>1. w \in Seq(Entry)
    BY SeqMonotonic DEF Entry
  <1>2. Len(f) \in Nat /\ Len(w) \in Nat
    BY LenProperties
  <1>3. /\ f \o w \in Seq(Entry)
        /\ Len(f \o w) = Len(f) + Len(w)
        /\ \A i \in 1..Len(f) + Len(w) :
             (f \o w)[i] = IF i <= Len(f) THEN f[i] ELSE w[i - Len(f)]
    BY <1>1, ConcatProperties
  <1>4. ASSUME NEW i \in Len(f) + 1..Len(f) + Len(w)
        PROVE  /\ (f \o w)[i] = w[i - Len(f)]
               /\ (f \o w)[i] \in Record
               /\ (f \o w)[i] # Torn
    <2>1. i - Len(f) \in 1..Len(w)
      BY <1>2
    <2>2. w[i - Len(f)] \in Record
      BY <2>1, ElementOfSeq
    <2>3. (f \o w)[i] = w[i - Len(f)]
      BY <1>2, <1>3
    <2> QED
      BY <2>2, <2>3 DEF Record
  <1> QED
    BY <1>2, <1>3, <1>4

\* The entries of a file that was cut.
LEMMA Cut ==
  ASSUME NEW f \in Seq(Entry), NEW n \in 0..Len(f), CutAt(f, n)
  PROVE  /\ file' \in Seq(Entry)
         /\ Len(file') \in n..n + 1
         /\ \A i \in 1..n : file'[i] = f[i]
         /\ Len(file') = n + 1 => file'[n + 1] = Torn
  <1>1. Len(f) \in Nat /\ \A i \in 1..Len(f) : f[i] \in Entry
    BY LenProperties, ElementOfSeq
  <1> DEFINE s == SubSeq(f, 1, n)
  <1>2. /\ s \in Seq(Entry)
        /\ Len(s) = n
        /\ \A i \in 1..n : s[i] = f[i]
    <2>1. \A i \in 1..n : f[i] \in Entry
      BY <1>1
    <2>2. /\ s \in Seq(Entry)
          /\ Len(s) = IF 1 <= n THEN n - 1 + 1 ELSE 0
          /\ \A i \in 1..n - 1 + 1 : s[i] = f[1 + i - 1]
      BY <1>1, <2>1, SubSeqProperties, 1 \in Int, n \in Int
    <2> QED
      BY <1>1, <2>2
  <1>3. Torn \in Entry
    BY DEF Entry
  <1>4. /\ Append(s, Torn) \in Seq(Entry)
        /\ Len(Append(s, Torn)) = n + 1
        /\ \A i \in 1..n : Append(s, Torn)[i] = f[i]
        /\ Append(s, Torn)[n + 1] = Torn
    BY <1>2, <1>3, AppendProperties
  <1>5. file' = s \/ file' = Append(s, Torn)
    BY DEF CutAt
  <1>6. n \in Nat
    BY <1>1
  <1>7. CASE file' = s
    BY <1>2, <1>6, <1>7
  <1>8. CASE file' = Append(s, Torn)
    BY <1>4, <1>6, <1>8
  <1> QED
    BY <1>5, <1>7, <1>8

\* What a cut file has matched, it still matches.
LEMMA MatchesCut ==
  ASSUME NEW f \in Seq(Entry), NEW n \in 0..Len(f), CutAt(f, n), Matches(f),
         UNCHANGED processed
  PROVE  Matches(file)'
  <1>1. Len(f) \in Nat
    BY LenProperties
  <1>2. /\ file' \in Seq(Entry)
        /\ Len(file') \in n..n + 1
        /\ \A i \in 1..n : file'[i] = f[i]
        /\ Len(file') = n + 1 => file'[n + 1] = Torn
    BY Cut
  <1>3. SUFFICES ASSUME NEW i \in 1..Len(file'), \A j \in 1..i : file'[j] # Torn
                 PROVE  /\ i <= Len(processed)
                        /\ file'[i].order = processed[i]
                        /\ file'[i].seq_id = i
    BY DEF Matches
  <1>4. i \in 1..n
    BY <1>1, <1>2, <1>3
  <1>5. i \in 1..Len(f) /\ \A j \in 1..i : f[j] # Torn
    BY <1>1, <1>2, <1>3, <1>4
  <1> QED
    BY <1>2, <1>4, <1>5 DEF Matches

\* What has been synced stays readable when the file keeps what is durable.
LEMMA SyncedKept ==
  ASSUME TypeOK, SyncedBeforeTearSurvives, synced <= durable, UNCHANGED synced,
         Len(file') \in Nat, durable <= Len(file'),
         \A i \in 1..durable : file'[i] = file[i]
  PROVE  SyncedBeforeTearSurvives'
  <1>1. synced \in Nat /\ durable \in Nat
    <2>1. Len(file) \in Nat
      BY LenProperties DEF TypeOK
    <2> QED
      BY <2>1 DEF TypeOK
  <1>2. ASSUME NEW i \in 1..synced
        PROVE  i \in 1..Len(file') /\ \A j \in 1..i : file'[j] # Torn
    <2>1. i \in 1..Len(file) /\ \A j \in 1..i : file[j] # Torn
      BY DEF SyncedBeforeTearSurvives, Readable
    <2> QED
      BY <1>1, <2>1
  <1> QED
    BY <1>2 DEF SyncedBeforeTearSurvives, Readable

\* The file only grows: the same, if the whole file is kept.
LEMMA SyncedKeptGrown ==
  ASSUME TypeOK, SyncedBeforeTearSurvives, synced <= durable, UNCHANGED synced,
         Len(file') \in Nat, Len(file) <= Len(file'),
         \A i \in 1..Len(file) : file'[i] = file[i]
  PROVE  SyncedBeforeTearSurvives'
  <1>1. Len(file) \in Nat
    BY LenProperties DEF TypeOK
  <1>2. durable <= Len(file') /\ \A i \in 1..durable : file'[i] = file[i]
    BY <1>1 DEF TypeOK
  <1> QED
    BY <1>2, SyncedKept

LEMMA WalInit == Init => WalInv
  <1> SUFFICES ASSUME Init PROVE WalInv
    OBVIOUS
  <1>1. /\ Len(file) = 0 /\ Len(writer) = 0
        /\ file \in Seq(Entry) /\ writer \in Seq(Record)
    BY EmptySeq DEF Init
  <1>2. TypeOK
    <2>1. /\ << >> \in Seq(Messages) /\ << >> \in Seq(Record)
          /\ << >> \in Seq(Record \cup {Torn})
      BY EmptySeq
    <2>2. durable \in 0..Len(file) /\ opened \in 0..Len(file)
      BY <1>1 DEF Init
    <2>3. seq_counter \in Nat \ {0} /\ count \in Nat /\ synced \in Nat /\ failures \in Nat
      BY DEF Init
    <2>4. up \in BOOLEAN /\ step \in {"receive", "written"}
      BY DEF Init
    <2>5. /\ processed \in Seq(Messages) /\ channel \in Seq(Messages)
          /\ writer \in Seq(Record) /\ file \in Seq(Record \cup {Torn})
      BY <2>1 DEF Init
    <2> QED
      BY <2>2, <2>3, <2>4, <2>5 DEF TypeOK
  <1>3. Len(Flushed) = 0
    BY <1>1, Added DEF Flushed
  <1>4. Matches(Flushed)
    BY <1>3 DEF Matches
  <1>5. SyncedBeforeTearSurvives /\ synced <= durable /\ DownIsEmpty /\ InFlight
    BY <1>1 DEF Init, SyncedBeforeTearSurvives, DownIsEmpty, InFlight
  <1> QED
    BY <1>2, <1>4, <1>5 DEF WalInv

\* What the invariant says of the sequences, in the terms of the leaves below.
LEMMA Lengths ==
  ASSUME TypeOK
  PROVE  /\ file \in Seq(Entry) /\ writer \in Seq(Record) /\ Flushed \in Seq(Entry)
         /\ Len(file) \in Nat /\ Len(writer) \in Nat
         /\ Len(channel) \in Nat /\ Len(processed) \in Nat
         /\ durable \in Nat /\ durable <= Len(file) /\ synced \in Nat
         /\ seq_counter \in Nat
         /\ Len(Flushed) = Len(file) + Len(writer)
         /\ \A i \in 1..Len(file) : Flushed[i] = file[i]
         /\ \A i \in Len(file) + 1..Len(Flushed) : Flushed[i] # Torn
  <1>1. /\ file \in Seq(Entry) /\ writer \in Seq(Record)
        /\ channel \in Seq(Messages) /\ processed \in Seq(Messages)
    BY DEF TypeOK, Entry
  <1>2. /\ Len(file) \in Nat /\ Len(writer) \in Nat
        /\ Len(channel) \in Nat /\ Len(processed) \in Nat
    BY <1>1, LenProperties
  <1>3. /\ Flushed \in Seq(Entry)
        /\ Len(Flushed) = Len(file) + Len(writer)
        /\ \A i \in 1..Len(file) : Flushed[i] = file[i]
        /\ \A i \in Len(file) + 1..Len(Flushed) : Flushed[i] # Torn
    BY <1>1, Added DEF Flushed
  <1>4. /\ durable \in Nat /\ durable <= Len(file) /\ synced \in Nat
        /\ seq_counter \in Nat
    BY <1>2 DEF TypeOK
  <1> QED
    BY <1>1, <1>2, <1>3, <1>4

-----------------------------------------------------------------------------
\* Steps that touch neither the file, the buffer, the channel nor the log.
LEMMA IdleKeepsInv ==
  ASSUME WalInv, TypeOK', up' = up,
         UNCHANGED <<processed, channel, disk, seq_counter, opened, synced>>
  PROVE  WalInv'
  <1>1. UNCHANGED <<processed, channel, writer, file, durable, seq_counter, opened, synced, up>>
    BY DEF disk
  <1>2. Flushed' = Flushed /\ Clean' = Clean /\ Readable' = Readable
    BY <1>1 DEF Flushed, Clean, Readable
  <1>3. Matches(Flushed)' /\ InFlight' /\ DownIsEmpty'
    BY <1>1, <1>2 DEF WalInv, Matches, InFlight, DownIsEmpty
  <1>4. SyncedBeforeTearSurvives' /\ synced' <= durable'
    BY <1>1, <1>2 DEF WalInv, SyncedBeforeTearSurvives
  <1> QED
    BY <1>3, <1>4 DEF WalInv

LEMMA GoOnKeepsInv == ASSUME WalInv, GoOn PROVE WalInv'
  <1>1. TypeOK'
    BY DEF WalInv, GoOn, TypeOK, disk
  <1> QED
    BY <1>1, IdleKeepsInv DEF GoOn

LEMMA SendKeepsInv == ASSUME WalInv, NEW m \in Messages, Send(m) PROVE WalInv'
  <1>1. /\ file' = file /\ writer' = writer /\ durable' = durable /\ synced' = synced
        /\ up' = up /\ up /\ seq_counter' = seq_counter
        /\ channel' = Append(channel, m) /\ processed' = Append(processed, m)
    BY DEF Send, disk, thread
  <1>2. channel \in Seq(Messages) /\ processed \in Seq(Messages) /\ TypeOK
    BY DEF WalInv, TypeOK
  <1>3. /\ channel' \in Seq(Messages) /\ processed' \in Seq(Messages)
        /\ Len(channel') = Len(channel) + 1
        /\ Len(processed') = Len(processed) + 1
        /\ \A i \in 1..Len(channel) : channel'[i] = channel[i]
        /\ \A i \in 1..Len(processed) : processed'[i] = processed[i]
        /\ channel'[Len(channel) + 1] = m
        /\ processed'[Len(processed) + 1] = m
    BY <1>1, <1>2, AppendProperties
  <1>4. TypeOK'
    BY <1>1, <1>2, <1>3 DEF Send, TypeOK, thread
  <1>5. Flushed' = Flushed /\ Clean' = Clean /\ Readable' = Readable
    BY <1>1 DEF Flushed, Clean, Readable
  <1>6. /\ Len(Flushed) \in Nat /\ Len(channel) \in Nat /\ Len(processed) \in Nat
    BY <1>2, Lengths
  <1>7. Matches(Flushed)'
    BY <1>3, <1>5, <1>6 DEF WalInv, Matches
  <1>8. InFlight'
    <2>1. SUFFICES ASSUME Clean
                   PROVE  /\ Len(processed') = Len(Flushed) + Len(channel')
                          /\ seq_counter' = Len(Flushed) + 1
                          /\ \A k \in 1..Len(channel') :
                               channel'[k] = processed'[Len(Flushed) + k]
      BY <1>5 DEF InFlight
    <2>2. /\ Len(processed) = Len(Flushed) + Len(channel)
          /\ seq_counter = Len(Flushed) + 1
          /\ \A k \in 1..Len(channel) : channel[k] = processed[Len(Flushed) + k]
      BY <1>1, <2>1 DEF WalInv, InFlight
    <2> QED
      BY <1>1, <1>3, <1>6, <2>2
  <1>9. DownIsEmpty' /\ SyncedBeforeTearSurvives' /\ synced' <= durable'
    BY <1>1, <1>5 DEF WalInv, DownIsEmpty, SyncedBeforeTearSurvives
  <1> QED
    BY <1>4, <1>7, <1>8, <1>9 DEF WalInv

\* The writer puts one record behind all others, flushing the buffer or not.
LEMMA BufferedAdds ==
  ASSUME TypeOK, NEW rec \in Record, Buffered(rec)
  PROVE  /\ file' \in Seq(Entry) /\ writer' \in Seq(Record) /\ durable' = durable
         /\ Len(file') \in Nat /\ Len(file) <= Len(file')
         /\ \A i \in 1..Len(file) : file'[i] = file[i]
         /\ Len(Flushed') = Len(Flushed) + 1
         /\ \A i \in 1..Len(Flushed) : Flushed'[i] = Flushed[i]
         /\ Flushed'[Len(Flushed) + 1] = rec
  <1>1. /\ file \in Seq(Entry) /\ writer \in Seq(Record) /\ Flushed \in Seq(Entry)
        /\ Len(file) \in Nat /\ Len(writer) \in Nat
        /\ Len(Flushed) = Len(file) + Len(writer)
        /\ \A i \in 1..Len(file) : Flushed[i] = file[i]
    BY Lengths
  <1>2. \A i \in Len(file) + 1..Len(file) + Len(writer) : Flushed[i] = writer[i - Len(file)]
    BY <1>1, Added DEF Flushed
  <1>3. CASE /\ writer' = Append(writer, rec)
             /\ UNCHANGED <<file, durable>>
    <2>1. /\ writer' \in Seq(Record)
          /\ Len(writer') = Len(writer) + 1
          /\ \A i \in 1..Len(writer) : writer'[i] = writer[i]
          /\ writer'[Len(writer) + 1] = rec
      BY <1>1, <1>3, AppendProperties
    <2>2. /\ Len(Flushed') = Len(file) + Len(writer')
          /\ \A i \in 1..Len(file) : Flushed'[i] = file[i]
          /\ \A i \in Len(file) + 1..Len(file) + Len(writer') :
               Flushed'[i] = writer'[i - Len(file)]
      BY <1>1, <1>3, <2>1, Added DEF Flushed
    <2>3. ASSUME NEW i \in 1..Len(Flushed)
          PROVE  Flushed'[i] = Flushed[i]
      <3>1. CASE i \in 1..Len(file)
        BY <1>1, <2>2, <3>1
      <3>2. CASE i \in Len(file) + 1..Len(file) + Len(writer)
        <4>1. i - Len(file) \in 1..Len(writer)
          BY <1>1, <3>2
        <4>2. i \in Len(file) + 1..Len(file) + Len(writer')
          BY <1>1, <2>1, <3>2
        <4> QED
          BY <1>2, <2>1, <2>2, <3>2, <4>1, <4>2
      <3> QED
        BY <1>1, <3>1, <3>2
    <2>4. Flushed'[Len(Flushed) + 1] = rec
      BY <1>1, <2>1, <2>2
    <2> QED
      BY <1>1, <1>3, <2>1, <2>2, <2>3, <2>4
  <1>4. CASE /\ file' = file \o writer
             /\ writer' = <<rec>>
             /\ UNCHANGED durable
    <2>1. file' = Flushed
      BY <1>4 DEF Flushed
    <2>2. writer' \in Seq(Record) /\ Len(writer') = 1 /\ writer'[1] = rec
      BY <1>4
    <2>3. /\ Len(Flushed') = Len(Flushed) + 1
          /\ \A i \in 1..Len(Flushed) : Flushed'[i] = Flushed[i]
          /\ \A i \in Len(Flushed) + 1..Len(Flushed) + 1 :
               Flushed'[i] = writer'[i - Len(Flushed)]
      <3>1. Flushed' = Flushed \o writer'
        BY <2>1 DEF Flushed
      <3>2. /\ Len(Flushed \o writer') = Len(Flushed) + Len(writer')
            /\ \A i \in 1..Len(Flushed) : (Flushed \o writer')[i] = Flushed[i]
            /\ \A i \in Len(Flushed) + 1..Len(Flushed) + Len(writer') :
                 (Flushed \o writer')[i] = writer'[i - Len(Flushed)]
        BY <1>1, <2>2, Added
      <3> QED
        BY <2>2, <3>1, <3>2
    <2>4. Flushed'[Len(Flushed) + 1] = rec
      BY <1>1, <2>2, <2>3
    <2> QED
      BY <1>1, <1>4, <2>1, <2>2, <2>3, <2>4
  <1> QED
    BY <1>3, <1>4 DEF Buffered

LEMMA WriteOrderKeepsInv == ASSUME WalInv, WriteOrder PROVE WalInv'
  <1> DEFINE rec == [seq_id |-> seq_counter, order |-> Head(channel)]
  <1>1. /\ TypeOK /\ up /\ channel # << >> /\ Buffered(rec)
        /\ channel' = Tail(channel) /\ seq_counter' = seq_counter + 1
        /\ processed' = processed /\ synced' = synced /\ up' = up
    BY DEF WalInv, WriteOrder
  <1>2. channel \in Seq(Messages) /\ Len(channel) \in Nat /\ Len(channel) # 0
    BY <1>1, EmptySeq, LenProperties DEF TypeOK
  <1>3. /\ Head(channel) \in Messages /\ Head(channel) = channel[1]
        /\ Tail(channel) \in Seq(Messages)
        /\ Len(Tail(channel)) = Len(channel) - 1
        /\ \A i \in 1..Len(Tail(channel)) : Tail(channel)[i] = channel[i + 1]
    BY <1>1, <1>2, HeadTailProperties
  <1>4. rec \in Record /\ rec.seq_id = seq_counter /\ rec.order = channel[1]
    BY <1>1, <1>3 DEF TypeOK, Record
  <1> HIDE DEF rec
  <1>5. /\ file' \in Seq(Entry) /\ writer' \in Seq(Record) /\ durable' = durable
        /\ Len(file') \in Nat /\ Len(file) <= Len(file')
        /\ \A i \in 1..Len(file) : file'[i] = file[i]
        /\ Len(Flushed') = Len(Flushed) + 1
        /\ \A i \in 1..Len(Flushed) : Flushed'[i] = Flushed[i]
        /\ Flushed'[Len(Flushed) + 1] = rec
    BY <1>1, <1>4, BufferedAdds
  <1>6. /\ Len(file) \in Nat /\ Len(writer) \in Nat /\ Len(processed) \in Nat
        /\ Len(Flushed) = Len(file) + Len(writer)
        /\ \A i \in 1..Len(file) : Flushed[i] = file[i]
        /\ seq_counter \in Nat /\ durable <= Len(file) /\ durable \in Nat
    BY <1>1, Lengths
  <1>7. TypeOK'
    <2>1. durable' \in 0..Len(file') /\ opened' \in 0..Len(file')
      BY <1>1, <1>5, <1>6 DEF TypeOK, WriteOrder
    <2> QED
      BY <1>1, <1>3, <1>5, <2>1 DEF TypeOK, WriteOrder, Entry
  <1>8. Clean => /\ Len(processed) = Len(Flushed) + Len(channel)
                 /\ seq_counter = Len(Flushed) + 1
                 /\ \A k \in 1..Len(channel) : channel[k] = processed[Len(Flushed) + k]
    BY <1>1 DEF WalInv, InFlight
  <1>9. Matches(Flushed)'
    <2>1. SUFFICES ASSUME NEW i \in 1..Len(Flushed'), \A j \in 1..i : Flushed'[j] # Torn
                   PROVE  /\ i <= Len(processed)
                          /\ Flushed'[i].order = processed[i]
                          /\ Flushed'[i].seq_id = i
      BY <1>1 DEF Matches
    <2>2. CASE i \in 1..Len(Flushed)
      <3>1. \A j \in 1..i : Flushed[j] # Torn
        BY <1>5, <1>6, <2>1, <2>2
      <3> QED
        BY <1>5, <2>2, <3>1 DEF WalInv, Matches
    <2>3. CASE i = Len(Flushed) + 1
      <3>1. \A j \in 1..Len(file) : j \in 1..i /\ j \in 1..Len(Flushed)
        BY <1>6, <2>3
      <3>2. \A j \in 1..Len(file) : file[j] # Torn
        BY <1>5, <1>6, <2>1, <3>1
      <3>3. Clean
        BY <3>2 DEF Clean
      <3>4. channel[1] = processed[Len(Flushed) + 1]
        BY <1>2, <1>8, <3>3
      <3> QED
        BY <1>2, <1>4, <1>5, <1>6, <1>8, <2>3, <3>3, <3>4
    <2> QED
      BY <1>5, <1>6, <2>2, <2>3
  <1>10. InFlight'
    <2>1. SUFFICES ASSUME Clean'
                   PROVE  /\ Len(processed') = Len(Flushed') + Len(channel')
                          /\ seq_counter' = Len(Flushed') + 1
                          /\ \A k \in 1..Len(channel') :
                               channel'[k] = processed'[Len(Flushed') + k]
      BY DEF InFlight
    <2>2. Clean
      BY <1>5, <1>6, <2>1 DEF Clean
    <2>3. ASSUME NEW k \in 1..Len(channel')
          PROVE  channel'[k] = processed'[Len(Flushed') + k]
      <3>1. k + 1 \in 1..Len(channel) /\ Len(Flushed') + k = Len(Flushed) + (k + 1)
        BY <1>1, <1>2, <1>3, <1>5, <1>6
      <3> QED
        BY <1>1, <1>3, <1>8, <2>2, <3>1
    <2>4. Len(processed) = Len(Flushed) + Len(channel) /\ seq_counter = Len(Flushed) + 1
      BY <1>8, <2>2
    <2>5. Len(processed') = Len(Flushed') + Len(channel')
      BY <1>1, <1>2, <1>3, <1>5, <1>6, <2>4
    <2>6. seq_counter' = Len(Flushed') + 1
      BY <1>1, <1>5, <2>4
    <2> QED
      BY <2>3, <2>5, <2>6
  <1>11. DownIsEmpty'
    BY <1>1 DEF DownIsEmpty
  <1>12. SyncedBeforeTearSurvives' /\ synced' <= durable'
    BY <1>1, <1>5, SyncedKeptGrown DEF WalInv
  <1> QED
    BY <1>7, <1>9, <1>10, <1>11, <1>12 DEF WalInv

LEMMA SyncKeepsInv == ASSUME WalInv, Sync PROVE WalInv'
  <1>1. /\ TypeOK /\ up /\ up' = up
        /\ file' = Flushed /\ writer' = << >>
        /\ durable' = Len(file') /\ synced' = Covered
        /\ channel' = channel /\ processed' = processed /\ seq_counter' = seq_counter
    BY DEF WalInv, Sync, Flushed
  <1>2. /\ file \in Seq(Entry) /\ writer \in Seq(Record) /\ Flushed \in Seq(Entry)
        /\ Len(file) \in Nat /\ Len(writer) \in Nat
        /\ Len(channel) \in Nat /\ Len(processed) \in Nat
        /\ durable \in Nat /\ durable <= Len(file) /\ synced \in Nat
        /\ Len(Flushed) = Len(file) + Len(writer)
        /\ \A i \in 1..Len(file) : Flushed[i] = file[i]
        /\ \A i \in Len(file) + 1..Len(Flushed) : Flushed[i] # Torn
    BY <1>1, Lengths
  <1>3. Flushed' = Flushed /\ writer' \in Seq(Record)
    <2>1. Flushed' = Flushed \o << >> /\ writer' = << >>
      BY <1>1 DEF Flushed
    <2> QED
      BY <1>2, <2>1, ConcatEmptySeq, EmptySeq
  <1>4. Clean => Len(processed) - Len(channel) = Len(Flushed)
    BY <1>1, <1>2 DEF WalInv, InFlight
  <1>5. /\ synced' \in Nat /\ synced' <= Len(Flushed)
        /\ \A j \in 1..synced' : Flushed[j] # Torn
    <2>1. CASE Clean
      <3>1. synced' = Len(Flushed)
        BY <1>1, <1>4, <2>1 DEF Covered, Clean
      <3>2. \A j \in 1..Len(Flushed) : Flushed[j] # Torn
        BY <1>2, <2>1 DEF Clean
      <3> QED
        BY <1>2, <3>1, <3>2
    <2>2. CASE ~Clean
      <3>1. synced' = synced
        BY <1>1, <2>2 DEF Covered, Clean
      <3>2. \A i \in 1..synced : i \in 1..Len(file) /\ \A j \in 1..i : file[j] # Torn
        BY DEF WalInv, SyncedBeforeTearSurvives, Readable
      <3>3. synced <= Len(file) /\ Len(file) <= Len(Flushed)
        BY <1>2 DEF WalInv
      <3>4. ASSUME NEW j \in 1..synced
            PROVE  Flushed[j] # Torn
        <4>1. j \in 1..Len(file) /\ j \in 1..j
          BY <1>2, <3>3
        <4>2. file[j] # Torn
          BY <3>2, <4>1
        <4> QED
          BY <1>2, <4>1, <4>2
      <3>5. synced' \in Nat /\ synced' <= Len(Flushed)
        BY <1>2, <3>1, <3>3
      <3> QED
        BY <3>1, <3>4, <3>5
    <2> QED
      BY <2>1, <2>2
  <1>6. TypeOK'
    <2>1. durable' \in 0..Len(file') /\ opened' \in 0..Len(file')
      BY <1>1, <1>2 DEF TypeOK, Sync
    <2> QED
      BY <1>1, <1>2, <1>3, <1>5, <2>1 DEF TypeOK, Sync, Entry
  <1>7. Matches(Flushed)'
    BY <1>1, <1>3 DEF WalInv, Matches
  <1>8. InFlight'
    <2>1. Clean' => Clean
      BY <1>1, <1>2 DEF Clean
    <2> QED
      BY <1>1, <1>3, <2>1 DEF WalInv, InFlight
  <1>9. DownIsEmpty'
    BY <1>1 DEF DownIsEmpty
  <1>10. SyncedBeforeTearSurvives'
    <2>1. ASSUME NEW i \in 1..synced'
          PROVE  i \in 1..Len(file') /\ \A j \in 1..i : file'[j] # Torn
      <3>1. i \in 1..Len(Flushed) /\ \A j \in 1..i : j \in 1..synced'
        BY <1>2, <1>5
      <3> QED
        BY <1>1, <1>5, <3>1
    <2> QED
      BY <2>1 DEF SyncedBeforeTearSurvives, Readable
  <1>11. synced' <= durable'
    BY <1>1, <1>5
  <1> QED
    BY <1>6, <1>7, <1>8, <1>9, <1>10, <1>11 DEF WalInv

-----------------------------------------------------------------------------
\* With nothing in the buffer the file is all there is.
LEMMA FlushedIsFile ==
  ASSUME NEW f \in Seq(Entry)
  PROVE  f \o << >> = f
  BY ConcatEmptySeq

LEMMA MatchesFile ==
  ASSUME TypeOK, Matches(Flushed)
  PROVE  Matches(file)
  <1>1. /\ Len(file) \in Nat /\ Len(writer) \in Nat
        /\ Len(Flushed) = Len(file) + Len(writer)
        /\ \A i \in 1..Len(file) : Flushed[i] = file[i]
    BY Lengths
  <1>2. ASSUME NEW i \in 1..Len(file), \A j \in 1..i : file[j] # Torn
        PROVE  /\ i \in 1..Len(Flushed) /\ Flushed[i] = file[i]
               /\ \A j \in 1..i : Flushed[j] # Torn
    BY <1>1, <1>2
  <1> QED
    BY <1>2 DEF Matches

LEMMA StartKeepsInv == ASSUME WalInv, Start PROVE WalInv'
  <1>1. PICK n \in 0..Len(file) :
          /\ Reads(file, n)
          /\ processed' = Orders(file, n)
          /\ seq_counter' = NextSeq(n)
    BY DEF Start
  <1>2. /\ TypeOK /\ ~up /\ up' = TRUE
        /\ channel' = channel /\ writer' = writer /\ file' = file
        /\ durable' = durable /\ synced' = synced /\ opened' = Len(file)
        /\ channel = << >> /\ writer = << >>
    BY DEF WalInv, Start, disk, DownIsEmpty
  <1>3. /\ file \in Seq(Entry) /\ Len(file) \in Nat /\ Flushed = file
        /\ n \in Nat /\ n <= Len(file) /\ Len(channel) = 0
    BY <1>2, Lengths, FlushedIsFile, EmptySeq DEF Flushed
  <1>4. /\ \A i \in 1..n : file[i] # Torn
        /\ n < Len(file) => file[n + 1] = Torn
    BY <1>1 DEF Reads
  <1>5. \A i \in 1..n : file[i] \in Record /\ file[i].seq_id = i
    <2>1. ASSUME NEW i \in 1..n
          PROVE  file[i] \in Record /\ file[i].seq_id = i
      <3>1. i \in 1..Len(file) /\ \A j \in 1..i : file[j] # Torn
        BY <1>3, <1>4
      <3>2. file[i] \in Entry
        BY <1>3, <3>1, ElementOfSeq
      <3> QED
        BY <1>3, <1>4, <3>1, <3>2 DEF Entry, WalInv, Matches
    <2> QED
      BY <2>1
  <1>6. /\ processed' \in Seq(Messages) /\ Len(processed') = n
        /\ \A i \in 1..n : processed'[i] = file[i].order
    <2>1. processed' \in [1..n -> Messages] /\ DOMAIN processed' = 1..n
      BY <1>1, <1>5 DEF Orders, Record
    <2>2. processed' \in Seq(Messages)
      BY <1>3, <2>1, SeqDef
    <2>3. Len(processed') = n
      BY <1>3, <2>1, <2>2, LenProperties
    <2> QED
      BY <1>1, <2>2, <2>3 DEF Orders
  <1>7. seq_counter' = n + 1
    <2>1. CASE n = 0
      BY <1>1, <2>1 DEF NextSeq
    <2>2. CASE n # 0
      <3>1. n \in 1..n
        BY <1>3, <2>2
      <3> QED
        BY <1>1, <1>5, <2>2, <3>1 DEF NextSeq
    <2> QED
      BY <2>1, <2>2
  <1>8. TypeOK'
    <2>1. durable' \in 0..Len(file') /\ opened' \in 0..Len(file')
      BY <1>2, <1>3 DEF TypeOK
    <2>2. seq_counter' \in Nat \ {0}
      BY <1>3, <1>7
    <2> QED
      BY <1>2, <1>6, <2>1, <2>2 DEF TypeOK, Start
  <1>9. Flushed' = file
    BY <1>2, <1>3 DEF Flushed
  <1>10. Matches(Flushed)'
    <2>1. SUFFICES ASSUME NEW i \in 1..Len(file), \A j \in 1..i : file[j] # Torn
                   PROVE  i <= n
      BY <1>3, <1>5, <1>6, <1>9 DEF Matches
    <2>2. CASE i > n
      <3>1. n + 1 \in 1..i /\ n < Len(file)
        BY <1>3, <2>2
      <3> QED
        BY <1>4, <2>1, <3>1
    <2> QED
      BY <1>3, <2>2
  <1>11. InFlight'
    <2>1. Clean' => n = Len(file)
      <3>1. SUFFICES ASSUME Clean', n < Len(file)
                     PROVE  FALSE
        BY <1>3
      <3>2. n + 1 \in 1..Len(file)
        BY <1>3, <3>1
      <3> QED
        BY <1>2, <1>4, <3>1, <3>2 DEF Clean
    <2>2. Len(channel') = 0
      BY <1>2, <1>3
    <2>3. Clean' => /\ Len(processed') = Len(Flushed') + Len(channel')
                    /\ seq_counter' = Len(Flushed') + 1
      BY <1>3, <1>6, <1>7, <1>9, <2>1, <2>2
    <2> QED
      BY <2>2, <2>3 DEF InFlight
  <1>12. DownIsEmpty'
    BY <1>2 DEF DownIsEmpty
  <1>13. SyncedBeforeTearSurvives' /\ synced' <= durable'
    BY <1>2 DEF WalInv, SyncedBeforeTearSurvives, Readable
  <1> QED
    BY <1>8, <1>10, <1>11, <1>12, <1>13 DEF WalInv

\* A process that is gone leaves a file that keeps what is durable and
\* matches what it did.
LEMMA DownKeepsInv ==
  ASSUME WalInv, up' = FALSE, channel' = << >>, writer' = << >>, opened' = 0,
         UNCHANGED <<processed, thread, synced, durable>>, failures' \in Nat,
         file' \in Seq(Entry), Matches(file)', durable <= Len(file'),
         \A i \in 1..durable : file'[i] = file[i]
  PROVE  WalInv'
  <1>1. /\ TypeOK /\ Len(file') \in Nat
        /\ processed' = processed /\ synced' = synced /\ durable' = durable
        /\ seq_counter' = seq_counter /\ count' = count /\ step' = step
        /\ durable \in Nat
    BY LenProperties, Lengths DEF WalInv, thread
  <1>2. channel' \in Seq(Messages) /\ writer' \in Seq(Record)
    BY EmptySeq
  <1>3. TypeOK'
    <2>1. durable' \in 0..Len(file') /\ opened' \in 0..Len(file')
      BY <1>1
    <2> QED
      BY <1>1, <1>2, <2>1 DEF TypeOK, Entry
  <1>4. Flushed' = file'
    <2>1. Flushed' = file' \o << >>
      BY DEF Flushed
    <2> QED
      BY <2>1, FlushedIsFile
  <1>5. Matches(Flushed)'
    BY <1>4 DEF Matches
  <1>6. InFlight' /\ DownIsEmpty'
    BY DEF InFlight, DownIsEmpty
  <1>7. SyncedBeforeTearSurvives' /\ synced' <= durable'
    BY <1>1, SyncedKept DEF WalInv
  <1> QED
    BY <1>3, <1>5, <1>6, <1>7 DEF WalInv

LEMMA KillKeepsInv == ASSUME WalInv, Kill PROVE WalInv'
  <1>1. /\ TypeOK /\ up' = FALSE /\ channel' = << >> /\ writer' = << >> /\ opened' = 0
        /\ UNCHANGED <<processed, thread, synced, durable>> /\ failures' \in Nat
    BY DEF WalInv, Kill, Crash, TypeOK
  <1>2. /\ file \in Seq(Entry) /\ Flushed \in Seq(Entry)
        /\ Len(file) \in Nat /\ Len(writer) \in Nat
        /\ durable \in Nat /\ durable <= Len(file)
        /\ Len(Flushed) = Len(file) + Len(writer)
        /\ \A i \in 1..Len(file) : Flushed[i] = file[i]
    BY <1>1, Lengths
  <1>3. CASE file' = file
    <2>1. Matches(file)'
      BY <1>1, <1>3, MatchesFile DEF WalInv, Matches
    <2> QED
      BY <1>1, <1>2, <1>3, <2>1, DownKeepsInv
  <1>4. CASE \E n \in Len(file)..Len(file) + Len(writer) : CutAt(file \o writer, n)
    <2>1. PICK n \in Len(file)..Len(file) + Len(writer) : CutAt(Flushed, n)
      BY <1>4 DEF Flushed
    <2>2. n \in 0..Len(Flushed)
      BY <1>2
    <2>3. /\ file' \in Seq(Entry) /\ Len(file') \in n..n + 1
          /\ \A i \in 1..n : file'[i] = Flushed[i]
      BY <1>2, <2>1, <2>2, Cut
    <2>4. Matches(file)'
      BY <1>1, <1>2, <2>1, <2>2, MatchesCut DEF WalInv
    <2>5. durable <= Len(file') /\ \A i \in 1..durable : file'[i] = file[i]
      BY <1>2, <2>1, <2>3
    <2> QED
      BY <1>1, <2>3, <2>4, <2>5, DownKeepsInv
  <1> QED
    BY <1>3, <1>4 DEF Kill

LEMMA PowerFailureKeepsInv == ASSUME WalInv, PowerFailure PROVE WalInv'
  <1>1. /\ TypeOK /\ up' = FALSE /\ channel' = << >> /\ writer' = << >> /\ opened' = 0
        /\ UNCHANGED <<processed, thread, synced, durable>> /\ failures' \in Nat
    BY DEF WalInv, PowerFailure, Crash, TypeOK, DownIsEmpty
  <1>2. /\ file \in Seq(Entry) /\ Len(file) \in Nat
        /\ durable \in Nat /\ durable <= Len(file)
    BY <1>1, Lengths
  <1>3. PICK n \in durable..Len(file) : CutAt(file, n)
    BY DEF PowerFailure
  <1>4. n \in 0..Len(file) /\ n \in Nat /\ durable <= n
    BY <1>2
  <1>5. /\ file' \in Seq(Entry) /\ Len(file') \in n..n + 1
        /\ \A i \in 1..n : file'[i] = file[i]
    BY <1>2, <1>3, <1>4, Cut
  <1>6. Matches(file)'
    BY <1>1, <1>2, <1>3, <1>4, MatchesFile, MatchesCut DEF WalInv
  <1>7. durable <= Len(file') /\ \A i \in 1..durable : file'[i] = file[i]
    BY <1>2, <1>4, <1>5
  <1> QED
    BY <1>1, <1>5, <1>6, <1>7, DownKeepsInv

LEMMA TornHeaderKeepsInv == ASSUME WalInv, TornHeader PROVE WalInv'
  <1>1. /\ TypeOK /\ ~up /\ up' = up /\ file = << >> /\ file' = <<Torn>>
        /\ channel' = channel /\ writer' = writer /\ opened' = opened
        /\ channel = << >> /\ writer = << >> /\ opened = 0
        /\ UNCHANGED <<processed, thread, synced, durable>> /\ failures' \in Nat
    BY DEF WalInv, TornHeader, TypeOK, DownIsEmpty
  <1>2. up' = FALSE
    BY <1>1 DEF TypeOK
  <1>3. durable = 0
    <2>1. Len(file) = 0
      BY <1>1, EmptySeq
    <2> QED
      BY <1>1, <2>1, Lengths
  <1>4. file' \in Seq(Entry) /\ Len(file') = 1 /\ file'[1] = Torn
    BY <1>1 DEF Entry
  <1>5. Matches(file)'
    BY <1>4 DEF Matches
  <1>6. durable <= Len(file') /\ \A i \in 1..durable : file'[i] = file[i]
    BY <1>3, <1>4
  <1> QED
    BY <1>1, <1>2, <1>4, <1>5, <1>6, DownKeepsInv

LEMMA WalStep == ASSUME WalInv, [Next]_vars PROVE WalInv'
  <1>1. CASE UNCHANGED vars
    <2>1. TypeOK'
      BY <1>1 DEF vars, disk, thread, WalInv, TypeOK
    <2> QED
      BY <1>1, <2>1, IdleKeepsInv DEF vars, thread
  <1>2. CASE Start
    BY <1>2, StartKeepsInv
  <1>3. ASSUME NEW m \in Messages, Send(m)
        PROVE  WalInv'
    BY <1>3, SendKeepsInv
  <1>4. CASE Logger
    BY <1>4, WriteOrderKeepsInv, SyncKeepsInv, GoOnKeepsInv DEF Logger
  <1>5. CASE Kill
    BY <1>5, KillKeepsInv
  <1>6. CASE PowerFailure
    BY <1>6, PowerFailureKeepsInv
  <1>7. CASE TornHeader
    BY <1>7, TornHeaderKeepsInv
  <1> QED
    BY <1>1, <1>2, <1>3, <1>4, <1>5, <1>6, <1>7 DEF Next

\* Channel, buffer and file hold between them what was processed, in order,
\* after any sequence of failures and restarts (wal.rs; exchange.rs:27-38).
THEOREM WalInvariant == Spec => []WalInv
  BY WalInit, WalStep, PTL DEF Spec

\* The file, the buffer, the channel and the log stay what they are meant to
\* be; no count leaves its range.
THEOREM WalStaysTyped == Spec => []TypeOK
  <1>1. WalInv => TypeOK
    BY DEF WalInv
  <1> QED
    BY <1>1, WalInvariant, PTL

\* "Monotonic Sequence Continuity" (README.md:69), for every buffer size,
\* channel capacity and sequence of failures.
THEOREM SequenceContinuity == Spec => []SeqContiguous
  <1>1. WalInv => SeqContiguous
    BY MatchesFile DEF WalInv, Matches, SeqContiguous, Readable
  <1> QED
    BY <1>1, WalInvariant, PTL

\* What sync has covered while the file had no torn record is never lost to a
\* reader, however often and in whatever way the process or the machine fails
\* afterwards.  What is synced behind a torn record is lost: wal.rs:99 appends
\* where no reader gets, so there is no such theorem for all that was synced.
THEOREM SyncedBeforeTearSurvive == Spec => []SyncedBeforeTearSurvives
  <1>1. WalInv => SyncedBeforeTearSurvives
    BY DEF WalInv
  <1> QED
    BY <1>1, WalInvariant, PTL

-----------------------------------------------------------------------------
\* Remainders: they start at 0, stay below the divisor, and grow by one with
\* the number as long as they do not start over.
LEMMA ModOfZero == ASSUME NEW s \in Nat \ {0} PROVE 0 % s = 0
  OBVIOUS

LEMMA ModType ==
  ASSUME NEW s \in Nat \ {0}, NEW n \in Nat
  PROVE  n % s \in Nat /\ n % s < s
  OBVIOUS

LEMMA ModDivides ==
  ASSUME NEW s \in Nat \ {0}, NEW n \in Nat
  PROVE  n \div s \in Int /\ n = (s * (n \div s)) + (n % s)
  OBVIOUS

LEMMA OneApart ==
  ASSUME NEW s \in Nat \ {0}, NEW a \in Int, NEW b \in Int,
         NEW r \in 0..(s - 1), NEW t \in 0..(s - 1),
         (s * a) + r = (s * b) + t + 1, r # 0
  PROVE  r = t + 1
  <1>1. s * (a - b) = t + 1 - r
    BY SMT
  <1>2. a - b < 1
    <2>1. SUFFICES ASSUME a - b >= 1 PROVE FALSE
      OBVIOUS
    <2>2. s * (a - b) >= s
      BY <2>1
    <2> QED
      BY <1>1, <2>2
  <1>3. a - b > -1
    <2>1. SUFFICES ASSUME a - b <= -1 PROVE FALSE
      OBVIOUS
    <2>2. s * (a - b) <= -s
      BY <2>1
    <2> QED
      BY <1>1, <2>2
  <1> QED
    BY <1>1, <1>2, <1>3, a - b = 0

LEMMA ModNext ==
  ASSUME NEW s \in Nat \ {0}, NEW n \in Nat, (n + 1) % s # 0
  PROVE  (n + 1) % s = (n % s) + 1
  <1>1. /\ (n + 1) \div s \in Int /\ (n + 1) % s \in 0..(s - 1)
        /\ n + 1 = (s * ((n + 1) \div s)) + ((n + 1) % s)
    BY ModType, ModDivides, n + 1 \in Nat
  <1>2. /\ n \div s \in Int /\ n % s \in 0..(s - 1)
        /\ n = (s * (n \div s)) + (n % s)
    BY ModType, ModDivides
  <1>3. PICK a \in Int, b \in Int, r \in 0..(s - 1), t \in 0..(s - 1) :
          a = (n + 1) \div s /\ b = n \div s /\ r = (n + 1) % s /\ t = n % s
    BY <1>1, <1>2
  <1>4. (s * a) + r = (s * b) + t + 1
    BY <1>1, <1>2, <1>3
  <1> QED
    BY <1>3, <1>4, OneApart

-----------------------------------------------------------------------------
\* The records this run has received that are not on disk.
Behind == Len(writer) + Len(file) - (IF durable > opened THEN durable ELSE opened)

\* They are never more than the count says were written since it was last a
\* multiple of SYNC_EVERY: the strengthening of LossIsBounded that is inductive.
Pace ==
  up => /\ step = "receive" => Behind <= count % SYNC_EVERY
        /\ step = "written" => count # 0 /\ Behind <= ((count - 1) % SYNC_EVERY) + 1

\* A record that is written is one more, wherever it is buffered.
LEMMA PaceWrite == ASSUME TypeOK, Pace, WriteOrder PROVE Pace'
  <1>1. /\ up /\ step = "receive" /\ channel # << >> /\ count \in Nat
        /\ step' = "written" /\ count' = count + 1 /\ opened' = opened
        /\ opened \in 0..Len(file) /\ seq_counter \in Nat
    BY DEF TypeOK, WriteOrder
  <1>2. [seq_id |-> seq_counter, order |-> Head(channel)] \in Record
    BY <1>1, HeadTailProperties DEF TypeOK, Record
  <1>3. /\ Len(Flushed') = Len(Flushed) + 1 /\ durable' = durable
        /\ file' \in Seq(Entry) /\ writer' \in Seq(Record)
    BY <1>2, BufferedAdds DEF WriteOrder
  <1>4. Len(Flushed') = Len(file') + Len(writer')
    BY <1>3, Added DEF Flushed
  <1>5. /\ Len(Flushed) = Len(file) + Len(writer) /\ Len(file) \in Nat
        /\ Len(writer) \in Nat /\ durable \in Nat /\ opened \in Nat
    BY <1>1, Lengths
  <1>6. Len(file') \in Nat /\ Len(writer') \in Nat
    BY <1>3, LenProperties
  <1>7. Behind' = Behind + 1
    BY <1>1, <1>3, <1>4, <1>5, <1>6 DEF Behind
  <1>8. Behind <= count % SYNC_EVERY /\ Behind \in Int /\ count % SYNC_EVERY \in Nat
    BY <1>1, <1>5, ModType DEF Pace, Behind
  <1> QED
    BY <1>1, <1>7, <1>8, count' - 1 = count DEF Pace

\* A sync leaves nothing behind.
LEMMA PaceSync == ASSUME TypeOK, Pace, Sync PROVE Pace'
  <1>1. /\ step' = "receive" /\ count' = count /\ count \in Nat /\ opened' = opened
        /\ file' = Flushed /\ writer' = << >> /\ durable' = Len(file')
        /\ opened \in 0..Len(file)
    BY DEF TypeOK, Sync, Flushed
  <1>2. /\ Len(file') = Len(file) + Len(writer) /\ Len(file) \in Nat
        /\ Len(writer) \in Nat /\ Len(writer') = 0
    BY <1>1, Lengths, EmptySeq
  <1>3. Behind' = 0
    BY <1>1, <1>2 DEF Behind
  <1> QED
    BY <1>1, <1>3, ModType DEF Pace

\* Going on without one is only possible while the count has not come round.
LEMMA PaceGoOn == ASSUME TypeOK, Pace, GoOn PROVE Pace'
  <1>1. /\ up /\ step = "written" /\ count \in Nat /\ count % SYNC_EVERY # 0
        /\ step' = "receive" /\ count' = count
        /\ UNCHANGED <<writer, file, durable, opened>>
    BY DEF TypeOK, GoOn, SyncDue, disk
  <1>2. Behind' = Behind
    BY <1>1 DEF Behind
  <1>3. count # 0 /\ Behind <= ((count - 1) % SYNC_EVERY) + 1
    BY <1>1 DEF Pace
  <1>4. count % SYNC_EVERY = ((count - 1) % SYNC_EVERY) + 1
    <2>1. count - 1 \in Nat /\ (count - 1) + 1 = count
      BY <1>1, <1>3
    <2> QED
      BY <1>1, <2>1, ModNext
  <1> QED
    BY <1>1, <1>2, <1>3, <1>4 DEF Pace

\* A run that starts finds everything in the file it opens.
LEMMA PaceStart == ASSUME TypeOK, Start PROVE Pace' \/ Len(writer) # 0
  <1>1. /\ step' = "receive" /\ count' = 0 /\ opened' = Len(file)
        /\ writer' = writer /\ file' = file /\ durable' = durable
        /\ Len(file) \in Nat /\ Len(writer) \in Nat /\ durable <= Len(file) /\ durable \in Nat
    BY Lengths DEF Start, disk
  <1>2. Len(writer) = 0 => Behind' = 0
    BY <1>1 DEF Behind
  <1> QED
    BY <1>1, <1>2, ModOfZero DEF Pace

LEMMA PaceStep == ASSUME WalInv, Pace, [Next]_vars PROVE Pace'
  <1>1. TypeOK /\ DownIsEmpty
    BY DEF WalInv
  <1>2. CASE UNCHANGED vars
    BY <1>2 DEF vars, disk, thread, Pace, Behind
  <1>3. CASE Start
    <2>1. Len(writer) = 0
      BY <1>1, <1>3, EmptySeq DEF Start, DownIsEmpty
    <2> QED
      BY <1>1, <1>3, <2>1, PaceStart
  <1>4. ASSUME NEW m \in Messages, Send(m)
        PROVE  Pace'
    BY <1>4 DEF Send, disk, thread, Pace, Behind
  <1>5. CASE Logger
    BY <1>1, <1>5, PaceWrite, PaceSync, PaceGoOn DEF Logger
  <1>6. CASE Kill \/ PowerFailure \/ TornHeader
    <2>1. ~up'
      BY <1>6 DEF Kill, PowerFailure, TornHeader, Crash
    <2> QED
      BY <2>1 DEF Pace
  <1> QED
    BY <1>2, <1>3, <1>4, <1>5, <1>6 DEF Next

\* The logger never holds SYNC_EVERY records that are not on disk, however
\* many are waiting in the channel and whatever the size of the buffer: the
\* count's test in the logger's loop bounds what a power failure can take.
THEOREM LossStaysBounded == Spec => []LossIsBounded
  <1>1. Init => Pace
    BY DEF Init, Pace
  <1>2. WalInv /\ Pace => LossIsBounded
    <2> SUFFICES ASSUME WalInv, Pace, up, step = "receive"
                 PROVE  Unsynced - Len(channel) < SYNC_EVERY
      BY DEF LossIsBounded
    <2>1. /\ Len(channel) \in Nat /\ Len(writer) \in Nat /\ Len(file) \in Nat
          /\ durable \in Nat /\ opened \in Nat /\ count \in Nat
      BY Lengths DEF WalInv, TypeOK
    <2>2. Unsynced - Len(channel) = Behind
      BY <2>1 DEF Unsynced, Behind
    <2>3. Behind <= count % SYNC_EVERY /\ count % SYNC_EVERY < SYNC_EVERY
      BY <2>1, ModType DEF Pace
    <2>4. Behind \in Int /\ count % SYNC_EVERY \in Nat
      BY <2>1, ModType DEF Behind
    <2> QED
      BY <2>2, <2>3, <2>4
  <1> QED
    BY <1>1, <1>2, WalInvariant, PaceStep, PTL DEF Spec

-----------------------------------------------------------------------------
\* What a start replays is a prefix of what was processed before.
LEMMA StartReplaysPrefix ==
  ASSUME WalInv, NEW n \in 0..Len(file), Reads(file, n)
  PROVE  n \in 0..Len(processed) /\ Orders(file, n) = SubSeq(processed, 1, n)
  <1>1. TypeOK /\ Matches(file) /\ processed \in Seq(Messages)
    BY MatchesFile DEF WalInv, TypeOK
  <1>2. Len(file) \in Nat /\ Len(processed) \in Nat /\ n \in Nat
    BY <1>1, Lengths
  <1>3. ASSUME NEW i \in 1..n
        PROVE  i <= Len(processed) /\ file[i].order = processed[i]
    <2>1. i \in 1..Len(file) /\ \A j \in 1..i : file[j] # Torn
      BY <1>2 DEF Reads
    <2> QED
      BY <1>1, <2>1 DEF Matches
  <1>4. n <= Len(processed)
    <2>1. CASE n = 0
      BY <1>2, <2>1
    <2>2. CASE n # 0
      BY <1>2, <1>3, <2>2, n \in 1..n
    <2> QED
      BY <2>1, <2>2
  <1>5. \A i \in 1..n : processed[i] \in Messages
    BY <1>1, <1>2, <1>4, ElementOfSeq
  <1> DEFINE s == SubSeq(processed, 1, n)
  <1>6. s \in Seq(Messages) /\ Len(s) = n /\ \A i \in 1..n : s[i] = processed[i]
    <2>1. /\ s \in Seq(Messages)
          /\ Len(s) = IF 1 <= n THEN n - 1 + 1 ELSE 0
          /\ \A i \in 1..n - 1 + 1 : s[i] = processed[1 + i - 1]
      BY <1>2, <1>5, SubSeqProperties, 1 \in Int, n \in Int
    <2> QED
      BY <1>2, <2>1
  <1>7. s = [i \in 1..n |-> s[i]]
    BY <1>6, LenProperties
  <1>8. s = Orders(file, n)
    <2>1. \A i \in 1..n : s[i] = file[i].order
      BY <1>3, <1>6
    <2> HIDE DEF s
    <2> QED
      BY <1>7, <2>1 DEF Orders
  <1> QED
    BY <1>2, <1>4, <1>8

\* The log with its buffer, its channel and its failures is a Journal: a
\* restart loses some number of the last messages and nothing else.
THEOREM WalImplementsJournal == Spec => RefinesJournal
  <1>1. Init => J!Init
    BY DEF Init, J!Init
  <1>2. WalInv /\ [Next]_vars => [J!Next]_processed
    <2> SUFFICES ASSUME WalInv, [Next]_vars
                 PROVE  J!Next \/ processed' = processed
      OBVIOUS
    <2>1. CASE Start
      <3>1. PICK n \in 0..Len(file) : Reads(file, n) /\ processed' = Orders(file, n)
        BY <2>1 DEF Start
      <3>2. n \in 0..Len(processed) /\ processed' = SubSeq(processed, 1, n)
        BY <3>1, StartReplaysPrefix
      <3> QED
        BY <3>2 DEF J!Next, J!Restart
    <2>2. ASSUME NEW m \in Messages, Send(m)
          PROVE  J!Next
      BY <2>2 DEF Send, J!Next, J!Process
    <2>3. CASE Logger \/ Kill \/ PowerFailure \/ TornHeader \/ UNCHANGED vars
      BY <2>3 DEF Logger, WriteOrder, Sync, GoOn, Kill, PowerFailure, Crash,
         TornHeader, vars
    <2> QED
      BY <2>1, <2>2, <2>3 DEF Next
  <1> QED
    BY <1>1, <1>2, WalInvariant, PTL DEF Spec, RefinesJournal, J!Spec
=============================================================================
