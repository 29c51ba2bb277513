-------------------------------- MODULE Wal --------------------------------
(***************************************************************************)
(* The write-ahead log: the engine thread's channel to the logger thread   *)
(* (src/src/bin/exchange.rs), the writer with its buffer and the reader    *)
(* (src/src/wal.rs), killed processes, power failures and restarts.        *)
(*                                                                         *)
(* The file is a sequence of records and of Torn, which stands for any     *)
(* stretch of it that does not read as a record: one cut short, one whose  *)
(* length or CRC is wrong, or a file header cut short.  The reader stops   *)
(* there, since it reads on from the bytes that follow.  Records are       *)
(* written whole as far as the buffer is concerned: what is flushed when a *)
(* record does not fit ends between two records.                           *)
(***************************************************************************)
EXTENDS Integers, Sequences

CONSTANTS
  Messages,       \* orders and cancellations, as the engine hands them over
  Torn,           \* part of the file that is no record
  SYNC_EVERY,     \* records between two syncs while more are waiting (1,000)
  BUFFER,         \* records the BufWriter holds (64 KiB, 910 of them)
  CHANNEL,        \* capacity of the channel to the logger (100,000)
  MaxMessages,    \* bound: messages the engine's state is made of
  MaxFailures     \* bound: crashes

ASSUME WalAssumption ==
  /\ SYNC_EVERY \in Nat \ {0}
  /\ BUFFER \in Nat \ {0}
  /\ CHANNEL \in Nat \ {0}
  /\ MaxMessages \in Nat
  /\ MaxFailures \in Nat
  /\ Torn \notin [seq_id : Nat, order : Messages]

VARIABLES
  up,             \* the exchange is running
  processed,      \* messages the engine replayed or handed over (at a crash: had)
  channel,        \* wal_tx to wal_rx
  writer,         \* records in the BufWriter
  file,           \* the file as the operating system shows it
  durable,        \* its entries that no failure of power takes away
  seq_counter,    \* WalWriter's
  count,          \* records the logger has written in this run
  step,           \* where the logger thread is
  opened,         \* entries of the file when this run opened it
  synced,         \* messages synced before the file was torn (see Covered)
  failures

thread == <<seq_counter, count, step>>
disk == <<writer, file, durable>>
vars == <<up, processed, channel, disk, thread, opened, synced, failures>>

Record == [seq_id : Nat, order : Messages]

TypeOK ==
  /\ up \in BOOLEAN
  /\ processed \in Seq(Messages)
  /\ channel \in Seq(Messages)
  /\ writer \in Seq(Record)
  /\ file \in Seq(Record \cup {Torn})
  /\ durable \in 0..Len(file)
  /\ seq_counter \in Nat \ {0}
  /\ count \in Nat
  /\ step \in {"receive", "written"}
  /\ opened \in 0..Len(file)
  /\ synced \in Nat
  /\ failures \in Nat

Init ==
  /\ up = FALSE
  /\ processed = << >>
  /\ channel = << >>
  /\ writer = << >>
  /\ file = << >>
  /\ durable = 0
  /\ seq_counter = 1
  /\ count = 0
  /\ step = "receive"
  /\ opened = 0
  /\ synced = 0
  /\ failures = 0

-----------------------------------------------------------------------------
\* read_all returns the first n records of f: it stops at the end or at the
\* first entry that is none.
Reads(f, n) ==
  /\ n \in 0..Len(f)
  /\ \A i \in 1..n : f[i] # Torn
  /\ n < Len(f) => f[n + 1] = Torn

Orders(f, n) == [i \in 1..n |-> f[i].order]

\* Mutant of NextSeq: the last number is taken again.
NextSeqRepeated(n) == IF n = 0 THEN 1 ELSE file[n].seq_id

\* The number to resume at after n records.
NextSeq(n) == IF n = 0 THEN 1 ELSE file[n].seq_id + 1

\* Mutant of Start: the file is opened with truncate(true) for append(true),
\* before it is read; the disk still has what was durable.
StartTruncates ==
  /\ ~up
  /\ up' = TRUE
  /\ file' = << >>
  /\ processed' = << >>
  /\ seq_counter' = 1
  /\ count' = 0
  /\ step' = "receive"
  /\ opened' = 0
  /\ UNCHANGED <<channel, writer, durable, synced, failures>>

\* The process starts: the logger opens the file and resumes its numbers, the
\* engine replays what the reader returns.  The two threads run side by side,
\* but nothing is written before the engine has finished replaying.
Start ==
  /\ ~up
  /\ up' = TRUE
  /\ \E n \in 0..Len(file) :
       /\ Reads(file, n)
       /\ processed' = Orders(file, n)
       /\ seq_counter' = NextSeq(n)
  /\ count' = 0
  /\ step' = "receive"
  /\ opened' = Len(file)
  /\ UNCHANGED <<channel, disk, synced, failures>>

\* The engine hands a message over; a full channel blocks it.
Send(m) ==
  /\ up
  /\ Len(channel) < CHANNEL
  /\ Len(processed) < MaxMessages
  /\ channel' = Append(channel, m)
  /\ processed' = Append(processed, m)
  /\ UNCHANGED <<up, disk, thread, opened, synced, failures>>

\* Mutant of Buffered: a full buffer is emptied without being written.
BufferedOver(rec) ==
  /\ writer' = IF Len(writer) < BUFFER THEN Append(writer, rec) ELSE <<rec>>
  /\ UNCHANGED <<file, durable>>

\* BufWriter: a record that does not fit makes room for itself.
Buffered(rec) ==
  \/ /\ Len(writer) < BUFFER
     /\ writer' = Append(writer, rec)
     /\ UNCHANGED <<file, durable>>
  \/ /\ Len(writer) >= BUFFER
     /\ file' = file \o writer
     /\ writer' = <<rec>>
     /\ UNCHANGED durable

\* The logger takes a message and writes its record (write_order).
WriteOrder ==
  /\ up
  /\ step = "receive"
  /\ channel # << >>
  /\ Buffered([seq_id |-> seq_counter, order |-> Head(channel)])
  /\ channel' = Tail(channel)
  /\ seq_counter' = seq_counter + 1
  /\ count' = count + 1
  /\ step' = "written"
  /\ UNCHANGED <<up, processed, opened, synced, failures>>

\* Mutants of SyncDue: a sync per batch only, or when idle only.
SyncDueByCount == count % SYNC_EVERY = 0

SyncDueWhenIdle == channel = << >>

SyncDue == count % SYNC_EVERY = 0 \/ channel = << >>

\* What a sync leaves covered.  Of records written behind a torn one nothing
\* can be hoped for, since no reader gets there: they are not counted.
Covered ==
  IF \E i \in 1..Len(file) : file[i] = Torn
  THEN synced ELSE Len(processed) - Len(channel)

\* Mutant of Sync: the buffer is not flushed first.
SyncUnflushed ==
  /\ up /\ step = "written" /\ SyncDue
  /\ durable' = Len(file)
  /\ synced' = Covered
  /\ step' = "receive"
  /\ UNCHANGED <<up, processed, channel, writer, file, seq_counter, count, opened, failures>>

\* sync: flush, then sync_data.
Sync ==
  /\ up
  /\ step = "written"
  /\ SyncDue
  /\ file' = file \o writer
  /\ writer' = << >>
  /\ durable' = Len(file')
  /\ synced' = Covered
  /\ step' = "receive"
  /\ UNCHANGED <<up, processed, channel, seq_counter, count, opened, failures>>

GoOn ==
  /\ up
  /\ step = "written"
  /\ ~SyncDue
  /\ step' = "receive"
  /\ UNCHANGED <<up, processed, channel, disk, seq_counter, count, opened, synced, failures>>

-----------------------------------------------------------------------------
\* Everything in the process's memory is gone.
Crash ==
  /\ up
  /\ failures < MaxFailures
  /\ failures' = failures + 1
  /\ up' = FALSE
  /\ channel' = << >>
  /\ writer' = << >>
  /\ opened' = 0
  /\ UNCHANGED <<processed, thread, synced>>

\* f has been written up to its n-th record, and perhaps part of the next.
CutAt(f, n) ==
  \/ file' = SubSeq(f, 1, n)
  \/ n < Len(f) /\ file' = Append(SubSeq(f, 1, n), Torn)

\* A write(2) of the buffer is in progress, or about to be.
Flushing ==
  \/ step = "written" /\ SyncDue
  \/ step = "receive" /\ channel # << >> /\ Len(writer) >= BUFFER

\* The process is killed: what it had written stays, and of a flush in
\* progress any part.
Kill ==
  /\ Crash
  /\ \/ UNCHANGED file
     \/ Flushing /\ \E n \in Len(file)..Len(file) + Len(writer) : CutAt(file \o writer, n)
  /\ UNCHANGED durable

\* The machine fails: of what was not synced any part may be missing, and what
\* follows the first missing part is of no use to the reader.  It may fail
\* while the exchange is not running, too.
PowerFailure ==
  /\ \/ Crash
     \/ /\ ~up
        /\ failures < MaxFailures
        /\ failures' = failures + 1
        /\ UNCHANGED <<up, processed, channel, writer, thread, opened, synced>>
  /\ \E n \in durable..Len(file) : CutAt(file, n)
  /\ UNCHANGED durable

\* The machine fails while WalWriter::new writes the header of a new file.
TornHeader ==
  /\ ~up
  /\ file = << >>
  /\ failures < MaxFailures
  /\ failures' = failures + 1
  /\ file' = <<Torn>>
  /\ UNCHANGED <<up, processed, channel, writer, durable, thread, opened, synced>>

Logger == WriteOrder \/ Sync \/ GoOn

Next ==
  \/ Start
  \/ \E m \in Messages : Send(m)
  \/ Logger
  \/ Kill
  \/ PowerFailure
  \/ TornHeader

Spec == Init /\ [][Next]_vars

\* The logger thread is scheduled; it waits for nothing but its channel.
FairSpec == Spec /\ WF_vars(Logger)

-----------------------------------------------------------------------------
\* The entries a reader gets to.
Readable == {i \in 1..Len(file) : \A j \in 1..i : file[j] # Torn}

\* Sequence numbers have neither gap nor repetition as far as a reader gets,
\* over any number of restarts, torn records and lost tails (README.md:69,
\* "Monotonic Sequence Continuity": WalWriter::new resumes from what it reads).
SeqContiguous == \A i \in Readable : file[i].seq_id = i

\* A message synced while the file had no torn record in it is read by every
\* later start, whatever fails in between and however often (sync flushes the
\* buffer before it syncs the file).  It says nothing of a message synced
\* later: the writer appends behind the torn record (wal.rs:99), no reader gets
\* there, and the next start has lost it, synced or not.
SyncedBeforeTearSurvives == \A i \in 1..synced : i \in Readable

\* What has reached neither the disk nor the reader's hands since this run
\* opened the file.
Unsynced ==
  Len(channel) + Len(writer) + Len(file) - (IF durable > opened THEN durable ELSE opened)

\* The logger never holds SYNC_EVERY received records that are not on disk,
\* however many more are waiting (the count's test beside is_empty).
LossIsBounded ==
  (up /\ step = "receive") => Unsynced - Len(channel) < SYNC_EVERY

\* Everything handed over gets to the disk unless the process dies first, also
\* a last message after which nothing else comes (the is_empty test).
EverythingIsSynced == (up /\ Unsynced > 0) ~> (~up \/ Unsynced = 0)

\* Across any failures the engine only ever works on a prefix of what it had
\* processed, followed by new messages.
J == INSTANCE Journal WITH log <- processed
RefinesJournal == J!Spec
=============================================================================
