------------------------------ MODULE Journal ------------------------------
(***************************************************************************)
(* What the write-ahead log promises to the engine thread: after a restart *)
(* it processes a PREFIX of the messages it had processed before, each     *)
(* once, in the same order, with nothing left out in between.  How much is *)
(* lost is not promised.  Wal is shown to implement it.                    *)
(***************************************************************************)
EXTENDS Integers, Sequences

CONSTANTS Messages

VARIABLES log     \* the messages the engine's state is made of

Init == log = << >>

\* The engine processes one more message.
Process(m) == log' = Append(log, m)

\* A restart: some number of the last messages are gone.
Restart == \E n \in 0..Len(log) : log' = SubSeq(log, 1, n)

Next == (\E m \in Messages : Process(m)) \/ Restart

Spec == Init /\ [][Next]_log
=============================================================================
