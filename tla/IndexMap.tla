------------------------------ MODULE IndexMap ------------------------------
(***************************************************************************)
(* What the three open-addressing tables of src/src/book.rs promise: a map *)
(* from keys to values with a bound on its size.  OrderBook uses them as   *)
(* that; HashIndex is shown to implement it.                               *)
(***************************************************************************)
EXTENDS Integers, FiniteSets

CONSTANTS
  Keys,         \* order ids, prices, or <<user, client id>> pairs
  Values,       \* what an entry carries besides its key
  MaxEntries,   \* no insertion is accepted once so many keys are present
  None          \* no value

VARIABLES
  contents,     \* key -> value, or None
  op,           \* the operation in progress
  key, value,   \* its arguments
  answer        \* what it returns

vars == <<contents, op, key, value, answer>>

Operations == {"insert", "lookup", "remove"}

Init ==
  /\ contents = [k \in Keys |-> None]
  /\ op = "idle"
  /\ key = None
  /\ value = None
  /\ answer = None

\* Only an insertion comes with a value.
Call(o, k, v) ==
  /\ op = "idle"
  /\ o = "insert" <=> v # None
  /\ op' = o
  /\ key' = k
  /\ value' = v
  /\ UNCHANGED <<contents, answer>>

Answer(a) ==
  /\ op' = "done"
  /\ answer' = a
  /\ UNCHANGED <<key, value>>

Full == Cardinality({k \in Keys : contents[k] # None}) >= MaxEntries

\* insert: a key that is present gets the new value.
Put ==
  /\ op = "insert"
  /\ ~Full
  /\ contents' = [contents EXCEPT ![key] = value]
  /\ Answer("Ok")

\* The load limit counts keys and not whether this one is among them.
Refuse ==
  /\ op = "insert"
  /\ Full
  /\ Answer("EngineFull")
  /\ UNCHANGED contents

Get ==
  /\ op = "lookup"
  /\ Answer(contents[key])
  /\ UNCHANGED contents

Delete ==
  /\ op = "remove"
  /\ contents' = [contents EXCEPT ![key] = None]
  /\ Answer(contents[key])

Return ==
  /\ op = "done"
  /\ op' = "idle"
  /\ key' = None
  /\ value' = None
  /\ answer' = None
  /\ UNCHANGED contents

Next ==
  \/ \E o \in Operations, k \in Keys, v \in Values \cup {None} : Call(o, k, v)
  \/ Put \/ Refuse \/ Get \/ Delete
  \/ Return

Spec == Init /\ [][Next]_vars
=============================================================================
