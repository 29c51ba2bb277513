----------------------------- MODULE HashIndex -----------------------------
(***************************************************************************)
(* FastOrderIndex of src/src/book.rs, and FastPriceIndex and               *)
(* FastClientIndex, which are the same code with other keys and values: a  *)
(* table with linear probing whose deletion shifts later entries of the    *)
(* probe chain back instead of leaving a tombstone.                        *)
(*                                                                         *)
(* An action is one turn of a probing or shifting loop.  The mixing of     *)
(* bits in `hash` is left open: hash is any function from keys to slots.   *)
(* Arguments and cursors are reset when they are no longer needed.         *)
(* `& MASK` is % CAPACITY, the capacities being powers of two.             *)
(***************************************************************************)
EXTENDS Integers, FiniteSets

CONSTANTS
  Keys, Values,
  CAPACITY,     \* FAST_MAP_CAPACITY, FAST_PRICE_CAPACITY, FAST_CLIENT_CAPACITY
  None          \* an entry that is not occupied; no value

ASSUME HashIndexAssumption ==
  /\ CAPACITY \in Nat \ {0}
  /\ None \notin Keys \cup Values \cup [key : Keys, value : Values]

VARIABLES
  hash,         \* the hash function; never changes
  entries, count,
  op, key, value, answer,   \* the call in progress
  i,            \* the probing cursor
  curr, next,   \* the gap being filled and the entry looked at, of a removal
  removed       \* the value of the entry being removed

table == <<hash, entries, count>>
call == <<op, key, value, answer>>
cursors == <<i, curr, next, removed>>
vars == <<table, call, cursors>>

Slots == 0..CAPACITY - 1

Entry == [key : Keys, value : Values]

Operations == {"insert", "lookup", "remove"}

\* Mutant of LoadLimit: the table may be filled to the last slot.
LoadLimitNone == CAPACITY

LoadLimit == (CAPACITY * 8) \div 10

Following(slot) == (slot + 1) % CAPACITY

TypeOK ==
  /\ hash \in [Keys -> Slots]
  /\ entries \in [Slots -> Entry \cup {None}]
  /\ count \in 0..CAPACITY
  /\ op \in Operations \cup {"idle", "shift", "done"}
  /\ key \in Keys \cup {None}
  /\ value \in Values \cup {None}
  /\ answer \in Values \cup {None, "Ok", "EngineFull"}
  /\ i \in Slots
  /\ curr \in Slots
  /\ next \in Slots
  /\ removed \in Values \cup {None}

Init ==
  /\ hash \in [Keys -> Slots]
  /\ entries = [s \in Slots |-> None]
  /\ count = 0
  /\ op = "idle"
  /\ key = None
  /\ value = None
  /\ answer = None
  /\ i = 0
  /\ curr = 0
  /\ next = 0
  /\ removed = None

\* A call begins at the slot its key hashes to; only an insertion has a value.
Call(o, k, v) ==
  /\ op = "idle"
  /\ o = "insert" <=> v # None
  /\ op' = o
  /\ key' = k
  /\ value' = v
  /\ i' = hash[k]
  /\ UNCHANGED <<table, answer, curr, next, removed>>

Answer(a) ==
  /\ op' = "done"
  /\ answer' = a
  /\ i' = 0
  /\ UNCHANGED <<hash, key, value>>

Refused == op = "insert" /\ count >= LoadLimit

Probing == op \in Operations /\ ~Refused

Vacant == entries[i] = None
Hit == entries[i] # None /\ entries[i].key = key

Probe ==
  /\ Probing
  /\ ~Vacant /\ ~Hit
  /\ i' = Following(i)
  /\ UNCHANGED <<table, call, curr, next, removed>>

InsertRefused ==
  /\ Refused
  /\ Answer("EngineFull")
  /\ UNCHANGED <<entries, count, curr, next, removed>>

\* The first vacant slot, or the one that has the key already.
InsertHere ==
  /\ op = "insert" /\ Probing
  /\ Vacant \/ Hit
  /\ entries' = [entries EXCEPT ![i] = [key |-> key, value |-> value]]
  /\ count' = IF Vacant THEN count + 1 ELSE count
  /\ Answer("Ok")
  /\ UNCHANGED <<curr, next, removed>>

LookupEnds ==
  /\ op = "lookup"
  /\ Vacant \/ Hit
  /\ Answer(IF Hit THEN entries[i].value ELSE None)
  /\ UNCHANGED <<entries, count, curr, next, removed>>

RemoveMisses ==
  /\ op = "remove"
  /\ Vacant
  /\ Answer(None)
  /\ UNCHANGED <<entries, count, curr, next, removed>>

\* The entry is found; the gap it will leave is to be filled from behind.
RemoveFound ==
  /\ op = "remove"
  /\ Hit
  /\ op' = "shift"
  /\ removed' = entries[i].value
  /\ count' = count - 1
  /\ curr' = i
  /\ next' = Following(i)
  /\ UNCHANGED <<hash, entries, key, value, answer, i>>

\* Mutant of CanShift: the end of the table is not treated apart.
CanShiftNoWrap ==
  LET ideal == hash[entries[next].key]
  IN  ideal <= curr \/ ideal > next

\* The entry at next may fill the gap at curr: its own slot is not in between.
CanShift ==
  LET ideal == hash[entries[next].key]
  IN  IF curr < next THEN ideal <= curr \/ ideal > next
                     ELSE ideal <= curr /\ ideal > next

Shift ==
  /\ op = "shift"
  /\ entries[next] # None
  /\ CanShift
  /\ entries' = [entries EXCEPT ![curr] = entries[next]]
  /\ curr' = next
  /\ next' = Following(next)
  /\ UNCHANGED <<hash, count, call, i, removed>>

\* Mutant of LeaveInPlace: the first entry that may not move ends the loop.
LeaveInPlaceStops ==
  /\ op = "shift"
  /\ entries[next] # None
  /\ ~CanShift
  /\ entries' = [entries EXCEPT ![curr] = None]
  /\ Answer(removed)
  /\ removed' = None
  /\ UNCHANGED <<count, curr, next>>

LeaveInPlace ==
  /\ op = "shift"
  /\ entries[next] # None
  /\ ~CanShift
  /\ next' = Following(next)
  /\ UNCHANGED <<table, call, i, curr, removed>>

\* The end of the probe chain: the last gap becomes vacant.
ShiftEnds ==
  /\ op = "shift"
  /\ entries[next] = None
  /\ entries' = [entries EXCEPT ![curr] = None]
  /\ Answer(removed)
  /\ removed' = None
  /\ curr' = 0
  /\ next' = 0
  /\ UNCHANGED count

Return ==
  /\ op = "done"
  /\ op' = "idle"
  /\ key' = None
  /\ value' = None
  /\ answer' = None
  /\ UNCHANGED <<table, cursors>>

\* What remains of a call once it has begun.
Work ==
  \/ Probe
  \/ InsertRefused \/ InsertHere
  \/ LookupEnds
  \/ RemoveMisses \/ RemoveFound
  \/ Shift \/ LeaveInPlace \/ ShiftEnds
  \/ Return

Next ==
  \/ \E o \in Operations, k \in Keys, v \in Values \cup {None} : Call(o, k, v)
  \/ Work

Spec == Init /\ [][Next]_vars

\* The table is used on the engine thread, which nothing preempts for ever.
FairSpec == Spec /\ WF_vars(Work)

-----------------------------------------------------------------------------
Occupied == {s \in Slots : entries[s] # None}

\* The slots a probe for k meets before it reaches s.
ChainTo(k, s) ==
  IF hash[k] <= s THEN hash[k]..s - 1 ELSE (hash[k]..CAPACITY - 1) \cup (0..s - 1)

\* Probe chain continuity (book.rs:356): between calls every entry can be
\* reached from the slot its key hashes to without meeting a vacant slot, and
\* no key has two entries.  Backward-shift deletion has to move exactly the
\* entries that would be cut off, across the end of the table too.
ProbeChains ==
  op # "shift" =>
    \A s \in Occupied :
      /\ ChainTo(entries[s].key, s) \subseteq Occupied
      /\ \A r \in Occupied : entries[r].key = entries[s].key => r = s

\* The count, which the load limit is compared with, is that of the entries,
\* though it is kept by three operations and an insertion may overwrite.
CountExact == op # "shift" => count = Cardinality(Occupied)

\* What every operation relies on and leaves behind: slots stay in the table,
\* chains have no gap, the count is that of the entries (insert and remove).
TableExact == TypeOK /\ ProbeChains /\ CountExact

\* A call returns: there is always a vacant slot to end its probing at, which
\* only the load limit of insert guarantees.
CallReturns == op # "idle" ~> op = "idle"

\* The value stored for a key; while an entry is being removed the table may
\* still hold it, and copies of others.
Stored(k) ==
  IF op = "shift" /\ k = key THEN removed
  ELSE IF \E s \in Occupied : entries[s].key = k
       THEN entries[CHOOSE s \in Occupied : entries[s].key = k].value
       ELSE None

\* The table is a map with a bound on its size: lookups find what was last
\* inserted and not removed since, whatever the hash function.
Map ==
  INSTANCE IndexMap WITH
    contents <- [k \in Keys |-> Stored(k)],
    op <- IF op = "shift" THEN "remove" ELSE op,
    MaxEntries <- LoadLimit

RefinesIndexMap == Map!Spec
=============================================================================
