-------------------------- MODULE HashIndexProofs --------------------------
(***************************************************************************)
(* Theorems about HashIndex, for every capacity, every set of keys and     *)
(* every hash function: backward-shift deletion keeps the probe chains,    *)
(* across the end of the table too.                                        *)
(***************************************************************************)
EXTENDS HashIndex, FiniteSetTheorems, TLAPS

USE HashIndexAssumption

\* How many turns of a probing loop lead from slot a to slot b.
Ahead(a, b) == IF a <= b THEN b - a ELSE b - a + CAPACITY

Home(s) == hash[entries[s].key]

\* The slot a removal has yet to fill; what is in it does not count.
Gap == IF op = "shift" THEN {curr} ELSE {}

Filled == Occupied \ Gap

\* The gap still counts as a slot to pass over.
Reachable ==
  \A s \in Filled, r \in Slots :
    Ahead(Home(s), r) < Ahead(Home(s), s) => r \in Occupied

KeysOnce == \A r, s \in Filled : entries[r].key = entries[s].key => r = s

\* A probe has passed over entries of other keys only.
Probed ==
  op \in Operations =>
    \A r \in Slots :
      Ahead(hash[key], r) < Ahead(hash[key], i) => r \in Occupied /\ entries[r].key # key

\* The entries between the gap and the cursor do not need the gap.
Scanned ==
  op = "shift" =>
    /\ curr \in Occupied
    /\ curr # next
    /\ \A s \in Slots \ {curr} :
         Ahead(curr, s) < Ahead(curr, next) =>
           s \in Occupied /\ Ahead(Home(s), s) <= Ahead(Home(s), curr)

Arguments ==
  /\ op \in Operations \cup {"shift"} => key \in Keys
  /\ op = "insert" => value \in Values
  /\ op = "shift" => removed \in Values

Counted ==
  /\ count = Cardinality(Filled)
  /\ count + (IF op = "shift" THEN 1 ELSE 0) <= LoadLimit

\* The inductive invariant.
HInv ==
  /\ TypeOK
  /\ Reachable
  /\ KeysOnce
  /\ Probed
  /\ Scanned
  /\ Arguments
  /\ Counted

-----------------------------------------------------------------------------
LEMMA LimitIsBelowCapacity == LoadLimit \in Nat /\ LoadLimit < CAPACITY
  BY DEF LoadLimit

LEMMA NextSlot ==
  ASSUME NEW s \in Slots
  PROVE  /\ Following(s) \in Slots
         /\ Following(s) = IF s = CAPACITY - 1 THEN 0 ELSE s + 1
  BY DEF Following, Slots

\* A step to the next slot comes one closer to every slot but the first.
LEMMA StepAhead ==
  ASSUME NEW a \in Slots, NEW s \in Slots
  PROVE  /\ Ahead(a, s) \in 0..CAPACITY - 1
         /\ Following(s) # a => Ahead(a, Following(s)) = Ahead(a, s) + 1
         /\ Following(s) = a => Ahead(a, s) = CAPACITY - 1 /\ Ahead(a, Following(s)) = 0
  BY NextSlot DEF Ahead, Slots

LEMMA SameAhead ==
  ASSUME NEW a \in Slots, NEW r \in Slots, NEW s \in Slots, Ahead(a, r) = Ahead(a, s)
  PROVE  r = s
  BY DEF Ahead, Slots

LEMMA ChainIsAhead ==
  ASSUME TypeOK, NEW k \in Keys, NEW s \in Slots
  PROVE  ChainTo(k, s) = {r \in Slots : Ahead(hash[k], r) < Ahead(hash[k], s)}
  <1>1. hash[k] \in Slots
    BY DEF TypeOK
  <1> QED
    BY <1>1 DEF ChainTo, Ahead, Slots

LEMMA IntervalSize ==
  ASSUME NEW n \in Nat
  PROVE  IsFiniteSet(0..n) /\ Cardinality(0..n) = n + 1
  <1>1. 0 \in Int /\ n \in Int
    OBVIOUS
  <1>2. /\ IsFiniteSet(0..n)
        /\ Cardinality(0..n) = IF 0 > n THEN 0 ELSE n - 0 + 1
    BY <1>1, FS_Interval, Zenon
  <1> QED
    BY <1>2

LEMMA OccupiedFinite ==
  /\ IsFiniteSet(Slots) /\ Cardinality(Slots) = CAPACITY
  /\ IsFiniteSet(Occupied) /\ IsFiniteSet(Filled)
  <1>1. IsFiniteSet(Slots) /\ Cardinality(Slots) = CAPACITY
    <2>1. CAPACITY - 1 \in Nat
      OBVIOUS
    <2> QED
      BY <2>1, IntervalSize DEF Slots
  <1>2. Occupied \in SUBSET Slots /\ Filled \in SUBSET Slots
    BY DEF Occupied, Filled
  <1> QED
    BY <1>1, <1>2, FS_Subset

\* Only the load limit sees to it that probing ends.
LEMMA SlotIsVacant ==
  ASSUME HInv
  PROVE  Occupied # Slots
  <1>1. Cardinality(Occupied) = count + (IF op = "shift" THEN 1 ELSE 0)
    <2>1. CASE op = "shift"
      BY <2>1, OccupiedFinite, FS_RemoveElement, FS_CardinalityType
         DEF HInv, Counted, Filled, Gap, Scanned
    <2>2. CASE op # "shift"
      BY <2>2 DEF HInv, Counted, Filled, Gap, TypeOK
    <2> QED
      BY <2>1, <2>2
  <1> QED
    BY <1>1, OccupiedFinite, LimitIsBelowCapacity DEF HInv, Counted

LEMMA EntryIsTyped ==
  ASSUME TypeOK, NEW s \in Occupied
  PROVE  s \in Slots /\ entries[s] \in Entry /\ entries[s].key \in Keys
         /\ entries[s].value \in Values /\ Home(s) \in Slots
  BY DEF TypeOK, Occupied, Entry, Home

-----------------------------------------------------------------------------
(* Each step keeps the invariant. *)

LEMMA InitHolds == Init => HInv
  <1> SUFFICES ASSUME Init PROVE HInv
    OBVIOUS
  <1>1. Occupied = {} /\ Filled = {}
    BY DEF Init, Occupied, Filled
  <1>2. TypeOK
    BY DEF Init, TypeOK, Slots
  <1>3. Counted
    BY <1>1, FS_EmptySet, LimitIsBelowCapacity DEF Init, Counted
  <1> QED
    BY <1>1, <1>2, <1>3
       DEF Init, HInv, Reachable, KeysOnce, Probed, Scanned, Arguments, Operations

\* Steps that leave the table alone.
LEMMA TableIsLeft ==
  ASSUME HInv, UNCHANGED table, op # "shift", op' # "shift", TypeOK', Probed', Arguments'
  PROVE  HInv'
  <1>1. Occupied' = Occupied /\ Filled' = Filled /\ Filled = Occupied
    BY DEF table, Occupied, Filled, Gap
  <1>2. \A s : Home(s)' = Home(s)
    BY DEF table, Home
  <1>3. Reachable' /\ KeysOnce' /\ Counted' /\ Scanned'
    BY <1>1, <1>2 DEF HInv, Reachable, KeysOnce, Counted, Scanned, table
  <1> QED
    BY <1>3 DEF HInv

LEMMA CallHolds ==
  ASSUME HInv, NEW o \in Operations, NEW k \in Keys, NEW v \in Values \cup {None}, Call(o, k, v)
  PROVE  HInv'
  <1>1. hash[k] \in Slots
    BY DEF HInv, TypeOK
  <1>2. TypeOK'
    BY <1>1 DEF HInv, TypeOK, Call, table
  <1>3. Probed'
    <2>1. /\ op' = o /\ key' = k /\ i' = hash[k]
          /\ hash' = hash /\ entries' = entries
      BY DEF Call, table
    <2>2. \A r \in Slots : ~(Ahead(hash[k], r) < Ahead(hash[k], hash[k]))
      BY <1>1 DEF Ahead, Slots
    <2> QED
      BY <2>1, <2>2 DEF Probed
  <1>4. Arguments' /\ op # "shift" /\ op' # "shift"
    BY DEF Call, Arguments, Operations
  <1> QED
    BY <1>2, <1>3, <1>4, TableIsLeft DEF Call

LEMMA ProbeHolds ==
  ASSUME HInv, Probe
  PROVE  HInv'
  <1>1. /\ i \in Slots /\ key \in Keys /\ hash[key] \in Slots /\ op \in Operations
        /\ i' = Following(i) /\ i' \in Slots
    BY NextSlot DEF HInv, TypeOK, Arguments, Probe, Probing
  <1>2. TypeOK' /\ Arguments' /\ op # "shift" /\ op' # "shift"
    BY <1>1 DEF HInv, TypeOK, Arguments, Probe, table, call, Operations
  <1>3. i \in Occupied /\ entries[i].key # key
    BY <1>1 DEF Probe, Vacant, Hit, Occupied
  <1>4. ASSUME NEW r \in Slots, Ahead(hash[key], r) < Ahead(hash[key], i')
        PROVE  r \in Occupied /\ entries[r].key # key
    <2>1. Ahead(hash[key], r) <= Ahead(hash[key], i)
      BY <1>1, <1>4, StepAhead
    <2>2. Ahead(hash[key], r) < Ahead(hash[key], i) \/ r = i
      BY <1>1, <2>1, StepAhead, SameAhead
    <2> QED
      BY <1>1, <1>3, <2>2 DEF HInv, Probed
  <1>5. Probed'
    BY <1>1, <1>4 DEF Probed, Probe, table, call, Occupied
  <1> QED
    BY <1>2, <1>5, TableIsLeft DEF Probe

LEMMA AnswerHolds ==
  ASSUME HInv, InsertRefused \/ LookupEnds \/ RemoveMisses \/ Return
  PROVE  HInv'
  <1>1. op # "shift" /\ op' # "shift" /\ op' \notin Operations
    BY DEF InsertRefused, LookupEnds, RemoveMisses, Return, Answer, Refused, Operations
  <1>2. Probed' /\ Arguments'
    BY <1>1 DEF Probed, Arguments, Operations
  <1>3. 0 \in Slots
    BY DEF Slots
  <1>4. TypeOK'
    <2>1. CASE LookupEnds
      <3>1. i \in Slots
        BY DEF HInv, TypeOK
      <3>2. Hit => entries[i].value \in Values
        BY <3>1, EntryIsTyped DEF HInv, Hit, Occupied
      <3> QED
        BY <1>3, <2>1, <3>2 DEF LookupEnds, Answer, HInv, TypeOK
    <2>2. CASE InsertRefused \/ RemoveMisses \/ Return
      BY <1>3, <2>2 DEF InsertRefused, RemoveMisses, Return, Answer, HInv, TypeOK, table, cursors
    <2> QED
      BY <2>1, <2>2
  <1> QED
    BY <1>1, <1>2, <1>4, TableIsLeft
       DEF InsertRefused, LookupEnds, RemoveMisses, Return, Answer, table

LEMMA InsertHolds ==
  ASSUME HInv, InsertHere
  PROVE  HInv'
  <1>1. /\ i \in Slots /\ key \in Keys /\ value \in Values /\ hash[key] \in Slots
        /\ op \in Operations /\ op = "insert" /\ op' = "done" /\ count < LoadLimit
        /\ Filled = Occupied /\ count = Cardinality(Occupied) /\ count \in Nat
    BY LimitIsBelowCapacity DEF HInv, TypeOK, Arguments, Counted, InsertHere, Probing, Refused, Operations, Answer,
       Filled, Gap
  <1>2. /\ hash' = hash
        /\ entries' = [entries EXCEPT ![i] = [key |-> key, value |-> value]]
        /\ [key |-> key, value |-> value] \in Entry
    BY <1>1 DEF InsertHere, Answer, Entry
  <1>3. None \notin Entry /\ entries \in [Slots -> Entry \cup {None}]
    BY DEF HInv, TypeOK, Entry
  <1>4. /\ Occupied' = Occupied \cup {i} /\ Filled' = Occupied'
        /\ \A s \in Slots : s # i => entries'[s] = entries[s]
        /\ entries'[i].key = key
    BY <1>1, <1>2, <1>3 DEF Occupied, Filled, Gap
  <1>5. Occupied \in SUBSET Slots
    BY DEF Occupied
  \* Its key is in no other slot, and the way to its slot is taken.
  <1>6. \A r \in Slots : Ahead(hash[key], r) < Ahead(hash[key], i) => r \in Occupied
    BY <1>1 DEF HInv, Probed
  <1>7. \A s \in Occupied : entries[s].key = key => s = i
    <2> SUFFICES ASSUME NEW s \in Occupied, entries[s].key = key, s # i PROVE FALSE
      OBVIOUS
    <2>1. ~(Ahead(hash[key], s) < Ahead(hash[key], i))
      BY <1>1, <1>5 DEF HInv, Probed
    <2>2. Ahead(hash[key], i) < Ahead(hash[key], s)
      BY <1>1, <1>5, <2>1, SameAhead, StepAhead
    <2>3. i \in Occupied
      BY <1>1, <2>2 DEF HInv, Reachable, Home
    <2>4. entries[i].key = key
      BY <1>1, <2>3 DEF InsertHere, Vacant, Hit, Occupied
    <2> QED
      BY <1>1, <2>3, <2>4 DEF HInv, KeysOnce
  <1>8. Reachable'
    <2> SUFFICES ASSUME NEW s \in Occupied', NEW r \in Slots,
                        Ahead(hash[entries'[s].key], r) < Ahead(hash[entries'[s].key], s)
                 PROVE  r \in Occupied'
      BY <1>2, <1>4 DEF Reachable, Home
    <2>1. CASE s = i
      BY <1>4, <1>6, <2>1
    <2>2. CASE s # i
      BY <1>1, <1>4, <1>5, <2>2 DEF HInv, Reachable, Home
    <2> QED
      BY <2>1, <2>2
  <1>9. KeysOnce'
    BY <1>1, <1>4, <1>5, <1>7 DEF HInv, KeysOnce
  <1>10. Counted' /\ count' \in 0..CAPACITY
    <2>1. Vacant <=> i \notin Occupied
      BY <1>1 DEF Vacant, Occupied
    <2>2. Cardinality(Occupied') = IF Vacant THEN count + 1 ELSE count
      BY <1>1, <1>4, <2>1, OccupiedFinite, FS_AddElement
    <2>3. count' = Cardinality(Occupied')
      BY <2>2 DEF InsertHere
    <2>4. count' <= LoadLimit /\ count' \in Nat
      BY <1>1, <2>2, <2>3, LimitIsBelowCapacity
    <2> QED
      BY <1>1, <1>4, <2>3, <2>4, LimitIsBelowCapacity DEF Counted
  <1>11. TypeOK'
    BY <1>1, <1>2, <1>3, <1>10 DEF HInv, TypeOK, InsertHere, Answer, Slots
  <1> QED
    BY <1>1, <1>8, <1>9, <1>10, <1>11 DEF HInv, Probed, Scanned, Arguments, Operations

LEMMA RemoveFoundHolds ==
  ASSUME HInv, RemoveFound
  PROVE  HInv'
  <1>1. /\ i \in Slots /\ key \in Keys /\ op = "remove" /\ op' = "shift"
        /\ i \in Occupied /\ entries[i].value \in Values
        /\ curr' = i /\ next' = Following(i) /\ next' \in Slots
        /\ Filled = Occupied /\ count \in Nat /\ hash' = hash /\ entries' = entries
    <2>1. i \in Slots /\ i \in Occupied
      BY DEF HInv, TypeOK, RemoveFound, Hit, Occupied
    <2> QED
      BY <2>1, NextSlot, EntryIsTyped
         DEF HInv, TypeOK, Arguments, RemoveFound, Filled, Gap, Operations
  <1>2. Occupied' = Occupied /\ Filled' = Occupied \ {i}
    BY <1>1 DEF Occupied, Filled, Gap
  <1>3. \A s : Home(s)' = Home(s)
    BY <1>1 DEF Home
  <1>4. Reachable' /\ KeysOnce'
    BY <1>1, <1>2, <1>3 DEF HInv, Reachable, KeysOnce
  <1>5. Counted' /\ count' \in 0..CAPACITY
    <2>1. /\ Cardinality(Occupied \ {i}) = Cardinality(Occupied) - 1
          /\ Cardinality(Occupied \ {i}) \in Nat
      BY <1>1, OccupiedFinite, FS_RemoveElement, FS_CardinalityType
    <2>2. count = Cardinality(Occupied) /\ count <= LoadLimit
      BY <1>1 DEF HInv, Counted
    <2>3. count' = count - 1
      BY DEF RemoveFound
    <2> QED
      BY <1>1, <1>2, <2>1, <2>2, <2>3, LimitIsBelowCapacity DEF Counted
  \* Nothing has been scanned yet.
  <1>6. Scanned'
    <2>1. PICK v \in Slots : v \notin Occupied
      BY SlotIsVacant DEF Occupied
    <2>2. next' # i
      BY <1>1, <2>1, NextSlot DEF Slots
    <2>3. Ahead(i, next') = 1
      <3>1. Ahead(i, i) = 0
        BY <1>1 DEF Ahead, Slots
      <3> QED
        BY <1>1, <2>2, <3>1, StepAhead
    <2>4. \A s \in Slots \ {i} : Ahead(i, s) >= 1
      BY <1>1 DEF Ahead, Slots
    <2> QED
      BY <1>1, <1>2, <2>2, <2>3, <2>4, StepAhead DEF Scanned
  <1>7. TypeOK' /\ Arguments'
    BY <1>1, <1>5 DEF HInv, TypeOK, Arguments, RemoveFound, Operations
  <1> QED
    BY <1>1, <1>4, <1>5, <1>6, <1>7 DEF HInv, Probed, Operations

\* What a turn of the shifting loop works on.
LEMMA Shifting ==
  ASSUME HInv, op = "shift"
  PROVE  /\ curr \in Slots /\ next \in Slots /\ curr # next /\ curr \in Occupied
         /\ Filled = Occupied \ {curr}
         /\ next \in Occupied =>
              /\ entries[next] \in Entry /\ Home(next) \in Slots
              /\ next \in Filled
              /\ Following(next) \in Slots
              /\ Following(next) # curr
  <1>1. /\ curr \in Slots /\ next \in Slots /\ curr # next /\ curr \in Occupied
        /\ Filled = Occupied \ {curr}
    BY DEF HInv, TypeOK, Scanned, Filled, Gap
  <1>2. ASSUME next \in Occupied, Following(next) = curr
        PROVE  FALSE
    <2>1. Ahead(curr, next) = CAPACITY - 1
      BY <1>1, <1>2, StepAhead
    <2>2. \A s \in Slots : s \in Occupied
      BY <1>1, <1>2, <2>1, StepAhead, SameAhead DEF HInv, Scanned
    <2> QED
      BY <2>2, SlotIsVacant DEF Occupied
  <1> QED
    BY <1>1, <1>2, EntryIsTyped, NextSlot DEF HInv

\* The test made, in terms of distances.
LEMMA CanShiftMeans ==
  ASSUME HInv, op = "shift", next \in Occupied
  PROVE  CanShift <=> Ahead(Home(next), curr) < Ahead(Home(next), next)
  <1>1. curr \in Slots /\ next \in Slots /\ curr # next /\ Home(next) \in Slots
    BY Shifting
  <1> QED
    BY <1>1 DEF CanShift, Home, Ahead, Slots

LEMMA ShiftHolds ==
  ASSUME HInv, Shift
  PROVE  HInv'
  <1>1. /\ curr \in Slots /\ next \in Slots /\ curr # next /\ curr \in Occupied
        /\ next \in Occupied /\ next \in Filled /\ Filled = Occupied \ {curr}
        /\ entries[next] \in Entry /\ Home(next) \in Slots
        /\ Following(next) \in Slots /\ Following(next) # next
        /\ Ahead(Home(next), curr) < Ahead(Home(next), next)
    <2>1. op = "shift" /\ next \in Slots /\ next \in Occupied
      BY DEF Shift, HInv, TypeOK, Occupied
    <2>2. Following(next) # next
      BY <2>1, Shifting, NextSlot DEF Slots
    <2> QED
      BY <2>1, <2>2, Shifting, CanShiftMeans DEF Shift
  <1>2. /\ op = "shift" /\ op' = "shift" /\ hash' = hash /\ count' = count
        /\ curr' = next /\ next' = Following(next)
        /\ entries \in [Slots -> Entry \cup {None}] /\ None \notin Entry
        /\ entries' = [entries EXCEPT ![curr] = entries[next]]
    BY DEF Shift, call, HInv, TypeOK, Entry
  <1>3. /\ Occupied' = Occupied /\ Filled' = (Filled \ {next}) \cup {curr}
        /\ entries'[curr] = entries[next]
        /\ \A s \in Slots : s # curr => entries'[s] = entries[s]
    BY <1>1, <1>2 DEF Occupied, Filled, Gap
  <1>4. Occupied \in SUBSET Slots
    BY DEF Occupied
  \* The way to the gap is the beginning of the way to where it was.
  <1>5. Reachable'
    <2> SUFFICES ASSUME NEW s \in Filled', NEW r \in Slots,
                        Ahead(hash[entries'[s].key], r) < Ahead(hash[entries'[s].key], s)
                 PROVE  r \in Occupied
      BY <1>2, <1>3 DEF Reachable, Home
    <2>1. CASE s = curr
      <3>1. Ahead(Home(next), r) < Ahead(Home(next), next)
        BY <1>1, <1>3, <2>1, StepAhead DEF Home
      <3> QED
        BY <1>1, <3>1 DEF HInv, Reachable
    <2>2. CASE s # curr
      BY <1>1, <1>3, <1>4, <2>2 DEF HInv, Reachable, Home
    <2> QED
      BY <2>1, <2>2
  <1>6. KeysOnce'
    BY <1>1, <1>3, <1>4 DEF HInv, KeysOnce
  <1>7. Counted'
    <2>1. Cardinality(Filled \ {next}) = Cardinality(Filled) - 1
      BY <1>1, OccupiedFinite, FS_RemoveElement
    <2>2. /\ IsFiniteSet(Filled \ {next}) /\ curr \notin Filled \ {next}
          /\ Cardinality(Filled) \in Nat
      BY <1>1, OccupiedFinite, FS_RemoveElement, FS_CardinalityType
    <2>3. Cardinality((Filled \ {next}) \cup {curr}) = Cardinality(Filled \ {next}) + 1
      BY <2>2, FS_AddElement
    <2> QED
      BY <1>2, <1>3, <2>1, <2>2, <2>3 DEF HInv, Counted
  <1>8. Scanned'
    <2>1. Ahead(next, Following(next)) = 1
      BY <1>1, NextSlot DEF Ahead, Slots
    <2>2. \A s \in Slots \ {next} : Ahead(next, s) >= 1
      BY <1>1 DEF Ahead, Slots
    <2> QED
      BY <1>1, <1>2, <1>3, <2>1, <2>2, StepAhead DEF Scanned
  <1>9. TypeOK' /\ Arguments'
    BY <1>1, <1>2 DEF HInv, TypeOK, Arguments, Shift, call
  <1> QED
    BY <1>2, <1>5, <1>6, <1>7, <1>8, <1>9 DEF HInv, Probed, Operations

LEMMA LeaveInPlaceHolds ==
  ASSUME HInv, LeaveInPlace
  PROVE  HInv'
  <1>1. /\ op = "shift" /\ curr \in Slots /\ next \in Slots /\ curr # next
        /\ curr \in Occupied /\ next \in Occupied /\ Home(next) \in Slots
        /\ Following(next) \in Slots /\ Following(next) # curr
        /\ Ahead(Home(next), next) <= Ahead(Home(next), curr)
    <2>1. op = "shift" /\ next \in Slots /\ next \in Occupied
      BY DEF LeaveInPlace, HInv, TypeOK, Occupied
    <2>2. ~(Ahead(Home(next), curr) < Ahead(Home(next), next))
      BY <2>1, CanShiftMeans DEF LeaveInPlace
    <2> QED
      BY <2>1, <2>2, Shifting, StepAhead
  <1>2. /\ op' = op /\ key' = key /\ value' = value /\ answer' = answer /\ i' = i
        /\ hash' = hash /\ entries' = entries /\ count' = count
        /\ curr' = curr /\ removed' = removed /\ next' = Following(next)
    BY DEF LeaveInPlace, table, call
  <1>3. Occupied' = Occupied /\ Filled' = Filled /\ \A s : Home(s)' = Home(s)
    BY <1>2 DEF Occupied, Filled, Gap, Home
  <1>4. Reachable' /\ KeysOnce' /\ Counted'
    BY <1>2, <1>3 DEF HInv, Reachable, KeysOnce, Counted
  <1>5. Scanned'
    <2>1. Ahead(curr, Following(next)) = Ahead(curr, next) + 1
      BY <1>1, StepAhead
    <2>2. ASSUME NEW s \in Slots \ {curr}, Ahead(curr, s) < Ahead(curr, next) + 1
          PROVE  s \in Occupied /\ Ahead(Home(s), s) <= Ahead(Home(s), curr)
      <3>1. Ahead(curr, s) < Ahead(curr, next) \/ s = next
        BY <1>1, <2>2, StepAhead, SameAhead
      <3> QED
        BY <1>1, <3>1 DEF HInv, Scanned
    <2> QED
      BY <1>1, <1>2, <1>3, <2>1, <2>2 DEF Scanned
  <1>6. TypeOK' /\ Arguments'
    BY <1>1, <1>2 DEF HInv, TypeOK, Arguments
  <1> QED
    BY <1>1, <1>2, <1>4, <1>5, <1>6 DEF HInv, Probed, Operations

\* An entry the vacant slot cuts off from the gap does not need it.
LEMMA ShiftEndsHolds ==
  ASSUME HInv, ShiftEnds
  PROVE  HInv'
  <1>1. /\ op = "shift" /\ curr \in Slots /\ next \in Slots /\ curr # next
        /\ curr \in Occupied /\ next \notin Occupied /\ Filled = Occupied \ {curr}
    <2>1. op = "shift" /\ next \notin Occupied
      BY DEF ShiftEnds, Occupied
    <2> QED
      BY <2>1, Shifting
  <1>2. /\ op' = "done" /\ hash' = hash /\ count' = count
        /\ entries' = [entries EXCEPT ![curr] = None]
        /\ entries \in [Slots -> Entry \cup {None}]
    BY DEF ShiftEnds, Answer, HInv, TypeOK
  <1>3. /\ Occupied' = Filled /\ Filled' = Filled
        /\ \A s \in Filled : entries'[s] = entries[s]
    BY <1>1, <1>2 DEF Occupied, Filled, Gap
  <1>4. Filled \in SUBSET Slots /\ Filled \in SUBSET Occupied
    BY <1>1 DEF Occupied
  <1>5. Reachable'
    <2> SUFFICES ASSUME NEW s \in Filled, NEW r \in Slots,
                        Ahead(Home(s), r) < Ahead(Home(s), s)
                 PROVE  r \in Filled
      BY <1>2, <1>3 DEF Reachable, Home
    <2>1. r \in Occupied
      BY DEF HInv, Reachable
    <2>2. Home(s) \in Slots /\ s \in Slots
      BY <1>4, EntryIsTyped DEF HInv
    <2>3. ASSUME r = curr PROVE FALSE
      <3>1. ~(Ahead(Home(s), next) < Ahead(Home(s), s))
        BY <1>1 DEF HInv, Reachable
      <3>2. s # next /\ s # curr
        BY <1>1, <1>4
      <3>3. Ahead(curr, s) < Ahead(curr, next)
        BY <1>1, <2>2, <2>3, <3>1, <3>2 DEF Ahead, Slots
      <3>4. Ahead(Home(s), s) <= Ahead(Home(s), curr)
        BY <1>1, <2>2, <3>2, <3>3 DEF HInv, Scanned
      <3> QED
        BY <1>1, <2>2, <2>3, <3>4, StepAhead
    <2> QED
      BY <1>1, <2>1, <2>3
  <1>6. KeysOnce'
    BY <1>3 DEF HInv, KeysOnce
  <1>7. Counted'
    BY <1>1, <1>2, <1>3, LimitIsBelowCapacity DEF HInv, Counted, TypeOK
  <1>8. TypeOK'
    BY <1>1, <1>2 DEF HInv, TypeOK, Arguments, ShiftEnds, Answer, Slots
  <1> QED
    BY <1>2, <1>5, <1>6, <1>7, <1>8 DEF HInv, Probed, Scanned, Arguments, Operations

LEMMA HInvNext == HInv /\ [Next]_vars => HInv'
  <1> SUFFICES ASSUME HInv, [Next]_vars PROVE HInv'
    OBVIOUS
  <1>1. CASE UNCHANGED vars
    BY <1>1 DEF vars, table, call, cursors, HInv, TypeOK, Reachable, KeysOnce, Probed,
       Scanned, Arguments, Counted, Filled, Gap, Occupied, Home
  <1>2. CASE Next
    BY <1>2, CallHolds, ProbeHolds, AnswerHolds, InsertHolds, RemoveFoundHolds, ShiftHolds,
       LeaveInPlaceHolds, ShiftEndsHolds DEF Next, Work
  <1> QED
    BY <1>1, <1>2

LEMMA HashInvariant == Spec => []HInv
  BY InitHolds, HInvNext, PTL DEF Spec

\* Between calls every entry can be reached from the slot its key hashes to,
\* no key has two entries, and the count is exact: what insert, lookup and
\* remove rely on, and what backward-shift deletion (book.rs, remove) leaves
\* behind, for every capacity and every hash function.
THEOREM TableStaysExact == Spec => []TableExact
  <1>1. HInv => TableExact
    <2> SUFFICES ASSUME HInv PROVE TableExact
      OBVIOUS
    <2>1. ASSUME op # "shift", NEW s \in Occupied
          PROVE  ChainTo(entries[s].key, s) \subseteq Occupied
      <3>1. s \in Slots /\ entries[s].key \in Keys /\ s \in Filled
        BY <2>1, EntryIsTyped DEF HInv, Filled, Gap
      <3> QED
        BY <3>1, ChainIsAhead DEF HInv, Reachable, Home
    <2>2. ProbeChains
      BY <2>1 DEF ProbeChains, HInv, KeysOnce, Filled, Gap
    <2>3. CountExact
      BY DEF CountExact, HInv, Counted, Filled, Gap
    <2> QED
      BY <2>2, <2>3 DEF TableExact, HInv
  <1> QED
    BY <1>1, HashInvariant, PTL

-----------------------------------------------------------------------------
(* A table is an IndexMap. *)

\* What the gap still holds is what was removed, or a copy.
Stale ==
  op = "shift" =>
    \/ entries[curr].key = key
    \/ \E s \in Filled : entries[s] = entries[curr]

Gone == op = "shift" => \A s \in Filled : entries[s].key # key

RemovalInv == HInv /\ Stale /\ Gone

\* A removal has not happened yet for the key it is about.
Leaving(k) == op = "shift" /\ k = key

StoredMeaning ==
  \A k \in Keys :
    /\ Leaving(k) => Stored(k) = removed
    /\ ~Leaving(k) => \A s \in Filled : entries[s].key = k => Stored(k) = entries[s].value
    /\ ~Leaving(k) /\ (\A s \in Filled : entries[s].key # k) => Stored(k) = None

LEMMA RemovalInvNext == RemovalInv /\ [Next]_vars => RemovalInv'
  <1> SUFFICES ASSUME RemovalInv, [Next]_vars PROVE RemovalInv'
    OBVIOUS
  <1>1. HInv /\ HInv'
    BY HInvNext DEF RemovalInv
  <1>2. CASE UNCHANGED vars
    BY <1>1, <1>2 DEF RemovalInv, Stale, Gone, Filled, Gap, Occupied, vars, table, call, cursors
  <1>3. CASE op' # "shift"
    BY <1>1, <1>3 DEF RemovalInv, Stale, Gone
  <1>4. CASE RemoveFound
    <2>1. /\ i \in Filled /\ entries[i].key = key /\ key' = key /\ entries' = entries
          /\ curr' = i /\ Filled' = Filled \ {i}
      BY <1>1, <1>4 DEF RemoveFound, Hit, HInv, TypeOK, Occupied, Filled, Gap
    <2> QED
      BY <1>1, <2>1 DEF RemovalInv, Stale, Gone, HInv, KeysOnce
  <1>5. CASE Shift
    <2>1. /\ op = "shift" /\ curr \in Slots /\ next \in Filled /\ next # curr
          /\ Filled = Occupied \ {curr}
          /\ curr' = next /\ key' = key /\ entries \in [Slots -> Entry \cup {None}]
          /\ entries' = [entries EXCEPT ![curr] = entries[next]]
      <3>1. op = "shift" /\ next \in Slots /\ next \in Occupied
        BY <1>1, <1>5 DEF Shift, HInv, TypeOK, Occupied
      <3> QED
        BY <1>1, <1>5, <3>1, Shifting DEF Shift, call, HInv, TypeOK
    <2>2. entries[next] # None /\ op' = "shift"
      BY <1>5, <2>1 DEF Shift, call
    <2>3. Filled' = (Filled \ {next}) \cup {curr}
      BY <1>1, <2>1, <2>2, Shifting DEF Filled, Gap, Occupied
    <2>4. \A s \in Filled' : \E t \in Filled : entries'[s] = entries[t]
      BY <2>1, <2>3 DEF Filled, Occupied
    <2>5. entries'[curr] = entries'[next]
      BY <2>1 DEF Filled, Occupied
    <2> QED
      BY <1>1, <2>1, <2>3, <2>4, <2>5 DEF RemovalInv, Stale, Gone
  <1>6. CASE LeaveInPlace
    BY <1>1, <1>6 DEF LeaveInPlace, table, call, RemovalInv, Stale, Gone, Filled, Gap, Occupied
  <1> QED
    BY <1>2, <1>3, <1>4, <1>5, <1>6
       DEF Next, Work, Call, Operations, Probe, Probing, call, InsertRefused, InsertHere,
           LookupEnds, RemoveMisses, ShiftEnds, Return, Answer

LEMMA StoredMeans == RemovalInv => StoredMeaning
  <1> SUFFICES ASSUME RemovalInv, NEW k \in Keys
               PROVE  /\ Leaving(k) => Stored(k) = removed
                      /\ ~Leaving(k) =>
                           \A s \in Filled : entries[s].key = k => Stored(k) = entries[s].value
                      /\ ~Leaving(k) /\ (\A s \in Filled : entries[s].key # k) =>
                           Stored(k) = None
    BY DEF StoredMeaning
  <1> DEFINE Has(s) == entries[s].key = k
  <1>1. CASE Leaving(k)
    BY <1>1 DEF Leaving, Stored
  <1>2. CASE ~Leaving(k)
    <2>1. Stored(k) = IF \E s \in Occupied : Has(s)
                      THEN entries[CHOOSE s \in Occupied : Has(s)].value ELSE None
      BY <1>2 DEF Leaving, Stored
    <2>2. Filled \in SUBSET Occupied
      BY DEF Filled
    <2>3. \A s \in Occupied : Has(s) => \E t \in Filled : entries[t] = entries[s]
      BY <1>2 DEF RemovalInv, Stale, Leaving, Filled, Gap
    <2>4. ASSUME NEW s \in Filled, Has(s)
          PROVE  Stored(k) = entries[s].value
      <3>1. PICK u \in Occupied : Has(u) /\ Stored(k) = entries[u].value
        BY <2>1, <2>2, <2>4
      <3>2. PICK t \in Filled : entries[t] = entries[u]
        BY <2>3, <3>1
      <3>3. t = s
        BY <2>4, <3>1, <3>2 DEF RemovalInv, HInv, KeysOnce
      <3> QED
        BY <3>1, <3>2, <3>3
    <2>5. ASSUME \A s \in Filled : ~Has(s)
          PROVE  Stored(k) = None
      BY <2>1, <2>3, <2>5
    <2> QED
      BY <1>2, <2>4, <2>5
  <1> QED
    BY <1>1, <1>2

LEMMA StoredMeansNext == RemovalInv' => StoredMeaning'
  BY StoredMeans, PTL

\* What the filled slots hold decides what is stored.
LEMMA StoredStays ==
  ASSUME StoredMeaning, StoredMeaning', NEW k \in Keys, ~Leaving(k), ~Leaving(k)',
         \A s \in Filled : entries[s].key = k => \E t \in Filled' : entries'[t] = entries[s],
         (\A s \in Filled : entries[s].key # k) => \A t \in Filled' : entries'[t].key # k
  PROVE  Stored(k)' = Stored(k)
  <1>1. CASE \E s \in Filled : entries[s].key = k
    <2>1. PICK s \in Filled : entries[s].key = k
      BY <1>1
    <2>2. PICK t \in Filled' : entries'[t] = entries[s]
      BY <2>1
    <2> QED
      BY <2>1, <2>2 DEF StoredMeaning
  <1>2. CASE \A s \in Filled : entries[s].key # k
    BY <1>2 DEF StoredMeaning
  <1> QED
    BY <1>1, <1>2

\* The slot a probe ends at decides whether its key is in the table.
LEMMA VacantMeansAbsent ==
  ASSUME HInv, op \in Operations, Vacant
  PROVE  \A s \in Occupied : entries[s].key # key
  <1> SUFFICES ASSUME NEW s \in Occupied, entries[s].key = key PROVE FALSE
    OBVIOUS
  <1>1. /\ i \in Slots /\ i \notin Occupied /\ hash[key] \in Slots /\ s \in Slots
        /\ s \in Filled
    BY DEF HInv, TypeOK, Arguments, Vacant, Occupied, Filled, Gap, Operations
  <1>2. ~(Ahead(hash[key], s) < Ahead(hash[key], i))
    BY <1>1 DEF HInv, Probed
  <1>3. Ahead(hash[key], i) < Ahead(hash[key], s)
    BY <1>1, <1>2, SameAhead, StepAhead
  <1> QED
    BY <1>1, <1>3 DEF HInv, Reachable, Home

\* There are as many keys with a value as slots that are filled.
LEMMA CountIsKeys ==
  ASSUME RemovalInv, op # "shift"
  PROVE  Cardinality({k \in Keys : Stored(k) # None}) = count
  <1> DEFINE T == {k \in Keys : Stored(k) # None}
             f == [s \in Occupied |-> entries[s].key]
  <1>1. Filled = Occupied /\ StoredMeaning /\ HInv
    BY StoredMeans DEF Filled, Gap, RemovalInv
  <1>2. ASSUME NEW s \in Occupied
        PROVE  entries[s].key \in T
    <2>1. entries[s].key \in Keys /\ entries[s].value \in Values
      BY <1>1, EntryIsTyped DEF HInv
    <2>2. Stored(entries[s].key) = entries[s].value
      BY <1>1, <2>1 DEF StoredMeaning, Leaving
    <2> QED
      BY <2>1, <2>2
  <1>3. \A k \in T : \E s \in Occupied : entries[s].key = k
    BY <1>1 DEF StoredMeaning, Leaving
  <1>4. f \in Bijection(Occupied, T)
    <2>1. f \in [Occupied -> T]
      BY <1>2
    <2>2. IsInjective(f)
      BY <1>1 DEF IsInjective, HInv, KeysOnce
    <2>3. \A k \in T : \E s \in Occupied : f[s] = k
      BY <1>3
    <2> QED
      BY <2>1, <2>2, <2>3 DEF Bijection, Injection, Surjection
  <1>5. Cardinality(T) = Cardinality(Occupied)
    <2>1. ExistsBijection(Occupied, T)
      BY <1>4 DEF ExistsBijection
    <2> HIDE DEF T
    <2> QED
      BY <2>1, OccupiedFinite, FS_Bijection
  <1> QED
    BY <1>1, <1>5 DEF HInv, Counted

Contents == [k \in Keys |-> Stored(k)]

\* A step that leaves what is filled alone leaves the map alone.
LEMMA ContentsStay ==
  ASSUME RemovalInv, RemovalInv', UNCHANGED entries, op # "shift", op' # "shift"
  PROVE  Contents' = Contents
  <1>1. StoredMeaning /\ StoredMeaning'
    BY StoredMeans, StoredMeansNext
  <1>2. Filled' = Filled
    BY DEF Filled, Gap, Occupied
  <1>3. \A k \in Keys : Stored(k)' = Stored(k)
    BY <1>1, <1>2, StoredStays DEF Leaving
  <1> QED
    BY <1>3 DEF Contents

LEMMA InsertPuts ==
  ASSUME RemovalInv, RemovalInv', InsertHere
  PROVE  Contents' = [Contents EXCEPT ![key] = value]
  <1>1. /\ StoredMeaning /\ StoredMeaning' /\ HInv
        /\ i \in Slots /\ key \in Keys /\ value \in Values
        /\ op = "insert" /\ op \in Operations /\ op' = "done" /\ key' = key
        /\ entries \in [Slots -> Entry \cup {None}]
        /\ entries' = [entries EXCEPT ![i] = [key |-> key, value |-> value]]
        /\ [key |-> key, value |-> value] \in Entry
    BY StoredMeans, StoredMeansNext
       DEF RemovalInv, HInv, TypeOK, Arguments, InsertHere, Answer, Operations, Entry
  <1>2. /\ Filled = Occupied /\ Filled' = Occupied \cup {i}
        /\ \A s \in Slots : s # i => entries'[s] = entries[s]
        /\ entries'[i] = [key |-> key, value |-> value]
    BY <1>1 DEF Filled, Gap, Occupied, Entry
  <1>3. i \in Occupied => entries[i].key = key
    BY DEF InsertHere, Vacant, Hit, Occupied
  <1>4. Stored(key)' = value
    BY <1>1, <1>2 DEF StoredMeaning, Leaving
  <1>5. ASSUME NEW k \in Keys, k # key
        PROVE  Stored(k)' = Stored(k)
    <2>1. \A s \in Filled : entries[s].key = k => \E t \in Filled' : entries'[t] = entries[s]
      BY <1>1, <1>2, <1>3, <1>5 DEF Occupied
    <2>2. (\A s \in Filled : entries[s].key # k) => \A t \in Filled' : entries'[t].key # k
      BY <1>1, <1>2, <1>5 DEF Occupied
    <2> QED
      BY <1>1, <2>1, <2>2, StoredStays DEF Leaving
  <1> QED
    BY <1>1, <1>4, <1>5 DEF Contents

LEMMA LookupGets ==
  ASSUME RemovalInv, LookupEnds
  PROVE  answer' = Contents[key]
  <1>1. /\ StoredMeaning /\ HInv /\ key \in Keys /\ op = "lookup" /\ op \in Operations
        /\ Filled = Occupied /\ i \in Slots
        /\ answer' = IF Hit THEN entries[i].value ELSE None
    BY StoredMeans
       DEF RemovalInv, HInv, TypeOK, Arguments, LookupEnds, Answer, Operations, Filled, Gap
  <1>2. CASE Hit
    BY <1>1, <1>2 DEF Hit, StoredMeaning, Leaving, Contents, Occupied
  <1>3. CASE ~Hit
    <2>1. Vacant
      BY <1>3 DEF LookupEnds
    <2> QED
      BY <1>1, <1>3, <2>1, VacantMeansAbsent DEF StoredMeaning, Leaving, Contents
  <1> QED
    BY <1>2, <1>3

LEMMA MissDeletesNothing ==
  ASSUME RemovalInv, RemoveMisses
  PROVE  key \in Keys /\ Contents[key] = None
  <1>1. /\ StoredMeaning /\ HInv /\ key \in Keys /\ op = "remove" /\ op \in Operations
        /\ Filled = Occupied /\ Vacant
    BY StoredMeans
       DEF RemovalInv, HInv, TypeOK, Arguments, RemoveMisses, Operations, Filled, Gap
  <1> QED
    BY <1>1, VacantMeansAbsent DEF StoredMeaning, Leaving, Contents

\* Until the last gap is closed the map is what it was.
LEMMA RemovalKeepsContents ==
  ASSUME RemovalInv, RemovalInv', RemoveFound \/ Shift \/ LeaveInPlace
  PROVE  Contents' = Contents
  <1>1. /\ StoredMeaning /\ StoredMeaning' /\ HInv /\ key' = key /\ key \in Keys
        /\ op' = "shift"
    BY StoredMeans, StoredMeansNext
       DEF RemovalInv, HInv, Arguments, RemoveFound, Shift, LeaveInPlace, call, Operations
  <1>2. Stored(key)' = Stored(key)
    <2>1. CASE RemoveFound
      <3>1. /\ i \in Filled /\ entries[i].key = key /\ removed' = entries[i].value
            /\ op # "shift"
        BY <1>1, <2>1 DEF RemoveFound, Hit, HInv, TypeOK, Occupied, Filled, Gap
      <3> QED
        BY <1>1, <3>1 DEF StoredMeaning, Leaving
    <2>2. CASE Shift \/ LeaveInPlace
      BY <1>1, <2>2 DEF Shift, LeaveInPlace, call, StoredMeaning, Leaving
    <2> QED
      BY <2>1, <2>2
  <1>3. ASSUME NEW k \in Keys, k # key
        PROVE  Stored(k)' = Stored(k)
    <2>1. CASE RemoveFound
      <3>1. /\ i \in Slots /\ entries[i].key = key /\ entries' = entries
            /\ Filled' = Filled \ {i}
        BY <1>1, <2>1 DEF RemoveFound, Hit, HInv, TypeOK, Occupied, Filled, Gap
      <3>2. \A s \in Filled : entries[s].key = k => s \in Filled'
        BY <1>3, <3>1
      <3> QED
        BY <1>1, <1>3, <3>1, <3>2, StoredStays DEF Leaving
    <2>2. CASE LeaveInPlace
      <3>1. entries' = entries /\ Filled' = Filled
        BY <2>2 DEF LeaveInPlace, table, call, Filled, Gap, Occupied
      <3> QED
        BY <1>1, <1>3, <3>1, StoredStays DEF Leaving
    <2>3. CASE Shift
      <3>1. /\ op = "shift" /\ curr \in Slots /\ next \in Filled /\ next # curr
            /\ Filled = Occupied \ {curr} /\ entries[next] # None
            /\ curr' = next /\ entries \in [Slots -> Entry \cup {None}]
            /\ entries' = [entries EXCEPT ![curr] = entries[next]]
        <4>1. op = "shift" /\ next \in Slots /\ next \in Occupied
          BY <1>1, <2>3 DEF Shift, HInv, TypeOK, Occupied
        <4> QED
          BY <1>1, <2>3, <4>1, Shifting DEF Shift, HInv, TypeOK
      <3>2. Filled' = (Filled \ {next}) \cup {curr}
        BY <1>1, <3>1, Shifting DEF Filled, Gap, Occupied
      <3>3. \A s \in Filled : \E t \in Filled' : entries'[t] = entries[s]
        BY <3>1, <3>2 DEF Filled, Occupied
      <3>4. \A t \in Filled' : \E s \in Filled : entries'[t] = entries[s]
        BY <3>1, <3>2 DEF Filled, Occupied
      <3> QED
        BY <1>1, <1>3, <3>3, <3>4, StoredStays DEF Leaving
    <2> QED
      BY <2>1, <2>2, <2>3
  <1>4. \A k \in Keys : Stored(k)' = Stored(k)
    BY <1>1, <1>2, <1>3
  <1> QED
    BY <1>4 DEF Contents

LEMMA ShiftEndDeletes ==
  ASSUME RemovalInv, RemovalInv', ShiftEnds
  PROVE  /\ key \in Keys /\ answer' = Contents[key]
         /\ Contents' = [Contents EXCEPT ![key] = None]
  <1>1. /\ StoredMeaning /\ StoredMeaning' /\ HInv /\ key' = key /\ key \in Keys
        /\ op = "shift" /\ op' = "done" /\ answer' = removed
    BY StoredMeans, StoredMeansNext
       DEF RemovalInv, HInv, Arguments, ShiftEnds, Answer
  <1>2. /\ curr \in Slots /\ Filled = Occupied \ {curr}
        /\ entries \in [Slots -> Entry \cup {None}]
        /\ entries' = [entries EXCEPT ![curr] = None]
    BY <1>1, Shifting DEF HInv, TypeOK, ShiftEnds
  <1>3. Filled' = Filled /\ \A s \in Filled : entries'[s] = entries[s]
    BY <1>1, <1>2 DEF Filled, Gap, Occupied
  <1>4. Stored(key) = removed
    BY <1>1 DEF StoredMeaning, Leaving
  <1>5. Stored(key)' = None
    BY <1>1, <1>3 DEF StoredMeaning, Leaving, RemovalInv, Gone
  <1>6. ASSUME NEW k \in Keys, k # key
        PROVE  Stored(k)' = Stored(k)
    BY <1>1, <1>3, <1>6, StoredStays DEF Leaving
  <1> QED
    BY <1>1, <1>4, <1>5, <1>6 DEF Contents

LEMMA FullIsLimit ==
  ASSUME RemovalInv, op # "shift"
  PROVE  Map!Full <=> count >= LoadLimit
  <1>1. {k \in Keys : Contents[k] # None} = {k \in Keys : Stored(k) # None}
    BY DEF Contents
  <1>2. Cardinality({k \in Keys : Contents[k] # None}) = count
    BY <1>1, CountIsKeys
  <1>3. Map!Full <=> Cardinality({k \in Keys : Contents[k] # None}) >= LoadLimit
    BY DEF Map!Full, Contents, Cardinality, Map!Cardinality, IsFiniteSet, Map!IsFiniteSet
  <1> QED
    BY <1>2, <1>3

LEMMA StepIsMapStep == RemovalInv /\ RemovalInv' /\ [Next]_vars => [Map!Next]_Map!vars
  <1> SUFFICES ASSUME RemovalInv, RemovalInv', [Next]_vars
               PROVE  Map!Next \/ UNCHANGED Map!vars
    OBVIOUS
  <1>1. CASE UNCHANGED vars
    <2>1. Contents' = Contents
      <3>1. StoredMeaning /\ StoredMeaning'
        BY StoredMeans, StoredMeansNext
      <3>2. /\ Filled' = Filled /\ entries' = entries /\ op' = op /\ key' = key
            /\ removed' = removed
        BY <1>1 DEF vars, table, call, cursors, Filled, Gap, Occupied
      <3>3. \A k \in Keys : Stored(k)' = Stored(k)
        BY <3>1, <3>2, StoredStays DEF Leaving, StoredMeaning
      <3> QED
        BY <3>3 DEF Contents
    <2> QED
      BY <1>1, <2>1 DEF vars, table, call, cursors, Map!vars, Contents
  <1>2. ASSUME NEW o \in Operations, NEW k \in Keys, NEW v \in Values \cup {None}, Call(o, k, v)
        PROVE  Map!Next
    <2>1. op = "idle" /\ op' = o /\ o # "shift" /\ op' # "shift"
      BY <1>2 DEF Call, Operations
    <2>2. Contents' = Contents
      BY <1>2, <2>1, ContentsStay DEF Call, table
    <2>3. Map!Call(o, k, v)
      BY <1>2, <2>1, <2>2 DEF Call, Map!Call, Contents
    <2> QED
      BY <2>3 DEF Map!Next, Map!Operations, Operations
  <1>3. CASE Probe
    <2>1. op # "shift" /\ UNCHANGED call
      BY <1>3 DEF Probe, Probing, Operations
    <2>2. Contents' = Contents
      BY <1>3, <2>1, ContentsStay DEF Probe, table, call
    <2> QED
      BY <2>1, <2>2 DEF call, Map!vars, Contents
  <1>4. CASE InsertRefused
    <2>1. op = "insert" /\ op' = "done" /\ count >= LoadLimit /\ answer' = "EngineFull"
          /\ UNCHANGED <<key, value, entries>>
      BY <1>4 DEF InsertRefused, Refused, Answer
    <2>2. Contents' = Contents
      BY <2>1, ContentsStay
    <2>3. Map!Full <=> count >= LoadLimit
      BY <2>1, FullIsLimit
    <2>4. Map!Refuse
      BY <2>1, <2>2, <2>3 DEF Map!Refuse, Map!Answer, Contents
    <2> QED
      BY <2>4 DEF Map!Next
  <1>5. CASE InsertHere
    <2>1. op = "insert" /\ op' = "done" /\ ~(count >= LoadLimit) /\ answer' = "Ok"
          /\ UNCHANGED <<key, value>>
      BY <1>5 DEF InsertHere, Probing, Refused, Answer
    <2>2. Contents' = [Contents EXCEPT ![key] = value]
      BY <1>5, InsertPuts
    <2>3. Map!Full <=> count >= LoadLimit
      BY <2>1, FullIsLimit
    <2>4. Map!Put
      BY <2>1, <2>2, <2>3 DEF Map!Put, Map!Answer, Contents
    <2> QED
      BY <2>4 DEF Map!Next
  <1>6. CASE LookupEnds
    <2>1. op = "lookup" /\ op' = "done" /\ UNCHANGED <<key, value, entries>>
      BY <1>6 DEF LookupEnds, Answer
    <2>2. Contents' = Contents /\ answer' = Contents[key]
      BY <1>6, <2>1, ContentsStay, LookupGets
    <2>3. Map!Get
      BY <2>1, <2>2 DEF Map!Get, Map!Answer, Contents
    <2> QED
      BY <2>3 DEF Map!Next
  <1>7. CASE RemoveMisses
    <2>1. op = "remove" /\ op' = "done" /\ answer' = None /\ UNCHANGED <<key, value, entries>>
      BY <1>7 DEF RemoveMisses, Answer
    <2>2. /\ key \in Keys /\ answer' = Contents[key]
          /\ Contents' = [Contents EXCEPT ![key] = None]
      BY <1>7, <2>1, ContentsStay, MissDeletesNothing DEF Contents
    <2>3. Map!Delete
      BY <2>1, <2>2 DEF Map!Delete, Map!Answer, Contents
    <2> QED
      BY <2>3 DEF Map!Next
  <1>8. CASE RemoveFound \/ Shift \/ LeaveInPlace
    <2>1. /\ op \in {"remove", "shift"} /\ op' = "shift"
          /\ UNCHANGED <<key, value, answer>>
      BY <1>8 DEF RemoveFound, Shift, LeaveInPlace, call
    <2>2. Contents' = Contents
      BY <1>8, RemovalKeepsContents
    <2> QED
      BY <2>1, <2>2 DEF Map!vars, Contents
  <1>9. CASE ShiftEnds
    <2>1. op = "shift" /\ op' = "done" /\ UNCHANGED <<key, value>>
      BY <1>9 DEF ShiftEnds, Answer
    <2>2. answer' = Contents[key] /\ Contents' = [Contents EXCEPT ![key] = None]
      BY <1>9, ShiftEndDeletes
    <2>3. Map!Delete
      BY <2>1, <2>2 DEF Map!Delete, Map!Answer, Contents
    <2> QED
      BY <2>3 DEF Map!Next
  <1>10. CASE Return
    <2>1. /\ op = "done" /\ op' = "idle" /\ key' = None /\ value' = None /\ answer' = None
          /\ UNCHANGED entries
      BY <1>10 DEF Return, table
    <2>2. Contents' = Contents
      BY <2>1, ContentsStay
    <2>3. Map!Return
      BY <2>1, <2>2 DEF Map!Return, Contents
    <2> QED
      BY <2>3 DEF Map!Next
  <1> QED
    BY <1>1, <1>2, <1>3, <1>4, <1>5, <1>6, <1>7, <1>8, <1>9, <1>10 DEF Next, Work

\* A table is a map with a bound on its size, for every hash function: what is
\* inserted is found until it is removed, whatever probes over what and
\* whatever is shifted back, and only the bound refuses (FastOrderIndex,
\* FastPriceIndex and FastClientIndex).
THEOREM HashIndexImplementsMap == Spec => RefinesIndexMap
  <1>1. Init => RemovalInv /\ Map!Init
    <2> SUFFICES ASSUME Init PROVE RemovalInv /\ Map!Init
      OBVIOUS
    <2>1. RemovalInv
      BY InitHolds DEF Init, RemovalInv, Stale, Gone
    <2>2. [k \in Keys |-> Stored(k)] = [k \in Keys |-> None]
      BY DEF Init, Stored, Occupied
    <2> QED
      BY <2>1, <2>2 DEF Init, Map!Init
  <1> QED
    BY <1>1, RemovalInvNext, StepIsMapStep, PTL DEF Spec, RefinesIndexMap, Map!Spec
=============================================================================
