---------------------------- MODULE DynamicTable ----------------------------
(***************************************************************************)
(* DynamicTable of PerfectLib/HPACK.swift: a ring of header fields.        *)
(*                                                                         *)
(* headerFields[tail] is the oldest entry, head is the slot for the next   *)
(* one.  The ring has a slot for every headerEntryOverhead bytes of        *)
(* capacity; length takes equal indices for an empty ring, so a full one   *)
(* would read as empty.                                                    *)
(***************************************************************************)
EXTENDS Totals, Integers, SequencesExt

CONSTANTS
  NoField,        \* nil in a slot
  HeaderFields    \* the fields that a caller of the table may add

headerEntryOverhead == 32

VARIABLES
  headerFields,   \* the slots, numbered from 0
  head, tail, size, capacity,
  trapped         \* an index out of range has stopped the process

ring == <<headerFields, head, tail, size, capacity, trapped>>

(* A header field has a name and a value, each a sequence of bytes.        *)
SizeOf(f) == Len(f.name) + Len(f.value) + headerEntryOverhead

(* A field without any text would let a ring of whole multiples of the     *)
(* overhead fill up, and then be read as empty.                            *)
ASSUME FieldsAssumption ==
  \A f \in HeaderFields :
    f # NoField /\ SizeOf(f) \in Nat /\ SizeOf(f) > headerEntryOverhead

Count == Cardinality(DOMAIN headerFields)

length == IF head < tail THEN Count - tail + head ELSE head - tail

MaxEntries(n) ==
  n \div headerEntryOverhead + (IF n % headerEntryOverhead = 0 THEN 0 ELSE 1)

TableInit(n) ==
  /\ headerFields = [i \in 0..(MaxEntries(n) - 1) |-> NoField]
  /\ head = 0 /\ tail = 0 /\ size = 0
  /\ capacity = n
  /\ trapped = FALSE

getEntry(index) ==
  headerFields[IF head - index < 0 THEN head - index + Count ELSE head - index]

(* An index that was moved on: behind the last slot comes the first.       *)
Wrapped(i) == IF i < Count THEN i ELSE i - Count

(* Where the i-th oldest entry lies.                                       *)
Slot(i) == Wrapped(tail + i - 1)

(* The sum of the sizes of the k oldest entries.                           *)
SizeOfOldest(k) == Total([i \in 1..k |-> SizeOf(headerFields[Slot(i)])])

(* remove called once more if the sizes are n.                             *)
SurplusStrict(n) ==
  CHOOSE k \in 0..length :
    /\ size - SizeOfOldest(k) < n \/ k = length
    /\ \A j \in 0..(k - 1) : size - SizeOfOldest(j) >= n

(* How often remove is called until the sizes are at most n.               *)
Surplus(n) ==
  CHOOSE k \in 0..length :
    /\ size - SizeOfOldest(k) <= n
    /\ \A j \in 0..(k - 1) : size - SizeOfOldest(j) > n

(* The ring after k calls of remove.                                       *)
Removed(k) ==
  [fields |-> [i \in DOMAIN headerFields |->
                 IF \E j \in 1..k : i = Slot(j) THEN NoField ELSE headerFields[i]],
   tail   |-> Wrapped(tail + k),
   size   |-> size - SizeOfOldest(k)]

clear ==
  /\ headerFields' = [i \in DOMAIN headerFields |-> NoField]
  /\ head' = 0 /\ tail' = 0 /\ size' = 0
  /\ UNCHANGED <<capacity, trapped>>

(* add that makes room only for what is in the table already.              *)
addEarly(f) ==
  IF SizeOf(f) > capacity THEN clear
  ELSE LET r == Removed(Surplus(capacity)) IN
       /\ headerFields' = [r.fields EXCEPT ![head] = f]
       /\ tail' = r.tail
       /\ head' = Wrapped(head + 1)
       /\ size' = r.size + SizeOf(f)
       /\ UNCHANGED <<capacity, trapped>>

add(f) ==
  IF SizeOf(f) > capacity THEN clear
  ELSE LET r == Removed(Surplus(capacity - SizeOf(f))) IN
       /\ headerFields' = [r.fields EXCEPT ![head] = f]
       /\ tail' = r.tail
       /\ head' = Wrapped(head + 1)
       /\ size' = r.size + SizeOf(f)
       /\ UNCHANGED <<capacity, trapped>>

(* capacityChanged copies the entries to the front of a new array.  Its    *)
(* cursor is set back one step too late: entries that lie across the end   *)
(* of the old array make it read behind the end.                           *)
setCapacity(n) ==
  LET r   == Removed(Surplus(n))
      len == length - Surplus(n)
  IN
  \/ /\ n = capacity
     /\ UNCHANGED ring
  \/ /\ n # capacity /\ MaxEntries(n) = Count
     /\ capacity' = n
     /\ headerFields' = r.fields /\ tail' = r.tail /\ size' = r.size
     /\ UNCHANGED <<head, trapped>>
  \/ /\ n # capacity /\ MaxEntries(n) # Count
     /\ r.tail + len <= Count
     /\ capacity' = n
     /\ headerFields' = [i \in 0..(MaxEntries(n) - 1) |->
                           IF i < len THEN r.fields[r.tail + i] ELSE NoField]
     /\ tail' = 0 /\ head' = len /\ size' = r.size
     /\ UNCHANGED trapped
  \/ /\ n # capacity /\ MaxEntries(n) # Count
     /\ r.tail + len > Count
     /\ trapped' = TRUE
     /\ UNCHANGED <<headerFields, head, tail, size, capacity>>

(* The table in the hands of any caller that adds such fields.             *)
TableStep ==
  /\ ~trapped
  /\ \/ clear
     \/ \E f \in HeaderFields : add(f)
     \/ \E n \in Nat : setCapacity(n)

TableSpec == (\E n \in Nat : TableInit(n)) /\ [][TableStep]_ring

-----------------------------------------------------------------------------
(* The entries, newest first.                                              *)
Entries == [i \in 1..length |-> getEntry(i)]

Table == INSTANCE HeaderTable WITH entries <- Entries, limit <- capacity

(* length counts the slots in use, though head = tail is read as empty:    *)
(* the ring is never full.  size is the sum of their sizes and never more  *)
(* than the capacity (remove, add and capacityChanged keep it).            *)
RingIsSound ==
  /\ length = Cardinality({i \in DOMAIN headerFields : headerFields[i] # NoField})
  /\ \A i \in 1..length : getEntry(i) # NoField
  /\ size = SizeOfOldest(length)
  /\ size <= capacity

(* The table is a first-in first-out table of HeaderTable, for every       *)
(* sequence of headers, skipped headers and sizes that reaches it,         *)
(* wherever its entries lie in the ring.                                   *)
TableIsFIFO == Table!Spec

=============================================================================
