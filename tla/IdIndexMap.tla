----------------------------- MODULE IdIndexMap -----------------------------
(***************************************************************************)
(* id_index_map.hpp: the open-addressing table from order ids to pool slots*)
(* with linear probing, growth at half load and backward-shift deletion.   *)
(*                                                                         *)
(* slot_for keeps the high bits of key * kFibonacciMul.  Multiplying by an *)
(* odd constant permutes the 64-bit keys, so distinct keys may have any    *)
(* high bits: `mixed` is an arbitrary function, chosen once.               *)
(*                                                                         *)
(* The loops that change the table take one step per turn: those of grow   *)
(* (pc = "grow") and of erase (pc = "shift").                              *)
(***************************************************************************)
EXTENDS Naturals, FiniteSetsExt

CONSTANTS OrderIds,      \* keys
          Values,        \* pool slots
          kMinCapacity,  \* smallest table (16 in the code), a power of two
          MaxCapacity,   \* bound: a table of this size does not grow
          nullopt        \* find's nullptr

VARIABLES slots,    \* slots_, numbered from 0
          size,     \* size_
          mixed,    \* the high bits of each key's product
          pc,       \* "idle" between calls, "grow" or "shift" within one
          pending,  \* the entry to insert once the table has grown
          old,      \* grow's old table
          next,     \* the next slot of old to insert again
          hole,     \* erase's i: the slot that was emptied last
          scan      \* erase's j: the slot looked at last

vars == <<slots, size, mixed, pc, pending, old, next, hole, scan>>

kInvalidOrderId == 0
Slot(key, value) == [key |-> key, value |-> value]
EmptySlot == Slot(kInvalidOrderId, 0)
Capacity(s) == Cardinality(DOMAIN s)

\* allocate; capacities are powers of two.
allocate(cap) == [i \in 0 .. cap - 1 |-> EmptySlot]

\* The constructor and grow double kMinCapacity.
Capacities == {c \in kMinCapacity .. MaxCapacity : \E n \in 0 .. c : c = kMinCapacity * 2 ^ n}

\* No key is the mark of an empty slot, a table has at least two slots, and
\* the largest capacity is a multiple of the others, which are closed under
\* doubling: they are powers of two.
ASSUME KeyAssumption == kInvalidOrderId \notin OrderIds
ASSUME CapacityAssumption ==
    /\ kMinCapacity \in Nat /\ MaxCapacity \in Nat
    /\ 2 <= kMinCapacity
    /\ \A c \in Capacities :
        /\ \E k \in 1 .. MaxCapacity : MaxCapacity = c * k
        /\ 2 * c <= MaxCapacity => 2 * c \in Capacities

-----------------------------------------------------------------------------
slot_for(s, key) == mixed[key] \div (MaxCapacity \div Capacity(s))

\* i & mask(), of an index below twice the capacity.
wrap(s, i) == IF i < Capacity(s) THEN i ELSE i - Capacity(s)

occupied(s) == {i \in DOMAIN s : s[i].key # kInvalidOrderId}

\* The loop shared by insert, find and erase: from the key's home onward to
\* the first slot that holds the key or nothing.
probe(s, key) ==
    LET home == slot_for(s, key)
        ends == {d \in DOMAIN s : s[wrap(s, home + d)].key \in {key, kInvalidOrderId}}
    IN  wrap(s, home + Min(ends))

find(s, key) ==
    LET slot == s[probe(s, key)]
    IN  IF slot.key = key THEN slot.value ELSE nullopt

\* insert's tail, on a table with room.
put(slot) ==
    LET i == probe(slots, slot.key)
    IN  IF slots[i].key = slot.key THEN UNCHANGED <<slots, size>>
        ELSE slots' = [slots EXCEPT ![i] = slot] /\ size' = size + 1

crowded == (size + 1) * 2 > Capacity(slots)

\* (mutant) size_ is not reset before the entries are counted again.
grow_counting_twice(slot) ==
    /\ 2 * Capacity(slots) <= MaxCapacity
    /\ slots' = allocate(2 * Capacity(slots))
    /\ pc' = "grow" /\ pending' = slot /\ old' = slots /\ next' = 0
    /\ UNCHANGED <<size, mixed, hole, scan>>

\* grow up to its loop: a table twice as large.
grow(slot) ==
    /\ 2 * Capacity(slots) <= MaxCapacity
    /\ slots' = allocate(2 * Capacity(slots))
    /\ size' = 0
    /\ pc' = "grow" /\ pending' = slot /\ old' = slots /\ next' = 0
    /\ UNCHANGED <<mixed, hole, scan>>

\* (mutant) The interval is not taken cyclically.
between_flat(i, r, j) == i < r /\ r <= j

\* r lies in the cyclic interval (i, j].
between(i, r, j) == IF i <= j THEN i < r /\ r <= j ELSE i < r \/ r <= j

-----------------------------------------------------------------------------
Init ==
    /\ mixed \in [OrderIds -> 0 .. MaxCapacity - 1]
    /\ \E cap \in Capacities : slots = allocate(cap)
    /\ size = 0
    /\ pc = "idle" /\ pending = EmptySlot /\ old = <<>>
    /\ next = 0 /\ hole = 0 /\ scan = 0

Insert ==
    \E key \in OrderIds, value \in Values :
        /\ pc = "idle"
        /\ IF crowded THEN grow(Slot(key, value))
           ELSE /\ put(Slot(key, value))
                /\ UNCHANGED <<mixed, pc, pending, old, next, hole, scan>>

\* grow's loop: the old slots, in order, are inserted again.
Rehash ==
    /\ pc = "grow" /\ next \in DOMAIN old
    /\ IF old[next].key # kInvalidOrderId THEN put(old[next]) ELSE UNCHANGED <<slots, size>>
    /\ next' = next + 1
    /\ UNCHANGED <<mixed, pc, pending, old, hole, scan>>

\* grow returns to insert.
Grown ==
    /\ pc = "grow" /\ next \notin DOMAIN old
    /\ put(pending)
    /\ pc' = "idle" /\ pending' = EmptySlot /\ old' = <<>> /\ next' = 0
    /\ UNCHANGED <<mixed, hole, scan>>

\* erase up to its second loop.
Erase ==
    \E key \in OrderIds :
        LET i == probe(slots, key)
        IN  /\ pc = "idle"
            /\ slots[i].key = key
            /\ slots' = [slots EXCEPT ![i] = EmptySlot]
            /\ size' = size - 1
            /\ pc' = "shift" /\ hole' = i /\ scan' = i
            /\ UNCHANGED <<mixed, pending, old, next>>

\* (mutant) The key moves and leaves its value behind.
move_key_only(n) ==
    /\ slots' = [slots EXCEPT ![hole].key = slots[n].key, ![n] = EmptySlot]
    /\ hole' = n /\ scan' = n
    /\ UNCHANGED pc

\* The entry of slot n fills the hole and leaves one.
move(n) ==
    /\ slots' = [slots EXCEPT ![hole] = slots[n], ![n] = EmptySlot]
    /\ hole' = n /\ scan' = n
    /\ UNCHANGED pc

\* erase's second loop: one turn.
Shift ==
    LET n == wrap(slots, scan + 1)
    IN  /\ pc = "shift"
        /\ \/ /\ slots[n].key = kInvalidOrderId
              /\ pc' = "idle" /\ hole' = 0 /\ scan' = 0
              /\ UNCHANGED slots
           \/ /\ slots[n].key # kInvalidOrderId
              /\ between(hole, slot_for(slots, slots[n].key), n)
              /\ scan' = n
              /\ UNCHANGED <<slots, hole, pc>>
           \/ /\ slots[n].key # kInvalidOrderId
              /\ ~between(hole, slot_for(slots, slots[n].key), n)
              /\ move(n)
        /\ UNCHANGED <<size, mixed, pending, old, next>>

Clear ==
    /\ pc = "idle"
    /\ slots' = allocate(Capacity(slots))
    /\ size' = 0
    /\ UNCHANGED <<mixed, pc, pending, old, next, hole, scan>>

Next == Insert \/ Rehash \/ Grown \/ Erase \/ Shift \/ Clear

Spec == Init /\ [][Next]_vars
-----------------------------------------------------------------------------
\* size_ counts the occupied slots and they are at most half of the table, in
\* every turn of the loops of insert and erase: every probe ends.  And an
\* insertion that grow makes never has to grow the table again, as the
\* comment in grow says.
HalfEmpty ==
    /\ size = Cardinality(occupied(slots))
    /\ 2 * size <= Capacity(slots)
    /\ pc = "grow" /\ (next \in DOMAIN old => old[next].key # kInvalidOrderId) => ~crowded

\* The entries: those of the table, and those that grow has not moved yet.
stored ==
    {slots[i] : i \in occupied(slots)} \union {old[i] : i \in occupied(old) \ 0 .. next - 1}

AbsIndex ==
    [id \in {slot.key : slot \in stored} |-> (CHOOSE slot \in stored : slot.key = id).value]

\* No slot between an entry and its home is empty, and no key is stored
\* twice: probing for the key of an entry ends at that entry, after any
\* sequence of insertions, deletions across the wrap-around and growth, and
\* find returns the value of every entry and nullptr for every other key.
EntriesReachable ==
    /\ pc # "shift" => \A i \in occupied(slots) : probe(slots, slots[i].key) = i
    /\ pc = "idle" =>
        \A key \in OrderIds :
            find(slots, key) = IF key \in DOMAIN AbsIndex THEN AbsIndex[key] ELSE nullopt

Abs == INSTANCE IdIndex WITH index <- AbsIndex

\* The step of the partial function that a step of the table stands for.
StandsFor ==
    /\ Insert \/ Grown => Abs!Insert \/ AbsIndex' = AbsIndex
    /\ Erase => Abs!Erase
    /\ Rehash \/ Shift => AbsIndex' = AbsIndex

\* The entries change as those of a partial function do: insert adds one at
\* most, erase removes one, clear removes all, and no turn of the loops of
\* grow and erase loses, revives or alters any.
ImplementsIdIndex == Abs!Spec /\ [][StandsFor]_vars
=============================================================================
