-------------------------- MODULE IdIndexMapProofs --------------------------
(***************************************************************************)
(* Proofs about IdIndexMap, for every set of keys, every placement of the  *)
(* hashes and every capacity: the table stays half empty, probing reaches  *)
(* every entry, and the entries change as those of a partial function.     *)
(***************************************************************************)
EXTENDS IdIndexMap, SharedLemmas

\* Time limits of the provers, for the larger steps.
USE SMTT(30), ZenonT(30)

Entry == [key : OrderIds, value : Values]

Table(s) ==
    /\ Capacity(s) \in Capacities
    /\ s \in [0 .. Capacity(s) - 1 -> Entry \union {EmptySlot}]

Distinct(s) == \A x, y \in occupied(s) : s[x].key = s[y].key => x = y

\* A table with n entries, at most half full.
Sound(s, n) ==
    /\ Table(s) /\ Distinct(s)
    /\ n = Cardinality(occupied(s)) /\ 2 * n <= Capacity(s)

\* y lies in the cyclic interval [h, x): a probe from h to x passes y.
Passes(h, y, x) == IF h <= x THEN h <= y /\ y < x ELSE h <= y \/ y < x

\* A probe from the home of an entry to the entry passes no empty slot, save
\* those of gap.
Linked(s, gap) ==
    \A x \in occupied(s), y \in DOMAIN s :
        Passes(slot_for(s, s[x].key), y, x) => y \in occupied(s) \union gap

\* Between the hole and the slot looked at last every slot is occupied, by an
\* entry that must not move to the hole.
Skipped(s, i, j) ==
    \A y \in DOMAIN s :
        between(i, y, j) => y \in occupied(s) /\ between(i, slot_for(s, s[y].key), y)

Growing ==
    /\ Sound(old, Cardinality(occupied(old)))
    /\ Capacity(slots) = 2 * Capacity(old)
    /\ next \in 0 .. Capacity(old)
    /\ pending \in Entry
    /\ size = Cardinality({k \in occupied(old) : k < next})
    /\ \A x \in occupied(slots) : \E k \in occupied(old) : k < next /\ slots[x] = old[k]

Shifting ==
    /\ hole \in DOMAIN slots /\ scan \in DOMAIN slots
    /\ hole \notin occupied(slots)
    /\ Linked(slots, {hole})
    /\ Skipped(slots, hole, scan)

\* The inductive invariant.
MapInv ==
    /\ mixed \in [OrderIds -> 0 .. MaxCapacity - 1]
    /\ Sound(slots, size)
    /\ pc \in {"idle", "grow", "shift"}
    /\ pc # "shift" => Linked(slots, {})
    /\ pc = "shift" => Shifting
    /\ pc = "grow" => Growing
    /\ pc # "grow" => old = <<>>

-----------------------------------------------------------------------------
(* Tables. *)

\* The slots of a table are numbered from 0 and there are finitely many.
LEMMA TableFacts ==
    ASSUME NEW s, Table(s)
    PROVE  /\ Capacity(s) \in Nat /\ 2 <= Capacity(s) /\ Capacity(s) <= MaxCapacity
           /\ DOMAIN s = 0 .. Capacity(s) - 1
           /\ IsFiniteSet(DOMAIN s)
           /\ occupied(s) \subseteq DOMAIN s /\ IsFiniteSet(occupied(s))
           /\ Cardinality(occupied(s)) \in Nat
           /\ \A x \in DOMAIN s : s[x] \in Entry \union {EmptySlot}
           /\ \A x \in occupied(s) : s[x] \in Entry
<1>1. /\ Capacity(s) \in Nat /\ 2 <= Capacity(s) /\ Capacity(s) <= MaxCapacity
      /\ DOMAIN s = 0 .. Capacity(s) - 1
  BY CapacityAssumption DEF Table, Capacities
<1>2. IsFiniteSet(DOMAIN s)
  BY <1>1, FS_Interval
<1>3. occupied(s) \subseteq DOMAIN s
  BY DEF occupied
<1>4. IsFiniteSet(occupied(s)) /\ Cardinality(occupied(s)) \in Nat
  BY <1>2, <1>3, FS_Subset, FS_CardinalityType
<1>5. \A x \in DOMAIN s : s[x] \in Entry \union {EmptySlot}
  BY DEF Table
<1>6. \A x \in occupied(s) : s[x] \in Entry
  BY <1>5 DEF occupied, EmptySlot, Slot
<1>7. QED
  BY <1>1, <1>2, <1>3, <1>4, <1>5, <1>6

\* A fresh table has the capacity asked for and no entry.
LEMMA AllocateFacts ==
    ASSUME NEW cap \in Capacities
    PROVE  /\ Table(allocate(cap)) /\ Capacity(allocate(cap)) = cap
           /\ occupied(allocate(cap)) = {}
<1>1. cap \in Nat /\ 2 <= cap
  BY CapacityAssumption DEF Capacities
<1>2. Capacity(allocate(cap)) = cap
  BY <1>1, FS_Interval DEF Capacity, allocate
<1>3. Table(allocate(cap))
  BY <1>1, <1>2 DEF Table, allocate
<1>4. occupied(allocate(cap)) = {}
  BY DEF occupied, allocate, EmptySlot, Slot
<1>5. QED
  BY <1>2, <1>3, <1>4

Write(s, i, slot) == [s EXCEPT ![i] = slot]

\* Writing an entry, or nothing, to a slot.
LEMMA WriteFacts ==
    ASSUME NEW s, Table(s), NEW i \in DOMAIN s, NEW slot \in Entry \union {EmptySlot},
           NEW t, t = Write(s, i, slot)
    PROVE  /\ Table(t) /\ Capacity(t) = Capacity(s) /\ DOMAIN t = DOMAIN s
           /\ t[i] = slot /\ \A x \in DOMAIN s : x # i => t[x] = s[x]
           /\ slot \in Entry => occupied(t) = occupied(s) \union {i}
           /\ slot = EmptySlot => occupied(t) = occupied(s) \ {i}
<1>1. DOMAIN t = DOMAIN s /\ Capacity(t) = Capacity(s)
  BY DEF Capacity, Write
<1>2. t[i] = slot /\ \A x \in DOMAIN s : x # i => t[x] = s[x]
  BY DEF Write
<1>3. Table(t)
  BY Zenon, <1>1 DEF Table, Write
<1>4. ASSUME slot \in Entry PROVE occupied(t) = occupied(s) \union {i}
  BY <1>1, <1>2, <1>4, KeyAssumption DEF occupied, Entry
<1>5. ASSUME slot = EmptySlot PROVE occupied(t) = occupied(s) \ {i}
  BY <1>1, <1>2, <1>5 DEF occupied, EmptySlot, Slot
<1>6. QED
  BY <1>1, <1>2, <1>3, <1>4, <1>5

\* The shift of slot_for yields a slot of the table.
LEMMA HomeFacts ==
    ASSUME mixed \in [OrderIds -> 0 .. MaxCapacity - 1],
           NEW s, Table(s), NEW key \in OrderIds
    PROVE  slot_for(s, key) \in DOMAIN s
<1>1. Capacity(s) \in Nat /\ 2 <= Capacity(s) /\ DOMAIN s = 0 .. Capacity(s) - 1
  BY TableFacts
<1>2. PICK k \in 1 .. MaxCapacity : MaxCapacity = Capacity(s) * k
  BY CapacityAssumption DEF Table
<1>3. MaxCapacity \in Nat /\ k \in Nat /\ 1 <= k
  BY CapacityAssumption
<1>4. MaxCapacity \div Capacity(s) = k
  BY <1>1, <1>2, <1>3
<1>5. mixed[key] \in Nat /\ mixed[key] < Capacity(s) * k
  BY <1>2, <1>3
<1>6. ASSUME NEW m \in Nat, NEW c \in Nat, m < c * k
      PROVE  m \div k \in 0 .. c - 1
  BY <1>3, <1>6
<1>7. QED
  BY <1>1, <1>4, <1>5, <1>6 DEF slot_for

-----------------------------------------------------------------------------
(* Probing. *)

\* A table that is at most half full has an empty slot.
LEMMA RoomFacts ==
    ASSUME NEW s, Table(s), 2 * Cardinality(occupied(s)) <= Capacity(s)
    PROVE  \E e \in DOMAIN s : s[e].key = kInvalidOrderId
<1>1. /\ Capacity(s) \in Nat /\ 2 <= Capacity(s)
      /\ Cardinality(occupied(s)) \in Nat
  BY TableFacts
<1>2. occupied(s) # DOMAIN s
  BY <1>1 DEF Capacity
<1>3. QED
  BY Zenon, <1>2 DEF occupied

\* probe ends at the first slot from the home that holds the key or nothing.
LEMMA ProbeFacts ==
    ASSUME mixed \in [OrderIds -> 0 .. MaxCapacity - 1],
           NEW s, Table(s), NEW key \in OrderIds,
           2 * Cardinality(occupied(s)) <= Capacity(s)
    PROVE  /\ probe(s, key) \in DOMAIN s
           /\ s[probe(s, key)].key \in {key, kInvalidOrderId}
           /\ \A y \in DOMAIN s :
                Passes(slot_for(s, key), y, probe(s, key)) => s[y].key \notin {key, kInvalidOrderId}
<1> DEFINE h == slot_for(s, key)
           ends == {d \in DOMAIN s : s[wrap(s, h + d)].key \in {key, kInvalidOrderId}}
           away(y) == IF h <= y THEN y - h ELSE y - h + Capacity(s)
<1>1. /\ Capacity(s) \in Nat /\ 2 <= Capacity(s)
      /\ DOMAIN s = 0 .. Capacity(s) - 1
  BY TableFacts
<1>2. h \in 0 .. Capacity(s) - 1
  BY <1>1, HomeFacts
<1>3. probe(s, key) = wrap(s, h + Min(ends))
  BY DEF probe
<1> HIDE DEF h
<1>4. ASSUME NEW y \in DOMAIN s PROVE away(y) \in DOMAIN s /\ wrap(s, h + away(y)) = y
  BY <1>1, <1>2 DEF wrap
<1>5. \E d : d \in ends
  BY <1>4, RoomFacts
<1>6. ends \subseteq Nat
  BY <1>1
<1>7. Min(ends) \in ends /\ \A d \in ends : Min(ends) <= d
  <2> HIDE DEF ends
  <2>1. \E d \in ends : \A e \in ends : d <= e
    BY <1>5, <1>6, NatMin
  <2>2. QED
    BY <2>1 DEF Min
<1> DEFINE m == Min(ends)
<1>8. /\ m \in 0 .. Capacity(s) - 1
      /\ s[wrap(s, h + m)].key \in {key, kInvalidOrderId}
  BY <1>1, <1>7
<1>9. ASSUME NEW d \in DOMAIN s, d < m
      PROVE  s[wrap(s, h + d)].key \notin {key, kInvalidOrderId}
  <2>1. d \in Nat /\ m \in Nat
    BY <1>1, <1>8
  <2>2. d \notin ends
    <3> HIDE DEF ends
    <3>1. QED
      BY <1>7, <1>9, <2>1
  <2>3. QED
    BY <2>2
<1> HIDE DEF m
<1>10. wrap(s, h + m) \in DOMAIN s
  BY <1>1, <1>2, <1>8 DEF wrap
<1>11. ASSUME NEW y \in DOMAIN s, Passes(h, y, wrap(s, h + m))
       PROVE  s[y].key \notin {key, kInvalidOrderId}
  <2>1. away(y) < m
    BY <1>1, <1>2, <1>8, <1>11 DEF wrap, Passes
  <2>2. QED
    BY <1>4, <1>9, <2>1
<1>12. probe(s, key) = wrap(s, h + m)
  BY <1>3 DEF m
<1>13. QED
  BY <1>8, <1>10, <1>11, <1>12 DEF h

\* Probing for the key of an entry ends at the entry.
LEMMA EntryReached ==
    ASSUME mixed \in [OrderIds -> 0 .. MaxCapacity - 1],
           NEW s, Table(s), Distinct(s), Linked(s, {}),
           2 * Cardinality(occupied(s)) <= Capacity(s),
           NEW x \in occupied(s)
    PROVE  probe(s, s[x].key) = x
<1> DEFINE key == s[x].key
           h == slot_for(s, key)
           p == probe(s, key)
<1>1. /\ Capacity(s) \in Nat /\ DOMAIN s = 0 .. Capacity(s) - 1
      /\ x \in DOMAIN s /\ key \in OrderIds
  BY TableFacts DEF Entry
<1>2. h \in DOMAIN s
  BY <1>1, HomeFacts
<1>3. /\ p \in DOMAIN s
      /\ s[p].key \in {key, kInvalidOrderId}
      /\ \A y \in DOMAIN s : Passes(h, y, p) => s[y].key \notin {key, kInvalidOrderId}
  BY <1>1, ProbeFacts
<1>4. \A y \in DOMAIN s : Passes(h, y, x) => s[y].key # kInvalidOrderId
  BY DEF Linked, occupied
<1>5. \A y \in DOMAIN s : s[y].key = key => y = x
  BY <1>1, KeyAssumption DEF Distinct, occupied
<1>6. key # kInvalidOrderId
  BY <1>1, KeyAssumption
<1> HIDE DEF key, h, p
<1>7. ~Passes(h, x, p)
  BY <1>1, <1>3 DEF key
<1>8. ~Passes(h, p, x) \/ p = x
  BY <1>3, <1>4, <1>5
<1>9. p = x
  BY <1>1, <1>2, <1>3, <1>7, <1>8 DEF Passes
<1>10. QED
  BY <1>9 DEF p, key

-----------------------------------------------------------------------------
(* insert's tail, erase and the turns of its second loop, on a table s. *)

\* The entries of a table.
Held(s) == {s[i] : i \in occupied(s)}

\* Writing an entry where the probe for its key found an empty slot.
LEMMA PutKeeps ==
    ASSUME mixed \in [OrderIds -> 0 .. MaxCapacity - 1],
           NEW s, Table(s), Distinct(s), Linked(s, {}),
           2 * Cardinality(occupied(s)) <= Capacity(s),
           NEW slot \in Entry, NEW p, p = probe(s, slot.key), s[p].key # slot.key,
           NEW t, t = Write(s, p, slot)
    PROVE  /\ Table(t) /\ Distinct(t) /\ Linked(t, {}) /\ Capacity(t) = Capacity(s)
           /\ Cardinality(occupied(t)) = Cardinality(occupied(s)) + 1
           /\ Held(t) = Held(s) \union {slot}
           /\ \A x \in occupied(s) : s[x].key # slot.key
<1>1. slot.key \in OrderIds
  BY DEF Entry
<1>2. /\ p \in DOMAIN s /\ s[p].key = kInvalidOrderId
      /\ \A y \in DOMAIN s : Passes(slot_for(s, slot.key), y, p) => y \in occupied(s)
  BY <1>1, ProbeFacts DEF occupied
<1>3. \A x \in occupied(s) : s[x].key # slot.key
  BY EntryReached
<1>4. /\ Table(t) /\ Capacity(t) = Capacity(s) /\ DOMAIN t = DOMAIN s
      /\ t[p] = slot /\ \A x \in DOMAIN s : x # p => t[x] = s[x]
      /\ occupied(t) = occupied(s) \union {p}
  BY <1>2, WriteFacts
<1>5. p \notin occupied(s) /\ occupied(s) \subseteq DOMAIN s
  BY <1>2 DEF occupied
<1>6. \A x \in occupied(s) : x # p /\ t[x] = s[x]
  BY <1>4, <1>5
<1>7. Distinct(t)
  <2>1. ASSUME NEW x \in occupied(t), NEW y \in occupied(t), t[x].key = t[y].key
        PROVE  x = y
    <3>1. CASE x = p
      BY <1>3, <1>4, <1>6, <2>1, <3>1
    <3>2. CASE x # p
      BY <1>3, <1>4, <1>6, <2>1, <3>2 DEF Distinct
    <3>3. QED
      BY <3>1, <3>2
  <2>2. QED
    BY <2>1 DEF Distinct
<1>8. Linked(t, {})
  <2>1. \A k : slot_for(t, k) = slot_for(s, k)
    BY <1>4 DEF slot_for
  <2>2. ASSUME NEW x \in occupied(t), NEW y \in DOMAIN t, Passes(slot_for(t, t[x].key), y, x)
        PROVE  y \in occupied(t)
    <3>1. CASE x = p
      BY <1>2, <1>4, <2>1, <2>2, <3>1
    <3>2. CASE x \in occupied(s)
      BY <1>4, <1>6, <2>1, <2>2, <3>2 DEF Linked
    <3>3. QED
      BY <1>4, <3>1, <3>2
  <2>3. QED
    BY <2>2 DEF Linked
<1>9. Cardinality(occupied(t)) = Cardinality(occupied(s)) + 1
  <2>1. IsFiniteSet(occupied(s))
    BY TableFacts
  <2>2. occupied(t) = occupied(s) \union {p} /\ p \notin occupied(s)
    BY <1>4, <1>5
  <2>3. QED
    BY Zenon, <2>1, <2>2, FS_AddElement
<1>10. Held(t) = Held(s) \union {slot}
  <2>1. \A x \in occupied(t) : t[x] = IF x = p THEN slot ELSE s[x]
    BY <1>4, <1>6
  <2>2. QED
    BY <1>4, <1>5, <1>6, <2>1 DEF Held
<1>11. QED
  BY <1>3, <1>4, <1>7, <1>8, <1>9, <1>10

\* Emptying the slot of an entry: only the probes that passed it are cut.
LEMMA TakeKeeps ==
    ASSUME NEW s, Table(s), Distinct(s), Linked(s, {}), NEW p \in occupied(s),
           NEW t, t = Write(s, p, EmptySlot)
    PROVE  /\ Table(t) /\ Distinct(t) /\ Capacity(t) = Capacity(s) /\ DOMAIN t = DOMAIN s
           /\ p \in DOMAIN s /\ p \notin occupied(t)
           /\ Linked(t, {p}) /\ Skipped(t, p, p)
           /\ Cardinality(occupied(t)) = Cardinality(occupied(s)) - 1
           /\ Held(t) = Held(s) \ {s[p]}
<1>1. p \in DOMAIN s /\ occupied(s) \subseteq DOMAIN s
  BY DEF occupied
<1>2. /\ Table(t) /\ Capacity(t) = Capacity(s) /\ DOMAIN t = DOMAIN s
      /\ \A x \in DOMAIN s : x # p => t[x] = s[x]
      /\ occupied(t) = occupied(s) \ {p}
  BY <1>1, WriteFacts
<1>3. \A x \in occupied(t) : x \in occupied(s) /\ x # p /\ t[x] = s[x]
  BY <1>1, <1>2
<1>4. Distinct(t)
  BY <1>3 DEF Distinct
<1>5. \A k : slot_for(t, k) = slot_for(s, k)
  BY <1>2 DEF slot_for
<1>6. Linked(t, {p})
  <2>1. ASSUME NEW x \in occupied(t), NEW y \in DOMAIN t, Passes(slot_for(t, t[x].key), y, x)
        PROVE  y \in occupied(t) \union {p}
    BY <1>2, <1>3, <1>5, <2>1 DEF Linked
  <2>2. QED
    BY <2>1 DEF Linked
<1>7. Skipped(t, p, p)
  <2>1. Capacity(s) \in Nat /\ DOMAIN s = 0 .. Capacity(s) - 1
    BY TableFacts
  <2>2. \A y \in DOMAIN t : ~between(p, y, p)
    BY <1>1, <1>2, <2>1 DEF between
  <2>3. QED
    BY <2>2 DEF Skipped
<1>8. Cardinality(occupied(t)) = Cardinality(occupied(s)) - 1
  BY Zenon, <1>2, TableFacts, FS_RemoveElement
<1>9. Held(t) = Held(s) \ {s[p]}
  <2>1. \A x \in occupied(s) : x # p => s[x] # s[p] /\ x \in occupied(t) /\ t[x] = s[x]
    BY <1>2, <1>3 DEF Distinct
  <2>2. QED
    BY <1>3, <2>1 DEF Held
<1>10. QED
  BY <1>1, <1>2, <1>4, <1>6, <1>7, <1>8, <1>9

-----------------------------------------------------------------------------
(* The turns of erase's second loop: i is the hole, j the slot looked at   *)
(* last and n the next one.                                                *)

\* Cyclic intervals of a table of c slots.
LEMMA CyclicFacts ==
    ASSUME NEW c \in Nat, NEW i \in 0 .. c - 1, NEW j \in 0 .. c - 1,
           NEW n, n = IF j + 1 < c THEN j + 1 ELSE 0
    PROVE  /\ n \in 0 .. c - 1
           \* An entry between its home and the hole is not cut off.
           /\ \A h, x \in 0 .. c - 1 : between(i, h, x) => ~Passes(h, i, x)
           \* A probe that passes the hole and ends beyond n passes n.
           /\ \A h, x \in 0 .. c - 1 :
                ~between(i, x, j) /\ x # i /\ x # n /\ Passes(h, i, x) => Passes(h, n, x) /\ n # i
           /\ n # i => \A y \in 0 .. c - 1 : between(i, y, n) => between(i, y, j) \/ y = n
           \* The hole is on the way from a home outside (i, n] to n.
           /\ n # i => \A h, y \in 0 .. c - 1 :
                ~between(i, h, n) /\ Passes(h, y, i) => Passes(h, y, n) /\ y # n /\ y # i
<1>1. n \in 0 .. c - 1
  OBVIOUS
<1>2. \A h, x \in 0 .. c - 1 : between(i, h, x) => ~Passes(h, i, x)
  BY DEF between, Passes
<1>3. \A h, x \in 0 .. c - 1 :
        ~between(i, x, j) /\ x # i /\ x # n /\ Passes(h, i, x) => Passes(h, n, x) /\ n # i
  BY DEF between, Passes
<1>4. n # i => \A y \in 0 .. c - 1 : between(i, y, n) => between(i, y, j) \/ y = n
  BY DEF between
<1>5. n # i => \A h, y \in 0 .. c - 1 :
        ~between(i, h, n) /\ Passes(h, y, i) => Passes(h, y, n) /\ y # n /\ y # i
  BY DEF between, Passes
<1>6. QED
  BY <1>1, <1>2, <1>3, <1>4, <1>5

\* The slot after j is n, and the facts of tables that the turns use.
LEMMA TurnFacts ==
    ASSUME mixed \in [OrderIds -> 0 .. MaxCapacity - 1],
           NEW s, Table(s), NEW i \in DOMAIN s, NEW j \in DOMAIN s
    PROVE  /\ Capacity(s) \in Nat /\ DOMAIN s = 0 .. Capacity(s) - 1
           /\ wrap(s, j + 1) = IF j + 1 < Capacity(s) THEN j + 1 ELSE 0
           /\ \A x \in occupied(s) : x \in DOMAIN s /\ slot_for(s, s[x].key) \in DOMAIN s
<1>1. Capacity(s) \in Nat /\ DOMAIN s = 0 .. Capacity(s) - 1
  BY TableFacts
<1>2. wrap(s, j + 1) = IF j + 1 < Capacity(s) THEN j + 1 ELSE 0
  BY <1>1 DEF wrap
<1>3. \A x \in occupied(s) : x \in DOMAIN s /\ s[x].key \in OrderIds
  BY TableFacts DEF Entry
<1>4. QED
  BY <1>1, <1>2, <1>3, HomeFacts

\* The loop ends at an empty slot, and then no probe is cut.
LEMMA StopKeeps ==
    ASSUME mixed \in [OrderIds -> 0 .. MaxCapacity - 1],
           NEW s, Table(s), NEW i \in DOMAIN s, NEW j \in DOMAIN s,
           i \notin occupied(s), Linked(s, {i}), Skipped(s, i, j),
           wrap(s, j + 1) \notin occupied(s)
    PROVE  Linked(s, {})
<1> DEFINE n == wrap(s, j + 1)
           c == Capacity(s)
           home(x) == slot_for(s, s[x].key)
<1>1. /\ c \in Nat /\ DOMAIN s = 0 .. c - 1
      /\ n = IF j + 1 < c THEN j + 1 ELSE 0
      /\ \A x \in occupied(s) : x \in DOMAIN s /\ home(x) \in DOMAIN s
  BY TurnFacts
<1>2. \A x \in occupied(s), y \in DOMAIN s :
        Passes(home(x), y, x) => y \in occupied(s) \union {i}
  BY DEF Linked
<1>3. \A y \in DOMAIN s : between(i, y, j) => between(i, home(y), y)
  BY DEF Skipped
<1> HIDE DEF n, c, home
<1>4. /\ n \in DOMAIN s
      /\ \A h, x \in DOMAIN s : between(i, h, x) => ~Passes(h, i, x)
      /\ \A h, x \in DOMAIN s :
            ~between(i, x, j) /\ x # i /\ x # n /\ Passes(h, i, x) => Passes(h, n, x) /\ n # i
  <2>1. i \in 0 .. c - 1 /\ j \in 0 .. c - 1
    BY <1>1
  <2>2. /\ n \in 0 .. c - 1
        /\ \A h, x \in 0 .. c - 1 : between(i, h, x) => ~Passes(h, i, x)
        /\ \A h, x \in 0 .. c - 1 :
            ~between(i, x, j) /\ x # i /\ x # n /\ Passes(h, i, x) => Passes(h, n, x) /\ n # i
    BY <1>1, <2>1, CyclicFacts
  <2>3. QED
    BY <1>1, <2>2
<1>5. n \notin occupied(s)
  BY DEF n
<1>6. ASSUME NEW x \in occupied(s) PROVE ~Passes(home(x), i, x)
  <2>1. x \in DOMAIN s /\ home(x) \in DOMAIN s /\ x # i /\ x # n
    BY <1>1, <1>5
  <2>2. CASE between(i, x, j)
    BY <1>3, <1>4, <2>1, <2>2
  <2>3. CASE ~between(i, x, j)
    BY <1>2, <1>4, <1>5, <2>1, <2>3
  <2>4. QED
    BY <2>2, <2>3
<1>7. \A x \in occupied(s), y \in DOMAIN s : Passes(home(x), y, x) => y \in occupied(s)
  BY <1>2, <1>6
<1>8. QED
  BY <1>7 DEF Linked, home

\* An entry whose home lies between the hole and itself stays.
LEMMA SkipKeeps ==
    ASSUME mixed \in [OrderIds -> 0 .. MaxCapacity - 1],
           NEW s, Table(s), NEW i \in DOMAIN s, NEW j \in DOMAIN s, NEW n,
           i \notin occupied(s), Skipped(s, i, j), n = wrap(s, j + 1),
           n \in occupied(s), between(i, slot_for(s, s[n].key), n)
    PROVE  n \in DOMAIN s /\ Skipped(s, i, n)
<1> DEFINE c == Capacity(s)
<1>1. /\ c \in Nat /\ DOMAIN s = 0 .. c - 1
      /\ n = IF j + 1 < c THEN j + 1 ELSE 0
  BY TurnFacts
<1> HIDE DEF c
<1>2. n \in DOMAIN s /\ \A y \in DOMAIN s : between(i, y, n) => between(i, y, j) \/ y = n
  <2>1. i \in 0 .. c - 1 /\ j \in 0 .. c - 1 /\ n # i
    BY <1>1
  <2>2. /\ n \in 0 .. c - 1
        /\ \A y \in 0 .. c - 1 : between(i, y, n) => between(i, y, j) \/ y = n
    BY <1>1, <2>1, CyclicFacts
  <2>3. QED
    BY <1>1, <2>2
<1>3. QED
  BY <1>2 DEF Skipped

\* Exchanging a member for a new one keeps the cardinality.
LEMMA SwapCount ==
    ASSUME NEW O, IsFiniteSet(O), NEW i, i \notin O, NEW n \in O
    PROVE  Cardinality((O \union {i}) \ {n}) = Cardinality(O)
<1> DEFINE U == O \union {i}
<1>1. IsFiniteSet(U) /\ Cardinality(U) = Cardinality(O) + 1
  BY FS_AddElement
<1>2. n \in U
  OBVIOUS
<1> HIDE DEF U
<1>3. Cardinality(U \ {n}) = Cardinality(U) - 1
  BY <1>1, <1>2, FS_RemoveElement
<1>4. Cardinality(O) \in Nat
  BY FS_CardinalityType
<1>5. QED
  BY <1>1, <1>3, <1>4 DEF U

\* Any other entry moves to the hole: its own probe now ends there, and every
\* probe that passed its slot passes the new hole.
LEMMA MoveKeeps ==
    ASSUME mixed \in [OrderIds -> 0 .. MaxCapacity - 1],
           NEW s, Table(s), Distinct(s), NEW i \in DOMAIN s, NEW j \in DOMAIN s, NEW n,
           i \notin occupied(s), Linked(s, {i}), n = wrap(s, j + 1),
           n \in occupied(s), ~between(i, slot_for(s, s[n].key), n),
           NEW t, t = Write(Write(s, i, s[n]), n, EmptySlot)
    PROVE  /\ Table(t) /\ Distinct(t) /\ Capacity(t) = Capacity(s)
           /\ n \in DOMAIN t /\ n \notin occupied(t)
           /\ Linked(t, {n}) /\ Skipped(t, n, n)
           /\ Cardinality(occupied(t)) = Cardinality(occupied(s))
           /\ Held(t) = Held(s)
<1> DEFINE c == Capacity(s)
           home(x) == slot_for(s, s[x].key)
           u == Write(s, i, s[n])
<1>1. /\ c \in Nat /\ DOMAIN s = 0 .. c - 1
      /\ n = IF j + 1 < c THEN j + 1 ELSE 0
      /\ \A x \in occupied(s) : x \in DOMAIN s /\ home(x) \in DOMAIN s
  BY TurnFacts
<1>2. n # i /\ n \in DOMAIN s /\ s[n] \in Entry
  BY <1>1, TableFacts
<1>3. /\ Table(u) /\ Capacity(u) = Capacity(s) /\ DOMAIN u = DOMAIN s
      /\ u[i] = s[n] /\ \A x \in DOMAIN s : x # i => u[x] = s[x]
      /\ occupied(u) = occupied(s) \union {i}
  BY <1>2, WriteFacts
<1>4. /\ Table(t) /\ Capacity(t) = Capacity(u) /\ DOMAIN t = DOMAIN u
      /\ \A x \in DOMAIN u : x # n => t[x] = u[x]
      /\ occupied(t) = occupied(u) \ {n}
  <2> HIDE DEF u
  <2>1. t = Write(u, n, EmptySlot)
    BY DEF u
  <2>2. n \in DOMAIN u
    BY <1>2, <1>3
  <2>3. QED
    BY <1>3, <2>1, <2>2, WriteFacts
<1> HIDE DEF u
<1>5. /\ Capacity(t) = Capacity(s) /\ DOMAIN t = DOMAIN s
      /\ occupied(t) = (occupied(s) \union {i}) \ {n}
      /\ t[i] = s[n]
      /\ \A x \in occupied(s) : x # n => x # i /\ t[x] = s[x]
  BY <1>1, <1>2, <1>3, <1>4
<1>6. Distinct(t)
  <2>1. ASSUME NEW x \in occupied(t), NEW y \in occupied(t), t[x].key = t[y].key
        PROVE  x = y
    <3>1. CASE x = i /\ y = i
      BY <3>1
    <3>2. CASE x = i /\ y # i
      BY <1>5, <2>1, <3>2 DEF Distinct
    <3>3. CASE x # i /\ y = i
      BY <1>5, <2>1, <3>3 DEF Distinct
    <3>4. CASE x # i /\ y # i
      BY <1>5, <2>1, <3>4 DEF Distinct
    <3>5. QED
      BY <3>1, <3>2, <3>3, <3>4
  <2>2. QED
    BY <2>1 DEF Distinct
<1>7. Linked(t, {n})
  <2>1. \A k : slot_for(t, k) = slot_for(s, k)
    BY <1>5 DEF slot_for
  <2>2. \A x \in occupied(s), y \in DOMAIN s :
          Passes(home(x), y, x) => y \in occupied(s) \union {i}
    BY DEF Linked
  <2>3. home(n) \in DOMAIN s /\ ~between(i, home(n), n)
    BY <1>1
  <2>4. slot_for(t, t[i].key) = home(n)
    BY <1>5, <2>1
  <2>5. \A x \in occupied(s) : x # n => slot_for(t, t[x].key) = home(x)
    BY <1>5, <2>1
  <2> HIDE DEF home, c
  <2>6. \A y \in DOMAIN s : Passes(home(n), y, i) => Passes(home(n), y, n) /\ y # n /\ y # i
    BY <1>1, <1>2, <2>3, CyclicFacts
  <2>7. ASSUME NEW x \in occupied(t), NEW y \in DOMAIN t, Passes(slot_for(t, t[x].key), y, x)
        PROVE  y \in occupied(t) \union {n}
    <3>1. CASE x = i
      BY <1>5, <2>2, <2>4, <2>6, <2>7, <3>1
    <3>2. CASE x # i
      BY <1>5, <2>2, <2>5, <2>7, <3>2
    <3>3. QED
      BY <3>1, <3>2
  <2>8. QED
    BY <2>7 DEF Linked
<1>8. n \in DOMAIN t /\ n \notin occupied(t)
  BY <1>2, <1>5
<1>9. Skipped(t, n, n)
  <2>1. \A y \in DOMAIN t : ~between(n, y, n)
    BY <1>1, <1>5, <1>8 DEF between
  <2>2. QED
    BY <2>1 DEF Skipped
<1>10. Cardinality(occupied(t)) = Cardinality(occupied(s))
  <2>1. IsFiniteSet(occupied(s))
    BY TableFacts
  <2>2. Cardinality((occupied(s) \union {i}) \ {n}) = Cardinality(occupied(s))
    BY <2>1, SwapCount
  <2>3. QED
    BY Zenon, <1>5, <2>2
<1>11. Held(t) = Held(s)
  <2>1. \A x \in occupied(t) : IF x = i THEN t[x] = s[n] ELSE x \in occupied(s) /\ t[x] = s[x]
    BY <1>5
  <2>2. \A x \in occupied(s) : IF x = n THEN t[i] = s[x] ELSE x \in occupied(t) /\ t[x] = s[x]
    BY <1>5
  <2>3. i \in occupied(t)
    BY <1>2, <1>5
  <2>4. QED
    BY <2>1, <2>2, <2>3 DEF Held
<1>12. QED
  BY <1>4, <1>5, <1>6, <1>7, <1>8, <1>9, <1>10, <1>11

-----------------------------------------------------------------------------
(* The steps. *)

\* insert's tail, on a table with room: an entry is added, or its key was

\* there already.
LEMMA PutStep ==
    ASSUME mixed \in [OrderIds -> 0 .. MaxCapacity - 1],
           Sound(slots, size), Linked(slots, {}), 2 * (size + 1) <= Capacity(slots),
           NEW slot \in Entry, put(slot)
    PROVE  /\ Sound(slots', size') /\ Linked(slots', {}) /\ Capacity(slots') = Capacity(slots)
           /\ \/ /\ \E x \in occupied(slots) : slots[x].key = slot.key
                 /\ slots' = slots /\ size' = size
              \/ /\ \A x \in occupied(slots) : slots[x].key # slot.key
                 /\ Held(slots') = Held(slots) \union {slot} /\ size' = size + 1
<1> DEFINE p == probe(slots, slot.key)
<1>1. /\ Table(slots) /\ Distinct(slots)
      /\ size = Cardinality(occupied(slots)) /\ 2 * size <= Capacity(slots)
  BY DEF Sound
<1>2. size \in Nat /\ slot.key \in OrderIds
  BY <1>1, TableFacts DEF Entry
<1>3. p \in DOMAIN slots
  BY <1>1, <1>2, ProbeFacts
<1>4. CASE slots[p].key = slot.key
  <2>1. slots' = slots /\ size' = size
    BY <1>4 DEF put
  <2>2. p \in occupied(slots)
    BY <1>2, <1>3, <1>4, KeyAssumption DEF occupied
  <2>3. QED
    BY <1>4, <2>1, <2>2
<1>5. CASE slots[p].key # slot.key
  <2>1. slots' = Write(slots, p, slot) /\ size' = size + 1
    BY <1>5 DEF put, Write
  <2> HIDE DEF p
  <2>2. p = probe(slots, slot.key)
    BY DEF p
  <2>3. /\ Table(slots') /\ Distinct(slots') /\ Linked(slots', {})
        /\ Capacity(slots') = Capacity(slots)
        /\ Cardinality(occupied(slots')) = Cardinality(occupied(slots)) + 1
        /\ Held(slots') = Held(slots) \union {slot}
        /\ \A x \in occupied(slots) : slots[x].key # slot.key
    BY <1>1, <1>5, <2>1, <2>2, PutKeeps
  <2>4. Sound(slots', size')
    BY <1>1, <1>2, <2>1, <2>3 DEF Sound
  <2>5. QED
    BY <2>1, <2>3, <2>4
<1>6. QED
  BY <1>4, <1>5

\* The predicates in the next state; no step changes `mixed`.
LEMMA Primes ==
    ASSUME mixed' = mixed
    PROVE  /\ Sound(slots, size)' <=> Sound(slots', size')
           /\ Linked(slots, {})' <=> Linked(slots', {})
           /\ Linked(slots, {hole})' <=> Linked(slots', {hole'})
           /\ Skipped(slots, hole, scan)' <=> Skipped(slots', hole', scan')
           /\ occupied(slots)' = occupied(slots')
           /\ Capacity(slots)' = Capacity(slots')
<1>1. Sound(slots, size)' <=> Sound(slots', size')
  BY DEF Sound, Table, Distinct, occupied, Capacity
<1>2. Linked(slots, {})' <=> Linked(slots', {})
  BY DEF Linked, occupied, slot_for, Capacity
<1>3. Linked(slots, {hole})' <=> Linked(slots', {hole'})
  BY DEF Linked, occupied, slot_for, Capacity
<1>4. Skipped(slots, hole, scan)' <=> Skipped(slots', hole', scan')
  BY DEF Skipped, occupied, slot_for, Capacity
<1>5. occupied(slots)' = occupied(slots') /\ Capacity(slots)' = Capacity(slots')
  BY DEF occupied, Capacity
<1>6. QED
  BY <1>1, <1>2, <1>3, <1>4, <1>5

\* The entries that grow has inserted again are at most half of the old

\* table's slots, a quarter of the new one's.
LEMMA GrowingRoom ==
    ASSUME Growing
    PROVE  /\ size \in Nat /\ 2 * (size + 1) <= Capacity(slots)
           /\ Capacity(old) \in Nat /\ DOMAIN old = 0 .. Capacity(old) - 1
           /\ IsFiniteSet(occupied(old))
<1> DEFINE O == occupied(old)
           D == {k \in O : k < next}
<1>1. /\ Table(old) /\ 2 * Cardinality(O) <= Capacity(old)
      /\ Capacity(slots) = 2 * Capacity(old)
      /\ size = Cardinality(D)
  BY DEF Growing, Sound
<1>2. /\ IsFiniteSet(O) /\ Cardinality(O) \in Nat
      /\ Capacity(old) \in Nat /\ 2 <= Capacity(old)
      /\ DOMAIN old = 0 .. Capacity(old) - 1
  BY <1>1, TableFacts
<1>3. Cardinality(D) \in Nat /\ Cardinality(D) <= Cardinality(O)
  <2>1. D \subseteq O
    OBVIOUS
  <2> HIDE DEF D, O
  <2>2. QED
    BY <1>2, <2>1, FS_Subset, FS_CardinalityType
<1> HIDE DEF O, D
<1>4. 2 * (size + 1) <= Capacity(slots)
  BY <1>1, <1>2, <1>3
<1>5. QED
  BY <1>1, <1>2, <1>3, <1>4 DEF O

\* Growing in the next state.
LEMMA GrowingNext ==
    ASSUME Sound(old', Cardinality(occupied(old'))), Capacity(slots') = 2 * Capacity(old'),
           next' \in 0 .. Capacity(old'), pending' \in Entry,
           size' = Cardinality({k \in occupied(old') : k < next'}),
           \A x \in occupied(slots') :
              \E k \in occupied(old') : k < next' /\ slots'[x] = old'[k]
    PROVE  Growing'
<1>1. occupied(old)' = occupied(old') /\ occupied(slots)' = occupied(slots')
  BY DEF occupied
<1>2. Capacity(old)' = Capacity(old') /\ Capacity(slots)' = Capacity(slots')
  BY DEF Capacity
<1>3. Sound(old, Cardinality(occupied(old)))' <=> Sound(old', Cardinality(occupied(old')))
  BY <1>1, <1>2 DEF Sound, Table, Distinct
<1>4. QED
  BY <1>1, <1>2, <1>3 DEF Growing

\* insert: the entry is added to a table with room, or grow begins.
LEMMA InsertInv == MapInv /\ Insert => MapInv'
<1> SUFFICES ASSUME MapInv, NEW key \in OrderIds, NEW value \in Values,
                    pc = "idle",
                    IF crowded THEN grow(Slot(key, value))
                    ELSE /\ put(Slot(key, value))
                         /\ UNCHANGED <<mixed, pc, pending, old, next, hole, scan>>
             PROVE  MapInv'
  BY DEF Insert
<1> DEFINE slot == Slot(key, value)
<1>1. slot \in Entry
  BY DEF Slot, Entry
<1>2. /\ mixed \in [OrderIds -> 0 .. MaxCapacity - 1] /\ Sound(slots, size)
      /\ Linked(slots, {}) /\ old = <<>>
  BY DEF MapInv
<1>3. /\ Table(slots) /\ Distinct(slots) /\ size = Cardinality(occupied(slots))
      /\ 2 * size <= Capacity(slots)
  BY <1>2 DEF Sound
<1>4. Capacity(slots) \in Nat /\ size \in Nat
  BY <1>3, TableFacts
<1> HIDE DEF slot
<1>5. CASE ~crowded
  <2>1. put(slot) /\ UNCHANGED <<mixed, pc, pending, old, next, hole, scan>>
    BY <1>5 DEF slot
  <2>2. 2 * (size + 1) <= Capacity(slots)
    BY <1>4, <1>5 DEF crowded
  <2>3. Sound(slots', size') /\ Linked(slots', {})
    BY <1>1, <1>2, <2>1, <2>2, PutStep
  <2>4. Sound(slots, size)' /\ Linked(slots, {})'
    BY <2>1, <2>3, Primes
  <2>5. QED
    BY <1>2, <2>1, <2>4 DEF MapInv
<1>6. CASE crowded
  <2>1. /\ 2 * Capacity(slots) <= MaxCapacity
        /\ slots' = allocate(2 * Capacity(slots)) /\ size' = 0
        /\ pc' = "grow" /\ pending' = slot /\ old' = slots /\ next' = 0
        /\ mixed' = mixed
    BY <1>6 DEF grow, slot
  <2>2. 2 * Capacity(slots) \in Capacities
    BY <1>3, <2>1, CapacityAssumption DEF Table
  <2>3. /\ Table(slots') /\ Capacity(slots') = 2 * Capacity(slots) /\ occupied(slots') = {}
    BY <2>1, <2>2, AllocateFacts
  <2>4. Sound(slots', size')
    BY <1>4, <2>1, <2>3, FS_EmptySet DEF Sound, Distinct
  <2>5. Linked(slots', {})
    BY <2>3 DEF Linked
  <2>6. {k \in occupied(old') : k < next'} = {}
    BY <1>3, <2>1, TableFacts
  <2>7. Growing'
    <3>1. Sound(old', Cardinality(occupied(old')))
      BY <1>2, <1>3, <2>1 DEF Sound
    <3>2. size' = Cardinality({k \in occupied(old') : k < next'})
      BY <2>1, <2>6, FS_EmptySet
    <3>3. next' \in 0 .. Capacity(old') /\ Capacity(slots') = 2 * Capacity(old')
      BY <1>4, <2>1, <2>3
    <3>4. QED
      BY <1>1, <2>1, <2>3, <3>1, <3>2, <3>3, GrowingNext
  <2>8. Sound(slots, size)' /\ Linked(slots, {})'
    BY <2>1, <2>4, <2>5, Primes
  <2>9. QED
    BY <1>2, <2>1, <2>7, <2>8 DEF MapInv
<1>7. QED
  BY <1>5, <1>6

\* A turn of grow's loop: an old entry is inserted, for the first time.
LEMMA RehashPut ==
    ASSUME MapInv, Rehash
    PROVE  /\ mixed \in [OrderIds -> 0 .. MaxCapacity - 1]
           /\ Growing /\ next \in 0 .. Capacity(old) - 1 /\ Capacity(old) \in Nat
           /\ Sound(slots', size') /\ Linked(slots', {}) /\ Capacity(slots') = Capacity(slots)
           /\ next \notin occupied(old) => slots' = slots /\ size' = size
           /\ next \in occupied(old) =>
                Held(slots') = Held(slots) \union {old[next]} /\ size' = size + 1
<1>1. /\ mixed \in [OrderIds -> 0 .. MaxCapacity - 1]
      /\ Sound(slots, size) /\ Linked(slots, {}) /\ Growing
  BY DEF MapInv, Rehash
<1>2. /\ size \in Nat /\ 2 * (size + 1) <= Capacity(slots)
      /\ Capacity(old) \in Nat /\ DOMAIN old = 0 .. Capacity(old) - 1
  BY <1>1, GrowingRoom
<1>3. next \in 0 .. Capacity(old) - 1
  BY <1>2 DEF Rehash
<1>4. CASE next \notin occupied(old)
  <2>1. slots' = slots /\ size' = size
    BY <1>4 DEF Rehash, occupied
  <2>2. QED
    BY <1>1, <1>2, <1>3, <1>4, <2>1
<1>5. CASE next \in occupied(old)
  <2>1. put(old[next])
    BY <1>5 DEF Rehash, occupied
  <2>2. old[next] \in Entry
    BY <1>1, <1>5, TableFacts DEF Growing, Sound
  <2>3. ~\E x \in occupied(slots) : slots[x].key = old[next].key
    <3>1. \A x \in occupied(slots) : \E k \in occupied(old) : k < next /\ slots[x] = old[k]
      BY <1>1 DEF Growing
    <3>2. \A k \in occupied(old) : old[k].key = old[next].key => k = next
      BY <1>1, <1>5 DEF Growing, Sound, Distinct
    <3>3. QED
      BY <1>3, <3>1, <3>2
  <2>4. /\ Sound(slots', size') /\ Linked(slots', {}) /\ Capacity(slots') = Capacity(slots)
        /\ Held(slots') = Held(slots) \union {old[next]} /\ size' = size + 1
    BY <1>1, <1>2, <2>1, <2>2, <2>3, PutStep
  <2>5. QED
    BY <1>1, <1>2, <1>3, <1>5, <2>4
<1>6. QED
  BY <1>4, <1>5

\* grow's loop: one more slot of the old table is done.
LEMMA RehashInv == MapInv /\ Rehash => MapInv'
<1> SUFFICES ASSUME MapInv, Rehash PROVE MapInv'
  OBVIOUS
<1>1. /\ mixed \in [OrderIds -> 0 .. MaxCapacity - 1]
      /\ Growing /\ next \in 0 .. Capacity(old) - 1 /\ Capacity(old) \in Nat
      /\ Sound(slots', size') /\ Linked(slots', {}) /\ Capacity(slots') = Capacity(slots)
      /\ next \notin occupied(old) => slots' = slots /\ size' = size
      /\ next \in occupied(old) =>
            Held(slots') = Held(slots) \union {old[next]} /\ size' = size + 1
  BY RehashPut
<1>2. /\ pc = "grow" /\ next' = next + 1
      /\ pc' = pc /\ mixed' = mixed /\ pending' = pending /\ old' = old
  BY DEF Rehash
<1>3. /\ Sound(old, Cardinality(occupied(old))) /\ Capacity(slots) = 2 * Capacity(old)
      /\ pending \in Entry /\ size = Cardinality({k \in occupied(old) : k < next})
      /\ \A e \in Held(slots) : \E k \in occupied(old) : k < next /\ e = old[k]
  BY <1>1 DEF Growing, Held
<1>4. \A k \in occupied(old) : k \in Nat
  BY <1>3, TableFacts DEF Sound
<1>5. size' = Cardinality({k \in occupied(old) : k < next'})
  <2> DEFINE D == {k \in occupied(old) : k < next}
             E == {k \in occupied(old) : k < next'}
  <2>1. IsFiniteSet(D) /\ next \notin D
    <3>1. IsFiniteSet(occupied(old))
      BY <1>1, GrowingRoom
    <3>2. D \subseteq occupied(old) /\ next \notin D
      BY <1>1
    <3> HIDE DEF D
    <3>3. QED
      BY <3>1, <3>2, FS_Subset
  <2>2. CASE next \in occupied(old)
    <3>1. E = D \union {next}
      <4>1. \A k \in occupied(old) : k < next' <=> k < next \/ k = next
        BY <1>1, <1>2, <1>4
      <4>2. QED
        BY <2>2, <4>1
    <3>2. size = Cardinality(D) /\ size' = size + 1
      BY <1>1, <1>3, <2>2
    <3> HIDE DEF D, E
    <3>3. size' = Cardinality(E)
      BY <2>1, <3>1, <3>2, FS_AddElement
    <3>4. QED
      BY <3>3 DEF E
  <2>3. CASE next \notin occupied(old)
    <3>1. E = D
      BY <1>1, <1>2, <1>4, <2>3
    <3>2. QED
      BY Zenon, <1>1, <1>3, <2>3, <3>1
  <2>4. QED
    BY <2>2, <2>3
<1>6. \A e \in Held(slots') : \E k \in occupied(old) : k < next' /\ e = old[k]
  <2>1. \A k \in occupied(old) : k < next => k < next'
    BY <1>1, <1>2, <1>4
  <2>2. next < next'
    BY <1>1, <1>2
  <2>3. CASE next \in occupied(old)
    BY <1>1, <1>3, <2>1, <2>2, <2>3
  <2>4. CASE next \notin occupied(old)
    BY <1>1, <1>3, <2>1, <2>4
  <2>5. QED
    BY <2>3, <2>4
<1>7. Growing'
  <2>1. \A x \in occupied(slots') : \E k \in occupied(old') : k < next' /\ slots'[x] = old'[k]
    BY <1>2, <1>6 DEF Held
  <2>2. next' \in 0 .. Capacity(old')
    BY <1>1, <1>2
  <2>3. QED
    BY <1>1, <1>2, <1>3, <1>5, <2>1, <2>2, GrowingNext
<1>8. Sound(slots, size)' /\ Linked(slots, {})'
  BY <1>1, <1>2, Primes
<1>9. QED
  BY <1>1, <1>2, <1>7, <1>8 DEF MapInv

\* insert after grow: there is room for the entry.
LEMMA GrownInv == MapInv /\ Grown => MapInv'
<1> SUFFICES ASSUME MapInv, Grown PROVE MapInv'
  OBVIOUS
<1>1. /\ mixed \in [OrderIds -> 0 .. MaxCapacity - 1]
      /\ Sound(slots, size) /\ Linked(slots, {}) /\ Growing
  BY DEF MapInv, Grown
<1>2. put(pending) /\ pc' = "idle" /\ old' = <<>> /\ mixed' = mixed
  BY DEF Grown
<1>3. pending \in Entry /\ 2 * (size + 1) <= Capacity(slots)
  BY <1>1, GrowingRoom DEF Growing
<1>4. Sound(slots', size') /\ Linked(slots', {})
  BY <1>1, <1>2, <1>3, PutStep
<1>5. Sound(slots, size)' /\ Linked(slots, {})'
  BY <1>2, <1>4, Primes
<1>6. QED
  BY <1>1, <1>2, <1>5 DEF MapInv

\* erase empties the slot of the entry it found.
LEMMA EraseTakes ==
    ASSUME MapInv, Erase
    PROVE  \E p \in occupied(slots) :
              /\ Sound(slots', size') /\ Capacity(slots') = Capacity(slots)
              /\ hole' = p /\ scan' = p /\ p \in DOMAIN slots' /\ p \notin occupied(slots')
              /\ Linked(slots', {p}) /\ Skipped(slots', p, p)
              /\ Held(slots') = Held(slots) \ {slots[p]}
              /\ slots[p].key \in OrderIds
<1>1. PICK key \in OrderIds :
        LET i == probe(slots, key)
        IN  /\ slots[i].key = key
            /\ slots' = [slots EXCEPT ![i] = EmptySlot]
            /\ size' = size - 1
            /\ hole' = i /\ scan' = i
  BY Zenon DEF Erase
<1> DEFINE p == probe(slots, key)
<1>2. /\ mixed \in [OrderIds -> 0 .. MaxCapacity - 1]
      /\ Sound(slots, size) /\ Linked(slots, {})
  BY DEF MapInv, Erase
<1>3. /\ Table(slots) /\ Distinct(slots) /\ size = Cardinality(occupied(slots))
      /\ 2 * size <= Capacity(slots)
  BY <1>2 DEF Sound
<1>4. Capacity(slots) \in Nat /\ size \in Nat
  BY <1>3, TableFacts
<1>5. p \in occupied(slots)
  BY <1>1, <1>2, <1>3, ProbeFacts, KeyAssumption DEF occupied
<1>6. slots' = Write(slots, p, EmptySlot)
  BY <1>1 DEF Write
<1>7. slots[p].key = key /\ size' = size - 1 /\ hole' = p /\ scan' = p
  BY <1>1
<1> HIDE DEF p
<1>8. /\ Table(slots') /\ Distinct(slots') /\ Capacity(slots') = Capacity(slots)
      /\ DOMAIN slots' = DOMAIN slots
      /\ p \in DOMAIN slots /\ p \notin occupied(slots')
      /\ Linked(slots', {p}) /\ Skipped(slots', p, p)
      /\ Cardinality(occupied(slots')) = Cardinality(occupied(slots)) - 1
      /\ Held(slots') = Held(slots) \ {slots[p]}
  BY <1>2, <1>3, <1>5, <1>6, TakeKeeps
<1>9. Sound(slots', size')
  BY <1>3, <1>4, <1>7, <1>8 DEF Sound
<1>10. QED
  BY <1>5, <1>7, <1>8, <1>9

\* erase: the entry's slot is the hole, and only the probes that passed it are cut.
LEMMA EraseInv == MapInv /\ Erase => MapInv'
<1> SUFFICES ASSUME MapInv, Erase PROVE MapInv'
  OBVIOUS
<1>1. /\ mixed \in [OrderIds -> 0 .. MaxCapacity - 1] /\ old = <<>>
      /\ pc' = "shift" /\ mixed' = mixed /\ old' = old
  BY DEF MapInv, Erase
<1>2. /\ Sound(slots', size')
      /\ hole' \in DOMAIN slots' /\ scan' \in DOMAIN slots' /\ hole' \notin occupied(slots')
      /\ Linked(slots', {hole'}) /\ Skipped(slots', hole', scan')
  BY Zenon, EraseTakes
<1>3. Sound(slots, size)' /\ Shifting'
  BY <1>1, <1>2, Primes DEF Shifting
<1>4. QED
  BY <1>1, <1>3 DEF MapInv

\* A turn of erase's second loop: the table keeps its entries, and is linked

\* again when the loop ends.
LEMMA ShiftTurn ==
    ASSUME MapInv, Shift
    PROVE  /\ Sound(slots', size') /\ Held(slots') = Held(slots)
           /\ \/ pc' = "idle" /\ Linked(slots', {})
              \/ /\ pc' = "shift"
                 /\ hole' \in DOMAIN slots' /\ scan' \in DOMAIN slots'
                 /\ hole' \notin occupied(slots')
                 /\ Linked(slots', {hole'}) /\ Skipped(slots', hole', scan')
<1> DEFINE n == wrap(slots, scan + 1)
<1>1. /\ mixed \in [OrderIds -> 0 .. MaxCapacity - 1]
      /\ Sound(slots, size) /\ Shifting /\ pc = "shift" /\ size' = size
  BY DEF MapInv, Shift
<1>2. /\ Table(slots) /\ Distinct(slots) /\ size = Cardinality(occupied(slots))
      /\ 2 * size <= Capacity(slots)
      /\ hole \in DOMAIN slots /\ scan \in DOMAIN slots /\ hole \notin occupied(slots)
      /\ Linked(slots, {hole}) /\ Skipped(slots, hole, scan)
  BY <1>1 DEF Sound, Shifting
<1>3. n \in DOMAIN slots
  BY <1>1, <1>2, TurnFacts
<1>4. CASE slots[n].key = kInvalidOrderId /\ pc' = "idle" /\ UNCHANGED slots
  <2>1. n \notin occupied(slots)
    BY <1>4 DEF occupied
  <2>2. Linked(slots, {})
    BY <1>1, <1>2, <2>1, StopKeeps
  <2>3. QED
    BY <1>1, <1>4, <2>2
<1>5. CASE /\ slots[n].key # kInvalidOrderId
           /\ between(hole, slot_for(slots, slots[n].key), n)
           /\ scan' = n /\ UNCHANGED <<slots, hole, pc>>
  <2>1. n \in occupied(slots)
    BY <1>3, <1>5 DEF occupied
  <2>2. Skipped(slots, hole, n)
    BY <1>1, <1>2, <1>5, <2>1, SkipKeeps
  <2>3. QED
    BY <1>1, <1>2, <1>3, <1>5, <2>2
<1>6. CASE /\ slots[n].key # kInvalidOrderId
           /\ ~between(hole, slot_for(slots, slots[n].key), n)
           /\ move(n)
  <2>1. n \in occupied(slots)
    BY <1>3, <1>6 DEF occupied
  <2>2. /\ slots' = Write(Write(slots, hole, slots[n]), n, EmptySlot)
        /\ hole' = n /\ scan' = n /\ pc' = pc
    BY <1>6 DEF move, Write
  <2>3. n = wrap(slots, scan + 1)
    OBVIOUS
  <2> HIDE DEF n
  <2>4. /\ Table(slots') /\ Distinct(slots') /\ Capacity(slots') = Capacity(slots)
        /\ n \in DOMAIN slots' /\ n \notin occupied(slots')
        /\ Linked(slots', {n}) /\ Skipped(slots', n, n)
        /\ Cardinality(occupied(slots')) = Cardinality(occupied(slots))
        /\ Held(slots') = Held(slots)
    BY Zenon, <1>1, <1>2, <1>6, <2>1, <2>2, <2>3, MoveKeeps
  <2>5. Sound(slots', size')
    BY <1>1, <1>2, <2>4 DEF Sound
  <2>6. QED
    BY <1>1, <2>2, <2>4, <2>5
<1>7. QED
  BY Zenon, <1>4, <1>5, <1>6 DEF Shift

\* A turn of erase's second loop keeps the invariant.
LEMMA ShiftInv == MapInv /\ Shift => MapInv'
<1> SUFFICES ASSUME MapInv, Shift PROVE MapInv'
  OBVIOUS
<1>1. /\ mixed \in [OrderIds -> 0 .. MaxCapacity - 1] /\ old = <<>>
      /\ mixed' = mixed /\ old' = old
  BY DEF MapInv, Shift
<1>2. Sound(slots, size)'
  BY <1>1, ShiftTurn, Primes
<1>3. CASE pc' = "idle" /\ Linked(slots', {})
  <2>1. Linked(slots, {})'
    BY <1>1, <1>3, Primes
  <2>2. QED
    BY <1>1, <1>2, <1>3, <2>1 DEF MapInv
<1>4. CASE /\ pc' = "shift"
           /\ hole' \in DOMAIN slots' /\ scan' \in DOMAIN slots'
           /\ hole' \notin occupied(slots')
           /\ Linked(slots', {hole'}) /\ Skipped(slots', hole', scan')
  <2>1. Shifting'
    BY <1>1, <1>4, Primes DEF Shifting
  <2>2. QED
    BY <1>1, <1>2, <1>4, <2>1 DEF MapInv
<1>5. QED
  BY <1>3, <1>4, ShiftTurn

\* clear: an empty table of the same capacity.
LEMMA ClearInv == MapInv /\ Clear => MapInv'
<1> SUFFICES ASSUME MapInv, Clear PROVE MapInv'
  OBVIOUS
<1>1. /\ mixed \in [OrderIds -> 0 .. MaxCapacity - 1] /\ old = <<>>
      /\ Capacity(slots) \in Capacities
      /\ slots' = allocate(Capacity(slots)) /\ size' = 0
      /\ pc = "idle" /\ pc' = pc /\ mixed' = mixed /\ old' = old
  BY DEF MapInv, Clear, Sound, Table
<1>2. /\ Table(slots') /\ Capacity(slots') = Capacity(slots) /\ occupied(slots') = {}
  BY <1>1, AllocateFacts
<1>3. Capacity(slots) \in Nat
  BY <1>1, CapacityAssumption DEF Capacities
<1>4. Sound(slots', size') /\ Linked(slots', {})
  BY <1>1, <1>2, <1>3, FS_EmptySet DEF Sound, Distinct, Linked
<1>5. Sound(slots, size)' /\ Linked(slots, {})'
  BY <1>1, <1>4, Primes
<1>6. QED
  BY <1>1, <1>5 DEF MapInv

\* The constructor's table has no entry.
LEMMA InitInv == Init => MapInv
<1> SUFFICES ASSUME Init PROVE MapInv
  OBVIOUS
<1>1. PICK cap \in Capacities : slots = allocate(cap)
  BY DEF Init
<1>2. Table(slots) /\ Capacity(slots) = cap /\ occupied(slots) = {}
  BY <1>1, AllocateFacts
<1>3. cap \in Nat
  BY CapacityAssumption DEF Capacities
<1>4. Sound(slots, size) /\ Linked(slots, {})
  BY <1>2, <1>3, FS_EmptySet DEF Sound, Distinct, Linked, Init
<1>5. QED
  BY <1>4 DEF Init, MapInv

\* Every step keeps the invariant.
LEMMA NextInv == MapInv /\ [Next]_vars => MapInv'
<1> SUFFICES ASSUME MapInv, [Next]_vars PROVE MapInv'
  OBVIOUS
<1>1. CASE UNCHANGED vars
  <2>1. /\ slots' = slots /\ size' = size /\ mixed' = mixed /\ pc' = pc /\ pending' = pending
        /\ old' = old /\ next' = next /\ hole' = hole /\ scan' = scan
    BY <1>1 DEF vars
  <2>2. Sound(slots, size)' /\ (pc # "shift" => Linked(slots, {}))'
    BY <2>1, Primes DEF MapInv
  <2>3. pc = "shift" => Shifting'
    BY <2>1, Primes DEF MapInv, Shifting
  <2>4. pc = "grow" => Growing'
    BY <2>1, GrowingNext DEF MapInv, Growing
  <2>5. QED
    BY <2>1, <2>2, <2>3, <2>4 DEF MapInv
<1>2. CASE Next
  BY <1>2, InsertInv, RehashInv, GrownInv, EraseInv, ShiftInv, ClearInv DEF Next
<1>3. QED
  BY <1>1, <1>2

\* The inductive invariant of the table: between calls and in every turn of

\* grow's and erase's loops.
THEOREM MapInvariant == Spec => []MapInv
<1>1. QED
  BY InitInv, NextInv, PTL DEF Spec

\* The invariant bounds the load, and in grow by a quarter of the new table.
LEMMA InvHalfEmpty == MapInv => HalfEmpty
<1> SUFFICES ASSUME MapInv PROVE HalfEmpty
  OBVIOUS
<1>1. size = Cardinality(occupied(slots)) /\ 2 * size <= Capacity(slots)
  BY DEF MapInv, Sound
<1>2. ASSUME pc = "grow" PROVE ~crowded
  <2>1. Capacity(slots) \in Nat
    BY TableFacts DEF MapInv, Sound
  <2>2. size \in Nat /\ 2 * (size + 1) <= Capacity(slots)
    BY <1>2, GrowingRoom DEF MapInv
  <2>3. QED
    BY <2>1, <2>2 DEF crowded
<1>3. QED
  BY <1>1, <1>2 DEF HalfEmpty

\* size_ counts the occupied slots, at most half of the table is occupied at

\* every turn of every loop, and no insertion that grow makes grows again.
THEOREM TableStaysHalfEmpty == Spec => []HalfEmpty
<1>1. QED
  BY MapInvariant, InvHalfEmpty, PTL

-----------------------------------------------------------------------------
(* The entries as a partial function. *)

Keyed(S) == \A a, b \in S : a.key = b.key => a = b

Index(S) == [id \in {slot.key : slot \in S} |-> (CHOOSE slot \in S : slot.key = id).value]

\* The value that Index gives a key is that of the entry with the key.
LEMMA IndexFacts ==
    ASSUME NEW S, Keyed(S)
    PROVE  /\ DOMAIN Index(S) = {slot.key : slot \in S}
           /\ \A e \in S : e.key \in DOMAIN Index(S) /\ Index(S)[e.key] = e.value
<1>1. DOMAIN Index(S) = {slot.key : slot \in S}
  BY DEF Index
<1>2. ASSUME NEW e \in S PROVE e.key \in DOMAIN Index(S) /\ Index(S)[e.key] = e.value
  <2>1. e.key \in DOMAIN Index(S)
    BY <1>1
  <2>2. (CHOOSE slot \in S : slot.key = e.key) = e
    BY DEF Keyed
  <2>3. QED
    BY <1>1, <2>1, <2>2 DEF Index
<1>3. QED
  BY <1>1, <1>2

\* An entry with a new key is inserted into the function.
LEMMA IndexAdd ==
    ASSUME NEW S, Keyed(S), NEW e, \A a \in S : a.key # e.key
    PROVE  /\ Keyed(S \union {e}) /\ e.key \notin DOMAIN Index(S)
           /\ Index(S \union {e}) = Abs!insert(Index(S), e.key, e.value)
<1> DEFINE T == S \union {e}
           f == Abs!insert(Index(S), e.key, e.value)
<1>1. Keyed(T)
  BY DEF Keyed
<1>2. DOMAIN Index(S) = {a.key : a \in S} /\ DOMAIN Index(T) = {a.key : a \in T}
  BY DEF Index
<1>3. e.key \notin DOMAIN Index(S)
  BY <1>2
<1>4. /\ DOMAIN f = DOMAIN Index(S) \union {e.key}
      /\ f[e.key] = e.value
      /\ \A k \in DOMAIN Index(S) : f[k] = Index(S)[k]
  BY <1>3 DEF Abs!insert
<1>5. DOMAIN Index(T) = DOMAIN f
  BY Zenon, <1>2, <1>4
<1>6. ASSUME NEW k \in DOMAIN f PROVE Index(T)[k] = f[k]
  <2>1. PICK a \in T : a.key = k
    BY <1>2, <1>5
  <2>2. Index(T)[k] = a.value
    BY Zenon, <1>1, <2>1, IndexFacts
  <2>3. CASE a = e
    BY Zenon, <1>4, <2>1, <2>2, <2>3
  <2>4. CASE a \in S
    <3>1. k \in DOMAIN Index(S) /\ Index(S)[k] = a.value
      BY Zenon, <2>1, <2>4, IndexFacts
    <3>2. QED
      BY <1>4, <2>2, <3>1
  <2>5. QED
    BY <2>3, <2>4
<1>7. Index(T) = f
  <2>1. Index(T) = [k \in DOMAIN Index(T) |-> Index(T)[k]]
    BY DEF Index
  <2>2. f = [k \in DOMAIN f |-> f[k]]
    BY DEF Abs!insert
  <2> HIDE DEF f
  <2>3. QED
    BY <1>5, <1>6, <2>1, <2>2
<1>8. QED
  BY <1>1, <1>3, <1>7

\* Removing an entry restricts the function to the other keys.
LEMMA IndexRemove ==
    ASSUME NEW S, Keyed(S), NEW e \in S
    PROVE  /\ e.key \in DOMAIN Index(S)
           /\ Index(S \ {e}) = Abs!erase(Index(S), e.key)
<1> DEFINE T == S \ {e}
           f == Abs!erase(Index(S), e.key)
<1>1. Keyed(T)
  BY DEF Keyed
<1>2. DOMAIN Index(S) = {a.key : a \in S} /\ DOMAIN Index(T) = {a.key : a \in T}
  BY DEF Index
<1>3. e.key \in DOMAIN Index(S)
  BY <1>2
<1>4. /\ DOMAIN f = DOMAIN Index(S) \ {e.key}
      /\ \A k \in DOMAIN f : f[k] = Index(S)[k]
  BY DEF Abs!erase, Abs!Restrict
<1>5. DOMAIN Index(T) = DOMAIN f
  <2>1. \A a \in S : a.key = e.key => a = e
    BY DEF Keyed
  <2>2. QED
    BY Zenon, <1>2, <1>4, <2>1
<1>6. ASSUME NEW k \in DOMAIN f PROVE Index(T)[k] = f[k]
  <2>1. PICK a \in T : a.key = k
    BY <1>2, <1>5
  <2>2. Index(T)[k] = a.value
    BY Zenon, <1>1, <2>1, IndexFacts
  <2>3. Index(S)[k] = a.value
    BY Zenon, <2>1, IndexFacts
  <2>4. QED
    BY <1>4, <2>2, <2>3
<1>7. Index(T) = f
  <2>1. Index(T) = [k \in DOMAIN Index(T) |-> Index(T)[k]]
    BY DEF Index
  <2>2. f = [k \in DOMAIN f |-> f[k]]
    BY DEF Abs!erase, Abs!Restrict
  <2> HIDE DEF f
  <2>3. QED
    BY <1>5, <1>6, <2>1, <2>2
<1>8. QED
  BY <1>3, <1>7

\* Without entries the function is empty.
LEMMA IndexEmpty == Index({}) = Abs!EmptyIndex
  BY DEF Index, Abs!EmptyIndex
\* The entries that grow has not moved yet.
Left == {old[i] : i \in occupied(old) \ 0 .. next - 1}

\* Outside grow all the entries are in the table, and at all times no two

\* have the same key.
LEMMA StoredFacts ==
    ASSUME MapInv
    PROVE  /\ stored = Held(slots) \union Left /\ AbsIndex = Index(stored)
           /\ Keyed(stored) /\ Keyed(Held(slots))
           /\ pc # "grow" => stored = Held(slots)
           /\ Held(slots) \subseteq Entry
<1>1. stored = Held(slots) \union Left /\ AbsIndex = Index(stored)
  BY DEF stored, Held, Left, AbsIndex, Index
<1>2. Table(slots) /\ Distinct(slots)
  BY DEF MapInv, Sound
<1>3. Keyed(Held(slots))
  BY <1>2 DEF Held, Keyed, Distinct
<1>4. Held(slots) \subseteq Entry
  BY <1>2, TableFacts DEF Held
<1>5. ASSUME pc # "grow" PROVE Left = {}
  BY <1>5 DEF MapInv, Left, occupied
<1>6. CASE pc = "grow"
  <2>1. /\ Table(old) /\ Distinct(old) /\ next \in Nat
        /\ \A x \in occupied(slots) : \E k \in occupied(old) : k < next /\ slots[x] = old[k]
    BY <1>6, TableFacts DEF MapInv, Growing, Sound
  <2>2. \A k \in occupied(old) : k \in Nat
    BY <2>1, TableFacts
  <2>3. \A a \in Left : \E k \in occupied(old) : ~(k < next) /\ a = old[k]
    BY <2>1, <2>2 DEF Left
  <2>4. \A a \in Held(slots) : \E k \in occupied(old) : k < next /\ a = old[k]
    BY <2>1 DEF Held
  <2>5. Keyed(stored)
    BY <1>1, <2>1, <2>3, <2>4 DEF Keyed, Distinct
  <2>6. QED
    BY <1>1, <1>3, <1>4, <1>6, <2>5
<1>7. QED
  BY <1>1, <1>3, <1>4, <1>5, <1>6

\* The invariant makes every entry, and only the entries, findable.
LEMMA InvReachable == MapInv => EntriesReachable
<1> SUFFICES ASSUME MapInv PROVE EntriesReachable
  OBVIOUS
<1>1. /\ mixed \in [OrderIds -> 0 .. MaxCapacity - 1]
      /\ Table(slots) /\ Distinct(slots) /\ 2 * Cardinality(occupied(slots)) <= Capacity(slots)
  BY DEF MapInv, Sound
<1>2. ASSUME pc # "shift", NEW i \in occupied(slots) PROVE probe(slots, slots[i].key) = i
  BY <1>1, <1>2, EntryReached DEF MapInv
<1>3. ASSUME pc = "idle", NEW key \in OrderIds
      PROVE  find(slots, key) = IF key \in DOMAIN AbsIndex THEN AbsIndex[key] ELSE nullopt
  <2>1. stored = Held(slots) /\ AbsIndex = Index(stored) /\ Keyed(stored)
    BY <1>3, StoredFacts
  <2>2. DOMAIN AbsIndex = {a.key : a \in Held(slots)}
    BY Zenon, <2>1, IndexFacts
  <2>3. CASE key \in DOMAIN AbsIndex
    <3>1. PICK x \in occupied(slots) : slots[x].key = key
      BY <2>2, <2>3 DEF Held
    <3>2. probe(slots, key) = x
      BY <1>2, <1>3, <3>1
    <3>3. slots[x] \in stored
      BY <2>1 DEF Held
    <3>4. AbsIndex[key] = slots[x].value
      BY Zenon, <2>1, <3>1, <3>3, IndexFacts
    <3>5. QED
      BY <2>3, <3>1, <3>2, <3>4 DEF find
  <2>4. CASE key \notin DOMAIN AbsIndex
    <3>1. probe(slots, key) \in DOMAIN slots
      BY <1>1, ProbeFacts
    <3>2. probe(slots, key) \notin occupied(slots) \/ slots[probe(slots, key)].key # key
      BY <2>2, <2>4 DEF Held
    <3>3. slots[probe(slots, key)].key # key
      BY <3>1, <3>2, KeyAssumption DEF occupied
    <3>4. QED
      BY <2>4, <3>3 DEF find
  <2>5. QED
    BY <2>3, <2>4
<1>4. QED
  BY <1>2, <1>3 DEF EntriesReachable

\* Probing for the key of an entry ends at that entry, and find returns the

\* value of every entry and nullptr for every other key, whatever sequence of
\* insertions, deletions across the wrap-around and growth came before.
THEOREM EntriesStayReachable == Spec => []EntriesReachable
<1>1. QED
  BY MapInvariant, InvReachable, PTL

-----------------------------------------------------------------------------
(* What the steps do to the entries. *)

\* The entries in the next state.
LEMMA StoredNext == stored' = Held(slots') \union {old'[i] : i \in occupied(old') \ 0 .. next' - 1}
  BY DEF stored, Held, occupied

\* insert's tail adds an entry with a new key, or nothing.
LEMMA PutStored ==
    ASSUME MapInv, pc # "shift", 2 * (size + 1) <= Capacity(slots),
           NEW slot \in Entry, put(slot), stored = Held(slots), stored' = Held(slots')
    PROVE  \/ stored' = stored
           \/ /\ \A a \in stored : a.key # slot.key
              /\ stored' = stored \union {slot}
<1>1. \/ slots' = slots
      \/ /\ \A x \in occupied(slots) : slots[x].key # slot.key
         /\ Held(slots') = Held(slots) \union {slot}
  BY Zenon, PutStep DEF MapInv
<1>2. QED
  BY <1>1 DEF Held

\* insert adds an entry with a new key or nothing; when grow begins the entries
\* are those of the old table.
LEMMA InsertStored ==
    ASSUME MapInv, Insert
    PROVE  \/ stored' = stored
           \/ \E slot \in Entry :
                (\A a \in stored : a.key # slot.key) /\ stored' = stored \union {slot}
<1>1. PICK key \in OrderIds, value \in Values :
        /\ pc = "idle"
        /\ IF crowded THEN grow(Slot(key, value))
           ELSE /\ put(Slot(key, value))
                /\ UNCHANGED <<mixed, pc, pending, old, next, hole, scan>>
  BY DEF Insert
<1> DEFINE slot == Slot(key, value)
<1>2. slot \in Entry
  BY DEF Slot, Entry
<1>3. stored = Held(slots) /\ old = <<>>
  BY <1>1, StoredFacts DEF MapInv
<1>4. Capacity(slots) \in Nat /\ size \in Nat
  BY TableFacts DEF MapInv, Sound
<1> HIDE DEF slot
<1>5. CASE crowded
  <2>1. slots' = allocate(2 * Capacity(slots)) /\ old' = slots /\ next' = 0
    BY <1>1, <1>5 DEF grow
  <2>2. Held(slots') = {}
    BY Zenon, <2>1 DEF Held, occupied, allocate, EmptySlot, Slot
  <2>3. {old'[i] : i \in occupied(old') \ 0 .. next' - 1} = Held(slots)
    <3>1. 0 .. next' - 1 = {}
      BY <2>1
    <3>2. QED
      BY <2>1, <3>1 DEF Held
  <2>4. QED
    BY <1>3, <2>2, <2>3, StoredNext
<1>6. CASE ~crowded
  <2>1. put(slot) /\ old' = <<>>
    BY <1>1, <1>3, <1>6 DEF slot
  <2>2. 2 * (size + 1) <= Capacity(slots)
    BY <1>4, <1>6 DEF crowded
  <2>3. stored' = Held(slots')
    BY <2>1, StoredNext DEF occupied
  <2>4. QED
    BY <1>1, <1>2, <1>3, <2>1, <2>2, <2>3, PutStored
<1>7. QED
  BY <1>5, <1>6

\* A turn of grow's loop moves an entry from the old table to the new one.
LEMMA RehashStored ==
    ASSUME MapInv, Rehash
    PROVE  stored' = stored
<1>1. /\ next \in Nat /\ next' = next + 1 /\ old' = old
      /\ stored = Held(slots) \union Left
  BY RehashPut, StoredFacts DEF Rehash
<1> DEFINE after == {old[i] : i \in occupied(old) \ 0 .. next}
<1>2. stored' = Held(slots') \union after
  <2>1. next' - 1 = next
    BY <1>1
  <2>2. QED
    BY <1>1, <2>1, StoredNext
<1>3. \A k \in occupied(old) : k \in Nat
  BY RehashPut, TableFacts DEF Growing, Sound
<1>4. CASE next \in occupied(old)
  <2>1. Left = after \union {old[next]}
    <3>1. occupied(old) \ 0 .. next - 1 = (occupied(old) \ 0 .. next) \union {next}
      BY <1>1, <1>3, <1>4
    <3>2. QED
      BY <3>1 DEF Left
  <2>2. Held(slots') = Held(slots) \union {old[next]}
    BY <1>4, RehashPut
  <2>3. QED
    BY <1>1, <1>2, <2>1, <2>2
<1>5. CASE next \notin occupied(old)
  <2>1. Left = after
    <3>1. occupied(old) \ 0 .. next - 1 = occupied(old) \ 0 .. next
      BY <1>1, <1>3, <1>5
    <3>2. QED
      BY <3>1 DEF Left
  <2>2. slots' = slots
    BY <1>5, RehashPut
  <2>3. QED
    BY <1>1, <1>2, <2>1, <2>2
<1>6. QED
  BY <1>4, <1>5

\* After grow's loop no entry is left in the old table.
LEMMA GrownStored ==
    ASSUME MapInv, Grown
    PROVE  \/ stored' = stored
           \/ \E slot \in Entry :
                (\A a \in stored : a.key # slot.key) /\ stored' = stored \union {slot}
<1>1. pc = "grow" /\ Growing /\ put(pending) /\ old' = <<>> /\ next \notin DOMAIN old
  BY DEF MapInv, Grown
<1>2. /\ 2 * (size + 1) <= Capacity(slots) /\ pending \in Entry
      /\ Capacity(old) \in Nat /\ DOMAIN old = 0 .. Capacity(old) - 1
      /\ next \in 0 .. Capacity(old)
  BY <1>1, GrowingRoom DEF Growing
<1>3. occupied(old) \subseteq 0 .. next - 1
  BY <1>1, <1>2 DEF occupied
<1>4. stored = Held(slots)
  BY <1>3, StoredFacts DEF Left
<1>5. stored' = Held(slots')
  BY <1>1, StoredNext DEF occupied
<1>6. QED
  BY <1>1, <1>2, <1>4, <1>5, PutStored

\* erase removes the entry it found, and nothing else.
LEMMA EraseStored ==
    ASSUME MapInv, Erase
    PROVE  \E slot \in stored : stored' = stored \ {slot}
<1>1. stored = Held(slots) /\ old' = <<>>
  BY StoredFacts DEF MapInv, Erase
<1>2. stored' = Held(slots')
  BY <1>1, StoredNext DEF occupied
<1>3. PICK p \in occupied(slots) : Held(slots') = Held(slots) \ {slots[p]}
  BY Zenon, EraseTakes
<1>4. QED
  BY Zenon, <1>1, <1>2, <1>3 DEF Held

\* No turn of erase's second loop loses or changes an entry.
LEMMA ShiftStored ==
    ASSUME MapInv, Shift
    PROVE  stored' = stored
<1>1. stored = Held(slots) /\ old' = <<>>
  BY StoredFacts DEF MapInv, Shift
<1>2. stored' = Held(slots')
  BY <1>1, StoredNext DEF occupied
<1>3. QED
  BY <1>1, <1>2, ShiftTurn

\* clear leaves no entry.
LEMMA ClearStored ==
    ASSUME MapInv, Clear
    PROVE  stored' = {}
<1>1. old' = <<>> /\ slots' = allocate(Capacity(slots))
  BY DEF MapInv, Clear
<1>2. Held(slots') = {}
  BY <1>1 DEF Held, occupied, allocate, EmptySlot, Slot
<1>3. QED
  BY <1>1, <1>2, StoredNext DEF occupied

\* Every step of the table is a step of the partial function, or none, and
\* the one it stands for.
LEMMA IndexStep ==
    ASSUME MapInv, MapInv', [Next]_vars
    PROVE  [Abs!Next]_AbsIndex /\ (Next => StandsFor)
<1>1. AbsIndex = Index(stored) /\ Keyed(stored)
  BY StoredFacts
<1>2. AbsIndex' = Index(stored')
  BY DEF AbsIndex, Index
<1>3. stored' = stored => AbsIndex' = AbsIndex
  BY <1>1, <1>2
<1>4. ASSUME NEW slot \in Entry, \A a \in stored : a.key # slot.key,
             stored' = stored \union {slot}
      PROVE  Abs!Insert
  <2>1. slot.key \in OrderIds /\ slot.value \in Values
    BY DEF Entry
  <2>2. /\ slot.key \notin DOMAIN AbsIndex
        /\ AbsIndex' = Abs!insert(AbsIndex, slot.key, slot.value)
    BY <1>1, <1>2, <1>4, IndexAdd
  <2>3. QED
    BY <2>1, <2>2 DEF Abs!Insert
<1>5. ASSUME NEW slot \in stored, stored' = stored \ {slot}
      PROVE  Abs!Erase
  <2>1. slot.key \in DOMAIN AbsIndex /\ AbsIndex' = Abs!erase(AbsIndex, slot.key)
    BY <1>1, <1>2, <1>5, IndexRemove
  <2>2. QED
    BY <2>1 DEF Abs!Erase
<1>6. Clear => Abs!Clear
  BY <1>2, ClearStored, IndexEmpty DEF Abs!Clear
<1>7. Insert \/ Grown => Abs!Insert \/ AbsIndex' = AbsIndex
  BY Zenon, <1>3, <1>4, InsertStored, GrownStored
<1>8. Erase => Abs!Erase
  BY Zenon, <1>5, EraseStored
<1>9. Rehash \/ Shift => AbsIndex' = AbsIndex
  BY Zenon, <1>3, RehashStored, ShiftStored
<1>10. UNCHANGED vars => AbsIndex' = AbsIndex
  <2>1. UNCHANGED vars => stored' = stored
    BY DEF vars, stored, occupied
  <2>2. QED
    BY <1>3, <2>1
<1>11. QED
  BY Zenon, <1>6, <1>7, <1>8, <1>9, <1>10 DEF Next, StandsFor, Abs!Next

\* The constructor's table is the empty function.
LEMMA IndexInit == Init => Abs!Init
<1> SUFFICES ASSUME Init PROVE Abs!Init
  OBVIOUS
<1>1. stored = {}
  BY DEF Init, stored, occupied, allocate, EmptySlot, Slot
<1>2. AbsIndex = Index({})
  BY <1>1 DEF AbsIndex, Index
<1>3. QED
  BY <1>2, IndexEmpty DEF Abs!Init

\* The table implements the partial function that the books use: insert adds
\* one entry with a new key, erase removes one, clear all of them, and the
\* turns of the loops of grow and erase change none.
THEOREM TableImplementsIndex == Spec => ImplementsIdIndex
<1>1. QED
  BY MapInvariant, IndexInit, IndexStep, PTL DEF Spec, ImplementsIdIndex, Abs!Spec
=============================================================================
