------------------------ MODULE SpscRingBufferProofs ------------------------
(***************************************************************************)
(* For every capacity of at least two, every set of items and any number   *)
(* of pushes: the ring is free of data races, its failures are genuine and *)
(* it implements the bounded FIFO of Channel.                              *)
(*                                                                         *)
(* The argument measures cyclic distances instead of index values.  What   *)
(* either thread may still read of the other's index lies within one turn  *)
(* of the ring, so a distance determines how many pushes or pops a value   *)
(* stands for, and a stale value is never mistaken for a fresh one.        *)
(***************************************************************************)
EXTENDS SpscRingBuffer, TLAPS

\* Time limits of the provers, for the larger steps.
USE SMTT(30), ZenonT(30)

\* How many slots lie from r up to w, going round the ring.
dist(r, w) == IF w >= r THEN w - r ELSE w + Capacity - r

\* Where the two threads stand: no more popped than seen, no more pushed
\* than fits into what the producer has seen freed.
Counts ==
    LET n == Len(pushed)  m == Len(popped)
    IN  /\ m + 1 <= c_view
        /\ c_pc # "idle" => m + 2 <= c_view
        /\ n - (p_view - 1) <= Capacity - 1
        /\ p_pc # "idle" => n - (p_view - 1) <= Capacity - 2

\* Every value a thread may still load is as far away as its position says.
Distances ==
    LET n == Len(pushed)  m == Len(popped)
    IN  /\ \A k \in p_view .. m + 1 :
             dist(read_idx[k], write_idx[n + 1]) = n - (k - 1)
        /\ \A k \in m + 1 .. n + 1 :
             dist(read_idx[m + 1], write_idx[k]) = (k - 1) - m

\* Items in transit lie in their slots; an item between two steps of a call
\* is the right one; what was popped is what was pushed.
Contents ==
    LET n == Len(pushed)  m == Len(popped)
    IN  /\ \A j \in m + 1 .. n : buffer[write_idx[j]] = pushed[j]
        /\ p_pc # "idle" => p_item \in Items
        /\ p_pc = "publish" => buffer[write_idx[n + 1]] = p_item
        /\ c_pc = "free" => c_out = pushed[m + 1]

\* wrote and took name pushes and pops that were made at that slot.
Touched ==
    LET n == Len(pushed)  m == Len(popped)
    IN  \A i \in Slots :
          /\ wrote[i] # 0 => /\ write_idx[wrote[i]] = i
                             /\ wrote[i] <= n \/ (wrote[i] = n + 1 /\ p_pc = "publish")
          /\ took[i] # 0 => /\ read_idx[took[i]] = i
                            /\ took[i] <= m \/ (took[i] = m + 1 /\ c_pc = "free")

IInv == TypeOK /\ Counts /\ Distances /\ Contents /\ Touched

\* The initial state satisfies the invariant.
LEMMA InitIInv == Init => IInv
  BY CapacityAssumption DEF Init, IInv, TypeOK, Counts, Distances, Contents, Touched,
     Slots, dist, Latest

\* Appending to a sequence: type, length, old elements, new element.
LEMMA AppendFacts ==
    ASSUME NEW S, NEW s \in Seq(S), NEW e \in S
    PROVE  /\ Append(s, e) \in Seq(S)
           /\ Len(Append(s, e)) = Len(s) + 1
           /\ Append(s, e)[Len(s) + 1] = e
           /\ \A k \in 1 .. Len(s) : Append(s, e)[k] = s[k]
  OBVIOUS

\* Stepping one slot forward stays in the ring, lengthens the distance from
\* behind by one while the ring has room, and shortens it from the other end.
LEMMA NextFacts ==
    ASSUME NEW r \in Slots, NEW w \in Slots
    PROVE  /\ next(w) \in Slots
           /\ dist(r, w) \in 0 .. Capacity - 1
           /\ dist(r, w) = 0 <=> r = w
           /\ dist(r, w) < Capacity - 1 => dist(r, next(w)) = dist(r, w) + 1
           /\ dist(r, w) > 0 => dist(next(r), w) = dist(r, w) - 1
           /\ full(w, r) <=> dist(r, w) = Capacity - 1
  BY CapacityAssumption DEF Slots, dist, next, full

\* The numbers of pushes and pops, and the bounds TypeOK puts on views.
LEMMA Sizes ==
    ASSUME TypeOK
    PROVE  /\ Len(pushed) \in Nat /\ Len(popped) \in Nat
           /\ Len(write_idx) = Len(pushed) + 1 /\ Len(read_idx) = Len(popped) + 1
           /\ p_view \in Nat /\ 1 <= p_view /\ p_view <= Len(popped) + 1
           /\ c_view \in Nat /\ 1 <= c_view /\ c_view <= Len(pushed) + 1
           /\ Latest(write_idx) = write_idx[Len(pushed) + 1]
           /\ Latest(read_idx) = read_idx[Len(popped) + 1]
           /\ \A k \in 1 .. Len(pushed) + 1 : write_idx[k] \in Slots
           /\ \A k \in 1 .. Len(popped) + 1 : read_idx[k] \in Slots
<1>0. pushed \in Seq(Items) /\ popped \in Seq(Items)
  BY DEF TypeOK
<1>1. Len(pushed) \in Nat /\ Len(popped) \in Nat
  BY <1>0
<1>2. Len(write_idx) = Len(pushed) + 1 /\ Len(read_idx) = Len(popped) + 1
  BY DEF TypeOK
<1>3. p_view \in 1 .. Len(read_idx) /\ c_view \in 1 .. Len(write_idx)
  BY DEF TypeOK
<1>4. write_idx \in Seq(Slots) /\ read_idx \in Seq(Slots)
  BY DEF TypeOK
<1> QED
  BY <1>1, <1>2, <1>3, <1>4 DEF Latest

\* A producer step that loads read_idx_ keeps the invariant.
LEMMA PushCheckKeeps == IInv /\ PushCheck => IInv'
<1> SUFFICES ASSUME IInv, PushCheck PROVE IInv'
  OBVIOUS
<1> DEFINE n == Len(pushed)
           m == Len(popped)
<1>1. PICK k \in p_view .. Len(read_idx) :
        /\ p_view' = k
        /\ \/ /\ full(Latest(write_idx), read_idx[k])
              /\ UNCHANGED <<p_pc, p_item>>
           \/ /\ ~full(Latest(write_idx), read_idx[k])
              /\ p_pc' = "fill"
              /\ p_item' \in Items
  BY DEF PushCheck
<1>2. /\ write_idx' = write_idx /\ read_idx' = read_idx /\ buffer' = buffer
      /\ c_pc' = c_pc /\ c_out' = c_out /\ c_view' = c_view
      /\ wrote' = wrote /\ took' = took /\ pushed' = pushed /\ popped' = popped
      /\ p_pc = "idle"
  BY DEF PushCheck, consumer
<1>3. n \in Nat /\ m \in Nat /\ k \in Nat /\ p_view <= k /\ k <= m + 1 /\ 1 <= k
  BY Sizes DEF IInv
<1>4. TypeOK'
  <2>1. p_view' \in 1 .. Len(read_idx)'
    BY <1>1, <1>2, <1>3, Sizes DEF IInv
  <2>2. p_pc' \in {"idle", "fill", "publish"} /\ p_item' \in Items \cup {NoItem}
    BY Zenon, <1>1, <1>2 DEF IInv, TypeOK
  <2> QED
    BY Zenon, <2>1, <2>2, <1>2 DEF IInv, TypeOK
<1>5. Distances'
  BY <1>1, <1>2, <1>3, Sizes DEF IInv, Distances
<1>6. Counts'
  <2>1. dist(read_idx[k], write_idx[n + 1]) = n - (k - 1)
    BY <1>3, Sizes DEF IInv, Distances
  <2>2. read_idx[k] \in Slots /\ write_idx[n + 1] \in Slots
    BY <1>3, Sizes DEF IInv
  <2>3. Latest(write_idx) = write_idx[n + 1]
    BY Sizes DEF IInv
  <2>4. /\ n - (k - 1) <= Capacity - 1
        /\ ~full(Latest(write_idx), read_idx[k]) => n - (k - 1) <= Capacity - 2
    BY <2>1, <2>2, <2>3, <1>3, NextFacts, CapacityAssumption
  <2> QED
    BY <1>1, <1>2, <1>3, <2>4 DEF IInv, Counts
<1>7. Contents'
  BY <1>1, <1>2 DEF IInv, Contents
<1>8. Touched'
  BY <1>1, <1>2 DEF IInv, Touched
<1> QED
  BY <1>4, <1>5, <1>6, <1>7, <1>8 DEF IInv

\* Distinct pushes in transit, and the one being made, use distinct slots;
\* the oldest of them is the slot the consumer is at.
LEMMA SlotFacts ==
    ASSUME IInv
    PROVE  /\ \A j \in Len(popped) + 1 .. Len(pushed) :
                write_idx[j] # write_idx[Len(pushed) + 1]
           /\ Len(popped) <= Len(pushed)
           /\ read_idx[Len(popped) + 1] = write_idx[Len(popped) + 1]
<1> DEFINE n == Len(pushed)
           m == Len(popped)
<1>1. n \in Nat /\ m \in Nat /\ m <= n
  BY Sizes DEF IInv, Counts
<1>2. \A k \in m + 1 .. n + 1 : dist(read_idx[m + 1], write_idx[k]) = (k - 1) - m
  BY DEF IInv, Distances
<1>3. ASSUME NEW j \in m + 1 .. n PROVE write_idx[j] # write_idx[n + 1]
  <2>1. /\ dist(read_idx[m + 1], write_idx[j]) = (j - 1) - m
        /\ dist(read_idx[m + 1], write_idx[n + 1]) = n - m
    BY <1>1, <1>2
  <2> QED
    BY <1>1, <2>1
<1>4. read_idx[m + 1] = write_idx[m + 1]
  <2>1. dist(read_idx[m + 1], write_idx[m + 1]) = 0
    BY <1>1, <1>2
  <2>2. read_idx[m + 1] \in Slots /\ write_idx[m + 1] \in Slots
    BY <1>1, Sizes DEF IInv
  <2> QED
    BY <2>1, <2>2, NextFacts
<1> QED
  BY <1>1, <1>3, <1>4

\* Writing the slot keeps the invariant: the slot holds nothing in transit.
LEMMA PushFillKeeps == IInv /\ PushFill => IInv'
<1> SUFFICES ASSUME IInv, PushFill PROVE IInv'
  OBVIOUS
<1> DEFINE n == Len(pushed)
           m == Len(popped)
           w == write_idx[n + 1]
<1>1. /\ write_idx' = write_idx /\ read_idx' = read_idx
      /\ p_item' = p_item /\ p_view' = p_view
      /\ c_pc' = c_pc /\ c_out' = c_out /\ c_view' = c_view
      /\ took' = took /\ pushed' = pushed /\ popped' = popped
      /\ p_pc = "fill" /\ p_pc' = "publish"
  BY DEF PushFill, consumer
<1>2. n \in Nat /\ m \in Nat /\ m <= n /\ w \in Slots /\ Latest(write_idx) = w
  BY Sizes, SlotFacts DEF IInv
<1>3. /\ buffer' = [buffer EXCEPT ![w] = p_item]
      /\ wrote' = [wrote EXCEPT ![w] = n + 1]
  BY <1>2 DEF PushFill
<1>4. TypeOK'
  <2>1. buffer' \in [Slots -> Items \cup {NoItem}] /\ wrote' \in [Slots -> Nat]
    <3>1. /\ buffer \in [Slots -> Items \cup {NoItem}] /\ wrote \in [Slots -> Nat]
          /\ p_item \in Items \cup {NoItem}
      BY Zenon DEF IInv, TypeOK
    <3> QED
      BY <1>2, <1>3, <3>1
  <2>2. TypeOK
    BY DEF IInv
  <2> QED
    BY <1>1, <2>1, <2>2, Zenon DEF TypeOK
<1>5. Counts' /\ Distances'
  BY <1>1 DEF IInv, Counts, Distances
<1>6. Contents'
  <2>1. p_item \in Items /\ buffer'[w] = p_item
    BY <1>1, <1>2, <1>3 DEF IInv, TypeOK, Contents
  <2>2. ASSUME NEW j \in m + 1 .. n PROVE buffer'[write_idx[j]] = buffer[write_idx[j]]
    <3>1. write_idx[j] \in Slots /\ write_idx[j] # w
      BY <1>2, SlotFacts, Sizes DEF IInv
    <3>2. buffer \in [Slots -> Items \cup {NoItem}]
      BY DEF IInv, TypeOK
    <3> QED
      BY <1>2, <1>3, <3>1, <3>2
  <2> QED
    BY <1>1, <2>1, <2>2 DEF IInv, Contents
<1>7. Touched'
  <2>1. \A i \in Slots : wrote'[i] = IF i = w THEN n + 1 ELSE wrote[i]
    BY <1>2, <1>3 DEF IInv, TypeOK
  <2> QED
    BY <1>1, <1>2, <2>1 DEF IInv, Touched
<1> QED
  BY <1>4, <1>5, <1>6, <1>7 DEF IInv
\* Publishing the index keeps the invariant: the ring had room for one more.
LEMMA PushPublishKeeps == IInv /\ PushPublish => IInv'
<1> SUFFICES ASSUME IInv, PushPublish PROVE IInv'
  OBVIOUS
<1> DEFINE n == Len(pushed)
           m == Len(popped)
           w == write_idx[n + 1]
<1>1. /\ read_idx' = read_idx /\ buffer' = buffer /\ p_view' = p_view
      /\ c_pc' = c_pc /\ c_out' = c_out /\ c_view' = c_view
      /\ wrote' = wrote /\ took' = took /\ popped' = popped
      /\ p_pc = "publish" /\ p_pc' = "idle" /\ p_item' = NoItem
  BY DEF PushPublish, consumer
<1>2. /\ n \in Nat /\ m \in Nat /\ m <= n /\ w \in Slots /\ Latest(write_idx) = w
      /\ p_view \in Nat /\ 1 <= p_view /\ p_view <= m + 1
      /\ c_view \in Nat /\ c_view <= n + 1 /\ 1 <= c_view
  BY Sizes, SlotFacts DEF IInv
<1>3. p_item \in Items /\ buffer[w] = p_item
  BY <1>1 DEF IInv, Contents
<1>4. write_idx' = Append(write_idx, next(w)) /\ pushed' = Append(pushed, p_item)
  BY <1>2 DEF PushPublish
<1>5. next(w) \in Slots
  BY <1>2, NextFacts
<1>6. /\ write_idx' \in Seq(Slots) /\ Len(write_idx') = n + 2
      /\ write_idx'[n + 2] = next(w)
      /\ \A k \in 1 .. n + 1 : write_idx'[k] = write_idx[k]
  <2>1. write_idx \in Seq(Slots) /\ Len(write_idx) = n + 1
    BY DEF IInv, TypeOK
  <2> QED
    BY <1>2, <1>4, <1>5, <2>1, AppendFacts
<1>7. /\ pushed' \in Seq(Items) /\ Len(pushed') = n + 1
      /\ pushed'[n + 1] = p_item
      /\ \A k \in 1 .. n : pushed'[k] = pushed[k]
  <2>1. pushed \in Seq(Items)
    BY DEF IInv, TypeOK
  <2> QED
    BY <1>3, <1>4, <2>1, AppendFacts
<1>8. TypeOK'
  <2>1. Len(write_idx') = Len(pushed') + 1 /\ c_view' \in 1 .. Len(write_idx')
    BY <1>1, <1>2, <1>6, <1>7
  <2> QED
    BY Zenon, <1>1, <1>6, <1>7, <2>1 DEF IInv, TypeOK
<1>9. n - (p_view - 1) <= Capacity - 2
  BY <1>1 DEF IInv, Counts
<1>10. Counts'
  BY <1>1, <1>2, <1>7, <1>9, CapacityAssumption DEF IInv, Counts
<1>11. ASSUME NEW k \in p_view .. m + 1
       PROVE  dist(read_idx[k], next(w)) = (n + 1) - (k - 1)
  <2>1. dist(read_idx[k], w) = n - (k - 1)
    BY DEF IInv, Distances
  <2>2. read_idx[k] \in Slots
    BY <1>2, Sizes DEF IInv
  <2>3. n - (k - 1) < Capacity - 1
    BY <1>2, <1>9, CapacityAssumption
  <2> QED
    BY <1>2, <2>1, <2>2, <2>3, NextFacts
<1>12. Distances'
  <2>1. \A k \in p_view .. m + 1 :
          dist(read_idx[k], write_idx'[n + 2]) = (n + 1) - (k - 1)
    BY <1>6, <1>11
  <2>2. ASSUME NEW k \in m + 1 .. n + 2
        PROVE  dist(read_idx[m + 1], write_idx'[k]) = (k - 1) - m
    <3>1. CASE k = n + 2
      <4>1. dist(read_idx[m + 1], next(w)) = (n + 1) - m
        BY <1>2, <1>11
      <4> QED
        BY <3>1, <4>1, <1>2, <1>6
    <3>2. CASE k # n + 2
      <4>1. k \in m + 1 .. n + 1 /\ write_idx'[k] = write_idx[k]
        BY <3>2, <1>2, <1>6
      <4> QED
        BY <4>1 DEF IInv, Distances
    <3> QED
      BY <3>1, <3>2
  <2> QED
    BY <1>1, <1>2, <1>7, <2>1, <2>2 DEF Distances
<1>13. Contents'
  <2>1. ASSUME NEW j \in m + 1 .. n + 1 PROVE buffer[write_idx'[j]] = pushed'[j]
    <3>1. CASE j = n + 1
      BY <3>1, <1>2, <1>3, <1>6, <1>7
    <3>2. CASE j # n + 1
      BY <3>2, <1>2, <1>6, <1>7 DEF IInv, Contents
    <3> QED
      BY <3>1, <3>2
  <2>2. c_pc = "free" => c_out = pushed'[m + 1]
    BY <1>2, <1>7 DEF IInv, Contents, Counts
  <2> QED
    BY <1>1, <1>7, <2>1, <2>2 DEF Contents
<1>14. Touched'
  <2>1. ASSUME NEW i \in Slots, wrote[i] # 0
        PROVE  write_idx'[wrote[i]] = i /\ wrote[i] <= n + 1
    <3>1. wrote[i] \in Nat
      BY DEF IInv, TypeOK
    <3> QED
      BY <1>2, <1>6, <2>1, <3>1 DEF IInv, Touched
  <2> QED
    BY <1>1, <1>7, <2>1 DEF IInv, Touched
<1> QED
  BY <1>8, <1>10, <1>12, <1>13, <1>14 DEF IInv
\* A consumer step that loads write_idx_ keeps the invariant: a value that
\* differs from read_idx_ stands for at least one more push than pops.
LEMMA PopCheckKeeps == IInv /\ PopCheck => IInv'
<1> SUFFICES ASSUME IInv, PopCheck PROVE IInv'
  OBVIOUS
<1> DEFINE n == Len(pushed)
           m == Len(popped)
<1>1. PICK k \in c_view .. Len(write_idx) : PopCheckAt(k)
  BY DEF PopCheck
<1>2. /\ write_idx' = write_idx /\ read_idx' = read_idx /\ buffer' = buffer
      /\ p_pc' = p_pc /\ p_item' = p_item /\ p_view' = p_view
      /\ c_out' = c_out /\ c_view' = k
      /\ wrote' = wrote /\ took' = took /\ pushed' = pushed /\ popped' = popped
      /\ c_pc = "idle"
      /\ c_pc' = IF Latest(read_idx) = write_idx[k] THEN "idle" ELSE "take"
  BY <1>1 DEF PopCheckAt, producer
<1>3. /\ n \in Nat /\ m \in Nat /\ k \in Nat /\ c_view <= k /\ k <= n + 1 /\ 1 <= k
      /\ m + 1 <= k
  BY Sizes DEF IInv, Counts
<1>4. TypeOK'
  <2>1. c_view' \in 1 .. Len(write_idx)'
    BY <1>2, <1>3, Sizes DEF IInv
  <2> QED
    BY Zenon, <1>2, <2>1 DEF IInv, TypeOK
<1>5. c_pc' = "take" => m + 2 <= k
  <2>1. dist(read_idx[m + 1], write_idx[k]) = (k - 1) - m
    BY <1>3 DEF IInv, Distances
  <2>2. /\ read_idx[m + 1] \in Slots /\ write_idx[k] \in Slots
        /\ Latest(read_idx) = read_idx[m + 1]
    BY <1>3, Sizes DEF IInv
  <2> QED
    BY <1>2, <1>3, <2>1, <2>2, NextFacts
<1>6. Counts'
  BY <1>2, <1>3, <1>5 DEF IInv, Counts
<1>7. Distances' /\ Contents' /\ Touched'
  BY <1>2 DEF IInv, Distances, Contents, Touched
<1> QED
  BY <1>4, <1>6, <1>7 DEF IInv

\* Reading the slot keeps the invariant: it holds the oldest item in transit.
LEMMA PopTakeKeeps == IInv /\ PopTake => IInv'
<1> SUFFICES ASSUME IInv, PopTake PROVE IInv'
  OBVIOUS
<1> DEFINE n == Len(pushed)
           m == Len(popped)
           r == read_idx[m + 1]
<1>1. /\ write_idx' = write_idx /\ read_idx' = read_idx /\ buffer' = buffer
      /\ p_pc' = p_pc /\ p_item' = p_item /\ p_view' = p_view /\ c_view' = c_view
      /\ wrote' = wrote /\ pushed' = pushed /\ popped' = popped
      /\ c_pc = "take" /\ c_pc' = "free"
  BY DEF PopTake, producer
<1>2. n \in Nat /\ m \in Nat /\ m + 1 <= n /\ r \in Slots /\ Latest(read_idx) = r
  BY <1>1, Sizes DEF IInv, Counts
<1>3. c_out' = buffer[r] /\ took' = [took EXCEPT ![r] = m + 1]
  BY <1>2 DEF PopTake
<1>4. /\ buffer \in [Slots -> Items \cup {NoItem}] /\ took \in [Slots -> Nat]
      /\ write_idx[m + 1] = r
  BY Zenon, SlotFacts DEF IInv, TypeOK
<1>5. TypeOK'
  <2>1. took' \in [Slots -> Nat] /\ c_out' \in Items \cup {NoItem}
    BY <1>2, <1>3, <1>4
  <2> QED
    BY Zenon, <1>1, <2>1 DEF IInv, TypeOK
<1>6. Counts' /\ Distances'
  BY <1>1 DEF IInv, Counts, Distances
<1>7. Contents'
  <2>1. c_out' = pushed[m + 1]
    BY <1>2, <1>3, <1>4 DEF IInv, Contents
  <2> QED
    BY <1>1, <2>1 DEF IInv, Contents
<1>8. Touched'
  <2>1. \A i \in Slots : took'[i] = IF i = r THEN m + 1 ELSE took[i]
    BY <1>2, <1>3, <1>4
  <2> QED
    BY <1>1, <1>2, <2>1 DEF IInv, Touched
<1> QED
  BY <1>5, <1>6, <1>7, <1>8 DEF IInv

\* Freeing the slot keeps the invariant: all distances from the consumer
\* shrink by one.
LEMMA PopFreeKeeps == IInv /\ PopFree => IInv'
<1> SUFFICES ASSUME IInv, PopFree PROVE IInv'
  OBVIOUS
<1> DEFINE n == Len(pushed)
           m == Len(popped)
           r == read_idx[m + 1]
<1>1. /\ write_idx' = write_idx /\ buffer' = buffer
      /\ p_pc' = p_pc /\ p_item' = p_item /\ p_view' = p_view /\ c_view' = c_view
      /\ wrote' = wrote /\ took' = took /\ pushed' = pushed
      /\ c_pc = "free" /\ c_pc' = "idle" /\ c_out' = NoItem
  BY DEF PopFree, producer
<1>2. /\ n \in Nat /\ m \in Nat /\ m + 1 <= n /\ r \in Slots /\ Latest(read_idx) = r
      /\ p_view \in Nat /\ 1 <= p_view /\ p_view <= m + 1
      /\ c_view \in Nat /\ m + 2 <= c_view
  BY <1>1, Sizes DEF IInv, Counts
<1>3. read_idx' = Append(read_idx, next(r)) /\ popped' = Append(popped, c_out)
  BY <1>2 DEF PopFree
<1>4. c_out \in Items /\ next(r) \in Slots
  <2>1. c_out = pushed[m + 1] /\ pushed \in Seq(Items)
    BY <1>1 DEF IInv, TypeOK, Contents
  <2> QED
    BY <1>2, <2>1, NextFacts
<1>5. /\ read_idx' \in Seq(Slots) /\ Len(read_idx') = m + 2
      /\ read_idx'[m + 2] = next(r)
      /\ \A k \in 1 .. m + 1 : read_idx'[k] = read_idx[k]
  <2>1. read_idx \in Seq(Slots) /\ Len(read_idx) = m + 1
    BY DEF IInv, TypeOK
  <2> QED
    BY <1>2, <1>3, <1>4, <2>1, AppendFacts
<1>6. popped' \in Seq(Items) /\ Len(popped') = m + 1
  <2>1. popped \in Seq(Items)
    BY DEF IInv, TypeOK
  <2> QED
    BY <1>3, <1>4, <2>1, AppendFacts
<1>7. TypeOK'
  <2>1. Len(read_idx') = Len(popped') + 1 /\ p_view' \in 1 .. Len(read_idx')
    BY <1>1, <1>2, <1>5, <1>6
  <2> QED
    BY Zenon, <1>1, <1>5, <1>6, <2>1 DEF IInv, TypeOK
<1>8. Counts'
  BY <1>1, <1>2, <1>6 DEF IInv, Counts
<1>9. ASSUME NEW k \in m + 2 .. n + 1
      PROVE  dist(next(r), write_idx[k]) = (k - 1) - (m + 1)
  <2>1. dist(r, write_idx[k]) = (k - 1) - m
    BY <1>2 DEF IInv, Distances
  <2>2. write_idx[k] \in Slots
    BY <1>2, Sizes DEF IInv
  <2>3. dist(r, write_idx[k]) > 0
    BY <1>2, <2>1
  <2> QED
    BY <1>2, <2>1, <2>2, <2>3, NextFacts
<1>10. Distances'
  <2>1. ASSUME NEW k \in p_view .. m + 2
        PROVE  dist(read_idx'[k], write_idx[n + 1]) = n - (k - 1)
    <3>1. CASE k = m + 2
      <4>1. dist(next(r), write_idx[n + 1]) = n - (m + 1)
        BY <1>2, <1>9
      <4> QED
        BY <3>1, <4>1, <1>2, <1>5
    <3>2. CASE k # m + 2
      <4>1. k \in p_view .. m + 1 /\ read_idx'[k] = read_idx[k]
        BY <3>2, <1>2, <1>5
      <4> QED
        BY <4>1 DEF IInv, Distances
    <3> QED
      BY <3>1, <3>2
  <2>2. \A k \in m + 2 .. n + 1 :
          dist(read_idx'[m + 2], write_idx[k]) = (k - 1) - (m + 1)
    BY <1>5, <1>9
  <2> QED
    BY <1>1, <1>2, <1>6, <2>1, <2>2 DEF Distances
<1>11. Contents'
  BY <1>1, <1>2, <1>6 DEF IInv, Contents
<1>12. Touched'
  <2>1. ASSUME NEW i \in Slots, took[i] # 0
        PROVE  read_idx'[took[i]] = i /\ took[i] <= m + 1
    <3>1. took[i] \in Nat
      BY DEF IInv, TypeOK
    <3> QED
      BY <1>2, <1>5, <2>1, <3>1 DEF IInv, Touched
  <2> QED
    BY <1>1, <1>6, <2>1 DEF IInv, Touched
<1> QED
  BY <1>7, <1>8, <1>10, <1>11, <1>12 DEF IInv
\* Every step of either thread keeps the invariant.
LEMMA NextIInv == IInv /\ [Next]_vars => IInv'
<1>1. ASSUME IInv, UNCHANGED vars PROVE IInv'
  BY Zenon, <1>1 DEF vars, producer, consumer, IInv, TypeOK, Counts, Distances, Contents, Touched
<1> QED
  BY <1>1, PushCheckKeeps, PushFillKeeps, PushPublishKeeps, PopCheckKeeps,
     PopTakeKeeps, PopFreeKeeps DEF Next, Producer, Consumer

\* The inductive invariant holds in every reachable state.
THEOREM Invariance == Spec => []IInv
  BY InitIInv, NextIInv, PTL DEF Spec

\* No slot of buffer_ is ever written or read in a race: the acquire loads
\* of try_push and try_pop have always seen the last access to the slot.
THEOREM RaceFreedom == Spec => []RaceFree
<1>1. IInv => RaceFree
  <2> SUFFICES ASSUME IInv PROVE RaceFree
    OBVIOUS
  <2> DEFINE n == Len(pushed)
             m == Len(popped)
             w == write_idx[n + 1]
             r == read_idx[m + 1]
  <2>1. /\ n \in Nat /\ m \in Nat /\ m <= n
        /\ p_view \in Nat /\ 1 <= p_view /\ c_view \in Nat /\ c_view <= n + 1
        /\ w \in Slots /\ Latest(write_idx) = w
        /\ r \in Slots /\ Latest(read_idx) = r
    BY Sizes, SlotFacts DEF IInv
  <2>2. took[w] \in Nat /\ wrote[r] \in Nat
    BY Zenon, <2>1 DEF IInv, TypeOK
  <2>3. ASSUME p_pc = "fill", took[w] >= p_view PROVE FALSE
    <3>1. /\ read_idx[took[w]] = w
          /\ took[w] <= m \/ (took[w] = m + 1 /\ c_pc = "free")
      BY <2>1, <2>2, <2>3 DEF IInv, Touched
    <3>2. dist(w, w) = n - (took[w] - 1)
      BY <2>1, <2>2, <2>3, <3>1 DEF IInv, Distances
    <3>3. dist(w, w) = 0
      BY <2>1, NextFacts
    <3>4. c_pc = "free" => m + 1 <= n
      BY <2>1 DEF IInv, Counts
    <3> QED
      BY <2>1, <2>2, <3>1, <3>2, <3>3, <3>4
  <2>4. ASSUME c_pc = "take", wrote[r] >= c_view PROVE FALSE
    <3>1. m + 2 <= c_view
      BY <2>4 DEF IInv, Counts
    <3>2. write_idx[wrote[r]] = r /\ wrote[r] <= n + 1
      BY <2>1, <2>2, <2>4, <3>1 DEF IInv, Touched
    <3>3. dist(r, r) = (wrote[r] - 1) - m
      BY <2>1, <2>2, <2>4, <3>1, <3>2 DEF IInv, Distances
    <3>4. dist(r, r) = 0
      BY <2>1, NextFacts
    <3> QED
      BY <2>1, <2>2, <2>4, <3>1, <3>3, <3>4
  <2> QED
    BY <2>1, <2>2, <2>3, <2>4 DEF RaceFree
<1> QED
  BY <1>1, Invariance, PTL

\* try_push returns false just if the ring was full, try_pop just if it was
\* empty, as of the value of the other index that the call loads.
THEOREM GenuineFailures == Spec => []FailuresAreGenuine
<1>1. IInv => FailuresAreGenuine
  <2> SUFFICES ASSUME IInv PROVE FailuresAreGenuine
    OBVIOUS
  <2> DEFINE n == Len(pushed)
             m == Len(popped)
  <2>1. /\ n \in Nat /\ m \in Nat /\ Len(write_idx) = n + 1 /\ Len(read_idx) = m + 1
        /\ p_view \in Nat /\ 1 <= p_view /\ c_view \in Nat /\ m + 1 <= c_view
        /\ Latest(write_idx) = write_idx[n + 1] /\ Latest(read_idx) = read_idx[m + 1]
    BY Sizes DEF IInv, Counts
  <2>2. /\ \A k \in 1 .. n + 1 : write_idx[k] \in Slots
        /\ \A k \in 1 .. m + 1 : read_idx[k] \in Slots
    BY Sizes DEF IInv
  <2>3. ASSUME NEW k \in p_view .. m + 1
        PROVE  full(write_idx[n + 1], read_idx[k]) <=> n - (k - 1) = Capacity - 1
    <3>1. write_idx[n + 1] \in Slots /\ read_idx[k] \in Slots
      BY <2>1, <2>2
    <3>2. dist(read_idx[k], write_idx[n + 1]) = n - (k - 1)
      BY DEF IInv, Distances
    <3> QED BY <3>1, <3>2, NextFacts
  <2>4. ASSUME NEW k \in c_view .. n + 1
        PROVE  read_idx[m + 1] = write_idx[k] <=> m = k - 1
    <3>1. write_idx[k] \in Slots /\ read_idx[m + 1] \in Slots
      BY <2>1, <2>2
    <3>2. dist(read_idx[m + 1], write_idx[k]) = (k - 1) - m
      BY <2>1 DEF IInv, Distances
    <3>3. (k - 1) - m = 0 <=> m = k - 1
      BY <2>1
    <3> QED BY <3>1, <3>2, <3>3, NextFacts
  <2> QED BY <2>1, <2>3, <2>4 DEF FailuresAreGenuine
<1> QED BY <1>1, Invariance, PTL

\* The ring implements the bounded FIFO: a publish is a send, a free is a
\* receive of the oldest item in transit, everything else is invisible.
THEOREM Refinement == Spec => ImplementsChannel
<1>1. Init => Chan!Init
  BY DEF Init, Chan!Init
<1>2. IInv /\ [Next]_vars => [Chan!Next]_<<pushed, popped>>
  <2> SUFFICES ASSUME IInv, [Next]_vars PROVE [Chan!Next]_<<pushed, popped>>
    OBVIOUS
  <2>1. /\ Len(pushed) \in Nat /\ Len(popped) \in Nat
        /\ p_view \in Nat /\ p_view <= Len(popped) + 1
        /\ c_view \in Nat /\ c_view <= Len(pushed) + 1
    BY Sizes DEF IInv
  <2>2. CASE PushPublish
    <3>1. Len(pushed) - Len(popped) < Capacity - 1
      BY <2>1, <2>2, CapacityAssumption DEF PushPublish, IInv, Counts
    <3>2. p_item \in Items
      BY <2>2 DEF PushPublish, IInv, Contents
    <3> QED
      BY <2>2, <3>1, <3>2 DEF PushPublish, Chan!Next, Chan!Send
  <2>3. CASE PopFree
    <3>1. Len(popped) < Len(pushed) /\ c_out = pushed[Len(popped) + 1]
      BY <2>1, <2>3 DEF PopFree, IInv, Counts, Contents
    <3> QED
      BY <2>3, <3>1 DEF PopFree, Chan!Next, Chan!Receive
  <2>4. CASE PushCheck \/ PushFill \/ PopCheck \/ PopTake \/ UNCHANGED vars
    BY <2>4 DEF PushCheck, PushFill, PopCheck, PopCheckAt, PopTake, vars
  <2> QED
    BY <2>2, <2>3, <2>4 DEF Next, Producer, Consumer
<1> QED
  BY <1>1, <1>2, Invariance, PTL DEF Spec, ImplementsChannel, Chan!Spec

\* Every reachable state has its type.
THEOREM RingTypes == Spec => []TypeOK
<1>1. IInv => TypeOK
  BY DEF IInv
<1> QED
  BY <1>1, Invariance, PTL

\* Seen from its ends the ring does only what RingEnds allows: a check is a
\* load, a publish a push that did not see a full ring, a free a pop that did
\* not see an empty one.
THEOREM EndsContract == Spec => HonoursRingEnds
<1>1. Init => Ends = NewRing
  BY DEF Init, Ends, NewRing
<1>2. IInv /\ [Next]_vars => [RingStep(Ends, Ends', Capacity - 1)]_vars
  <2> SUFFICES ASSUME IInv, Next PROVE RingStep(Ends, Ends', Capacity - 1)
    OBVIOUS
  <2> DEFINE n == Len(pushed)
             m == Len(popped)
  <2>1. /\ n \in Nat /\ m \in Nat
        /\ p_view \in Nat /\ 1 <= p_view /\ p_view <= m + 1
        /\ c_view \in Nat /\ 1 <= c_view /\ c_view <= n + 1
        /\ Len(read_idx) = m + 1 /\ Len(write_idx) = n + 1
    BY Sizes DEF IInv
  <2>2. CASE PushCheck
    <3>1. PICK k \in p_view .. m + 1 : p_view' = k
      BY <2>1, <2>2 DEF PushCheck
    <3>2. pushed' = pushed /\ popped' = popped /\ c_view' = c_view
      BY <2>2 DEF PushCheck, consumer
    <3>3. Ends' = PushLoad(Ends, k - 1)
      BY <3>1, <3>2 DEF Ends, PushLoad
    <3>4. k - 1 \in PushViews(Ends)
      BY <2>1, <3>1 DEF PushViews, Ends
    <3> QED
      BY <3>3, <3>4 DEF RingStep
  <2>3. CASE PopCheck
    <3>1. PICK k \in c_view .. n + 1 : c_view' = k
      BY <2>1, <2>3 DEF PopCheck, PopCheckAt
    <3>2. pushed' = pushed /\ popped' = popped /\ p_view' = p_view
      BY <2>3 DEF PopCheck, PopCheckAt, producer
    <3>3. Ends' = PopLoad(Ends, k - 1)
      BY <3>1, <3>2 DEF Ends, PopLoad
    <3>4. k - 1 \in PopViews(Ends)
      BY <2>1, <3>1 DEF PopViews, Ends
    <3> QED
      BY <3>3, <3>4 DEF RingStep
  <2>4. CASE PushPublish
    <3>1. p_item \in Items /\ pushed \in Seq(Items) /\ pushed' = Append(pushed, p_item)
      BY <2>4 DEF PushPublish, IInv, Contents, TypeOK
    <3>2. Len(pushed') = n + 1
      BY <3>1
    <3>3. popped' = popped /\ p_view' = p_view /\ c_view' = c_view
      BY <2>4 DEF PushPublish, consumer
    <3>4. n - (p_view - 1) <= Capacity - 2
      BY <2>4 DEF PushPublish, IInv, Counts
    <3>5. ~SeesFull(Ends, p_view - 1, Capacity - 1)
      BY <2>1, <3>4, CapacityAssumption DEF SeesFull, Ends
    <3>6. Ends' = [PushLoad(Ends, p_view - 1) EXCEPT !.pushed = @ + 1]
      <4>1. PushLoad(Ends, p_view - 1) = Ends
        BY DEF PushLoad, Ends
      <4>2. Ends' = [Ends EXCEPT !.pushed = @ + 1]
        BY <3>2, <3>3 DEF Ends
      <4> QED
        BY <4>1, <4>2
    <3>7. Ends' = try_push(Ends, p_view - 1, Capacity - 1)
      BY <3>5, <3>6 DEF try_push
    <3>8. p_view - 1 \in PushViews(Ends)
      BY <2>1 DEF PushViews, Ends
    <3> QED
      BY <3>7, <3>8 DEF RingStep
  <2>5. CASE PopFree
    <3>1. m + 2 <= c_view
      BY <2>5 DEF PopFree, IInv, Counts
    <3>2. c_out \in Items \cup {NoItem} /\ c_out = pushed[m + 1]
      BY <2>5 DEF PopFree, IInv, Contents, TypeOK
    <3>3. pushed \in Seq(Items) /\ popped \in Seq(Items)
      BY DEF IInv, TypeOK
    <3>4. c_out \in Items
      BY <2>1, <3>1, <3>2, <3>3
    <3>5. Len(popped') = m + 1
      BY <2>5, <3>3, <3>4 DEF PopFree
    <3>6. pushed' = pushed /\ p_view' = p_view /\ c_view' = c_view
      BY <2>5 DEF PopFree, producer
    <3>7. ~SeesEmpty(Ends, c_view - 1)
      BY <2>1, <3>1 DEF SeesEmpty, Ends
    <3>8. Ends' = [PopLoad(Ends, c_view - 1) EXCEPT !.popped = @ + 1]
      <4>1. PopLoad(Ends, c_view - 1) = Ends
        BY DEF PopLoad, Ends
      <4>2. Ends' = [Ends EXCEPT !.popped = @ + 1]
        BY <3>5, <3>6 DEF Ends
      <4> QED
        BY <4>1, <4>2
    <3>9. Ends' = try_pop(Ends, c_view - 1)
      BY <3>7, <3>8 DEF try_pop
    <3>10. c_view - 1 \in PopViews(Ends)
      BY <2>1 DEF PopViews, Ends
    <3> QED
      BY <3>9, <3>10 DEF RingStep
  <2>6. CASE PushFill \/ PopTake
    <3>1. Ends' = Ends
      BY <2>6 DEF PushFill, PopTake, Ends, producer, consumer
    <3>2. Ends = PopLoad(Ends, c_view - 1)
      BY DEF Ends, PopLoad
    <3>3. c_view - 1 \in PopViews(Ends)
      BY <2>1 DEF PopViews, Ends
    <3> QED
      BY <3>1, <3>2, <3>3 DEF RingStep
  <2> QED
    BY <2>2, <2>3, <2>4, <2>5, <2>6 DEF Next, Producer, Consumer
<1> QED
  BY <1>1, <1>2, Invariance, PTL DEF Spec, HonoursRingEnds
=============================================================================
