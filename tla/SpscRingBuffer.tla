--------------------------- MODULE SpscRingBuffer ---------------------------
(***************************************************************************)
(* lockfree_queue.hpp: the bounded ring between one producer thread and one*)
(* consumer thread.  try_push and try_pop take one step per access to      *)
(* memory the other thread also touches.                                   *)
(*                                                                         *)
(* Memory model.  An atomic index is the sequence of all values stored in  *)
(* it (its modification order).  An acquire load by the other thread may   *)
(* return any value that is not older than the last one the thread saw, and*)
(* brings with it whatever the storing thread did before that release      *)
(* store.  The thread that owns an index reads its own latest store.  The  *)
(* slots are plain memory: took[i] and wrote[i] number the last pop and    *)
(* push that touched slot i, so that a race is a state of the model.       *)
(***************************************************************************)
EXTENDS RingEnds, Sequences

CONSTANTS Capacity,   \* template parameter, a power of two in the code
          Items,      \* values of type T that are pushed
          NoItem,     \* T{}, the initial content of a slot
          MaxPushes   \* bound: pushes in one behaviour

ASSUME CapacityAssumption == Capacity \in Nat /\ Capacity >= 2
ASSUME BoundAssumption == MaxPushes \in Nat
ASSUME NoItemAssumption == NoItem \notin Items

VARIABLES
  write_idx, read_idx,       \* all values stored in each index, oldest first
  buffer,                    \* buffer_
  p_pc, p_item, p_view,      \* producer: step, item, position of the value
                             \* of read_idx it last saw
  c_pc, c_out, c_view,       \* consumer: the same, for write_idx
  wrote, took,               \* last push / pop to touch each slot, 0 if none
  pushed, popped             \* items handed to try_push and out of try_pop

producer == <<p_pc, p_item, p_view>>
consumer == <<c_pc, c_out, c_view>>
vars == <<write_idx, read_idx, buffer, producer, consumer, wrote, took, pushed, popped>>

Slots == 0 .. Capacity - 1
Latest(idx) == idx[Len(idx)]

\* (mutant) The mask is forgotten.
next_unmasked(i) == i + 1

\* (i + 1) & kMask.
next(i) == IF i + 1 = Capacity THEN 0 ELSE i + 1

\* (mutant) The slot kept empty is used too.
never_full(write, read) == FALSE

\* (mutant) Two slots are kept empty.
full_early(write, read) == read \in {next(write), next(next(write))}

\* The test of try_push: one slot is always kept empty.
full(write, read) == next(write) = read

Init ==
    /\ write_idx = <<0>> /\ read_idx = <<0>>
    /\ buffer = [i \in Slots |-> NoItem]
    /\ p_pc = "idle" /\ p_item = NoItem /\ p_view = 1
    /\ c_pc = "idle" /\ c_out = NoItem /\ c_view = 1
    /\ wrote = [i \in Slots |-> 0] /\ took = [i \in Slots |-> 0]
    /\ pushed = <<>> /\ popped = <<>>

\* (mutant) A relaxed load: the value is read, nothing is synchronised.
PushCheckRelaxed ==
    /\ p_pc = "idle"
    /\ Len(pushed) < MaxPushes
    /\ \E k \in p_view .. Len(read_idx) :
        /\ ~full(Latest(write_idx), read_idx[k])
        /\ p_pc' = "fill"
        /\ p_item' \in Items
    /\ UNCHANGED <<write_idx, read_idx, buffer, p_view, consumer, wrote, took, pushed, popped>>

\* try_push, the two loads and the test; on "full" it returns false.
PushCheck ==
    /\ p_pc = "idle"
    /\ Len(pushed) < MaxPushes
    /\ \E k \in p_view .. Len(read_idx) :
        /\ p_view' = k
        /\ \/ /\ full(Latest(write_idx), read_idx[k])
              /\ UNCHANGED <<p_pc, p_item>>
           \/ /\ ~full(Latest(write_idx), read_idx[k])
              /\ p_pc' = "fill"
              /\ p_item' \in Items
    /\ UNCHANGED <<write_idx, read_idx, buffer, consumer, wrote, took, pushed, popped>>

\* buffer_[write] = std::move(item).
PushFill ==
    /\ p_pc = "fill"
    /\ p_pc' = "publish"
    /\ buffer' = [buffer EXCEPT ![Latest(write_idx)] = p_item]
    /\ wrote' = [wrote EXCEPT ![Latest(write_idx)] = Len(pushed) + 1]
    /\ UNCHANGED <<write_idx, read_idx, p_item, p_view, consumer, took, pushed, popped>>

\* The release store of write_idx_; try_push returns true.
PushPublish ==
    /\ p_pc = "publish"
    /\ p_pc' = "idle"
    /\ p_item' = NoItem
    /\ write_idx' = Append(write_idx, next(Latest(write_idx)))
    /\ pushed' = Append(pushed, p_item)
    /\ UNCHANGED <<read_idx, buffer, p_view, consumer, wrote, took, popped>>

\* (mutant) The consumer trusts the value of write_idx_ it saw before.
PopCheckCached(k) ==
    /\ c_pc = "idle"
    /\ c_pc' = IF Latest(read_idx) = write_idx[c_view] THEN "idle" ELSE "take"
    /\ UNCHANGED <<write_idx, read_idx, buffer, producer, c_out, c_view, wrote, took, pushed, popped>>

\* try_pop, the two loads and the test; on "empty" it returns false.
PopCheckAt(k) ==
    /\ c_pc = "idle"
    /\ c_view' = k
    /\ c_pc' = IF Latest(read_idx) = write_idx[k] THEN "idle" ELSE "take"
    /\ UNCHANGED <<write_idx, read_idx, buffer, producer, c_out, wrote, took, pushed, popped>>

PopCheck == \E k \in c_view .. Len(write_idx) : PopCheckAt(k)

\* out = std::move(buffer_[read]).
PopTake ==
    /\ c_pc = "take"
    /\ c_pc' = "free"
    /\ c_out' = buffer[Latest(read_idx)]
    /\ took' = [took EXCEPT ![Latest(read_idx)] = Len(popped) + 1]
    /\ UNCHANGED <<write_idx, read_idx, buffer, producer, c_view, wrote, pushed, popped>>

\* The release store of read_idx_; try_pop returns true.
PopFree ==
    /\ c_pc = "free"
    /\ c_pc' = "idle"
    /\ c_out' = NoItem
    /\ read_idx' = Append(read_idx, next(Latest(read_idx)))
    /\ popped' = Append(popped, c_out)
    /\ UNCHANGED <<write_idx, buffer, producer, c_view, wrote, took, pushed>>

Producer == PushCheck \/ PushFill \/ PushPublish
Consumer == PopCheck \/ PopTake \/ PopFree

Next == Producer \/ Consumer

Spec == Init /\ [][Next]_vars

\* The consumer polls for ever (OrderGateway's sweep, Logger's worker) and a
\* store becomes visible to it in the end.
FairSpec ==
    /\ Spec
    /\ WF_vars(PopCheckAt(Len(write_idx)))
    /\ WF_vars(PopTake)
    /\ WF_vars(PopFree)
-----------------------------------------------------------------------------
(***************************************************************************)
(* Properties.                                                             *)
(***************************************************************************)
\* Shape of the state: every value ever stored in an index is a slot of
\* buffer_, and a thread's view is a position in the other's stores.
TypeOK ==
    /\ write_idx \in Seq(Slots) /\ Len(write_idx) = Len(pushed) + 1
    /\ read_idx \in Seq(Slots) /\ Len(read_idx) = Len(popped) + 1
    /\ buffer \in [Slots -> Items \cup {NoItem}]
    /\ p_pc \in {"idle", "fill", "publish"} /\ p_item \in Items \cup {NoItem}
    /\ c_pc \in {"idle", "take", "free"} /\ c_out \in Items \cup {NoItem}
    /\ p_view \in 1 .. Len(read_idx)
    /\ c_view \in 1 .. Len(write_idx)
    /\ wrote \in [Slots -> Nat] /\ took \in [Slots -> Nat]
    /\ pushed \in Seq(Items) /\ popped \in Seq(Items)

\* No data race on a slot: when the producer is about to write one, the last
\* pop that read it is among those its acquire load has seen; when the
\* consumer is about to read one, so is the last push that wrote it
\* (lockfree_queue.hpp, "Memory ordering, spelled out").
RaceFree ==
    /\ p_pc = "fill" => took[Latest(write_idx)] <= p_view - 1
    /\ c_pc = "take" => wrote[Latest(read_idx)] <= c_view - 1

\* A call fails exactly when what it sees leaves no choice: whichever value
\* of read_idx_ the next try_push loads, it returns false just if capacity()
\* items were in the ring as of that value; whichever value of write_idx_ the
\* next try_pop loads, just if there was none.
FailuresAreGenuine ==
    /\ p_pc = "idle" =>
         \A k \in p_view .. Len(read_idx) :
            full(Latest(write_idx), read_idx[k]) <=> Len(pushed) - (k - 1) = Capacity - 1
    /\ c_pc = "idle" =>
         \A k \in c_view .. Len(write_idx) :
            Latest(read_idx) = write_idx[k] <=> Len(popped) = k - 1

Chan == INSTANCE Channel WITH sent <- pushed, received <- popped, Bound <- Capacity - 1

\* The ring is a FIFO of at most capacity() = Capacity - 1 items: nothing is
\* lost, repeated, reordered or torn, however stale the loads are.
ImplementsChannel == Chan!Spec

Ends == [pushed |-> Len(pushed), popped |-> Len(popped),
         p_view |-> p_view - 1, c_view |-> c_view - 1]

\* Seen by its two ends, the ring does nothing but what RingEnds allows: the
\* gateway and the logger may be built on RingEnds instead of the ring.
HonoursRingEnds == Ends = NewRing /\ [][RingStep(Ends, Ends', Capacity - 1)]_vars

\* Whatever was pushed is popped in the end, if the consumer keeps polling.
EveryItemArrives ==
    \A n \in 1 .. MaxPushes : Len(pushed) >= n ~> Len(popped) >= n
=============================================================================
