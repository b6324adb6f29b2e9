---------------------------- MODULE LoggerProofs ----------------------------
(***************************************************************************)
(* For any queue capacity and any number of log() calls: flush returns only *)
(* when everything pushed has been written in order, and destruction leaves *)
(* no record unaccounted for.                                              *)
(***************************************************************************)
EXTENDS Logger, SharedLemmas

\* Time limits of the provers, for the larger steps.
USE SMTT(30), ZenonT(30)

Types ==
    /\ InStep(queue)
    /\ records \in Seq(Nat) /\ out \in Seq(Nat)
    /\ pushed_count_ \in Nat /\ processed_count_ \in Nat /\ dropped_ \in Nat
    /\ calls \in Nat /\ filtered \in Nat /\ f_view \in Nat /\ f_target \in Nat
    /\ l_pc \in {"idle", "count", "flush", "closing", "stop", "join", "gone"}
    /\ w_pc \in {"test", "pop", "write", "count", "exited"}

\* How far each count lags behind what it counts, by program counter; and
\* once the destructor's flush is over there is nothing left to write.
Counts ==
    /\ Len(records) = queue.pushed
    /\ Len(out) = IF w_pc = "write" THEN queue.popped - 1 ELSE queue.popped
    /\ processed_count_ = IF w_pc = "count" THEN Len(out) - 1 ELSE Len(out)
    /\ pushed_count_ = IF l_pc = "count" THEN Len(records) - 1 ELSE Len(records)
    /\ f_view <= processed_count_
    /\ l_pc \in {"flush", "closing"} => f_target = pushed_count_
    /\ l_pc \in {"stop", "join", "gone"} => processed_count_ = Len(records)
    /\ calls = filtered + dropped_ + Len(records)

\* The output is a prefix of what was pushed.
Prefix == \A j \in 1..Len(out) : out[j] = records[j]

LogInv == Types /\ Counts /\ Prefix /\ (l_pc = "gone" => w_pc = "exited")

\* The logger is constructed with an empty queue and nothing counted.
LEMMA InitLog == Init => LogInv
<1> SUFFICES ASSUME Init PROVE LogInv
  OBVIOUS
<1>1. InStep(queue) /\ queue.pushed = 0 /\ queue.popped = 0
  BY FreshLoad DEF Init, NewRing
<1>2. records = <<>> /\ out = <<>> /\ l_pc = "idle" /\ w_pc = "test"
      /\ pushed_count_ = 0 /\ processed_count_ = 0 /\ dropped_ = 0 /\ calls = 0
      /\ filtered = 0 /\ f_view = 0 /\ f_target = 0
  BY DEF Init
<1>3. Types /\ Counts
  BY <1>1, <1>2 DEF Types, Counts
<1> QED
  BY <1>2, <1>3 DEF LogInv, Prefix

\* Nothing is counted that is not written, or written that is not pushed.
LEMMA Bounds ==
    ASSUME LogInv
    PROVE  /\ queue.pushed \in Nat /\ queue.popped \in Nat
           /\ Len(records) \in Nat /\ Len(out) \in Nat
           /\ queue.popped <= queue.pushed
           /\ processed_count_ <= Len(out) /\ Len(out) <= Len(records)
           /\ calls \in Nat /\ filtered \in Nat /\ dropped_ \in Nat
           /\ pushed_count_ \in Nat /\ processed_count_ \in Nat
           /\ calls = filtered + dropped_ + Len(records)
<1>1. queue.pushed \in Nat /\ queue.popped \in Nat /\ queue.c_view \in Nat
      /\ queue.popped <= queue.c_view /\ queue.c_view <= queue.pushed
  BY DEF LogInv, Types, InStep, Ring
<1>2. Len(records) \in Nat /\ Len(out) \in Nat
  BY DEF LogInv, Types
<1>3. /\ Len(records) = queue.pushed
      /\ Len(out) = queue.popped \/ Len(out) = queue.popped - 1
      /\ processed_count_ = Len(out) \/ processed_count_ = Len(out) - 1
  BY DEF LogInv, Counts
<1>4. /\ calls \in Nat /\ filtered \in Nat /\ dropped_ \in Nat
      /\ pushed_count_ \in Nat /\ processed_count_ \in Nat
      /\ calls = filtered + dropped_ + Len(records)
  BY DEF LogInv, Types, Counts
<1> QED
  BY <1>1, <1>2, <1>3, <1>4

\* Equal counts mean equal contents.
LEMMA AllWritten ==
    ASSUME LogInv, processed_count_ >= Len(records)
    PROVE  out = records /\ processed_count_ = Len(records)
<1>1. processed_count_ \in Nat
  BY DEF LogInv, Types
<1>2. Len(out) = Len(records) /\ processed_count_ = Len(records)
  BY <1>1, Bounds
<1>3. /\ out \in Seq(Nat) /\ records \in Seq(Nat)
      /\ \A j \in 1..Len(out) : out[j] = records[j]
  BY DEF LogInv, Types, Prefix
<1>4. /\ out = [j \in 1..Len(out) |-> out[j]]
      /\ records = [j \in 1..Len(records) |-> records[j]]
  BY <1>3
<1>5. [j \in 1..Len(out) |-> out[j]] = [j \in 1..Len(out) |-> records[j]]
  BY <1>3, Zenon
<1> QED
  BY <1>2, <1>4, <1>5

-----------------------------------------------------------------------------
\* log: a record that is pushed, or dropped because the queue is full.
LEMMA LogKeeps ==
    ASSUME LogInv, NEW k \in PushViews(queue), Log(k)
    PROVE  LogInv'
<1> DEFINE full == SeesFull(queue, k, QueueCapacity - 1)
<1>1. /\ l_pc = "idle" /\ calls' = calls + 1 /\ UNCHANGED worker
      /\ queue' = try_push(queue, k, QueueCapacity - 1)
      /\ pushed_count_' = pushed_count_ /\ f_target' = f_target
      /\ f_view' = f_view /\ filtered' = filtered
  BY DEF Log
<1>2. w_pc' = w_pc /\ out' = out /\ processed_count_' = processed_count_
  BY <1>1 DEF worker
<1>3. /\ InStep(queue') /\ queue'.popped = queue.popped
      /\ queue'.pushed = IF full THEN queue.pushed ELSE queue.pushed + 1
  BY <1>1, PushFacts DEF LogInv, Types
<1>4. CASE full
  <2>1. dropped_' = dropped_ + 1 /\ records' = records /\ l_pc' = "idle"
    BY <1>1, <1>4 DEF Log
  <2>2. Types'
    BY <1>1, <1>2, <1>3, <2>1 DEF LogInv, Types
  <2>3. Counts'
    <3>1. calls' = filtered' + dropped_' + Len(records')
      BY <1>1, <2>1, Bounds
    <3> QED
      BY Zenon, <1>1, <1>2, <1>3, <1>4, <2>1, <3>1 DEF LogInv, Counts
  <2> QED
    BY <1>1, <1>2, <2>1, <2>2, <2>3 DEF LogInv, Prefix
<1>5. CASE ~full
  <2>1. dropped_' = dropped_ /\ records' = Append(records, calls + 1) /\ l_pc' = "count"
    BY <1>5 DEF Log
  <2>2. records \in Seq(Nat) /\ calls + 1 \in Nat
    BY DEF LogInv, Types
  <2>3. /\ records' \in Seq(Nat) /\ Len(records') = Len(records) + 1
        /\ \A j \in 1..Len(records) : records'[j] = records[j]
    BY <2>1, <2>2
  <2>4. Types'
    BY <1>1, <1>2, <1>3, <2>1, <2>2, <2>3 DEF LogInv, Types
  <2>5. Counts'
    <3>1. calls' = filtered' + dropped_' + Len(records')
      <4>1. /\ calls \in Nat /\ filtered \in Nat /\ dropped_ \in Nat /\ Len(records) \in Nat
            /\ calls = filtered + dropped_ + Len(records)
        BY Bounds
      <4>2. /\ calls' = calls + 1 /\ filtered' = filtered /\ dropped_' = dropped_
            /\ Len(records') = Len(records) + 1
        BY <1>1, <2>1, <2>3
      <4> QED
        BY <4>1, <4>2
    <3>2. Len(records') = queue'.pushed /\ pushed_count_' = Len(records') - 1
      BY <1>1, <1>3, <1>5, <2>3, Bounds DEF LogInv, Counts
    <3> QED
      BY <1>1, <1>2, <1>3, <2>1, <3>1, <3>2 DEF LogInv, Counts
  <2>6. \A j \in 1..Len(out) : j \in 1..Len(records)
    BY Bounds
  <2>7. Prefix'
    BY <1>2, <2>3, <2>6 DEF LogInv, Prefix
  <2> QED
    BY <2>1, <2>4, <2>5, <2>7 DEF LogInv
<1> QED
  BY <1>4, <1>5

\* flush: it leaves its loop only with a count that covers its target.
LEMMA FlushLoadKeeps ==
    ASSUME LogInv, NEW k \in f_view .. processed_count_, FlushLoad(k)
    PROVE  /\ LogInv'
           /\ l_pc' # l_pc => out = records
<1>1. /\ l_pc \in {"flush", "closing"} /\ f_view' = k /\ queue' = queue
      /\ l_pc' = (IF k < f_target THEN l_pc ELSE IF l_pc = "flush" THEN "idle" ELSE "stop")
      /\ records' = records /\ pushed_count_' = pushed_count_ /\ dropped_' = dropped_
      /\ f_target' = f_target /\ calls' = calls /\ filtered' = filtered
      /\ w_pc' = w_pc /\ out' = out /\ processed_count_' = processed_count_
  BY DEF FlushLoad, worker
<1>2. k \in Nat /\ k <= processed_count_ /\ f_target = Len(records) /\ Len(records) \in Nat
  <2>1. f_target = Len(records)
    BY <1>1 DEF LogInv, Counts
  <2> QED
    BY <2>1, Bounds DEF LogInv, Types
<1>3. l_pc' # l_pc => out = records /\ processed_count_ = Len(records)
  <2>1. l_pc' # l_pc => ~(k < f_target)
    BY <1>1
  <2>2. l_pc' # l_pc => processed_count_ >= Len(records)
    BY <1>2, <2>1 DEF LogInv, Types
  <2> QED
    BY <2>2, AllWritten
<1>4. l_pc' \in {"idle", "flush", "closing", "stop"} /\ (l_pc' = "stop" => l_pc' # l_pc)
  BY <1>1
<1>5. Types'
  BY <1>1, <1>2, <1>4 DEF LogInv, Types
<1>6. Counts'
  BY <1>1, <1>2, <1>3, <1>4 DEF LogInv, Counts
<1> QED
  BY <1>1, <1>3, <1>4, <1>5, <1>6 DEF LogInv, Prefix

\* The caller's other steps: a filtered record, the count of pushes, the begin of a
\* flush and the destructor.
LEMMA CallerKeeps ==
    ASSUME LogInv, LogFiltered \/ CountPushed \/ RequestStop \/ Join
                   \/ \E pc \in {"flush", "closing"} : Flush(pc)
    PROVE  LogInv'
<1>1. /\ queue' = queue /\ records' = records /\ w_pc' = w_pc /\ out' = out
      /\ processed_count_' = processed_count_ /\ f_view' = f_view /\ dropped_' = dropped_
  BY DEF LogFiltered, CountPushed, RequestStop, Join, Flush, worker
<1>2. Prefix'
  BY <1>1 DEF LogInv, Prefix
<1>3. CASE LogFiltered
  <2>1. /\ calls' = calls + 1 /\ filtered' = filtered + 1 /\ l_pc' = l_pc
        /\ pushed_count_' = pushed_count_ /\ f_target' = f_target
    BY <1>3 DEF LogFiltered
  <2>2. calls' \in Nat /\ filtered' \in Nat /\ calls' = filtered' + dropped_' + Len(records')
    <3>1. /\ calls \in Nat /\ filtered \in Nat /\ dropped_ \in Nat /\ Len(records) \in Nat
          /\ calls = filtered + dropped_ + Len(records)
      BY Bounds
    <3>2. /\ calls' = calls + 1 /\ filtered' = filtered + 1 /\ dropped_' = dropped_
          /\ Len(records') = Len(records)
      BY <1>1, <2>1
    <3> QED
      BY <3>1, <3>2
  <2> QED
    BY Zenon, <1>1, <1>2, <2>1, <2>2 DEF LogInv, Types, Counts
<1>4. CASE CountPushed
  <2>1. /\ pushed_count_' = pushed_count_ + 1 /\ l_pc = "count" /\ l_pc' = "idle"
        /\ calls' = calls /\ filtered' = filtered /\ f_target' = f_target
    BY <1>4 DEF CountPushed
  <2>2. pushed_count_ = Len(records) - 1
    BY <2>1 DEF LogInv, Counts
  <2>3. pushed_count_' \in Nat /\ pushed_count_' = Len(records')
    BY <1>1, <2>1, <2>2, Bounds
  <2> QED
    BY Zenon, <1>1, <1>2, <2>1, <2>3 DEF LogInv, Types, Counts
<1>5. CASE RequestStop
  BY Zenon, <1>1, <1>2, <1>5 DEF RequestStop, LogInv, Types, Counts
<1>6. CASE Join
  BY Zenon, <1>1, <1>2, <1>6 DEF Join, LogInv, Types, Counts
<1>7. CASE \E pc \in {"flush", "closing"} : Flush(pc)
  BY Zenon, <1>1, <1>2, <1>7 DEF Flush, LogInv, Types, Counts
<1> QED
  BY <1>3, <1>4, <1>5, <1>6, <1>7

\* The worker takes the next record.
LEMMA PopKeeps ==
    ASSUME LogInv, NEW k \in PopViews(queue), Pop(k)
    PROVE  LogInv'
<1>1. /\ w_pc = "pop" /\ queue' = try_pop(queue, k) /\ records' = records /\ out' = out
      /\ processed_count_' = processed_count_ /\ UNCHANGED caller
      /\ w_pc' = IF ~SeesEmpty(queue, k) THEN "write" ELSE IF draining THEN "exited" ELSE "test"
  BY DEF Pop
<1>2. /\ pushed_count_' = pushed_count_ /\ dropped_' = dropped_ /\ l_pc' = l_pc
      /\ f_target' = f_target /\ f_view' = f_view /\ calls' = calls /\ filtered' = filtered
  BY <1>1 DEF caller
<1>3. /\ InStep(queue') /\ queue'.pushed = queue.pushed
      /\ queue'.popped = IF SeesEmpty(queue, k) THEN queue.popped ELSE queue.popped + 1
  BY <1>1, PopFacts DEF LogInv, Types
<1>4. Types'
  BY <1>1, <1>2, <1>3 DEF LogInv, Types
<1>5. Len(out) = queue.popped /\ processed_count_ = Len(out)
  BY <1>1 DEF LogInv, Counts
<1>6. Len(out') = IF w_pc' = "write" THEN queue'.popped - 1 ELSE queue'.popped
  BY <1>1, <1>3, <1>5, Bounds
<1>7. Counts'
  BY <1>1, <1>2, <1>3, <1>5, <1>6 DEF LogInv, Counts
<1>8. l_pc' = "gone" => w_pc' = "exited"
  BY <1>1, <1>2 DEF LogInv
<1> QED
  BY <1>1, <1>4, <1>7, <1>8 DEF LogInv, Prefix

\* The record popped last is the next one to be written.
LEMMA WriteKeeps ==
    ASSUME LogInv, Write
    PROVE  LogInv'
<1>1. /\ w_pc = "write" /\ w_pc' = "count" /\ out' = Append(out, records[queue.popped])
      /\ queue' = queue /\ records' = records /\ processed_count_' = processed_count_
      /\ UNCHANGED caller
  BY DEF Write
<1>2. /\ pushed_count_' = pushed_count_ /\ dropped_' = dropped_ /\ l_pc' = l_pc
      /\ f_target' = f_target /\ f_view' = f_view /\ calls' = calls /\ filtered' = filtered
  BY <1>1 DEF caller
<1>3. Len(out) + 1 = queue.popped /\ processed_count_ = Len(out) /\ Len(records) = queue.pushed
  BY <1>1, Bounds DEF LogInv, Counts
<1>4. records \in Seq(Nat) /\ out \in Seq(Nat)
  BY DEF LogInv, Types
<1>5. queue.popped \in 1..Len(records) /\ records[queue.popped] \in Nat
  <2>1. queue.popped \in 1..Len(records)
    BY <1>3, Bounds
  <2> QED
    BY <1>4, <2>1
<1>6. /\ out' \in Seq(Nat) /\ Len(out') = Len(out) + 1
      /\ \A j \in 1..Len(out) : out'[j] = out[j]
      /\ out'[Len(out) + 1] = records[queue.popped]
  BY <1>1, <1>4, <1>5
<1>7. Types'
  BY <1>1, <1>2, <1>6 DEF LogInv, Types
<1>8. processed_count_' = Len(out') - 1 /\ Len(out') = queue'.popped
  BY <1>1, <1>3, <1>6, Bounds
<1>9. Counts'
  BY <1>1, <1>2, <1>8 DEF LogInv, Counts
<1>10. Prefix'
  <2> SUFFICES ASSUME NEW j \in 1..Len(out') PROVE out'[j] = records'[j]
    BY DEF Prefix
  <2>1. j \in 1..Len(out) \/ j = Len(out) + 1
    BY <1>6, Bounds
  <2> QED
    BY <1>1, <1>3, <1>6, <2>1 DEF LogInv, Prefix
<1>11. l_pc' # "gone"
  BY <1>1, <1>2 DEF LogInv
<1> QED
  BY <1>7, <1>9, <1>10, <1>11 DEF LogInv

\* The worker counts a record as processed or tests for the stop request.
LEMMA WorkerKeeps ==
    ASSUME LogInv, CountProcessed \/ \E requested \in BOOLEAN : TestStop(requested)
    PROVE  LogInv'
<1>1. records' = records /\ out' = out /\ UNCHANGED caller
  BY DEF CountProcessed, TestStop
<1>2. /\ pushed_count_' = pushed_count_ /\ dropped_' = dropped_ /\ l_pc' = l_pc
      /\ f_target' = f_target /\ f_view' = f_view /\ calls' = calls /\ filtered' = filtered
  BY <1>1 DEF caller
<1>3. CASE CountProcessed
  <2>1. /\ w_pc = "count" /\ w_pc' \in {"pop", "test"} /\ queue' = queue
        /\ processed_count_' = processed_count_ + 1
    BY <1>3 DEF CountProcessed
  <2>2. processed_count_ = Len(out) - 1 /\ l_pc # "gone"
    BY <2>1 DEF LogInv, Counts
  <2>3. processed_count_' = Len(out') /\ processed_count_' \in Nat
    BY <1>1, <2>1, <2>2, Bounds
  <2>4. l_pc \notin {"stop", "join", "gone"}
    BY <2>2, Bounds DEF LogInv, Counts
  <2>5. f_view' <= processed_count_'
    BY <1>2, <2>1, Bounds DEF LogInv, Counts, Types
  <2>6. Types'
    BY <1>1, <1>2, <2>1, <2>3 DEF LogInv, Types
  <2>7. Counts'
    BY <1>1, <1>2, <2>1, <2>3, <2>4, <2>5 DEF LogInv, Counts
  <2> QED
    BY <1>1, <1>2, <2>2, <2>6, <2>7 DEF LogInv, Prefix
<1>4. CASE \E requested \in BOOLEAN : TestStop(requested)
  <2>1. /\ w_pc = "test" /\ w_pc' = "pop" /\ processed_count_' = processed_count_
        /\ queue' = queue \/ queue' = PopLoad(queue, queue.pushed)
    BY <1>4 DEF TestStop
  <2>2. InStep(queue) /\ queue.pushed \in PopViews(queue)
    BY FreshLoad DEF LogInv, Types
  <2>3. InStep(queue') /\ queue'.pushed = queue.pushed /\ queue'.popped = queue.popped
    BY <2>1, <2>2, PopFacts
  <2>4. Types'
    BY <1>1, <1>2, <2>1, <2>3 DEF LogInv, Types
  <2>5. Counts'
    BY <1>1, <1>2, <2>1, <2>3 DEF LogInv, Counts
  <2>6. l_pc' # "gone"
    BY <1>2, <2>1 DEF LogInv
  <2> QED
    BY <1>1, <2>4, <2>5, <2>6 DEF LogInv, Prefix
<1> QED
  BY <1>3, <1>4

\* Every step of either thread keeps the invariant.
LEMMA NextLog == LogInv /\ [Next]_vars => LogInv'
<1> SUFFICES ASSUME LogInv, [Next]_vars PROVE LogInv'
  OBVIOUS
<1>1. CASE UNCHANGED vars
  BY Zenon, <1>1 DEF vars, caller, worker, LogInv, Types, Counts, Prefix
<1>2. CASE Caller
  BY <1>2, LogKeeps, FlushLoadKeeps, CallerKeeps DEF Caller
<1>3. CASE Worker
  BY <1>3, PopKeeps, WriteKeeps, WorkerKeeps DEF Worker
<1> QED
  BY <1>1, <1>2, <1>3 DEF Next, Gone

\* When flush returns, all that was pushed has been written, in order.
THEOREM FlushIsComplete == Spec => FlushCovers
<1> DEFINE Covered == (l_pc = "flush" \/ l_pc = "closing") /\ l_pc' # l_pc => out = records
<1>1. LogInv /\ [Next]_vars => [Covered]_vars
  <2> SUFFICES ASSUME LogInv, Next, l_pc \in {"flush", "closing"}, l_pc' # l_pc
               PROVE  out = records
    OBVIOUS
  <2>1. ~Worker /\ ~Gone
    BY DEF Worker, Gone, TestStop, Pop, Write, CountProcessed, caller, vars
  <2>2. \E k \in f_view .. processed_count_ : FlushLoad(k)
    BY <2>1 DEF Next, Caller, LogFiltered, Log, CountPushed, Flush, RequestStop, Join
  <2> QED
    BY <2>2, FlushLoadKeeps
<1> QED
  BY <1>1, InitLog, NextLog, PTL DEF Spec, FlushCovers

\* A destroyed logger has written every record it did not drop, and its
\* worker is gone.
THEOREM ShutdownIsComplete == Spec => []ShutdownComplete
<1>1. LogInv => ShutdownComplete
  <2> SUFFICES ASSUME LogInv, l_pc = "gone"
               PROVE  w_pc = "exited" /\ out = records /\ calls = filtered + dropped_ + Len(out)
    BY DEF ShutdownComplete
  <2>1. processed_count_ = Len(records) /\ w_pc = "exited"
    BY DEF LogInv, Counts
  <2>2. out = records
    BY <2>1, Bounds, AllWritten
  <2> QED
    BY <2>1, <2>2, Bounds
<1> QED
  BY <1>1, InitLog, NextLog, PTL DEF Spec
=============================================================================
