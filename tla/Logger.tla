------------------------------- MODULE Logger -------------------------------
(***************************************************************************)
(* logger.cpp: a thread that logs, flushes and in the end destroys the     *)
(* logger, and the worker thread that writes the records out.  The queue   *)
(* is taken at RingEnds; a record is the number of the log() call that     *)
(* made it, and records[n] is the n-th one pushed.                         *)
(***************************************************************************)
EXTENDS RingEnds, Sequences

CONSTANTS QueueCapacity,   \* 8192 in the code
          MaxCalls         \* bound: calls of log()

ASSUME QueueAssumption == QueueCapacity \in Nat /\ QueueCapacity >= 2
ASSUME CallsAssumption == MaxCalls \in Nat

VARIABLES
  queue,       \* queue_, as counts
  records,     \* every record pushed
  out,         \* what has been written to *out_
  pushed_count_, processed_count_, dropped_,
  stop,        \* ~jthread has requested stop
  l_pc,        \* "idle" | "count" (in log) | "flush" | "closing" (flush in the
               \* destructor) | "stop" | "join" | "gone"
  f_target, f_view,   \* flush: its target, the count it last saw
  w_pc,        \* "test" | "pop" | "write" | "count" | "exited"
  draining,    \* the worker has left its first loop
  calls, filtered     \* log() calls so far, and those below min_level_

caller == <<pushed_count_, dropped_, stop, l_pc, f_target, f_view, calls, filtered>>
worker == <<out, processed_count_, w_pc, draining>>
vars == <<queue, records, caller, worker>>

Init ==
    /\ queue = NewRing /\ records = <<>> /\ out = <<>>
    /\ pushed_count_ = 0 /\ processed_count_ = 0 /\ dropped_ = 0
    /\ stop = FALSE /\ l_pc = "idle" /\ f_target = 0 /\ f_view = 0
    /\ w_pc = "test" /\ draining = FALSE
    /\ calls = 0 /\ filtered = 0

\* log() below min_level_.
LogFiltered ==
    /\ l_pc = "idle" /\ calls < MaxCalls
    /\ calls' = calls + 1 /\ filtered' = filtered + 1
    /\ UNCHANGED <<queue, records, pushed_count_, dropped_, stop, l_pc, f_target, f_view, worker>>

\* (mutant) Every record is counted, pushed or not.
LogCountingAll(k) ==
    /\ l_pc = "idle" /\ calls < MaxCalls
    /\ k \in PushViews(queue)
    /\ calls' = calls + 1
    /\ queue' = try_push(queue, k, QueueCapacity - 1)
    /\ records' = IF SeesFull(queue, k, QueueCapacity - 1) THEN records
                  ELSE Append(records, calls + 1)
    /\ l_pc' = "count"
    /\ UNCHANGED <<dropped_, pushed_count_, stop, f_target, f_view, filtered, worker>>

\* log() up to its try_push; a full queue drops the record and counts it.
Log(k) ==
    /\ l_pc = "idle" /\ calls < MaxCalls
    /\ k \in PushViews(queue)
    /\ calls' = calls + 1
    /\ queue' = try_push(queue, k, QueueCapacity - 1)
    /\ \/ /\ SeesFull(queue, k, QueueCapacity - 1)
          /\ dropped_' = dropped_ + 1
          /\ UNCHANGED <<records, l_pc>>
       \/ /\ ~SeesFull(queue, k, QueueCapacity - 1)
          /\ records' = Append(records, calls + 1)
          /\ l_pc' = "count"
          /\ UNCHANGED dropped_
    /\ UNCHANGED <<pushed_count_, stop, f_target, f_view, filtered, worker>>

\* pushed_count_.fetch_add after the push: the worker may be ahead of it.
CountPushed ==
    /\ l_pc = "count"
    /\ pushed_count_' = pushed_count_ + 1
    /\ l_pc' = "idle"
    /\ UNCHANGED <<queue, records, dropped_, stop, f_target, f_view, calls, filtered, worker>>

\* flush() reads its target: called by the owner, or by the destructor.
Flush(pc) ==
    /\ l_pc = "idle"
    /\ l_pc' = pc
    /\ f_target' = pushed_count_
    /\ UNCHANGED <<queue, records, pushed_count_, dropped_, stop, f_view, calls, filtered, worker>>

\* One load of processed_count_ by flush; it yields and loads again, or returns.
FlushLoad(k) ==
    /\ l_pc \in {"flush", "closing"}
    /\ k \in f_view .. processed_count_
    /\ f_view' = k
    /\ l_pc' = IF k < f_target THEN l_pc ELSE IF l_pc = "flush" THEN "idle" ELSE "stop"
    /\ UNCHANGED <<queue, records, pushed_count_, dropped_, stop, f_target, calls, filtered, worker>>

\* ~jthread: request_stop, then join.
RequestStop ==
    /\ l_pc = "stop"
    /\ stop' = TRUE /\ l_pc' = "join"
    /\ UNCHANGED <<queue, records, pushed_count_, dropped_, f_target, f_view, calls, filtered, worker>>

\* (mutant) The worker is detached.
JoinDetached ==
    /\ l_pc = "join"
    /\ l_pc' = "gone"
    /\ UNCHANGED <<queue, records, pushed_count_, dropped_, stop, f_target, f_view, calls, filtered, worker>>

Join ==
    /\ l_pc = "join" /\ w_pc = "exited"
    /\ l_pc' = "gone"
    /\ UNCHANGED <<queue, records, pushed_count_, dropped_, stop, f_target, f_view, calls, filtered, worker>>

\* worker_loop: stop_requested(), which may not see the request at once; when
\* it does, the pushes before the request are seen with it.
TestStop(requested) ==
    /\ w_pc = "test"
    /\ requested => stop
    /\ draining' = requested
    /\ w_pc' = "pop"
    /\ queue' = IF requested THEN PopLoad(queue, queue.pushed) ELSE queue
    /\ UNCHANGED <<records, out, processed_count_, caller>>

\* try_pop of either loop.  Nothing there: the first loop sleeps and tests
\* again, the second ends the thread.
Pop(k) ==
    /\ w_pc = "pop"
    /\ k \in PopViews(queue)
    /\ queue' = try_pop(queue, k)
    /\ w_pc' = IF ~SeesEmpty(queue, k) THEN "write"
               ELSE IF draining THEN "exited" ELSE "test"
    /\ UNCHANGED <<records, out, processed_count_, draining, caller>>

\* (mutant) The record is counted before it is written.
WriteCountingFirst ==
    /\ w_pc = "write"
    /\ IF processed_count_ < queue.popped
       THEN processed_count_' = processed_count_ + 1 /\ UNCHANGED <<out, w_pc>>
       ELSE /\ out' = Append(out, records[queue.popped])
            /\ w_pc' = IF draining THEN "pop" ELSE "test"
            /\ UNCHANGED processed_count_
    /\ UNCHANGED <<queue, records, draining, caller>>

\* write_record: the write, then its count.
Write ==
    /\ w_pc = "write"
    /\ out' = Append(out, records[queue.popped])
    /\ w_pc' = "count"
    /\ UNCHANGED <<queue, records, processed_count_, draining, caller>>

CountProcessed ==
    /\ w_pc = "count"
    /\ processed_count_' = processed_count_ + 1
    /\ w_pc' = IF draining THEN "pop" ELSE "test"
    /\ UNCHANGED <<queue, records, out, draining, caller>>

Caller ==
    \/ LogFiltered
    \/ \E k \in PushViews(queue) : Log(k)
    \/ CountPushed
    \/ \E pc \in {"flush", "closing"} : Flush(pc)
    \/ \E k \in f_view .. processed_count_ : FlushLoad(k)
    \/ RequestStop \/ Join

Worker ==
    \/ \E requested \in BOOLEAN : TestStop(requested)
    \/ \E k \in PopViews(queue) : Pop(k)
    \/ Write \/ CountProcessed

Gone == l_pc = "gone" /\ UNCHANGED vars

Next == Caller \/ Worker \/ Gone

Spec == Init /\ [][Next]_vars

\* Both threads run and see each other's stores in the end; whether the
\* owner logs, flushes or destroys is its own choice.
FairSpec ==
    /\ Spec
    /\ WF_vars(CountPushed)
    /\ WF_vars(FlushLoad(processed_count_))
    /\ WF_vars(RequestStop) /\ WF_vars(Join)
    /\ WF_vars(Worker)
    /\ SF_vars(Pop(queue.pushed)) /\ SF_vars(TestStop(TRUE))
-----------------------------------------------------------------------------
(***************************************************************************)
(* Properties.                                                             *)
(***************************************************************************)
\* "Blocks until every record pushed before this call has been written out"
\* (logger.hpp): when flush returns, the output is every record pushed, in
\* order, though the worker's count may have run ahead of pushed_count_.
FlushCovers ==
    [][(l_pc = "flush" \/ l_pc = "closing") /\ l_pc' # l_pc => out = records]_vars

\* After destruction the worker touches nothing any more, and every log()
\* call has been written, filtered, or dropped and counted.
ShutdownComplete ==
    l_pc = "gone" =>
        /\ w_pc = "exited"
        /\ out = records
        /\ calls = filtered + dropped_ + Len(out)

\* flush and the destructor return, whatever they find in the queue.
LoggerReturns ==
    l_pc \in {"flush", "closing", "stop", "join"} ~> l_pc \in {"idle", "gone"}
=============================================================================
