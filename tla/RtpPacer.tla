------------------------------- MODULE RtpPacer -------------------------------
(***************************************************************************)
(* The RTP packet pacer, src/unnamed/part_009 lines 270-431 (rtp_pacer.cpp) *)
(* with its declarations in src/core/include/rtc/turn_client.h.            *)
(*                                                                         *)
(* enqueue, clear and the send loop of process() hold queue_mutex; the     *)
(* token refill of process() runs before the lock but touches only state   *)
(* no other method writes, so process() is one action.  A packet is its    *)
(* size, its priority and an id in enqueue order (the payload and the      *)
(* destination are never read).  steady_clock is the integer clock `now`  *)
(* in ms.                                                                  *)
(*                                                                         *)
(* Impl::queue is a std::priority_queue, a binary heap kept by libstdc++'s *)
(* push_heap and pop_heap; the heap is modelled exactly, as the array      *)
(* those algorithms maintain, so the order of packets of equal priority is *)
(* the order the library really produces.                                  *)
(***************************************************************************)
EXTENDS Integers, Sequences, SequencesExt, FiniteSets, Functions

CONSTANTS
  Sizes,         \* packet sizes callers enqueue, in bytes
  Priorities,    \* priorities callers enqueue
  InitBitrate,   \* Config::target_bitrate_bps
  Bitrates,      \* arguments of set_target_bitrate
  BucketSize,    \* Config::bucket_size_bytes
  MaxQueueSize,  \* Config::max_queue_size
  MaxEnqueues,   \* bound on enqueue calls
  MaxTime        \* bound on the clock, in ms

VARIABLES
  now,           \* steady_clock::now(), in ms
  queue,         \* Impl::queue, the heap array
  tokens,        \* Impl::available_tokens
  lastProcess,   \* Impl::last_process_time
  bitrate,       \* Impl::config.target_bitrate_bps
  callbackSet,   \* Impl::send_callback is non-empty
  stats,         \* Impl::stats
  nextId,        \* enqueue calls so far: the id of the next packet
  emitted,       \* ghost: bytes handed to the send callback in each ms
  peakRate,      \* ghost: the highest target bitrate in effect in each ms
  lastOut        \* ghost: the packets popped by the latest step, in order

vars == <<now, queue, tokens, lastProcess, bitrate, callbackSet, stats, nextId,
          emitted, peakRate, lastOut>>

Packet == [id: Nat, size: Sizes, priority: Priorities]

-----------------------------------------------------------------------------
(* Impl::queue.                                                            *)

\* Mutant of Lower: the comparator reversed, a min-heap.
LowerReversed(a, b) == a.priority > b.priority

\* PacketCompare, lines 296-302: a is popped
\* after b when its priority is lower.
Lower(a, b) == a.priority < b.priority

\* The heap array is 0-based in the library; h[i + 1] is its element i.
At(h, i) == h[i + 1]
Put(h, i, v) == [h EXCEPT ![i + 1] = v]

\* std::__push_heap: the hole climbs while its parent is Lower than v.
RECURSIVE SiftUp(_, _, _)
SiftUp(h, hole, v) ==
  LET parent == (hole - 1) \div 2
  IN  IF hole > 0 /\ Lower(At(h, parent), v)
      THEN SiftUp(Put(h, hole, At(h, parent)), parent, v)
      ELSE Put(h, hole, v)

\* std::__adjust_heap: the hole at the root descends to the larger child
\* (the right one unless it is Lower than the left), then v climbs back.
RECURSIVE SiftDown(_, _, _, _)
SiftDown(h, hole, len, v) ==
  IF hole < (len - 1) \div 2
  THEN LET right == 2 * (hole + 1)
           child == IF Lower(At(h, right), At(h, right - 1)) THEN right - 1 ELSE right
       IN  SiftDown(Put(h, hole, At(h, child)), child, len, v)
  ELSE IF len % 2 = 0 /\ hole = (len - 2) \div 2
       THEN SiftUp(Put(h, hole, At(h, 2 * hole + 1)), 2 * hole + 1, v)
       ELSE SiftUp(h, hole, v)

\* priority_queue::push: push_back, then push_heap.
HeapPush(h, v) == SiftUp(Append(h, v), Len(h), v)

\* priority_queue::pop: pop_heap moves the top to the back and re-sifts
\* the old back element from the root, then pop_back.
HeapPop(h) ==
  LET n == Len(h)
  IN  IF n = 1 THEN << >>
      ELSE SubSeq(SiftDown(Put(h, n - 1, h[1]), 0, n - 1, h[n]), 1, n - 1)

-----------------------------------------------------------------------------
(* RtpPacer's methods.                                                     *)

\* set_send_callback, lines 320-323.
SetSendCallback ==
  /\ callbackSet' = TRUE
  /\ lastOut' = << >>
  /\ UNCHANGED <<now, queue, tokens, lastProcess, bitrate, stats, nextId, emitted, peakRate>>

\* enqueue, lines 325-343: a full queue drops the NEW packet.
Enqueue(size, prio) ==
  /\ nextId < MaxEnqueues
  /\ nextId' = nextId + 1
  /\ IF Len(queue) >= MaxQueueSize
     THEN /\ stats' = [stats EXCEPT !.packets_dropped = @ + 1]
          /\ UNCHANGED queue
     ELSE /\ queue' = HeapPush(queue, [id |-> nextId, size |-> size, priority |-> prio])
          /\ UNCHANGED stats
  /\ lastOut' = << >>
  /\ UNCHANGED <<now, tokens, lastProcess, bitrate, callbackSet, emitted, peakRate>>

\* Mutant of Refill: the new balance is not clamped to the bucket.
RefillUnclamped(elapsed) ==
  tokens + ((bitrate \div 8) * elapsed) \div 1000

\* Lines 347-353: tokens for the elapsed ms, clamped to the bucket.
Refill(elapsed) ==
  Min({tokens + ((bitrate \div 8) * elapsed) \div 1000, BucketSize})

\* Mutant of Drain: the loop runs while any token is left, not while the
\* top packet fits.
RECURSIVE DrainWhileTokens(_, _, _)
DrainWhileTokens(h, tok, out) ==
  IF h = << >> \/ tok <= 0
  THEN [heap |-> h, tokens |-> tok, out |-> out]
  ELSE DrainWhileTokens(HeapPop(h), tok - h[1].size, Append(out, h[1]))

\* The send loop of lines 357-382: pop while the top packet fits.
RECURSIVE Drain(_, _, _)
Drain(h, tok, out) ==
  IF h = << >> \/ h[1].size > tok
  THEN [heap |-> h, tokens |-> tok, out |-> out]
  ELSE Drain(HeapPop(h), tok - h[1].size, Append(out, h[1]))

\* process, lines 345-385.  Without a callback the packets are popped and
\* counted as sent all the same.
Process ==
  LET d     == Drain(queue, Refill(now - lastProcess), << >>)
      bytes == FoldLeft(LAMBDA acc, p : acc + p.size, 0, d.out)
  IN  /\ lastProcess' = now
      /\ queue' = d.heap
      /\ tokens' = d.tokens
      /\ stats' = [stats EXCEPT !.packets_sent = @ + Len(d.out),
                                !.bytes_sent = @ + bytes]
      /\ emitted' = IF callbackSet THEN [emitted EXCEPT ![now] = @ + bytes] ELSE emitted
      /\ lastOut' = d.out
      /\ UNCHANGED <<now, bitrate, callbackSet, nextId, peakRate>>

\* set_target_bitrate, lines 387-390 (no lock; a 64-bit store).
SetTargetBitrate(r) ==
  /\ bitrate' = r
  /\ peakRate' = [peakRate EXCEPT ![now] = Max({@, r})]
  /\ lastOut' = << >>
  /\ UNCHANGED <<now, queue, tokens, lastProcess, callbackSet, stats, nextId, emitted>>

\* clear, lines 416-423.
Clear ==
  /\ queue' = << >>
  /\ lastOut' = << >>
  /\ UNCHANGED <<now, tokens, lastProcess, bitrate, callbackSet, stats, nextId, emitted, peakRate>>

\* Time passes.
Tick ==
  /\ now < MaxTime
  /\ now' = now + 1
  /\ peakRate' = [peakRate EXCEPT ![now + 1] = bitrate]
  /\ lastOut' = << >>
  /\ UNCHANGED <<queue, tokens, lastProcess, bitrate, callbackSet, stats, nextId, emitted>>

-----------------------------------------------------------------------------

\* The constructor, lines 309-316: a full bucket.
Init ==
  /\ now = 0
  /\ queue = << >>
  /\ tokens = BucketSize
  /\ lastProcess = 0
  /\ bitrate = InitBitrate
  /\ callbackSet = FALSE
  /\ stats = [packets_sent |-> 0, bytes_sent |-> 0, packets_dropped |-> 0]
  /\ nextId = 0
  /\ emitted = [t \in 0..MaxTime |-> 0]
  /\ peakRate = [t \in 0..MaxTime |-> IF t = 0 THEN InitBitrate ELSE 0]
  /\ lastOut = << >>

\* The enqueuing threads, the pacing thread and the configuration calls.
Next ==
  \/ SetSendCallback
  \/ \E s \in Sizes, p \in Priorities : Enqueue(s, p)
  \/ Process
  \/ \E r \in Bitrates : SetTargetBitrate(r)
  \/ Clear
  \/ Tick

Spec == Init /\ [][Next]_vars

\* process() is documented "call periodically" (turn_client.h): a pacing
\* thread calls it every pacing_interval, and time keeps passing.
LiveSpec == Spec /\ WF_vars(Process) /\ WF_vars(Tick)

-----------------------------------------------------------------------------
(* Properties.                                                             *)

TypeOK ==
  /\ now \in 0..MaxTime
  /\ queue \in Seq(Packet)
  /\ tokens \in 0..BucketSize
  /\ lastProcess \in 0..now
  /\ callbackSet \in BOOLEAN
  /\ nextId \in 0..MaxEnqueues
  /\ lastOut \in Seq(Packet)

\* The packets process() pops come out by priority: each has at least the
\* priority of every packet popped after it in the same call and of every
\* packet it leaves queued (the heap order of push and pop_heap under
\* PacketCompare).
PopsInPriorityOrder ==
  \A i \in 1..Len(lastOut) :
    /\ \A j \in (i + 1)..Len(lastOut) : lastOut[i].priority >= lastOut[j].priority
    /\ \A q \in ToSet(queue) : lastOut[i].priority >= q.priority

\* Spec 4.7: packets of equal priority leave in enqueue (FIFO) order.
TiesInFifoOrder ==
  \A i \in 1..Len(lastOut) :
    /\ \A j \in (i + 1)..Len(lastOut) :
         lastOut[i].priority = lastOut[j].priority => lastOut[i].id < lastOut[j].id
    /\ \A q \in ToSet(queue) :
         lastOut[i].priority = q.priority => lastOut[i].id < q.id

\* The class comment of RtpPacer: packets are queued while tokens are
\* insufficient, and process(), called periodically, sends them as tokens
\* accrue.  So every packet enqueue() accepts that fits in the bucket
\* eventually leaves the queue (sent, or dropped by clear()), whatever
\* else process() finds in the queue.
FittingPacketsLeave ==
  \A i \in 0..(MaxEnqueues - 1) :
    (\E q \in ToSet(queue) : q.id = i /\ q.size <= BucketSize)
      ~> ~(\E q \in ToSet(queue) : q.id = i)

\* Spec property 6, pacer conservation: the bytes process() hands to the
\* send callback in any window of ms [t1, t2] are at most bucket_size plus
\* the window's length at the highest target bitrate in effect in it.
Conservation ==
  \A t1, t2 \in 0..now :
    t1 <= t2 =>
      LET peak == Max({peakRate[t] : t \in t1..t2})
      IN  8000 * SumFunctionOnSet(emitted, t1..t2)
            <= 8000 * BucketSize + peak * (t2 - t1)

=============================================================================
