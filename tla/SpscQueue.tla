------------------------------- MODULE SpscQueue -------------------------------
(***************************************************************************)
(* The single-producer single-consumer queue template SpscQueue<T>,        *)
(* src/core/include/rtc/metrics_exporter.h lines 129-225.                 *)
(*                                                                         *)
(* capacity + 1 slots, head_ the consumer's index and tail_ the           *)
(* producer's; a slot is always left empty so that head_ = tail_ means     *)
(* empty.  The release store of one index and the acquire load of it on   *)
(* the other side order the slot accesses, so each atomic access is one    *)
(* step.  push is split after the slot write, before the store of tail_;  *)
(* pop after the slot read, before the store of head_.  The copy and the   *)
(* move overloads of push do the same.  The producer pushes 1, 2, 3, ...,  *)
(* retrying a value push refused as full; 0 is the value-initialised T of *)
(* an unused slot.  empty(), size() and capacity() only read.             *)
(***************************************************************************)
EXTENDS Naturals, Sequences

CONSTANTS
  Capacity,     \* the constructor's capacity argument
  MaxPushes     \* bound on the values the producer pushes

Slots == 0..Capacity   \* buffer_(capacity + 1), capacity_ = capacity + 1

VARIABLES
  buffer,       \* buffer_
  head,         \* head_
  tail,         \* tail_
  pPc,          \* the producer: "idle", or in push before the store of tail_
  pTail,        \* push's current_tail
  pushed,       \* values pushed so far
  cPc,          \* the consumer: "idle", or in pop before the store of head_
  cHead,        \* pop's current_head
  item,         \* pop's item
  popped        \* ghost: the values pop has returned, in order

spscVars == <<buffer, head, tail, pPc, pTail, pushed, cPc, cHead, item, popped>>

\* (i + 1) % capacity_
Succ(i) == (i + 1) % (Capacity + 1)

-----------------------------------------------------------------------------

\* Mutant of PushBegin: the full check is dropped.
PushBeginUnchecked ==
  /\ pPc = "idle" /\ pushed < MaxPushes
  /\ buffer' = [buffer EXCEPT ![tail] = pushed + 1]
  /\ pTail' = tail
  /\ pPc' = "publish"
  /\ UNCHANGED <<head, tail, pushed, cPc, cHead, item, popped>>

\* push, lines 143-153 (and 161-171): current_tail, the full test against
\* head_, and the slot write; a full queue returns false and the value is
\* tried again later.
PushBegin ==
  /\ pPc = "idle" /\ pushed < MaxPushes
  /\ Succ(tail) # head
  /\ buffer' = [buffer EXCEPT ![tail] = pushed + 1]
  /\ pTail' = tail
  /\ pPc' = "publish"
  /\ UNCHANGED <<head, tail, pushed, cPc, cHead, item, popped>>

\* push, lines 154-155: tail_.store(next_tail); return true.
PushPublish ==
  /\ pPc = "publish"
  /\ tail' = Succ(pTail)
  /\ pushed' = pushed + 1
  /\ pPc' = "idle"
  /\ UNCHANGED <<buffer, head, pTail, cPc, cHead, item, popped>>

\* pop, lines 182-189: current_head, the empty test against tail_, and the
\* move out of the slot; an empty queue returns nullopt.
PopBegin ==
  /\ cPc = "idle"
  /\ head # tail
  /\ cHead' = head
  /\ item' = buffer[head]
  /\ cPc' = "release"
  /\ UNCHANGED <<buffer, head, tail, pPc, pTail, pushed, popped>>

\* pop, lines 190-191: head_.store(current_head + 1); return item.
PopRelease ==
  /\ cPc = "release"
  /\ head' = Succ(cHead)
  /\ popped' = Append(popped, item)
  /\ cPc' = "idle"
  /\ UNCHANGED <<buffer, tail, pPc, pTail, pushed, cHead, item>>

-----------------------------------------------------------------------------

\* The constructor, lines 133-137.
Init ==
  /\ buffer = [s \in Slots |-> 0]
  /\ head = 0 /\ tail = 0
  /\ pPc = "idle" /\ pTail = 0 /\ pushed = 0
  /\ cPc = "idle" /\ cHead = 0 /\ item = 0
  /\ popped = << >>

Next == PushBegin \/ PushPublish \/ PopBegin \/ PopRelease

Spec == Init /\ [][Next]_spscVars

-----------------------------------------------------------------------------
(* The refinement: the abstract queue is the slots from head_ up to        *)
(* tail_, and what was taken is what pop has returned.                     *)

\* size(), lines 205-210.
Size == IF tail >= head THEN tail - head ELSE (Capacity + 1) - head + tail

Abstract == INSTANCE Fifo WITH
              queue <- [i \in 1..Size |-> buffer[(head + i - 1) % (Capacity + 1)]],
              taken <- popped

\* Every behaviour of the producer and the consumer, interleaved at their
\* atomic accesses, is one of the bounded FIFO: pop returns exactly the
\* pushed values in push order, none is overwritten before it is popped,
\* and no more than capacity are ever queued.
RefinesFifo == Abstract!Spec

=============================================================================
