---------------------------- MODULE AudioRingBuffer ----------------------------
(***************************************************************************)
(* The audio sample ring buffer, src/unnamed/part_007 (lock_free_queue.cpp) *)
(* lines 15-102, declared in src/core/include/rtc/metrics_exporter.h lines *)
(* 317-355.                                                                 *)
(*                                                                         *)
(* One producer calls write and one consumer calls read.  Each loads its   *)
(* own position relaxed and the other's with acquire, copies in or out in *)
(* up to two parts, and publishes its new position with a release store:  *)
(* a call is split at that store.  The producer writes the samples 1, 2,  *)
(* 3, ... in order; 0 is the zero-initialised vector.  available() and    *)
(* space() only read.  clear() is left out: it stores both positions,     *)
(* relaxed, and the header does not say which thread may call it or when. *)
(***************************************************************************)
EXTENDS Naturals, Sequences

CONSTANTS
  Capacity,     \* capacity_samples
  Counts,       \* count arguments of write and read
  MaxSamples    \* bound on the samples the producer writes

Positions == 0..(Capacity - 1)

VARIABLES
  rbuf,         \* Impl::buffer
  readPos,      \* Impl::read_pos
  writePos,     \* Impl::write_pos
  wPc,          \* the producer: "idle", or in write before its store
  wPos,         \* write's write_pos
  wN,           \* write's to_write
  written,      \* samples written so far
  rPc,          \* the consumer: "idle", or in read before its store
  rPos,         \* read's read_pos
  rN,           \* read's to_read
  readOut       \* ghost: the samples read has returned, in order

ringVars == <<rbuf, readPos, writePos, wPc, wPos, wN, written, rPc, rPos, rN, readOut>>

MinOf(a, b) == IF a < b THEN a ELSE b

\* Lines 37-38: available_space from the two positions.
SpaceFor(rp, wp) == IF rp > wp THEN rp - wp - 1 ELSE Capacity - wp + rp - 1

\* Lines 61-62: available from the two positions.
AvailableFor(rp, wp) == IF wp >= rp THEN wp - rp ELSE Capacity - rp + wp

\* How far position p lies past write_pos, going round.
Ahead(p) == (p - writePos + Capacity) % Capacity

-----------------------------------------------------------------------------

\* Mutant of WriteBegin: the free space counted without the empty slot.
WriteBeginFull(count) ==
  LET n == MinOf(count, SpaceFor(readPos, writePos) + 1)
  IN  /\ wPc = "idle" /\ written + count <= MaxSamples /\ n > 0
      /\ rbuf' = [p \in Positions |->
                    IF Ahead(p) < n THEN written + 1 + Ahead(p) ELSE rbuf[p]]
      /\ wPos' = writePos /\ wN' = n /\ wPc' = "store"
      /\ UNCHANGED <<readPos, writePos, written, rPc, rPos, rN, readOut>>

\* write, lines 32-50: to_write = min(count, available_space); nothing to
\* write returns 0; otherwise the samples are copied from write_pos on,
\* wrapping to 0 (the two memcpy calls).
WriteBegin(count) ==
  LET n == MinOf(count, SpaceFor(readPos, writePos))
  IN  /\ wPc = "idle" /\ written + count <= MaxSamples /\ n > 0
      /\ rbuf' = [p \in Positions |->
                    IF Ahead(p) < n THEN written + 1 + Ahead(p) ELSE rbuf[p]]
      /\ wPos' = writePos /\ wN' = n /\ wPc' = "store"
      /\ UNCHANGED <<readPos, writePos, written, rPc, rPos, rN, readOut>>

\* write, lines 52-53: write_pos.store((write_pos + to_write) % capacity).
WriteStore ==
  /\ wPc = "store"
  /\ writePos' = (wPos + wN) % Capacity
  /\ written' = written + wN
  /\ wPc' = "idle"
  /\ UNCHANGED <<rbuf, readPos, wPos, wN, rPc, rPos, rN, readOut>>

\* read, lines 56-74: to_read = min(count, available); nothing to read
\* returns 0; otherwise the samples are copied out at the store.
ReadBegin(count) ==
  LET n == MinOf(count, AvailableFor(readPos, writePos))
  IN  /\ rPc = "idle" /\ n > 0
      /\ rPos' = readPos /\ rN' = n /\ rPc' = "store"
      /\ UNCHANGED <<rbuf, readPos, writePos, wPc, wPos, wN, written, readOut>>

\* read, lines 68-77: the samples from read_pos on, then
\* read_pos.store((read_pos + to_read) % capacity).  The copy happens before
\* the store, and the producer does not touch these positions meanwhile.
ReadStore ==
  /\ rPc = "store"
  /\ readOut' = readOut \o [i \in 1..rN |-> rbuf[(rPos + i - 1) % Capacity]]
  /\ readPos' = (rPos + rN) % Capacity
  /\ rPc' = "idle"
  /\ UNCHANGED <<rbuf, writePos, wPc, wPos, wN, written, rPos, rN>>

-----------------------------------------------------------------------------

\* The constructor, lines 22-28: a zeroed buffer, both positions 0.
Init ==
  /\ rbuf = [p \in Positions |-> 0]
  /\ readPos = 0 /\ writePos = 0
  /\ wPc = "idle" /\ wPos = 0 /\ wN = 0 /\ written = 0
  /\ rPc = "idle" /\ rPos = 0 /\ rN = 0
  /\ readOut = << >>

\* The producer's writes and the consumer's reads.
Next ==
  \/ \E c \in Counts : WriteBegin(c)
  \/ WriteStore
  \/ \E c \in Counts : ReadBegin(c)
  \/ ReadStore

Spec == Init /\ [][Next]_ringVars

-----------------------------------------------------------------------------
(* The refinement: the abstract queue is the samples from read_pos up to   *)
(* write_pos, as available() counts them.                                  *)

Abstract == INSTANCE Fifo WITH
              Capacity <- Capacity - 1,
              queue <- [i \in 1..AvailableFor(readPos, writePos) |->
                          rbuf[(readPos + i - 1) % Capacity]],
              taken <- readOut

\* Every interleaving of write and read calls is a behaviour of the
\* bounded FIFO of capacity - 1 samples: read returns exactly the written
\* samples in order, a write never overruns samples not yet read, and a
\* read never returns a position not yet written.
RefinesFifo == Abstract!Spec

=============================================================================
