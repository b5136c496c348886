----------------------------- MODULE JitterBuffer -----------------------------
(***************************************************************************)
(* The audio jitter buffer, src/unnamed/part_014 lines 1-240               *)
(* (jitter_buffer.cpp).                                                    *)
(*                                                                         *)
(* Every public method holds impl_->mutex for its whole body, so each is   *)
(* one action.  A frame is its RTP sequence number and arrival time: the   *)
(* payload and the RTP timestamp are never read by the buffer.             *)
(* steady_clock is the integer clock `now`, in ms, advanced by Tick.       *)
(*                                                                         *)
(* jitter_estimate is a float updated by j += (diff - j) / 16.  With at    *)
(* most MaxPushes (<= 5) updates of integer diffs below 8 its value is a   *)
(* multiple of 16^-5 below 8, which a float holds exactly, so the model    *)
(* keeps it exactly as the integer `jitter` = j * JitterScale.             *)
(***************************************************************************)
EXTENDS Integers, Sequences, SequencesExt, FiniteSets

CONSTANTS
  Arrivals,        \* the sequence numbers the network delivers
  MinDelay,        \* JitterBufferConfig::min_delay, in ms
  MaxDelay,        \* JitterBufferConfig::max_delay, in ms
  TargetDelay,     \* JitterBufferConfig::target_delay, in ms
  MaxPackets,      \* JitterBufferConfig::max_packets
  EnableAdaptive,  \* JitterBufferConfig::enable_adaptive
  SetDelays,       \* the arguments callers pass to set_target_delay
  MaxPushes,       \* bound on push calls
  MaxTime          \* bound on the clock

ASSUME MaxPushes \in 0..5 /\ MaxTime \in 0..7

Seq16 == 0..65535
Mod16(x) == x % 65536
Int16(x) == IF Mod16(x) >= 32768 THEN Mod16(x) - 65536 ELSE Mod16(x)

\* Fixed-point scale of the jitter estimate: 16^5.
JitterScale == 1048576

VARIABLES
  now,                  \* steady_clock::now(), in ms
  buffer,               \* Impl::buffer: frames [seq, arrival]
  expectedSequence,     \* Impl::expected_sequence
  sequenceInitialized,  \* Impl::sequence_initialized
  playoutStart,         \* Impl::playout_start
  playoutStarted,       \* Impl::playout_started
  stats,                \* Impl::stats (the counters and target_delay)
  jitter,               \* Impl::jitter_estimate * JitterScale
  lastArrivalDelta,     \* Impl::last_arrival_delta
  pushes                \* push calls so far

vars == <<now, buffer, expectedSequence, sequenceInitialized, playoutStart,
          playoutStarted, stats, jitter, lastArrivalDelta, pushes>>

JitterFrame == [seq: Seq16, arrival: Nat]

ZeroStats(target) ==
  [current_size |-> 0, target_delay |-> target, packets_received |-> 0,
   packets_lost |-> 0, packets_late |-> 0, packets_duplicated |-> 0]

Clamp(x, lo, hi) == IF x < lo THEN lo ELSE IF x > hi THEN hi ELSE x

-----------------------------------------------------------------------------
(* Impl's helpers, lines 39-71.                                            *)

\* update_jitter, lines 39-57: the first call starts the playout clock,
\* later ones fold |delta - last_delta| into the estimate.
JitterAfter(t) ==
  IF playoutStarted
  THEN LET delta == t - playoutStart
           diff  == IF delta - lastArrivalDelta < 0 THEN lastArrivalDelta - delta
                    ELSE delta - lastArrivalDelta
       IN  jitter + (diff * JitterScale - jitter) \div 16
  ELSE jitter

\* adapt_delay, lines 59-71: 2j + 10 ms, truncated, clamped.
AdaptedDelay(j) ==
  IF EnableAdaptive
  THEN Clamp((2 * j + 10 * JitterScale) \div JitterScale, MinDelay, MaxDelay)
  ELSE stats.target_delay

\* Mutant of InsertPos: sequence numbers compared as unsigned integers,
\* without the int16_t wrap-around difference.
InsertPosUnsigned(b, s) ==
  LET later == {i \in 1..Len(b) : s < b[i].seq}
  IN  IF later = {} THEN Len(b) + 1 ELSE Min(later)

\* The position of the find_if of lines 115-122: the first frame the new
\* one precedes by the int16_t difference, or the end.
InsertPos(b, s) ==
  LET later == {i \in 1..Len(b) : Int16(s - b[i].seq) < 0}
  IN  IF later = {} THEN Len(b) + 1 ELSE Min(later)

-----------------------------------------------------------------------------
(* JitterBuffer::push, lines 81-129.                                       *)

\* Mutant of Full: the size check uses > instead of >=.
FullStrict(b) == Len(b) > MaxPackets

\* The size check of line 86.
Full(b) == Len(b) >= MaxPackets

Push(s) ==
  /\ pushes < MaxPushes
  /\ pushes' = pushes + 1
  /\ LET full  == Full(buffer)
         b0    == IF full THEN Tail(buffer) ELSE buffer
         late  == IF full THEN 1 ELSE 0
         dup   == \E i \in 1..Len(b0) : b0[i].seq = s
         j     == JitterAfter(now)
         b1    == InsertAt(b0, InsertPos(b0, s), [seq |-> s, arrival |-> now])
     IN  /\ expectedSequence' = IF sequenceInitialized THEN expectedSequence ELSE s
         /\ sequenceInitialized' = TRUE
         /\ IF dup
            THEN \* line 106: rejected after the full-buffer drop
                 /\ buffer' = b0
                 /\ stats' = [stats EXCEPT !.packets_late = @ + late,
                                           !.packets_duplicated = @ + 1]
                 /\ UNCHANGED <<playoutStart, playoutStarted, jitter, lastArrivalDelta>>
            ELSE /\ buffer' = b1
                 /\ jitter' = j
                 /\ playoutStart' = IF playoutStarted THEN playoutStart ELSE now
                 /\ playoutStarted' = TRUE
                 /\ lastArrivalDelta' = IF playoutStarted THEN now - playoutStart
                                        ELSE lastArrivalDelta
                 /\ stats' = [stats EXCEPT !.packets_late = @ + late,
                                           !.target_delay = AdaptedDelay(j),
                                           !.packets_received = @ + 1,
                                           !.current_size = Len(b1)]
  /\ UNCHANGED now

-----------------------------------------------------------------------------
(* The other operations.                                                   *)

\* Mutant of NextExpected: frame.sequence_number + 1 kept in int.
NextExpectedWide(s) == s + 1

\* Line 169: expected_sequence = sequence_number + 1, in uint16_t.
NextExpected(s) == Mod16(s + 1)

\* The early returns of pop, lines 135-151: a frame is there, playout has
\* started and the front frame is target_delay old.
PopReady ==
  /\ buffer # <<>>
  /\ playoutStarted
  /\ now - Head(buffer).arrival >= stats.target_delay

\* pop, lines 131-181: the front frame once PopReady; a forward jump of
\* the sequence number counts the skipped numbers as lost.
Pop ==
  /\ PopReady
  /\ LET s    == Head(buffer).seq
         diff == Int16(s - expectedSequence)
         gap  == IF s # expectedSequence /\ diff > 0 THEN diff ELSE 0
     IN  /\ buffer' = Tail(buffer)
         /\ expectedSequence' = NextExpected(s)
         /\ stats' = [stats EXCEPT !.packets_lost = @ + gap,
                                   !.current_size = Len(buffer) - 1]
  /\ UNCHANGED <<now, sequenceInitialized, playoutStart, playoutStarted, jitter,
                 lastArrivalDelta, pushes>>

\* reset, lines 223-231: jitter_estimate, last_arrival_delta and
\* expected_sequence keep their values.
Reset ==
  /\ buffer' = <<>>
  /\ sequenceInitialized' = FALSE
  /\ playoutStarted' = FALSE
  /\ stats' = ZeroStats(TargetDelay)
  /\ UNCHANGED <<now, expectedSequence, playoutStart, jitter, lastArrivalDelta, pushes>>

\* set_target_delay, lines 233-237.
SetTargetDelay(d) ==
  /\ stats' = [stats EXCEPT !.target_delay = Clamp(d, MinDelay, MaxDelay)]
  /\ UNCHANGED <<now, buffer, expectedSequence, sequenceInitialized, playoutStart,
                 playoutStarted, jitter, lastArrivalDelta, pushes>>

\* Time passes.
Tick ==
  /\ now < MaxTime
  /\ now' = now + 1
  /\ UNCHANGED <<buffer, expectedSequence, sequenceInitialized, playoutStart,
                 playoutStarted, stats, jitter, lastArrivalDelta, pushes>>

-----------------------------------------------------------------------------

\* The constructor, lines 34-37 and 74-77.
Init ==
  /\ now = 0
  /\ buffer = <<>>
  /\ expectedSequence = 0
  /\ sequenceInitialized = FALSE
  /\ playoutStart = 0
  /\ playoutStarted = FALSE
  /\ stats = ZeroStats(TargetDelay)
  /\ jitter = 0
  /\ lastArrivalDelta = 0
  /\ pushes = 0

Next ==
  \/ \E s \in Arrivals : Push(s)
  \/ Pop
  \/ Reset
  \/ \E d \in SetDelays : SetTargetDelay(d)
  \/ Tick

Spec == Init /\ [][Next]_vars

-----------------------------------------------------------------------------
(* Properties.                                                             *)

TypeOK ==
  /\ now \in 0..MaxTime
  /\ buffer \in Seq(JitterFrame)
  /\ expectedSequence \in Seq16
  /\ sequenceInitialized \in BOOLEAN
  /\ playoutStarted \in BOOLEAN
  /\ stats.target_delay \in Nat
  /\ jitter \in 0..(8 * JitterScale)

\* The buffer is in playout order: each frame follows its predecessor by
\* the int16_t sequence difference, also across the 65535 -> 0 wrap, so
\* pop() plays the numbers in order whatever order they arrived in.
BufferOrdered ==
  \A i \in 1..(Len(buffer) - 1) : Int16(buffer[i + 1].seq - buffer[i].seq) > 0

\* push never lets the buffer grow past max_packets.
BufferBounded ==
  Len(buffer) <= MaxPackets

=============================================================================
