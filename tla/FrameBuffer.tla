----------------------------- MODULE FrameBuffer -----------------------------
(***************************************************************************)
(* The video frame buffer, src/unnamed/part_013 (frame_buffer.cpp).        *)
(*                                                                         *)
(* Every public method holds impl_->mutex for its whole body, so each is   *)
(* one action.  The network is the set Schedule of RTP packets the sender  *)
(* emits; InsertPacket takes any of them at any time, so packets may be    *)
(* lost (never taken), reordered or duplicated.  A payload is abstracted   *)
(* to the packet's sequence number, so a frame's data is the sequence of   *)
(* the sequence numbers assemble() concatenated.                           *)
(*                                                                         *)
(* Sequence numbers keep their 16-bit width: arithmetic on them is mod     *)
(* 2^16 and the int16_t casts are Int16.  steady_clock is an integer       *)
(* clock `now` advanced by Tick; the configuration's target_delay and      *)
(* max_delay are given in the same ticks.                                  *)
(***************************************************************************)
EXTENDS Integers, Sequences, SequencesExt, FiniteSets, TLC

CONSTANTS
  Schedule,          \* packets [seq, ts, marker, key] the sender emits
  TargetDelay,       \* FrameBufferConfig::target_delay, in ticks
  MaxDelay,          \* FrameBufferConfig::max_delay, in ticks
  WaitForKeyframe,   \* FrameBufferConfig::wait_for_keyframe
  NackMaxCount,      \* the max_count argument of get_nack_list
  MaxInserts,        \* bound on insert_packet calls
  MaxTime,           \* bound on the clock
  MaxLost            \* bound on stats.packets_lost

ASSUME TargetDelay \in Nat /\ MaxDelay \in Nat /\ WaitForKeyframe \in BOOLEAN

Seq16 == 0..65535
Mod16(x) == x % 65536
\* static_cast<int16_t> of a 16-bit difference
Int16(x) == IF Mod16(x) >= 32768 THEN Mod16(x) - 65536 ELSE Mod16(x)

\* The NACK window of get_nack_list: [highest - 100, highest).
NackWindow == 100

Timestamps == {p.ts : p \in Schedule}

VARIABLES
  now,                \* steady_clock::now()
  assemblers,         \* Impl::assemblers : timestamp -> FrameAssembler
  completeFrames,     \* Impl::complete_frames
  receivedSequences,  \* Impl::received_sequences
  highestSequence,    \* Impl::highest_sequence
  hasKeyframe,        \* Impl::has_keyframe
  stats,              \* Impl::stats (the counters)
  lastNack,           \* ghost: the list the latest get_nack_list returned
  popped,             \* ghost: frames pop_frame returned, in order
  queuedTs,           \* ghost: timestamps queued since construction or reset
  firstKey,           \* ghost: "key" or "delta", the first frame queued since
                      \* construction or reset ("none" before it)
  inserts             \* ghost: insert_packet calls so far

vars == <<now, assemblers, completeFrames, receivedSequences, highestSequence,
          hasKeyframe, stats, lastNack, popped, queuedTs, firstKey, inserts>>

Assembler == [packets: SUBSET Seq16, first_sequence: Seq16, last_sequence: Seq16,
              has_first: BOOLEAN, has_last: BOOLEAN, is_keyframe: BOOLEAN,
              first_arrival: Nat]

Frame == [rtp_timestamp: Timestamps, data: Seq(Seq16), is_keyframe: BOOLEAN,
          arrival_time: Nat]

-----------------------------------------------------------------------------
(* FrameAssembler, lines 22-71.                                            *)

\* The sequence numbers from `a` to `b`, counting up through the wrap.
SeqRun(a, b) == [i \in 1..(Mod16(b - a) + 1) |-> Mod16(a + i - 1)]

\* is_complete, lines 33-46.  The loop runs while seq != last_sequence + 1,
\* where the right side is computed in int: for last_sequence = 65535 it is
\* 65536, which the uint16_t counter never equals, so the loop only ends on
\* a missing packet (a frame never holds all 2^16 sequence numbers).
IsComplete(asm) ==
  /\ asm.has_first /\ asm.has_last
  /\ asm.last_sequence + 1 # 65536
  /\ ToSet(SeqRun(asm.first_sequence, asm.last_sequence)) \subseteq asm.packets

\* Mutant of Assemble: the packets are concatenated in the map's key order
\* instead of walking the sequence numbers from first to last.
AssembleMapOrder(ts, asm) ==
  [rtp_timestamp |-> ts,
   data |-> SetToSortSeq(asm.packets, LAMBDA x, y : x < y),
   is_keyframe |-> asm.is_keyframe,
   arrival_time |-> asm.first_arrival]

\* assemble, lines 48-70: the packets from first to last in sequence order.
Assemble(ts, asm) ==
  [rtp_timestamp |-> ts,
   data |-> SelectSeq(SeqRun(asm.first_sequence, asm.last_sequence),
                      LAMBDA q : q \in asm.packets),
   is_keyframe |-> asm.is_keyframe,
   arrival_time |-> asm.first_arrival]

-----------------------------------------------------------------------------
(* Impl::cleanup_old_frames, lines 88-122: complete frames older than      *)
(* max_delay leave the front of the queue (counted as dropped); assemblers *)
(* older than twice max_delay are erased.                                  *)

\* The length of the prefix of `q` whose frames are older than max_delay.
StaleFrontLen(q, t) ==
  LET young == {i \in 1..Len(q) : t - q[i].arrival_time <= MaxDelay}
  IN  IF young = {} THEN Len(q) ELSE Min(young) - 1

CleanedFrames(q, t) == SubSeq(q, StaleFrontLen(q, t) + 1, Len(q))

CleanedAssemblers(as, t) ==
  [ts \in {x \in DOMAIN as : t - as[x].first_arrival <= 2 * MaxDelay} |-> as[ts]]

-----------------------------------------------------------------------------
(* FrameBuffer::insert_packet, lines 132-197.                              *)

\* The assembler after storing the packet (lines 147-175).
Stored(pkt) ==
  LET fresh == ~(pkt.ts \in DOMAIN assemblers) \/ assemblers[pkt.ts].packets = {}
      a0 == IF pkt.ts \in DOMAIN assemblers THEN assemblers[pkt.ts]
            ELSE [packets |-> {}, first_sequence |-> 0, last_sequence |-> 0,
                  has_first |-> FALSE, has_last |-> FALSE, is_keyframe |-> FALSE,
                  first_arrival |-> 0]
      a1 == IF fresh THEN [a0 EXCEPT !.first_arrival = now] ELSE a0
      a2 == [a1 EXCEPT !.packets = @ \cup {pkt.seq}]
      a3 == IF ~a2.has_first \/ Int16(pkt.seq - a2.first_sequence) < 0
            THEN [a2 EXCEPT !.first_sequence = pkt.seq, !.has_first = TRUE] ELSE a2
      a4 == IF pkt.marker THEN [a3 EXCEPT !.last_sequence = pkt.seq, !.has_last = TRUE] ELSE a3
  IN  IF pkt.key THEN [a4 EXCEPT !.is_keyframe = TRUE] ELSE a4

\* Whether a complete assembler holds a keyframe or a delta frame.
KindOf(asm) == IF asm.is_keyframe THEN "key" ELSE "delta"

InsertPacket(pkt) ==
  /\ inserts < MaxInserts
  /\ inserts' = inserts + 1
  /\ receivedSequences' = receivedSequences \cup {pkt.seq}
  /\ highestSequence' = IF Int16(pkt.seq - highestSequence) > 0 THEN pkt.seq
                                                               ELSE highestSequence
  /\ LET asm == Stored(pkt)
         withAsm == (pkt.ts :> asm) @@ assemblers
     IN  IF ~IsComplete(asm)
         THEN \* no frame: cleanup runs
              /\ assemblers' = CleanedAssemblers(withAsm, now)
              /\ completeFrames' = CleanedFrames(completeFrames, now)
              /\ stats' = [stats EXCEPT !.frames_dropped = @ + StaleFrontLen(completeFrames, now)]
              /\ UNCHANGED <<hasKeyframe, firstKey, queuedTs>>
         ELSE IF WaitForKeyframe /\ ~hasKeyframe /\ ~asm.is_keyframe
         THEN \* early return at line 183: the assembler stays, no cleanup
              /\ assemblers' = withAsm
              /\ UNCHANGED <<completeFrames, stats, hasKeyframe, firstKey, queuedTs>>
         ELSE LET q == Append(completeFrames, Assemble(pkt.ts, asm))
                  rest == [x \in DOMAIN withAsm \ {pkt.ts} |-> withAsm[x]]
              IN  /\ hasKeyframe' = (hasKeyframe \/ asm.is_keyframe)
                  /\ assemblers' = CleanedAssemblers(rest, now)
                  /\ completeFrames' = CleanedFrames(q, now)
                  /\ stats' = [stats EXCEPT !.frames_buffered = @ + 1,
                                            !.frames_dropped = @ + StaleFrontLen(q, now)]
                  /\ firstKey' = IF firstKey = "none" THEN KindOf(asm) ELSE firstKey
                  /\ queuedTs' = queuedTs \cup {pkt.ts}
  /\ UNCHANGED <<now, lastNack, popped>>

-----------------------------------------------------------------------------
(* The other operations.                                                   *)

\* pop_frame, lines 199-223: the front frame once it is target_delay old.
PopFrame ==
  /\ completeFrames # <<>>
  /\ now - Head(completeFrames).arrival_time >= TargetDelay
  /\ popped' = Append(popped, Head(completeFrames))
  /\ completeFrames' = Tail(completeFrames)
  /\ stats' = [stats EXCEPT !.frames_decoded = @ + 1]
  /\ UNCHANGED <<now, assemblers, receivedSequences, highestSequence, hasKeyframe,
                 lastNack, queuedTs, firstKey, inserts>>

\* Mutant of NackList: the window start computed in int, not uint16_t, so
\* it goes negative below sequence number 100.
NackListSigned ==
  LET missing == SelectSeq([i \in 1..NackWindow |-> highestSequence - NackWindow + i - 1],
                           LAMBDA q : q \notin receivedSequences)
  IN  SubSeq(missing, 1, IF Len(missing) < NackMaxCount THEN Len(missing) ELSE NackMaxCount)

\* get_nack_list, lines 243-260: the sequence numbers of
\* [highest - 100, highest) not received, at most max_count of them, each
\* one also counted in stats.packets_lost.
NackList ==
  LET missing == SelectSeq([i \in 1..NackWindow |-> Mod16(highestSequence - NackWindow + i - 1)],
                           LAMBDA q : q \notin receivedSequences)
  IN  SubSeq(missing, 1, IF Len(missing) < NackMaxCount THEN Len(missing) ELSE NackMaxCount)

GetNackList ==
  /\ stats.packets_lost + Len(NackList) <= MaxLost
  /\ lastNack' = NackList
  /\ stats' = [stats EXCEPT !.packets_lost = @ + Len(NackList)]
  /\ UNCHANGED <<now, assemblers, completeFrames, receivedSequences, highestSequence,
                 hasKeyframe, popped, queuedTs, firstKey, inserts>>

\* Mutant of Reset: has_keyframe is not cleared.
ResetKeepsKeyframe ==
  /\ assemblers' = << >>
  /\ completeFrames' = <<>>
  /\ receivedSequences' = {}
  /\ stats' = [frames_buffered |-> 0, frames_decoded |-> 0, frames_dropped |-> 0,
               packets_lost |-> 0]
  /\ firstKey' = "none"
  /\ queuedTs' = {}
  /\ UNCHANGED <<now, highestSequence, hasKeyframe, lastNack, popped, inserts>>

\* reset, lines 281-289: everything but highest_sequence is cleared.
Reset ==
  /\ assemblers' = << >>
  /\ completeFrames' = <<>>
  /\ receivedSequences' = {}
  /\ hasKeyframe' = FALSE
  /\ stats' = [frames_buffered |-> 0, frames_decoded |-> 0, frames_dropped |-> 0,
               packets_lost |-> 0]
  /\ firstKey' = "none"
  /\ queuedTs' = {}
  /\ UNCHANGED <<now, highestSequence, lastNack, popped, inserts>>

\* Time passes.
Tick ==
  /\ now < MaxTime
  /\ now' = now + 1
  /\ UNCHANGED <<assemblers, completeFrames, receivedSequences, highestSequence,
                 hasKeyframe, stats, lastNack, popped, queuedTs, firstKey, inserts>>

-----------------------------------------------------------------------------

Init ==
  /\ now = 0
  /\ assemblers = << >>
  /\ completeFrames = <<>>
  /\ receivedSequences = {}
  /\ highestSequence = 0
  /\ hasKeyframe = FALSE
  /\ stats = [frames_buffered |-> 0, frames_decoded |-> 0, frames_dropped |-> 0,
              packets_lost |-> 0]
  /\ lastNack = <<>>
  /\ popped = <<>>
  /\ queuedTs = {}
  /\ firstKey = "none"
  /\ inserts = 0

Next ==
  \/ \E pkt \in Schedule : InsertPacket(pkt)
  \/ PopFrame
  \/ GetNackList
  \/ Reset
  \/ Tick

Spec == Init /\ [][Next]_vars

-----------------------------------------------------------------------------
(* Properties.                                                             *)

\* The sequence numbers of the frame sent with timestamp ts.
FrameSeqs(ts) == {p.seq : p \in {q \in Schedule : q.ts = ts}}
MarkerSeq(ts) == (CHOOSE p \in Schedule : p.ts = ts /\ p.marker).seq
Emitted == ToSet(completeFrames) \cup ToSet(popped)

TypeOK ==
  /\ now \in Nat
  /\ DOMAIN assemblers \subseteq Timestamps
  /\ \A ts \in DOMAIN assemblers : assemblers[ts] \in Assembler
  /\ \A i \in DOMAIN completeFrames : completeFrames[i] \in Frame
  /\ \A i \in DOMAIN popped : popped[i] \in Frame
  /\ receivedSequences \subseteq Seq16
  /\ highestSequence \in Seq16
  /\ hasKeyframe \in BOOLEAN
  /\ lastNack \in Seq(Seq16)
  /\ queuedTs \subseteq Timestamps
  /\ firstKey \in {"none", "key", "delta"}

\* assemble() walks the sequence numbers upwards from the first packet, also
\* across the 65535 -> 0 wrap: every frame handed to the decoder is a
\* gap-free run of consecutive sequence numbers ending at the packet that
\* carried the marker bit, whatever order the packets arrived in.
FramesContiguous ==
  \A f \in Emitted :
    /\ f.data # <<>>
    /\ \A i \in 1..(Len(f.data) - 1) : f.data[i + 1] = Mod16(f.data[i] + 1)
    /\ Last(f.data) = MarkerSeq(f.rtp_timestamp)

\* With wait_for_keyframe, the first frame queued after construction or
\* reset() is a keyframe, so the decoder never starts on a delta frame.
KeyframeFirst ==
  WaitForKeyframe => firstKey # "delta"

\* Spec testable property 4 (frame completeness): a frame pop_frame returns
\* holds exactly the packets sent for its timestamp.
EmittedFramesWhole ==
  \A f \in ToSet(popped) : ToSet(f.data) = FrameSeqs(f.rtp_timestamp)

\* A frame all of whose packets have arrived is queued: a keyframe, or any
\* frame when wait_for_keyframe is off (the header: "RTP packet reassembly
\* into frames").
ReceivedFramesQueued ==
  \A ts \in Timestamps :
    /\ FrameSeqs(ts) \subseteq receivedSequences
    /\ (~WaitForKeyframe \/ \E p \in Schedule : p.ts = ts /\ p.key)
    => ts \in queuedTs

=============================================================================
