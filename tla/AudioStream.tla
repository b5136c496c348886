----------------------------- MODULE AudioStream -----------------------------
(***************************************************************************)
(* The audio stream, src/unnamed/part_014 lines 241-504 (audio_stream.cpp), *)
(* composed with the jitter buffer it owns (JitterBuffer, the same          *)
(* variables) and the capture device it starts and stops                    *)
(* (src/audio/src/audio_capture.cpp).                                      *)
(*                                                                         *)
(* Threads: the application thread calling start, stop and the setters;   *)
(* the network thread calling receive_packet; the capture device calling   *)
(* on_capture_frame while capturing; the playout thread.  start() runs on  *)
(* the one application thread and is one step; stop() is split at the     *)
(* join, the only point the playout thread can run inside it.              *)
(*                                                                         *)
(* The encoder, decoder and processor are the stubs of opus_codec.cpp and  *)
(* audio_processing.cpp: initialize() succeeds, encode() succeeds once     *)
(* initialized with samples_encoded = the frame's sample count, decode()   *)
(* succeeds.  A frame's PCM content and the audio level are left out.      *)
(* AudioCapture::start only stores the callback and sets `capturing`; the  *)
(* model lets the device call it whenever capturing is set, which is what  *)
(* the PortAudio implementation the stub stands for does.                  *)
(***************************************************************************)
EXTENDS Integers, Sequences, SequencesExt, FiniteSets

CONSTANTS
  Arrivals, MinDelay, MaxDelay, TargetDelay, MaxPackets, EnableAdaptive,
  SetDelays, MaxPushes, MaxTime,   \* the jitter buffer's, see JitterBuffer
  FrameSamples,    \* samples per captured frame (sample_rate * frame_ms / 1000)
  MaxStarts,       \* bound on start calls
  MaxCaptures      \* bound on capture callbacks

VARIABLES
  now, buffer, expectedSequence, sequenceInitialized, playoutStart,
  playoutStarted, stats, jitter, lastArrivalDelta, pushes,   \* jitter_buffer_
  running,         \* running_ (atomic)
  muted,           \* muted_ (atomic)
  sendCbSet,       \* send_callback_ is non-empty
  playCbSet,       \* playback_callback_ is non-empty
  capturing,       \* capture_.impl_->capturing
  initialized,     \* encoder_, decoder_ and processor_ are initialized
  sequence,        \* sequence_ (uint16_t)
  timestamp,       \* timestamp_ (uint32_t)
  playout,         \* playout_thread_: [pc, joinable]
  pc,              \* the application thread: "idle" or "stop_join"
  streamStats,     \* stats_: packets_sent, packets_received
  starts,          \* start calls so far
  captures,        \* capture callbacks so far
  sent,            \* ghost: [seq, ts] handed to the send callback since start
  played           \* ghost: sequence numbers handed to the playback callback

jbVars == <<now, buffer, expectedSequence, sequenceInitialized, playoutStart,
            playoutStarted, stats, jitter, lastArrivalDelta, pushes>>
asVars == <<running, muted, sendCbSet, playCbSet, capturing, initialized, sequence, timestamp,
            playout, pc, streamStats, starts, captures, sent, played>>
vars == <<jbVars, asVars>>

JB == INSTANCE JitterBuffer

\* timestamp_ is a uint32_t; its wrap-around, after 2^32 / FrameSamples
\* frames, is legal RTP and beyond every bound here, and TLC's integers
\* are 32-bit signed, so the model adds without the modulus.
Advance(ts, n) == ts + n

\* OpusEncoder::encode (opus_codec.cpp): nothing before initialize(); the
\* stub then returns a packet and samples_encoded = the frame's samples.
Encode(init) == [success |-> init, samples |-> IF init THEN FrameSamples ELSE 0]

\* AudioCapture::start and stop (audio_capture.cpp): the flag the device
\* delivers frames under.
CaptureStart == capturing' = TRUE
CaptureStop == capturing' = FALSE

-----------------------------------------------------------------------------
(* The application thread.                                                 *)

\* start, lines 287-318: refused while running; otherwise the codecs are
\* initialised (the stubs succeed), capture_.open and capture_.start run,
\* the counters restart at 0 and the playout thread is spawned.
Start ==
  /\ pc = "idle"
  /\ starts < MaxStarts
  /\ starts' = starts + 1
  /\ IF running
     THEN UNCHANGED <<running, capturing, initialized, sequence, timestamp, playout, sent>>
     ELSE /\ initialized' = TRUE
          /\ running' = TRUE
          /\ sequence' = 0
          /\ timestamp' = 0
          /\ CaptureStart
          /\ playout' = [pc |-> "check", joinable |-> TRUE]
          /\ sent' = << >>
  /\ UNCHANGED <<jbVars, muted, sendCbSet, playCbSet, pc, streamStats, captures, played>>

\* stop, lines 320-324: running_ = false, capture_.stop(); then the join.
StopStore ==
  /\ pc = "idle"
  /\ running' = FALSE
  /\ CaptureStop
  /\ pc' = "stop_join"
  /\ UNCHANGED <<jbVars, initialized, muted, sendCbSet, playCbSet, sequence, timestamp, playout,
                 streamStats, starts, captures, sent, played>>

\* Lines 325-328: join a joinable playout thread once it has left its loop.
StopJoin ==
  /\ pc = "stop_join"
  /\ playout.joinable => playout.pc = "exited"
  /\ playout' = [playout EXCEPT !.joinable = FALSE]
  /\ pc' = "idle"
  /\ UNCHANGED <<jbVars, running, muted, sendCbSet, playCbSet, capturing, initialized, sequence,
                 timestamp, streamStats, starts, captures, sent, played>>

\* set_send_callback and set_playback_callback, lines 331-341.
SetSendCallback ==
  /\ sendCbSet' = TRUE
  /\ UNCHANGED <<jbVars, running, muted, playCbSet, capturing, initialized, sequence, timestamp,
                 playout, pc, streamStats, starts, captures, sent, played>>

SetPlaybackCallback ==
  /\ playCbSet' = TRUE
  /\ UNCHANGED <<jbVars, running, muted, sendCbSet, capturing, initialized, sequence, timestamp,
                 playout, pc, streamStats, starts, captures, sent, played>>

\* set_muted, lines 367-370.
SetMuted(b) ==
  /\ muted' = b
  /\ UNCHANGED <<jbVars, running, sendCbSet, playCbSet, capturing, initialized, sequence, timestamp,
                 playout, pc, streamStats, starts, captures, sent, played>>

-----------------------------------------------------------------------------
(* The network and capture threads.                                        *)

\* receive_packet, lines 343-355: push into the jitter buffer, count it.
ReceivePacket(s) ==
  /\ JB!Push(s)
  /\ streamStats' = [streamStats EXCEPT !.packets_received = @ + 1]
  /\ UNCHANGED <<running, muted, sendCbSet, playCbSet, capturing, initialized, sequence, timestamp,
                 playout, pc, starts, captures, sent, played>>

\* Mutant of OnCaptureFrame: the muted check comes after the counters
\* have advanced.
OnCaptureFrameLateMute ==
  /\ capturing
  /\ captures < MaxCaptures
  /\ captures' = captures + 1
  /\ LET e == Encode(initialized)
     IN  /\ timestamp' = Advance(timestamp, e.samples)
         /\ sequence' = JB!Mod16(sequence + 1)
         /\ IF ~muted /\ e.success
            THEN /\ sent' = IF sendCbSet THEN Append(sent, [seq |-> sequence, ts |-> timestamp])
                            ELSE sent
                 /\ streamStats' = [streamStats EXCEPT !.packets_sent = @ + 1]
            ELSE UNCHANGED <<sent, streamStats>>
  /\ UNCHANGED <<jbVars, running, muted, sendCbSet, playCbSet, capturing, initialized,
                 playout, pc, starts, played>>

\* on_capture_frame, lines 388-421: nothing while muted; otherwise an
\* encoded frame goes to the send callback, if any, with the current
\* timestamp and sequence number, and is counted; then the timestamp
\* advances by the samples encoded and the sequence number by one, also
\* when encoding failed.
OnCaptureFrame ==
  /\ capturing
  /\ captures < MaxCaptures
  /\ captures' = captures + 1
  /\ IF muted
     THEN UNCHANGED <<sent, streamStats, timestamp, sequence>>
     ELSE LET e == Encode(initialized)
          IN  /\ IF e.success
                 THEN /\ sent' = IF sendCbSet
                                 THEN Append(sent, [seq |-> sequence, ts |-> timestamp])
                                 ELSE sent
                      /\ streamStats' = [streamStats EXCEPT !.packets_sent = @ + 1]
                 ELSE UNCHANGED <<sent, streamStats>>
              /\ timestamp' = Advance(timestamp, e.samples)
              /\ sequence' = JB!Mod16(sequence + 1)
  /\ UNCHANGED <<jbVars, running, muted, sendCbSet, playCbSet, capturing, initialized,
                 playout, pc, starts, played>>

-----------------------------------------------------------------------------
(* The playout thread, playout_loop, lines 423-451.                        *)

\* Mutant of PlayoutCheck: the loop condition is never re-read.
PlayoutCheckOnce ==
  /\ playout.pc = "check"
  /\ playout' = [playout EXCEPT !.pc = "pop"]
  /\ UNCHANGED <<jbVars, running, muted, sendCbSet, playCbSet, capturing, initialized, sequence,
                 timestamp, pc, streamStats, starts, captures, sent, played>>

\* Line 427: while (running_.load()).
PlayoutCheck ==
  /\ playout.pc = "check"
  /\ playout' = [playout EXCEPT !.pc = IF running THEN "pop" ELSE "exited"]
  /\ UNCHANGED <<jbVars, running, muted, sendCbSet, playCbSet, capturing, initialized, sequence,
                 timestamp, pc, streamStats, starts, captures, sent, played>>

\* Lines 429-449: a ready frame is popped, decoded (the stub succeeds once
\* initialized) and handed to the playback callback; with none ready the
\* thread sleeps.
PlayoutPop ==
  /\ playout.pc = "pop"
  /\ playout' = [playout EXCEPT !.pc = "check"]
  /\ IF JB!PopReady
     THEN /\ JB!Pop
          /\ played' = IF playCbSet /\ initialized THEN Append(played, Head(buffer).seq)
                       ELSE played
     ELSE UNCHANGED <<jbVars, played>>
  /\ UNCHANGED <<running, muted, sendCbSet, playCbSet, capturing, initialized, sequence, timestamp,
                 pc, streamStats, starts, captures, sent>>

\* Time passes.
Tick ==
  /\ JB!Tick
  /\ UNCHANGED asVars

-----------------------------------------------------------------------------

\* The constructor, lines 264-285 and the members of lines 481-495.
Init ==
  /\ JB!Init
  /\ running = FALSE
  /\ muted = FALSE
  /\ sendCbSet = FALSE
  /\ playCbSet = FALSE
  /\ capturing = FALSE
  /\ initialized = FALSE
  /\ sequence = 0
  /\ timestamp = 0
  /\ playout = [pc |-> "none", joinable |-> FALSE]
  /\ pc = "idle"
  /\ streamStats = [packets_sent |-> 0, packets_received |-> 0]
  /\ starts = 0
  /\ captures = 0
  /\ sent = << >>
  /\ played = << >>

Application ==
  \/ Start \/ StopStore \/ StopJoin
  \/ SetSendCallback \/ SetPlaybackCallback
  \/ \E b \in BOOLEAN : SetMuted(b)

Playout == PlayoutCheck \/ PlayoutPop

Next ==
  \/ Application
  \/ \E s \in Arrivals : ReceivePacket(s)
  \/ OnCaptureFrame
  \/ Playout
  \/ Tick

\* The playout thread is an OS thread; the join in stop() blocks until it
\* can proceed, so both are weakly fair.
Spec == Init /\ [][Next]_vars /\ WF_vars(Playout) /\ WF_vars(StopJoin)

-----------------------------------------------------------------------------
(* Properties.                                                             *)

TypeOK ==
  /\ JB!TypeOK
  /\ running \in BOOLEAN /\ muted \in BOOLEAN /\ capturing \in BOOLEAN
  /\ sequence \in JB!Seq16
  /\ timestamp \in Nat
  /\ playout.pc \in {"none", "check", "pop", "exited"}
  /\ pc \in {"idle", "stop_join"}
  /\ played \in Seq(JB!Seq16)

\* The packets handed to the send callback since the latest start form one
\* RTP stream: sequence numbers 0, 1, 2, ... and timestamps advancing by
\* one frame each, whatever mute and callback changes happened between
\* the capture callbacks.
SentStreamContiguous ==
  \A i \in 1..Len(sent) :
    /\ sent[i].seq = JB!Mod16(sent[1].seq + i - 1)
    /\ sent[i].ts = sent[1].ts + (i - 1) * FrameSamples

\* stop() returns: once it has stored running_ = false, the playout thread
\* leaves playout_loop and the join completes.
StopReturns == pc = "stop_join" ~> pc = "idle"

BufferOrdered == JB!BufferOrdered

BufferBounded == JB!BufferBounded

=============================================================================
