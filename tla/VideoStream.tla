----------------------------- MODULE VideoStream -----------------------------
(***************************************************************************)
(* The video stream, src/unnamed/part_012 (video_stream.cpp), with the     *)
(* FrameBuffer and the BitrateController it owns (their own modules) and   *)
(* the encoder, decoder and capture stubs of video_placeholder.cpp as what *)
(* they do: initialize() and open() succeed, encode() of an initialized    *)
(* encoder returns 1000 bytes flagged as a keyframe when one was          *)
(* requested, decode() of a non-empty frame succeeds.                      *)
(*                                                                         *)
(* Four threads: the application (start, stop and the setters), the       *)
(* network thread (receive_packet), the capture thread that start() spawns *)
(* through capture_.start() (its loop calls on_capture_frame) and the      *)
(* decode thread.  request_keyframe, set_target_bitrate and set_enabled    *)
(* may come from any thread.  stop() is three steps: the stores of         *)
(* running_ and capturing, the join of the capture thread, the join of the *)
(* decode thread.  encode() reads keyframe_requested and clears it later,  *)
(* with no lock, so it is two steps of the capture thread.                 *)
(*                                                                         *)
(* The capture thread sleeps 33 ms before each frame, so every process()   *)
(* it calls finds 25 ms elapsed and runs update_bitrate.  The stream's     *)
(* stats_ counters, which nothing reads back but stats(), are left out.    *)
(***************************************************************************)
EXTENDS Integers, Sequences

CONSTANTS
  Wire,          \* RTP packets receive_packet is called with: [seq, ts, marker, data]
  Fps,           \* VideoStreamConfig::fps
  BitrateKbps,   \* VideoStreamConfig::bitrate_kbps
  TargetKbps,    \* arguments of set_target_bitrate
  MaxFrames,     \* bound on frames the encoder encodes
  MaxStarts,     \* bound on start() calls
  \* FrameBuffer's constants (its FrameBufferConfig{} defaults, in ticks)
  TargetDelay, MaxDelay, WaitForKeyframe, NackMaxCount, MaxInserts, MaxTime, MaxLost,
  \* BitrateController's constants (BitrateControllerConfig's defaults)
  MinBitrate, MaxBitrate, IncreasePct, DecreasePct, LossThreshold

VARIABLES
  \* FrameBuffer frame_buffer_
  now, assemblers, completeFrames, receivedSequences, highestSequence,
  hasKeyframe, stats, lastNack, popped, queuedTs, firstKey, inserts,
  \* BitrateController bitrate_controller_
  current, target, loss, rtt, overusing, bytesSent, callbackSet, notified,
  forces, selAvail, selected,
  \* VideoStreamImpl and the stubs it owns
  running,       \* running_
  enabled,       \* enabled_
  sequence,      \* sequence_, uint16_t
  timestamp,     \* timestamp_, uint32_t
  encInit,       \* encoder_ is initialized
  decInit,       \* decoder_ is initialized
  keyReq,        \* encoder_'s keyframe_requested
  encKbps,       \* encoder_'s config.bitrate_kbps
  capturing,     \* capture_'s capturing flag
  capPc,         \* capture thread: "none" (no thread), "check", "frame", "encode", "exit"
  capKey,        \* the keyframe flag encode() read for the frame it encodes
  decPc,         \* decode thread: "none", "check", "body", "exit"
  appPc,         \* the thread in stop(): "idle", "join_capture", "join_decode"
  sendCbSet,     \* send_callback_ is installed
  frames,        \* frames encoded so far
  starts,        \* start() calls so far
  owed,          \* ghost: request_keyframe() called since the last keyframe was encoded
  capOwed,       \* ghost: owed when encode() read keyframe_requested
  lastSent       \* ghost: [seq, ts] of the latest frame sent since start(), or << >>

fbVars == <<now, assemblers, completeFrames, receivedSequences, highestSequence,
            hasKeyframe, stats, lastNack, popped, queuedTs, firstKey, inserts>>
bcVars == <<current, target, loss, rtt, overusing, bytesSent, callbackSet, notified,
            forces, selAvail, selected>>
vsVars == <<running, enabled, sequence, timestamp, encInit, decInit, keyReq, encKbps,
            capturing, capPc, capKey, decPc, appPc, sendCbSet,
            frames, starts, owed, capOwed, lastSent>>
vars == <<fbVars, bcVars, vsVars>>

\* receive_packet, lines 116-123: the NAL type of the first payload byte
\* (H.264 IDR 5, SPS 7, PPS 8) marks a keyframe; an empty payload does not.
KeyHint(data) == data # << >> /\ (data[1] % 32) \in {5, 7, 8}
ToFrameBuffer(w) == [seq |-> w.seq, ts |-> w.ts, marker |-> w.marker, key |-> KeyHint(w.data)]

Fb == INSTANCE FrameBuffer WITH Schedule <- {ToFrameBuffer(w) : w \in Wire}
Bc == INSTANCE BitrateController WITH
        StartBitrate <- BitrateKbps * 1000, LossValues <- {}, RttValues <- {},
        RembValues <- {k * 1000 : k \in TargetKbps}, ForceValues <- {}, MaxForces <- 0,
        PacketSize <- 1000, MaxSent <- 1000, Width <- 0, Height <- 0, MaxKbps <- 0,
        Availables <- {}

\* The timestamp step: 90 kHz over the configured frame rate.
TsStep == 90000 \div Fps

\* The bitrate callback start() installs: encoder_.set_bitrate(bps / 1000),
\* run when the controller's step notified a new bitrate.
EncoderFollows == encKbps' = IF notified' # << >> THEN notified'[1] \div 1000 ELSE encKbps

-----------------------------------------------------------------------------
(* The application thread: start() and stop().                             *)

\* start, lines 49-82: the stubs' initialize() and open() succeed; the
\* sequence and timestamp restart at 0; the bitrate callback is installed,
\* and the capture and decode threads are spawned.
Start ==
  /\ appPc = "idle"
  /\ ~running
  /\ starts < MaxStarts
  /\ starts' = starts + 1
  /\ running' = TRUE
  /\ encInit' = TRUE
  /\ decInit' = TRUE
  /\ sequence' = 0
  /\ timestamp' = 0
  /\ Bc!SetCallback
  /\ capturing' = TRUE
  /\ capPc' = "check"
  /\ decPc' = "check"
  /\ lastSent' = << >>
  /\ UNCHANGED <<fbVars, enabled, keyReq, encKbps, capKey, appPc,
                 sendCbSet, frames, owed, capOwed>>

\* stop, lines 86-87, with VideoCapture::stop's store: running_ and
\* capturing are cleared, whether or not the stream was started.
Stop ==
  /\ appPc = "idle"
  /\ running' = FALSE
  /\ capturing' = FALSE
  /\ appPc' = "join_capture"
  /\ UNCHANGED <<fbVars, bcVars, sequence, timestamp, encInit, decInit, keyReq, encKbps,
                 enabled, capPc, capKey, decPc, sendCbSet, frames,
                 starts, owed, capOwed, lastSent>>

\* VideoCapture::stop's join: it returns once the capture thread has left
\* its loop (or at once when there is no thread).
StopJoinCapture ==
  /\ appPc = "join_capture"
  /\ capPc \in {"none", "exit"}
  /\ capPc' = "none"
  /\ appPc' = "join_decode"
  /\ UNCHANGED <<fbVars, bcVars, running, enabled, sequence, timestamp, encInit, decInit,
                 keyReq, encKbps, capturing, capKey, decPc, sendCbSet,
                 frames, starts, owed, capOwed, lastSent>>

\* stop, lines 89-92: the join of the decode thread.
StopJoinDecode ==
  /\ appPc = "join_decode"
  /\ decPc \in {"none", "exit"}
  /\ decPc' = "none"
  /\ appPc' = "idle"
  /\ UNCHANGED <<fbVars, bcVars, running, enabled, sequence, timestamp, encInit, decInit,
                 keyReq, encKbps, capturing, capPc, capKey, sendCbSet,
                 frames, starts, owed, capOwed, lastSent>>

-----------------------------------------------------------------------------
(* The calls any thread may make.                                          *)

\* set_send_callback, lines 95-99, under mutex_.  The render and keyframe
\* request callbacks (lines 101-111) are only called, never read back, and
\* what they do is the application's, so installing them is left out.
SetSendCallback ==
  /\ sendCbSet' = TRUE
  /\ UNCHANGED <<fbVars, bcVars, running, enabled, sequence, timestamp, encInit, decInit,
                 keyReq, encKbps, capturing, capPc, capKey, decPc, appPc,
                 frames, starts, owed, capOwed, lastSent>>

\* receive_packet, lines 113-128: the packet goes into frame_buffer_ with
\* the keyframe hint of its first byte.
ReceivePacket(w) ==
  /\ Fb!InsertPacket(ToFrameBuffer(w))
  /\ UNCHANGED <<bcVars, vsVars>>

\* request_keyframe, lines 130-133: encoder_.request_keyframe() sets the
\* plain bool keyframe_requested.
RequestKeyframe ==
  /\ keyReq' = TRUE
  /\ owed' = TRUE
  /\ UNCHANGED <<fbVars, bcVars, running, enabled, sequence, timestamp, encInit, decInit,
                 encKbps, capturing, capPc, capKey, decPc, appPc, sendCbSet,
                 frames, starts, capOwed, lastSent>>

\* set_target_bitrate, lines 135-138: on_remb(kbps * 1000), whose update
\* may call the encoder's set_bitrate through the installed callback.
SetTargetBitrate(kbps) ==
  /\ Bc!OnRemb(kbps * 1000)
  /\ EncoderFollows
  /\ UNCHANGED <<fbVars, running, enabled, sequence, timestamp, encInit, decInit, keyReq,
                 capturing, capPc, capKey, decPc, appPc, sendCbSet,
                 frames, starts, owed, capOwed, lastSent>>

\* set_enabled, lines 153-156.
SetEnabled(e) ==
  /\ enabled' = e
  /\ UNCHANGED <<fbVars, bcVars, running, sequence, timestamp, encInit, decInit, keyReq,
                 encKbps, capturing, capPc, capKey, decPc, appPc, sendCbSet,
                 frames, starts, owed, capOwed, lastSent>>

\* Time passes for the frame buffer's delays.
Tick ==
  /\ Fb!Tick
  /\ UNCHANGED <<bcVars, vsVars>>

-----------------------------------------------------------------------------
(* The capture thread: VideoCapture::start's loop, lines 393-419, calling  *)
(* on_capture_frame, lines 164-188.                                        *)

\* while (impl_->capturing).
CaptureCheck ==
  /\ capPc = "check"
  /\ capPc' = IF capturing THEN "frame" ELSE "exit"
  /\ UNCHANGED <<fbVars, bcVars, running, enabled, sequence, timestamp, encInit, decInit,
                 keyReq, encKbps, capturing, capKey, decPc, appPc, sendCbSet,
                 frames, starts, owed, capOwed, lastSent>>

\* Mutant of CaptureFrame: a disabled stream still moves the timestamp and
\* the sequence on, as if the increments came before the enabled_ check.
CaptureFrameDisabledAdvances ==
  /\ capPc = "frame"
  /\ capturing /\ enabled => frames < MaxFrames
  /\ IF capturing /\ enabled
     THEN /\ capPc' = "encode"
          /\ capKey' = keyReq
          /\ capOwed' = owed
          /\ UNCHANGED <<sequence, timestamp>>
     ELSE /\ capPc' = "check"
          /\ UNCHANGED <<capKey, capOwed>>
          /\ IF capturing
             THEN sequence' = (sequence + 1) % 65536 /\ timestamp' = timestamp + TsStep
             ELSE UNCHANGED <<sequence, timestamp>>
  /\ UNCHANGED <<fbVars, bcVars, running, enabled, encInit, decInit,
                 keyReq, encKbps, capturing, decPc, appPc, sendCbSet,
                 frames, starts, owed, lastSent>>

\* After the 33 ms sleep: no frame when capturing was cleared meanwhile or
\* the stream is disabled (line 166); otherwise encode() of the
\* initialized encoder reads keyframe_requested (line 163).  The camera
\* stops delivering once MaxFrames frames were encoded.
CaptureFrame ==
  /\ capPc = "frame"
  /\ capturing /\ enabled => frames < MaxFrames
  /\ IF capturing /\ enabled
     THEN /\ capPc' = "encode"
          /\ capKey' = keyReq
          /\ capOwed' = owed
     ELSE /\ capPc' = "check"
          /\ UNCHANGED <<capKey, capOwed>>
  /\ UNCHANGED <<fbVars, bcVars, running, enabled, sequence, timestamp, encInit, decInit,
                 keyReq, encKbps, capturing, decPc, appPc, sendCbSet,
                 frames, starts, owed, lastSent>>

\* The rest of on_capture_frame: encode() clears keyframe_requested
\* (line 165) and returns 1000 bytes; the send callback, if installed, gets
\* them with timestamp_ and sequence_; on_packet_sent(1000) and process()
\* run update_bitrate and zero bytes_sent_since_update; the timestamp moves
\* on by 90000 / fps and the sequence by one (uint16_t).  The uint32_t
\* timestamp wraps after 2^32 / 3000 frames, beyond the bounds and beyond
\* TLC's integers, so it is not reduced.
CaptureEncode ==
  /\ capPc = "encode"
  /\ keyReq' = FALSE
  /\ owed' = (owed /\ ~capKey)
  /\ lastSent' = IF sendCbSet THEN <<[seq |-> sequence, ts |-> timestamp]>> ELSE lastSent
  /\ Bc!UpdateBitrate(target)
  /\ bytesSent' = 0
  /\ EncoderFollows
  /\ timestamp' = timestamp + TsStep
  /\ sequence' = (sequence + 1) % 65536
  /\ frames' = frames + 1
  /\ capPc' = "check"
  /\ UNCHANGED <<fbVars, target, loss, rtt, callbackSet, forces, selAvail, selected,
                 running, enabled, encInit, decInit, capturing, capKey, decPc, appPc,
                 sendCbSet, starts, capOwed>>

-----------------------------------------------------------------------------
(* The decode thread: decode_loop, lines 190-229.                          *)

\* while (running_.load()).
DecodeCheck ==
  /\ decPc = "check"
  /\ decPc' = IF running THEN "body" ELSE "exit"
  /\ UNCHANGED <<fbVars, bcVars, running, enabled, sequence, timestamp, encInit, decInit,
                 keyReq, encKbps, capturing, capPc, capKey, appPc, sendCbSet,
                 frames, starts, owed, capOwed, lastSent>>

\* The body: the keyframe-request callback when should_request_keyframe()
\* (it changes nothing here), then pop_frame(); a frame popped is decoded
\* and rendered, none means a 5 ms sleep.
DecodeBody ==
  /\ decPc = "body"
  /\ decPc' = "check"
  /\ \/ Fb!PopFrame
     \/ ~ENABLED Fb!PopFrame /\ UNCHANGED fbVars
  /\ UNCHANGED <<bcVars, running, enabled, sequence, timestamp, encInit, decInit, keyReq,
                 encKbps, capturing, capPc, capKey, appPc, sendCbSet,
                 frames, starts, owed, capOwed, lastSent>>

-----------------------------------------------------------------------------

\* The constructor, lines 26-42, and the members' initialisers, lines
\* 231-250: nothing runs, the stream is enabled, the encoder's bitrate is
\* the configured one.
Init ==
  /\ Fb!Init
  /\ Bc!Init
  /\ running = FALSE
  /\ enabled = TRUE
  /\ sequence = 0
  /\ timestamp = 0
  /\ encInit = FALSE
  /\ decInit = FALSE
  /\ keyReq = FALSE
  /\ encKbps = BitrateKbps
  /\ capturing = FALSE
  /\ capPc = "none"
  /\ capKey = FALSE
  /\ decPc = "none"
  /\ appPc = "idle"
  /\ sendCbSet = FALSE
  /\ frames = 0
  /\ starts = 0
  /\ owed = FALSE
  /\ capOwed = FALSE
  /\ lastSent = << >>

Next ==
  \/ Start \/ Stop \/ StopJoinCapture \/ StopJoinDecode
  \/ SetSendCallback
  \/ \E w \in Wire : ReceivePacket(w)
  \/ RequestKeyframe
  \/ \E k \in TargetKbps : SetTargetBitrate(k)
  \/ \E e \in BOOLEAN : SetEnabled(e)
  \/ Tick
  \/ CaptureCheck \/ CaptureFrame \/ CaptureEncode
  \/ DecodeCheck \/ DecodeBody

Spec == Init /\ [][Next]_vars

-----------------------------------------------------------------------------
(* Properties.                                                             *)

TypeOK ==
  /\ running \in BOOLEAN /\ enabled \in BOOLEAN
  /\ sequence \in 0..65535 /\ timestamp \in Nat
  /\ capPc \in {"none", "check", "frame", "encode", "exit"}
  /\ decPc \in {"none", "check", "body", "exit"}
  /\ appPc \in {"idle", "join_capture", "join_decode"}
  /\ frames \in 0..MaxFrames /\ starts \in 0..MaxStarts
  /\ encKbps \in Nat

\* video_codec.h's request_keyframe "Force a keyframe on next encode": a
\* frame whose encode() starts after request_keyframe(), with no keyframe
\* encoded since, is a keyframe.  encode() reads keyframe_requested and
\* clears it later without a lock, so a request that lands in between is
\* cleared unseen.
KeyframeOnNextEncode ==
  capPc = "encode" /\ capOwed => capKey

\* The frames handed to the send callback since the latest start() form one
\* RTP stream: each carries the sequence number after the previous one's
\* (mod 2^16) and a timestamp 90000 / fps later, through
\* set_enabled(false) periods, bitrate changes and restarts.
FramesSentInSequence ==
  [][capPc = "encode" /\ capPc' = "check" /\ sendCbSet /\ lastSent # << >> =>
       /\ sequence = (lastSent[1].seq + 1) % 65536
       /\ timestamp = lastSent[1].ts + TsStep]_vars

=============================================================================
