------------------------------ MODULE AudioMixer ------------------------------
(***************************************************************************)
(* The MCU audio mixer, src/server/src/audio_mixer.cpp, with its           *)
(* declarations in src/unnamed/part_001 lines 226-366.                      *)
(*                                                                         *)
(* Every public method holds impl_->mutex for its whole body, so each is   *)
(* one action.  A source is its MixingParams, its sample buffer, its last  *)
(* RTP timestamp and has_data; its audio_level_db is a function of the     *)
(* buffer (push_audio recomputes it whenever the buffer changes), so the   *)
(* model derives it.  Samples are small integers standing for int16 PCM;   *)
(* the float products of the code are truncated toward zero as the casts   *)
(* to int32_t do.  Volumes are in hundredths.  A pan of -1 or 1 gives the  *)
(* exact gains 0 and 1; a pan of 0 gives sqrt(1/2), which the model takes  *)
(* as 707/1000 (the spec's reference mix uses the same gain, so no         *)
(* property depends on the approximation).                                 *)
(***************************************************************************)
EXTENDS Integers, Sequences, FiniteSets, FiniteSetsExt, Functions, TLC

CONSTANTS
  Participants,     \* participant ids
  NoParticipant,    \* the empty ParticipantId
  Samples,          \* the sample values pushed
  PushLengths,      \* the lengths of the spans passed to push_audio
  Timestamps,       \* the RTP timestamps passed to push_audio
  Volumes,          \* MixingParams::volume, in hundredths
  Pans,             \* MixingParams::pan
  SampleRate,       \* AudioSourceConfig::sample_rate
  Channels,         \* AudioSourceConfig::channels
  FrameDurationMs   \* AudioSourceConfig::frame_duration_ms

ASSUME Pans \subseteq {-1, 0, 1} /\ Channels \in {1, 2}

\* Impl::frame_size, line 48.
FrameSize == ((SampleRate * FrameDurationMs) \div 1000) * Channels

VARIABLES
  sources,          \* Impl::sources, a function on the ids present
  activeSpeaker,    \* Impl::active_speaker
  mixedCbSet,       \* Impl::mixed_callback is non-empty
  speakerCbSet,     \* Impl::speaker_callback is non-empty
  pushed,           \* ghost: the frame each source pushed since the last tick
  mixed             \* ghost: the frames the latest step handed to mixed_callback

mixerVars == <<sources, activeSpeaker, mixedCbSet, speakerCbSet, pushed, mixed>>

NoFrame == << >>   \* pushed[p] when p pushed nothing since the last tick

MixingParams == [volume: Volumes \cup {100}, pan: Pans \cup {0}, muted: BOOLEAN]
DefaultParams == [volume |-> 100, pan |-> 0, muted |-> FALSE]
Frame == [1..FrameSize -> Samples \cup {0}]

-----------------------------------------------------------------------------
(* Arithmetic of Impl.                                                     *)

\* static_cast<int32_t> of a product: truncation toward zero.
Trunc(n, d) == IF n >= 0 THEN n \div d ELSE -((-n) \div d)

\* std::clamp to the int16_t range, line 240.
Saturate(v) == IF v < -32768 THEN -32768 ELSE IF v > 32767 THEN 32767 ELSE v

\* The gain of apply_volume_and_pan (lines 77-82) for the left (side = 0)
\* or right (side = 1) channel, in hundredths times 1000.
PanGain(params, side) ==
  LET toward == IF side = 0 THEN -1 ELSE 1
  IN  params.volume * (CASE params.pan = toward  -> 1000
                         [] params.pan = -toward -> 0
                         [] OTHER                -> 707)

\* sample * gain truncated to int32_t, line 84 / 85.
Gained(s, params, side) == Trunc(s * PanGain(params, side), 100000)

\* sample * volume truncated to int32_t, line 216.
Scaled(s, params) == Trunc(s * params.volume, 100)

SumSq(buf) == MapThenSumSet(LAMBDA i : buf[i] * buf[i], DOMAIN buf)

\* calculate_level, lines 53-67, as an order-preserving key: 0 stands for
\* the -96 dBFS floor (rms < 1), otherwise the sum of squares (every
\* buffer has frame_size samples, so the key orders the levels as the
\* dBFS values do).
Loudness(buf) == IF SumSq(buf) < Len(buf) THEN 0 ELSE SumSq(buf)

\* level > -40 dBFS, i.e. rms > 32768 / 100: sum of squares above
\* n * 107374.1824 (= n * 268435456 / 2500).
AboveSpeakerFloor(buf) == SumSq(buf) > ((Len(buf) * 268435456) \div 2500)

-----------------------------------------------------------------------------
(* process(), lines 190-265.                                               *)

\* update_active_speaker, lines 88-113: the loudest unmuted source (any of
\* them on a tie: the unordered_map's order decides); a change of speaker
\* above -40 dBFS is stored (the callback runs if set).
SpeakerChoices ==
  LET cand == {p \in DOMAIN sources : ~sources[p].params.muted
                                      /\ Loudness(sources[p].buffer) > 0}
      top  == IF cand = {} THEN 0 ELSE Max({Loudness(sources[p].buffer) : p \in cand})
      best == {p \in cand : Loudness(sources[p].buffer) = top}
  IN  IF best = {} THEN {activeSpeaker}
      ELSE {IF AboveSpeakerFloor(sources[p].buffer) THEN p ELSE activeSpeaker : p \in best}

\* The mono loop of lines 214-217: acc[i] += sample * volume.
MonoContribution(buf, params) == [i \in 1..FrameSize |-> Scaled(buf[i], params)]

\* The stereo loop of lines 222-232 as written: left and right are not
\* reset between the two apply_volume_and_pan calls of a pair, so the odd
\* sample receives the right-gain product of both samples of the pair.
StereoContribution(buf, params) ==
  [i \in 1..FrameSize |->
     IF i % 2 = 1 THEN Gained(buf[i], params, 0)
     ELSE Gained(buf[i - 1], params, 1) + Gained(buf[i], params, 1)]

Contribution(buf, params) ==
  IF Channels = 1 THEN MonoContribution(buf, params) ELSE StereoContribution(buf, params)

\* Mutant of MixedFor: the recipient's own source is not skipped.
MixedForSelf(r) == {s \in DOMAIN sources : sources[s].has_data /\ ~sources[s].params.muted}

\* The sources mixed for a recipient, lines 205-209.
MixedFor(r) == {s \in DOMAIN sources : s # r /\ sources[s].has_data /\ ~sources[s].params.muted}

\* Lines 202-242: the saturated sum of the contributions.
MixFor(r) ==
  [i \in 1..FrameSize |->
     Saturate(MapThenSumSet(LAMBDA s : Contribution(sources[s].buffer, sources[s].params)[i],
                            MixedFor(r)))]

\* Line 194 returns at once when there is no source.
Process ==
  IF DOMAIN sources = {}
  THEN /\ mixed' = << >>
       /\ UNCHANGED <<sources, activeSpeaker, mixedCbSet, speakerCbSet, pushed>>
  ELSE /\ \E speaker \in SpeakerChoices : activeSpeaker' = speaker
       /\ mixed' = IF mixedCbSet
                   THEN [r \in DOMAIN sources |-> [samples |-> MixFor(r), ts |-> sources[r].ts]]
                   ELSE << >>
       /\ sources' = [p \in DOMAIN sources |-> [sources[p] EXCEPT !.has_data = FALSE]]
       /\ pushed' = [p \in DOMAIN pushed |-> NoFrame]
       /\ UNCHANGED <<mixedCbSet, speakerCbSet>>

-----------------------------------------------------------------------------
(* The other methods.                                                      *)

\* set_mixed_audio_callback, lines 122-126.
SetMixedAudioCallback ==
  /\ mixedCbSet' = TRUE
  /\ mixed' = << >>
  /\ UNCHANGED <<sources, activeSpeaker, speakerCbSet, pushed>>

\* set_active_speaker_callback, lines 128-132.
SetActiveSpeakerCallback ==
  /\ speakerCbSet' = TRUE
  /\ mixed' = << >>
  /\ UNCHANGED <<sources, activeSpeaker, mixedCbSet, pushed>>

\* add_source, lines 134-145: a zeroed buffer of frame_size samples; an
\* id already present is replaced.
AddSource(p, params) ==
  /\ sources' = (p :> [params |-> params, buffer |-> [i \in 1..FrameSize |-> 0],
                       ts |-> 0, has_data |-> FALSE]) @@ sources
  /\ pushed' = (p :> NoFrame) @@ pushed
  /\ mixed' = << >>
  /\ UNCHANGED <<activeSpeaker, mixedCbSet, speakerCbSet>>

\* remove_source, lines 147-157.
\* Mutant of RemoveSource: the active speaker is left as it was.
RemoveSourceKeepSpeaker(p) ==
  /\ sources' = Restrict(sources, DOMAIN sources \ {p})
  /\ pushed' = Restrict(pushed, DOMAIN pushed \ {p})
  /\ mixed' = << >>
  /\ UNCHANGED <<activeSpeaker, mixedCbSet, speakerCbSet>>

RemoveSource(p) ==
  /\ sources' = Restrict(sources, DOMAIN sources \ {p})
  /\ pushed' = Restrict(pushed, DOMAIN pushed \ {p})
  /\ activeSpeaker' = IF activeSpeaker = p THEN NoParticipant ELSE activeSpeaker
  /\ mixed' = << >>
  /\ UNCHANGED <<mixedCbSet, speakerCbSet>>

\* set_mixing_params, lines 159-168.
SetMixingParams(p, params) ==
  /\ sources' = IF p \in DOMAIN sources THEN [sources EXCEPT ![p].params = params] ELSE sources
  /\ mixed' = << >>
  /\ UNCHANGED <<activeSpeaker, mixedCbSet, speakerCbSet, pushed>>

\* Mutant of PushAudio: all n samples are copied, without the min with
\* the frame size.
PushAudioNoTruncate(p, samples, ts) ==
  /\ IF p \in DOMAIN sources
     THEN /\ sources' = [sources EXCEPT ![p].buffer = samples, ![p].ts = ts,
                                        ![p].has_data = TRUE]
          /\ pushed' = [pushed EXCEPT ![p] = samples]
     ELSE UNCHANGED <<sources, pushed>>
  /\ mixed' = << >>
  /\ UNCHANGED <<activeSpeaker, mixedCbSet, speakerCbSet>>

\* push_audio, lines 170-188: the first min(n, frame_size) samples are
\* copied over the buffer, whose tail keeps its earlier samples.
PushAudio(p, samples, ts) ==
  /\ IF p \in DOMAIN sources
     THEN LET buf == sources[p].buffer
              n   == Len(samples)
              new == [i \in 1..FrameSize |-> IF i <= n THEN samples[i] ELSE buf[i]]
          IN  /\ sources' = [sources EXCEPT ![p].buffer = new, ![p].ts = ts,
                                            ![p].has_data = TRUE]
              /\ pushed' = [pushed EXCEPT ![p] = [i \in 1..FrameSize |->
                                                    IF i <= n THEN samples[i] ELSE 0]]
     ELSE UNCHANGED <<sources, pushed>>
  /\ mixed' = << >>
  /\ UNCHANGED <<activeSpeaker, mixedCbSet, speakerCbSet>>

-----------------------------------------------------------------------------

\* The constructor, lines 46-51 and 116-118.
Init ==
  /\ sources = << >>
  /\ activeSpeaker = NoParticipant
  /\ mixedCbSet = FALSE
  /\ speakerCbSet = FALSE
  /\ pushed = << >>
  /\ mixed = << >>

Next ==
  \/ SetMixedAudioCallback
  \/ SetActiveSpeakerCallback
  \/ \E p \in Participants, v \in Volumes, a \in Pans, m \in BOOLEAN :
        AddSource(p, [volume |-> v, pan |-> a, muted |-> m])
  \/ \E p \in Participants : RemoveSource(p)
  \/ \E p \in Participants, v \in Volumes, a \in Pans, m \in BOOLEAN :
        SetMixingParams(p, [volume |-> v, pan |-> a, muted |-> m])
  \/ \E p \in Participants, n \in PushLengths, t \in Timestamps :
        \E s \in [1..n -> Samples] : PushAudio(p, s, t)
  \/ Process

Spec == Init /\ [][Next]_mixerVars

-----------------------------------------------------------------------------
(* Properties.                                                             *)

TypeOK ==
  /\ DOMAIN sources \subseteq Participants
  /\ \A p \in DOMAIN sources :
       /\ sources[p].params \in MixingParams
       /\ sources[p].buffer \in Frame
       /\ sources[p].ts \in Timestamps \cup {0}
       /\ sources[p].has_data \in BOOLEAN
  /\ activeSpeaker \in Participants \cup {NoParticipant}
  /\ DOMAIN pushed = DOMAIN sources

\* Spec 4.4, step 3: a source's contribution to a recipient, volume on mono;
\* on stereo the left gain on the even (0-based) samples and the right gain
\* on the odd ones.
SpecContribution(frame, params) ==
  [i \in 1..FrameSize |->
     IF Channels = 1 THEN Scaled(frame[i], params)
     ELSE Gained(frame[i], params, IF i % 2 = 1 THEN 0 ELSE 1)]

\* Spec testable property 1, mix-minus-self, as a property of every
\* process() step: the frame each recipient receives is the saturated sum,
\* over the other sources that pushed a frame since the previous tick and
\* are not muted, of the spec's contribution of that frame.  A recipient's
\* own pushes, and frames an earlier tick already mixed, never reach it.
MixMinusSelf ==
  [][Process =>
       \A r \in DOMAIN mixed' :
         LET from == {s \in DOMAIN pushed : s # r /\ pushed[s] # NoFrame
                                           /\ ~sources[s].params.muted}
         IN  mixed'[r].samples =
               [i \in 1..FrameSize |->
                  Saturate(MapThenSumSet(LAMBDA s : SpecContribution(pushed[s], sources[s].params)[i],
                                         from))]]_mixerVars

\* get_active_speaker names a participant that is still a source (or
\* nobody): remove_source clears the speaker it removes.
ActiveSpeakerPresent ==
  activeSpeaker # NoParticipant => activeSpeaker \in DOMAIN sources

=============================================================================
