--------------------------- MODULE ConferenceBridge ---------------------------
(***************************************************************************)
(* The MCU conference bridge, src/server/src/video_compositor.cpp lines    *)
(* 222-494 (conference_bridge.cpp), with its declarations in                *)
(* src/server/include/rtc/server/room_manager.h lines 250-410, composed    *)
(* with the AudioMixer and the VideoCompositor it owns.                    *)
(*                                                                         *)
(* The bridge's methods hold impl_->mutex around their calls into the      *)
(* mixer and the compositor, and the processing thread holds it around    *)
(* one tick, so each is one action.  start() and stop() touch only the     *)
(* atomic running flag and the thread object; stop() is split at the join, *)
(* where the processing thread runs.  The loop's sleep is left out: a tick *)
(* may come at any time while the thread runs.  The application reaches    *)
(* the mixer's callbacks through audio_mixer() (the bridge never installs *)
(* them) and the compositor's through video_compositor().                 *)
(***************************************************************************)
EXTENDS Integers, FiniteSets, Functions, TLC

CONSTANTS
  \* AudioMixer's constants
  Participants, NoParticipant, Samples, PushLengths, Timestamps, Volumes, Pans,
  SampleRate, FrameDurationMs,
  \* VideoCompositor's constants
  Layouts, InitLayout,
  \* BridgeConfig
  Mode,             \* BridgeConfig::mode
  AudioChannels,    \* BridgeConfig::audio_channels
  MaxParticipants,  \* BridgeConfig::max_participants
  MaxStarts         \* bound on start() calls

VARIABLES
  \* AudioMixer (Impl::audio_mixer)
  sources, activeSpeaker, mixedCbSet, speakerCbSet, pushed, mixed,
  \* VideoCompositor (Impl::video_compositor)
  vsources, layout, vActiveSpeaker, outputCbSet,
  \* ConferenceBridge::Impl
  participants,     \* Impl::participants
  running,          \* Impl::running
  thread,           \* Impl::processing_thread: [pc, joinable]
  bridgeCbSet,      \* Impl::output_callback is non-empty
  appPc,            \* the controlling thread: "idle" or inside stop() at the join
  starts            \* start() calls so far

AM == INSTANCE AudioMixer WITH Channels <- AudioChannels
VC == INSTANCE VideoCompositor

mixerVars == <<sources, activeSpeaker, mixedCbSet, speakerCbSet, pushed, mixed>>
compositorVars == <<vsources, layout, vActiveSpeaker, outputCbSet>>
bridgeVars == <<participants, running, thread, bridgeCbSet, appPc, starts>>
vars == <<mixerVars, compositorVars, bridgeVars>>

\* Impl's constructor, lines 258-274: the compositor exists in AUDIO_VIDEO
\* mode only; without it the video methods return at once.
HasCompositor == Mode = "AUDIO_VIDEO"

\* A step of the bridge that hands nothing to the mixed-audio callback.
Quiet == mixed' = << >>

-----------------------------------------------------------------------------
(* start and stop, lines 314-333.                                          *)

\* start, lines 314-322: the flag is loaded and stored without a lock.
Start ==
  /\ appPc = "idle"
  /\ starts < MaxStarts
  /\ starts' = starts + 1
  /\ IF running
     THEN UNCHANGED <<running, thread>>
     ELSE /\ running' = TRUE
          /\ thread' = [pc |-> "check", joinable |-> TRUE]
  /\ Quiet
  /\ UNCHANGED <<sources, activeSpeaker, mixedCbSet, speakerCbSet, pushed,
                 compositorVars, participants, bridgeCbSet, appPc>>

\* stop, lines 324-328: running_ = false.
StopStore ==
  /\ appPc = "idle"
  /\ IF running
     THEN /\ running' = FALSE
          /\ appPc' = "stop_join"
     ELSE UNCHANGED <<running, appPc>>
  /\ Quiet
  /\ UNCHANGED <<sources, activeSpeaker, mixedCbSet, speakerCbSet, pushed,
                 compositorVars, participants, thread, bridgeCbSet, starts>>

\* Mutant of StopJoin: the thread is detached instead of joined.
StopJoinDetach ==
  /\ appPc = "stop_join"
  /\ thread' = [thread EXCEPT !.joinable = FALSE]
  /\ appPc' = "idle"
  /\ Quiet
  /\ UNCHANGED <<sources, activeSpeaker, mixedCbSet, speakerCbSet, pushed,
                 compositorVars, participants, running, bridgeCbSet, starts>>

\* stop, lines 329-332: the join returns once the loop has exited.
StopJoin ==
  /\ appPc = "stop_join"
  /\ thread.joinable => thread.pc = "exited"
  /\ thread' = [pc |-> "none", joinable |-> FALSE]
  /\ appPc' = "idle"
  /\ Quiet
  /\ UNCHANGED <<sources, activeSpeaker, mixedCbSet, speakerCbSet, pushed,
                 compositorVars, participants, running, bridgeCbSet, starts>>

-----------------------------------------------------------------------------
(* processing_loop, lines 276-301.                                         *)

\* Line 280: while (running.load()).
LoopCheck ==
  /\ thread.pc = "check"
  /\ thread' = [thread EXCEPT !.pc = IF running THEN "tick" ELSE "exited"]
  /\ Quiet
  /\ UNCHANGED <<sources, activeSpeaker, mixedCbSet, speakerCbSet, pushed,
                 compositorVars, participants, running, bridgeCbSet, appPc, starts>>

\* Lines 284-292: one tick of the mixer and the compositor under the lock.
LoopTick ==
  /\ thread.pc = "tick"
  /\ AM!Process
  /\ IF HasCompositor THEN VC!Process ELSE UNCHANGED compositorVars
  /\ thread' = [thread EXCEPT !.pc = "check"]
  /\ UNCHANGED <<participants, running, bridgeCbSet, appPc, starts>>

-----------------------------------------------------------------------------
(* The other methods, lines 340-452.                                       *)

\* set_output_callback, lines 340-344 (the callback is never called).
SetOutputCallback ==
  /\ bridgeCbSet' = TRUE
  /\ Quiet
  /\ UNCHANGED <<sources, activeSpeaker, mixedCbSet, speakerCbSet, pushed,
                 compositorVars, participants, running, thread, appPc, starts>>

\* add_participant, lines 346-371.
AddParticipant(p) ==
  IF Cardinality(participants) >= MaxParticipants \/ p \in participants
  THEN /\ Quiet
       /\ UNCHANGED <<sources, activeSpeaker, mixedCbSet, speakerCbSet, pushed,
                      compositorVars, bridgeVars>>
  ELSE /\ participants' = participants \cup {p}
       /\ AM!AddSource(p, AM!DefaultParams)
       /\ IF HasCompositor THEN VC!AddSource(p) ELSE UNCHANGED compositorVars
       /\ UNCHANGED <<running, thread, bridgeCbSet, appPc, starts>>

\* remove_participant, lines 373-386.
RemoveParticipant(p) ==
  /\ participants' = participants \ {p}
  /\ AM!RemoveSource(p)
  /\ IF HasCompositor THEN VC!RemoveSource(p) ELSE UNCHANGED compositorVars
  /\ UNCHANGED <<running, thread, bridgeCbSet, appPc, starts>>

\* push_audio, lines 388-393.
PushAudio(p, samples, ts) ==
  /\ AM!PushAudio(p, samples, ts)
  /\ UNCHANGED <<compositorVars, bridgeVars>>

\* push_video, lines 395-423: a span shorter than an I420 frame of the
\* given size is ignored.
PushVideo(p, whole) ==
  /\ IF HasCompositor /\ whole THEN VC!PushFrame(p) ELSE UNCHANGED compositorVars
  /\ Quiet
  /\ UNCHANGED <<sources, activeSpeaker, mixedCbSet, speakerCbSet, pushed, bridgeVars>>

\* set_audio_params, lines 425-430.
SetAudioParams(p, params) ==
  /\ AM!SetMixingParams(p, params)
  /\ UNCHANGED <<compositorVars, bridgeVars>>

\* set_layout, lines 432-438.
SetLayout(l) ==
  /\ IF HasCompositor THEN VC!SetLayout(l) ELSE UNCHANGED compositorVars
  /\ Quiet
  /\ UNCHANGED <<sources, activeSpeaker, mixedCbSet, speakerCbSet, pushed, bridgeVars>>

\* set_muted, lines 440-444: MixingParams{.muted = muted}, so the volume
\* and the pan go back to their defaults.
SetMuted(p, m) ==
  /\ AM!SetMixingParams(p, [AM!DefaultParams EXCEPT !.muted = m])
  /\ UNCHANGED <<compositorVars, bridgeVars>>

\* set_video_hidden, lines 446-452: TilePosition{.visible = !hidden}.
SetVideoHidden(p, hidden) ==
  /\ IF HasCompositor THEN VC!SetTilePosition(p, ~hidden) ELSE UNCHANGED compositorVars
  /\ Quiet
  /\ UNCHANGED <<sources, activeSpeaker, mixedCbSet, speakerCbSet, pushed, bridgeVars>>

\* The application's calls through audio_mixer() and video_compositor().
AccessorCall ==
  \/ /\ AM!SetMixedAudioCallback
     /\ UNCHANGED <<compositorVars, bridgeVars>>
  \/ /\ AM!SetActiveSpeakerCallback
     /\ UNCHANGED <<compositorVars, bridgeVars>>
  \/ /\ HasCompositor
     /\ \/ VC!SetOutputCallback
        \/ VC!SetActiveSpeaker(activeSpeaker)
     /\ Quiet
     /\ UNCHANGED <<sources, activeSpeaker, mixedCbSet, speakerCbSet, pushed, bridgeVars>>

-----------------------------------------------------------------------------

Init ==
  /\ AM!Init
  /\ VC!Init
  /\ participants = {}
  /\ running = FALSE
  /\ thread = [pc |-> "none", joinable |-> FALSE]
  /\ bridgeCbSet = FALSE
  /\ appPc = "idle"
  /\ starts = 0

\* The application's calls, each one step: the participant and media calls
\* hold impl_->mutex; start() and stop() use only the atomic running flag
\* and the thread object, and come from the one controlling thread.
Application ==
  \/ Start
  \/ StopStore
  \/ StopJoin
  \/ SetOutputCallback
  \/ \E p \in Participants : AddParticipant(p)
  \/ \E p \in Participants : RemoveParticipant(p)
  \/ \E p \in Participants, n \in PushLengths, t \in Timestamps :
        \E s \in [1..n -> Samples] : PushAudio(p, s, t)
  \/ \E p \in Participants, w \in BOOLEAN : PushVideo(p, w)
  \/ \E p \in Participants, v \in Volumes, a \in Pans, m \in BOOLEAN :
        SetAudioParams(p, [volume |-> v, pan |-> a, muted |-> m])
  \/ \E l \in Layouts : SetLayout(l)
  \/ \E p \in Participants, m \in BOOLEAN : SetMuted(p, m)
  \/ \E p \in Participants, h \in BOOLEAN : SetVideoHidden(p, h)
  \/ AccessorCall

\* The processing thread.
Processing == LoopCheck \/ LoopTick

Next == Application \/ Processing

\* The processing thread is an OS thread, and stop() waits in join().
Spec == Init /\ [][Next]_vars /\ WF_vars(Processing) /\ WF_vars(StopJoin)

-----------------------------------------------------------------------------
(* Properties.                                                             *)

TypeOK ==
  /\ AM!TypeOK
  /\ participants \subseteq Participants
  /\ running \in BOOLEAN
  /\ thread \in [pc: {"none", "check", "tick", "exited"}, joinable: BOOLEAN]
  /\ appPc \in {"idle", "stop_join"}
  /\ starts \in 0..MaxStarts

\* Spec property 1 on every tick of the processing thread (AudioMixer).
MixMinusSelf == AM!MixMinusSelf

\* get_active_speaker never names a participant that has left (AudioMixer).
ActiveSpeakerPresent == AM!ActiveSpeakerPresent

\* Once stop() has returned, the mixer ticks no more until the next
\* start(): a tick happens only while running is set or stop() still
\* waits in join() for the thread to leave its loop.
TickOnlyWhileStarted ==
  [][LoopTick => running \/ appPc = "stop_join"]_vars

=============================================================================
