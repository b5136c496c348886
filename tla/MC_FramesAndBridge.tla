-------------------------- MODULE MC_FramesAndBridge --------------------------
(***************************************************************************)
(* The video frame buffer and the conference bridge, checked in one run as *)
(* two separate systems: no code connects them (the bridge takes decoded   *)
(* frames from its application, not from a FrameBuffer), so the initial    *)
(* state picks one of them in `system` and only that one moves.  Each     *)
(* property is about one of them; the other's variables stay at their     *)
(* initial values.                                                          *)
(*                                                                         *)
(* The frame buffer is fed a two-packet keyframe followed by a two-packet *)
(* delta frame whose sequence numbers wrap from 65535 to 0.  The bridge   *)
(* has three participants (the fewest for a recipient to hear a sum of    *)
(* two sources) and one-sample mono frames of one odd sample (halved, it  *)
(* truncates toward zero; two of them saturate), in AUDIO_VIDEO mode so   *)
(* that the compositor exists.                                             *)
(***************************************************************************)
EXTENDS Integers, TLC

CONSTANTS
  Schedule, TargetDelay, MaxDelay, WaitForKeyframe, NackMaxCount, MaxInserts,
  MaxTime, MaxLost,
  a1, a2, a3, none, grid, spotlight,
  Participants, NoParticipant, Samples, PushLengths, Timestamps, Volumes, Pans,
  SampleRate, FrameDurationMs, Layouts, InitLayout, Mode, AudioChannels,
  MaxParticipants, MaxStarts

VARIABLES
  system,
  now, assemblers, completeFrames, receivedSequences, highestSequence,
  hasKeyframe, stats, lastNack, popped, queuedTs, firstKey, inserts,
  sources, activeSpeaker, mixedCbSet, speakerCbSet, pushed, mixed,
  vsources, layout, vActiveSpeaker, outputCbSet,
  participants, running, thread, bridgeCbSet, appPc, starts

Fb     == INSTANCE FrameBuffer
Bridge == INSTANCE ConferenceBridge

\* One RTP packet: sequence number, timestamp, marker bit, keyframe flag.
P(s, t, m, k) == [seq |-> s, ts |-> t, marker |-> m, key |-> k]

\* A two-packet keyframe followed by a two-packet delta frame whose
\* sequence numbers wrap from 65535 to 0.
WrapSchedule ==
  { P(65533, 1, FALSE, TRUE), P(65534, 1, TRUE, TRUE),
    P(65535, 2, FALSE, FALSE), P(0, 2, TRUE, FALSE) }

MCSamples == {-20001}

fbVars     == <<now, assemblers, completeFrames, receivedSequences, highestSequence,
                hasKeyframe, stats, lastNack, popped, queuedTs, firstKey, inserts>>
bridgeVars == <<sources, activeSpeaker, mixedCbSet, speakerCbSet, pushed, mixed,
                vsources, layout, vActiveSpeaker, outputCbSet,
                participants, running, thread, bridgeCbSet, appPc, starts>>
allVars    == <<system, fbVars, bridgeVars>>

MCInit == system \in {"frames", "bridge"} /\ Fb!Init /\ Bridge!Init

\* A step of the bridge, the frame buffer unchanged.
BridgeStep(A) == system = "bridge" /\ A /\ UNCHANGED <<system, fbVars>>

MCNext ==
  \/ system = "frames" /\ Fb!Next /\ UNCHANGED <<system, bridgeVars>>
  \/ BridgeStep(Bridge!Next)

\* The fairness of ConferenceBridge's Spec: the processing thread ticks and
\* the join in stop() returns once the thread has left its loop.
MCSpec ==
  /\ MCInit /\ [][MCNext]_allVars
  /\ WF_allVars(BridgeStep(Bridge!Processing))
  /\ WF_allVars(BridgeStep(Bridge!StopJoin))

\* The view leaves out what no action or property of the bridge reads: the
\* ghost of the latest tick's output (MixMinusSelf checks it on the step
\* that sets it), the flags of the callbacks whose calls are not modelled,
\* and the compositor, whose state no other method reads back.
MCView == <<system, fbVars, sources, activeSpeaker, mixedCbSet, pushed,
            participants, running, thread, appPc, starts>>

\* The participants are interchangeable ids: nothing orders or compares
\* them, and the frame buffer holds none.
MCSymmetry == Permutations({a1, a2, a3})

-----------------------------------------------------------------------------

\* The frame buffer's variables keep their types.
TypeOK == Fb!TypeOK

\* The frames queued for pop_frame follow one another without a gap.
FramesContiguous == Fb!FramesContiguous

\* With wait_for_keyframe, the first frame handed out is a keyframe.
KeyframeFirst == Fb!KeyframeFirst

\* The bridge's variables keep their types.
BridgeTypeOK == Bridge!TypeOK

\* The active speaker is always a participant, or none.
ActiveSpeakerPresent == Bridge!ActiveSpeakerPresent

\* Every tick mixes each recipient's output minus their own voice.
MixMinusSelf == Bridge!MixMinusSelf

\* No tick follows the return of stop().
TickOnlyWhileStarted == Bridge!TickOnlyWhileStarted

=============================================================================
