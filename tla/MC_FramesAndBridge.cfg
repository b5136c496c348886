\* The frame buffer: the wrapping schedule, a one-tick target delay, waiting
\* for a keyframe, up to five inserts and three ticks.
\* The bridge: three participants in AUDIO_VIDEO mode, mono frames of one
\* sample (sample_rate 50, 20 ms) of value -20001, so that volume 0.5
\* truncates and two full-volume sources saturate; one start() and one stop().
CONSTANTS
  Schedule <- WrapSchedule
  TargetDelay = 1
  MaxDelay = 1
  WaitForKeyframe = TRUE
  NackMaxCount = 2
  MaxInserts = 5
  MaxTime = 3
  MaxLost = 4
  a1 = a1  a2 = a2  a3 = a3  none = none  grid = grid  spotlight = spotlight
  Participants = {a1, a2, a3}
  NoParticipant = none
  Samples <- MCSamples
  PushLengths = {1, 2}
  Timestamps = {0}
  Volumes = {50}
  Pans = {0}
  SampleRate = 50
  FrameDurationMs = 20
  Layouts = {spotlight}
  InitLayout = grid
  Mode = "AUDIO_VIDEO"
  AudioChannels = 1
  MaxParticipants = 3
  MaxStarts = 1
SPECIFICATION MCSpec
VIEW MCView
SYMMETRY MCSymmetry
INVARIANTS
  TypeOK
  FramesContiguous
  KeyframeFirst
  BridgeTypeOK
  ActiveSpeakerPresent
PROPERTIES
  MixMinusSelf
  TickOnlyWhileStarted
