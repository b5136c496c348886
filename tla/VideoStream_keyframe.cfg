\* The video stream with the union run's bounds: a request_keyframe() from
\* another thread while the capture thread encodes.
CONSTANTS
  Wire <- MCWire
  Fps = 30
  BitrateKbps = 1500
  TargetKbps = {1000}
  MaxFrames = 2
  MaxStarts = 2
  TargetDelay = 1
  MaxDelay = 4
  WaitForKeyframe = TRUE
  NackMaxCount = 2
  MaxInserts = 1
  MaxTime = 1
  MaxLost = 0
  MinBitrate = 100000
  MaxBitrate = 5000000
  IncreasePct = 108
  DecreasePct = 85
  LossThreshold = 200
SPECIFICATION Spec
INVARIANT KeyframeOnNextEncode
