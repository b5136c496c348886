\* The controller: the rates and thresholds of BitrateControllerConfig,
\* bitrates 100..400, one forced set_bitrate, budgets 0 and 700 kbps.
\* The pacer: two packet sizes, two priorities and a rate change.
CONSTANTS
  StartBitrate = 200
  MinBitrate = 100
  MaxBitrate = 400
  IncreasePct = 108
  DecreasePct = 85
  LossThreshold = 200
  LossValues <- MCLossValues
  RttValues = {40}
  RembValues <- MCRembValues
  ForceValues = {2000}
  MaxForces = 1
  PacketSize = 1
  MaxSent = 1
  Width = 640
  Height = 480
  MaxKbps = 1000
  Availables <- MCAvailables
  Sizes = {2, 5}
  Priorities = {0, 1}
  InitBitrate = 16000
  Bitrates = {40000}
  BucketSize = 6
  MaxQueueSize = 3
  MaxEnqueues = 4
  MaxTime = 3
SPECIFICATION MCSpec
INVARIANTS
  SelectionMaximal
  TypeOK
  PopsInPriorityOrder
  Conservation
PROPERTIES
  UpdateFollowsSpec
  Converges
