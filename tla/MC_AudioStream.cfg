\* One application thread, the network delivering frames 65534..0, two
\* capture callbacks, two starts, and the playout thread.
CONSTANTS
  Arrivals <- MCArrivals
  MinDelay = 1
  MaxDelay = 2
  TargetDelay = 1
  MaxPackets = 2
  EnableAdaptive = TRUE
  SetDelays = {1}
  MaxPushes = 3
  MaxTime = 2
  FrameSamples = 960
  MaxStarts = 2
  MaxCaptures = 3
SPECIFICATION Spec
VIEW MCView
INVARIANTS
  TypeOK
  BufferOrdered
  BufferBounded
  SentStreamContiguous
PROPERTIES
  StopReturns
