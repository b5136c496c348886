\* Connection recovery: one caller who cancels before restarting, at most
\* five calls, exponential backoff 100 ms x 2^n capped at 300 ms, and three
\* attempts.  Subscriptions: layer tables registered low to high, as in
\* the spec's seed test.  Lock-free buffers: an SPSC queue of capacity 2 (three slots)
\* through which five values pass, so that both indices wrap and the queue
\* fills; a ring buffer of four samples written and read one to three at a
\* time, so that copies wrap around the end and writes find it full.
CONSTANTS
  c1 = c1
  u1 = u1  p1 = p1  sa = sa  sv = sv
  Subscribers = {u1}
  Publishers = {p1}
  StreamIds = {sa, sv}
  Bandwidths <- MCBandwidths
  TargetLayers <- MCTargetLayers
  LayerTables <- MCLayerTables
  Strategy = "EXPONENTIAL_BACKOFF"
  InitialDelay = 100
  MaxDelay = 300
  Multiplier = 2
  MaxAttempts = 3
  EnableIceRestart = TRUE
  ReportedStates = {"CONNECTED", "DISCONNECTED"}
  JoinBeforeRestart = TRUE
  MaxCalls = 5
  SpscCapacity = 2
  SpscPushes = 5
  RingCapacity = 4
  RingCounts = {1, 2, 3}
  RingSamples = 8
SPECIFICATION MCSpec
INVARIANTS
  TypeOK
  NoStaleReconnecting
PROPERTIES
  RecoveryTerminates
  AutoLayerFollowsSpec
  LayerEventuallyFollowsBandwidth
  SpscRefinesFifo
  RingRefinesFifo
\* Once the bounded calls and values are spent, every further call returns
\* at once without a change: the end is idleness, not deadlock.
CHECK_DEADLOCK FALSE
