\* ICE: the controlling agent with host gathering on, which gathers up to
\* twice (so that a second host candidate appears) and receives up to two
\* of the peer's sixteen candidates, before and after gathering.
\* STUN: three transaction ids (so at most three get_reflexive_address
\* calls) to a configured server, over a network that loses, duplicates and
\* reorders.  Once the ids are spent and the network is empty the client is
\* idle, as a real one is when nobody calls it: deadlock is not checked.
\* RTP: the builder sets each header field once from its default 0 to a
\* value whose bytes all differ, so that a byte-order slip shows; one
\* extension profile (0xBEDE).
\* Video: 30 fps at 1500 kbps (VideoStreamConfig's defaults), a REMB of
\* 1000 kbps, two starts and two encoded frames, so that a restart follows
\* frames sent; the frame buffer's defaults (target delay 50 ms, max delay
\* 200 ms) in 50 ms ticks, one packet received and one tick, so that a
\* frame is popped; the bitrate controller's defaults.  A stopped stream
\* whose bounds are spent stays idle, too.
CONSTANTS
  Role = "CONTROLLING"
  GatherHost = TRUE
  MaxGathers = 2
  MaxRemote = 2
  MaxPackets = 1
  t1 = t1  t2 = t2  t3 = t3  notx = notx  nocb = nocb
  TxIds = {t1, t2, t3}
  NoTx = notx
  NoCallback = nocb
  HasServer = TRUE
  PayloadTypes = {111}
  SeqNumbers = {258}
  Timestamps = {16909060}
  Ssrcs = {16909060}
  ExtProfiles = {48862}
  Fps = 30
  BitrateKbps = 1500
  TargetKbps = {1000}
  MaxFrames = 2
  MaxStarts = 2
  TargetDelay = 1
  MaxDelay = 4
  WaitForKeyframe = TRUE
  NackMaxCount = 2
  MaxInserts = 1
  MaxTime = 1
  MaxLost = 0
  MinBitrate = 100000
  MaxBitrate = 5000000
  IncreasePct = 108
  DecreasePct = 85
  LossThreshold = 200
SPECIFICATION MCSpec
VIEW MCView
INVARIANTS
  PriorityOrdersTypes
  PairPriorityAgrees
  OwnAnswer
  AtMostOnce
  HeaderPreserved
PROPERTY
  FramesSentInSequence
CHECK_DEADLOCK FALSE
