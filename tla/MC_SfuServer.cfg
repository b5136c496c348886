\* One caller; ports 10000..10001; the room and subscription managers driven
\* by the application and by the io thread.
CONSTANTS
  a1 = a1  a2 = a2  r1 = r1  c1 = c1  c2 = c2  u1 = u1  p1 = p1  sa = sa  m0 = m0  m1 = m1
  Callers = {c1}
  IoThreads = 1
  PortMin = 10000
  PortMax = 10001
  MaxStarts = 2
  RoomIds = {r1}
  ParticipantIds = {a1, a2}
  Configs <- MCConfigs
  Passwords <- MCPasswords
  MediaStates = {m0}
  DefaultMedia = m0
  MaxMinutes = 1
  Subscribers = {u1}
  Publishers = {p1}
  StreamIds = {sa}
  LayerTables <- MCLayerTables
  Bandwidths <- MCBandwidths
  TargetLayers <- MCTargetLayers
SPECIFICATION Spec
INVARIANTS
  TypeOK
  PortsInRange
  AllocFailsOnlyWhenFull
  RoomEventsTrackMembership
PROPERTIES
  StopReturns
