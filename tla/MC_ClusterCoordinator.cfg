\* Two application threads and up to four calls, one room, two loads.
\* The run looks for a call that never returns, as a violation of
\* CallsReturn; a state where every thread waits is that violation, so
\* deadlock is not reported separately.
CONSTANTS
  c1 = c1  c2 = c2  hb = hb  nothread = nothread  r1 = r1
  Callers <- MCCallers
  Heartbeat = hb
  NoThread = nothread
  Self = 1
  Rooms = {r1}
  LoadValues = {0, 50}
  MaxCalls = 4
SPECIFICATION Spec
PROPERTY
  CallsReturn
CHECK_DEADLOCK FALSE
