\* One caller and the recovery settings of the pass run; the caller
\* reports the reconnection with on_reconnected whenever it likes.
CONSTANTS
  Callers = {c1}
  Strategy = "EXPONENTIAL_BACKOFF"
  InitialDelay = 100
  MaxDelay = 300
  Multiplier = 2
  MaxAttempts = 3
  EnableIceRestart = TRUE
  ReportedStates = {"CONNECTED", "DISCONNECTED"}
  JoinBeforeRestart = TRUE
  MaxCalls = 5
SPECIFICATION Spec
PROPERTY
  ReconnectionKept
CHECK_DEADLOCK FALSE
