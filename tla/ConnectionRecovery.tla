-------------------------- MODULE ConnectionRecovery --------------------------
(***************************************************************************)
(* Connection recovery, src/core/src/connection_recovery.cpp.              *)
(*                                                                         *)
(* Two kinds of actor share Impl: the application threads in Callers,      *)
(* which call the public methods, and the one recovery thread that         *)
(* start_recovery spawns to run recovery_loop.  Methods that hold the      *)
(* mutex for their whole body are one action.  start_recovery and          *)
(* cancel_recovery hold no lock, so each is two steps: start_recovery      *)
(* loads `recovering` and then stores it and spawns; cancel_recovery       *)
(* stores false and then joins.  recovery_loop is one action per region    *)
(* between its lock releases, sleep and atomic loads.                      *)
(*                                                                         *)
(* The recovery thread's pc `tpc` is "none" when impl_->recovery_thread    *)
(* holds no thread (never started, or joined) and "exit" once the thread   *)
(* has returned but is not joined yet; std::thread is joinable in every    *)
(* other value too.  Assigning a new std::thread to a joinable one calls   *)
(* std::terminate, recorded in `terminated`.  Durations are abstracted:    *)
(* sleep_for is the gap between two thread steps, and only current_delay, *)
(* which next_delay() reports, keeps its value.                            *)
(***************************************************************************)
EXTENDS Integers, FiniteSets

CONSTANTS
  Callers,            \* application threads calling the public methods
  Strategy,           \* RecoveryConfig::strategy
  InitialDelay,       \* RecoveryConfig::initial_delay, in ms
  MaxDelay,           \* RecoveryConfig::max_delay, in ms
  Multiplier,         \* RecoveryConfig::backoff_multiplier (an integer here)
  MaxAttempts,        \* RecoveryConfig::max_attempts
  EnableIceRestart,   \* RecoveryConfig::enable_ice_restart
  ReportedStates,     \* the states callers pass to on_state_change
  JoinBeforeRestart,  \* callers call cancel_recovery before restarting
  MaxCalls            \* bound on public method calls

Strategies == {"NONE", "IMMEDIATE", "EXPONENTIAL_BACKOFF", "LINEAR_BACKOFF"}
States == {"NEW", "CONNECTING", "CONNECTED", "DISCONNECTED", "RECONNECTING",
           "FAILED", "CLOSED"}

ASSUME /\ Strategy \in Strategies
       /\ MaxAttempts \in Nat
       /\ ReportedStates \subseteq States
       /\ JoinBeforeRestart \in BOOLEAN

\* The thread's program points in recovery_loop.
ThreadPcs == {"none", "cond", "set", "sleep", "check", "fail", "failexit", "exit"}
\* A caller is idle, between the two halves of start_recovery, or in join().
CallerPcs == {"idle", "starting", "joining"}

VARIABLES
  state,            \* Impl::state
  recovering,       \* Impl::recovering (std::atomic<bool>)
  currentAttempt,   \* Impl::current_attempt
  currentDelay,     \* Impl::current_delay, in ms
  stats,            \* Impl::stats (the counters)
  callbackSet,      \* whether Impl::callback holds a function
  tpc,              \* the recovery thread's program point
  cpc,              \* each caller's program point
  calls,            \* public method calls so far
  terminated       \* std::terminate has been called

vars == <<state, recovering, currentAttempt, currentDelay, stats, callbackSet,
          tpc, cpc, calls, terminated>>

\* The thread exists and has not returned from recovery_loop.
ThreadLive == tpc \notin {"none", "exit"}

-----------------------------------------------------------------------------
(* Impl::calculate_delay, lines 36-56: the delay before attempt `a`.       *)

RECURSIVE Power(_, _)
Power(b, e) == IF e = 0 THEN 1 ELSE b * Power(b, e - 1)

CalculateDelay(a) ==
  CASE Strategy = "IMMEDIATE"           -> InitialDelay
    [] Strategy = "LINEAR_BACKOFF"      -> InitialDelay * (a + 1)
    [] Strategy = "EXPONENTIAL_BACKOFF" ->
         IF InitialDelay * Power(Multiplier, a) < MaxDelay
         THEN InitialDelay * Power(Multiplier, a) ELSE MaxDelay
    [] OTHER                            -> 0

-----------------------------------------------------------------------------
(* Impl::recovery_loop, lines 66-120: one action per step of the thread.  *)

ThreadStep(from, to) == tpc = from /\ tpc' = to

\* Mutant of TCond: the loop runs while current_attempt <= max_attempts.
TCondOffByOne ==
  /\ tpc = "cond"
  /\ tpc' = IF recovering /\ currentAttempt <= MaxAttempts THEN "set" ELSE "fail"
  /\ UNCHANGED <<state, recovering, currentAttempt, currentDelay, stats, callbackSet,
                 cpc, calls, terminated>>

\* Line 68: the loop condition, two atomic reads.
TCond ==
  /\ tpc = "cond"
  /\ tpc' = IF recovering /\ currentAttempt < MaxAttempts THEN "set" ELSE "fail"
  /\ UNCHANGED <<state, recovering, currentAttempt, currentDelay, stats, callbackSet,
                 cpc, calls, terminated>>

\* Lines 70-77: compute the delay, set RECONNECTING under the lock, emit.
TSet ==
  /\ ThreadStep("set", "sleep")
  /\ currentDelay' = CalculateDelay(currentAttempt)
  /\ state' = "RECONNECTING"
  /\ UNCHANGED <<recovering, currentAttempt, stats, callbackSet, cpc, calls,
                 terminated>>

\* Mutant of TAwake: a cancelled recovery returns at once instead of
\* breaking to the failure epilogue.
TAwakeReturns ==
  /\ tpc = "sleep"
  /\ tpc' = IF recovering THEN "check" ELSE "exit"
  /\ UNCHANGED <<state, recovering, currentAttempt, currentDelay, stats, callbackSet,
                 cpc, calls, terminated>>

\* Lines 80-82: after the sleep, a cancelled recovery breaks out of the loop
\* to the failure epilogue.
TAwake ==
  /\ tpc = "sleep"
  /\ tpc' = IF recovering THEN "check" ELSE "fail"
  /\ UNCHANGED <<state, recovering, currentAttempt, currentDelay, stats, callbackSet,
                 cpc, calls, terminated>>

\* Mutant of TCheck: the attempt counter is not advanced.
TCheckNoAdvance ==
  /\ tpc = "check"
  /\ IF state = "CONNECTED"
     THEN /\ stats' = [stats EXCEPT !.reconnect_success = @ + 1]
          /\ recovering' = FALSE
          /\ tpc' = "exit"
     ELSE /\ tpc' = "cond"
          /\ UNCHANGED <<stats, recovering>>
  /\ UNCHANGED <<state, currentAttempt, currentDelay, callbackSet, cpc, calls,
                 terminated>>

\* Lines 85-108: under the lock, a CONNECTED state ends the recovery as a
\* success; otherwise the attempt counter advances.
TCheck ==
  /\ tpc = "check"
  /\ IF state = "CONNECTED"
     THEN /\ stats' = [stats EXCEPT !.reconnect_success = @ + 1]
          /\ recovering' = FALSE
          /\ tpc' = "exit"
          /\ UNCHANGED currentAttempt
     ELSE /\ currentAttempt' = currentAttempt + 1
          /\ tpc' = "cond"
          /\ UNCHANGED <<stats, recovering>>
  /\ UNCHANGED <<state, currentDelay, callbackSet, cpc, calls, terminated>>

\* Lines 112-116: the failure epilogue's locked region.
TFail ==
  /\ ThreadStep("fail", "failexit")
  /\ state' = "FAILED"
  /\ stats' = [stats EXCEPT !.reconnect_failed = @ + 1]
  /\ UNCHANGED <<recovering, currentAttempt, currentDelay, callbackSet, cpc, calls,
                 terminated>>

\* Lines 118-119: emit FAILED, then clear `recovering`; the thread returns.
TFailExit ==
  /\ ThreadStep("failexit", "exit")
  /\ recovering' = FALSE
  /\ UNCHANGED <<state, currentAttempt, currentDelay, stats, callbackSet, cpc, calls,
                 terminated>>

Thread == TCond \/ TSet \/ TAwake \/ TCheck \/ TFail \/ TFailExit

-----------------------------------------------------------------------------
(* The public methods, called by the threads in Callers.                   *)

\* A caller starts a method call.
Call(c) == cpc[c] = "idle" /\ calls < MaxCalls /\ calls' = calls + 1

\* set_callback, lines 133-137.
SetCallback(c) ==
  /\ Call(c)
  /\ callbackSet' = TRUE
  /\ UNCHANGED <<state, recovering, currentAttempt, currentDelay, stats, tpc, cpc,
                 terminated>>

\* on_state_change, lines 139-157: a CONNECTED -> DISCONNECTED report counts
\* a disconnect; recovery is not started ("Trigger recovery
\* asynchronously" is an empty block).
OnStateChange(c, s) ==
  /\ Call(c)
  /\ stats' = IF state = "CONNECTED" /\ s = "DISCONNECTED"
              THEN [stats EXCEPT !.disconnect_count = @ + 1] ELSE stats
  /\ state' = s
  /\ UNCHANGED <<recovering, currentAttempt, currentDelay, callbackSet, tpc, cpc,
                 terminated>>

\* on_network_change, lines 159-167.
OnNetworkChange(c, hasConnectivity) ==
  /\ Call(c)
  /\ stats' = IF hasConnectivity /\ EnableIceRestart
              THEN [stats EXCEPT !.ice_restarts = @ + 1] ELSE stats
  /\ UNCHANGED <<state, recovering, currentAttempt, currentDelay, callbackSet, tpc,
                 cpc, terminated>>

\* start_recovery, lines 169-179: the strategy check and the atomic load of
\* `recovering`; a caller that passes both goes on to the store.
StartRecoveryCheck(c) ==
  /\ Call(c)
  /\ JoinBeforeRestart => tpc = "none"
  /\ cpc' = IF Strategy # "NONE" /\ ~recovering
            THEN [cpc EXCEPT ![c] = "starting"] ELSE cpc
  /\ UNCHANGED <<state, recovering, currentAttempt, currentDelay, stats, callbackSet,
                 tpc, terminated>>

\* start_recovery, lines 181-186: reset the attempt counter, set
\* `recovering` and move a new std::thread into recovery_thread, which
\* terminates the process if it still holds a joinable thread.
StartRecoverySpawn(c) ==
  /\ cpc[c] = "starting"
  /\ cpc' = [cpc EXCEPT ![c] = "idle"]
  /\ currentAttempt' = 0
  /\ recovering' = TRUE
  /\ IF tpc = "none"
     THEN tpc' = "cond" /\ UNCHANGED terminated
     ELSE terminated' = TRUE /\ UNCHANGED tpc
  /\ UNCHANGED <<state, currentDelay, stats, callbackSet, calls>>

\* cancel_recovery, line 191 (also run by the destructor).
CancelRecoveryStore(c) ==
  /\ Call(c)
  /\ recovering' = FALSE
  /\ cpc' = [cpc EXCEPT ![c] = "joining"]
  /\ UNCHANGED <<state, currentAttempt, currentDelay, stats, callbackSet, tpc,
                 terminated>>

\* cancel_recovery, lines 192-195: join a joinable thread, which blocks
\* until the thread has returned.
CancelRecoveryJoin(c) ==
  /\ cpc[c] = "joining"
  /\ tpc \in {"none", "exit"}
  /\ tpc' = "none"
  /\ cpc' = [cpc EXCEPT ![c] = "idle"]
  /\ UNCHANGED <<state, recovering, currentAttempt, currentDelay, stats, callbackSet,
                 calls, terminated>>

\* on_reconnected, lines 198-202.
OnReconnected(c) ==
  /\ Call(c)
  /\ state' = "CONNECTED"
  /\ UNCHANGED <<recovering, currentAttempt, currentDelay, stats, callbackSet, tpc,
                 cpc, terminated>>

-----------------------------------------------------------------------------

\* The constructor, lines 31-34 and 123-126.
Init ==
  /\ state = "NEW"
  /\ recovering = FALSE
  /\ currentAttempt = 0
  /\ currentDelay = InitialDelay
  /\ stats = [disconnect_count |-> 0, reconnect_success |-> 0,
              reconnect_failed |-> 0, ice_restarts |-> 0]
  /\ callbackSet = FALSE
  /\ tpc = "none"
  /\ cpc = [c \in Callers |-> "idle"]
  /\ calls = 0
  /\ terminated = FALSE

Next ==
  /\ ~terminated
  /\ \/ Thread
     \/ \E c \in Callers :
          \/ SetCallback(c)
          \/ \E s \in ReportedStates : OnStateChange(c, s)
          \/ \E h \in BOOLEAN : OnNetworkChange(c, h)
          \/ StartRecoveryCheck(c)
          \/ StartRecoverySpawn(c)
          \/ CancelRecoveryStore(c)
          \/ CancelRecoveryJoin(c)
          \/ OnReconnected(c)

\* The thread is scheduled whenever it can run, and a caller blocked in
\* join() or between the halves of start_recovery resumes.
Spec ==
  /\ Init /\ [][Next]_vars
  /\ WF_vars(~terminated /\ Thread)
  /\ \A c \in Callers : WF_vars(~terminated /\ (StartRecoverySpawn(c) \/ CancelRecoveryJoin(c)))

-----------------------------------------------------------------------------
(* Properties.                                                             *)

TypeOK ==
  /\ state \in States
  /\ recovering \in BOOLEAN
  /\ currentAttempt \in 0..MaxAttempts
  /\ currentDelay \in Nat
  /\ stats \in [{"disconnect_count", "reconnect_success", "reconnect_failed",
                 "ice_restarts"} -> Nat]
  /\ callbackSet \in BOOLEAN
  /\ tpc \in ThreadPcs
  /\ cpc \in [Callers -> CallerPcs]
  /\ terminated \in BOOLEAN

\* RECONNECTING is only reported while a recovery thread is running: every
\* way out of recovery_loop (success, attempts exhausted, cancel_recovery
\* at any point of an attempt) leaves CONNECTED or FAILED behind.
NoStaleReconnecting ==
  state = "RECONNECTING" => ThreadLive

\* The recovery thread always returns, whatever the callers do meanwhile:
\* the attempt counter bounds the loop and a cancel ends it.
RecoveryTerminates ==
  ThreadLive ~> ~ThreadLive

\* start_recovery never terminates the process: it is only called with
\* recovery_thread not joinable ("@return True if recovery started").
NoTerminate ==
  ~terminated

\* A successful reconnection reported while recovery runs ("Report
\* successful reconnection", and "Check if reconnected (would be set
\* externally)" at line 84) is never undone by the recovery thread: once an
\* attempt has found the connection still down, no later step of
\* recovery_loop moves the state away from a reported CONNECTED.
ReconnectionKept ==
  [][Thread /\ currentAttempt > 0 => (state = "CONNECTED" => state' = "CONNECTED")]_vars

=============================================================================
