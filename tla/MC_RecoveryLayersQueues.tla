------------------------ MODULE MC_RecoveryLayersQueues ----------------------
(***************************************************************************)
(* Three systems that do not interact, checked in one run: the connection   *)
(* recovery (one caller and the recovery thread), the SFU's subscription   *)
(* manager (its layer selection), and the two lock-free buffers (each     *)
(* with its producer and consumer thread).  The initial                    *)
(* state picks one of them in `system`, and only that one moves, so the     *)
(* run explores the states of each in turn (their sum, not their          *)
(* product).  Each property is about one system and holds trivially in    *)
(* the others, whose variables stay at their initial values.              *)
(*                                                                         *)
(* The subscription manager has one subscriber of two streams of one      *)
(* publisher, the three-layer table of the spec's seed test (150 / 500 /   *)
(* 1500 kbps), and estimates below, exactly at and above the layer         *)
(* bitrates.  Its callback flag is renamed: the recovery has one too.     *)
(***************************************************************************)
EXTENDS Integers

CONSTANTS
  c1, u1, p1, sa, sv,
  Subscribers, Publishers, StreamIds, LayerTables, Bandwidths, TargetLayers,
  Strategy, InitialDelay, MaxDelay, Multiplier, MaxAttempts, EnableIceRestart,
  ReportedStates, JoinBeforeRestart, MaxCalls,
  SpscCapacity, SpscPushes, RingCapacity, RingCounts, RingSamples

VARIABLES
  system,
  state, recovering, currentAttempt, currentDelay, stats, callbackSet, tpc, cpc,
  calls, terminated,
  subscriptions, streamLayers, bandwidthInfo, layerCallbackSet, switches, prevBw,
  buffer, head, tail, pPc, pTail, pushed, cPc, cHead, item, popped,
  rbuf, readPos, writePos, wPc, wPos, wN, written, rPc, rPos, rN, readOut

MCCallers == {c1}

L(i, kbps, on) == [layer_index |-> i, bitrate_kbps |-> kbps, is_active |-> on]

\* The seed test's table, low to high, and the same with layer 2 switched off.
Ascending    == <<L(0, 150, TRUE), L(1, 500, TRUE), L(2, 1500, TRUE)>>
AscendingTop == <<L(0, 150, TRUE), L(1, 500, TRUE), L(2, 1500, FALSE)>>

MCLayerTables     == {Ascending, AscendingTop}
MCBandwidths      == {300000, 500000, 2000000}
MCTargetLayers    == {-1, 0, 2}

Subs == INSTANCE SubscriptionManager WITH callbackSet <- layerCallbackSet
Rec  == INSTANCE ConnectionRecovery WITH Callers <- MCCallers
Spsc == INSTANCE SpscQueue WITH Capacity <- SpscCapacity, MaxPushes <- SpscPushes
Ring == INSTANCE AudioRingBuffer WITH Capacity <- RingCapacity, Counts <- RingCounts,
                                      MaxSamples <- RingSamples

recVars  == <<state, recovering, currentAttempt, currentDelay, stats, callbackSet, tpc,
              cpc, calls, terminated>>
subsVars == <<subscriptions, streamLayers, bandwidthInfo, layerCallbackSet, switches, prevBw>>
spscVars == <<buffer, head, tail, pPc, pTail, pushed, cPc, cHead, item, popped>>
ringVars == <<rbuf, readPos, writePos, wPc, wPos, wN, written, rPc, rPos, rN, readOut>>
allVars  == <<system, recVars, subsVars, spscVars, ringVars>>

MCInit ==
  /\ system \in {"recovery", "layers", "queues"}
  /\ Rec!Init /\ Subs!Init /\ Spsc!Init /\ Ring!Init

\* A step of the recovery system, the others unchanged.
RecStep(A) == system = "recovery" /\ A /\ UNCHANGED <<system, subsVars, spscVars, ringVars>>

\* A step of the subscription manager, the others unchanged.
SubsStep(A) == system = "layers" /\ A /\ UNCHANGED <<system, recVars, spscVars, ringVars>>

\* The producers and consumers of both buffers, interleaved.
QueueStep ==
  /\ system = "queues"
  /\ \/ Spsc!Next /\ UNCHANGED ringVars
     \/ Ring!Next /\ UNCHANGED spscVars
  /\ UNCHANGED <<system, recVars, subsVars>>

MCNext == RecStep(Rec!Next) \/ SubsStep(Subs!Next) \/ QueueStep

\* The fairness of ConnectionRecovery's Spec: the recovery thread runs, and
\* a caller inside start_recovery or blocked in join() resumes; that of
\* SubscriptionManager's Spec: its server loop calls process().  The
\* buffers' threads need none: only safety is checked of them.
MCSpec ==
  /\ MCInit /\ [][MCNext]_allVars
  /\ WF_allVars(RecStep(~terminated /\ Rec!Thread))
  /\ \A c \in MCCallers :
       WF_allVars(RecStep(~terminated /\ (Rec!StartRecoverySpawn(c) \/ Rec!CancelRecoveryJoin(c))))
  /\ WF_allVars(SubsStep(Subs!Process))

-----------------------------------------------------------------------------

\* ConnectionRecovery's variables keep their types.
TypeOK == Rec!TypeOK

\* RECONNECTING is only reported while a recovery thread runs.
NoStaleReconnecting == Rec!NoStaleReconnecting

\* The recovery thread always returns, whatever the caller does meanwhile.
RecoveryTerminates == Rec!RecoveryTerminates

\* Every process() call leaves each unpaused automatic subscription on the
\* layer the spec's selection rule picks for the current estimate.
AutoLayerFollowsSpec == Subs!AutoLayerFollowsSpec

\* Under the io_loop's periodic process(), an unpaused automatic
\* subscription keeps coming back to the best layer for the current
\* estimate: no upgrade or downgrade is withheld forever.
LayerEventuallyFollowsBandwidth == Subs!LayerEventuallyFollowsBandwidth

\* SpscQueue implements the bounded FIFO.
SpscRefinesFifo == Spsc!RefinesFifo

\* AudioRingBuffer implements the bounded FIFO of capacity - 1 samples.
RingRefinesFifo == Ring!RefinesFifo

=============================================================================
