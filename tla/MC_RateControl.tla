--------------------------- MODULE MC_RateControl ---------------------------
(***************************************************************************)
(* The send-side rate control, checked in one run as two separate systems: *)
(* the bitrate and simulcast controllers of video_placeholder.cpp and the *)
(* RtpPacer.  No code connects them (nothing passes the controller's      *)
(* bitrate to set_target_bitrate), so the initial state picks one of them *)
(* in `system` and only that one moves.  Each property is about one of    *)
(* them; the other's variables stay at their initial values.              *)
(*                                                                         *)
(* The controller: bitrates in bps between 100 and 1000 (small enough that *)
(* the float products are exact), the default rates and thresholds of     *)
(* BitrateControllerConfig, REMB values below min, between min and max    *)
(* and above max, and loss rates below the clear level, between it and    *)
(* the threshold, and above the threshold.                                *)
(***************************************************************************)
EXTENDS Naturals

CONSTANTS
  StartBitrate, MinBitrate, MaxBitrate, IncreasePct, DecreasePct, LossThreshold,
  LossValues, RttValues, RembValues, ForceValues, MaxForces, PacketSize, MaxSent,
  Width, Height, MaxKbps, Availables,
  Sizes, Priorities, InitBitrate, Bitrates, BucketSize, MaxQueueSize, MaxEnqueues, MaxTime

VARIABLES
  system,
  current, target, loss, rtt, overusing, bytesSent, callbackSet, notified,
  forces, selAvail, selected,
  now, queue, tokens, lastProcess, bitrate, pacerCallbackSet, stats, nextId,
  emitted, peakRate, lastOut

Bc    == INSTANCE BitrateController
Pacer == INSTANCE RtpPacer WITH callbackSet <- pacerCallbackSet

MCRembValues == {50, 300, 2000}
MCLossValues == {0, 100, 300}
MCAvailables == {0, 700}

bcVars    == <<current, target, loss, rtt, overusing, bytesSent, callbackSet, notified,
               forces, selAvail, selected>>
pacerVars == <<now, queue, tokens, lastProcess, bitrate, pacerCallbackSet, stats, nextId,
               emitted, peakRate, lastOut>>
allVars   == <<system, bcVars, pacerVars>>

MCInit == system \in {"bitrate", "pacer"} /\ Bc!Init /\ Pacer!Init

\* A step of the controller, the pacer unchanged.
BcStep(A) == system = "bitrate" /\ A /\ UNCHANGED <<system, pacerVars>>

MCNext ==
  \/ BcStep(Bc!Next)
  \/ system = "pacer" /\ Pacer!Next /\ UNCHANGED <<system, bcVars>>

\* The fairness of BitrateController's Spec: the encoder loop keeps calling
\* process().  The pacer needs none: only safety is checked of it.
MCSpec == MCInit /\ [][MCNext]_allVars /\ WF_allVars(BcStep(Bc!Process))

-----------------------------------------------------------------------------

\* Every update of the controller follows the rule of spec 4.6.
UpdateFollowsSpec == Bc!UpdateFollowsSpec

\* Under a steady REMB and no loss the bitrate settles at min(REMB, max).
Converges == Bc!Converges

\* select_layers never skips a default layer that still fits the budget.
SelectionMaximal == Bc!SelectionMaximal

\* The pacer's variables keep their types.
TypeOK == Pacer!TypeOK

\* process() hands packets to the callback highest priority first.
PopsInPriorityOrder == Pacer!PopsInPriorityOrder

\* The pacer never sends more than the bucket plus the rate allows.
Conservation == Pacer!Conservation

=============================================================================
