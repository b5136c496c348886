------------------------- MODULE MC_ProtocolsAndVideo ------------------------
(***************************************************************************)
(* The ICE agent, the STUN client, the RTP codec and the video stream,   *)
(* checked in one run as four separate systems: none calls another (the  *)
(* agent's stun_client member is never created, no code of the          *)
(* repository parses or serializes RTP, and the video stream owns its    *)
(* frame buffer and bitrate controller), so the initial state picks one  *)
(* of them in `system` and only that one moves.  The run explores the    *)
(* states of each in turn.                                               *)
(* Each property is about one of them and holds trivially in the others,  *)
(* whose variables stay at their initial values.                          *)
(***************************************************************************)
EXTENDS Integers, Sequences

CONSTANTS
  Role, GatherHost, MaxGathers, MaxRemote, MaxPackets,
  t1, t2, t3, notx, nocb, TxIds, NoTx, NoCallback, HasServer,
  PayloadTypes, SeqNumbers, Timestamps, Ssrcs, ExtProfiles,
  Fps, BitrateKbps, TargetKbps, MaxFrames, MaxStarts,
  TargetDelay, MaxDelay, WaitForKeyframe, NackMaxCount, MaxInserts, MaxTime, MaxLost,
  MinBitrate, MaxBitrate, IncreasePct, DecreasePct, LossThreshold

VARIABLES
  system,
  localCands, remoteCands, pairs, connState, gatherState, socketOk, socketOpen,
  callbacksSet, remoteCredsSet, gathers, checksReceived,
  pendingCb, pendingTx, inCallback, used, net, invocations,
  pkt, sent, wire, received, got,
  now, assemblers, completeFrames, receivedSequences, highestSequence,
  hasKeyframe, stats, lastNack, popped, queuedTs, firstKey, inserts,
  current, target, loss, rtt, overusing, bytesSent, callbackSet, notified,
  forces, selAvail, selected,
  running, enabled, sequence, timestamp, encInit, decInit, keyReq, encKbps,
  capturing, capPc, capKey, decPc, appPc, sendCbSet, frames, starts, owed,
  capOwed, lastSent

\* The agent's definitions, for building the peer's candidates.
IceDefs == INSTANCE IceAgent WITH RemoteCandidates <- {}

\* The peer signals candidates of every type, with the extreme local
\* preferences and components, made by the same calculate_priority.
MCRemoteCandidates ==
  {IceDefs!Candidate(t, l, c) : t \in IceDefs!CandidateTypes, l \in {0, 65535}, c \in {1, 256}}

Ice  == INSTANCE IceAgent WITH RemoteCandidates <- MCRemoteCandidates
Stun == INSTANCE StunClient

\* The builder's payload (its default is empty), and extension data of
\* lengths that are and are not a multiple of 4.
MCPayloads == {<<5, 1>>}
MCExtDatas == {<<5>>, <<1, 2, 3, 4>>}

\* A remote sender's packets, V=2, sequence 258, timestamp 9, SSRC
\* 0x01020304: padded (payload 5, 1 and three bytes of padding); with a
\* CSRC and a one-word extension; with an extension of 16384 words, whose
\* length times 4 truncates to 0 in parse; and malformed ones: 11 bytes,
\* version 1, a CSRC count of 1 with no CSRC, an extension header cut short.
MCFixed == <<1, 2, 0, 0, 0, 9, 1, 2, 3, 4>>
MCRemoteWires ==
  { <<160, 111>> \o MCFixed \o <<5, 1, 0, 0, 3>>,
    <<145, 111>> \o MCFixed \o <<0, 0, 0, 7, 190, 222, 0, 1, 1, 2, 3, 4, 5>>,
    <<144, 111>> \o MCFixed \o <<190, 222, 64, 0, 5, 1>>,
    <<128, 111>> \o SubSeq(MCFixed, 1, 9),
    <<64, 111>> \o MCFixed,
    <<129, 111>> \o MCFixed,
    <<144, 111>> \o MCFixed \o <<190, 222>> }

Rtp == INSTANCE RtpPacket WITH Payloads <- MCPayloads, ExtDatas <- MCExtDatas,
                               RemoteWires <- MCRemoteWires

\* An RTP packet as the video stream's receive_packet gets it: a keyframe
\* (NAL type 101 % 32 = 5), a delta frame (65 % 32 = 1), an empty payload.
W(s, t, m, d) == [seq |-> s, ts |-> t, marker |-> m, data |-> d]
MCVideoWire == { W(10, 1, TRUE, <<101>>), W(11, 2, TRUE, <<65>>), W(12, 3, TRUE, << >>) }

Video == INSTANCE VideoStream WITH Wire <- MCVideoWire

iceVars  == <<localCands, remoteCands, pairs, connState, gatherState, socketOk, socketOpen,
              callbacksSet, remoteCredsSet, gathers, checksReceived>>
stunVars == <<pendingCb, pendingTx, inCallback, used, net, invocations>>
rtpVars  == <<pkt, sent, wire, received, got>>
videoVars == <<now, assemblers, completeFrames, receivedSequences, highestSequence,
               hasKeyframe, stats, lastNack, popped, queuedTs, firstKey, inserts,
               current, target, loss, rtt, overusing, bytesSent, callbackSet, notified,
               forces, selAvail, selected,
               running, enabled, sequence, timestamp, encInit, decInit, keyReq, encKbps,
               capturing, capPc, capKey, decPc, appPc, sendCbSet, frames, starts, owed,
               capOwed, lastSent>>
allVars  == <<system, iceVars, stunVars, rtpVars, videoVars>>

MCInit ==
  /\ system \in {"ice", "stun", "rtp", "video"}
  /\ Ice!Init /\ Stun!Init /\ Rtp!Init /\ Video!Init

MCNext ==
  \/ system = "ice"   /\ Ice!Next   /\ UNCHANGED <<system, stunVars, rtpVars, videoVars>>
  \/ system = "stun"  /\ Stun!Next  /\ UNCHANGED <<system, iceVars, rtpVars, videoVars>>
  \/ system = "rtp"   /\ Rtp!Next   /\ UNCHANGED <<system, iceVars, stunVars, videoVars>>
  \/ system = "video" /\ Video!Next /\ UNCHANGED <<system, iceVars, stunVars, rtpVars>>

MCSpec == MCInit /\ [][MCNext]_allVars

\* The state of the system that moves.  The others keep the initial state
\* they started in (the agent and the STUN client have several), which
\* their own part of the run explores, so states that differ only there
\* are the same to the moving system.
MCView ==
  <<system, IF system = "ice" THEN iceVars ELSE << >>,
            IF system = "stun" THEN stunVars ELSE << >>,
            IF system = "rtp" THEN rtpVars ELSE << >>,
            IF system = "video" THEN videoVars ELSE << >>>>

-----------------------------------------------------------------------------

\* Candidate priorities respect the type preference order.
PriorityOrdersTypes == Ice!PriorityOrdersTypes

\* Both agents compute the same priority for every pair.
PairPriorityAgrees == Ice!PairPriorityAgrees

\* A STUN callback only ever receives the answer to its own request.
OwnAnswer == Stun!OwnAnswer

\* A STUN callback is invoked at most once.
AtMostOnce == Stun!AtMostOnce

\* The RTP header a receiver parses is the one serialized, built or
\* forwarded, and parse accepts every packet serialize writes.
HeaderPreserved == Rtp!HeaderPreserved

\* The frames the video stream hands to its send callback since the latest
\* start() carry consecutive sequence numbers and timestamps 90000 / fps
\* apart, through disabled periods and restarts.
FramesSentInSequence == Video!FramesSentInSequence

=============================================================================
