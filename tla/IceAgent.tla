------------------------------- MODULE IceAgent -------------------------------
(***************************************************************************)
(* The ICE agent, src/core/src/ice_agent.cpp, with its declarations in    *)
(* src/unnamed/part_004 (ice_agent.h).                                     *)
(*                                                                         *)
(* The agent has no lock: the model has one thread calling it, each call  *)
(* one action.  gather_candidates emits at most a host candidate (server- *)
(* reflexive and relay gathering are TODOs), add_remote_candidate pairs   *)
(* the new candidate with the local candidates gathered so far, and the   *)
(* connection state moves only by set_remote_candidates_complete and      *)
(* close.  process() is empty and nothing sets selected_pair, so send()   *)
(* always returns false without a change: neither is an action.  Addresses *)
(* and foundations are left out; a candidate is its type, priority and    *)
(* component.  A 64-bit pair priority (hi << 32) + lo is the pair <<hi,   *)
(* lo>>, compared lexicographically.                                      *)
(***************************************************************************)
EXTENDS Naturals, Sequences, TLC

CONSTANTS
  Role,             \* Config::role
  GatherHost,       \* Config::gather_host_candidates
  RemoteCandidates, \* the candidates the peer signals
  MaxGathers,       \* bound on gather_candidates calls
  MaxRemote,        \* bound on add_remote_candidate calls
  MaxPackets        \* bound on process_packet calls

CandidateTypes == {"HOST", "PEER_REFLEXIVE", "SERVER_REFLEXIVE", "RELAY"}

ASSUME Role \in {"CONTROLLING", "CONTROLLED"}

VARIABLES
  localCands,       \* Impl::local_candidates
  remoteCands,      \* Impl::remote_candidates
  pairs,            \* Impl::candidate_pairs
  connState,        \* Impl::connection_state
  gatherState,      \* Impl::gathering_state
  socketOk,         \* UdpSocket::create() returned a socket
  socketOpen,       \* the socket is not closed
  callbacksSet,     \* Impl::callbacks installed
  remoteCredsSet,   \* Impl::remote_credentials set
  gathers,          \* gather_candidates calls so far
  checksReceived    \* Impl::stats.connectivity_checks_received

iceVars == <<localCands, remoteCands, pairs, connState, gatherState, socketOk,
             socketOpen, callbacksSet, remoteCredsSet, gathers, checksReceived>>

-----------------------------------------------------------------------------
(* IceCandidate::calculate_priority, lines 20-41.                          *)

TypePref == ("HOST" :> 126) @@ ("PEER_REFLEXIVE" :> 110) @@
            ("SERVER_REFLEXIVE" :> 100) @@ ("RELAY" :> 0)

\* Mutant of CalculatePriority: the type preference shifted by 16.
CalculatePriorityShift16(type, localPref, component) ==
  TypePref[type] * 65536 + localPref * 256 + (256 - component)

\* (type_pref << 24) + (local_preference << 8) + (256 - component); with a
\* 16-bit local preference and a component in 1..256 the uint32 sum does
\* not wrap.
CalculatePriority(type, localPref, component) ==
  TypePref[type] * 16777216 + localPref * 256 + (256 - component)

Candidate(type, localPref, component) ==
  [type |-> type, priority |-> CalculatePriority(type, localPref, component),
   component |-> component]

\* The host candidate of lines 163-169.
HostCandidate == Candidate("HOST", 65535, 1)

\* Mutant of PairPriorityFor: the local priority in the high word for
\* both roles.
PairPriorityForUnswapped(role, local, remote) == <<local.priority, remote.priority>>

\* Lines 201-208: an agent in the controlling role puts its own
\* candidate's priority in the high word, one in the controlled role the
\* peer's.
PairPriorityFor(role, local, remote) ==
  IF role = "CONTROLLING" THEN <<local.priority, remote.priority>>
  ELSE <<remote.priority, local.priority>>

PairPriority(local, remote) == PairPriorityFor(Role, local, remote)

-----------------------------------------------------------------------------
(* The IceAgent methods, lines 137-297.                                    *)

\* set_callbacks, lines 137-140.
SetCallbacks ==
  /\ callbacksSet' = TRUE
  /\ UNCHANGED <<localCands, remoteCands, pairs, connState, gatherState, socketOk,
                 socketOpen, remoteCredsSet, gathers, checksReceived>>

\* set_remote_credentials, lines 147-150.
SetRemoteCredentials ==
  /\ remoteCredsSet' = TRUE
  /\ UNCHANGED <<localCands, remoteCands, pairs, connState, gatherState, socketOk,
                 socketOpen, callbacksSet, gathers, checksReceived>>

\* gather_candidates, lines 152-188: GATHERING, a host candidate when
\* enabled and the socket exists (also after close), then COMPLETE.
\* Only the callbacks see GATHERING.
GatherCandidates ==
  /\ gathers < MaxGathers
  /\ gathers' = gathers + 1
  /\ localCands' = IF GatherHost /\ socketOk THEN Append(localCands, HostCandidate)
                   ELSE localCands
  /\ gatherState' = "COMPLETE"
  /\ UNCHANGED <<remoteCands, pairs, connState, socketOk, socketOpen, callbacksSet,
                 remoteCredsSet, checksReceived>>

\* add_remote_candidate, lines 190-212: one FROZEN pair per local candidate
\* gathered so far, appended in the local candidates' order.
AddRemoteCandidate(c) ==
  /\ Len(remoteCands) < MaxRemote
  /\ remoteCands' = Append(remoteCands, c)
  /\ pairs' = pairs \o [i \in 1..Len(localCands) |->
                          [local |-> localCands[i], remote |-> c,
                           priority |-> PairPriority(localCands[i], c),
                           state |-> "FROZEN"]]
  /\ UNCHANGED <<localCands, connState, gatherState, socketOk, socketOpen,
                 callbacksSet, remoteCredsSet, gathers, checksReceived>>

\* set_remote_candidates_complete, lines 214-222: CHECKING from any state.
SetRemoteCandidatesComplete ==
  /\ connState' = "CHECKING"
  /\ UNCHANGED <<localCands, remoteCands, pairs, gatherState, socketOk, socketOpen,
                 callbacksSet, remoteCredsSet, gathers, checksReceived>>

\* process_packet, lines 259-276: a STUN packet (20 bytes or more, top
\* bits 00) is counted; other data goes to on_data.
ProcessPacket(isStun) ==
  /\ checksReceived < MaxPackets
  /\ checksReceived' = IF isStun THEN checksReceived + 1 ELSE checksReceived
  /\ UNCHANGED <<localCands, remoteCands, pairs, connState, gatherState, socketOk,
                 socketOpen, callbacksSet, remoteCredsSet, gathers>>

\* close, lines 286-297.
Close ==
  /\ connState' = "CLOSED"
  /\ socketOpen' = FALSE
  /\ UNCHANGED <<localCands, remoteCands, pairs, gatherState, socketOk, callbacksSet,
                 remoteCredsSet, gathers, checksReceived>>

-----------------------------------------------------------------------------

\* The constructor, lines 122-133: the socket may fail to be created.
Init ==
  /\ localCands = << >>
  /\ remoteCands = << >>
  /\ pairs = << >>
  /\ connState = "NEW"
  /\ gatherState = "NEW"
  /\ socketOk \in BOOLEAN
  /\ socketOpen = socketOk
  /\ callbacksSet = FALSE
  /\ remoteCredsSet = FALSE
  /\ gathers = 0
  /\ checksReceived = 0

Next ==
  \/ SetCallbacks
  \/ SetRemoteCredentials
  \/ GatherCandidates
  \/ \E c \in RemoteCandidates : AddRemoteCandidate(c)
  \/ SetRemoteCandidatesComplete
  \/ \E s \in BOOLEAN : ProcessPacket(s)
  \/ Close

Spec == Init /\ [][Next]_iceVars

-----------------------------------------------------------------------------
(* Properties.                                                             *)

\* Spec testable property 7: of two candidates the agent holds, local or
\* remote, the one of the preferred type has the higher priority, whatever
\* their local preferences and components.
PriorityOrdersTypes ==
  LET held == {localCands[i] : i \in 1..Len(localCands)} \cup
              {remoteCands[i] : i \in 1..Len(remoteCands)}
  IN  \A c, d \in held : TypePref[c.type] > TypePref[d.type] => c.priority > d.priority

\* The two agents of a session order a pair alike: the priority this
\* agent gives each pair is the one the peer, in the other role, gives the
\* same two candidates seen from its side.
PairPriorityAgrees ==
  LET peerRole == IF Role = "CONTROLLING" THEN "CONTROLLED" ELSE "CONTROLLING"
  IN  \A i \in 1..Len(pairs) :
        pairs[i].priority = PairPriorityFor(peerRole, pairs[i].remote, pairs[i].local)

=============================================================================
