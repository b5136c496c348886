----------------------------- MODULE RoomManager -----------------------------
(***************************************************************************)
(* The room manager, src/server/src/room_manager.cpp.                      *)
(*                                                                         *)
(* Every public method holds impl_->mutex for its whole body, the event    *)
(* callback included, so each method is one action.  A room's name, a     *)
(* participant's display name, role and address are never read by the     *)
(* manager and are left out; MediaState is a member of a small set.        *)
(* steady_clock is the integer clock `now`, in minutes (the unit of        *)
(* auto_close_after), advanced by Tick.                                    *)
(*                                                                         *)
(* Ghost state for the properties: `view`, the membership a listener       *)
(* rebuilds from the events it is called with, and `missed`, set once an   *)
(* event is emitted while no callback is installed.                        *)
(***************************************************************************)
EXTENDS Integers, Sequences, SequencesExt, FiniteSets

CONSTANTS
  RoomIds,         \* room ids callers use
  ParticipantIds,  \* participant ids callers use
  Configs,         \* RoomConfig values passed to create_room
  Passwords,       \* passwords passed to join_room
  MediaStates,     \* MediaState values; DefaultMedia is the default
  DefaultMedia,
  MaxMinutes       \* bound on the clock

VARIABLES
  rooms,        \* Impl::rooms : RoomId -> Room
  callbackSet,  \* Impl::event_callback is non-empty
  now,          \* steady_clock::now(), in minutes
  view,         \* ghost: membership as told by the events
  missed        \* ghost: an event went out with no callback installed

rmVars == <<rooms, callbackSet, now, view, missed>>

RoomConfig == [max_participants: Nat, require_password: BOOLEAN,
               password: Passwords, auto_close_after: Nat]

Participant == [id: ParticipantIds, media_state: MediaStates]

Room == [config: RoomConfig, is_locked: BOOLEAN,
         participants: Seq(Participant), created_at: Nat]

-----------------------------------------------------------------------------
(* Impl::emit_event, lines 23-29: the callback, when one is installed, is  *)
(* called under the mutex.  Its effect on the listener's view: JOINED      *)
(* adds, LEFT removes, ROOM_CLOSED forgets the room.                       *)

Listened(ev, r, p) ==
  CASE ev = "PARTICIPANT_JOINED" -> [view EXCEPT ![r] = @ \cup {p}]
    [] ev = "PARTICIPANT_LEFT"   -> [view EXCEPT ![r] = @ \ {p}]
    [] ev = "ROOM_CLOSED"        -> [view EXCEPT ![r] = {}]
    [] OTHER                     -> view

EmitEvent(ev, r, p) ==
  /\ view' = IF callbackSet THEN Listened(ev, r, p) ELSE view
  /\ missed' = (missed \/ ~callbackSet)

Ids(ps) == {ps[i].id : i \in 1..Len(ps)}

-----------------------------------------------------------------------------

\* set_event_callback, lines 36-40.
SetEventCallback ==
  /\ callbackSet' = TRUE
  /\ UNCHANGED <<rooms, now, view, missed>>

\* create_room, lines 42-59: refused for an existing id, emits no event.
CreateRoom(r, cfg) ==
  /\ r \notin DOMAIN rooms
  /\ rooms' = (r :> [config |-> cfg, is_locked |-> FALSE,
                     participants |-> << >>, created_at |-> now]) @@ rooms
  /\ UNCHANGED <<callbackSet, now, view, missed>>

\* Mutant of CloseRoom: the room is erased without ROOM_CLOSED.
CloseRoomSilent(r) ==
  /\ r \in DOMAIN rooms
  /\ rooms' = [x \in DOMAIN rooms \ {r} |-> rooms[x]]
  /\ UNCHANGED <<callbackSet, now, view, missed>>

\* close_room, lines 61-71: ROOM_CLOSED, then the room and its
\* participants are erased.
CloseRoom(r) ==
  /\ r \in DOMAIN rooms
  /\ EmitEvent("ROOM_CLOSED", r, "")
  /\ rooms' = [x \in DOMAIN rooms \ {r} |-> rooms[x]]
  /\ UNCHANGED <<callbackSet, now>>

\* set_room_locked, lines 73-83.
SetRoomLocked(r, locked) ==
  /\ r \in DOMAIN rooms
  /\ rooms' = [rooms EXCEPT ![r].is_locked = locked]
  /\ EmitEvent(IF locked THEN "ROOM_LOCKED" ELSE "ROOM_UNLOCKED", r, "")
  /\ UNCHANGED <<callbackSet, now>>

\* The checks of join_room, lines 115-148, in the code's order.
MayJoin(r, p, pw) ==
  /\ r \in DOMAIN rooms
  /\ ~rooms[r].is_locked
  /\ Len(rooms[r].participants) < rooms[r].config.max_participants
  /\ ~(rooms[r].config.require_password /\ rooms[r].config.password # pw)
  /\ p \notin Ids(rooms[r].participants)

\* join_room, lines 110-158: the participant is appended with the default
\* media state and PARTICIPANT_JOINED emitted.
JoinRoom(r, p, pw) ==
  /\ MayJoin(r, p, pw)
  /\ rooms' = [rooms EXCEPT ![r].participants =
                 Append(@, [id |-> p, media_state |-> DefaultMedia])]
  /\ EmitEvent("PARTICIPANT_JOINED", r, p)
  /\ UNCHANGED <<callbackSet, now>>

\* leave_room, lines 160-178: every entry with the id is removed; the
\* event only goes out when one was.
LeaveRoom(r, p) ==
  /\ r \in DOMAIN rooms
  /\ LET kept == SelectSeq(rooms[r].participants, LAMBDA q : q.id # p)
     IN  /\ rooms' = [rooms EXCEPT ![r].participants = kept]
         /\ IF Len(kept) < Len(rooms[r].participants)
            THEN EmitEvent("PARTICIPANT_LEFT", r, p)
            ELSE UNCHANGED <<view, missed>>
  /\ UNCHANGED <<callbackSet, now>>

\* update_media_state, lines 180-197: the first entry with the id.
UpdateMediaState(r, p, m) ==
  /\ r \in DOMAIN rooms
  /\ p \in Ids(rooms[r].participants)
  /\ LET ps == rooms[r].participants
         i  == Min({j \in 1..Len(ps) : ps[j].id = p})
     IN  rooms' = [rooms EXCEPT ![r].participants[i].media_state = m]
  /\ EmitEvent("MEDIA_STATE_CHANGED", r, p)
  /\ UNCHANGED <<callbackSet, now>>

\* The test of cleanup, lines 247-250: the room is empty and was CREATED
\* at least auto_close_after minutes ago.
Expired(r) ==
  /\ rooms[r].participants = << >>
  /\ now - rooms[r].created_at >= rooms[r].config.auto_close_after

\* cleanup, lines 236-260: every expired room is erased with ROOM_CLOSED.
Cleanup ==
  LET gone == {r \in DOMAIN rooms : Expired(r)}
  IN  /\ rooms' = [x \in DOMAIN rooms \ gone |-> rooms[x]]
      /\ view' = IF callbackSet THEN [x \in RoomIds |-> IF x \in gone THEN {} ELSE view[x]]
                 ELSE view
      /\ missed' = (missed \/ (gone # {} /\ ~callbackSet))
      /\ UNCHANGED <<callbackSet, now>>

\* Time passes, one minute at a time.
Tick ==
  /\ now < MaxMinutes
  /\ now' = now + 1
  /\ UNCHANGED <<rooms, callbackSet, view, missed>>

-----------------------------------------------------------------------------

\* The constructor, line 32.
Init ==
  /\ rooms = << >>
  /\ callbackSet = FALSE
  /\ now = 0
  /\ view = [r \in RoomIds |-> {}]
  /\ missed = FALSE

\* The calls other threads make: the signalling layer and the io loop.
Next ==
  \/ SetEventCallback
  \/ \E r \in RoomIds, c \in Configs : CreateRoom(r, c)
  \/ \E r \in RoomIds : CloseRoom(r)
  \/ \E r \in RoomIds, b \in BOOLEAN : SetRoomLocked(r, b)
  \/ \E r \in RoomIds, p \in ParticipantIds, pw \in Passwords : JoinRoom(r, p, pw)
  \/ \E r \in RoomIds, p \in ParticipantIds : LeaveRoom(r, p)
  \/ \E r \in RoomIds, p \in ParticipantIds, m \in MediaStates : UpdateMediaState(r, p, m)
  \/ Cleanup
  \/ Tick

-----------------------------------------------------------------------------
(* Properties.                                                             *)

RoomsTypeOK ==
  /\ DOMAIN rooms \subseteq RoomIds
  /\ \A r \in DOMAIN rooms : rooms[r] \in Room
  /\ callbackSet \in BOOLEAN
  /\ now \in 0..MaxMinutes
  /\ view \in [RoomIds -> SUBSET ParticipantIds]
  /\ missed \in BOOLEAN

\* The events are a faithful change log of membership: a listener
\* installed before the first event, applying JOINED / LEFT / ROOM_CLOSED
\* (join_room, leave_room, close_room and cleanup), knows exactly who is
\* in each room.
EventsTrackMembership ==
  ~missed =>
    \A r \in RoomIds :
      view[r] = IF r \in DOMAIN rooms THEN Ids(rooms[r].participants) ELSE {}

=============================================================================
