--------------------------- MODULE ClusterCoordinator ---------------------------
(***************************************************************************)
(* The cluster coordinator, src/server/src/cluster_coordinator.cpp lines    *)
(* 20-279, declared in src/unnamed/part_001 lines 28-188.                   *)
(*                                                                         *)
(* Application threads call the public methods and join() starts the      *)
(* heartbeat thread.  Impl::mutex is a std::mutex, and the model keeps its  *)
(* owner.  A call is split at every lock acquisition: a thread that finds *)
(* the mutex held waits at that point.  Locking a std::mutex that the       *)
(* calling thread already owns is undefined; on the Linux build it is a    *)
(* default pthread mutex, and the second lock blocks forever, so the step   *)
(* after it is enabled only when the mutex is free.                        *)
(*                                                                         *)
(* No code adds a node other than this one (the seed nodes and the         *)
(* heartbeat messages are TODO), so nodes holds at most config.node_id.     *)
(* Times are left out: Expire is the clock passing node_timeout since the  *)
(* last_heartbeat an entry holds.  The getters, find_room and              *)
(* report_room_stats take the lock and change nothing, so they are one     *)
(* wait for the lock (Read).  Event texts and addresses are left out.      *)
(***************************************************************************)
EXTENDS Naturals, FiniteSets

CONSTANTS
  Callers,          \* application threads
  Heartbeat,        \* the heartbeat thread
  NoThread,         \* the mutex has no owner
  Self,             \* config.node_id, a natural number (ids are sorted)
  Rooms,            \* room ids passed to create_room
  LoadValues,       \* load_percent values passed to update_load
  MaxCalls          \* bound on the public calls

Threads == Callers \cup {Heartbeat}

VARIABLES
  owner,            \* the thread holding Impl::mutex, or NoThread
  pc,               \* each thread's program point
  arg,              \* the room or load of each caller's current call
  running,          \* Impl::running
  hbThread,         \* heartbeat_thread: "none", "live", "exit" (joinable), "terminated"
  selfStatus,       \* Impl::self_node.status
  selfLoad,         \* Impl::self_node.load_percent
  nodes,            \* Impl::nodes: id -> [status, load, expired]
  leader,           \* Impl::leader_id (0 is the empty string)
  rooms,            \* Impl::rooms: room -> primary node
  callbackSet,      \* Impl::event_callback is non-empty
  calls             \* public calls so far

vars == <<owner, pc, arg, running, hbThread, selfStatus, selfLoad, nodes, leader,
          rooms, callbackSet, calls>>

Free == owner = NoThread

\* Goto(t, p): thread t moves to program point p.
Goto(t, p) == pc' = [pc EXCEPT ![t] = p]

\* A nodes entry, as ClusterNode holds it.
Entry(status, load) == [status |-> status, load |-> load, expired |-> FALSE]

\* Impl::elect_leader, lines 55-70, once it holds the lock: the smallest id
\* of the ACTIVE nodes, else config.node_id.
ElectLeader ==
  LET active == {id \in DOMAIN nodes : nodes[id].status = "ACTIVE"}
  IN  IF active = {} THEN Self ELSE CHOOSE id \in active : \A o \in active : id <= o

\* get_least_loaded_node, lines 255-267: an ACTIVE node with the smallest
\* load below 100, else config.node_id.
LeastLoaded ==
  LET cand == {id \in DOMAIN nodes : nodes[id].status = "ACTIVE" /\ nodes[id].load < 100}
  IN  IF cand = {} THEN Self
      ELSE CHOOSE id \in cand : \A o \in cand : nodes[id].load <= nodes[o].load

\* A caller starts the public method op.
Call(t, op, a) ==
  /\ pc[t] = "idle" /\ calls < MaxCalls
  /\ calls' = calls + 1
  /\ Goto(t, op)
  /\ arg' = [arg EXCEPT ![t] = a]
  /\ UNCHANGED <<owner, running, hbThread, selfStatus, selfLoad, nodes, leader, rooms, callbackSet>>

-----------------------------------------------------------------------------
(* join(), lines 128-147.                                                  *)

\* Line 130: a running coordinator returns false; lines 132-133 set the
\* self node ACTIVE without the lock.
JoinCheck(t) ==
  /\ pc[t] = "join"
  /\ IF running
     THEN Goto(t, "idle") /\ UNCHANGED selfStatus
     ELSE Goto(t, "join_lock") /\ selfStatus' = "ACTIVE"
  /\ UNCHANGED <<owner, arg, running, hbThread, selfLoad, nodes, leader, rooms, callbackSet, calls>>

\* Lines 136-137: the lock, and nodes[node_id] = self_node.
JoinLock(t) ==
  /\ pc[t] = "join_lock" /\ Free
  /\ owner' = t
  /\ nodes' = [id \in DOMAIN nodes \cup {Self} |->
                 IF id = Self THEN Entry(selfStatus, selfLoad) ELSE nodes[id]]
  /\ Goto(t, "join_elect")
  /\ UNCHANGED <<arg, running, hbThread, selfStatus, selfLoad, leader, rooms, callbackSet, calls>>

\* Line 138: leader_id = elect_leader(), whose lock_guard (line 53) needs
\* the mutex join itself holds; then the scope ends (line 139).
JoinElect(t) ==
  /\ pc[t] = "join_elect" /\ Free
  /\ leader' = ElectLeader
  /\ owner' = NoThread
  /\ Goto(t, "join_spawn")
  /\ UNCHANGED <<arg, running, hbThread, selfStatus, selfLoad, nodes, rooms, callbackSet, calls>>

\* Lines 141-146: running = true, the heartbeat thread, NODE_JOINED.  A
\* thread moved into a heartbeat_thread still joinable (one that leave() is
\* about to join) calls std::terminate.
JoinSpawn(t) ==
  /\ pc[t] = "join_spawn"
  /\ running' = TRUE
  /\ hbThread' = IF hbThread = "none" THEN "live" ELSE "terminated"
  /\ Goto(t, "idle")
  /\ UNCHANGED <<owner, arg, selfStatus, selfLoad, nodes, leader, rooms, callbackSet, calls>>

-----------------------------------------------------------------------------
(* leave(), lines 149-170, also run by the destructor.                     *)

\* Lines 151-156: not running returns; else, under the lock, LEAVING.
LeaveCheck(t) ==
  /\ pc[t] = "leave"
  /\ IF running
     THEN Free /\ Goto(t, "leave_stop") /\ selfStatus' = "LEAVING"
     ELSE Goto(t, "idle") /\ UNCHANGED selfStatus
  /\ UNCHANGED <<owner, arg, running, hbThread, selfLoad, nodes, leader, rooms, callbackSet, calls>>

\* Lines 158-160: NODE_LEFT, then running = false.
LeaveStop(t) ==
  /\ pc[t] = "leave_stop"
  /\ running' = FALSE
  /\ Goto(t, "leave_join")
  /\ UNCHANGED <<owner, arg, hbThread, selfStatus, selfLoad, nodes, leader, rooms, callbackSet, calls>>

\* Lines 161-164: join a joinable heartbeat thread once it has returned.
LeaveJoin(t) ==
  /\ pc[t] = "leave_join"
  /\ hbThread # "live"
  /\ hbThread' = "none"
  /\ Goto(t, "leave_erase")
  /\ UNCHANGED <<owner, arg, running, selfStatus, selfLoad, nodes, leader, rooms, callbackSet, calls>>

\* Lines 166-169: under the lock, nodes.erase(node_id).
LeaveErase(t) ==
  /\ pc[t] = "leave_erase" /\ Free
  /\ nodes' = [id \in DOMAIN nodes \ {Self} |-> nodes[id]]
  /\ Goto(t, "idle")
  /\ UNCHANGED <<owner, arg, running, hbThread, selfStatus, selfLoad, leader, rooms, callbackSet, calls>>

-----------------------------------------------------------------------------
(* The other public methods.                                               *)

\* set_event_callback, lines 172-176.
SetEventCallback(t) ==
  /\ pc[t] = "set_callback" /\ Free
  /\ callbackSet' = TRUE
  /\ Goto(t, "idle")
  /\ UNCHANGED <<owner, arg, running, hbThread, selfStatus, selfLoad, nodes, leader, rooms, calls>>

\* get_nodes, get_self, get_leader, is_leader, find_room,
\* get_least_loaded_node and report_room_stats (lines 178-216, 235-268):
\* the lock, a read, the unlock.
Read(t) ==
  /\ pc[t] = "read" /\ Free
  /\ Goto(t, "idle")
  /\ UNCHANGED <<owner, arg, running, hbThread, selfStatus, selfLoad, nodes, leader, rooms, callbackSet, calls>>

\* update_load, lines 244-249: self_node and nodes[node_id] (operator[]
\* creates a default entry, status OFFLINE, when there is none).
UpdateLoad(t) ==
  /\ pc[t] = "update_load" /\ Free
  /\ selfLoad' = arg[t]
  /\ nodes' = [id \in DOMAIN nodes \cup {Self} |->
                 IF id # Self THEN nodes[id]
                 ELSE IF Self \in DOMAIN nodes THEN [nodes[Self] EXCEPT !.load = arg[t]]
                 ELSE Entry("OFFLINE", arg[t])]
  /\ Goto(t, "idle")
  /\ UNCHANGED <<owner, arg, running, hbThread, selfStatus, leader, rooms, callbackSet, calls>>

\* create_room, lines 218-222: the lock, then get_least_loaded_node,
\* whose lock_guard (line 253) needs the mutex create_room holds.
CreateRoomLock(t) ==
  /\ pc[t] = "create_room" /\ Free
  /\ owner' = t
  /\ Goto(t, "create_room_place")
  /\ UNCHANGED <<arg, running, hbThread, selfStatus, selfLoad, nodes, leader, rooms, callbackSet, calls>>

\* Lines 222-232: rooms[room_id] on the least loaded node, ROOM_CREATED,
\* and the unlock.
CreateRoomPlace(t) ==
  /\ pc[t] = "create_room_place" /\ Free
  /\ rooms' = [r \in DOMAIN rooms \cup {arg[t]} |-> IF r = arg[t] THEN LeastLoaded ELSE rooms[r]]
  /\ owner' = NoThread
  /\ Goto(t, "idle")
  /\ UNCHANGED <<arg, running, hbThread, selfStatus, selfLoad, nodes, leader, callbackSet, calls>>

\* trigger_election, lines 270-272: the lock, then elect_leader.
TriggerElectionLock(t) ==
  /\ pc[t] = "trigger_election" /\ Free
  /\ owner' = t
  /\ Goto(t, "trigger_election_elect")
  /\ UNCHANGED <<arg, running, hbThread, selfStatus, selfLoad, nodes, leader, rooms, callbackSet, calls>>

\* Lines 273-278: a changed leader is stored (LEADER_CHANGED); the unlock.
TriggerElectionElect(t) ==
  /\ pc[t] = "trigger_election_elect" /\ Free
  /\ leader' = ElectLeader
  /\ owner' = NoThread
  /\ Goto(t, "idle")
  /\ UNCHANGED <<arg, running, hbThread, selfStatus, selfLoad, nodes, rooms, callbackSet, calls>>

-----------------------------------------------------------------------------
(* heartbeat_loop, lines 73-115.                                           *)

\* Lines 75-108: while running, under the lock, every entry whose
\* last_heartbeat is older than node_timeout is reported NODE_FAILED and
\* erased.  An expired leader entry is re-elected first (line 98), which
\* locks the mutex the loop holds: the thread waits there with the lock.
HeartbeatScan ==
  LET expired == {id \in DOMAIN nodes : nodes[id].expired}
  IN  /\ pc[Heartbeat] = "loop" /\ running /\ Free
      /\ IF leader \in expired
         THEN /\ owner' = Heartbeat /\ Goto(Heartbeat, "reelect")
              /\ UNCHANGED nodes
         ELSE /\ nodes' = [id \in DOMAIN nodes \ expired |-> nodes[id]]
              /\ UNCHANGED <<owner, pc>>
      /\ UNCHANGED <<arg, running, hbThread, selfStatus, selfLoad, leader, rooms, callbackSet, calls>>

\* Lines 98-102: leader_id = elect_leader(), the erase; the rest of the
\* scan and the unlock.
HeartbeatReelect ==
  LET expired == {id \in DOMAIN nodes : nodes[id].expired}
  IN  /\ pc[Heartbeat] = "reelect" /\ Free
      /\ leader' = ElectLeader
      /\ nodes' = [id \in DOMAIN nodes \ expired |-> nodes[id]]
      /\ owner' = NoThread
      /\ Goto(Heartbeat, "loop")
      /\ UNCHANGED <<arg, running, hbThread, selfStatus, selfLoad, rooms, callbackSet, calls>>

\* Line 75: the loop ends when running is false.
HeartbeatExit ==
  /\ pc[Heartbeat] = "loop" /\ hbThread = "live" /\ ~running
  /\ hbThread' = "exit"
  /\ UNCHANGED <<owner, pc, arg, running, selfStatus, selfLoad, nodes, leader, rooms, callbackSet, calls>>

\* The clock passes node_timeout since an entry's last_heartbeat: the loop
\* refreshes self_node.last_heartbeat (line 83), never nodes[node_id]'s.
Expire(id) ==
  /\ id \in DOMAIN nodes /\ ~nodes[id].expired
  /\ nodes' = [nodes EXCEPT ![id].expired = TRUE]
  /\ UNCHANGED <<owner, pc, arg, running, hbThread, selfStatus, selfLoad, leader, rooms, callbackSet, calls>>

-----------------------------------------------------------------------------

\* The constructor, lines 34-40: self_node OFFLINE, no nodes, no leader.
Init ==
  /\ owner = NoThread
  /\ pc = [t \in Threads |-> IF t = Heartbeat THEN "loop" ELSE "idle"]
  /\ arg = [t \in Callers |-> 0]
  /\ running = FALSE
  /\ hbThread = "none"
  /\ selfStatus = "OFFLINE"
  /\ selfLoad = 0
  /\ nodes = [id \in {} |-> Entry("OFFLINE", 0)]
  /\ leader = 0
  /\ rooms = [r \in {} |-> 0]
  /\ callbackSet = FALSE
  /\ calls = 0

CallerStep(t) ==
  \/ \E op \in {"join", "leave", "set_callback", "read", "trigger_election"} : Call(t, op, 0)
  \/ \E l \in LoadValues : Call(t, "update_load", l)
  \/ \E r \in Rooms : Call(t, "create_room", r)
  \/ JoinCheck(t) \/ JoinLock(t) \/ JoinElect(t) \/ JoinSpawn(t)
  \/ LeaveCheck(t) \/ LeaveStop(t) \/ LeaveJoin(t) \/ LeaveErase(t)
  \/ SetEventCallback(t) \/ Read(t) \/ UpdateLoad(t)
  \/ CreateRoomLock(t) \/ CreateRoomPlace(t)
  \/ TriggerElectionLock(t) \/ TriggerElectionElect(t)

\* The heartbeat thread runs only once join() has started it.
HeartbeatStep ==
  /\ hbThread = "live"
  /\ (HeartbeatScan \/ HeartbeatReelect \/ HeartbeatExit)

\* Nothing runs after std::terminate.
Next ==
  /\ hbThread # "terminated"
  /\ \/ \E t \in Callers : CallerStep(t)
     \/ HeartbeatStep
     \/ \E id \in {Self} : Expire(id)

\* Every thread that can take a step eventually does: the OS schedules it.
Spec ==
  /\ Init /\ [][Next]_vars
  /\ \A t \in Callers : WF_vars(CallerStep(t) /\ pc[t] # "idle")
  /\ WF_vars(HeartbeatStep)

-----------------------------------------------------------------------------
(* Properties.                                                             *)

\* Every public call returns: join() ("Join the cluster", returning
\* whether it joined), create_room and trigger_election included, whatever
\* the other threads do.
CallsReturn ==
  \A t \in Callers : pc[t] # "idle" ~> pc[t] = "idle"

=============================================================================
