------------------------------ MODULE SfuServer ------------------------------
(***************************************************************************)
(* The SFU server, src/unnamed/part_003 (sfu_server.cpp): the room manager *)
(* and the subscription manager it owns, its RTP port allocator, and the   *)
(* io threads that start() spawns and stop() joins.                        *)
(*                                                                         *)
(* Each io thread runs io_loop (lines 102-117): load `running`; if true,   *)
(* sleep, subscription_manager->process() and room_manager->cleanup().     *)
(* start() and stop() take no lock: start is a load of `running`, then a   *)
(* store and the spawning of the threads; stop is a load, a store, the     *)
(* join loop and io_threads.clear(), each a step of the calling thread.    *)
(* A std::thread destroyed while joinable calls std::terminate            *)
(* (`terminated`).  The application's calls on room_manager() and          *)
(* subscription_manager() are the actions of those modules, under their    *)
(* own mutexes; allocate_port and release_port hold port_mutex.            *)
(***************************************************************************)
EXTENDS Integers, Sequences, SequencesExt, FiniteSets

CONSTANTS
  Callers,     \* application threads calling start() and stop()
  IoThreads,   \* SfuServerConfig::io_threads
  PortMin,     \* SfuServerConfig::rtp_port_min
  PortMax,     \* SfuServerConfig::rtp_port_max
  MaxStarts,   \* bound on start() calls that spawn threads
  \* RoomManager's constants
  RoomIds, ParticipantIds, Configs, Passwords, MediaStates, DefaultMedia, MaxMinutes,
  \* SubscriptionManager's constants
  Subscribers, Publishers, StreamIds, LayerTables, Bandwidths, TargetLayers

VARIABLES
  \* RoomManager (Impl::room_manager)
  rooms, eventCallbackSet, now, view, missed,
  \* SubscriptionManager (Impl::subscription_manager)
  subscriptions, streamLayers, bandwidthInfo, layerCallbackSet, switches, prevBw,
  \* SfuServer::Impl
  running,      \* Impl::running
  ioThreads,    \* Impl::io_threads: [pc, joined] per std::thread
  allocated,    \* Impl::allocated_ports
  nextPort,     \* Impl::next_port
  pc,           \* caller thread -> where it is in start() / stop()
  starts,       \* start() calls that spawned threads
  terminated,   \* std::terminate was called
  lastAlloc     \* ghost: the latest allocate_port result and whether the
                \* range was full when it was called

RM == INSTANCE RoomManager WITH callbackSet <- eventCallbackSet
SM == INSTANCE SubscriptionManager WITH callbackSet <- layerCallbackSet

rmVars  == <<rooms, eventCallbackSet, now, view, missed>>
smVars  == <<subscriptions, streamLayers, bandwidthInfo, layerCallbackSet, switches, prevBw>>
sfuVars == <<running, ioThreads, allocated, nextPort, pc, starts, terminated, lastAlloc>>
vars    == <<rmVars, smVars, sfuVars>>

Seq16 == 0..65535
Mod16(x) == x % 65536

ThreadPcs == {"check", "work", "exit"}
CallerPcs == {"idle", "start", "stop_store", "stop_join", "stop_clear"}

-----------------------------------------------------------------------------
(* Impl::allocate_port, lines 64-94, and release_port, lines 96-100.       *)

\* The first port >= lo and <= hi that is not allocated: it is lo or one
\* above an allocated port.  Empty when there is none.
FreeFrom(lo, hi) ==
  {q \in {lo} \cup {a + 1 : a \in allocated} : lo <= q /\ q <= hi /\ q \notin allocated}

\* Mutant of FirstLoop: the scan runs one port past rtp_port_max.
FirstLoopPastMax ==
  IF FreeFrom(nextPort, PortMax + 1) # {} THEN FreeFrom(nextPort, PortMax + 1)
  ELSE IF PortMax = 65535 THEN FreeFrom(0, 65535)
  ELSE {}

\* The first loop, lines 68-80: `port` is a uint16_t compared with
\* rtp_port_max, so for rtp_port_max = 65535 the test never fails and
\* ++port wraps to 0; the loop then scans the whole 16-bit space.
FirstLoop ==
  IF FreeFrom(nextPort, PortMax) # {} THEN FreeFrom(nextPort, PortMax)
  ELSE IF PortMax = 65535 THEN FreeFrom(0, 65535)
  ELSE {}

\* The wrap-around loop, lines 83-91: rtp_port_min up to next_port - 1.
SecondLoop == FreeFrom(PortMin, nextPort - 1)

\* Mutant of AllocatePort: the wrap-around loop is missing, allocation
\* gives up once next_port has passed every free port.
AllocatePortNoWrap ==
  /\ lastAlloc' = [port |-> IF FirstLoop # {} THEN Min(FirstLoop) ELSE 0,
                   wasFull |-> (PortMin..PortMax) \subseteq allocated]
  /\ IF FirstLoop # {}
     THEN LET p == Min(FirstLoop)
          IN  /\ allocated' = allocated \cup {p}
              /\ nextPort' = IF Mod16(p + 1) > PortMax THEN PortMin ELSE Mod16(p + 1)
     ELSE UNCHANGED <<allocated, nextPort>>
  /\ UNCHANGED <<rmVars, smVars, running, ioThreads, pc, starts, terminated>>

AllocatePort ==
  /\ lastAlloc' = [port |-> IF FirstLoop # {} THEN Min(FirstLoop)
                            ELSE IF SecondLoop # {} THEN Min(SecondLoop) ELSE 0,
                   wasFull |-> (PortMin..PortMax) \subseteq allocated]
  /\ CASE FirstLoop # {} ->
            LET p == Min(FirstLoop)
            IN  /\ allocated' = allocated \cup {p}
                /\ nextPort' = IF Mod16(p + 1) > PortMax THEN PortMin ELSE Mod16(p + 1)
       [] SecondLoop # {} ->
            LET p == Min(SecondLoop)
            IN  /\ allocated' = allocated \cup {p}
                /\ nextPort' = Mod16(p + 1)
       [] OTHER -> UNCHANGED <<allocated, nextPort>>
  /\ UNCHANGED <<rmVars, smVars, running, ioThreads, pc, starts, terminated>>

ReleasePort(p) ==
  /\ allocated' = allocated \ {p}
  /\ UNCHANGED <<rmVars, smVars, running, ioThreads, nextPort, pc, starts,
                 terminated, lastAlloc>>

-----------------------------------------------------------------------------
(* The io threads, Impl::io_loop, lines 102-117.                           *)

\* Mutant of IoCheck: the loop tests a copy of `running` taken when the
\* thread started, so it never sees stop()'s store.
IoCheckStale(i) ==
  /\ ioThreads[i].pc = "check"
  /\ ioThreads' = [ioThreads EXCEPT ![i].pc = "work"]
  /\ UNCHANGED <<rmVars, smVars, running, allocated, nextPort, pc, starts,
                 terminated, lastAlloc>>

\* while (running.load()): go round once more, or return.
IoCheck(i) ==
  /\ ioThreads[i].pc = "check"
  /\ ioThreads' = [ioThreads EXCEPT ![i].pc = IF running THEN "work" ELSE "exit"]
  /\ UNCHANGED <<rmVars, smVars, running, allocated, nextPort, pc, starts,
                 terminated, lastAlloc>>

\* The loop body: sleep, process(), cleanup().  The two calls take two
\* different mutexes and touch disjoint state, so one step is exact.
IoWork(i) ==
  /\ ioThreads[i].pc = "work"
  /\ SM!Process
  /\ RM!Cleanup
  /\ ioThreads' = [ioThreads EXCEPT ![i].pc = "check"]
  /\ UNCHANGED <<running, allocated, nextPort, pc, starts, terminated, lastAlloc>>

-----------------------------------------------------------------------------
(* start(), lines 127-143, and stop(), lines 145-162.                      *)

\* Lines 129-132: running.load(); return false when set.
StartCheck(c) ==
  /\ pc[c] = "idle"
  /\ starts < MaxStarts
  /\ pc' = [pc EXCEPT ![c] = IF running THEN "idle" ELSE "start"]
  /\ UNCHANGED <<rmVars, smVars, running, ioThreads, allocated, nextPort, starts,
                 terminated, lastAlloc>>

\* Lines 134-142: running.store(true) and emplace_back of io_threads threads.
StartSpawn(c) ==
  /\ pc[c] = "start"
  /\ starts < MaxStarts
  /\ running' = TRUE
  /\ ioThreads' = ioThreads \o [i \in 1..IoThreads |-> [pc |-> "check", joined |-> FALSE]]
  /\ starts' = starts + 1
  /\ pc' = [pc EXCEPT ![c] = "idle"]
  /\ UNCHANGED <<rmVars, smVars, allocated, nextPort, terminated, lastAlloc>>

\* Lines 147-150: running.load(); return when clear.
StopCheck(c) ==
  /\ pc[c] = "idle"
  /\ pc' = [pc EXCEPT ![c] = IF running THEN "stop_store" ELSE "idle"]
  /\ UNCHANGED <<rmVars, smVars, running, ioThreads, allocated, nextPort, starts,
                 terminated, lastAlloc>>

\* Line 152: running.store(false).
StopStore(c) ==
  /\ pc[c] = "stop_store"
  /\ running' = FALSE
  /\ pc' = [pc EXCEPT ![c] = "stop_join"]
  /\ UNCHANGED <<rmVars, smVars, ioThreads, allocated, nextPort, starts,
                 terminated, lastAlloc>>

\* Lines 154-160: every joinable thread is joined, each join blocking until
\* the thread has returned.
StopJoin(c) ==
  /\ pc[c] = "stop_join"
  /\ \A i \in 1..Len(ioThreads) : ioThreads[i].joined \/ ioThreads[i].pc = "exit"
  /\ ioThreads' = [i \in 1..Len(ioThreads) |-> [ioThreads[i] EXCEPT !.joined = TRUE]]
  /\ pc' = [pc EXCEPT ![c] = "stop_clear"]
  /\ UNCHANGED <<rmVars, smVars, running, allocated, nextPort, starts,
                 terminated, lastAlloc>>

\* Line 161: io_threads.clear() destroys the thread objects; one that is
\* still joinable calls std::terminate.
StopClear(c) ==
  /\ pc[c] = "stop_clear"
  /\ terminated' = \E i \in 1..Len(ioThreads) : ~ioThreads[i].joined
  /\ ioThreads' = << >>
  /\ pc' = [pc EXCEPT ![c] = "idle"]
  /\ UNCHANGED <<rmVars, smVars, running, allocated, nextPort, starts, lastAlloc>>

-----------------------------------------------------------------------------

\* The constructor, lines 47-62 and 120.
Init ==
  /\ RM!Init
  /\ SM!Init
  /\ running = FALSE
  /\ ioThreads = << >>
  /\ allocated = {}
  /\ nextPort = PortMin
  /\ pc = [c \in Callers |-> "idle"]
  /\ starts = 0
  /\ terminated = FALSE
  /\ lastAlloc = [port |-> -1, wasFull |-> FALSE]

Thread(i) == IoCheck(i) \/ IoWork(i)

Caller(c) ==
  \/ StartCheck(c) \/ StartSpawn(c)
  \/ StopCheck(c) \/ StopStore(c) \/ StopJoin(c) \/ StopClear(c)

\* The application's calls on the owned managers.  Of the subscription
\* manager's, only those that feed process() are taken: the others are
\* checked in SubscriptionManager's own run and touch nothing here.
SmFeeds ==
  \/ \E p \in Publishers, sid \in StreamIds, t \in LayerTables : SM!SetAvailableLayers(p, sid, t)
  \/ \E s \in Subscribers, p \in Publishers, sid \in StreamIds, t \in TargetLayers :
        SM!Subscribe(s, p, sid, t)
  \/ \E s \in Subscribers, b \in Bandwidths : SM!UpdateBandwidth(s, b)

Application ==
  \/ RM!Next /\ UNCHANGED <<smVars, sfuVars>>
  \/ SmFeeds /\ UNCHANGED <<rmVars, sfuVars>>
  \/ AllocatePort
  \/ \E p \in allocated : ReleasePort(p)

Next ==
  /\ ~terminated
  /\ \/ \E i \in 1..Len(ioThreads) : Thread(i)
     \/ \E c \in Callers : Caller(c)
     \/ Application

\* The io threads and a caller inside start() or stop() are scheduled by
\* the OS and keep running: weak fairness for each.
Spec ==
  /\ Init /\ [][Next]_vars
  /\ \A i \in 1..(MaxStarts * IoThreads) : WF_vars(i \in DOMAIN ioThreads /\ Thread(i))
  /\ \A c \in Callers : WF_vars(StartSpawn(c) \/ StopStore(c) \/ StopJoin(c) \/ StopClear(c))

-----------------------------------------------------------------------------
(* Properties.                                                             *)

TypeOK ==
  /\ RM!RoomsTypeOK
  /\ SM!TypeOK
  /\ running \in BOOLEAN
  /\ ioThreads \in Seq([pc: ThreadPcs, joined: BOOLEAN])
  /\ allocated \subseteq Seq16
  /\ nextPort \in Seq16
  /\ pc \in [Callers -> CallerPcs]
  /\ terminated \in BOOLEAN

\* allocate_port only hands out ports of [rtp_port_min, rtp_port_max]: the
\* ports the server configures its sockets from.
PortsInRange == allocated \subseteq PortMin..PortMax

\* allocate_port returns 0 ("no ports available") only when every port of
\* the range was allocated: the scan from next_port and the wrap-around scan
\* together cover the range.
AllocFailsOnlyWhenFull == lastAlloc.port = 0 => lastAlloc.wasFull

\* A stop() call returns: after running.store(false) every io thread sees
\* the flag, leaves io_loop and is joined.
StopReturns == \A c \in Callers : pc[c] = "stop_store" ~> pc[c] = "idle"

\* Room events seen by the server's room-event listener track membership
\* (RoomManager's EventsTrackMembership, with cleanup() run by io threads).
RoomEventsTrackMembership == RM!EventsTrackMembership

\* start() and stop() never bring the process down: `running` is a
\* std::atomic, is_running() may be read from any thread, and the
\* destructor calls stop(), so start() and stop() may come from different
\* threads; none of their interleavings destroys a joinable io thread in
\* io_threads.clear() (std::terminate).
NoTerminate == ~terminated

=============================================================================
