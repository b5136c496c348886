# TLA+ models of the rtc-engine SFU

This directory holds TLA+ models of the C++ code under `src/`, with TLC
configurations that check them. Every action is translated from the code;
`PROJECT.json` maps each definition to the lines it models.

## 1. The system

The SFU core has these parts. For each: the state it keeps, its operations,
and what it talks to.

| Part | Source | State | Operations | Interacts with |
|---|---|---|---|---|
| RTP forwarder | `src/server/src/rtp_forwarder.cpp` | `ssrc_to_stream` (SSRC → stream with its vector of forwarding rules), `publisher_ssrcs` (publisher → vector of SSRCs), `ForwarderStats`; one mutex | `add_publisher`, `remove_publisher`, `add_subscription`, `remove_subscription`, `set_simulcast_layer`, `on_rtp_packet`, `set_forward_callback` | Socket ingress; the sink callback installed by `SfuServer`; it should also take layer changes from the subscription manager |
| Subscription manager | `src/unnamed/part_002` | (subscriber, publisher, stream) → subscription {target, current layer, paused}; per-subscriber bandwidth; per-stream layer table; one mutex | `subscribe`, `unsubscribe`, `set_paused`, `set_target_layer`, `update_bandwidth`, `process`, `select_best_layer` | `SfuServer::io_loop` calls `process` every 10 ms; its layer-switch callback is never installed |
| SFU server | `src/unnamed/part_003`, `part_000` | `running`, next RTP port, the components | `start`, `stop`, `allocate_port`, `release_port`, `io_loop` threads | Owns the room manager, forwarder and subscription manager |
| Room manager | `src/server/src/room_manager.cpp` | rooms, participants, lock/password/capacity; one mutex | create/close/lock/join/leave/cleanup | `io_loop` calls `cleanup` |
| Frame buffer (video) | `src/unnamed/part_013` | per-timestamp assemblers, completed-frame queue, `highest_sequence`, received set, stats | `insert_packet`, `pop_frame`, `get_nack_list`, `should_request_keyframe`, `reset` | Video stream decode thread |
| Jitter buffer (audio) | `src/unnamed/part_014` | sorted deque of frames, `expected_sequence`, playout start, adaptive target delay | `push`, `pop`, `reset`, `set_target_delay` | Audio stream playout |
| Lock-free queues | `src/core/include/rtc/metrics_exporter.h` 121–355, `src/unnamed/part_007` | `SpscQueue<T>`: slots with atomic `head_`/`tail_`; `MpscQueue<T>`: a linked list; `AudioRingBuffer`: samples with atomic `read_pos`/`write_pos` | `push`, `pop`, `write`, `read`, `available`, `space`, `clear` | A producer thread and a consumer thread (spec §5); no file of `src/` instantiates them yet |
| Audio mixer (MCU) | `src/server/src/audio_mixer.cpp` | sources with their buffers, levels and params; active speaker | add/remove source, `push_audio`, `set_mixing_params`, `process` | The mixed-audio and active-speaker callbacks |
| Video compositor | `src/server/src/video_compositor.cpp` 1–221 | sources with tile position, visibility and `has_frame`; layout; active speaker | add/remove source, `set_layout`, `set_tile_position`, `push_frame`, `process` | The output callback |
| Conference bridge (MCU) | `src/server/src/video_compositor.cpp` 222–494 | participants, `running`, the processing thread; owns a mixer and a compositor | `start`, `stop`, add/remove participant, push audio/video, params, layout, mute, hide | Its processing thread ticks the mixer and the compositor |
| ICE agent | `src/core/src/ice_agent.cpp` | state, local/remote candidates, candidate pairs | gather, add remote, remote complete, send, `process_packet`, `close` | UDP socket; the application's callbacks |
| Connection recovery | `src/core/src/connection_recovery.cpp` | state, `recovering` flag, `current_attempt`, recovery thread | `start_recovery`, `cancel_recovery`, `on_reconnected`, `on_state_change`, `recovery_loop` | Event callback; the reconnect function |
| Bitrate / simulcast controller | `src/video/src/video_placeholder.cpp` 481–688 | current/target bitrate, loss, RTT, overuse flag, bytes sent; one mutex | `on_remb`, `on_packet_loss`, `on_rtt`, `on_packet_sent`, `process` (→ `update_bitrate`), `set_bitrate`, `set_callback`; `get_default_layers`, `select_layers` | Encoder (through a callback); the application calls `process` every ~25 ms |
| STUN / TURN clients | `src/unnamed/part_011`, `part_010` | one pending transaction and callback; TURN is a stub | `get_reflexive_address`, `process_packet` | UDP socket, a STUN server |
| Cluster coordinator | `src/server/src/cluster_coordinator.cpp` | nodes, leader, rooms → node, `running`, the heartbeat thread; one `std::mutex` | `join`, `leave`, `update_load`, `create_room`, `trigger_election`, `set_event_callback`, the heartbeat loop | Other nodes (never contacted: the messaging is TODO) |
| Packet pacer | `src/unnamed/part_009` 270–431, declared in `src/core/include/rtc/turn_client.h` | token balance, last process time, a `std::priority_queue` of packets, stats | `enqueue`, `process`, `set_target_bitrate`, `clear`, `set_send_callback` | Senders enqueue; a pacing thread calls `process` every 5 ms (spec §5) |
| RTP packet codec | `src/core/src/rtp_packet.cpp`, declared in `src/unnamed/part_005` | a packet: header fields, CSRC list, optional extension, payload | `parse`, `serialize`, `size`, the `RtpPacketBuilder` setters and `build` | A byte codec for applications; no code of the repository calls it |
| Video stream | `src/unnamed/part_012`, with the encoder, decoder and capture stubs of `src/video/src/video_placeholder.cpp` | `running_`, `enabled_`, `sequence_`, `timestamp_`, the callbacks; owns a frame buffer, a bitrate controller, an encoder with its `keyframe_requested` flag, a decoder and a capture device | `start`, `stop`, the setters, `receive_packet`, `request_keyframe`, `set_target_bitrate`, `set_enabled` | A capture thread (the camera stub) calls `on_capture_frame` every 33 ms; a decode thread pops the frame buffer |
| Health monitor, metrics, codecs (beyond the stubs above), sockets, RTCP | other files | OS probes, DSP, RTCP stubs | — | — |

**Behaviours that make this code hard:**
- Several threads: the `io_loop` workers, the recovery thread, the ring-buffer producer and consumer, and the cluster heartbeat.
- Check-then-act on atomics (`start`, `start_recovery`).
- Callbacks invoked under a mutex.
- 16-bit sequence wrap-around in both buffers.
- Reordered, duplicated and late packets.
- Sequences of control calls that the API allows in any order: register, subscribe, unregister.

## 2. Plan

The modules, most important behaviour first. ✔ marks what is built.

1. ✔ **RtpForwarder**: the forwarder's six state-changing operations.
2. ✔ **SubscriptionManager**: `select_best_layer` is checked against the spec's selection rule. The spec's two-cycle hysteresis is stated (`UpgradeNeedsTwoCycles`) but kept in no run: the code has none (§5).
3. ✔ **FrameBuffer**: 16-bit sequence numbers over the window {65533..1}, reordered and duplicated packets, completion at 65535.
4. ✔ **ConnectionRecovery**: the recovery thread interleaved with `on_reconnected`, `cancel_recovery` and `start_recovery`, with thread joinability explicit.
5. ✔ **JitterBuffer**: push/pop with a full buffer, duplicates and late frames.
6. ✔ **RtpPacer**: the token bucket and libstdc++'s heap, checked against spec property 6 and the FIFO tie rule of §4.7.
7. ✔ **SfuServer** with **RoomManager**: the port allocator, `start`/`stop` and the io threads, composed with the room manager and the subscription manager the server owns. `SfuServer` never connects a layer change to the forwarder (its forward callback is an empty TODO), so there is no forwarder composition to check.
8. ✔ **AudioStream**: the playout thread, `receive_packet` and the capture path around the jitter buffer.
9. ✔ **AudioMixer**, **VideoCompositor** and **ConferenceBridge**: mix-minus-self and the active-speaker choice, inside the bridge whose processing thread ticks them.
10. ✔ **IceAgent** and **StunClient** (and later the RTP codec), checked separately: the product of their state spaces is beyond the run budget, and neither calls the other (the agent's `stun_client` member is never created).
11. ✔ **SpscQueue** and **AudioRingBuffer**, each refined to the abstract **Fifo**.
12. ✔ **BitrateController** and **SimulcastController**: the update rule against spec §4.6, convergence to the REMB cap, and the greedy layer choice.
13. ✔ **ClusterCoordinator**: the mutex owner as explicit state, for the self-deadlock of `elect_leader`.
14. ✔ **RtpPacket**: `parse` and `serialize` over bytes, against the spec's round-trip law.
15. ✔ **VideoStream**: the capture and decode threads around the frame buffer and the bitrate controller, with the encoder's keyframe flag.
16. **MpscQueue** (see §5).

## 3. Modules

### RtpForwarder (`RtpForwarder.tla`, instantiated by `MC_RtpForwarder.tla`)

Every public method holds `impl_->mutex` for its whole body, so each method is one action.

| Variable | Code |
|---|---|
| `ssrcToStream` | `Impl::ssrc_to_stream`. A function with a changing domain: SSRC → [publisher_id, stream_id, ssrc, simulcast_layer, subscribers: sequence of rules]. |
| `publisherSsrcs` | `Impl::publisher_ssrcs`. Publisher → sequence of SSRCs. Duplicates are kept, as the vector keeps them. |
| `stats` | The counters of `ForwarderStats` that a property needs. `active_subscribers` is `size_t`: the model lets it go to −1, which stands for the wrap to 2^64−1. |
| `subscriptions` | Ghost, not in the code. The pairs the caller has subscribed and not yet unsubscribed. |
| `sent` | Ghost, not in the code. The sink calls of the latest step. |

Actions:
- `AddPublisher`, `RemovePublisher`, `AddSubscription`, `RemoveSubscription`, `SetSimulcastLayer` and `OnRtpPacket` model the methods of the same names.
- `ForwardPacket`, `SkipsRule` and `WireSsrc` model `Impl::forward_packet`:
  - the skip of an inactive rule;
  - the simulcast layer filter;
  - the SSRC rewrite (a non-zero SSRC that differs from the stream's own), otherwise the zero-copy path.
- `RemovePublisher` keeps the iterator semantics of the code's erase loop. A second copy of an erased SSRC stays in the vector, because its entry is gone by then.
- `AddSubscription` appends the rule once per occurrence of the SSRC in the vector.

What is abstracted away:
- **Packets** are reduced to their SSRC.
- **Byte counters** and the **rule destination** are left out.
- **The sink** is assumed installed. `SfuServer` installs it in its constructor.

The constant `UniqueSsrcCaller` switches on a caller contract taken from the spec (§7): never register an SSRC that is in use, and never register a stream id twice for one publisher.

Properties:
- `TypeOK`.
- `SsrcIndexConsistent`: the two maps agree, and `active_publishers` counts exactly the publishers that own a stream.
- `NoCrossDelivery`: a packet of publisher P reaches subscriber S only while S is subscribed to P.

### SubscriptionManager (`SubscriptionManager.tla`, `MC_RecoveryLayersQueues.tla`)

Every method holds the manager's mutex, so each method is one action. `process()` handles all subscriptions in a single step.

| Variable | Code |
|---|---|
| `subscriptions` | `Impl::subscriptions`: (subscriber, publisher, stream) → [target_layer, current_layer, is_paused] |
| `streamLayers` | `Impl::stream_layers`: (publisher, stream) → vector of [layer_index, bitrate_kbps, is_active] |
| `bandwidthInfo` | `Impl::bandwidth_info`: subscriber → estimated_bps |
| `callbackSet` | Whether a layer-switch callback is installed |
| `switches` | Ghost, not in the code: the layer-switch callback calls of the latest step |
| `prevBw` | Ghost, not in the code: each subscriber's estimate at the previous `process()` |

What is modelled:
- **Selection rule.** `SelectBestLayer` follows `select_best_layer` literally: it keeps the last active layer that fits, in vector order. `SpecBestLayer` is the spec's rule, "the highest active layer that fits", written independently as a reference.
- **`set_paused` and `set_target_layer`** act on every stream of the (subscriber, publisher) pair, as the code does.
- **Fairness.** `process()` is weakly fair, because `SfuServer::io_loop` calls it every 10 ms while the server runs.

Properties:
- `TypeOK`: checked in the sfu run, as a conjunct of `SfuServer`'s `TypeOK`.
- `AutoLayerFollowsSpec`, an action property: after every `process()`, each unpaused automatic subscription sits on `SpecBestLayer`.
- `LayerEventuallyFollowsBandwidth`, liveness: no subscription is stuck away from its best layer forever.
- `UpgradeNeedsTwoCycles`: the spec's required hysteresis. An upgrade needs the new layer within 85% of the estimate at this cycle and at the previous one.

Bounds. One subscriber, subscribed to two streams of one publisher; the two streams show that `set_paused` and `set_target_layer` act publisher-wide. The layer table is the spec's seed table (150/500/1500 kbps), plus a copy with layer 2 inactive. Estimates are 300 000, 500 000 and 2 000 000 bps: below a layer rate, exactly at one, and above all three. Targets are −1, 0 and 2.

### FrameBuffer (`FrameBuffer.tla`, `MC_FramesAndBridge.tla`)

The video reassembly buffer, `src/unnamed/part_013` (`frame_buffer.cpp`). Every public method holds `impl_->mutex` for its whole body, so each method is one action. The network is a constant `Schedule` of packets [seq, ts, marker, key]. `InsertPacket` may take any of them at any time, so loss, reordering and duplication are all covered.

| Variable | Code |
|---|---|
| `assemblers` | `Impl::assemblers`: timestamp → FrameAssembler. The packet map is reduced to its set of sequence numbers. |
| `completeFrames` | `Impl::complete_frames`. A frame's `data` is the sequence of sequence numbers `assemble()` concatenated. |
| `receivedSequences`, `highestSequence`, `hasKeyframe`, `stats` | The fields of `Impl` with the same names. |
| `now` | `steady_clock::now()`, an integer tick advanced by `Tick`. |
| `lastNack`, `popped`, `queuedTs`, `firstKey`, `inserts` | Ghosts, not in the code. They hold the latest NACK list, the frames `pop_frame` returned, the timestamps queued since the last reset, the kind of the first frame queued, and the insert count. |

Actions:
- **`InsertPacket`** is the whole of `insert_packet`. It has three outcomes:
  - The frame is not complete. Cleanup runs.
  - The frame is complete but the keyframe gate applies. This is the early return: the assembler is kept and cleanup is skipped.
  - The frame is queued. The assembler is erased, then cleanup runs.
- **Sequence arithmetic** keeps 16 bits. `Mod16` stands for uint16_t arithmetic and `Int16` for the `int16_t` casts. `IsComplete` keeps the `int`-promoted loop bound `last_sequence + 1`.
- **`PopFrame`**, **`GetNackList`** and **`Reset`** follow `pop_frame`, `get_nack_list` and `reset`. `reset` leaves `highest_sequence` alone, as the code does.

Properties:
- `TypeOK`.
- `FramesContiguous`: every frame queued or popped is a gap-free run of consecutive sequence numbers, modulo 2^16, that ends at its marker packet.
- `KeyframeFirst`: with `wait_for_keyframe`, the first frame queued after construction or reset is a keyframe.
- `EmittedFramesWhole` (spec property 4): a popped frame holds every packet of its timestamp.
- `ReceivedFramesQueued`: a frame whose packets all arrived is queued.

Bounds. The pass schedule is a two-packet keyframe {65533, 65534} and a two-packet delta frame {65535, 0}, which crosses the wrap. There are at most 5 inserts, so the model covers every arrival order, a duplicate, and the loss of any packet. The clock reaches 3 ticks with `target_delay` = `max_delay` = 1, so frames are popped, frames are dropped as stale, and assemblers are discarded after 2 × `max_delay`. The NACK count is 2 and `packets_lost` is capped at 4. The wrap run uses its own schedule: a two-packet keyframe {65534, 65535} ending at the wrap, with `wait_for_keyframe` off.

### JitterBuffer and AudioStream (`JitterBuffer.tla`, `AudioStream.tla`, `MC_AudioStream.tla`)

The audio jitter buffer, `src/unnamed/part_014` lines 1-240 (`jitter_buffer.cpp`). Every public method holds `impl_->mutex` for its whole body, so each method is one action. A frame is reduced to its sequence number and arrival time: the buffer never reads the payload or the RTP timestamp.

| Variable | Code |
|---|---|
| `buffer` | `Impl::buffer`, the deque, as a sequence of [seq, arrival]. |
| `expectedSequence`, `sequenceInitialized`, `playoutStart`, `playoutStarted`, `lastArrivalDelta` | The fields of `Impl` with the same names. |
| `stats` | `Impl::stats`: `current_size`, `target_delay` and the four counters. `jitter_ms` and `packet_loss_rate` are derived floats and left out. |
| `jitter` | `jitter_estimate` × 16^5. With at most 5 updates of integer differences below 8, the float holds a multiple of 16^-5 exactly, so the fixed-point value is exact. |
| `now`, `pushes` | `steady_clock::now()` as an integer tick, and the push count that bounds the run. |

Actions:
- **`Push(s)`** is the whole of `push`, in the code's order: the full-buffer drop (`packets_late`), the sequence initialisation, the duplicate check with its early return, `update_jitter`, `adapt_delay`, and the insert at the first frame that the new one precedes by the `int16_t` difference.
- **`Pop`** is enabled when `pop` returns a frame (`PopReady`): the buffer is non-empty, playout has started, and the front frame is at least `target_delay` old. A forward `int16_t` gap counts as lost, and `expected_sequence` becomes the popped number + 1 in uint16_t.
- **`Reset`** and **`SetTargetDelay(d)`** follow `reset` and `set_target_delay`. `reset` keeps `jitter_estimate`, `last_arrival_delta` and `expected_sequence`, as the code does. The audio stream, the buffer's only owner, never calls either, so they are not part of the composed run.
- **`Tick`** advances the clock.

Properties:
- `TypeOK`.
- `BufferOrdered`: each buffered frame follows its predecessor by a positive `int16_t` difference, also across 65535 → 0, so `pop` plays in sequence order whatever the arrival order.
- `BufferBounded`: the buffer never holds more than `max_packets` frames.

`AudioStream` (`src/unnamed/part_014` lines 241-504, `audio_stream.cpp`) owns the buffer and shares its variables; `JB == INSTANCE JitterBuffer`. Four threads act on it:
- The application thread: **`Start`**, **`StopStore`**, **`StopJoin`**, **`SetSendCallback`**, **`SetPlaybackCallback`** and **`SetMuted(b)`**. `stop()` is split at the join, the only point at which the playout thread runs inside it.
- The network thread: **`ReceivePacket(s)`** is `JB!Push(s)` plus the `packets_received` count.
- The capture device: **`OnCaptureFrame`**, enabled while `capturing`. `AudioCapture::start` in the stub only sets the flag; the model lets the device call back whenever the flag is set, as the PortAudio implementation it stands for would.
- The playout thread: **`PlayoutCheck`** (`while (running_.load())`) and **`PlayoutPop`** (`JB!Pop` when `PopReady`, else a sleep).

The Opus, capture and audio-processing stubs enter as what they do. `initialize()` always succeeds. `Encode` succeeds once initialized, with `samples_encoded` equal to the frame's samples. `CaptureStart` and `CaptureStop` set the flag. `timestamp_` is `uint32_t`; its wrap lies beyond every bound, and TLC's integers are 32-bit, so it is added without the modulus.

Properties of the audio run:
- `TypeOK`.
- `BufferOrdered` and `BufferBounded`, as above.
- `SentStreamContiguous`: the packets given to the send callback since the latest `start()` carry consecutive sequence numbers and timestamps one frame apart, across any mute changes and callback installation in between.
- `StopReturns`: once `stop()` has stored `running_ = false`, the join completes.

Bounds:
- Arrivals {65534, 65535, 0} straddle the wrap, with three pushes.
- `max_packets` = 2, so the full-buffer drop happens with a third distinct frame.
- The clock reaches 2 with delays in 1..2, so frames are popped both early and late.
- Three capture callbacks, which is enough for a muted frame between two sent ones.
- Two starts.
- A `VIEW` drops the statistics and the played-frame log, which no action or property reads.

Fairness: the playout thread is an OS thread and `StopJoin` waits on it, so both are weakly fair.

### SfuServer and RoomManager (`SfuServer.tla`, `RoomManager.tla`, `MC_SfuServer.tla`)

`SfuServer` models `src/unnamed/part_003` (`sfu_server.cpp`). It composes two named instances: `RM == INSTANCE RoomManager` and `SM == INSTANCE SubscriptionManager`. Their variables are renamed where they would clash (each has a `callbackSet`).

**RoomManager** (`room_manager.cpp`). Each public method holds the one mutex for its whole body, with the event callback called inside it, so each method is one action:
- `CreateRoom`, `CloseRoom`, `SetRoomLocked`, `JoinRoom`, `LeaveRoom`, `UpdateMediaState` and `Cleanup` follow the methods of the same names.
- `MayJoin` keeps `join_room`'s checks in the code's order: room exists, not locked, capacity, password, not already in.
- `Expired` is `cleanup`'s test, which reads `created_at`.
- Rooms map to [config, is_locked, participants, created_at]. Names, roles and addresses are dropped. `MediaState` is a model value. The clock counts minutes.
- Ghosts: `view` is the membership a listener rebuilds from the events. `missed` is set when an event goes out with no callback installed.

**SfuServer state**:

| Variable | Code |
|---|---|
| `running` | `Impl::running` (atomic). |
| `ioThreads` | `Impl::io_threads`: one [pc, joined] per `std::thread`. pc is `check` (about to load `running`), `work` (in the loop body) or `exit`. |
| `allocated`, `nextPort` | `allocated_ports`, `next_port`, as 16-bit values. |
| `pc` | Each application thread's place in `start()` / `stop()`. |
| `terminated` | A joinable `std::thread` was destroyed (`std::terminate`). |
| `lastAlloc` | Ghost: the latest `allocate_port` result, and whether the range was full at the call. |

Actions:
- **`AllocatePort`** is the whole of `allocate_port` under `port_mutex`. `FirstLoop` keeps the `uint16_t` comparison with `rtp_port_max`: at 65535 it never fails, and the scan wraps to 0. `SecondLoop` is the wrap-around scan. `FreeFrom` finds the first free port without enumerating the range: that port is the start or one above an allocated port.
- **`ReleasePort`** is `release_port`.
- **`StartCheck` / `StartSpawn`** split `start()` at the atomic load. **`StopCheck` / `StopStore` / `StopJoin` / `StopClear`** split `stop()` into its load, store, join loop and `clear()`.
- **`IoCheck` / `IoWork`** are the io loop: a load of `running`, then the body, which runs `SM!Process` and `RM!Cleanup` in one step. The two calls take different mutexes and touch disjoint state.
- **`Application`**: the room manager's operations, and the subscription manager's calls that feed `process()` (`SetAvailableLayers`, `Subscribe`, `UpdateBandwidth`). Its other operations are checked in the recovery_layers_queues run and share nothing with this module.

Properties:
- `TypeOK`.
- `PortsInRange`: every allocated port lies in [`rtp_port_min`, `rtp_port_max`].
- `AllocFailsOnlyWhenFull`: `allocate_port` returns 0 only when the whole range was allocated.
- `RoomEventsTrackMembership`: `RoomManager`'s `EventsTrackMembership`. A listener installed before the first event knows exactly who is in each room.
- `StopReturns`: a `stop()` that has stored `false` returns.
- `NoTerminate` (no kept run; see §4, retired runs): no interleaving of `start()` and `stop()` destroys a joinable io thread. `running` is a `std::atomic`, and the destructor calls `stop()`, so the two may come from different threads.

Bounds and fairness:
- One application thread and one io thread. `start` is called at most twice. With two application threads and the same bounds, TLC finds `NoTerminate` violated; that run is no longer kept (§4).
- Ports 10000..10001, so the range fills and the wrap-around scan is used. With 65534..65535 instead, TLC finds `PortsInRange` violated (see §5).
- One room with capacity 1, a password, and two participants: every `join_room` rejection branch is reachable. The clock runs to 1 minute with `auto_close_after` = 1.
- One subscription with one layer table and one estimate.
- Io threads and a caller inside `start`/`stop` are weakly fair: they are OS threads. `StopJoin` stays enabled once every thread has exited.

### RtpPacer (`RtpPacer.tla`, `MC_RateControl.tla`)

`rtp_pacer.cpp` is the second file of `src/unnamed/part_009`; its declarations are in `turn_client.h`. `enqueue`, `clear` and the send loop of `process()` hold `queue_mutex`. The token refill at the top of `process()` runs before the lock, but it touches only state that no other method writes, so `process()` is one action. A packet is reduced to its size, its priority and an id in enqueue order.

| Variable | Code |
|---|---|
| `queue` | `Impl::queue`, a `std::priority_queue`. It is kept as the array that libstdc++'s `push_heap` / `pop_heap` maintain (`SiftUp`, `SiftDown`, `HeapPush`, `HeapPop`, under `PacketCompare` = `Lower`). That way the order among equal priorities is the one the library really produces. |
| `tokens`, `lastProcess`, `bitrate`, `stats` | `available_tokens`, `last_process_time`, `config.target_bitrate_bps`, `stats`. |
| `callbackSet` | Whether `send_callback` is set. Without a callback, `process()` still pops the packets and counts them as sent. |
| `now` | `steady_clock::now()` in whole ms. |
| `emitted`, `peakRate`, `lastOut` | Ghosts: the bytes given to the callback in each ms, the highest target rate in effect in each ms, and the packets popped by the latest step. |

Actions: `SetSendCallback`, `Enqueue` (a full queue drops the new packet), `Process` (`Refill`, then `Drain` while the top packet fits), `SetTargetBitrate`, `Clear` and `Tick`.

Properties:
- `TypeOK`.
- `PopsInPriorityOrder`: every packet `process()` pops has at least the priority of each packet popped after it and of each packet it leaves queued.
- `Conservation` (spec property 6): for every window [t1, t2], the bytes emitted are at most `bucket_size` + (t2 − t1) ms at the highest target rate in effect in the window.
- `TiesInFifoOrder` (spec §4.7): packets of equal priority leave in enqueue order. No kept run checks it (see §4).
- `FittingPacketsLeave` (run `pacer_starvation`): every accepted packet that fits in the bucket eventually leaves the queue. This is checked under `LiveSpec`, which adds weak fairness of `Process` and `Tick`. The header says `process()` is to be called periodically, and time passes.

Bounds:
- Sizes {2, 5} against a 6-byte bucket, so a packet can fit, not fit, or fit only after a refill.
- Rates of 2 and 5 bytes/ms.
- A queue of 3 with 4 enqueues, so the drop branch is reached.
- 3 ms of time.

The starvation run (`RtpPacer_starve.cfg`) has sizes {2, 7} against a 6-byte bucket refilled at 1 byte/ms, two enqueues and 4 ms. The 2-byte packets always fit, because two of them take 4 of the 6 bytes the bucket starts with, so only a packet stuck behind the 7-byte one can violate the property.

### ConnectionRecovery (`ConnectionRecovery.tla`, `MC_RecoveryLayersQueues.tla`)

`src/core/src/connection_recovery.cpp` has two kinds of actor:
- **Application threads** (`Callers`), which call the public methods.
- **The recovery thread**, which `start_recovery` spawns to run `recovery_loop`.

How the code maps to actions:
- A method that holds the mutex for its whole body is one action.
- `start_recovery` and `cancel_recovery` take no lock, so each is two actions:
  - `StartRecoveryCheck` is the load of `recovering`, and `StartRecoverySpawn` the store and spawn.
  - `CancelRecoveryStore` is the store of `false`, and `CancelRecoveryJoin` is `join()`, which is enabled once the thread has returned.
- `recovery_loop` is one action per region between its lock releases, its `sleep_for` and its atomic loads:

| Action | Lines | Step |
|---|---|---|
| `TCond` | 68 | loop condition |
| `TSet` | 70–77 | set RECONNECTING |
| `TAwake` | 82 | cancelled? |
| `TCheck` | 85–108 | CONNECTED → success, else next attempt |
| `TFail` | 112–116 | FAILED |
| `TFailExit` | 118–119 | clear `recovering` |

- **Thread object.** `tpc` is the thread's program point. It is `"none"` when `recovery_thread` holds no thread and `"exit"` when the thread has returned but has not been joined. Moving a new `std::thread` into a joinable one calls `std::terminate`, which the model records in `terminated`.
- **Delays.** `CalculateDelay` is `calculate_delay`, with the multiplier as an integer. The sleep itself is the gap between two thread steps.
- **Fairness.** Each thread step is weakly fair: the OS schedules a runnable thread. The resumption of a caller inside `start_recovery` or blocked in `join()` is also weakly fair. Callers are never forced to call anything.

Properties:
- `TypeOK`.
- `NoStaleReconnecting`: RECONNECTING is only shown while the thread runs.
- `RecoveryTerminates`: the thread always returns.
- `NoTerminate`: `std::terminate` is never called (not in the pass run's cfg; see Bounds).
- `ReconnectionKept` (action property): once an attempt has found the connection down, no step of `recovery_loop` moves the state away from a reported CONNECTED. Run `recovery_reconnect_lost` finds it violated. `TSet` stores RECONNECTING at the top of the next iteration whatever the state is, and `TFail` stores FAILED after the last one. The condition on a failed attempt leaves out the different case of `start_recovery` called on a connection that is still CONNECTED.

Bounds:
- One caller in the pass run. It cancels before restarting (`JoinBeforeRestart`). With two callers free to start at once, TLC finds `NoTerminate` violated: both pass the unlocked check of `recovering`, and the second assignment to the joinable `recovery_thread` calls `std::terminate`. That violation run is no longer kept (see §4), so `NoTerminate` is stated but not checked by a kept run.
- At most 5 calls and `max_attempts` = 3.
- Exponential backoff 100 ms × 2^n, capped at 300 ms, so the cap is reached.
- Reported states CONNECTED and DISCONNECTED.
- Deadlock checking is off: once the callers have made their calls and the thread has returned, the object is passive and nothing more happens.

### AudioMixer, VideoCompositor and ConferenceBridge (`AudioMixer.tla`, `VideoCompositor.tla`, `ConferenceBridge.tla`, `MC_FramesAndBridge.tla`)

`ConferenceBridge` (`video_compositor.cpp` 222–494) owns an `AudioMixer` and, in AUDIO_VIDEO mode, a `VideoCompositor`. It uses both as named instances (`AM`, `VC`), which share its variables. Every public method of the three classes holds a mutex for its whole body, so each method is one action. The bridge's methods are `AddParticipant`, `RemoveParticipant`, `PushAudio`, `PushVideo`, `SetAudioParams`, `SetLayout`, `SetMuted`, `SetVideoHidden` and `SetOutputCallback`. `AccessorCall` stands for the application's calls through `audio_mixer()` and `video_compositor()`.

| Variable | Code |
|---|---|
| `sources` | `AudioMixer::Impl::sources`: id → [params, buffer, ts, has_data]. `audio_level_db` is a function of the buffer, so `Loudness` derives it. |
| `activeSpeaker`, `mixedCbSet`, `speakerCbSet` | `active_speaker` and whether the two callbacks are installed. |
| `pushed`, `mixed` | Ghosts: the frame each source pushed since the last tick, and the frames the latest tick handed to the mixed-audio callback. |
| `vsources`, `layout`, `vActiveSpeaker`, `outputCbSet` | The compositor's sources (tile origin, visible, has_frame), layout, active speaker and callback flag. Pixels are left out: no method reads them back. |
| `participants`, `running`, `thread`, `bridgeCbSet`, `starts` | The bridge's `Impl`. `thread` is the processing thread's program point and joinability. |
| `appPc` | The controlling thread: idle, or inside `stop()` waiting in `join()`. |

- **Processing thread.** `LoopCheck` is the `while (running)` test. `LoopTick` is one tick of `AM!Process` and `VC!Process` under the bridge mutex. The sleep is left out, so a tick may come at any time while the thread runs.
- **`stop()`** is split at the join, into `StopStore` and `StopJoin`.
- **Arithmetic.** `Process` mixes exactly as the code does: the volume product truncated toward zero, the pan gains on stereo, and the saturating sum.
- **Fairness.** The processing thread (`Processing`) and the return from `join()` are weakly fair. The OS runs a runnable thread, and the join returns once the loop has exited.

Properties (run `frames_and_bridge`):
- `TypeOK`.
- `MixMinusSelf`: spec testable property 1, on every tick. Each recipient receives the saturated sum of the spec's contributions of the other unmuted sources that pushed since the previous tick. Its own audio, and frames an earlier tick already mixed, never reach it.
- `ActiveSpeakerPresent`: the active speaker is always a present source.
- `TickOnlyWhileStarted`: once `stop()` has returned, no tick happens until the next `start()`.

Bounds:
- Three participants, the fewest for a sum of two sources.
- Spans of one and two samples of the odd value −20001. With volume 50 the value truncates toward zero, and two of them saturate.
- One `start()`; frames of one mono sample (50 Hz × 20 ms).
- Symmetry over the participants: no code orders or compares ids.
- A `VIEW` that drops the tick ghost and the compositor, which nothing reads back.

### IceAgent (`IceAgent.tla`, `MC_ProtocolsAndVideo.tla`)

The agent has no lock, so the model has one calling thread, with each method one action. The actions are `SetCallbacks`, `SetRemoteCredentials`, `GatherCandidates`, `AddRemoteCandidate`, `SetRemoteCandidatesComplete`, `ProcessPacket` and `Close`.
- `GatherCandidates` appends the host candidate when host gathering is on and the socket exists. Server-reflexive and relay gathering are TODOs in the code.
- `AddRemoteCandidate` makes a FROZEN pair with each local candidate gathered so far. It uses the role's 64-bit priority, kept as the pair `<<hi, lo>>`.
- `process()` is empty, and nothing sets `selected_pair`, so `send()` changes nothing. Neither is an action.
- A candidate is its type, priority and component. `CalculatePriority` is `calculate_priority`, an operator.

Properties (run `protocols_and_video`):
- `PriorityOrdersTypes`: spec property 7. Of any two candidates the agent holds, the one of the preferred type has the higher priority.
- `PairPriorityAgrees`: each pair's priority is the one the peer, in the other role, computes for the same two candidates. Without this agreement the two agents would check pairs in different orders.

Bounds: the controlling role; up to two gathers, so a second host candidate appears; and up to two of the peer's sixteen candidates (every type, local preference 0 or 65535, component 1 or 256), before and after gathering.

### StunClient (`StunClient.tla`, `MC_ProtocolsAndVideo.tla`)

A single pending transaction. `GetReflexiveAddress` installs the caller's callback and a fresh transaction id, and sends a Binding request when a server is configured. A callback is named by the id of the call that installed it. `process_packet` is split at the callback: `Deliver` compares the id and calls the callback, and the callback may call `get_reflexive_address` again. `CallbackReturn` then clears `pending_callback`.
- **Network.** The network is a set of messages. `Lose` drops a message, and a delivery may leave its message behind, which is duplication. Messages are taken from the set in any order, which is reordering.
- **Server.** `ServerAnswer` answers with a response or an error response.
- **Uninitialised id.** The constructor leaves `pending_transaction` uninitialised, so `Init` lets it hold any id.

Properties (run `protocols_and_video`):
- `OwnAnswer`: a callback only ever receives the answer to its own request.
- `AtMostOnce`: a callback runs at most once.

Bounds: three transaction ids. That is enough for a request to replace a pending one, and for a retry from inside a callback. Deadlock checking is off: once the ids are spent and the network is empty, the client is idle.

### SpscQueue, AudioRingBuffer and Fifo (`SpscQueue.tla`, `AudioRingBuffer.tla`, `Fifo.tla`, `MC_RecoveryLayersQueues.tla`)

`Fifo` is the abstract specification: a bounded queue that the producer appends to and the consumer takes from the front of. `taken` is everything taken, in order. Each concrete module maps onto it with `INSTANCE Fifo WITH`:
- for `SpscQueue`, `queue` ↦ the slots from `head_` up to `tail_`, and `taken` ↦ the values `pop` returned;
- for `AudioRingBuffer`, `queue` ↦ the samples from `read_pos` up to `write_pos`, as `available()` counts them, with capacity `capacity - 1`.

The property `RefinesFifo` is the abstract `Spec`. Each side's atomic accesses pair a release store with an acquire load, so each access is one step:
- `push` is split before its store of `tail_` (`PushBegin`, `PushPublish`), and `pop` before its store of `head_` (`PopBegin`, `PopRelease`);
- `write` and `read` are split before their position stores.

The producer pushes or writes 1, 2, 3 and so on, so every loss, repeat or reordering is visible. `clear()` is not modelled (see §5).

Bounds (run `recovery_layers_queues`, both buffers interleaved with each other):
- an SPSC queue of capacity 2 through which five values pass;
- a ring buffer of four samples, written and read 1–3 at a time, eight samples in all.

With these bounds the indices wrap, both buffers fill, and copies cross the end of the ring. Deadlock checking is off: once the bounded producers are done and the consumers have drained, every call returns at once.

### BitrateController and SimulcastController (`BitrateController.tla`, `MC_RateControl.tla`)

Every `BitrateController` method holds `impl_->mutex` for its whole body, so each method is one action:
- `SetCallback`, `OnRemb(r)` (stores the target, then `update_bitrate`), `OnPacketLoss(l)`, `OnRtt(t)`, `OnPacketSent` and `SetBitrate(b)`, which clamps and neither caps by the REMB nor calls back;
- `Process` is a `process()` call that finds 25 ms or more elapsed: `update_bitrate`, then `bytes_sent_since_update` = 0. A call that finds less elapsed changes nothing, so the clock is left out.

`UpdateBitrate` is `update_bitrate`, lines 505–541:
- a decrease when loss exceeds the threshold (which sets `overusing`), else an increase when not overusing, else a 2% recovery that clears `overusing` once loss is below 0.5%;
- then the clamp to [min, max], then the REMB cap;
- the callback only when the value changed. The ghost `notified` is the value the callback received in the step.

The loss is in units of 1/10000. The products `current * rate` are computed as `(current * pct) \div 100`. For bitrates below 2^13, float rounding never reaches the next integer, so truncation to `uint64_t` gives the same value and the model is exact.

`SimulcastController` is stateless. `GetDefaultLayers` and `SelectLayers` (with its loop `Greedy`) are operators. `SelectLayersCall(a)` is an encoder's call of `select_layers` for the default layers with budget `a`; the ghosts `selAvail` and `selected` keep that call's input and result. Layers omit `active`, which is always true.

Properties:
- `UpdateFollowsSpec` (action property): every `on_remb` and `process()` update gives the rate and overusing flag of spec §4.6's rule, written from the spec. It calls back exactly when the value changes and a callback is set.
- `Converges` (liveness): for each REMB value r of at least `min_bitrate_bps`, if loss eventually stays 0 and the REMB stays r, the bitrate eventually stays at min(r, max). This holds after forced `set_bitrate` values above r. A REMB below the minimum is left out: there the code settles the bitrate below `min_bitrate_bps`, which the header's '100 Kbps min' forbids (see §5). Dropping the REMB cap from `update_bitrate` breaks it.
- `SelectionMaximal`: the layers `select_layers` returns fit the budget, and no other default layer would still fit; or, when no layer fits, the lowest layer is returned alone.

**Fairness.** Only `process()` is weakly fair: the header asks the application to call it every ~25 ms. Nothing else is forced to happen.

Bounds (run `rate_control`):
- min 100, max 400, start 200 bps, with the default rates and threshold;
- REMB values 50, 300 and 2000: below min, inside the range, above max;
- loss values 0, 1% and 3%: below the clear level, between clear and threshold, above the threshold;
- one forced `set_bitrate(2000)`, one RTT value, one packet before a reset;
- 640×480 layers for 1000 kbps (600, 300 and 100 kbps) and budgets 0 and 700. With a budget of 700, the high and low layers are taken around the medium one, so a loop that stopped at the first misfit would differ.

`set_bitrate` is bounded because a caller that forces the rate forever could keep it from converging. The header calls it a testing hook.

### ClusterCoordinator (`ClusterCoordinator.tla`, `MC_ClusterCoordinator.tla`)

Application threads (`Callers`) call the public methods, and `join()` starts the heartbeat thread. `owner` is the thread holding `Impl::mutex`, or `NoThread`. A call begins with `Call(t, op, a)` and is then split at every lock acquisition. A step that needs the lock is enabled only when `owner = NoThread`:

| Action | Lines | What it does |
|---|---|---|
| `JoinCheck` | 130–133 | a running coordinator returns false; else `self_node.status = ACTIVE`, without the lock |
| `JoinLock` | 135–137 | lock; `nodes[node_id] = self_node` |
| `JoinElect` | 138–139 | `elect_leader()`, whose `lock_guard` needs the mutex `join` holds; unlock |
| `JoinSpawn` | 141–146 | `running = true`; the heartbeat thread (moving it into a still-joinable one is `std::terminate`) |
| `LeaveCheck` … `LeaveErase` | 151–169 | `LEAVING` under the lock, `running = false`, join the thread, erase this node |
| `SetEventCallback`, `UpdateLoad` | 172–176, 244–249 | one locked region each; `nodes[node_id]` is created OFFLINE when absent |
| `Read` | 178–216, 235–268 | the getters, `find_room`, `report_room_stats`: wait for the lock, change nothing |
| `CreateRoomLock`, `CreateRoomPlace` | 218–233 | lock, then `get_least_loaded_node`, which locks again |
| `TriggerElectionLock`, `TriggerElectionElect` | 270–279 | lock, then `elect_leader` |
| `HeartbeatScan`, `HeartbeatReelect`, `HeartbeatExit` | 73–115 | erase expired entries; an expired leader is re-elected first, under the lock |
| `Expire` | 88–91 | the clock passes `node_timeout` since an entry's `last_heartbeat` |

**Relocking.** Locking a `std::mutex` its own thread holds is undefined. On the Linux build it is a default pthread mutex, and the second lock blocks forever. The model gives that outcome: the step after a nested lock is enabled only when the mutex is free, which it never is.

**Data.** Only `config.node_id` ever enters `nodes`: no code adds another node, since the seed nodes and the heartbeat messages are TODO. Addresses and event texts are left out.

**Fairness.** Each thread that can step eventually does.

`CallsReturn` (liveness): every public call returns. Run `cluster_self_deadlock` finds it violated in a few steps. `create_room` (or `join`, or `trigger_election`) takes the mutex and waits for it again, and every other caller then waits on the mutex. Deadlock checking is off, because the stuck state is what the property reports. Bounds: two callers, four calls, one room and two loads.

Everything after the first election is unreachable on this build, the heartbeat loop included. The model still gives those steps as the code has them, for a build where the nested lock is fixed. One example: the heartbeat loop refreshes `self_node.last_heartbeat` but never `nodes[node_id]`'s, so after `node_timeout` the node would report itself failed.

### RtpPacket (`RtpPacket.tla`, `MC_ProtocolsAndVideo.tla`, `MC_RtpPacket.tla`)

`parse` and `serialize` are operators over sequences of bytes, and `size` is one too. The code's shifts and masks become `\div` and `%` by powers of two. Its ORs join disjoint bits, so they are sums.
- `Parse` takes the early returns in the code's order (`Accepted`): shorter than 12 bytes, a version other than 2, a CSRC list cut short, an extension header or body cut short. The extension length is `read_uint16_be(...) * 4` truncated to `uint16_t` (`ExtLength`). The padding count in the last byte comes off the payload only when the P bit is set and the count fits (`PayloadSize`).
- `Serialize` takes the X bit from the extension member, not from `header.extension`, and the CSRCs from the vector, not from `csrc_count`. It pads the extension with zeros to a multiple of 4 bytes and writes no padding for the P bit.
- `std::optional` is a sequence of length 0 or 1. The 32-bit fields take values below 2^31, the integers TLC has.

The actions are the `RtpPacketBuilder` methods, each through the packet setter it calls (`SetPayloadType`, `SetSequence`, `SetTimestamp`, `SetSsrc`, `SetMarker`, `SetPayload`, `AddExtension`). Around them is one link, so that the codec's operators are used the way an application uses them:
- `Send`: `build()`, then `serialize()` onto the wire;
- `Inbound(d)`: a remote sender's bytes arrive;
- `Receive`: the receiver parses the wire;
- `Forward`: the receiver serializes the packet it parsed and sends it on, as a forwarding node does.

`sent` is the packet the wire was serialized from, and `got` what `parse` returned, so the round-trip law relates two variables.

Properties:
- `HeaderPreserved` (run `protocols_and_video`): the header a receiver parses equals the one serialized, field for field apart from the X bit. This holds for built packets and for forwarded ones. It also says `parse` accepts every packet `serialize` writes. Sequence number, timestamp, SSRC and CSRC values have all-distinct bytes, so a byte-order slip shows.
- `RoundTrip` (run `rtp_roundtrip`, violated): spec §8's `parse(serialise(p)) == p`.

Bounds, run `protocols_and_video`:
- one value besides the default 0 for each header field;
- payload 5, 1;
- extension data of 1 and 4 bytes;
- seven remote packets: padded, with a CSRC and an extension, with an extension of 16384 words (whose length in bytes truncates to 0), and four malformed ones (11 bytes, version 1, a CSRC count with no CSRC, a cut extension header).

Run `rtp_roundtrip` has no extension, so that TLC reports the padding case. With an extension it first reports a shorter one: `add_extension` leaves `header.extension` false, while the parsed copy has it true.

### VideoStream (`VideoStream.tla`, `MC_ProtocolsAndVideo.tla`, `MC_VideoStream.tla`)

`VideoStreamImpl` (`src/unnamed/part_012`) owns a frame buffer and a bitrate controller. The model instantiates `FrameBuffer` as `Fb` and `BitrateController` as `Bc`, and adds the encoder, decoder and capture stubs it calls in `video_placeholder.cpp`. Three threads share the state:
- **Application.** `Start` (lines 49–82: the stubs' `initialize` and `open` succeed, `sequence_` and `timestamp_` restart at 0, the bitrate callback is installed, both threads are spawned). `Stop` is split at its two joins: `Stop` stores `running_` and `capturing` false, `StopJoinCapture` waits for the capture thread, and `StopJoinDecode` waits for the decode thread. `SetSendCallback`, `ReceivePacket` (the H.264 NAL type of the first byte as the keyframe hint, then `insert_packet`), `RequestKeyframe`, `SetTargetBitrate` (`on_remb`, whose update calls the encoder's `set_bitrate` through the callback: `EncoderFollows`), `SetEnabled` and `Tick` (the frame buffer's clock).
- **Capture thread** (`VideoCapture::start`'s loop and `on_capture_frame`). `CaptureCheck` is the `while (capturing)` test. `CaptureFrame` is the test after the sleep, and the `enabled_` early return (line 166), and `encode()` reading `keyframe_requested` (line 163). `CaptureEncode` is the rest: the clear of `keyframe_requested` (line 165), the send callback with `timestamp_` and `sequence_`, `on_packet_sent` and `process()` (an update of the bitrate), and the increments. `encode` is split between its read and its clear, because nothing locks the flag.
- **Decode thread.** `DecodeCheck` is the `while (running_)` test. `DecodeBody` pops a frame when one is ready, and otherwise sleeps; decoding and rendering change nothing the model keeps.

Ghost variables: `owed` is true from a `request_keyframe()` until an encode that produced a keyframe, `capKey`/`capOwed` are what `CaptureFrame` read, and `lastSent` is the last frame handed to the send callback since `start()`.

Abstractions:
- `stats_` and `stats()` only count. The render and keyframe-request callbacks are never read back, so installing them is left out.
- `capturing` is a plain `bool` written by `stop()` and read by the capture thread. The model treats its accesses as atomic, the outcome a build gives.
- The `uint32_t` timestamp would wrap after 2^32 / 3000 frames, beyond the bounds and TLC's integers, so it is not reduced. `sequence_` is reduced mod 2^16.
- The controller's `current_bitrate * 1.08f` is float arithmetic; for the bitrates the bounds reach, the integer `(x * 108) \div 100` gives the same result.
- One application thread: a `start()` from another thread during `stop()`'s joins is not modelled.

Properties:
- `FramesSentInSequence` (run `protocols_and_video`): every frame handed to the send callback carries the sequence number and timestamp one step after the previous frame of the same `start()`, whatever enable/disable, REMB and stop/start calls came between. Dropping the `enabled_` early return, so that a disabled stream still moves the counters, breaks it.
- `KeyframeOnNextEncode` (run `video_keyframe_lost`, violated): an encode that starts after a `request_keyframe()` it has not yet served produces a keyframe (`video_codec.h` line 142: "Force a keyframe on next encode").

Bounds: 30 fps, a start bitrate of 1500 kbps and one REMB target of 1000 kbps; two encoded frames in all and two starts; three received packets (an IDR, a delta and an empty one), of which one is inserted; one tick of the frame buffer clock. Two frames are enough for a second frame to follow a first across a disable, a REMB and a keyframe request.

## 4. Runs

| Run | cfg | Expect | What it shows |
|---|---|---|---|
| forwarder | `MC_RtpForwarder.cfg` | pass | The caller keeps the SSRC contract. Over every interleaving of the operations (≈830k distinct states), the maps stay consistent and no packet reaches an unsubscribed subscriber. This includes duplicate subscriptions and unsubscribing pairs that were never subscribed. |
| recovery_layers_queues | `MC_RecoveryLayersQueues.cfg` | pass | Three systems that do not interact, in one run: the first state picks which one moves, so the states add rather than multiply (≈69k states). Connection recovery: every interleaving of the caller's calls with the recovery thread; the thread always returns, and RECONNECTING never outlives it. Subscriptions: layer tables listed low to high; every `process()` matches the spec's selection, and the liveness property holds under the fairness of `process()`. Lock-free buffers: a producer and a consumer interleaved at every atomic access; `SpscQueue` and `AudioRingBuffer` both implement the bounded FIFO. Deadlock is not checked: the bounded callers and producers end idle. |
| frames_and_bridge | `MC_FramesAndBridge.cfg` | pass | The frame buffer and the conference bridge, which no code connects, in one run where the first state picks which one moves (≈336k states). Frame buffer: every loss, reorder and duplicate of the wrapping schedule, with pops, NACK queries, resets and ticks in between; frames stay contiguous across the wrap, and the keyframe gate holds after resets. Bridge: participants join, leave, push audio and video, change params, layout, mute and hide, while the bridge is started and stopped and its thread ticks; every tick mixes minus self as the spec says, the active speaker is always present, and no tick follows the return of `stop()`. |
| audio | `MC_AudioStream.cfg` | pass | The stream is started and stopped while frames 65534, 65535 and 0 arrive in any order, the device captures through mute changes, and the playout thread pops (≈777k states). The buffer stays in wrap-aware order and within `max_packets`, the sent packets form one contiguous RTP stream per start, and `stop()` returns. |
| sfu | `MC_SfuServer.cfg` | pass | One application thread starts and stops the server, allocates and releases ports, and drives rooms and subscriptions while the io thread runs `process()` and `cleanup()` (≈369k states). Ports stay in range, allocation fails only on a full range, room events track membership, and `stop()` returns. |
| protocols_and_video | `MC_ProtocolsAndVideo.cfg` | pass | The ICE agent, the STUN client, the RTP codec and the video stream, none of which calls another, in one run where the first state picks which one moves (≈528k states). A `VIEW` keeps only the moving system's variables, so the systems' initial states do not multiply. ICE: gathers and remote candidates in every order; candidate priorities respect the type order, and both agents agree on every pair's priority. STUN: requests, retries from inside the callback, and a network that loses, duplicates and reorders; a callback only gets its own answer, at most once. RTP: built packets, remote packets and re-serialized ones; the parsed header is always the one sent. Video: start, stop, enable, REMB and keyframe requests interleaved with the capture and decode threads; the frames sent within one start are consecutive in sequence and timestamp. Deadlock is not checked: the STUN client idles once its ids are spent. |
| rate_control | `MC_RateControl.cfg` | pass | The bitrate controller and the pacer, which no code connects, in one run where the first state picks which one moves (≈435k states). Controller: every REMB, loss, RTT, packet, forced-rate and layer-selection call in any order; every update follows spec §4.6's rule, the bitrate settles at min(REMB, max) once loss is zero, and `select_layers` never skips a layer that fits. Pacer: packets of two sizes and two priorities, a rate change, `clear` and `process` over 3 ms; every `process()` emits by priority, and no window of time sees more bytes than spec property 6 allows. |
| cluster_self_deadlock | `MC_ClusterCoordinator.cfg` | violation | `join`, `create_room` and `trigger_election` lock the mutex and then call a function that locks it again. The call never returns, and every other thread then waits (`CallsReturn`). |
| recovery_reconnect_lost | `ConnectionRecovery_reconnect.cfg` | violation | An attempt finds the connection still down. The caller reports CONNECTED before the next iteration starts, and the thread's store of RECONNECTING overwrites it (`ReconnectionKept`). |
| rtp_roundtrip | `RtpPacket_roundtrip.cfg` | violation | A remote packet with the P bit set is parsed and serialized again. `serialize` keeps the bit but writes no padding, so the next `parse` strips the payload's own last byte (`RoundTrip`, spec §8). |
| pacer_starvation | `RtpPacer_starve.cfg` | violation | A 7-byte packet enqueued under a 6-byte bucket is never sent, since tokens are clamped to the bucket. A 2-byte packet of the same priority queued behind it waits forever, though `process()` runs periodically and it fits (`FittingPacketsLeave`). `enqueue` returned true for both. |
| video_keyframe_lost | `VideoStream_keyframe.cfg` | violation | The capture thread's `encode()` reads `keyframe_requested` as false; the application's `request_keyframe()` sets it; `encode()` then clears it. The next frame is a delta frame although a keyframe was requested (`KeyframeOnNextEncode`). |

Six violation runs were made while modelling and are no longer kept: the project has room for twelve runs. Those slots went to the components modelled since, and to the two violation runs above, whose slots came from merging the frame buffer with the bridge and the subscription manager with the recovery and queue systems. Their properties stay in the modules, and `PROJECT.json` records each one as a hazard note.
- `RtpForwarder_collision`: B registers A's SSRC, and A's subscriber receives B's packets (`NoCrossDelivery`). Spec §7 says the newer registration is rejected.
- `FrameBuffer_whole`: a marker packet that arrives first completes a one-packet "frame", which `pop_frame` returns (`EmittedFramesWhole`, spec testable property 4).
- `FrameBuffer_wrap`: a keyframe ending at 65535 is never queued.
- `ConnectionRecovery_terminate`: two callers run `start_recovery` together, and the second thread assignment calls `std::terminate` (`NoTerminate`).
- `SfuServer_terminate`: with two application threads, a `start()` between another thread's `stop()` joins and `io_threads.clear()` leaves a joinable thread for `clear()` to destroy: `std::terminate` (`NoTerminate`).
- `RtpPacer_fifo`: four packets of one priority leave as 0, 2, 1, 3, where spec §4.7 requires FIFO order among ties (`TiesInFifoOrder`).

**Bounds** (`MC_RtpForwarder.cfg`):
- 2 publishers, 2 subscribers and 2 stream ids, as model values with symmetry.
- SSRCs {1, 2}. The rewrite values are {0, 1}, so a rewrite can equal another stream's SSRC.
- One advertised layer and preferred layers {−1, 0}, so both the forwarded and the skipped branch of the layer filter occur.
- Three kinds of rule: the default rule, a rewriting rule with a layer preference, and an inactive one.
- `MaxRules` = 2, which allows a duplicate subscription. `MaxListLen` = 2, `MaxPackets` = 1, and `MaxCount` = 1 bounds the drift of `active_subscribers`.
- The pass run uses a `VIEW` that drops the emission history and the forwarded/dropped counters. No action and no checked invariant reads them.

No liveness property is stated for the forwarder: it is a passive object, and nothing in it has to happen eventually.

## 5. Not modelled

- UDP sockets, OS health probes, metrics export, the codecs' commented-out FFmpeg paths and DSP: pure I/O or arithmetic, with no protocol state. The encoder, decoder and capture stubs are modelled only as far as `VideoStream` calls them.
- `VideoStreamImpl::stats()` and the `stats_` counters, which only count.
- `AudioRingBuffer::clear`: it stores both positions, relaxed, and nothing says which thread may call it or when. Called by the consumer during a write, the producer's later store of `write_pos` makes stale samples readable, so only a contract could make it safe.
- `MpscQueue`: `pop` deletes the stub node that the destructor deletes again. This is a double free on every destruction after a pop: a memory-lifetime fault rather than an interleaving one.
- `LoadBalancer::get_best_node` and `get_backup_nodes`: they only read the coordinator and format `address:port` strings.
- A REMB below `min_bitrate_bps` takes the bitrate below the minimum. The REMB cap comes after the clamp, so spec §4.6's 'within [min, max]' and its own update rule disagree. The model follows the code and the rule; the rate_control run checks the rule, which takes the bitrate to 50 bps under a REMB of 50 (`video_placeholder.cpp:531`), against `bitrate_controller.h:42`'s '100 Kbps min'. No run states the range as a property, and `Converges` is stated only for REMB values at or above the minimum.
- `BitrateController::estimate()` and `target_bitrate()` only read. The bitrate callback is called with the mutex held, so a callback that calls back into the controller deadlocks. The model's callback records its argument and calls nothing.
- RTCP: `RtcpPacket::parse` and `serialize` are stubs, and nothing consumes the `create_*` factories.
- The TURN client: a stub whose `allocate` always fails.

Eleven more divergences are reachable in the models, but no run states them:
- **No hysteresis in `process()`**: an estimate of exactly 500 kbps switches straight to layer 1 on the first cycle, with no 85% margin and no second cycle, which the spec requires (`part_002:197`).
- **`allocate_port` wraps at `rtp_port_max` = 65535**: the `uint16_t` loop test never fails, so once 65534 and 65535 are taken the allocator returns 0, its failure value, and then ports below the range (`part_003:68`). `SfuServer` with `PortMin` 65534 and `PortMax` 65535 finds it in three allocations.
- **A stream added after `add_subscription` gets no rule** for existing subscribers (`rtp_forwarder.cpp:158`).
- **`select_best_layer` keeps the last fitting entry in vector order**: with the seed table listed high to low and 2 Mbps available it picks layer 0, where the spec picks layer 2 (`part_002:96`).
- **`complete_frames` is in completion order**, not timestamp order (`part_013:191`).
- **A duplicate pushed into a full jitter buffer** first drops the oldest frame and is then rejected, so a good frame is lost (`part_014:86`).
- **A late frame popped after its successors** rewinds `expected_sequence`, and the next pop counts frames already played as lost a second time (`part_014:169`).

- **`cleanup` closes rooms by creation age**, not by how long they have been empty (`room_manager.cpp:250`).
- **A retry from inside a STUN callback is dropped**: `process_packet` clears `pending_callback` after the callback returns, wiping the one the retry installed (`part_011:211`).
- **`add_extension` leaves `header.extension` false**, so a built packet with an extension fails the round trip even when its data fills whole words. Data that does not fill whole words comes back longer, with the zero padding (`rtp_packet.cpp:261`).
- **Remote candidates added before gathering are never paired**, and a second gather's host candidate is not paired with earlier remote candidates (`ice_agent.cpp:190`).

They are listed as hazards in `PROJECT.json`.
