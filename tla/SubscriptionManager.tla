------------------------- MODULE SubscriptionManager -------------------------
(***************************************************************************)
(* The subscription manager, src/unnamed/part_002 (subscription_manager.cpp)*)
(*                                                                         *)
(* Every public method holds impl_->mutex for its whole body, so each is   *)
(* one action; process() (lines 184-208) runs its loop over all            *)
(* subscriptions inside one step.  SfuServer's io_loop threads call        *)
(* process() every 10 ms while the server runs.                            *)
(*                                                                         *)
(* Bandwidth is BandwidthInfo.estimated_bps; packet_loss and rtt_ms are    *)
(* never read by the code and are left out.  A layer is                    *)
(* [layer_index, bitrate_kbps, is_active]; width, height and fps are never *)
(* read either.  Ghost state: `switches`, the layer-switch callback calls  *)
(* of the latest step, and `prevBw`, the estimate each subscriber had at   *)
(* the previous process() call (-1 = none), used only by properties.       *)
(***************************************************************************)
EXTENDS Integers, Sequences, SequencesExt, FiniteSets, TLC

CONSTANTS
  Subscribers,   \* subscriber ids
  Publishers,    \* publisher ids
  StreamIds,     \* stream ids
  LayerTables,   \* vectors of SimulcastLayerInfo callers register
  Bandwidths,    \* values of BandwidthInfo.estimated_bps
  TargetLayers   \* values passed as target_layer (-1 = automatic)

NoBw == -1       \* prevBw value: no estimate known at that process() call

Key == Subscribers \X Publishers \X StreamIds   \* SubscriptionKey
StreamKey == Publishers \X StreamIds            \* StreamKey

LayerInfo == [layer_index: 0..2, bitrate_kbps: Nat, is_active: BOOLEAN]

VARIABLES
  subscriptions,  \* Impl::subscriptions : Key -> Subscription
  streamLayers,   \* Impl::stream_layers : StreamKey -> vector of layers
  bandwidthInfo,  \* Impl::bandwidth_info : subscriber -> estimated_bps
  callbackSet,    \* Impl::layer_switch_callback is non-empty
  switches,       \* ghost: callback invocations of the latest step
  prevBw          \* ghost: estimate per subscriber at the previous process()

vars == <<subscriptions, streamLayers, bandwidthInfo, callbackSet, switches, prevBw>>

SubscriptionRec == [target_layer: TargetLayers, current_layer: 0..2,
                    is_paused: BOOLEAN]

-----------------------------------------------------------------------------
(* Impl::select_best_layer, lines 76-103: 2 when the subscriber has no     *)
(* estimate, 0 when the stream has no layer table, otherwise the index of  *)
(* the LAST active layer in vector order whose bitrate fits, default 0.    *)

\* Mutant of SelectBestLayer: `<` in place of `<=`, a layer whose bitrate
\* equals the estimate no longer fits.
SelectBestLayerStrict(sub, sk) ==
  IF sub \notin DOMAIN bandwidthInfo THEN 2
  ELSE IF sk \notin DOMAIN streamLayers THEN 0
  ELSE LET fits == SelectSeq(streamLayers[sk],
                     LAMBDA l : l.is_active /\ l.bitrate_kbps * 1000 < bandwidthInfo[sub])
       IN  IF fits = <<>> THEN 0 ELSE Last(fits).layer_index

SelectBestLayer(sub, sk) ==
  IF sub \notin DOMAIN bandwidthInfo THEN 2
  ELSE IF sk \notin DOMAIN streamLayers THEN 0
  ELSE LET fits == SelectSeq(streamLayers[sk],
                     LAMBDA l : l.is_active /\ l.bitrate_kbps * 1000 <= bandwidthInfo[sub])
       IN  IF fits = <<>> THEN 0 ELSE Last(fits).layer_index

\* process(), lines 184-208: every unpaused automatic subscription takes the
\* best layer; a change fires the callback (when one is installed) with the
\* old and new layer.
AutoManaged(k) == ~subscriptions[k].is_paused /\ subscriptions[k].target_layer < 0

Best(k) == SelectBestLayer(k[1], <<k[2], k[3]>>)

Changed == {k \in DOMAIN subscriptions : AutoManaged(k) /\ Best(k) # subscriptions[k].current_layer}

\* Mutant of Process: the loop is skipped while no layer-switch callback
\* is installed (an early `if (!layer_switch_callback) return;`).
ProcessNeedsCallback ==
  /\ callbackSet
  /\ subscriptions' =
       [k \in DOMAIN subscriptions |->
          IF k \in Changed THEN [subscriptions[k] EXCEPT !.current_layer = Best(k)]
                           ELSE subscriptions[k]]
  /\ switches' = {[subscriber |-> k[1], publisher |-> k[2],
                   old |-> subscriptions[k].current_layer, new |-> Best(k)] : k \in Changed}
  /\ prevBw' = [s \in Subscribers |-> IF s \in DOMAIN bandwidthInfo THEN bandwidthInfo[s] ELSE NoBw]
  /\ UNCHANGED <<streamLayers, bandwidthInfo, callbackSet>>

Process ==
  /\ subscriptions' =
       [k \in DOMAIN subscriptions |->
          IF k \in Changed THEN [subscriptions[k] EXCEPT !.current_layer = Best(k)]
                           ELSE subscriptions[k]]
  /\ switches' = IF callbackSet
                 THEN {[subscriber |-> k[1], publisher |-> k[2],
                        old |-> subscriptions[k].current_layer, new |-> Best(k)] : k \in Changed}
                 ELSE {}
  /\ prevBw' = [s \in Subscribers |-> IF s \in DOMAIN bandwidthInfo THEN bandwidthInfo[s] ELSE NoBw]
  /\ UNCHANGED <<streamLayers, bandwidthInfo, callbackSet>>

-----------------------------------------------------------------------------
(* The other public operations.                                            *)

\* set_layer_switch_callback, lines 110-114.
SetLayerSwitchCallback ==
  /\ callbackSet' = TRUE
  /\ switches' = {}
  /\ UNCHANGED <<subscriptions, streamLayers, bandwidthInfo, prevBw>>

\* set_available_layers, lines 116-122: the table is replaced.
SetAvailableLayers(p, sid, layers) ==
  /\ streamLayers' = (<<p, sid>> :> layers) @@ streamLayers
  /\ switches' = {}
  /\ UNCHANGED <<subscriptions, bandwidthInfo, callbackSet, prevBw>>

\* Mutant of Subscribe: current_layer copied from target_layer, without
\* the default of 2 for an automatic subscription.
SubscribeNoDefault(s, p, sid, target) ==
  /\ subscriptions' = (<<s, p, sid>> :> [target_layer |-> target,
                         current_layer |-> target, is_paused |-> FALSE]) @@ subscriptions
  /\ switches' = {}
  /\ UNCHANGED <<streamLayers, bandwidthInfo, callbackSet, prevBw>>

\* subscribe, lines 124-140: a (re)subscription replaces the entry; the
\* current layer is the target, or 2 for an automatic one.
Subscribe(s, p, sid, target) ==
  /\ subscriptions' = (<<s, p, sid>> :> [target_layer |-> target,
                         current_layer |-> IF target >= 0 THEN target ELSE 2,
                         is_paused |-> FALSE]) @@ subscriptions
  /\ switches' = {}
  /\ UNCHANGED <<streamLayers, bandwidthInfo, callbackSet, prevBw>>

\* unsubscribe, lines 142-147.
Unsubscribe(s, p, sid) ==
  /\ subscriptions' = [k \in DOMAIN subscriptions \ {<<s, p, sid>>} |-> subscriptions[k]]
  /\ switches' = {}
  /\ UNCHANGED <<streamLayers, bandwidthInfo, callbackSet, prevBw>>

\* set_paused, lines 149-161, and set_target_layer, lines 163-175: applied
\* to every stream of the (subscriber, publisher) pair.
OfPair(s, p) == {k \in DOMAIN subscriptions : k[1] = s /\ k[2] = p}

SetPaused(s, p, paused) ==
  /\ subscriptions' = [k \in DOMAIN subscriptions |->
                         IF k \in OfPair(s, p) THEN [subscriptions[k] EXCEPT !.is_paused = paused]
                                               ELSE subscriptions[k]]
  /\ switches' = {}
  /\ UNCHANGED <<streamLayers, bandwidthInfo, callbackSet, prevBw>>

SetTargetLayer(s, p, layer) ==
  /\ subscriptions' = [k \in DOMAIN subscriptions |->
                         IF k \in OfPair(s, p) THEN [subscriptions[k] EXCEPT !.target_layer = layer]
                                               ELSE subscriptions[k]]
  /\ switches' = {}
  /\ UNCHANGED <<streamLayers, bandwidthInfo, callbackSet, prevBw>>

\* update_bandwidth, lines 177-182.
UpdateBandwidth(s, bps) ==
  /\ bandwidthInfo' = (s :> bps) @@ bandwidthInfo
  /\ switches' = {}
  /\ UNCHANGED <<subscriptions, streamLayers, callbackSet, prevBw>>

-----------------------------------------------------------------------------

Init ==
  /\ subscriptions = << >>
  /\ streamLayers = << >>
  /\ bandwidthInfo = << >>
  /\ callbackSet = FALSE
  /\ switches = {}
  /\ prevBw = [s \in Subscribers |-> NoBw]

Next ==
  \/ Process
  \/ SetLayerSwitchCallback
  \/ \E p \in Publishers, sid \in StreamIds, t \in LayerTables : SetAvailableLayers(p, sid, t)
  \/ \E s \in Subscribers, p \in Publishers, sid \in StreamIds, t \in TargetLayers :
        Subscribe(s, p, sid, t)
  \/ \E s \in Subscribers, p \in Publishers, sid \in StreamIds : Unsubscribe(s, p, sid)
  \/ \E s \in Subscribers, p \in Publishers, b \in BOOLEAN : SetPaused(s, p, b)
  \/ \E s \in Subscribers, p \in Publishers, t \in TargetLayers : SetTargetLayer(s, p, t)
  \/ \E s \in Subscribers, b \in Bandwidths : UpdateBandwidth(s, b)

\* The io_loop threads call process() every 10 ms for as long as the server
\* runs, so process() is weakly fair.
Spec == Init /\ [][Next]_vars /\ WF_vars(Process)

-----------------------------------------------------------------------------
(* Properties.                                                             *)

TypeOK ==
  /\ DOMAIN subscriptions \subseteq Key
  /\ \A k \in DOMAIN subscriptions : subscriptions[k] \in SubscriptionRec
  /\ DOMAIN streamLayers \subseteq StreamKey
  /\ \A sk \in DOMAIN streamLayers : streamLayers[sk] \in LayerTables
  /\ DOMAIN bandwidthInfo \subseteq Subscribers
  /\ \A s \in DOMAIN bandwidthInfo : bandwidthInfo[s] \in Bandwidths
  /\ callbackSet \in BOOLEAN
  /\ prevBw \in [Subscribers -> Bandwidths \cup {NoBw}]

\* The spec's automatic selection (section 4.2): the highest active layer
\* whose bitrate_kbps * 1000 fits the estimate, layer 0 when none fits, the
\* highest layer of the stream when the estimate is unknown.  With no
\* layer table the spec says nothing; the code's 0 is taken.
SpecBestLayer(k) ==
  LET sub == k[1]
      sk  == <<k[2], k[3]>>
      idx(t) == {t[i].layer_index : i \in DOMAIN t}
  IN  IF sub \notin DOMAIN bandwidthInfo
      THEN IF sk \in DOMAIN streamLayers THEN Max(idx(streamLayers[sk])) ELSE 2
      ELSE IF sk \notin DOMAIN streamLayers THEN 0
      ELSE LET t == streamLayers[sk]
               fit == {t[i].layer_index : i \in {j \in DOMAIN t :
                          t[j].is_active /\ t[j].bitrate_kbps * 1000 <= bandwidthInfo[sub]}}
           IN  IF fit = {} THEN 0 ELSE Max(fit)

\* Every process() call leaves each unpaused automatic subscription on the
\* layer the spec's selection rule picks for the current estimate and
\* layer table, whatever calls came before.
AutoLayerFollowsSpec ==
  [][Process => \A k \in DOMAIN subscriptions :
                  AutoManaged(k) => subscriptions'[k].current_layer = SpecBestLayer(k)]_vars

\* Driven by the io_loop's periodic process(), an unpaused automatic
\* subscription keeps coming back to the best layer for the current
\* estimate: no upgrade or downgrade is withheld forever.
LayerEventuallyFollowsBandwidth ==
  \A k \in Key :
    []<>(k \notin DOMAIN subscriptions \/ ~AutoManaged(k)
         \/ subscriptions[k].current_layer = Best(k))

\* The spec's hysteresis (section 4.2, "required"): process() upgrades a
\* subscription only when the new layer's bitrate is within 85% of the
\* estimate at this and at the previous process() cycle.
UpgradeNeedsTwoCycles ==
  [][Process =>
      \A k \in Changed :
        LET sk == <<k[2], k[3]>>
            rate == LET t == streamLayers[sk]
                    IN  t[CHOOSE i \in DOMAIN t : t[i].layer_index = Best(k)].bitrate_kbps
        IN  ( /\ Best(k) > subscriptions[k].current_layer
              /\ k[1] \in DOMAIN bandwidthInfo /\ sk \in DOMAIN streamLayers )
            => /\ 100 * rate * 1000 <= 85 * bandwidthInfo[k[1]]
               /\ 100 * rate * 1000 <= 85 * prevBw[k[1]]]_vars

=============================================================================
