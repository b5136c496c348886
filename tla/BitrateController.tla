---------------------------- MODULE BitrateController ----------------------------
(***************************************************************************)
(* The adaptive bitrate controller and the simulcast controller,           *)
(* src/video/src/video_placeholder.cpp lines 481-688, declared in           *)
(* src/video/include/rtc/video/bitrate_controller.h.                        *)
(*                                                                         *)
(* Every public method of BitrateController holds impl_->mutex for its     *)
(* whole body, so each is one action.  process() runs update_bitrate only  *)
(* when 25 ms have passed since the last update; the clock is left out and *)
(* a call that finds fewer than 25 ms elapsed changes nothing, so only the *)
(* calls that update are actions.  Loss rates are in units of 1/10000.     *)
(* The float products current * rate are computed exactly as the integer   *)
(* (current * pct) \div 100: for bitrates below 2^13 the float rounding    *)
(* never reaches the next integer, so the truncation to uint64_t gives the *)
(* same value.  SimulcastController's two static functions are operators;  *)
(* an encoder's call of select_layers is an action of the application.     *)
(***************************************************************************)
EXTENDS Integers, Sequences, SequencesExt

CONSTANTS
  StartBitrate,     \* BitrateControllerConfig::start_bitrate_bps
  MinBitrate,       \* BitrateControllerConfig::min_bitrate_bps
  MaxBitrate,       \* BitrateControllerConfig::max_bitrate_bps
  IncreasePct,      \* increase_rate, in percent
  DecreasePct,      \* decrease_rate, in percent
  LossThreshold,    \* loss_threshold
  LossValues,       \* loss rates on_packet_loss reports
  RttValues,        \* RTTs on_rtt reports
  RembValues,       \* bitrates on_remb reports
  ForceValues,      \* bitrates passed to set_bitrate
  MaxForces,        \* bound on set_bitrate calls
  PacketSize,       \* size passed to on_packet_sent
  MaxSent,          \* bound on bytes_sent_since_update
  Width, Height,    \* the resolution the encoder asks layers for
  MaxKbps,          \* get_default_layers' max_bitrate_kbps
  Availables        \* available_bitrate_kbps passed to select_layers

ASSUME MinBitrate <= MaxBitrate

\* Line 521: overusing is cleared when current_loss < 0.005f.
LossClear == 50

VARIABLES
  current,          \* Impl::current_bitrate
  target,           \* Impl::target_bitrate (the latest REMB)
  loss,             \* Impl::current_loss
  rtt,              \* Impl::current_rtt
  overusing,        \* Impl::overusing
  bytesSent,        \* Impl::bytes_sent_since_update
  callbackSet,      \* Impl::callback is non-empty
  notified,         \* ghost: the value handed to the callback by the latest step
  forces,           \* ghost: set_bitrate calls so far
  selAvail,         \* ghost: the budget of the latest select_layers call
  selected          \* ghost: the layers it returned

vars == <<current, target, loss, rtt, overusing, bytesSent, callbackSet, notified,
          forces, selAvail, selected>>

MinOf(a, b) == IF a < b THEN a ELSE b

\* std::clamp(v, min_bitrate_bps, max_bitrate_bps).
Clamp(v) == IF v < MinBitrate THEN MinBitrate ELSE IF v > MaxBitrate THEN MaxBitrate ELSE v

\* static_cast<uint64_t>(current * rate).
Scale(c, pct) == (c * pct) \div 100

-----------------------------------------------------------------------------
(* Impl::update_bitrate, lines 505-541, given the target after the step.   *)

\* Mutant of UpdateBitrate: the overusing test before the loss test.
UpdateBitrateOverusingFirst(tgt) ==
  LET raw == IF overusing THEN Scale(current, 102)
             ELSE IF loss > LossThreshold THEN Scale(current, DecreasePct)
             ELSE Scale(current, IncreasePct)
      nb  == MinOf(Clamp(raw), tgt)
  IN  /\ overusing' = IF overusing THEN loss >= LossClear ELSE loss > LossThreshold
      /\ current' = nb
      /\ notified' = IF nb # current /\ callbackSet THEN <<nb>> ELSE << >>

\* Mutant of UpdateBitrate: the REMB cap left out, only the clamp applied.
UpdateBitrateNoRembCap(tgt) ==
  LET raw == IF loss > LossThreshold THEN Scale(current, DecreasePct)
             ELSE IF ~overusing THEN Scale(current, IncreasePct)
             ELSE Scale(current, 102)
      nb  == Clamp(raw)
  IN  /\ overusing' = IF loss > LossThreshold THEN TRUE
                      ELSE overusing /\ loss >= LossClear
      /\ current' = nb
      /\ notified' = IF nb # current /\ callbackSet THEN <<nb>> ELSE << >>

\* A decrease on high loss (and overusing set), an increase when not
\* overusing, else a 2% recovery that clears overusing once loss is below
\* 0.5%; then the clamp, then the REMB cap; the callback only on a change.
UpdateBitrate(tgt) ==
  LET raw == IF loss > LossThreshold THEN Scale(current, DecreasePct)
             ELSE IF ~overusing THEN Scale(current, IncreasePct)
             ELSE Scale(current, 102)
      nb  == MinOf(Clamp(raw), tgt)
  IN  /\ overusing' = IF loss > LossThreshold THEN TRUE
                      ELSE overusing /\ loss >= LossClear
      /\ current' = nb
      /\ notified' = IF nb # current /\ callbackSet THEN <<nb>> ELSE << >>

-----------------------------------------------------------------------------
(* The BitrateController methods, lines 553-625.                           *)

\* set_callback, lines 553-557.
SetCallback ==
  /\ callbackSet' = TRUE
  /\ notified' = << >>
  /\ UNCHANGED <<current, target, loss, rtt, overusing, bytesSent, forces, selAvail, selected>>

\* on_remb, lines 559-564.
OnRemb(r) ==
  /\ target' = r
  /\ UpdateBitrate(r)
  /\ UNCHANGED <<loss, rtt, bytesSent, callbackSet, forces, selAvail, selected>>

\* on_packet_loss, lines 566-570.
OnPacketLoss(l) ==
  /\ loss' = l
  /\ notified' = << >>
  /\ UNCHANGED <<current, target, rtt, overusing, bytesSent, callbackSet, forces, selAvail, selected>>

\* on_rtt, lines 572-576.
OnRtt(t) ==
  /\ rtt' = t
  /\ notified' = << >>
  /\ UNCHANGED <<current, target, loss, overusing, bytesSent, callbackSet, forces, selAvail, selected>>

\* on_packet_sent, lines 578-582.
OnPacketSent ==
  /\ bytesSent + PacketSize <= MaxSent
  /\ bytesSent' = bytesSent + PacketSize
  /\ notified' = << >>
  /\ UNCHANGED <<current, target, loss, rtt, overusing, callbackSet, forces, selAvail, selected>>

\* process, lines 584-597, when 25 ms or more have elapsed.
Process ==
  /\ UpdateBitrate(target)
  /\ bytesSent' = 0
  /\ UNCHANGED <<target, loss, rtt, callbackSet, forces, selAvail, selected>>

\* set_bitrate, lines 620-625: clamped, not capped by the REMB, and no
\* callback.
SetBitrate(b) ==
  /\ forces < MaxForces
  /\ forces' = forces + 1
  /\ current' = Clamp(b)
  /\ notified' = << >>
  /\ UNCHANGED <<target, loss, rtt, overusing, bytesSent, callbackSet, selAvail, selected>>

-----------------------------------------------------------------------------
(* SimulcastController, lines 627-688.                                      *)

Layer(w, h, fps, kbps) == [width |-> w, height |-> h, fps |-> fps, bitrate_kbps |-> kbps]

\* get_default_layers, lines 628-661: high, medium and low, with 60%, 30%
\* and 10% of the budget.
GetDefaultLayers(w, h, maxKbps) ==
  << Layer(w, h, 30, (maxKbps * 60) \div 100),
     Layer(w \div 2, h \div 2, 30, (maxKbps * 30) \div 100),
     Layer(w \div 4, h \div 4, 15, (maxKbps * 10) \div 100) >>

\* The loop of lines 669-676: each layer in order is taken if it fits in
\* what remains.
RECURSIVE Greedy(_, _)
Greedy(ls, remaining) ==
  IF ls = << >> THEN << >>
  ELSE IF Head(ls).bitrate_kbps <= remaining
       THEN <<Head(ls)>> \o Greedy(Tail(ls), remaining - Head(ls).bitrate_kbps)
       ELSE Greedy(Tail(ls), remaining)

\* Mutant of SelectLayers: the loop stops at the first layer that does not fit.
RECURSIVE GreedyBreak(_, _)
GreedyBreak(ls, remaining) ==
  IF ls = << >> \/ Head(ls).bitrate_kbps > remaining THEN << >>
  ELSE <<Head(ls)>> \o GreedyBreak(Tail(ls), remaining - Head(ls).bitrate_kbps)

SelectLayersBreak(layers, avail) ==
  LET active == GreedyBreak(layers, avail)
  IN  IF active = << >> /\ layers # << >> THEN <<Last(layers)>> ELSE active

\* select_layers, lines 663-685: at least the last (lowest) layer.
SelectLayers(layers, avail) ==
  LET active == Greedy(layers, avail)
  IN  IF active = << >> /\ layers # << >> THEN <<Last(layers)>> ELSE active

\* The encoder asks which default layers fit a budget.
SelectLayersCall(avail) ==
  /\ selAvail' = avail
  /\ selected' = SelectLayers(GetDefaultLayers(Width, Height, MaxKbps), avail)
  /\ notified' = << >>
  /\ UNCHANGED <<current, target, loss, rtt, overusing, bytesSent, callbackSet, forces>>

-----------------------------------------------------------------------------

\* The constructor, lines 496-502 and 546-549: current and target both
\* start at start_bitrate_bps.
Init ==
  /\ current = StartBitrate
  /\ target = StartBitrate
  /\ loss = 0
  /\ rtt = 0
  /\ overusing = FALSE
  /\ bytesSent = 0
  /\ callbackSet = FALSE
  /\ notified = << >>
  /\ forces = 0
  /\ selAvail = 0
  /\ selected = << >>

Next ==
  \/ SetCallback
  \/ \E r \in RembValues : OnRemb(r)
  \/ \E l \in LossValues : OnPacketLoss(l)
  \/ \E t \in RttValues : OnRtt(t)
  \/ OnPacketSent
  \/ Process
  \/ \E b \in ForceValues : SetBitrate(b)
  \/ \E a \in Availables : SelectLayersCall(a)

\* The application calls process() every ~25 ms (the header's contract).
Spec == Init /\ [][Next]_vars /\ WF_vars(Process)

-----------------------------------------------------------------------------
(* Properties.                                                             *)

\* Spec 4.6's update rule, written from the spec: the step from current
\* under the loss, the overusing flag and the REMB target.
SpecRate(c, l, ov, tgt) ==
  LET step == IF l > LossThreshold THEN Scale(c, DecreasePct)
              ELSE IF ov THEN Scale(c, 102)
              ELSE Scale(c, IncreasePct)
      low  == IF l > LossThreshold /\ step < MinBitrate THEN MinBitrate ELSE step
  IN  MinOf(Clamp(low), tgt)

SpecOverusing(l, ov) == (l > LossThreshold) \/ (ov /\ ~(l < LossClear))

\* Every update that on_remb and process() make follows spec 4.6: the rate
\* the rule gives, the overusing flag it keeps, and a callback exactly when
\* the value changes (and a callback is installed).
UpdateFollowsSpec ==
  [][(Process \/ \E r \in RembValues : OnRemb(r)) =>
       /\ current' = SpecRate(current, loss, overusing, target')
       /\ overusing' = SpecOverusing(loss, overusing)
       /\ notified' = IF current' # current /\ callbackSet THEN <<current'>> ELSE << >>]_vars

\* Once the loss stays at 0 and a REMB r within the configured range stays,
\* the bitrate settles at min(r, max): the overusing flag clears and the
\* increases reach the cap, also after a forced set_bitrate above r.  A
\* REMB below min_bitrate_bps is left out: the header's "100 Kbps min" and
\* the code's cap after the clamp disagree there (README section 5).
Converges ==
  \A r \in RembValues :
    r >= MinBitrate =>
      ((<>[](loss = 0 /\ target = r)) => <>[](current = MinOf(r, MaxBitrate)))

\* select_layers returns layers that fit the budget to which no other
\* default layer could still be added, or the lowest layer alone when none
\* fits: a layer that fits is never skipped.
SelectionMaximal ==
  LET L    == GetDefaultLayers(Width, Height, MaxKbps)
      rem  == selAvail - FoldSeq(LAMBDA l, acc : acc + l.bitrate_kbps, 0, selected)
  IN  selected # << >> =>
        IF \E i \in 1..Len(L) : L[i].bitrate_kbps <= selAvail
        THEN /\ rem >= 0
             /\ \A i \in 1..Len(L) : L[i] \notin ToSet(selected) => L[i].bitrate_kbps > rem
        ELSE selected = <<L[Len(L)]>>

=============================================================================
