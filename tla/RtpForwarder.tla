---------------------------- MODULE RtpForwarder ----------------------------
(***************************************************************************)
(* The SFU's RTP forwarder, src/server/src/rtp_forwarder.cpp.              *)
(*                                                                         *)
(* Every public operation of RtpForwarder takes impl_->mutex for its whole *)
(* body, so each one is a single atomic action here.  The state is the two *)
(* maps of RtpForwarder::Impl (ssrc_to_stream and publisher_ssrcs) and its *)
(* ForwarderStats.  A packet is abstracted to its SSRC; what the forward   *)
(* callback receives is recorded as an emission carrying the subscriber    *)
(* and the SSRC on the wire (bytes 8..11 after the optional rewrite).      *)
(* Destinations, payload bytes and byte counters are left out: no property *)
(* tells them apart.                                                       *)
(*                                                                         *)
(* Ghost state, not in the code: `subscriptions`, the (publisher,          *)
(* subscriber) pairs the caller has subscribed and not yet unsubscribed,   *)
(* and `sent`, the emissions of the latest packet.                         *)
(***************************************************************************)
EXTENDS Integers, Sequences, SequencesExt, FiniteSets, TLC

CONSTANTS
  Publishers,       \* participant ids that publish
  Subscribers,      \* participant ids that subscribe
  StreamIds,        \* stream ids, e.g. audio and video
  Ssrcs,            \* SSRC values (positive integers) the publishers use
  RewriteSsrcs,     \* values of ForwardingRule.rewritten_ssrc (0 = none)
  StreamLayers,     \* values of RtpStreamInfo.simulcast_layer (-1 = none)
  PreferredLayers,  \* values of ForwardingRule.preferred_simulcast_layer
  RuleArgs,         \* the ForwardingRule arguments callers pass (a RuleArg subset)
  MaxRules,         \* bound on the length of one stream's rule vector
  MaxListLen,       \* bound on the length of one publisher's SSRC vector
  MaxPackets,       \* bound on stats.packets_received
  MaxCount,         \* bound on |stats.active_subscribers|
  UniqueSsrcCaller  \* TRUE: callers honour the spec's "SSRC collision and
                    \* re-registration are rejected" (section 7)

ASSUME /\ Ssrcs \subseteq Nat \ {0}
       /\ 0 \in RewriteSsrcs /\ RewriteSsrcs \subseteq Nat
       /\ MaxRules \in Nat \ {0} /\ MaxListLen \in Nat \ {0}
       /\ MaxPackets \in Nat /\ MaxCount \in Nat
       /\ UniqueSsrcCaller \in BOOLEAN
       /\ RuleArgs \subseteq [rewritten_ssrc: RewriteSsrcs,
                             preferred_simulcast_layer: PreferredLayers,
                             is_active: BOOLEAN]

VARIABLES
  ssrcToStream,    \* Impl::ssrc_to_stream : SSRC -> PublisherStream
  publisherSsrcs,  \* Impl::publisher_ssrcs : publisher -> vector of SSRCs
  stats,           \* Impl::stats (the counters the model keeps)
  subscriptions,   \* ghost: pairs <<publisher, subscriber>> subscribed
  sent             \* ghost: emissions of the latest step (<<>> unless a packet)

vars == <<ssrcToStream, publisherSsrcs, stats, subscriptions, sent>>

Rule == [subscriber_id: Subscribers, rewritten_ssrc: RewriteSsrcs,
         preferred_simulcast_layer: PreferredLayers, is_active: BOOLEAN]

\* The ForwardingRule a caller passes in; subscriber_id is overwritten.
RuleArg == [rewritten_ssrc: RewriteSsrcs,
            preferred_simulcast_layer: PreferredLayers, is_active: BOOLEAN]

Stream == [publisher_id: Publishers, stream_id: StreamIds, ssrc: Ssrcs,
           simulcast_layer: StreamLayers, subscribers: Seq(Rule)]

Emission == [subscriber: Subscribers, ssrc: Ssrcs \cup RewriteSsrcs,
             source: Publishers \X StreamIds]

-----------------------------------------------------------------------------
(* Helpers on the two maps.                                                *)

\* The streams registered under the SSRCs of a publisher's vector, i.e. what
\* the loops `for (uint32_t ssrc : pub_it->second)` reach through find().
StreamsOf(p) ==
  IF p \in DOMAIN publisherSsrcs
  THEN {x \in ToSet(publisherSsrcs[p]) : x \in DOMAIN ssrcToStream}
  ELSE {}

\* Replace the rule vector of every stream under an SSRC in `xs` by
\* rules[x]; the loops over a publisher's vector that find() the entry.
SetRules(xs, rules) ==
  [x \in DOMAIN ssrcToStream |->
     IF x \in xs THEN [ssrcToStream[x] EXCEPT !.subscribers = rules[x]]
                 ELSE ssrcToStream[x]]

\* How often an SSRC occurs in a vector.
Occurrences(s, x) == Cardinality({i \in 1..Len(s) : s[i] = x})

-----------------------------------------------------------------------------
(* Impl::forward_packet, lines 50-88.                                      *)

\* The two `continue`s of the loop: an inactive rule, or a simulcast layer
\* that differs from the rule's preferred one.
SkipsRule(rule, stream) ==
  \/ ~rule.is_active
  \/ /\ rule.preferred_simulcast_layer >= 0
     /\ stream.simulcast_layer >= 0
     /\ stream.simulcast_layer # rule.preferred_simulcast_layer

\* The SSRC the subscriber sees: bytes 8..11 are overwritten when the rule
\* carries a non-zero SSRC different from the stream's, otherwise the
\* original buffer is passed on (zero copy).
WireSsrc(rule, stream) ==
  IF rule.rewritten_ssrc # 0 /\ rule.rewritten_ssrc # stream.ssrc
  THEN rule.rewritten_ssrc
  ELSE stream.ssrc

\* One callback invocation per rule that is not skipped, in rule order.
ForwardPacket(stream) ==
  LET fwd == SelectSeq(stream.subscribers, LAMBDA r : ~SkipsRule(r, stream))
  IN  [i \in 1..Len(fwd) |->
         [subscriber |-> fwd[i].subscriber_id,
          ssrc       |-> WireSsrc(fwd[i], stream),
          source     |-> <<stream.publisher_id, stream.stream_id>>]]

-----------------------------------------------------------------------------
(* The public operations.                                                  *)

\* add_publisher, lines 101-114: the entry under info.ssrc is replaced by a
\* fresh stream with no rules, and the SSRC is appended to the publisher's
\* vector whether or not it is already there.
AddPublisher(p, sid, ssrc, layer) ==
  /\ UniqueSsrcCaller =>
       /\ ssrc \notin DOMAIN ssrcToStream
       /\ \A x \in StreamsOf(p) : ssrcToStream[x].stream_id # sid
  /\ p \in DOMAIN publisherSsrcs => Len(publisherSsrcs[p]) < MaxListLen
  /\ ssrcToStream' = (ssrc :> [publisher_id |-> p, stream_id |-> sid,
                               ssrc |-> ssrc, simulcast_layer |-> layer,
                               subscribers |-> <<>>]) @@ ssrcToStream
  /\ publisherSsrcs' =
       IF p \in DOMAIN publisherSsrcs
       THEN [publisherSsrcs EXCEPT ![p] = Append(@, ssrc)]
       ELSE (p :> <<ssrc>>) @@ publisherSsrcs
  /\ stats' = [stats EXCEPT !.active_publishers = Cardinality(DOMAIN publisherSsrcs')]
  /\ sent' = <<>>
  /\ UNCHANGED <<subscriptions>>

\* Mutant of RemovePublisher: the `if (ssrcs.empty()) erase` step is
\* missing, so a publisher without streams stays listed.
RemovePublisherKeepsEmpty(p, sid) ==
  /\ p \in DOMAIN publisherSsrcs
  /\ LET v == publisherSsrcs[p]
         hit(x) == x \in DOMAIN ssrcToStream /\ ssrcToStream[x].stream_id = sid
     IN  /\ ssrcToStream' = [x \in DOMAIN ssrcToStream \ {y \in ToSet(v) : hit(y)}
                               |-> ssrcToStream[x]]
         /\ publisherSsrcs' = [publisherSsrcs EXCEPT ![p] = SelectSeq(v, LAMBDA x : ~hit(x))]
  /\ stats' = [stats EXCEPT !.active_publishers = Cardinality(DOMAIN publisherSsrcs')]
  /\ sent' = <<>>
  /\ UNCHANGED <<subscriptions>>

\* remove_publisher, lines 116-145: every SSRC of the vector whose entry
\* exists and carries `sid` is erased from both; SSRCs whose entry is gone
\* or belongs to another stream id stay in the vector.  The publisher is
\* dropped once its vector is empty.
RemovePublisher(p, sid) ==
  /\ p \in DOMAIN publisherSsrcs
  /\ LET v      == publisherSsrcs[p]
         hit(x) == x \in DOMAIN ssrcToStream /\ ssrcToStream[x].stream_id = sid
         gone   == {x \in ToSet(v) : hit(x)}
         \* a later copy of an erased SSRC no longer finds its entry
         erased(i) == hit(v[i]) /\ \A j \in 1..(i-1) : v[j] # v[i]
         kept   == SelectSeq([i \in 1..Len(v) |-> i], LAMBDA i : ~erased(i))
         rest   == [k \in 1..Len(kept) |-> v[kept[k]]]
     IN  /\ ssrcToStream' = [x \in DOMAIN ssrcToStream \ gone |-> ssrcToStream[x]]
         /\ publisherSsrcs' =
              IF rest = <<>>
              THEN [q \in DOMAIN publisherSsrcs \ {p} |-> publisherSsrcs[q]]
              ELSE [publisherSsrcs EXCEPT ![p] = rest]
  /\ stats' = [stats EXCEPT !.active_publishers = Cardinality(DOMAIN publisherSsrcs')]
  /\ sent' = <<>>
  /\ UNCHANGED <<subscriptions>>

\* Mutant of AddSubscription: the caller's rule is stored as passed, the
\* `rule.subscriber_id = subscriber_id` assignment is missing.
AddSubscriptionKeepsCallerRule(p, s, rule) ==
  /\ p \in DOMAIN publisherSsrcs
  /\ stats.active_subscribers + 1 <= MaxCount
  /\ \A x \in StreamsOf(p) : Len(ssrcToStream[x].subscribers) < MaxRules
  /\ ssrcToStream' = SetRules(StreamsOf(p),
                       [x \in StreamsOf(p) |-> Append(ssrcToStream[x].subscribers, rule)])
  /\ stats' = [stats EXCEPT !.active_subscribers = @ + 1]
  /\ subscriptions' = subscriptions \cup {<<p, s>>}
  /\ sent' = <<>>
  /\ UNCHANGED <<publisherSsrcs>>

\* add_subscription, lines 147-168: the same rule is appended to every
\* stream listed for the publisher (once per occurrence in the vector) and
\* active_subscribers is incremented; nothing happens for an unknown
\* publisher.
AddSubscription(p, s, rule) ==
  /\ p \in DOMAIN publisherSsrcs
  /\ stats.active_subscribers + 1 <= MaxCount
  /\ LET r == [subscriber_id |-> s, rewritten_ssrc |-> rule.rewritten_ssrc,
              preferred_simulcast_layer |-> rule.preferred_simulcast_layer,
              is_active |-> rule.is_active]
         xs == StreamsOf(p)
     IN  /\ \A x \in xs : Len(ssrcToStream[x].subscribers)
                            + Occurrences(publisherSsrcs[p], x) <= MaxRules
         /\ ssrcToStream' =
              [x \in DOMAIN ssrcToStream |->
                 IF x \in xs
                 THEN [ssrcToStream[x] EXCEPT !.subscribers =
                         @ \o [i \in 1..Occurrences(publisherSsrcs[p], x) |-> r]]
                 ELSE ssrcToStream[x]]
  /\ stats' = [stats EXCEPT !.active_subscribers = @ + 1]
  /\ subscriptions' = subscriptions \cup {<<p, s>>}
  /\ sent' = <<>>
  /\ UNCHANGED <<publisherSsrcs>>

\* Mutant of RemoveSubscription: `find` + `erase` in place of
\* `remove_if`, so only the first rule of the subscriber goes.
RemoveSubscriptionFirstRule(p, s) ==
  /\ p \in DOMAIN publisherSsrcs
  /\ stats.active_subscribers - 1 >= -MaxCount
  /\ ssrcToStream' =
       SetRules(StreamsOf(p),
         [x \in StreamsOf(p) |->
            LET v   == ssrcToStream[x].subscribers
                own == {i \in DOMAIN v : v[i].subscriber_id = s}
            IN  IF own = {} THEN v
                ELSE RemoveAt(v, CHOOSE i \in own : \A j \in own : i <= j)])
  /\ stats' = [stats EXCEPT !.active_subscribers = @ - 1]
  /\ subscriptions' = subscriptions \ {<<p, s>>}
  /\ sent' = <<>>
  /\ UNCHANGED <<publisherSsrcs>>

\* remove_subscription, lines 170-191: every rule of the subscriber is
\* erased from every stream of the publisher and active_subscribers is
\* decremented (size_t: the model's -1 stands for 2^64 - 1).
RemoveSubscription(p, s) ==
  /\ p \in DOMAIN publisherSsrcs
  /\ stats.active_subscribers - 1 >= -MaxCount
  /\ ssrcToStream' =
       SetRules(StreamsOf(p),
         [x \in StreamsOf(p) |->
            SelectSeq(ssrcToStream[x].subscribers, LAMBDA r : r.subscriber_id # s)])
  /\ stats' = [stats EXCEPT !.active_subscribers = @ - 1]
  /\ subscriptions' = subscriptions \ {<<p, s>>}
  /\ sent' = <<>>
  /\ UNCHANGED <<publisherSsrcs>>

\* set_simulcast_layer, lines 193-215: the preferred layer of every rule of
\* the subscriber on every stream of the publisher.
SetSimulcastLayer(p, s, layer) ==
  /\ p \in DOMAIN publisherSsrcs
  /\ ssrcToStream' =
       SetRules(StreamsOf(p),
         [x \in StreamsOf(p) |->
            LET v == ssrcToStream[x].subscribers
            IN  [i \in DOMAIN v |->
                   IF v[i].subscriber_id = s
                   THEN [v[i] EXCEPT !.preferred_simulcast_layer = layer]
                   ELSE v[i]]])
  /\ sent' = <<>>
  /\ UNCHANGED <<publisherSsrcs, stats, subscriptions>>

\* on_rtp_packet, lines 217-234: count, look the SSRC up, forward or count
\* a drop.  The forward callback is the one SfuServer installs (non-null).
OnRtpPacket(ssrc) ==
  /\ stats.packets_received < MaxPackets
  /\ IF ssrc \in DOMAIN ssrcToStream
     THEN LET out == ForwardPacket(ssrcToStream[ssrc])
          IN  /\ sent' = out
              /\ stats' = [stats EXCEPT !.packets_received = @ + 1,
                                        !.packets_forwarded = @ + Len(out)]
     ELSE /\ sent' = <<>>
          /\ stats' = [stats EXCEPT !.packets_received = @ + 1,
                                    !.packets_dropped = @ + 1]
  /\ UNCHANGED <<ssrcToStream, publisherSsrcs, subscriptions>>

-----------------------------------------------------------------------------

Init ==
  /\ ssrcToStream = << >>
  /\ publisherSsrcs = << >>
  /\ stats = [packets_received |-> 0, packets_forwarded |-> 0,
              packets_dropped |-> 0, active_publishers |-> 0,
              active_subscribers |-> 0]
  /\ subscriptions = {}
  /\ sent = <<>>

Next ==
  \/ \E p \in Publishers, sid \in StreamIds, x \in Ssrcs, l \in StreamLayers :
        AddPublisher(p, sid, x, l)
  \/ \E p \in Publishers, sid \in StreamIds : RemovePublisher(p, sid)
  \/ \E p \in Publishers, s \in Subscribers, r \in RuleArgs : AddSubscription(p, s, r)
  \/ \E p \in Publishers, s \in Subscribers : RemoveSubscription(p, s)
  \/ \E p \in Publishers, s \in Subscribers, l \in PreferredLayers :
        SetSimulcastLayer(p, s, l)
  \/ \E x \in Ssrcs : OnRtpPacket(x)

Spec == Init /\ [][Next]_vars

-----------------------------------------------------------------------------
(* Properties.                                                             *)

TypeOK ==
  /\ DOMAIN ssrcToStream \subseteq Ssrcs
  /\ \A x \in DOMAIN ssrcToStream : ssrcToStream[x] \in Stream
  /\ DOMAIN publisherSsrcs \subseteq Publishers
  /\ \A p \in DOMAIN publisherSsrcs : publisherSsrcs[p] \in Seq(Ssrcs)
  /\ stats \in [packets_received: Nat, packets_forwarded: Nat,
               packets_dropped: Nat, active_publishers: Nat,
               active_subscribers: Int]
  /\ subscriptions \subseteq Publishers \X Subscribers
  /\ sent \in Seq(Emission)

\* The two maps of Impl describe the same streams across any sequence of
\* add_publisher / remove_publisher calls: every listed SSRC is an entry
\* owned by that publisher, listed once, every entry is listed by its
\* owner under its own SSRC, and stats.active_publishers (the size of
\* publisher_ssrcs) counts exactly the publishers that own a stream.
SsrcIndexConsistent ==
  /\ \A p \in DOMAIN publisherSsrcs :
        /\ IsInjective(publisherSsrcs[p])
        /\ \A i \in 1..Len(publisherSsrcs[p]) :
              LET x == publisherSsrcs[p][i]
              IN  x \in DOMAIN ssrcToStream /\ ssrcToStream[x].publisher_id = p
  /\ \A x \in DOMAIN ssrcToStream :
        /\ ssrcToStream[x].ssrc = x
        /\ ssrcToStream[x].publisher_id \in DOMAIN publisherSsrcs
        /\ x \in ToSet(publisherSsrcs[ssrcToStream[x].publisher_id])
  /\ stats.active_publishers =
       Cardinality({ssrcToStream[x].publisher_id : x \in DOMAIN ssrcToStream})

\* forward_packet only ever hands a packet of publisher P to a subscriber
\* that has called add_subscription(P, S) and not remove_subscription(P, S)
\* since: rules cannot outlive an unsubscribe or leak between publishers.
NoCrossDelivery ==
  \A i \in 1..Len(sent) : <<sent[i].source[1], sent[i].subscriber>> \in subscriptions

=============================================================================
