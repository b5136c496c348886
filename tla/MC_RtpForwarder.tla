--------------------------- MODULE MC_RtpForwarder ---------------------------
(* Model-checking instance of RtpForwarder: two publishers and two        *)
(* subscribers as model values, three SSRCs, a rewrite value that equals  *)
(* one of them, and two simulcast layers.                                  *)
EXTENDS RtpForwarder

CONSTANTS p1, p2, u1, u2, sa, sv

MCPublishers  == {p1, p2}
MCSubscribers == {u1, u2}
MCStreamIds   == {sa, sv}
MCPreferredLayers == {-1, 0}

\* Three kinds of subscription: the default rule, a rule that rewrites to
\* SSRC 1 and prefers layer 0, and a paused (inactive) rule.
MCRuleArgs ==
  { [rewritten_ssrc |-> 0, preferred_simulcast_layer |-> -1, is_active |-> TRUE],
    [rewritten_ssrc |-> 1, preferred_simulcast_layer |-> 0, is_active |-> TRUE],
    [rewritten_ssrc |-> 0, preferred_simulcast_layer |-> -1, is_active |-> FALSE] }

\* The pass run's invariants read neither the emission history nor the
\* forwarded/dropped counters, and no action reads them either, so states
\* that differ only there are explored once.
MCView == <<ssrcToStream, publisherSsrcs, subscriptions, sent,
            stats.packets_received, stats.active_publishers,
            stats.active_subscribers>>

\* Publishers and subscribers are interchangeable in every property.
MCSymmetry == Permutations(MCPublishers) \cup Permutations(MCSubscribers)

=============================================================================
