---------------------------- MODULE MC_AudioStream ----------------------------
(* Bounds for checking AudioStream with its jitter buffer.                 *)
EXTENDS AudioStream

\* Three consecutive sequence numbers across the 65535 -> 0 wrap.
MCArrivals == {65534, 65535, 0}

\* The state without the statistics counters and the played-frame log:
\* no action and no checked property reads them.
MCView == <<jbVars, running, muted, sendCbSet, playCbSet, capturing, initialized, sequence,
            timestamp, playout, pc, starts, captures, sent>>
=============================================================================
