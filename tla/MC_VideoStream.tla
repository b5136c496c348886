---------------------------- MODULE MC_VideoStream ----------------------------
(* VideoStream for TLC: a keyframe (NAL type 5), a delta frame and an     *)
(* empty packet arrive; the encoder starts at 1500 kbps and a REMB of     *)
(* 1000 kbps may come.                                                     *)
EXTENDS VideoStream

\* An RTP packet as receive_packet gets it.
W(s, t, m, d) == [seq |-> s, ts |-> t, marker |-> m, data |-> d]

MCWire == { W(10, 1, TRUE, <<101>>), W(11, 2, TRUE, <<65>>), W(12, 3, TRUE, << >>) }
=============================================================================
