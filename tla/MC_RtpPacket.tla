----------------------------- MODULE MC_RtpPacket -----------------------------
(***************************************************************************)
(* The RTP codec for TLC.  The builder sets each header field to 0 or to a *)
(* value whose bytes all differ, and a payload of 0, 1 or 2 bytes.  The    *)
(* remote sender's packet has the P bit set and carries two payload bytes *)
(* and three bytes of padding, the last of them the count 3 (RFC 3550     *)
(* 5.1); the payload's own last byte is a small value, as media bytes are *)
(* as often as not.                                                        *)
(***************************************************************************)
EXTENDS RtpPacket

MCPayloads == {<< >>, <<7>>, <<1, 2>>}

\* V=2, P=1, X=0, CC=0; M=0, PT=111; sequence 258, timestamp 9, SSRC
\* 0x01020304; payload 5, 1; padding 0, 0, 3.
PaddedWire == <<160, 111, 1, 2, 0, 0, 0, 9, 1, 2, 3, 4, 5, 1, 0, 0, 3>>

MCRemoteWires == {PaddedWire}

=============================================================================
