------------------------------ MODULE RtpPacket ------------------------------
(***************************************************************************)
(* The RTP packet codec, src/core/src/rtp_packet.cpp, with the RtpHeader,   *)
(* RtpExtension and RtpPacket declarations of rtp_packet.h                  *)
(* (src/unnamed/part_005).  parse and serialize are operators over byte    *)
(* sequences, the code's shifts and masks written as \div and % by powers  *)
(* of two (its ORs join disjoint bits, so they are sums); the builder     *)
(* and the setters it calls are actions on one RtpPacketBuilder.           *)
(*                                                                         *)
(* Around the codec is one link: the application serializes the packet it *)
(* has built, or a remote sender's bytes arrive; the receiver parses the  *)
(* bytes, and may serialize the packet it parsed again and send it on, as *)
(* a forwarding node does.  `sent` is the packet the bytes on the wire    *)
(* were serialized from (none for a remote sender's bytes) and `got` what *)
(* parse returned for them, so the spec's round-trip law relates the two. *)
(*                                                                         *)
(* Optional values (std::optional) are sequences of length 0 or 1.  The   *)
(* 32-bit fields take values below 2^31, the integers TLC has.            *)
(***************************************************************************)
EXTENDS Integers, Sequences, SequencesExt

CONSTANTS
  PayloadTypes,  \* arguments of set_payload_type
  SeqNumbers,    \* arguments of set_sequence
  Timestamps,    \* arguments of set_timestamp
  Ssrcs,         \* arguments of set_ssrc
  Payloads,      \* arguments of set_payload
  ExtProfiles,   \* profiles passed to add_extension
  ExtDatas,      \* extension data passed to add_extension
  RemoteWires    \* byte strings a remote sender puts on the wire

VARIABLES
  pkt,        \* RtpPacketBuilder::packet_
  sent,       \* <<p>>: the wire holds serialize() of p; << >>: remote bytes
  wire,       \* the bytes on the link, << >> before the first send
  received,   \* the receiver has parsed the bytes on the wire
  got         \* what parse returned for them: << >> is std::nullopt

vars == <<pkt, sent, wire, received, got>>

MinSize == 12   \* RtpHeader::MIN_SIZE

\* RtpPacket() = default: the RtpHeader member initialisers, no extension,
\* an empty payload.
DefaultPacket ==
  [header  |-> [version |-> 2, padding |-> FALSE, extension |-> FALSE, csrc_count |-> 0,
                marker |-> FALSE, payload_type |-> 0, sequence |-> 0, timestamp |-> 0,
                ssrc |-> 0, csrc |-> << >>],
   ext     |-> << >>,
   payload |-> << >>]

\* read_uint16_be and read_uint32_be, at 1-based position i of d.
ReadBe16Swapped(d, i) == d[i + 1] * 256 + d[i]
ReadBe16(d, i) == d[i] * 256 + d[i + 1]
ReadBe32(d, i) == ReadBe16(d, i) * 65536 + ReadBe16(d, i + 2)

\* The bytes serialize pushes for a 16- and a 32-bit field, most
\* significant first, each static_cast<uint8_t> of a shift.
Bytes16(v) == <<(v \div 256) % 256, v % 256>>
Bytes32(v) == <<(v \div 2^24) % 256, (v \div 2^16) % 256, (v \div 256) % 256, v % 256>>

\* (b >> k) & 0x01.
Bit(b, k) == (b \div 2^k) % 2

-----------------------------------------------------------------------------
(* RtpPacket::parse, lines 44-139.                                         *)

\* The fields of the first byte.
Version(d)    == (d[1] \div 64) % 4
CsrcCount(d)  == d[1] % 16
HasExt(d)     == Bit(d[1], 4) = 1
CsrcEnd(d)    == MinSize + CsrcCount(d) * 4
\* uint16_t ext_length = read_uint16_be(...) * 4: the product is truncated.
ExtLength(d)  == (ReadBe16(d, CsrcEnd(d) + 3) * 4) % 65536
PayloadStart(d) == IF HasExt(d) THEN CsrcEnd(d) + 4 + ExtLength(d) ELSE CsrcEnd(d)

\* parse's early returns, in the order the code takes them.
Accepted(d) ==
  /\ Len(d) >= MinSize
  /\ Version(d) = 2
  /\ CsrcCount(d) > 0 => Len(d) >= CsrcEnd(d)
  /\ HasExt(d) => Len(d) >= CsrcEnd(d) + 4 /\ Len(d) >= PayloadStart(d)

\* The payload: what follows the extension, less the padding length in
\* the last byte when the P bit is set and that length fits.
PayloadSize(d) ==
  LET n   == Len(d) - PayloadStart(d)
      pad == d[Len(d)]
  IN  IF Bit(d[1], 5) = 1 /\ n > 0 /\ pad <= n THEN n - pad ELSE n

Parse(d) ==
  IF ~Accepted(d) THEN << >>
  ELSE LET cc == CsrcCount(d)
           x  == CsrcEnd(d)
       IN <<[header  |-> [version |-> Version(d), padding |-> Bit(d[1], 5) = 1,
                          extension |-> HasExt(d), csrc_count |-> cc,
                          marker |-> Bit(d[2], 7) = 1, payload_type |-> d[2] % 128,
                          sequence |-> ReadBe16(d, 3), timestamp |-> ReadBe32(d, 5),
                          ssrc |-> ReadBe32(d, 9),
                          csrc |-> [i \in 1..cc |-> ReadBe32(d, MinSize + 4 * i - 3)]],
             ext     |-> IF HasExt(d)
                         THEN <<[profile |-> ReadBe16(d, x + 1),
                                 data    |-> SubSeq(d, x + 5, x + 4 + ExtLength(d))]>>
                         ELSE << >>,
             payload |-> SubSeq(d, PayloadStart(d) + 1, PayloadStart(d) + PayloadSize(d))]>>

-----------------------------------------------------------------------------
(* RtpPacket::serialize, lines 141-201, and size, lines 213-222.          *)

\* The header bytes: the X bit comes from the extension member, not from
\* header_.extension, and the CSRCs from the csrc vector, not csrc_count.
HeaderBytes(p) ==
  LET h == p.header
      b0 == ((h.version * 64) % 256) + (IF h.padding THEN 32 ELSE 0)
              + (IF p.ext # << >> THEN 16 ELSE 0) + (h.csrc_count % 16)
      b1 == (IF h.marker THEN 128 ELSE 0) + (h.payload_type % 128)
  IN  <<b0, b1>> \o Bytes16(h.sequence) \o Bytes32(h.timestamp) \o Bytes32(h.ssrc)
        \o FlattenSeq([i \in 1..Len(h.csrc) |-> Bytes32(h.csrc[i])])

\* The extension: profile, length in words rounded up, the data, then
\* zeros until the whole result is a multiple of 4 bytes long.
ExtBytes(p, headLen) ==
  IF p.ext = << >> THEN << >>
  ELSE LET e    == p.ext[1]
           body == Bytes16(e.profile) \o Bytes16(((Len(e.data) + 3) \div 4) % 65536) \o e.data
           n    == headLen + Len(body)
       IN  body \o [i \in 1..((4 - (n % 4)) % 4) |-> 0]

Serialize(p) ==
  LET head == HeaderBytes(p)
  IN  head \o ExtBytes(p, Len(head)) \o p.payload

\* RtpPacket::size: header_size() counts csrc_count, not the csrc vector.
Size(p) ==
  MinSize + p.header.csrc_count * 4
    + (IF p.ext # << >> THEN 4 + ((Len(p.ext[1].data) + 3) \div 4) * 4 ELSE 0)
    + Len(p.payload)

-----------------------------------------------------------------------------
(* RtpPacketBuilder, lines 225-273: each method calls one setter of        *)
(* packet_, which assigns one field of the header.                        *)

SetHeader(field, v) ==
  /\ pkt' = [pkt EXCEPT !.header[field] = v]
  /\ UNCHANGED <<sent, wire, received, got>>

SetPayloadType(pt) == SetHeader("payload_type", pt)
SetSequence(s)     == SetHeader("sequence", s)
SetTimestamp(ts)   == SetHeader("timestamp", ts)
SetSsrc(x)         == SetHeader("ssrc", x)
SetMarker(m)       == SetHeader("marker", m)

SetPayload(data) ==
  /\ pkt' = [pkt EXCEPT !.payload = data]
  /\ UNCHANGED <<sent, wire, received, got>>

\* add_extension replaces the extension member; header_.extension is left
\* as it was.
AddExtension(profile, data) ==
  /\ pkt' = [pkt EXCEPT !.ext = <<[profile |-> profile, data |-> data]>>]
  /\ UNCHANGED <<sent, wire, received, got>>

-----------------------------------------------------------------------------
(* The link.                                                               *)

\* build() copies packet_; the copy is serialized onto the wire.
Send ==
  /\ sent' = <<pkt>>
  /\ wire' = Serialize(pkt)
  /\ received' = FALSE
  /\ got' = << >>
  /\ UNCHANGED pkt

\* A remote sender's bytes arrive.
Inbound(d) ==
  /\ sent' = << >>
  /\ wire' = d
  /\ received' = FALSE
  /\ got' = << >>
  /\ UNCHANGED pkt

\* The receiver parses the bytes on the wire.
Receive ==
  /\ wire # << >>
  /\ ~received
  /\ received' = TRUE
  /\ got' = Parse(wire)
  /\ UNCHANGED <<pkt, sent, wire>>

\* The receiver serializes the packet it parsed and sends it on.
Forward ==
  /\ received
  /\ got # << >>
  /\ sent' = got
  /\ wire' = Serialize(got[1])
  /\ received' = FALSE
  /\ got' = << >>
  /\ UNCHANGED pkt

Init ==
  /\ pkt = DefaultPacket
  /\ sent = << >>
  /\ wire = << >>
  /\ received = FALSE
  /\ got = << >>

Next ==
  \/ \E pt \in PayloadTypes : SetPayloadType(pt)
  \/ \E s \in SeqNumbers : SetSequence(s)
  \/ \E ts \in Timestamps : SetTimestamp(ts)
  \/ \E x \in Ssrcs : SetSsrc(x)
  \/ \E m \in BOOLEAN : SetMarker(m)
  \/ \E data \in Payloads : SetPayload(data)
  \/ \E pr \in ExtProfiles, data \in ExtDatas : AddExtension(pr, data)
  \/ Send
  \/ \E d \in RemoteWires : Inbound(d)
  \/ Receive
  \/ Forward

Spec == Init /\ [][Next]_vars

-----------------------------------------------------------------------------
(* Properties.                                                             *)

\* The header fields a receiver parses are those of the packet serialized,
\* whether the application built it or a forwarding node re-serialized one
\* it parsed, and parse accepts every packet serialize writes: sequence,
\* timestamp, SSRC and CSRCs survive the byte order of serialize and parse,
\* the marker and payload type share their byte, and the P bit is kept.
\* The X bit is left out: serialize takes it from the extension member.
HeaderPreserved ==
  received /\ sent # << >> =>
    /\ got # << >>
    /\ Restrict(got[1].header, DOMAIN got[1].header \ {"extension"})
         = Restrict(sent[1].header, DOMAIN sent[1].header \ {"extension"})

\* Spec section 8's round-trip law: parse(serialise(p)) == p, for every
\* packet p the application built or parsed and serializes.
RoundTrip ==
  received /\ sent # << >> => got = sent

=============================================================================
