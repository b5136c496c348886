\* The builder adds no extension, so that the round trip is checked on the
\* packets parse returns for a padded packet and the builder's packets.
CONSTANTS
  PayloadTypes = {0, 111}
  SeqNumbers = {0, 258}
  Timestamps = {0}
  Ssrcs = {0, 16909060}
  Payloads <- MCPayloads
  ExtProfiles = {}
  ExtDatas = {}
  RemoteWires <- MCRemoteWires
SPECIFICATION Spec
INVARIANT
  RoundTrip
