\* Callers respect the spec's "reject SSRC collision / re-registration".
CONSTANTS
  p1 = p1  p2 = p2  u1 = u1  u2 = u2  sa = sa  sv = sv
  Publishers <- MCPublishers
  Subscribers <- MCSubscribers
  StreamIds <- MCStreamIds
  Ssrcs = {1, 2}
  RewriteSsrcs = {0, 1}
  StreamLayers = {1}
  PreferredLayers <- MCPreferredLayers
  RuleArgs <- MCRuleArgs
  MaxRules = 2
  MaxListLen = 2
  MaxPackets = 1
  MaxCount = 1
  UniqueSsrcCaller = TRUE
SPECIFICATION Spec
SYMMETRY MCSymmetry
VIEW MCView
INVARIANTS
  TypeOK
  SsrcIndexConsistent
  NoCrossDelivery
