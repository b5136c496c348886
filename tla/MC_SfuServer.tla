---------------------------- MODULE MC_SfuServer ----------------------------
(* Model-checking instance of SfuServer: one io thread, a three-port range *)
(* (or the two ports at the top of the 16-bit space), one room with room   *)
(* for one of two participants, and one subscription of one stream.        *)
EXTENDS SfuServer

CONSTANTS a1, a2, r1, c1, c2, u1, p1, sa, m0, m1

\* Room configurations: capacity 1, no password or password "pw", closed
\* after 1 minute empty.
MCConfigs ==
  {[max_participants |-> 1, require_password |-> TRUE, password |-> "pw", auto_close_after |-> 1]}
MCPasswords == {"", "pw"}

MCLayerTables == {<<[layer_index |-> 0, bitrate_kbps |-> 150, is_active |-> TRUE],
                    [layer_index |-> 1, bitrate_kbps |-> 500, is_active |-> TRUE]>>}
MCBandwidths == {300000}
MCTargetLayers == {-1}

=============================================================================
