---------------------------- MODULE VideoCompositor ----------------------------
(***************************************************************************)
(* The video compositor stub, src/server/src/video_compositor.cpp lines    *)
(* 1-221, with its declarations in                                         *)
(* src/server/include/rtc/server/video_compositor.h.                       *)
(*                                                                         *)
(* Every public method holds impl_->mutex for its whole body.  process()   *)
(* does not composite (a TODO): it paints the background, clears          *)
(* has_frame and hands the background frame to the callback.  The model   *)
(* keeps, per source, where its tile comes from (the grid computed by      *)
(* calculate_grid_positions, or a position set by set_tile_position) and   *)
(* the visible and has_frame flags; the pixel geometry, the frame bytes    *)
(* and the YUV buffers are left out, as no method reads them back.         *)
(***************************************************************************)
EXTENDS Integers, FiniteSets, Functions, TLC

CONSTANTS
  Participants,     \* participant ids
  NoParticipant,    \* the empty ParticipantId
  Layouts,          \* LayoutType values callers pass to set_layout
  InitLayout        \* CompositorConfig::layout

VARIABLES
  vsources,         \* Impl::sources: tile origin, visible, has_frame
  layout,           \* Impl::current_layout
  vActiveSpeaker,   \* Impl::active_speaker
  outputCbSet       \* Impl::output_callback is non-empty

compositorVars == <<vsources, layout, vActiveSpeaker, outputCbSet>>

Tile == [origin: {"grid", "custom"}, visible: BOOLEAN, has_frame: BOOLEAN]

\* calculate_grid_positions, lines 58-83: every source gets a grid tile
\* and is made visible, whatever the layout.
GridPositions(vs) == [p \in DOMAIN vs |-> [vs[p] EXCEPT !.origin = "grid", !.visible = TRUE]]

\* set_output_callback, lines 105-109.
SetOutputCallback ==
  /\ outputCbSet' = TRUE
  /\ UNCHANGED <<vsources, layout, vActiveSpeaker>>

\* add_source, lines 111-123: a new source (replacing one of the same id),
\* then the grid is recomputed.
AddSource(p) ==
  /\ vsources' = GridPositions((p :> [origin |-> "grid", visible |-> TRUE,
                                      has_frame |-> FALSE]) @@ vsources)
  /\ UNCHANGED <<layout, vActiveSpeaker, outputCbSet>>

\* remove_source, lines 125-131.
RemoveSource(p) ==
  /\ vsources' = GridPositions(Restrict(vsources, DOMAIN vsources \ {p}))
  /\ UNCHANGED <<layout, vActiveSpeaker, outputCbSet>>

\* set_layout, lines 133-138.
SetLayout(l) ==
  /\ layout' = l
  /\ vsources' = GridPositions(vsources)
  /\ UNCHANGED <<vActiveSpeaker, outputCbSet>>

\* set_tile_position, lines 140-150: the whole TilePosition is replaced.
SetTilePosition(p, visible) ==
  /\ vsources' = IF p \in DOMAIN vsources
                 THEN [vsources EXCEPT ![p].origin = "custom", ![p].visible = visible]
                 ELSE vsources
  /\ UNCHANGED <<layout, vActiveSpeaker, outputCbSet>>

\* set_active_speaker, lines 152-156.
SetActiveSpeaker(p) ==
  /\ vActiveSpeaker' = p
  /\ UNCHANGED <<vsources, layout, outputCbSet>>

\* push_frame, lines 158-173.
PushFrame(p) ==
  /\ vsources' = IF p \in DOMAIN vsources THEN [vsources EXCEPT ![p].has_frame = TRUE]
                 ELSE vsources
  /\ UNCHANGED <<layout, vActiveSpeaker, outputCbSet>>

\* process, lines 175-206 (fill_background, lines 85-95, paints pixels).
Process ==
  /\ vsources' = [p \in DOMAIN vsources |-> [vsources[p] EXCEPT !.has_frame = FALSE]]
  /\ UNCHANGED <<layout, vActiveSpeaker, outputCbSet>>

\* The constructor, lines 48-56 and 98-101.
Init ==
  /\ vsources = << >>
  /\ layout = InitLayout
  /\ vActiveSpeaker = NoParticipant
  /\ outputCbSet = FALSE

=============================================================================
