----------------------------- MODULE FrameSlot -----------------------------
(***************************************************************************)
(* The shared framebuffer: the game draws in place into the only slot it    *)
(* uses (i_video_e1.c), the injected worker converts out of it              *)
(* (convert_doom_frame).  The slot's sequence is odd while it is drawn; a   *)
(* second counter, frame_sequence, names the last completed frame.  The game*)
(* never waits.                                                             *)
(*                                                                         *)
(* One step is one access to shared memory; both sides have full barriers   *)
(* around the sequence, the cells in between are read and written in any    *)
(* order.  A cell stands for the palette, the dimensions or a part of the   *)
(* pixels; its value is the number of the frame it belongs to.              *)
(***************************************************************************)
EXTENDS Integers

CONSTANTS
  CELLS,       \* what a frame is made of
  MAX_FRAMES   \* bound: frames the game completes

ASSUME FrameAssumption == MAX_FRAMES \in Nat \ {0}

VARIABLES
  sequence, frame_sequence, cell,   \* the slot and the header
  game_ready,                       \* the marker file
  gpc, todo,                        \* the game: place, cells of this frame to draw
  rpc, rframe, rslot, toread,       \* convert_doom_frame: place and its locals
  image,                            \* the buffer it converts into
  last_frame_sequence, result       \* struct media_state; what the call returned

slot == <<sequence, frame_sequence, cell>>
game == <<gpc, todo, game_ready>>
reader == <<rpc, rframe, rslot, toread, image, last_frame_sequence, result>>
frameVars == <<slot, game, reader>>

Blank == [c \in CELLS |-> 0]
Even(n) == n % 2 = 0

FrameInit ==
    /\ sequence = 0 /\ frame_sequence = 0 /\ cell = Blank /\ game_ready = FALSE
    /\ gpc = "none" /\ todo = {}
    /\ rpc = "idle" /\ rframe = 0 /\ rslot = 0 /\ toread = {} /\ image = Blank
    /\ last_frame_sequence = 0 /\ result = "none"

-----------------------------------------------------------------------------
(* The game. *)

(* I_InitGraphics: the marker is removed, the file is cleared, and the slot is
   marked before the first frame is drawn. *)
InitGraphics ==
    /\ gpc = "none"
    /\ sequence' = 1 /\ frame_sequence' = 0 /\ cell' = Blank
    /\ gpc' = "draw" /\ todo' = CELLS /\ game_ready' = FALSE
    /\ UNCHANGED reader

(* The renderer, and PublishFrame's dimensions and palette. *)
Draw(c) ==
    /\ gpc = "draw" /\ c \in todo
    /\ cell' = [cell EXCEPT ![c] = frame_sequence + 1]
    /\ todo' = todo \ {c}
    /\ UNCHANGED <<sequence, frame_sequence, gpc, game_ready, reader>>

(* PublishFrame, from the second barrier on. *)
EndFrame ==
    /\ gpc = "draw" /\ todo = {}
    /\ sequence' = sequence + 1
    /\ gpc' = "count"
    /\ UNCHANGED <<frame_sequence, cell, todo, game_ready, reader>>

CountFrame ==
    /\ gpc = "count"
    /\ frame_sequence' = frame_sequence + 1
    /\ gpc' = "signal"
    /\ UNCHANGED <<sequence, cell, todo, game_ready, reader>>

SignalGameReady ==
    /\ gpc = "signal"
    /\ game_ready' = TRUE
    /\ gpc' = "sleep"
    /\ UNCHANGED <<slot, todo, reader>>

(* The end of I_FinishUpdate; PublishFrame's own test finds the slot odd. *)
BeginFrameWrite ==
    /\ gpc = "sleep" /\ frame_sequence < MAX_FRAMES
    /\ sequence' = sequence + 1
    /\ gpc' = "draw" /\ todo' = CELLS
    /\ UNCHANGED <<frame_sequence, cell, game_ready, reader>>

(* The game exits through I_ShutdownGraphics, or is killed anywhere. *)
GameEnds ==
    /\ gpc \notin {"none", "gone"}
    /\ gpc' = "gone"
    /\ game_ready' \in {FALSE, game_ready}
    /\ UNCHANGED <<slot, todo, reader>>

-----------------------------------------------------------------------------
(* convert_doom_frame, called with a buffer that holds old; result says how it
   ended.  It writes the buffer before it knows whether the frame is stable.
   The dimensions do not change in a game and so never make it return -1. *)

Return(r) == rpc' = "idle" /\ result' = r

BeginConvert(old) ==
    /\ rpc = "idle"
    /\ rpc' = "frame" /\ image' = old /\ result' = "none"
    /\ UNCHANGED <<slot, game, rframe, rslot, toread, last_frame_sequence>>

LoadFrame ==
    /\ rpc = "frame"
    /\ \/ /\ frame_sequence \in {0, last_frame_sequence} /\ Return("retry")
          /\ UNCHANGED rframe
       \/ /\ frame_sequence \notin {0, last_frame_sequence}
          /\ rframe' = frame_sequence /\ rpc' = "slot"
          /\ UNCHANGED result
    /\ UNCHANGED <<slot, game, rslot, toread, image, last_frame_sequence>>

LoadSlot ==
    /\ rpc = "slot"
    /\ \/ /\ ~Even(sequence) /\ Return("retry")
          /\ UNCHANGED <<rslot, toread>>
       \/ /\ Even(sequence)
          /\ rslot' = sequence /\ toread' = CELLS /\ rpc' = "convert"
          /\ UNCHANGED result
    /\ UNCHANGED <<slot, game, rframe, image, last_frame_sequence>>

ConvertCell(c) ==
    /\ rpc = "convert" /\ c \in toread
    /\ image' = [image EXCEPT ![c] = cell[c]]
    /\ toread' = toread \ {c}
    /\ UNCHANGED <<slot, game, rpc, rframe, rslot, last_frame_sequence, result>>

CheckSlot ==
    /\ rpc = "convert" /\ toread = {}
    /\ \/ sequence # rslot /\ Return("retry")
       \/ sequence = rslot /\ rpc' = "check" /\ UNCHANGED result
    /\ UNCHANGED <<slot, game, rframe, rslot, toread, image, last_frame_sequence>>

CheckFrame ==
    /\ rpc = "check"
    /\ \/ /\ frame_sequence # rframe /\ Return("retry")
          /\ UNCHANGED last_frame_sequence
       \/ /\ frame_sequence = rframe /\ Return("new")
          /\ last_frame_sequence' = rframe
    /\ UNCHANGED <<slot, game, rframe, rslot, toread, image>>

(* The caller takes the picture; the call's locals are gone. *)
TakeFrame ==
    /\ rpc = "idle" /\ result # "none"
    /\ image' = Blank /\ rframe' = 0 /\ rslot' = 0 /\ result' = "none"
    /\ UNCHANGED <<slot, game, rpc, toread, last_frame_sequence>>

(* reset_video_stats with a source open: the frame now in the slot is passed over. *)
ResetSource ==
    /\ rpc = "idle"
    /\ last_frame_sequence' = frame_sequence
    /\ UNCHANGED <<slot, game, rpc, rframe, rslot, toread, image, result>>

(* close_frame_source *)
CloseSource ==
    /\ rpc = "idle"
    /\ last_frame_sequence' = 0
    /\ UNCHANGED <<slot, game, rpc, rframe, rslot, toread, image, result>>

-----------------------------------------------------------------------------
Game ==
    \/ InitGraphics \/ EndFrame \/ CountFrame \/ SignalGameReady \/ BeginFrameWrite \/ GameEnds
    \/ \E c \in CELLS : Draw(c)

Convert ==
    \/ LoadFrame \/ LoadSlot \/ CheckSlot \/ CheckFrame
    \/ \E c \in CELLS : ConvertCell(c)

FrameNext ==
    \/ Game \/ Convert \/ TakeFrame \/ ResetSource \/ CloseSource
    \/ \E old \in [CELLS -> 0 .. MAX_FRAMES] : BeginConvert(old)

FrameSpec == FrameInit /\ [][FrameNext]_frameVars

-----------------------------------------------------------------------------
FrameTypeOK ==
    /\ sequence \in Nat /\ frame_sequence \in Nat /\ frame_sequence <= MAX_FRAMES
    /\ cell \in [CELLS -> 0 .. MAX_FRAMES] /\ game_ready \in BOOLEAN
    /\ gpc \in {"none", "draw", "count", "signal", "sleep", "gone"} /\ todo \subseteq CELLS
    /\ rpc \in {"idle", "frame", "slot", "convert", "check"} /\ toread \subseteq CELLS
    /\ rframe \in Nat /\ rslot \in Nat /\ image \in [CELLS -> 0 .. MAX_FRAMES]
    /\ last_frame_sequence \in Nat /\ result \in {"none", "new", "retry"}

(* A frame convert_doom_frame accepts was whole: everything it copied is of the
   frame it names, or all of it of the next one, whose sequence was already even
   when frame_sequence still named the one before (i_video_e1.c:171-174). *)
StableFrame ==
    result = "new" => \E n \in {rframe, rframe + 1} : \A c \in CELLS : image[c] = n
=============================================================================
