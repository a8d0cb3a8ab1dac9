---------------------------- MODULE MediaProofs ----------------------------
(***************************************************************************)
(* What convert_doom_frame may accept, for any game and any timing; what    *)
(* the worker may show and what it may still hold, for any number of        *)
(* sessions, frames and failing calls; and the arithmetic of the melt.      *)
(***************************************************************************)
EXTENDS Media, TLAPS

-----------------------------------------------------------------------------
(* The frame protocol. *)

(* Where the two counters stand at each place of the game. *)
InStep ==
    /\ gpc = "none" => sequence = 0 /\ frame_sequence = 0
    /\ gpc = "draw" => sequence = 2 * frame_sequence + 1 /\ frame_sequence < MAX_FRAMES
    /\ gpc = "count" => sequence = 2 * frame_sequence + 2 /\ frame_sequence < MAX_FRAMES
    /\ gpc \in {"signal", "sleep"} => sequence = 2 * frame_sequence
    /\ gpc = "gone" => sequence \in {2 * frame_sequence, 2 * frame_sequence + 1, 2 * frame_sequence + 2}

(* An even slot holds one frame, half its sequence. *)
EvenWhole == \A k \in Nat : sequence = 2 * k => \A c \in CELLS : cell[c] = k

Drawn == gpc \in {"draw", "count"} => \A c \in CELLS \ todo : cell[c] = frame_sequence + 1
AllDrawn == gpc = "count" => todo = {}

(* What the reader knows of the slot it started on. *)
Reading(k) ==
    /\ rslot = 2 * k /\ rframe <= k /\ k <= frame_sequence + 1 /\ rslot <= sequence
    /\ rpc = "convert" => (sequence = rslot => \A c \in CELLS \ toread : image[c] = k)
    /\ rpc = "check" => \A c \in CELLS : image[c] = k

ReaderInv ==
    /\ rpc # "idle" => result = "none"
    /\ rpc = "slot" => rframe <= frame_sequence
    /\ rpc \in {"convert", "check"} => \E k \in Nat : Reading(k)

FrameInv == FrameTypeOK /\ InStep /\ EvenWhole /\ Drawn /\ AllDrawn /\ ReaderInv /\ StableFrame

-----------------------------------------------------------------------------
LEMMA EvenIsTwice == \A n \in Nat : Even(n) => \E k \in Nat : n = 2 * k
  <1> SUFFICES ASSUME NEW n \in Nat, Even(n) PROVE \E k \in Nat : n = 2 * k
    OBVIOUS
  <1>1. n % 2 = 0 BY DEF Even
  <1>2. n = 2 * (n \div 2) /\ n \div 2 \in Nat BY <1>1
  <1> QED BY <1>2

LEMMA BlankCells == Blank \in [CELLS -> 0 .. MAX_FRAMES] /\ \A c \in CELLS : Blank[c] = 0
  BY FrameAssumption DEF Blank

LEMMA FrameInitInv == FrameInit => FrameInv
  <1> SUFFICES ASSUME FrameInit PROVE FrameInv OBVIOUS
  <1> USE FrameAssumption
  <1>1. 0 \in 0 .. MAX_FRAMES /\ 0 <= MAX_FRAMES OBVIOUS
  <1>2. FrameTypeOK BY <1>1, BlankCells DEF FrameInit, FrameTypeOK
  <1>3. EvenWhole
    <2>1. \A k \in Nat : 0 = 2 * k => k = 0 OBVIOUS
    <2> QED BY <2>1, BlankCells DEF FrameInit, EvenWhole
  <1> QED BY <1>2, <1>3 DEF FrameInit, FrameInv, InStep, Drawn, AllDrawn, ReaderInv, StableFrame

(* The steps of the game leave the reader alone and only move the counters up. *)
LEMMA GameStep == FrameInv /\ Game => FrameInv'
  <1> SUFFICES ASSUME FrameInv, Game PROVE FrameInv' OBVIOUS
  <1> USE FrameAssumption
  <1>0. FrameTypeOK /\ InStep /\ EvenWhole /\ Drawn /\ AllDrawn /\ ReaderInv /\ StableFrame BY DEF FrameInv
  <1>1. CASE InitGraphics
    <2>1. FrameTypeOK'
      <3>1. cell' \in [CELLS -> 0 .. MAX_FRAMES] BY <1>1, BlankCells DEF InitGraphics
      <3>2. sequence' \in Nat /\ frame_sequence' \in Nat /\ frame_sequence' <= MAX_FRAMES
        BY <1>1 DEF InitGraphics
      <3> QED BY <1>0, <1>1, <3>1, <3>2 DEF InitGraphics, FrameTypeOK, reader
    <2>2. InStep' BY <1>0, <1>1 DEF InitGraphics, InStep
    <2>3. EvenWhole' BY <1>0, <1>1 DEF InitGraphics, EvenWhole
    <2>4. Drawn' /\ AllDrawn' BY <1>1 DEF InitGraphics, Drawn, AllDrawn
    <2>5. ReaderInv' BY <1>0, <1>1 DEF InitGraphics, ReaderInv, Reading, reader, InStep, FrameTypeOK
    <2>6. StableFrame' BY <1>0, <1>1 DEF InitGraphics, StableFrame, reader
    <2> QED BY <2>1, <2>2, <2>3, <2>4, <2>5, <2>6 DEF FrameInv
  <1>2. CASE \E c \in CELLS : Draw(c)
    <2> PICK c \in CELLS : Draw(c) BY <1>2
    <2>0. sequence = 2 * frame_sequence + 1 /\ frame_sequence \in Nat /\ frame_sequence < MAX_FRAMES
      BY <1>0 DEF Draw, InStep, FrameTypeOK
    <2>1. FrameTypeOK'
      <3>1. frame_sequence + 1 \in 0 .. MAX_FRAMES BY <2>0
      <3>2. cell' \in [CELLS -> 0 .. MAX_FRAMES] BY <1>0, <3>1 DEF Draw, FrameTypeOK
      <3> QED BY <1>0, <3>2 DEF Draw, FrameTypeOK, reader
    <2>2. InStep' BY <1>0 DEF Draw, InStep
    <2>3. EvenWhole'
      <3>1. \A k \in Nat : sequence # 2 * k BY <2>0
      <3> QED BY <3>1 DEF Draw, EvenWhole
    <2>4. Drawn' /\ AllDrawn' BY <1>0 DEF Draw, Drawn, AllDrawn, FrameTypeOK
    <2>5. ReaderInv' BY <1>0 DEF Draw, ReaderInv, Reading, reader
    <2>6. StableFrame' BY <1>0 DEF Draw, StableFrame, reader
    <2> QED BY <2>1, <2>2, <2>3, <2>4, <2>5, <2>6 DEF FrameInv
  <1>3. CASE EndFrame
    <2>0. sequence = 2 * frame_sequence + 1 /\ frame_sequence \in Nat /\ sequence \in Nat
      BY <1>0, <1>3 DEF EndFrame, InStep, FrameTypeOK
    <2>1. FrameTypeOK' BY <1>0, <1>3 DEF EndFrame, FrameTypeOK, reader
    <2>2. InStep' BY <1>0, <1>3, <2>0 DEF EndFrame, InStep
    <2>3. EvenWhole'
      <3>1. \A c \in CELLS : cell[c] = frame_sequence + 1 BY <1>0, <1>3 DEF EndFrame, Drawn
      <3>2. \A k \in Nat : sequence + 1 = 2 * k => k = frame_sequence + 1 BY <2>0
      <3> QED BY <1>3, <3>1, <3>2 DEF EndFrame, EvenWhole
    <2>4. Drawn' /\ AllDrawn' BY <1>0, <1>3 DEF EndFrame, Drawn, AllDrawn
    <2>5. ReaderInv'
      <3>1. ASSUME NEW k \in Nat, Reading(k) PROVE Reading(k)'
        <4>1. rslot # sequence + 1 /\ rslot <= sequence + 1 BY <3>1, <2>0 DEF Reading
        <4> QED BY <1>3, <3>1, <4>1 DEF EndFrame, Reading, reader
      <3> QED BY <1>0, <1>3, <3>1 DEF EndFrame, ReaderInv, reader
    <2>6. StableFrame' BY <1>0, <1>3 DEF EndFrame, StableFrame, reader
    <2> QED BY <2>1, <2>2, <2>3, <2>4, <2>5, <2>6 DEF FrameInv
  <1>4. CASE CountFrame
    <2>0. sequence = 2 * frame_sequence + 2 /\ frame_sequence \in Nat /\ frame_sequence < MAX_FRAMES
      BY <1>0, <1>4 DEF CountFrame, InStep, FrameTypeOK
    <2>1. FrameTypeOK' BY <1>0, <1>4, <2>0 DEF CountFrame, FrameTypeOK, reader
    <2>2. InStep' BY <1>0, <1>4, <2>0 DEF CountFrame, InStep
    <2>3. EvenWhole' BY <1>0, <1>4 DEF CountFrame, EvenWhole
    <2>4. Drawn' /\ AllDrawn' BY <1>4 DEF CountFrame, Drawn, AllDrawn
    <2>5. ReaderInv'
      <3>1. ASSUME NEW k \in Nat, Reading(k) PROVE Reading(k)'
        BY <1>4, <3>1, <2>0 DEF CountFrame, Reading, reader
      <3>2. rpc = "slot" => rframe' <= frame_sequence'
        BY <1>0, <1>4, <2>0 DEF CountFrame, ReaderInv, FrameTypeOK, reader
      <3> QED BY <1>0, <1>4, <3>1, <3>2 DEF CountFrame, ReaderInv, reader
    <2>6. StableFrame' BY <1>0, <1>4 DEF CountFrame, StableFrame, reader
    <2> QED BY <2>1, <2>2, <2>3, <2>4, <2>5, <2>6 DEF FrameInv
  <1>5. CASE SignalGameReady
    <2>1. FrameTypeOK' BY <1>0, <1>5 DEF SignalGameReady, FrameTypeOK, reader, slot
    <2>2. InStep' BY <1>0, <1>5 DEF SignalGameReady, InStep, slot
    <2>3. EvenWhole' BY <1>0, <1>5 DEF SignalGameReady, EvenWhole, slot
    <2>4. Drawn' /\ AllDrawn' BY <1>5 DEF SignalGameReady, Drawn, AllDrawn
    <2>5. ReaderInv' BY <1>0, <1>5 DEF SignalGameReady, ReaderInv, Reading, reader, slot
    <2>6. StableFrame' BY <1>0, <1>5 DEF SignalGameReady, StableFrame, reader
    <2> QED BY <2>1, <2>2, <2>3, <2>4, <2>5, <2>6 DEF FrameInv
  <1>6. CASE BeginFrameWrite
    <2>0. sequence = 2 * frame_sequence /\ frame_sequence \in Nat /\ frame_sequence < MAX_FRAMES
      BY <1>0, <1>6 DEF BeginFrameWrite, InStep, FrameTypeOK
    <2>1. FrameTypeOK' BY <1>0, <1>6 DEF BeginFrameWrite, FrameTypeOK, reader
    <2>2. InStep' BY <1>0, <1>6, <2>0 DEF BeginFrameWrite, InStep
    <2>3. EvenWhole'
      <3>1. \A k \in Nat : sequence + 1 # 2 * k BY <2>0
      <3> QED BY <1>6, <3>1 DEF BeginFrameWrite, EvenWhole
    <2>4. Drawn' /\ AllDrawn' BY <1>6 DEF BeginFrameWrite, Drawn, AllDrawn
    <2>5. ReaderInv'
      <3>1. ASSUME NEW k \in Nat, Reading(k) PROVE Reading(k)'
        <4>1. rslot # sequence + 1 /\ rslot <= sequence + 1 BY <3>1, <2>0 DEF Reading
        <4> QED BY <1>6, <3>1, <4>1 DEF BeginFrameWrite, Reading, reader
      <3> QED BY <1>0, <1>6, <3>1 DEF BeginFrameWrite, ReaderInv, reader
    <2>6. StableFrame' BY <1>0, <1>6 DEF BeginFrameWrite, StableFrame, reader
    <2> QED BY <2>1, <2>2, <2>3, <2>4, <2>5, <2>6 DEF FrameInv
  <1>7. CASE GameEnds
    <2>1. FrameTypeOK' BY <1>0, <1>7 DEF GameEnds, FrameTypeOK, reader, slot
    <2>2. InStep' BY <1>0, <1>7 DEF GameEnds, InStep, slot, FrameTypeOK
    <2>3. EvenWhole' BY <1>0, <1>7 DEF GameEnds, EvenWhole, slot
    <2>4. Drawn' /\ AllDrawn' BY <1>7 DEF GameEnds, Drawn, AllDrawn
    <2>5. ReaderInv' BY <1>0, <1>7 DEF GameEnds, ReaderInv, Reading, reader, slot
    <2>6. StableFrame' BY <1>0, <1>7 DEF GameEnds, StableFrame, reader
    <2> QED BY <2>1, <2>2, <2>3, <2>4, <2>5, <2>6 DEF FrameInv
  <1> QED BY <1>1, <1>2, <1>3, <1>4, <1>5, <1>6, <1>7 DEF Game

(* The reader's steps leave the slot and the game alone. *)
LEMMA SlotKept ==
    ASSUME InStep, EvenWhole, Drawn, AllDrawn, UNCHANGED <<slot, game>>
    PROVE  InStep' /\ EvenWhole' /\ Drawn' /\ AllDrawn'
  BY DEF InStep, EvenWhole, Drawn, AllDrawn, slot, game

LEMMA ReaderStep ==
    ASSUME FrameInv, Convert \/ TakeFrame \/ ResetSource \/ CloseSource
                     \/ \E old \in [CELLS -> 0 .. MAX_FRAMES] : BeginConvert(old)
    PROVE  FrameInv'
  <1> USE FrameAssumption
  <1>0. FrameTypeOK /\ InStep /\ EvenWhole /\ Drawn /\ AllDrawn /\ ReaderInv /\ StableFrame BY DEF FrameInv
  <1>k. ASSUME UNCHANGED <<slot, game>>, FrameTypeOK', ReaderInv', StableFrame' PROVE FrameInv'
    BY <1>0, <1>k, SlotKept DEF FrameInv
  <1>1. CASE LoadFrame
    <2>1. FrameTypeOK' BY <1>0, <1>1 DEF LoadFrame, Return, FrameTypeOK, slot, game
    <2>2. ReaderInv' BY <1>0, <1>1 DEF LoadFrame, Return, ReaderInv, slot, game, FrameTypeOK
    <2>3. StableFrame' BY <1>0, <1>1 DEF LoadFrame, Return, StableFrame, ReaderInv
    <2> QED BY <1>k, <1>1, <2>1, <2>2, <2>3 DEF LoadFrame
  <1>2. CASE LoadSlot
    <2>1. FrameTypeOK' BY <1>0, <1>2 DEF LoadSlot, Return, FrameTypeOK, slot, game
    <2>2. ReaderInv'
      <3>1. CASE ~Even(sequence) BY <1>0, <1>2, <3>1 DEF LoadSlot, Return, ReaderInv
      <3>2. CASE Even(sequence)
        <4>1. PICK k \in Nat : sequence = 2 * k BY <1>0, <3>2, EvenIsTwice DEF FrameTypeOK
        <4>2. k \in {frame_sequence, frame_sequence + 1}
          BY <1>0, <4>1 DEF InStep, FrameTypeOK
        <4>3. rframe <= frame_sequence /\ rframe \in Nat /\ frame_sequence \in Nat
          BY <1>0, <1>2 DEF LoadSlot, ReaderInv, FrameTypeOK
        <4>4. rpc' = "convert" /\ rslot' = sequence /\ toread' = CELLS /\ result' = result
          BY <1>2, <3>2 DEF LoadSlot
        <4>5. rframe' = rframe /\ frame_sequence' = frame_sequence /\ sequence' = sequence
          BY <1>2 DEF LoadSlot, slot
        <4>6. Reading(k)' BY <4>1, <4>2, <4>3, <4>4, <4>5 DEF Reading
        <4> QED BY <1>0, <1>2, <4>4, <4>6 DEF ReaderInv, LoadSlot
      <3> QED BY <3>1, <3>2
    <2>3. StableFrame' BY <1>0, <1>2 DEF LoadSlot, Return, StableFrame, ReaderInv
    <2> QED BY <1>k, <1>2, <2>1, <2>2, <2>3 DEF LoadSlot
  <1>3. CASE \E c \in CELLS : ConvertCell(c)
    <2> PICK c \in CELLS : ConvertCell(c) BY <1>3
    <2>1. FrameTypeOK' BY <1>0 DEF ConvertCell, FrameTypeOK, slot, game
    <2>2. ReaderInv'
      <3>1. PICK k \in Nat : Reading(k) BY <1>0 DEF ConvertCell, ReaderInv
      <3>2. sequence = rslot => cell[c] = k BY <1>0, <3>1 DEF EvenWhole, Reading
      <3>3. Reading(k)' BY <1>0, <3>1, <3>2 DEF Reading, ConvertCell, slot, FrameTypeOK
      <3> QED BY <1>0, <3>3 DEF ReaderInv, ConvertCell
    <2>3. StableFrame' BY <1>0 DEF ConvertCell, StableFrame, ReaderInv
    <2> QED BY <1>k, <2>1, <2>2, <2>3 DEF ConvertCell
  <1>4. CASE CheckSlot
    <2>1. FrameTypeOK' BY <1>0, <1>4 DEF CheckSlot, Return, FrameTypeOK, slot, game
    <2>2. ReaderInv'
      <3>1. PICK k \in Nat : Reading(k) BY <1>0, <1>4 DEF CheckSlot, ReaderInv
      <3>2. CASE sequence # rslot BY <1>0, <1>4, <3>2 DEF CheckSlot, Return, ReaderInv
      <3>3. CASE sequence = rslot
        <4>1. Reading(k)' BY <1>4, <3>1, <3>3 DEF Reading, CheckSlot, slot
        <4> QED BY <1>0, <1>4, <3>3, <4>1 DEF ReaderInv, CheckSlot
      <3> QED BY <3>2, <3>3
    <2>3. StableFrame' BY <1>0, <1>4 DEF CheckSlot, Return, StableFrame, ReaderInv
    <2> QED BY <1>k, <1>4, <2>1, <2>2, <2>3 DEF CheckSlot
  <1>5. CASE CheckFrame
    <2>1. FrameTypeOK' BY <1>0, <1>5 DEF CheckFrame, Return, FrameTypeOK, slot, game
    <2>2. ReaderInv' BY <1>5 DEF CheckFrame, Return, ReaderInv
    <2>3. StableFrame'
      <3>1. PICK k \in Nat : Reading(k) BY <1>0, <1>5 DEF CheckFrame, ReaderInv
      <3>2. CASE frame_sequence # rframe BY <1>5, <3>2 DEF CheckFrame, Return, StableFrame
      <3>3. CASE frame_sequence = rframe
        <4>1. k \in {rframe, rframe + 1} BY <1>0, <3>1, <3>3 DEF Reading, FrameTypeOK
        <4>2. \A c \in CELLS : image[c] = k BY <1>5, <3>1 DEF Reading, CheckFrame
        <4>3. image' = image /\ rframe' = rframe BY <1>5 DEF CheckFrame
        <4> QED BY <4>1, <4>2, <4>3 DEF StableFrame
      <3> QED BY <3>2, <3>3
    <2> QED BY <1>k, <1>5, <2>1, <2>2, <2>3 DEF CheckFrame
  <1>6. CASE TakeFrame
    <2>1. FrameTypeOK' BY <1>0, <1>6 DEF TakeFrame, FrameTypeOK, slot, game, Blank
    <2>2. ReaderInv' /\ StableFrame' BY <1>6 DEF TakeFrame, ReaderInv, StableFrame
    <2> QED BY <1>k, <1>6, <2>1, <2>2 DEF TakeFrame
  <1>7. CASE ResetSource \/ CloseSource
    <2>1. FrameTypeOK' BY <1>0, <1>7 DEF ResetSource, CloseSource, FrameTypeOK, slot, game
    <2>2. ReaderInv' /\ StableFrame'
      BY <1>0, <1>7 DEF ResetSource, CloseSource, ReaderInv, StableFrame
    <2> QED BY <1>k, <1>7, <2>1, <2>2 DEF ResetSource, CloseSource
  <1>8. CASE \E old \in [CELLS -> 0 .. MAX_FRAMES] : BeginConvert(old)
    <2>1. FrameTypeOK' BY <1>0, <1>8 DEF BeginConvert, FrameTypeOK, slot, game
    <2>2. ReaderInv' /\ StableFrame' BY <1>8 DEF BeginConvert, ReaderInv, StableFrame
    <2> QED BY <1>k, <1>8, <2>1, <2>2 DEF BeginConvert
  <1> QED BY <1>1, <1>2, <1>3, <1>4, <1>5, <1>6, <1>7, <1>8 DEF Convert

LEMMA FrameStutter == FrameInv /\ UNCHANGED frameVars => FrameInv'
  <1> SUFFICES ASSUME FrameInv, UNCHANGED frameVars PROVE FrameInv' OBVIOUS
  <1>1. UNCHANGED <<slot, game>> /\ UNCHANGED reader BY DEF frameVars
  <1>2. InStep' /\ EvenWhole' /\ Drawn' /\ AllDrawn' BY <1>1, SlotKept DEF FrameInv
  <1>3. FrameTypeOK' BY <1>1 DEF FrameInv, FrameTypeOK, slot, game, reader
  <1>4. ReaderInv' BY <1>1 DEF FrameInv, ReaderInv, Reading, slot, reader
  <1>5. StableFrame' BY <1>1 DEF FrameInv, StableFrame, reader
  <1> QED BY <1>2, <1>3, <1>4, <1>5 DEF FrameInv

LEMMA FrameInvariant == FrameSpec => []FrameInv
  <1>1. FrameInv /\ [FrameNext]_frameVars => FrameInv'
    BY GameStep, ReaderStep, FrameStutter DEF FrameNext
  <1> QED BY <1>1, FrameInitInv, PTL DEF FrameSpec

(* FrameTypeOK holds in every state of the frame protocol: the frames and the
   cells never pass the number the game has drawn. *)
THEOREM FrameTypes == FrameSpec => []FrameTypeOK
  <1>1. FrameInv => FrameTypeOK BY DEF FrameInv
  <1> QED BY <1>1, FrameInvariant, PTL

(* StableFrame holds in every state, whenever the game draws, completes or dies
   around a conversion: a picture convert_doom_frame returns zero for is one frame. *)
THEOREM FrameStable == FrameSpec => []StableFrame
  <1>1. FrameInv => StableFrame BY DEF FrameInv
  <1> QED BY <1>1, FrameInvariant, PTL

-----------------------------------------------------------------------------
(* The worker. *)

Places == {"pass", "source", "alloc", "stable", "await", "path", "fail", "frame", "melt", "ending", "broken", "exited"}
Starting == {"source", "alloc", "stable", "await", "path", "fail"}
Building == {"stable", "await", "path"}
Pictures == [CELLS -> 0 .. MAX_FRAMES]

Typed ==
    /\ pixels \in Pictures /\ doom_pixels \in Pictures
    /\ allocated \in BOOLEAN /\ path_open \in BOOLEAN /\ path_started \in BOOLEAN /\ stuck \in BOOLEAN
    /\ wpc \in Places

(* Memory is there before a path is opened over it. *)
Holding == PathHasMemory /\ (path_open \/ wpc \in Building => allocated)

(* An entry that is being started is in the entry mode, so that a failure finds
   it and takes it down. *)
Covered ==
    /\ wpc \in Starting => kind \in {"entry", "doom", "test", "alloc"}
    /\ wpc \in Building => kind # "alloc"
    /\ wpc \in Starting /\ kind = "entry" => control = "entry"
    /\ wpc = "melt" => control \in {"entry", "exit"}
    /\ control = "camera" /\ wpc \in {"pass", "frame"} /\ hd # "closed" => stuck \/ kind \in {"doom", "test", "ptz"}

(* The first picture of a path is whole. *)
Untorn == GameUntorn /\ (wpc = "path" => Whole(pixels))

MediaInv == Typed /\ Holding /\ Covered /\ ExitedClean /\ Untorn

(* Once a quit is accepted nothing is held, until an entry melt is asked for in the
   same pass. *)
QuitInv ==
    /\ quit \in {"no", "yes", "late"}
    /\ quit = "yes" =>
         /\ wpc \in {"pass", "exited"} /\ hd = "closed" /\ ~allocated /\ ~path_open /\ ~path_started
         /\ buffers = {} /\ ~source /\ ~media_active /\ media_restored
    /\ wpc = "exited" => quit # "no"

-----------------------------------------------------------------------------
(* The worker and FrameSlot. *)

LEMMA FrameInvStep == FrameInv /\ [FrameNext]_frameVars => FrameInv'
  BY GameStep, ReaderStep, FrameStutter DEF FrameNext

LEMMA MediaFrame == Typed /\ [Next]_vars => [FrameNext]_frameVars
  <1> SUFFICES ASSUME Typed, [Next]_vars PROVE [FrameNext]_frameVars OBVIOUS
  <1>1. ASSUME NEW mode, NEW restored, CleanUp(mode, restored) PROVE CloseSource BY <1>1 DEF CleanUp, Cleanup
  <1>2. StartFailed \/ Stop \/ BeginExitFails \/ AnimationFails \/ UpdateFailed => CloseSource
    BY <1>1 DEF StartFailed, Stop, BeginExitFails, AnimationFails, UpdateFailed
  <1>3. Quit \/ EndExit \/ Leave => CloseSource BY DEF Quit, EndExit, Leave, Cleanup
  <1>4. EntryRequested \/ (\E k \in {"doom", "test", "alloc"} : StartCommand(k)) => UNCHANGED frameVars
    BY DEF EntryRequested, StartCommand, Start
  <1>5. OpenSource => CloseSource \/ UNCHANGED frameVars BY DEF OpenSource
  <1>6. (\E at \in {"open", "set", "start", "prime", "none"} : StartPath(at)) => UNCHANGED frameVars
    BY DEF StartPath
  <1>7. Allocate \/ AllocateFails \/ BeginExitMelt \/ PtzCamera \/ MeltWaits => UNCHANGED frameVars
    BY DEF Allocate, AllocateFails, BeginExitMelt, PtzCamera, MeltWaits
  <1>8. TryFrame \/ Present => UNCHANGED frameVars \/ \E old \in Pictures : BeginConvert(old)
    BY DEF TryFrame, Present, Typed
  <1>9. GotFrame \/ PresentFrame => TakeFrame BY DEF GotFrame, PresentFrame
  <1>10. ASSUME NEW t \in TICKS, MeltMoves(t) \/ MeltFails(t) \/ ExitDone(t) PROVE UNCHANGED frameVars
    BY <1>10 DEF MeltMoves, MeltFails, ExitDone
  <1>11. ASSUME NEW t \in TICKS, EntryDone(t) PROVE ResetSource BY <1>11 DEF EntryDone
  <1>12. ResetStats => ResetSource BY DEF ResetStats
  <1>13. Exited \/ UNCHANGED vars => UNCHANGED frameVars BY DEF Exited, vars
  <1>14. Asked => [FrameNext]_frameVars BY <1>2, <1>3, <1>4, <1>7, <1>12 DEF Asked, FrameNext
  <1>15. Step => [FrameNext]_frameVars
    BY <1>2, <1>3, <1>5, <1>6, <1>7, <1>8, <1>9, <1>10, <1>11 DEF Step, FrameNext, Pictures
  <1> QED BY <1>13, <1>14, <1>15 DEF Next, FrameNext

-----------------------------------------------------------------------------
(* cleanup_media, whatever of it fails. *)

LEMMA WholeBlank == Blank \in Pictures /\ Whole(Blank)
  <1>1. 0 \in 0 .. MAX_FRAMES BY FrameAssumption
  <1> QED BY <1>1, BlankCells DEF Whole, Pictures

LEMMA Cleaned ==
    ASSUME NEW stop \in BOOLEAN, NEW close \in BOOLEAN, NEW free \in BOOLEAN, NEW restored,
           Typed, Holding, GameUntorn, Cleanup(stop, close, free, restored)
    PROVE  /\ (wpc' \in Places => Typed') /\ PathHasMemory' /\ (path_open' => allocated') /\ GameUntorn'
           /\ Complete(stop, close, free) =>
                hd' = "closed" /\ ~allocated' /\ buffers' = {} /\ ~source' /\ ~media_active' /\ media_restored'
           /\ hd' # "closed" => stuck'
  <1>1. allocated' \in BOOLEAN /\ path_open' \in BOOLEAN /\ path_started' \in BOOLEAN /\ stuck' \in BOOLEAN
    BY DEF Cleanup, Typed, StillOpen, StillStarted, Freed, Complete
  <1>2. pixels' \in Pictures /\ doom_pixels' \in Pictures
    BY WholeBlank DEF Cleanup, Typed, pictures
  <1>3. PathHasMemory' /\ (path_open' => allocated') /\ (hd' # "closed" => path_open /\ ~close)
    <2>1. CASE path_open /\ close
      BY <2>1 DEF Cleanup, PathHasMemory, StillOpen
    <2>2. CASE path_open /\ ~close
      <3>1. path_open' /\ allocated' BY <2>2 DEF Cleanup, StillOpen, Freed, Typed, Holding
      <3> QED BY <2>2, <3>1 DEF PathHasMemory
    <2>3. CASE ~path_open
      <3>1. hd = "closed" BY <2>3 DEF Holding, PathHasMemory
      <3>2. hd' = hd /\ ~path_open' BY <2>3 DEF Cleanup, StillOpen
      <3> QED BY <3>1, <3>2 DEF PathHasMemory
    <2> QED BY <2>1, <2>2, <2>3 DEF Typed
  <1>4. GameUntorn'
    <2>1. CASE hd' = "closed" BY <2>1, WholeBlank DEF Cleanup, GameUntorn
    <2>2. CASE hd' # "closed" BY <2>2 DEF Cleanup, GameUntorn, screen, Whole
    <2> QED BY <2>1, <2>2
  <1>5. Complete(stop, close, free) =>
          hd' = "closed" /\ ~allocated' /\ buffers' = {} /\ ~source' /\ ~media_active' /\ media_restored'
    BY <1>3 DEF Cleanup, Complete
  <1>6. hd' # "closed" => stuck' BY <1>3 DEF Cleanup, Complete
  <1> QED BY <1>1, <1>2, <1>3, <1>4, <1>5, <1>6 DEF Typed

LEMMA CleanUpKeeps ==
    ASSUME NEW mode \in {"camera", control}, NEW restored, MediaInv, CleanUp(mode, restored)
    PROVE  MediaInv'
  <1> PICK stop \in BOOLEAN, close \in BOOLEAN, free \in BOOLEAN :
        /\ Cleanup(stop, close, free, restored)
        /\ wpc' = "pass" /\ control' = mode
        /\ kind' = IF Complete(stop, close, free) THEN "none" ELSE kind
    BY DEF CleanUp
  <1>1. Typed /\ Holding /\ GameUntorn BY DEF MediaInv, Untorn
  <1>2. Typed' /\ PathHasMemory' /\ (path_open' => allocated') /\ GameUntorn' /\ (hd' # "closed" => stuck') BY <1>1, Cleaned DEF Places
  <1>3. Holding' BY <1>2 DEF Holding, Building
  <1>4. Covered' BY <1>2 DEF Covered, Starting, Building
  <1>5. Untorn' BY <1>2 DEF Untorn
  <1>6. ExitedClean' BY DEF ExitedClean
  <1> QED BY <1>2, <1>3, <1>4, <1>5, <1>6 DEF MediaInv

-----------------------------------------------------------------------------
(* The steps that do not clean up. *)

LEMMA StartKeeps ==
    ASSUME MediaInv, EntryRequested \/ \E k \in {"doom", "test", "alloc"} : StartCommand(k)
    PROVE  MediaInv'
  <1>1. PICK k \in {"entry", "doom", "test", "alloc"} : Start(k) /\ (k = "entry" => control' = "entry")
    BY DEF EntryRequested, StartCommand
  <1>2. UNCHANGED <<held, pictures, screen>> /\ kind' = k /\ wpc' \in {"source", "alloc"} BY <1>1 DEF Start
  <1>3. Typed' BY <1>2 DEF MediaInv, Typed, held, pictures, Places
  <1>4. Holding' BY <1>2 DEF MediaInv, Holding, PathHasMemory, held, Building
  <1>5. Covered' BY <1>1, <1>2 DEF Covered, Starting, Building
  <1>6. Untorn' BY <1>2 DEF MediaInv, Untorn, GameUntorn, Whole, screen
  <1>7. ExitedClean' BY <1>2 DEF ExitedClean
  <1> QED BY <1>3, <1>4, <1>5, <1>6, <1>7 DEF MediaInv

LEMMA OpenSourceKeeps == ASSUME MediaInv, OpenSource PROVE MediaInv'
  <1>1. UNCHANGED <<held, pictures, screen, kind, control>> /\ wpc' \in {"alloc", "fail"} /\ wpc = "source"
    BY DEF OpenSource
  <1>2. Typed' BY <1>1 DEF MediaInv, Typed, held, pictures, Places
  <1>3. Holding' BY <1>1 DEF MediaInv, Holding, PathHasMemory, held, Building
  <1>4. Covered' BY <1>1 DEF MediaInv, Covered, Starting, Building
  <1>5. Untorn' BY <1>1 DEF MediaInv, Untorn, GameUntorn, Whole, screen
  <1>6. ExitedClean' BY <1>1 DEF ExitedClean
  <1> QED BY <1>2, <1>3, <1>4, <1>5, <1>6 DEF MediaInv

LEMMA AllocateKeeps == ASSUME MediaInv, Allocate \/ AllocateFails PROVE MediaInv'
  <1>1. UNCHANGED <<path_open, hd, stuck, screen, kind, control>> /\ wpc = "alloc"
    BY DEF Allocate, AllocateFails
  <1>2. CASE Allocate
    <2>1. /\ allocated' = TRUE /\ path_started' = path_started /\ ~path_open /\ hd = "closed"
          /\ wpc' = CASE kind = "alloc" -> "pass"
                      [] kind # "alloc" /\ doom_frames -> "stable"
                      [] OTHER -> "path"
      BY <1>2 DEF Allocate, MediaInv, Holding, PathHasMemory
    <2>2. wpc' \in {"pass", "stable", "path"} /\ (wpc' # "pass" => kind # "alloc")
      <3>1. CASE kind = "alloc" BY <2>1, <3>1
      <3>2. CASE kind # "alloc" /\ doom_frames BY <2>1, <3>2
      <3>3. CASE kind # "alloc" /\ ~doom_frames BY <2>1, <3>3
      <3> QED BY <3>1, <3>2, <3>3
    <2>3. pixels' \in {pixels, Blank} /\ doom_pixels' \in {doom_pixels, Blank} /\ (kind # "alloc" => pixels' = Blank)
      BY <1>2 DEF Allocate
    <2>4. Typed' BY <1>1, <2>1, <2>2, <2>3, WholeBlank DEF MediaInv, Typed, Places
    <2>5. Holding' BY <1>1, <2>1 DEF Holding, PathHasMemory
    <2>6. Covered' BY <1>1, <2>1, <2>2 DEF MediaInv, Covered, Starting, Building
    <2>7. Untorn'
      <3>1. GameUntorn' BY <1>1 DEF MediaInv, Untorn, GameUntorn, Whole, screen
      <3>2. wpc' = "path" => pixels' = Blank BY <2>2, <2>3
      <3>3. wpc' = "path" => Whole(pixels') BY <3>2, WholeBlank
      <3> QED BY <3>1, <3>3 DEF Untorn, Whole
    <2>8. ExitedClean' BY <2>2 DEF ExitedClean
    <2> QED BY <2>4, <2>5, <2>6, <2>7, <2>8 DEF MediaInv
  <1>3. CASE AllocateFails
    <2>1. /\ allocated' \in BOOLEAN /\ path_started' = path_started /\ wpc' = "fail"
          /\ path_open => allocated' = allocated
      BY <1>3 DEF AllocateFails, MediaInv, Typed
    <2>2. pictures' = pictures BY <1>3 DEF AllocateFails
    <2>4. Typed' BY <1>1, <2>1, <2>2 DEF MediaInv, Typed, Places, pictures
    <2>5. Holding' BY <1>1, <2>1 DEF MediaInv, Holding, PathHasMemory, Building, Typed
    <2>6. Covered' BY <1>1, <2>1 DEF MediaInv, Covered, Starting, Building
    <2>7. Untorn' BY <1>1, <2>1 DEF MediaInv, Untorn, GameUntorn, Whole, screen
    <2>8. ExitedClean' BY <2>1 DEF ExitedClean
    <2> QED BY <2>4, <2>5, <2>6, <2>7, <2>8 DEF MediaInv
  <1> QED BY <1>2, <1>3

(* A picture that was accepted is whole, and a picture. *)
LEMMA Accepted == ASSUME FrameInv, result = "new" PROVE Whole(image)
  <1>1. PICK n \in {rframe, rframe + 1} : \A c \in CELLS : image[c] = n BY DEF FrameInv, StableFrame
  <1>2. image \in [CELLS -> 0 .. MAX_FRAMES] BY DEF FrameInv, FrameTypeOK
  <1>3. CASE CELLS = {} BY <1>3, FrameAssumption DEF Whole
  <1>4. CASE CELLS # {}
    <2>1. n \in 0 .. MAX_FRAMES BY <1>1, <1>2, <1>4
    <2> QED BY <1>1, <2>1 DEF Whole
  <1> QED BY <1>3, <1>4

LEMMA TryFrameKeeps == ASSUME MediaInv, TryFrame PROVE MediaInv'
  <1>1. UNCHANGED <<held, pictures, screen, kind, control>> /\ wpc = "stable" /\ wpc' = "await" BY DEF TryFrame
  <1>2. Typed' BY <1>1 DEF MediaInv, Typed, held, pictures, Places
  <1>3. Holding' BY <1>1 DEF MediaInv, Holding, PathHasMemory, held, Building
  <1>4. Covered' BY <1>1 DEF MediaInv, Covered, Starting, Building
  <1>5. Untorn' BY <1>1 DEF MediaInv, Untorn, GameUntorn, Whole, screen
  <1>6. ExitedClean' BY <1>1 DEF ExitedClean
  <1> QED BY <1>2, <1>3, <1>4, <1>5, <1>6 DEF MediaInv

LEMMA GotFrameKeeps == ASSUME FrameInv, MediaInv, GotFrame PROVE MediaInv'
  <1>1. /\ UNCHANGED <<held, screen, kind, control>> /\ wpc = "await" /\ wpc' \in {"path", "stable", "fail"}
        /\ doom_pixels' = image /\ (wpc' = "path" => result = "new" /\ pixels' \in {Blank, image})
        /\ (wpc' # "path" => pixels' = pixels)
    BY DEF GotFrame
  <1>2. image \in Pictures BY DEF FrameInv, FrameTypeOK, Pictures
  <1>3. Typed' BY <1>1, <1>2, WholeBlank DEF MediaInv, Typed, held, Places
  <1>4. Holding' BY <1>1 DEF MediaInv, Holding, PathHasMemory, held, Building
  <1>5. Covered' BY <1>1 DEF MediaInv, Covered, Starting, Building
  <1>6. Untorn'
    <2>1. GameUntorn' BY <1>1 DEF MediaInv, Untorn, GameUntorn, Whole, screen
    <2>2. wpc' = "path" => Whole(pixels') BY <1>1, Accepted, WholeBlank
    <2> QED BY <2>1, <2>2 DEF Untorn, Whole
  <1>7. ExitedClean' BY <1>1 DEF ExitedClean
  <1> QED BY <1>3, <1>4, <1>5, <1>6, <1>7 DEF MediaInv

LEMMA StartPathKeeps ==
    ASSUME MediaInv, NEW at \in {"open", "set", "start", "prime", "none"}, StartPath(at) PROVE MediaInv'
  <1>1. /\ UNCHANGED <<allocated, stuck, pictures, kind, control>> /\ wpc = "path"
        /\ path_open' = (at # "open") /\ path_started' = (at \in {"prime", "none"})
        /\ (at = "open" => hd' = "closed")
    BY DEF StartPath
  <1>2. wpc' \in {"pass", "fail"} /\ (wpc' = "pass" => at = "none") BY DEF StartPath
  <1>3. UNCHANGED screen \/ (shown' = pixels /\ shown_in' = control) BY DEF StartPath
  <1>4. Typed' BY <1>1, <1>2 DEF MediaInv, Typed, pictures, Places
  <1>5. Holding' BY <1>1, <1>2 DEF MediaInv, Holding, PathHasMemory, Building
  <1>6. Covered' BY <1>1, <1>2 DEF MediaInv, Covered, Starting, Building
  <1>7. Untorn' BY <1>1, <1>2, <1>3 DEF MediaInv, Untorn, GameUntorn, Whole, screen
  <1>8. ExitedClean' BY <1>2 DEF ExitedClean
  <1> QED BY <1>4, <1>5, <1>6, <1>7, <1>8 DEF MediaInv

LEMMA PassKeeps == ASSUME MediaInv, PtzCamera \/ BeginExitMelt \/ ResetStats PROVE MediaInv'
  <1>1. UNCHANGED <<held, screen, wpc>> /\ wpc = "pass" BY DEF PtzCamera, BeginExitMelt, ResetStats, mediaVars, worker
  <1>2. Typed'
    <2>1. pixels' = pixels /\ doom_pixels' \in {pixels, doom_pixels}
      BY DEF PtzCamera, BeginExitMelt, ResetStats, mediaVars, pictures
    <2> QED BY <1>1, <2>1 DEF MediaInv, Typed, held
  <1>3. Holding' BY <1>1 DEF MediaInv, Holding, PathHasMemory, held, Building
  <1>4. Covered'
    <2>1. control' = "camera" => kind' = "ptz" \/ UNCHANGED <<kind, control>>
      BY DEF PtzCamera, BeginExitMelt, ResetStats, mediaVars, worker
    <2> QED BY <1>1, <2>1 DEF MediaInv, Covered, Starting, Building, held
  <1>5. Untorn' BY <1>1 DEF MediaInv, Untorn, GameUntorn, Whole, screen
  <1>6. ExitedClean' BY <1>1 DEF ExitedClean
  <1> QED BY <1>2, <1>3, <1>4, <1>5, <1>6 DEF MediaInv

LEMMA PresentKeeps == ASSUME MediaInv, Present \/ MeltWaits PROVE MediaInv'
  <1>1. UNCHANGED <<held, pictures, screen, kind, control>> BY DEF Present, MeltWaits
  <1>2. \/ wpc = "pass" /\ wpc' = "melt" /\ control = "exit"
        \/ wpc = "pass" /\ wpc' = "frame"
        \/ wpc = "melt" /\ wpc' = "pass"
    BY DEF Present, MeltWaits
  <1>3. Typed' BY <1>1, <1>2 DEF MediaInv, Typed, held, pictures, Places
  <1>4. Holding' BY <1>1, <1>2 DEF MediaInv, Holding, PathHasMemory, held, Building
  <1>5. Covered' BY <1>1, <1>2 DEF MediaInv, Covered, Starting, Building, held
  <1>6. Untorn' BY <1>1, <1>2 DEF MediaInv, Untorn, GameUntorn, Whole, screen
  <1>7. ExitedClean' BY <1>2 DEF ExitedClean
  <1> QED BY <1>3, <1>4, <1>5, <1>6, <1>7 DEF MediaInv

LEMMA PresentFrameKeeps == ASSUME FrameInv, MediaInv, PresentFrame PROVE MediaInv'
  <1>1. UNCHANGED <<held, kind, control>> /\ wpc = "frame" BY DEF PresentFrame
  <1>2. \/ control = "entry" /\ wpc' = "melt" /\ UNCHANGED screen
        \/ wpc' \in {"pass", "broken"} /\ UNCHANGED screen
        \/ wpc' = "pass" /\ result = "new" /\ shown' = image
    BY DEF PresentFrame, Publish
  <1>3. Typed'
    <2>1. image \in Pictures BY DEF FrameInv, FrameTypeOK, Pictures
    <2>2. pixels' \in {pixels, image} /\ doom_pixels' \in {doom_pixels, image} BY DEF PresentFrame
    <2> QED BY <1>1, <1>2, <2>1, <2>2 DEF MediaInv, Typed, held, Places
  <1>4. Holding' BY <1>1, <1>2 DEF MediaInv, Holding, PathHasMemory, held, Building
  <1>5. Covered' BY <1>1, <1>2 DEF MediaInv, Covered, Starting, Building, held
  <1>6. Untorn'
    <2>1. GameUntorn'
      <3>1. CASE UNCHANGED screen BY <3>1 DEF MediaInv, Untorn, GameUntorn, Whole, screen
      <3>2. CASE result = "new" /\ shown' = image BY <3>2, Accepted DEF GameUntorn, Whole
      <3> QED BY <1>2, <3>1, <3>2
    <2> QED BY <1>2, <2>1 DEF Untorn
  <1>7. ExitedClean' BY <1>2 DEF ExitedClean
  <1> QED BY <1>3, <1>4, <1>5, <1>6, <1>7 DEF MediaInv

LEMMA MeltKeeps ==
    ASSUME MediaInv, NEW t, MeltMoves(t) \/ MeltFails(t) \/ EntryDone(t) \/ ExitDone(t) PROVE MediaInv'
  <1>1. UNCHANGED held /\ kind' = kind /\ wpc = "melt" /\ doom_pixels' = doom_pixels
    BY DEF MeltMoves, MeltFails, EntryDone, ExitDone
  <1>2. /\ wpc' \in {"pass", "broken", "ending"} /\ pixels' \in {doom_pixels, Blank}
        /\ control' \in {control, "doom"}
        /\ UNCHANGED screen \/ shown_in' = control
    BY DEF MeltMoves, MeltFails, EntryDone, ExitDone, Publish
  <1>3. control \in {"entry", "exit"} BY <1>1 DEF MediaInv, Covered
  <1>4. Typed' BY <1>1, <1>2, WholeBlank DEF MediaInv, Typed, held, Places
  <1>5. Holding' BY <1>1, <1>2 DEF MediaInv, Holding, PathHasMemory, held, Building
  <1>6. Covered' BY <1>1, <1>2, <1>3 DEF MediaInv, Covered, Starting, Building
  <1>7. Untorn' BY <1>2, <1>3 DEF MediaInv, Untorn, GameUntorn, Whole, screen
  <1>8. ExitedClean' BY <1>2 DEF ExitedClean
  <1> QED BY <1>4, <1>5, <1>6, <1>7, <1>8 DEF MediaInv

LEMMA EndKeeps == ASSUME MediaInv, Quit \/ EndExit PROVE MediaInv'
  <1>1. PICK stop \in BOOLEAN, close \in BOOLEAN, free \in BOOLEAN, restored \in {FALSE, media_restored} :
        /\ Cleanup(stop, close, free, restored)
        /\ wpc' \in {"pass", "broken"}
    BY DEF Quit, EndExit
  <1>2. Typed /\ Holding /\ GameUntorn BY DEF MediaInv, Untorn
  <1>3. /\ Typed' /\ PathHasMemory' /\ (path_open' => allocated') /\ GameUntorn' /\ (hd' # "closed" => stuck')
        /\ Complete(stop, close, free) =>
             hd' = "closed" /\ ~allocated' /\ buffers' = {} /\ ~source' /\ ~media_active' /\ media_restored'
    BY <1>1, <1>2, Cleaned DEF Places
  <1>4. Holding' BY <1>1, <1>3 DEF Holding, Building
  <1>5. Covered' BY <1>1, <1>3 DEF Covered, Starting, Building
  <1>6. Untorn' BY <1>1, <1>3 DEF Untorn
  <1>7. ExitedClean' BY <1>1 DEF ExitedClean
  <1> QED BY <1>3, <1>4, <1>5, <1>6, <1>7 DEF MediaInv

(* The cleanup after the loop finds nothing to do, unless an entry came late. *)
LEMMA LeaveKeeps == ASSUME MediaInv, QuitInv, Leave PROVE MediaInv' /\ QuitInv'
  <1>1. PICK stop \in BOOLEAN, close \in BOOLEAN, free \in BOOLEAN : Cleanup(stop, close, free, media_restored)
    BY DEF Leave
  <1>0. wpc' = "exited" /\ quit' = quit /\ quit # "no" BY DEF Leave, course
  <1>2. Typed /\ Holding /\ GameUntorn BY DEF MediaInv, Untorn
  <1>3. /\ Typed' /\ PathHasMemory' /\ (path_open' => allocated') /\ GameUntorn' /\ (hd' # "closed" => stuck')
        /\ Complete(stop, close, free) =>
             hd' = "closed" /\ ~allocated' /\ buffers' = {} /\ ~source' /\ ~media_active' /\ media_restored'
    BY <1>0, <1>1, <1>2, Cleaned DEF Places
  <1>4. Holding' BY <1>0, <1>3 DEF Holding, Building
  <1>5. Covered' BY <1>0, <1>3 DEF Covered, Starting, Building
  <1>6. Untorn' BY <1>0, <1>3 DEF Untorn
  <1>7. quit = "yes" => Complete(stop, close, free) /\ ~path_open' /\ ~path_started'
    BY <1>1 DEF QuitInv, Cleanup, Complete, StillOpen, StillStarted
  <1>8. QuitInv' BY <1>0, <1>3, <1>7 DEF QuitInv
  <1>9. ExitedClean' BY <1>0, <1>3, <1>7 DEF ExitedClean, QuitInv
  <1> QED BY <1>3, <1>4, <1>5, <1>6, <1>8, <1>9 DEF MediaInv

(* A quit is accepted only after a complete cleanup. *)
LEMMA QuitKeeps == ASSUME MediaInv, Quit PROVE QuitInv'
  <1>1. PICK stop \in BOOLEAN, close \in BOOLEAN, free \in BOOLEAN :
        /\ Cleanup(stop, close, free, FALSE)
        /\ quit' \in {"no", "yes"} /\ (quit' = "yes" => Complete(stop, close, free))
    BY DEF Quit
  <1>2. wpc' = "pass" BY DEF Quit
  <1>3. Typed /\ Holding /\ GameUntorn BY DEF MediaInv, Untorn
  <1>4. Complete(stop, close, free) =>
             hd' = "closed" /\ ~allocated' /\ buffers' = {} /\ ~source' /\ ~media_active' /\ media_restored'
    BY <1>1, <1>3, Cleaned
  <1>5. Complete(stop, close, free) => ~path_open' /\ ~path_started'
    BY <1>1 DEF Cleanup, Complete, StillOpen, StillStarted
  <1> QED BY <1>1, <1>2, <1>4, <1>5 DEF QuitInv

LEMMA QuitStep == ASSUME MediaInv, QuitInv, [Next]_vars PROVE QuitInv'
  <1>1. CASE Quit BY <1>1, QuitKeeps
  <1>2. CASE Leave BY <1>2, LeaveKeeps
  <1>3. CASE EntryRequested BY <1>3 DEF EntryRequested, Start, QuitInv
  <1>4. CASE BeginExitFails
    <2>1. PICK stop \in BOOLEAN, close \in BOOLEAN, free \in BOOLEAN :
          Cleanup(stop, close, free, media_restored) /\ wpc' = "pass" /\ quit' = quit
      BY <1>4 DEF BeginExitFails, CleanUp, course
    <2>2. Typed /\ Holding /\ GameUntorn BY DEF MediaInv, Untorn
    <2>3. Complete(stop, close, free) =>
               hd' = "closed" /\ ~allocated' /\ buffers' = {} /\ ~source' /\ ~media_active' /\ media_restored'
      BY <2>1, <2>2, Cleaned
    <2>4. quit = "yes" => Complete(stop, close, free) /\ ~path_open' /\ ~path_started'
      BY <2>1 DEF QuitInv, Cleanup, Complete, StillOpen, StillStarted
    <2> QED BY <2>1, <2>3, <2>4 DEF QuitInv
  <1>5. CASE UNCHANGED mediaVars
    BY <1>5 DEF QuitInv, mediaVars, course, worker, held, session, markers
  <1>6. ASSUME quit' = quit, wpc' # "exited", quit # "yes" PROVE QuitInv'
    BY <1>6 DEF QuitInv
  <1>7. CASE Stop \/ PtzCamera \/ (\E k \in {"doom", "test", "alloc"} : StartCommand(k))
    <2>1. quit' = quit /\ wpc' # "exited" /\ quit # "yes"
      BY <1>7 DEF Stop, PtzCamera, StartCommand, Start, CleanUp, course
    <2> QED BY <1>6, <2>1
  <1>8. CASE BeginExitMelt \/ Present \/ AnimationFails
    <2>1. quit' = quit /\ wpc' # "exited" /\ path_started
      BY <1>8 DEF BeginExitMelt, Present, AnimationFails, CleanUp, course
    <2>2. quit # "yes" BY <2>1 DEF QuitInv
    <2> QED BY <1>6, <2>1, <2>2
  <1>9. CASE ResetStats BY <1>5, <1>9 DEF ResetStats
  <1>10. CASE OpenSource \/ Allocate \/ AllocateFails \/ TryFrame \/ GotFrame \/ StartFailed
    <2>1. quit' = quit /\ wpc' # "exited" /\ wpc \notin {"pass", "exited"}
      BY <1>10 DEF OpenSource, Allocate, AllocateFails, TryFrame, GotFrame, StartFailed, CleanUp, course
    <2>2. quit # "yes" BY <2>1 DEF QuitInv
    <2> QED BY <1>6, <2>1, <2>2
  <1>11. CASE \E at \in {"open", "set", "start", "prime", "none"} : StartPath(at)
    <2>1. quit' = quit /\ wpc' # "exited" /\ wpc \notin {"pass", "exited"} BY <1>11 DEF StartPath, course
    <2>2. quit # "yes" BY <2>1 DEF QuitInv
    <2> QED BY <1>6, <2>1, <2>2
  <1>12. CASE PresentFrame \/ MeltWaits \/ EndExit \/ UpdateFailed
    <2>1. quit' = quit /\ wpc' # "exited" /\ wpc \notin {"pass", "exited"}
      BY <1>12 DEF PresentFrame, MeltWaits, EndExit, UpdateFailed, CleanUp, course
    <2>2. quit # "yes" BY <2>1 DEF QuitInv
    <2> QED BY <1>6, <2>1, <2>2
  <1>13. CASE \E t \in TICKS : MeltMoves(t) \/ MeltFails(t) \/ EntryDone(t) \/ ExitDone(t)
    <2>1. quit' = quit /\ wpc' # "exited" /\ wpc \notin {"pass", "exited"}
      BY <1>13 DEF MeltMoves, MeltFails, EntryDone, ExitDone, course
    <2>2. quit # "yes" BY <2>1 DEF QuitInv
    <2> QED BY <1>6, <2>1, <2>2
  <1>14. CASE Exited \/ UNCHANGED vars BY <1>5, <1>14 DEF Exited, vars
  <1> QED BY <1>1, <1>2, <1>3, <1>4, <1>5, <1>7, <1>8, <1>9, <1>10, <1>11, <1>12, <1>13, <1>14 DEF Next, Step, Asked

LEMMA MediaStutter == ASSUME MediaInv, UNCHANGED mediaVars PROVE MediaInv'
  <1> USE DEF MediaInv, mediaVars, held, session, pictures, screen, markers, worker, course
  <1>1. Typed' BY DEF Typed
  <1>2. Holding' BY DEF Holding, PathHasMemory
  <1>3. Covered' BY DEF Covered
  <1>4. Untorn' BY DEF Untorn, GameUntorn, Whole
  <1>5. ExitedClean' BY DEF ExitedClean
  <1> QED BY <1>1, <1>2, <1>3, <1>4, <1>5

-----------------------------------------------------------------------------
LEMMA MediaInitInv == Init => FrameInv /\ MediaInv /\ QuitInv
  <1> SUFFICES ASSUME Init PROVE FrameInv /\ MediaInv /\ QuitInv OBVIOUS
  <1>1. FrameInv BY FrameInitInv DEF Init
  <1>2. Typed BY WholeBlank DEF Init, Typed, Places
  <1>3. Holding /\ Covered /\ ExitedClean
    BY DEF Init, Holding, PathHasMemory, Covered, ExitedClean, Starting, Building
  <1>4. Untorn BY WholeBlank DEF Init, Untorn, GameUntorn
  <1>5. QuitInv BY DEF Init, QuitInv
  <1> QED BY <1>1, <1>2, <1>3, <1>4, <1>5 DEF MediaInv

LEMMA MediaNextInv == FrameInv /\ MediaInv /\ QuitInv /\ [Next]_vars => (FrameInv /\ MediaInv /\ QuitInv)'
  <1> SUFFICES ASSUME FrameInv, MediaInv, QuitInv, [Next]_vars PROVE FrameInv' /\ MediaInv' /\ QuitInv' OBVIOUS
  <1>1. FrameInv' /\ QuitInv' BY MediaFrame, FrameInvStep, QuitStep DEF MediaInv
  <1> SUFFICES MediaInv' BY <1>1
  <1>2. CASE StartFailed \/ Stop \/ BeginExitFails \/ AnimationFails \/ UpdateFailed
    BY <1>2, CleanUpKeeps DEF StartFailed, Stop, BeginExitFails, AnimationFails, UpdateFailed
  <1>3. CASE Asked
    BY <1>2, <1>3, StartKeeps, PassKeeps, EndKeeps DEF Asked
  <1>4. CASE Step
    <2>1. CASE Convert /\ UNCHANGED mediaVars BY <2>1, MediaStutter
    <2>2. CASE \E t \in TICKS : MeltMoves(t) \/ MeltFails(t) \/ EntryDone(t) \/ ExitDone(t)
      BY <2>2, MeltKeeps
    <2>3. CASE \E at \in {"open", "set", "start", "prime", "none"} : StartPath(at) BY <2>3, StartPathKeeps
    <2> QED BY <1>2, <1>4, <2>1, <2>2, <2>3, OpenSourceKeeps, AllocateKeeps, TryFrameKeeps, GotFrameKeeps,
               PresentKeeps, PresentFrameKeeps, EndKeeps, LeaveKeeps DEF Step
  <1>5. CASE (Game /\ UNCHANGED mediaVars) \/ Exited \/ UNCHANGED vars
    BY <1>5, MediaStutter DEF Exited, vars
  <1> QED BY <1>3, <1>4, <1>5 DEF Next

LEMMA MediaInvariant == Spec => [](FrameInv /\ MediaInv /\ QuitInv)
  BY MediaInitInv, MediaNextInv, PTL DEF Spec

(* GameUntorn holds in every state: what the worker publishes in the game is one
   frame (the presentation loop of worker over convert_doom_frame). *)
THEOREM MediaUntorn == Spec => []GameUntorn
  <1>1. MediaInv => GameUntorn BY DEF MediaInv, Untorn
  <1> QED BY <1>1, MediaInvariant, PTL

(* PathHasMemory holds in every state: cleanup_media never gives the memory back
   under a path, whatever calls failed before. *)
THEOREM MediaPathHasMemory == Spec => []PathHasMemory
  <1>1. MediaInv => PathHasMemory BY DEF MediaInv, Holding
  <1> QED BY <1>1, MediaInvariant, PTL

(* ExitedClean holds in every state: the worker thread ends with nothing held,
   unless an entry melt was begun in the pass that quits. *)
THEOREM MediaExitedClean == Spec => []ExitedClean
  <1>1. MediaInv => ExitedClean BY DEF MediaInv
  <1> QED BY <1>1, MediaInvariant, PTL

(* CameraClear holds in every state: start_media and its callers leave no picture
   over the camera when a start fails. *)
THEOREM MediaCameraClear == Spec => []CameraClear
  <1>1. MediaInv => CameraClear BY DEF MediaInv, Covered, CameraClear
  <1> QED BY <1>1, MediaInvariant, PTL

-----------------------------------------------------------------------------
(* The order of the pictures. *)

(* Nothing of p is of a later frame than the same cell of q. *)
AtMost(p, q) == \A c \in CELLS : p[c] <= q[c]

(* A cell is drawn at most one frame ahead of the count, so a cell only grows. *)
Drawing == gpc = "draw" => \A c \in CELLS : cell[c] <= frame_sequence + 1

(* Every picture came out of the slot. *)
FromSlot ==
    /\ shown \in Pictures
    /\ AtMost(pixels, cell) /\ AtMost(doom_pixels, cell) /\ AtMost(image, cell) /\ AtMost(shown, cell)

(* A path that is being built starts from an uncovered camera. *)
Uncovered ==
    /\ hd = "closed" => shown = Blank
    /\ wpc \in Building => hd = "closed"
    /\ path_started => path_open /\ hd # "closed"
    /\ wpc \in {"frame", "melt"} => path_started

(* A melt is or may be going on: the entry that is only being started has not
   touched doom_pixels yet. *)
Melting == control \in {"entry", "exit"} /\ (wpc \in Starting => kind # "entry")

(* The buffer the next publication comes from is not behind what is shown. *)
Ahead ==
    /\ AtMost(shown, pixels)
    /\ wpc = "path" => AtMost(pixels, doom_pixels)
    /\ wpc = "frame" => control # "exit" /\ AtMost(shown, image)
    /\ Melting => AtMost(shown, doom_pixels)

TimeInv == Drawing /\ FromSlot /\ Uncovered /\ Ahead

(* What a step may do to the picture. *)
Onward == shown' \in {shown, Blank} \/ AtMost(shown, shown')

LEMMA AtMostOrder ==
    /\ \A p \in Pictures : AtMost(p, p) /\ AtMost(Blank, p)
    /\ \A p, q, r \in Pictures : AtMost(p, q) /\ AtMost(q, r) => AtMost(p, r)
  <1>1. \A p \in Pictures : AtMost(p, p) /\ AtMost(Blank, p) BY FrameAssumption, BlankCells DEF AtMost, Pictures
  <1>2. ASSUME NEW p \in Pictures, NEW q \in Pictures, NEW r \in Pictures, AtMost(p, q), AtMost(q, r)
        PROVE  AtMost(p, r)
    <2> SUFFICES ASSUME NEW c \in CELLS PROVE p[c] <= r[c] BY DEF AtMost
    <2>1. p[c] \in Int /\ q[c] \in Int /\ r[c] \in Int BY FrameAssumption DEF Pictures
    <2>2. p[c] <= q[c] /\ q[c] <= r[c] BY <1>2 DEF AtMost
    <2> QED BY <2>1, <2>2
  <1> QED BY <1>1, <1>2

(* The slot goes forward: a game is drawn over a cleared file only once. *)
LEMMA SlotOnward ==
    ASSUME FrameInv, Drawing, [FrameNext]_frameVars
    PROVE  AtMost(cell, cell') /\ Drawing'
  <1> USE FrameAssumption
  <1>0. FrameTypeOK /\ InStep /\ EvenWhole BY DEF FrameInv
  <1>1. CASE InitGraphics
    <2>1. \A c \in CELLS : cell[c] = 0 BY <1>0, <1>1 DEF InitGraphics, InStep, EvenWhole
    <2>2. cell' = Blank /\ frame_sequence' = 0 BY <1>1 DEF InitGraphics
    <2> QED BY <2>1, <2>2, BlankCells DEF AtMost, Drawing
  <1>2. CASE \E c \in CELLS : Draw(c) BY <1>0, <1>2 DEF Draw, AtMost, Drawing, FrameTypeOK
  <1>3. CASE BeginFrameWrite
    <2>1. \A c \in CELLS : cell[c] = frame_sequence BY <1>0, <1>3 DEF BeginFrameWrite, InStep, EvenWhole, FrameTypeOK
    <2> QED BY <1>0, <1>3, <2>1 DEF BeginFrameWrite, AtMost, Drawing, FrameTypeOK
  <1>4. CASE UNCHANGED cell /\ gpc' # "draw" BY <1>0, <1>4 DEF AtMost, Drawing, FrameTypeOK
  <1>5. CASE UNCHANGED <<slot, game>> BY <1>0, <1>5 DEF AtMost, Drawing, FrameTypeOK, slot, game
  <1>6. EndFrame \/ CountFrame \/ SignalGameReady \/ GameEnds => UNCHANGED cell /\ gpc' # "draw"
    BY DEF EndFrame, CountFrame, SignalGameReady, GameEnds, slot
  <1>7. Convert \/ TakeFrame \/ ResetSource \/ CloseSource
        \/ (\E old \in [CELLS -> 0 .. MAX_FRAMES] : BeginConvert(old)) => UNCHANGED <<slot, game>>
    BY DEF Convert, TakeFrame, ResetSource, CloseSource, BeginConvert, LoadFrame, LoadSlot, ConvertCell, CheckSlot,
           CheckFrame
  <1>8. UNCHANGED frameVars => UNCHANGED <<slot, game>> BY DEF frameVars
  <1> QED BY <1>1, <1>2, <1>3, <1>4, <1>5, <1>6, <1>7, <1>8 DEF FrameNext, Game

(* A step makes no picture of its own: it keeps, clears or copies one, or a cell
   of the slot goes into the buffer of the conversion. *)
Old == {Blank, pixels, doom_pixels, image, shown}
Converted == \E c \in CELLS : image' = [image EXCEPT ![c] = cell[c]]

LEMMA ConvertOnly == Convert => image' = image \/ Converted
  BY DEF Convert, Converted, LoadFrame, LoadSlot, ConvertCell, CheckSlot, CheckFrame

LEMMA CopiesOnly ==
    ASSUME [Next]_vars
    PROVE  {pixels', doom_pixels', shown'} \subseteq Old /\ (image' \in Old \/ Converted)
  <1> USE DEF Old, pictures, screen
  <1>1. UNCHANGED reader => image' = image BY DEF reader
  <1>2. UNCHANGED frameVars => image' = image BY DEF frameVars, reader
  <1>3. CloseSource \/ ResetSource => image' = image BY DEF CloseSource, ResetSource
  <1>4. ASSUME NEW stop, NEW close, NEW free, NEW restored, Cleanup(stop, close, free, restored)
        PROVE  {pixels', doom_pixels', shown'} \subseteq Old /\ image' = image
    BY <1>3, <1>4 DEF Cleanup
  <1>5. CASE StartFailed \/ Stop \/ BeginExitFails \/ AnimationFails \/ UpdateFailed \/ Quit \/ EndExit \/ Leave
    <2>1. PICK stop, close, free, restored : Cleanup(stop, close, free, restored)
      BY <1>5 DEF StartFailed, Stop, BeginExitFails, AnimationFails, UpdateFailed, Quit, EndExit, Leave, CleanUp
    <2> QED BY <1>4, <2>1
  <1>6. CASE EntryRequested \/ \E k \in {"doom", "test", "alloc"} : StartCommand(k)
    BY <1>2, <1>6 DEF EntryRequested, StartCommand, Start
  <1>7. CASE PtzCamera \/ BeginExitMelt BY <1>2, <1>7 DEF PtzCamera, BeginExitMelt
  <1>8. CASE ResetStats BY <1>3, <1>8 DEF ResetStats, mediaVars
  <1>9. CASE OpenSource BY <1>2, <1>3, <1>9 DEF OpenSource
  <1>10. CASE Allocate \/ AllocateFails \/ MeltWaits BY <1>2, <1>10 DEF Allocate, AllocateFails, MeltWaits
  <1>11. CASE TryFrame BY <1>11 DEF TryFrame, BeginConvert
  <1>12. CASE Present BY <1>2, <1>12 DEF Present, BeginConvert
  <1>13. CASE GotFrame BY <1>13 DEF GotFrame, TakeFrame
  <1>14. CASE PresentFrame BY <1>14 DEF PresentFrame, TakeFrame, Publish
  <1>15. CASE \E at \in {"open", "set", "start", "prime", "none"} : StartPath(at) BY <1>2, <1>15 DEF StartPath
  <1>16. CASE \E t \in TICKS : MeltMoves(t) \/ MeltFails(t) \/ EntryDone(t) \/ ExitDone(t)
    BY <1>2, <1>3, <1>16 DEF MeltMoves, MeltFails, EntryDone, ExitDone, Publish
  <1>17. CASE Convert /\ UNCHANGED mediaVars BY <1>17, ConvertOnly DEF mediaVars
  <1>18. CASE Game /\ UNCHANGED mediaVars
    <2>1. UNCHANGED reader
      BY <1>18 DEF Game, InitGraphics, Draw, EndFrame, CountFrame, SignalGameReady, BeginFrameWrite, GameEnds
    <2> QED BY <1>1, <1>18, <2>1 DEF mediaVars
  <1>19. CASE Exited \/ UNCHANGED vars BY <1>2, <1>19 DEF Exited, vars, mediaVars
  <1> QED BY <1>5, <1>6, <1>7, <1>8, <1>9, <1>10, <1>11, <1>12, <1>13, <1>14, <1>15, <1>16, <1>17, <1>18, <1>19
          DEF Next, Step, Asked

LEMMA FromSlotStep ==
    ASSUME FrameInv, MediaInv, Drawing, FromSlot, [Next]_vars
    PROVE  FromSlot' /\ Drawing'
  <1>1. AtMost(cell, cell') /\ Drawing' BY MediaFrame, SlotOnward DEF MediaInv
  <1>2. cell \in Pictures /\ image \in Pictures /\ pixels \in Pictures /\ doom_pixels \in Pictures /\ shown \in Pictures
    BY DEF FrameInv, FrameTypeOK, MediaInv, Typed, FromSlot, Pictures
  <1>3. FrameInv' /\ cell' \in Pictures /\ image' \in Pictures
    BY MediaFrame, FrameInvStep DEF MediaInv, FrameInv, FrameTypeOK, Pictures
  <1>4. \A p \in Old : p \in Pictures /\ AtMost(p, cell) BY <1>2, WholeBlank, AtMostOrder DEF Old, FromSlot
  <1>5. \A p \in Old : AtMost(p, cell') BY <1>1, <1>2, <1>3, <1>4, AtMostOrder
  <1>6. {pixels', doom_pixels', shown'} \subseteq Old /\ (image' \in Old \/ Converted) BY CopiesOnly
  <1>7. Converted => AtMost(image', cell')
    <2> SUFFICES ASSUME NEW c \in CELLS, image' = [image EXCEPT ![c] = cell[c]] PROVE AtMost(image', cell')
      BY DEF Converted
    <2>1. AtMost(image, cell') BY <1>5 DEF Old
    <2> QED BY <1>1, <1>2, <2>1 DEF AtMost, Pictures
  <1>8. AtMost(pixels', cell') /\ AtMost(doom_pixels', cell') /\ AtMost(shown', cell') BY <1>5, <1>6
  <1>9. AtMost(image', cell') /\ shown' \in Pictures BY <1>4, <1>5, <1>6, <1>7
  <1> QED BY <1>1, <1>8, <1>9 DEF FromSlot

(* cleanup_media: what stays shown stays in the buffers. *)
LEMMA CleanedOnward ==
    ASSUME NEW stop, NEW close, NEW free, NEW restored, MediaInv, TimeInv, Cleanup(stop, close, free, restored),
           wpc' \in {"pass", "broken", "exited"},
           control' = "camera" \/ (control' = control /\ ~(wpc \in Starting /\ kind = "entry"))
    PROVE  Uncovered' /\ Ahead' /\ Onward
  <1>1. (hd' = "closed" => shown' = Blank) /\ (hd' # "closed" => shown' = shown) BY DEF Cleanup, screen
  <1>2. UNCHANGED pictures \/ hd' = "closed"
    <2>1. CASE Complete(stop, close, free)
      <3>1. path_open => hd' = "closed" BY <2>1 DEF Complete, Cleanup
      <3>2. ~path_open => hd = "closed" BY DEF MediaInv, Holding, PathHasMemory
      <3>3. ~path_open => hd' = hd BY DEF Cleanup
      <3> QED BY <3>1, <3>2, <3>3
    <2>2. CASE ~Complete(stop, close, free) BY <2>2 DEF Cleanup
    <2> QED BY <2>1, <2>2
  <1>3. pixels' \in Pictures /\ doom_pixels' \in Pictures
    BY WholeBlank DEF Cleanup, MediaInv, Typed, pictures
  <1>4. AtMost(shown', pixels') BY <1>1, <1>2, <1>3, AtMostOrder DEF TimeInv, Ahead, pictures
  <1>5. Melting' => AtMost(shown', doom_pixels')
    <2>1. CASE shown' = Blank BY <1>3, <2>1, AtMostOrder
    <2>2. CASE shown' = shown /\ UNCHANGED pictures
      BY <2>2 DEF TimeInv, Ahead, Melting, pictures
    <2> QED BY <1>1, <1>2, <2>1, <2>2
  <1>6. path_started' => path_open' /\ hd' # "closed"
    BY DEF TimeInv, Uncovered, MediaInv, Typed, Cleanup, StillOpen, StillStarted
  <1>7. Uncovered' BY <1>1, <1>6 DEF Uncovered, Building
  <1> QED BY <1>1, <1>4, <1>5, <1>7 DEF Ahead, Onward

LEMMA CleanUpOnward ==
    ASSUME MediaInv, TimeInv,
           StartFailed \/ Stop \/ BeginExitFails \/ AnimationFails \/ UpdateFailed \/ Quit \/ EndExit \/ Leave
    PROVE  Uncovered' /\ Ahead' /\ Onward
  <1>1. ASSUME NEW mode, NEW restored, CleanUp(mode, restored),
               mode = "camera" \/ (mode = control /\ ~(wpc \in Starting /\ kind = "entry"))
        PROVE  Uncovered' /\ Ahead' /\ Onward
    BY <1>1, CleanedOnward DEF CleanUp
  <1>2. CASE StartFailed BY <1>1, <1>2 DEF StartFailed
  <1>3. CASE Stop \/ BeginExitFails \/ AnimationFails \/ UpdateFailed
    BY <1>1, <1>3 DEF Stop, BeginExitFails, AnimationFails, UpdateFailed, Starting
  <1>4. CASE Quit \/ EndExit \/ Leave
    <2>1. PICK stop, close, free, restored : Cleanup(stop, close, free, restored) BY <1>4 DEF Quit, EndExit, Leave
    <2>2. wpc \notin Starting /\ wpc' \in {"pass", "broken", "exited"} /\ control' \in {"camera", control}
      BY <1>4 DEF Quit, EndExit, Leave, Starting
    <2> QED BY <2>1, <2>2, CleanedOnward
  <1> QED BY <1>2, <1>3, <1>4

LEMMA StartOnward ==
    ASSUME MediaInv, TimeInv,
           EntryRequested \/ (\E k \in {"doom", "test", "alloc"} : StartCommand(k)) \/ OpenSource \/ AllocateFails
    PROVE  Uncovered' /\ Ahead' /\ Onward
  <1>1. UNCHANGED <<pictures, screen, hd, path_open, path_started>>
    BY DEF EntryRequested, StartCommand, Start, OpenSource, AllocateFails, held
  <1>2. wpc \in {"pass", "source", "alloc"} /\ wpc' \in {"source", "alloc", "fail"}
    BY DEF EntryRequested, StartCommand, Start, OpenSource, AllocateFails
  <1>3. Melting' => Melting
    <2>1. CASE EntryRequested BY <2>1 DEF EntryRequested, Start, Melting, Starting
    <2>2. CASE \E k \in {"doom", "test", "alloc"} : StartCommand(k)
      BY <2>2 DEF StartCommand, Start, Melting, Starting
    <2>3. CASE OpenSource \/ AllocateFails BY <2>3 DEF OpenSource, AllocateFails, Melting, Starting
    <2> QED BY <2>1, <2>2, <2>3
  <1>4. Uncovered' BY <1>1, <1>2 DEF TimeInv, Uncovered, Building, screen
  <1>5. Ahead' BY <1>1, <1>2, <1>3 DEF TimeInv, Ahead, pictures, screen, AtMost
  <1> QED BY <1>1, <1>4, <1>5 DEF Onward, screen

(* While a path is being built, nothing is shown. *)
LEMMA BuildOnward ==
    ASSUME FrameInv, MediaInv, TimeInv, Allocate \/ TryFrame \/ GotFrame
    PROVE  Uncovered' /\ Ahead' /\ Onward
  <1>1. hd = "closed"
    <2>1. CASE Allocate BY <2>1 DEF Allocate, MediaInv, Holding, PathHasMemory
    <2>2. CASE TryFrame \/ GotFrame BY <2>2 DEF TryFrame, GotFrame, TimeInv, Uncovered, Building
    <2> QED BY <2>1, <2>2
  <1>2. UNCHANGED <<hd, path_open, path_started, screen>> BY DEF Allocate, TryFrame, GotFrame, held
  <1>3. shown = Blank /\ shown' = Blank BY <1>1, <1>2 DEF TimeInv, Uncovered, screen
  <1>4. image \in Pictures BY DEF FrameInv, FrameTypeOK, Pictures
  <1>5. pixels' \in Pictures /\ doom_pixels' \in Pictures
    BY <1>4, WholeBlank DEF Allocate, TryFrame, GotFrame, MediaInv, Typed, pictures
  <1>6. wpc' \notin {"frame", "melt"} BY DEF Allocate, TryFrame, GotFrame
  <1>7. wpc' = "path" => AtMost(pixels', doom_pixels')
    <2>1. CASE Allocate
      <3>1. wpc' = "path" => pixels' = Blank BY <2>1 DEF Allocate
      <3> QED BY <1>5, <3>1, AtMostOrder
    <2>2. CASE TryFrame BY <2>2 DEF TryFrame
    <2>3. CASE GotFrame
      <3>1. wpc' = "path" => pixels' \in {Blank, image} /\ doom_pixels' = image BY <2>3 DEF GotFrame
      <3> QED BY <1>4, <3>1, AtMostOrder
    <2> QED BY <2>1, <2>2, <2>3
  <1>8. AtMost(shown', pixels') /\ AtMost(shown', doom_pixels') BY <1>3, <1>5, AtMostOrder
  <1>9. Uncovered' BY <1>1, <1>2, <1>3, <1>6 DEF TimeInv, Uncovered
  <1> QED BY <1>3, <1>6, <1>7, <1>8, <1>9 DEF Ahead, Onward

LEMMA StartPathOnward ==
    ASSUME MediaInv, TimeInv, NEW at \in {"open", "set", "start", "prime", "none"}, StartPath(at)
    PROVE  Uncovered' /\ Ahead' /\ Onward
  <1>1. wpc = "path" /\ wpc' \in {"pass", "fail"} /\ UNCHANGED pictures BY DEF StartPath
  <1>2. hd = "closed" /\ shown = Blank BY <1>1 DEF TimeInv, Uncovered, Building
  <1>3. shown' \in {Blank, pixels} /\ (hd' = "closed" => shown' = Blank) BY <1>2 DEF StartPath, screen
  <1>4. pixels \in Pictures /\ doom_pixels \in Pictures BY DEF MediaInv, Typed
  <1>5. AtMost(pixels, doom_pixels) BY <1>1 DEF TimeInv, Ahead
  <1>6. AtMost(shown', pixels) /\ AtMost(shown', doom_pixels) BY <1>3, <1>4, <1>5, AtMostOrder
  <1>7. Onward BY <1>2, <1>3, <1>4, AtMostOrder DEF Onward
  <1>8. path_started' => path_open' /\ hd' # "closed" BY DEF StartPath
  <1>9. Uncovered' BY <1>1, <1>3, <1>8 DEF Uncovered, Building
  <1> QED BY <1>1, <1>6, <1>7, <1>9 DEF Ahead, pictures

(* begin_exit_melt takes what is in pixels, which is not behind. *)
LEMMA PassOnward ==
    ASSUME MediaInv, TimeInv, PtzCamera \/ BeginExitMelt \/ ResetStats
    PROVE  Uncovered' /\ Ahead' /\ Onward
  <1>1. UNCHANGED <<hd, path_open, path_started, screen, pixels>> /\ wpc = "pass" /\ wpc' = "pass"
    BY DEF PtzCamera, BeginExitMelt, ResetStats, mediaVars, worker, held, pictures
  <1>2. Melting' => AtMost(shown, doom_pixels')
    <2>1. CASE PtzCamera BY <2>1 DEF PtzCamera, Melting
    <2>2. CASE BeginExitMelt BY <2>2 DEF BeginExitMelt, TimeInv, Ahead
    <2>3. CASE ResetStats BY <2>3 DEF ResetStats, Melting, mediaVars, worker
    <2> QED BY <2>1, <2>2, <2>3
  <1>3. Uncovered' BY <1>1 DEF TimeInv, Uncovered, Building, screen
  <1>4. Ahead' BY <1>1, <1>2 DEF TimeInv, Ahead, screen, AtMost
  <1> QED BY <1>1, <1>3, <1>4 DEF Onward, screen

LEMMA PresentOnward ==
    ASSUME FrameInv, MediaInv, TimeInv, Present \/ PresentFrame \/ MeltWaits
    PROVE  Uncovered' /\ Ahead' /\ Onward
  <1>0. UNCHANGED <<hd, path_open, path_started, control>> BY DEF Present, PresentFrame, MeltWaits, held
  <1>1. CASE Present
    <2>1. UNCHANGED <<pictures, screen>> /\ path_started /\ wpc = "pass" /\ wpc' \in {"melt", "frame"} BY <1>1 DEF Present
    <2>2. Melting' => Melting BY <1>0, <2>1 DEF Melting, Starting
    <2>3. wpc' = "frame" => control # "exit" /\ image' = IF control = "entry" THEN doom_pixels ELSE pixels
      BY <1>1 DEF Present, BeginConvert
    <2>4. AtMost(shown, pixels) /\ (control = "entry" => AtMost(shown, doom_pixels))
      BY <2>1 DEF TimeInv, Ahead, Melting, Starting
    <2>5. Uncovered' BY <1>0, <2>1 DEF TimeInv, Uncovered, Building, screen
    <2>6. wpc' = "frame" => AtMost(shown', image') BY <2>1, <2>3, <2>4 DEF screen
    <2>7. AtMost(shown', pixels') BY <2>1, <2>4 DEF pictures, screen
    <2>8. Melting' => AtMost(shown', doom_pixels') BY <2>1, <2>2 DEF TimeInv, Ahead, pictures, screen
    <2> QED BY <1>0, <2>1, <2>3, <2>5, <2>6, <2>7, <2>8 DEF Ahead, Onward, screen
  <1>2. CASE PresentFrame
    <2>1. /\ wpc = "frame" /\ wpc' \in {"melt", "pass", "broken"}
          /\ IF control = "entry" THEN doom_pixels' = image /\ pixels' = pixels /\ shown' = shown
                                  ELSE pixels' = image /\ doom_pixels' = doom_pixels /\ shown' \in {shown, image}
      BY <1>2 DEF PresentFrame, Publish, screen
    <2>2. control # "exit" /\ AtMost(shown, image) /\ AtMost(shown, pixels) BY <2>1 DEF TimeInv, Ahead
    <2>3. hd # "closed" BY <2>1 DEF TimeInv, Uncovered
    <2>4. image \in Pictures /\ pixels \in Pictures BY DEF FrameInv, FrameTypeOK, MediaInv, Typed, Pictures
    <2>5. AtMost(shown', pixels') BY <2>1, <2>2, <2>4, AtMostOrder
    <2>6. Melting' => AtMost(shown', doom_pixels') BY <1>0, <2>1, <2>2 DEF Melting
    <2>7. Uncovered' BY <1>0, <1>2, <2>1, <2>3 DEF PresentFrame, TimeInv, Uncovered, Building, held
    <2>8. Onward BY <2>1, <2>2 DEF Onward
    <2> QED BY <2>1, <2>5, <2>6, <2>7, <2>8 DEF Ahead
  <1>3. CASE MeltWaits
    <2>1. UNCHANGED <<pictures, screen>> /\ wpc = "melt" /\ wpc' = "pass" BY <1>3 DEF MeltWaits
    <2>2. Melting' => Melting BY <1>0, <2>1 DEF Melting, Starting
    <2>3. Uncovered' BY <1>0, <2>1 DEF TimeInv, Uncovered, Building, screen
    <2>4. Ahead' BY <2>1, <2>2 DEF TimeInv, Ahead, AtMost, pictures, screen
    <2> QED BY <2>1, <2>3, <2>4 DEF Onward, screen
  <1> QED BY <1>1, <1>2, <1>3

LEMMA MeltOnward ==
    ASSUME MediaInv, TimeInv, NEW t, MeltMoves(t) \/ MeltFails(t) \/ EntryDone(t) \/ ExitDone(t)
    PROVE  Uncovered' /\ Ahead' /\ Onward
  <1>1. UNCHANGED <<hd, path_open, path_started, doom_pixels>> /\ wpc = "melt" /\ wpc' \in {"pass", "broken", "ending"}
    BY DEF MeltMoves, MeltFails, EntryDone, ExitDone, held
  <1>2. /\ control' \in {control, "doom"}
        /\ \/ pixels' = doom_pixels /\ shown' \in {shown, doom_pixels}
           \/ pixels' = Blank /\ shown' = Blank
    BY DEF MeltMoves, MeltFails, EntryDone, ExitDone, Publish, screen
  <1>3. Melting BY <1>1 DEF MediaInv, Covered, Melting, Starting
  <1>4. AtMost(shown, doom_pixels) /\ hd # "closed" BY <1>1, <1>3 DEF TimeInv, Ahead, Uncovered
  <1>5. doom_pixels \in Pictures /\ Blank \in Pictures BY WholeBlank DEF MediaInv, Typed
  <1>6. AtMost(shown', pixels') /\ AtMost(shown', doom_pixels) BY <1>2, <1>4, <1>5, AtMostOrder
  <1>7. Onward BY <1>2, <1>4 DEF Onward
  <1>8. Uncovered' BY <1>1, <1>4 DEF TimeInv, Uncovered, Building
  <1> QED BY <1>1, <1>6, <1>7, <1>8 DEF Ahead

(* A conversion puts in what the slot has, which is not behind what is shown. *)
LEMMA SlotStepOnward ==
    ASSUME FrameInv, MediaInv, TimeInv, image' = image \/ Converted, UNCHANGED mediaVars
    PROVE  Uncovered' /\ Ahead' /\ Onward
  <1> USE DEF mediaVars, held, session, pictures, screen, worker
  <1>1. Uncovered' BY DEF TimeInv, Uncovered
  <1>2. wpc = "frame" => AtMost(shown, image')
    <2>1. image \in Pictures /\ AtMost(shown, cell) BY DEF FrameInv, FrameTypeOK, Pictures, TimeInv, FromSlot
    <2>2. wpc = "frame" => AtMost(shown, image) BY DEF TimeInv, Ahead
    <2> QED BY <2>1, <2>2 DEF Converted, AtMost, Pictures
  <1>3. Melting' = Melting BY DEF Melting
  <1>4. Ahead' BY <1>2, <1>3 DEF TimeInv, Ahead, AtMost
  <1> QED BY <1>1, <1>4 DEF Onward

LEMMA TimeInitInv == Init => TimeInv
  <1> SUFFICES ASSUME Init PROVE TimeInv OBVIOUS
  <1>1. Drawing BY DEF Init, FrameInit, Drawing
  <1>2. FromSlot BY WholeBlank, AtMostOrder DEF Init, FrameInit, FromSlot
  <1>3. Uncovered BY DEF Init, Uncovered, Building
  <1>4. Ahead BY WholeBlank, AtMostOrder DEF Init, Ahead, Melting
  <1> QED BY <1>1, <1>2, <1>3, <1>4 DEF TimeInv

LEMMA TimeStep ==
    ASSUME FrameInv, MediaInv, TimeInv, [Next]_vars
    PROVE  TimeInv' /\ Onward
  <1>1. FromSlot' /\ Drawing' BY FromSlotStep DEF TimeInv
  <1> SUFFICES Uncovered' /\ Ahead' /\ Onward BY <1>1 DEF TimeInv
  <1>2. CASE Asked BY <1>2, CleanUpOnward, StartOnward, PassOnward DEF Asked
  <1>3. CASE Step
    <2>1. CASE Convert /\ UNCHANGED mediaVars BY <2>1, ConvertOnly, SlotStepOnward
    <2>2. CASE \E t \in TICKS : MeltMoves(t) \/ MeltFails(t) \/ EntryDone(t) \/ ExitDone(t) BY <2>2, MeltOnward
    <2>3. CASE \E at \in {"open", "set", "start", "prime", "none"} : StartPath(at) BY <2>3, StartPathOnward
    <2> QED BY <1>3, <2>1, <2>2, <2>3, CleanUpOnward, StartOnward, BuildOnward, PresentOnward DEF Step
  <1>4. CASE (Game /\ UNCHANGED mediaVars) \/ Exited \/ UNCHANGED vars
    <2>1. Game => UNCHANGED reader
      BY DEF Game, InitGraphics, Draw, EndFrame, CountFrame, SignalGameReady, BeginFrameWrite, GameEnds
    <2>2. image' = image /\ UNCHANGED mediaVars BY <1>4, <2>1 DEF Exited, vars, frameVars, reader
    <2> QED BY <2>2, SlotStepOnward
  <1> QED BY <1>2, <1>3, <1>4 DEF Next

(* NeverBack holds of every behaviour: between two pictures of the game neither a
   rejected conversion, a melt, a failed call nor a new session shows a part of an
   older frame (convert_doom_frame, update_entry_melt, begin_exit_melt). *)
THEOREM MediaNeverBack == Spec => NeverBack
  <1>1. TimeInv /\ Onward
        => (shown # Blank /\ shown' # shown /\ shown' # Blank => \A c \in CELLS : shown'[c] >= shown[c])
    BY DEF Onward, AtMost
  <1>2. FrameInv /\ MediaInv /\ TimeInv /\ [Next]_vars => TimeInv' /\ Onward BY TimeStep
  <1>3. FrameInv /\ MediaInv /\ TimeInv /\ [Next]_vars
        => [shown # Blank /\ shown' # shown /\ shown' # Blank => \A c \in CELLS : shown'[c] >= shown[c]]_vars
    BY <1>1, <1>2
  <1> QED BY <1>2, <1>3, MediaInvariant, TimeInitInv, PTL DEF Spec, NeverBack

-----------------------------------------------------------------------------
(* The melt. *)

(* e1_melt_clock_ticks loses and invents no time: over an update that is not
   late, ticks and remainder account for every millisecond. *)
THEOREM TicksConserved ==
    ASSUME NEW clock \in Clock, NEW now \in Nat, ~Starts(clock), now > clock.last_ms, ~Late(clock, now)
    PROVE  /\ SECOND * Ticks(clock, now) + ClockAfter(clock, now).remainder
                 = RATE * (now - clock.last_ms) + clock.remainder
           /\ ClockAfter(clock, now).remainder \in 0 .. SECOND - 1
  <1>1. /\ clock.last_ms \in Nat /\ clock.remainder \in Nat /\ RATE \in Nat /\ SECOND \in Nat \ {0}
    BY MeltAssumption DEF Clock
  <1>2. now - clock.last_ms \in Nat BY <1>1
  <1>3. (now - clock.last_ms) * RATE \in Nat BY <1>1, <1>2
  <1>4. Scaled(clock, now) \in Nat /\ Scaled(clock, now) = RATE * (now - clock.last_ms) + clock.remainder
    BY <1>1, <1>2, <1>3 DEF Scaled
  <1>5. Ticks(clock, now) = Scaled(clock, now) \div SECOND BY <1>1 DEF Ticks
  <1>6. ClockAfter(clock, now) = [last_ms |-> now, remainder |-> Scaled(clock, now) % SECOND]
    BY <1>1 DEF ClockAfter
  <1>7. ASSUME NEW s \in Nat PROVE SECOND * (s \div SECOND) + (s % SECOND) = s /\ s % SECOND \in 0 .. SECOND - 1
    BY <1>1
  <1> QED BY <1>4, <1>5, <1>6, <1>7

(* One tick of e1_melt_advance moves no column up, never past the last row, and
   moves every column that is not down: so a melt ends, and does not run on. *)
THEOREM FallMoves ==
    ASSUME NEW row \in (1 - DELAY) .. ROWS
    PROVE  /\ Fall(row) \in (1 - DELAY) .. ROWS
           /\ Fall(row) >= row
           /\ Fall(row) = row <=> row = ROWS
  <1>1. ROWS \in Nat \ {0} /\ DELAY \in Nat \ {0} /\ KNEE \in Nat /\ FAST \in Nat \ {0} /\ row \in Int
    BY MeltAssumption
  <1>2. CASE row < 0 BY <1>1, <1>2 DEF Fall
  <1>3. CASE row \in 0 .. ROWS - 1
    <2>1. CASE row < KNEE BY <1>1, <1>3, <2>1 DEF Fall
    <2>2. CASE ~(row < KNEE) BY <1>1, <1>3, <2>2 DEF Fall
    <2> QED BY <2>1, <2>2
  <1>4. CASE row = ROWS BY <1>1, <1>4 DEF Fall
  <1> QED BY <1>1, <1>2, <1>3, <1>4

(* The row that e1_melt_compose_entry and e1_melt_compose_exit read of the falling
   picture lies in it, for every height of the picture and every row of a column;
   when every column is down nothing of it is read. *)
THEOREM ComposeInside ==
    ASSUME NEW rows \in Rows, NEW c \in Columns, NEW height \in Nat, NEW y \in 0 .. height - 1
    PROVE  /\ ~Behind(rows, c, y, height) => FallingRow(rows, c, y, height) \in 0 .. height - 1
           /\ Done(rows) => Behind(rows, c, y, height)
  <1>1. ROWS \in Nat \ {0} /\ DELAY \in Nat \ {0} /\ rows[c] \in Int /\ rows[c] <= ROWS
    BY MeltAssumption DEF Rows
  <1>2. ScaledRow(rows[c], height) \in 0 .. height
    <2>1. CASE rows[c] <= 0 \/ rows[c] >= ROWS BY <1>1, <2>1 DEF ScaledRow
    <2>2. CASE rows[c] \in 1 .. ROWS - 1
      <3>1. rows[c] * height \in Nat /\ rows[c] * height <= ROWS * height BY <1>1, <2>2
      <3>2. (rows[c] * height) \div ROWS \in 0 .. height BY <1>1, <3>1
      <3> QED BY <1>1, <2>2, <3>2 DEF ScaledRow
    <2> QED BY <1>1, <2>1, <2>2
  <1>3. Done(rows) => ScaledRow(rows[c], height) = height BY <1>1 DEF Done, ScaledRow
  <1> QED BY <1>2, <1>3 DEF Behind, FallingRow
=============================================================================
