------------------------------- MODULE Media -------------------------------
(***************************************************************************)
(* The picture the injected worker puts over the camera's: the HDAL memory  *)
(* and stamp path it holds (struct media_state, start_media, cleanup_media),*)
(* and the frames it takes from FrameSlot and publishes through the entry   *)
(* melt, the game and the exit melt.  Every HDAL call may fail; what the    *)
(* hardware really has is hd, what the worker believes is allocated,        *)
(* path_open and path_started.                                              *)
(*                                                                         *)
(* The worker is one thread: what it does without touching the slot is one  *)
(* step.  How many ticks a melt's update finds on Melt's clock is a choice    *)
(* from TICKS.  A picture is its game content, cell by cell; the camera's   *)
(* pixels and transparency are 0.  Reports (injected.error, the statistics) are  *)
(* left out.                                                                *)
(***************************************************************************)
EXTENDS FrameSlot, Melt

CONSTANTS
  TICKS,         \* ticks that go by between two presentations
  ATTEMPTS,      \* conversions wait_for_stable_doom_frame tries, 40 in the code
  MAX_SESSIONS   \* bound: starts of the media

ASSUME MediaAssumption == TICKS \subseteq Nat \ {0} /\ ATTEMPTS \in Nat \ {0} /\ MAX_SESSIONS \in Nat

VARIABLES
  wpc, kind, attempt,                  \* the worker: place, what it starts
  control,                             \* control.mode
  allocated, path_open, path_started,  \* struct media_state
  doom_frames, entry_melt,
  melt, fresh,                         \* rows of the melt; no update yet
  source,                              \* framebuffer mapped
  buffers, pixels, doom_pixels,        \* buffers allocated, what they show
  hd,                                  \* the path as the hardware has it
  shown, shown_in,                     \* the last picture published, and in which mode
  media_active, media_restored,        \* marker files
  stuck,                               \* ghost: the last cleanup was incomplete
  quit,                                \* no, yes, or late: an entry melt was asked for in the quit pass
  sessions                             \* bound

held == <<allocated, path_open, path_started, hd, stuck>>
session == <<doom_frames, entry_melt, source, buffers>>
pictures == <<pixels, doom_pixels>>
screen == <<shown, shown_in>>
markers == <<media_active, media_restored>>
worker == <<wpc, kind, attempt, control, melt, fresh>>
course == <<quit, sessions>>
mediaVars == <<held, session, pictures, screen, markers, worker, course>>
vars == <<frameVars, mediaVars>>

Init ==
    /\ FrameInit
    /\ wpc = "pass" /\ kind = "none" /\ attempt = 0 /\ control = "camera"
    /\ melt = [c \in Columns |-> 0] /\ fresh = FALSE
    /\ allocated = FALSE /\ path_open = FALSE /\ path_started = FALSE /\ hd = "closed" /\ stuck = FALSE
    /\ doom_frames = FALSE /\ entry_melt = FALSE /\ source = FALSE /\ buffers = {}
    /\ pixels = Blank /\ doom_pixels = Blank /\ shown = Blank /\ shown_in = "camera"
    /\ media_active = FALSE /\ media_restored = FALSE
    /\ quit = "no" /\ sessions = 0

-----------------------------------------------------------------------------
(* cleanup_media: stop, close and free say which of the three calls succeed,
   restored whether media.restored is there already. *)

(* Mutant of Freed: the memory goes whatever became of the path. *)
FreedAnyway(stop, close, free) == allocated /\ free

(* The path's state after a stop and a close; memory a path may still use stays. *)
StillOpen(close) == path_open /\ ~close
StillStarted(stop, close) == path_started /\ ~stop /\ ~(path_open /\ close)
Freed(stop, close, free) ==
    allocated /\ ~StillOpen(close) /\ ~StillStarted(stop, close) /\ free

Complete(stop, close, free) ==
    /\ path_started => stop
    /\ path_open => close
    /\ allocated => Freed(stop, close, free)

Cleanup(stop, close, free, restored) ==
    /\ path_started' = StillStarted(stop, close) /\ path_open' = StillOpen(close)
    /\ allocated' = (allocated /\ ~Freed(stop, close, free))
    /\ hd' = CASE path_open /\ close -> "closed"
               [] path_open /\ ~close /\ path_started /\ stop -> "open"
               [] OTHER -> hd
    /\ stuck' = ~Complete(stop, close, free)
    /\ doom_frames' = FALSE /\ source' = FALSE
    /\ IF Complete(stop, close, free)
       THEN /\ buffers' = {} /\ pixels' = Blank /\ doom_pixels' = Blank /\ entry_melt' = FALSE
            /\ media_active' = FALSE /\ media_restored' = TRUE
       ELSE UNCHANGED <<buffers, pictures, entry_melt, media_active>> /\ media_restored' = restored
    /\ IF hd' = "closed" THEN shown' = Blank /\ shown_in' = "camera" ELSE UNCHANGED screen
    /\ CloseSource

(* A cleanup that is followed by nothing that can fail. *)
CleanUp(mode, restored) ==
    \E stop, close, free \in BOOLEAN :
        /\ Cleanup(stop, close, free, restored)
        /\ wpc' = "pass" /\ control' = mode
        /\ kind' = IF Complete(stop, close, free) THEN "none" ELSE kind
        /\ UNCHANGED <<attempt, melt, fresh, course>>

-----------------------------------------------------------------------------
(* begin_entry_melt, the doom and the test commands, and start_media *)

Start(k) ==
    /\ wpc = "pass" /\ sessions < MAX_SESSIONS
    /\ kind' = k /\ sessions' = sessions + 1
    /\ wpc' = IF k \in {"entry", "doom"} THEN "source" ELSE "alloc"
    /\ UNCHANGED <<frameVars, held, doom_frames, source, buffers, pictures, screen, attempt, melt, fresh, media_active>>

(* The gesture was made, the game is ready; media.restored is not removed.  The pass
   that was told to quit looks for gestures too. *)
EntryRequested ==
    /\ control = "camera" /\ game_ready /\ Start("entry")
    /\ control' = "entry" /\ entry_melt' = TRUE
    /\ quit' = IF quit = "no" THEN "no" ELSE "late"
    /\ UNCHANGED media_restored

(* The commands "doom N", "transparent ..." or "checkerboard ...", and "alloc ...". *)
StartCommand(k) ==
    /\ quit = "no" /\ Start(k)
    /\ entry_melt' = (entry_melt /\ k # "doom")
    /\ media_restored' = FALSE
    /\ UNCHANGED <<control, quit>>

(* open_frame_source: no file, no frame yet, or a slot that stays odd for the
   forty looks, and it fails.  A source that was open is forgotten, not closed. *)
OpenSource ==
    /\ wpc = "source"
    /\ \/ /\ frame_sequence > 0 /\ Even(sequence)
          /\ source' = TRUE /\ doom_frames' = TRUE /\ wpc' = "alloc"
          /\ UNCHANGED frameVars
       \/ /\ source' = FALSE /\ doom_frames' = FALSE /\ wpc' = "fail"
          /\ CloseSource
    /\ UNCHANGED <<held, entry_melt, buffers, pictures, screen, markers, kind, attempt, control, melt, fresh,
                   course>>

(* start_media's guard, allocate_media and the buffers. *)
Allocate ==
    /\ wpc = "alloc" /\ ~allocated /\ ~path_open /\ ~path_started
    /\ allocated' = TRUE
    /\ buffers' = buffers \cup (IF kind = "alloc" THEN {} ELSE {"pixels"})
                          \cup (IF kind # "alloc" /\ doom_frames THEN {"doom"} ELSE {})
    /\ pixels' = IF kind = "alloc" THEN pixels ELSE Blank
    /\ doom_pixels' = IF doom_frames THEN Blank ELSE doom_pixels
    /\ media_active' = (media_active \/ kind = "alloc")
    /\ wpc' = CASE kind = "alloc" -> "pass"
                [] kind # "alloc" /\ doom_frames -> "stable"
                [] OTHER -> "path"
    /\ UNCHANGED <<frameVars, path_open, path_started, hd, stuck, doom_frames, entry_melt, source, screen,
                   media_restored, kind, attempt, control, melt, fresh, course>>

(* The guard refuses, or an allocation fails, the memory's or a later one. *)
AllocateFails ==
    /\ wpc = "alloc"
    /\ \/ (allocated \/ path_open \/ path_started) /\ UNCHANGED <<allocated, buffers>>
       \/ /\ ~allocated /\ ~path_open /\ ~path_started
          /\ allocated' \in BOOLEAN
          /\ buffers' \in {buffers} \cup (IF allocated' /\ kind # "alloc" THEN {buffers \cup {"pixels"}} ELSE {})
    /\ wpc' = "fail"
    /\ UNCHANGED <<frameVars, path_open, path_started, hd, stuck, doom_frames, entry_melt, source, pictures,
                   screen, markers, kind, attempt, control, melt, fresh, course>>

(* wait_for_stable_doom_frame: forty conversions into doom_pixels. *)
TryFrame ==
    /\ wpc = "stable" /\ BeginConvert(doom_pixels)
    /\ wpc' = "await" /\ attempt' = attempt + 1
    /\ UNCHANGED <<held, session, pictures, screen, markers, kind, control, melt, fresh, course>>

(* The frame is there; the camera's snapshot is taken before the melt. *)
GotFrame ==
    /\ wpc = "await" /\ TakeFrame
    /\ doom_pixels' = image
    /\ \/ /\ result = "new" /\ wpc' = "path"
          /\ buffers' = IF entry_melt THEN buffers \cup {"camera"} ELSE buffers
          /\ pixels' = IF entry_melt THEN Blank ELSE image
       \/ /\ result = "new" /\ entry_melt
          /\ wpc' = "fail" /\ buffers' \in {buffers, buffers \cup {"camera"}} /\ UNCHANGED pixels
       \/ /\ result = "retry" /\ wpc' = IF attempt < ATTEMPTS THEN "stable" ELSE "fail"
          /\ UNCHANGED <<buffers, pixels>>
    /\ attempt' = IF wpc' = "stable" THEN attempt ELSE 0
    /\ UNCHANGED <<held, doom_frames, entry_melt, source, screen, markers, kind, control, melt, fresh, course>>

(* e1_melt_init and the clock set to now. *)
MeltInit == melt' \in MeltStart /\ fresh' = TRUE

(* From videoenc_open_call on; at says which call fails, if any. *)
StartPath(at) ==
    /\ wpc = "path"
    /\ path_open' = (at # "open") /\ path_started' = (at \in {"prime", "none"})
    /\ hd' = CASE at = "open" -> "closed" [] at \in {"prime", "none"} -> "started" [] OTHER -> "open"
    /\ IF at \in {"open", "set"} THEN UNCHANGED screen ELSE shown' = pixels /\ shown_in' = control
    /\ IF at = "none" THEN /\ media_active' = TRUE /\ wpc' = "pass"
                           /\ IF kind = "entry" THEN MeltInit ELSE UNCHANGED <<melt, fresh>>
                      ELSE /\ wpc' = "fail" /\ UNCHANGED <<media_active, melt, fresh>>
    /\ UNCHANGED <<frameVars, allocated, stuck, session, pictures, media_restored, kind, attempt, control, course>>

(* Mutant of StartFailed: an entry that failed only returns to the camera. *)
StartFailedOnly ==
    /\ wpc = "fail"
    /\ wpc' = "pass" /\ kind' = "none" /\ control' = IF kind = "entry" THEN "camera" ELSE control
    /\ UNCHANGED <<frameVars, held, session, pictures, screen, media_active, media_restored, attempt, melt, fresh,
                   course>>

(* What every caller does after a start that failed. *)
StartFailed ==
    /\ wpc = "fail"
    /\ CleanUp(IF kind = "entry" THEN "camera" ELSE control, media_restored)

-----------------------------------------------------------------------------
(* The commands that stop, and the presentation of one pass. *)

(* The command "stop", which first removes the marker, or the heartbeat that
   stood still, which does not; the mode stays. *)
Stop ==
    /\ wpc = "pass" /\ quit = "no"
    /\ CleanUp(control, FALSE) \/ (allocated /\ CleanUp(control, media_restored))

(* Mutant of Quit: the thread ends whatever the cleanup says. *)
QuitAnyway ==
    /\ wpc = "pass" /\ quit = "no"
    /\ \E stop, close, free \in BOOLEAN :
         /\ Cleanup(stop, close, free, FALSE)
         /\ kind' = IF Complete(stop, close, free) THEN "none" ELSE kind
    /\ quit' = "yes"
    /\ UNCHANGED <<wpc, attempt, control, melt, fresh, sessions>>

(* The command "quit" also has the audio to clean up, which may fail; the pass goes
   on. *)
Quit ==
    /\ wpc = "pass" /\ quit = "no"
    /\ \E stop, close, free \in BOOLEAN :
         /\ Cleanup(stop, close, free, FALSE)
         /\ quit' \in {"no"} \cup (IF Complete(stop, close, free) THEN {"yes"} ELSE {})
         /\ kind' = IF Complete(stop, close, free) THEN "none" ELSE kind
    /\ UNCHANGED <<wpc, attempt, control, melt, fresh, sessions>>

(* The loop is left, and one more cleanup made that nobody asks about. *)
Leave ==
    /\ wpc = "pass" /\ quit # "no"
    /\ \E stop, close, free \in BOOLEAN :
         /\ Cleanup(stop, close, free, media_restored)
         /\ kind' = IF Complete(stop, close, free) THEN "none" ELSE kind
    /\ wpc' = "exited"
    /\ UNCHANGED <<attempt, control, melt, fresh, course>>

(* The command "ptz-camera", which the coordinator sends before "stop": the mode
   goes back to the camera under whatever is shown. *)
PtzCamera ==
    /\ wpc = "pass" /\ quit = "no" /\ control # "camera"
    /\ control' = "camera" /\ kind' = "ptz"
    /\ UNCHANGED <<frameVars, held, session, pictures, screen, markers, wpc, attempt, melt, fresh, course>>

(* The checkerboard that moves with every pass could not be published. *)
AnimationFails ==
    /\ wpc = "pass" /\ path_started /\ kind = "test"
    /\ CleanUp(control, media_restored)

(* video.stats.reset in the game. *)
ResetStats ==
    /\ wpc = "pass" /\ control = "doom" /\ source /\ last_frame_sequence # frame_sequence
    /\ ResetSource
    /\ UNCHANGED mediaVars

(* Mutant of BeginExitMelt: the picture of the entry melt is melted. *)
BeginExitMeltStale ==
    /\ wpc = "pass" /\ control = "doom" /\ path_started /\ doom_frames
    /\ MeltInit /\ control' = "exit"
    /\ UNCHANGED <<frameVars, held, session, pictures, screen, markers, wpc, kind, attempt, course>>

(* The exit gesture: the last conversion is what melts. *)
BeginExitMelt ==
    /\ wpc = "pass" /\ control = "doom" /\ path_started /\ doom_frames
    /\ doom_pixels' = pixels /\ MeltInit /\ control' = "exit"
    /\ UNCHANGED <<frameVars, held, session, pixels, screen, markers, wpc, kind, attempt, course>>

(* begin_exit_melt finds no picture to melt. *)
BeginExitFails ==
    /\ wpc = "pass" /\ control = "doom" /\ ~(path_started /\ doom_frames)
    /\ CleanUp("camera", media_restored)

(* The game's frame is wanted: for the melt in doom_pixels, else in pixels. *)
Present ==
    /\ wpc = "pass" /\ path_started /\ doom_frames
    /\ IF control = "exit"
       THEN wpc' = "melt" /\ UNCHANGED frameVars
       ELSE wpc' = "frame" /\ BeginConvert(IF control = "entry" THEN doom_pixels ELSE pixels)
    /\ UNCHANGED <<held, session, pictures, screen, markers, kind, attempt, control, melt, fresh, course>>

Publish(picture) == shown' = picture /\ shown_in' = control

(* Mutant of PresentFrame: what was converted is published, stable or not. *)
PresentFrameUnstable ==
    /\ wpc = "frame" /\ TakeFrame
    /\ IF control = "entry"
       THEN doom_pixels' = image /\ wpc' = "melt" /\ UNCHANGED <<pixels, screen>>
       ELSE /\ pixels' = image /\ UNCHANGED doom_pixels
            /\ Publish(image) /\ wpc' = "pass"
    /\ UNCHANGED <<held, session, markers, kind, attempt, control, melt, fresh, course>>

(* convert_doom_frame has returned. *)
PresentFrame ==
    /\ wpc = "frame" /\ TakeFrame
    /\ IF control = "entry"
       THEN doom_pixels' = image /\ wpc' = "melt" /\ UNCHANGED <<pixels, screen>>
       ELSE /\ pixels' = image /\ UNCHANGED doom_pixels
            /\ \/ result = "retry" /\ wpc' = "pass" /\ UNCHANGED <<screen>>
               \/ result = "new" /\ Publish(image) /\ wpc' = "pass"
               \/ result = "new" /\ wpc' = "broken" /\ UNCHANGED screen
    /\ UNCHANGED <<held, session, markers, kind, attempt, control, melt, fresh, course>>

(* The first update may come before the melt's clock has ticked. *)
MeltWaits ==
    /\ wpc = "melt" /\ fresh
    /\ fresh' = FALSE /\ wpc' = "pass"
    /\ UNCHANGED <<frameVars, held, session, pictures, screen, markers, kind, attempt, control, melt, course>>

Advanced(t) == melt' = AdvanceBy(melt, t) /\ fresh' = FALSE

(* Mutant of MeltMoves: the ticks are lost. *)
MeltMovesNot(t) ==
    /\ wpc = "melt" /\ ~Done(AdvanceBy(melt, t))
    /\ fresh' = FALSE /\ pixels' = doom_pixels
    /\ Publish(doom_pixels) /\ wpc' = "pass"
    /\ UNCHANGED <<frameVars, held, session, doom_pixels, markers, kind, attempt, control, melt, course>>

(* update_entry_melt and update_exit_melt before their last tick. *)
MeltMoves(t) ==
    /\ wpc = "melt" /\ Advanced(t) /\ ~Done(melt')
    /\ pixels' = doom_pixels /\ Publish(doom_pixels) /\ wpc' = "pass"
    /\ UNCHANGED <<frameVars, held, session, doom_pixels, markers, kind, attempt, control, course>>

(* The composed picture could not be published. *)
MeltFails(t) ==
    /\ wpc = "melt" /\ Advanced(t)
    /\ pixels' = doom_pixels /\ wpc' = "broken"
    /\ UNCHANGED <<frameVars, held, session, doom_pixels, screen, markers, kind, attempt, control, course>>

(* Every column is down: only the game is left. *)
EntryDone(t) ==
    /\ wpc = "melt" /\ control = "entry" /\ Advanced(t) /\ Done(melt')
    /\ pixels' = doom_pixels /\ Publish(doom_pixels)
    /\ control' = "doom" /\ entry_melt' = FALSE /\ buffers' = buffers \ {"camera"}
    /\ wpc' = "pass"
    /\ ResetSource
    /\ UNCHANGED <<held, doom_frames, source, doom_pixels, markers, kind, attempt, course>>

(* Every column is down: nothing is left, and the path goes. *)
ExitDone(t) ==
    /\ wpc = "melt" /\ control = "exit" /\ Advanced(t) /\ Done(melt')
    /\ pixels' = Blank /\ Publish(Blank) /\ wpc' = "ending"
    /\ UNCHANGED <<frameVars, held, session, doom_pixels, markers, kind, attempt, control, course>>

EndExit ==
    /\ wpc = "ending"
    /\ \E stop, close, free \in BOOLEAN :
         /\ Cleanup(stop, close, free, media_restored)
         /\ IF Complete(stop, close, free) THEN wpc' = "pass" /\ control' = "camera" /\ kind' = "none"
                                           ELSE wpc' = "broken" /\ UNCHANGED <<control, kind>>
    /\ UNCHANGED <<attempt, melt, fresh, course>>

(* doom-update-failed *)
UpdateFailed ==
    /\ wpc = "broken"
    /\ CleanUp("camera", media_restored)

-----------------------------------------------------------------------------
Step ==
    \/ OpenSource \/ Allocate \/ AllocateFails \/ TryFrame \/ GotFrame \/ StartFailed
    \/ (\E at \in {"open", "set", "start", "prime", "none"} : StartPath(at))
    \/ Present \/ PresentFrame \/ MeltWaits \/ EndExit \/ UpdateFailed \/ Leave
    \/ (\E t \in TICKS : MeltMoves(t) \/ MeltFails(t) \/ EntryDone(t) \/ ExitDone(t))
    \/ (Convert /\ UNCHANGED mediaVars)

Asked ==
    \/ EntryRequested \/ Stop \/ Quit \/ PtzCamera \/ ResetStats \/ BeginExitMelt \/ BeginExitFails \/ AnimationFails
    \/ \E k \in {"doom", "test", "alloc"} : StartCommand(k)

Exited == wpc = "exited" /\ UNCHANGED vars

Next == Step \/ Asked \/ (Game /\ UNCHANGED mediaVars) \/ Exited

(* The worker's loop never waits for anybody; it presents in every pass in which
   a frame interval has gone by. *)
Spec == Init /\ [][Next]_vars /\ WF_vars(Step)

-----------------------------------------------------------------------------
TypeOK ==
    /\ FrameTypeOK
    /\ wpc \in {"pass", "source", "alloc", "stable", "await", "path", "fail", "frame", "melt", "ending", "broken", "exited"}
    /\ kind \in {"none", "entry", "doom", "test", "alloc", "ptz"} /\ control \in {"camera", "entry", "doom", "exit"}
    /\ {allocated, path_open, path_started, doom_frames, entry_melt, source, stuck} \subseteq BOOLEAN
    /\ media_active \in BOOLEAN /\ media_restored \in BOOLEAN
    /\ hd \in {"closed", "open", "started"} /\ melt \in Rows /\ fresh \in BOOLEAN /\ attempt \in 0 .. ATTEMPTS
    /\ buffers \subseteq {"pixels", "doom", "camera"}
    /\ {pixels, doom_pixels, shown} \subseteq [CELLS -> 0 .. MAX_FRAMES]
    /\ shown_in \in {"camera", "entry", "doom", "exit"}
    /\ quit \in {"no", "yes", "late"} /\ sessions \in 0 .. MAX_SESSIONS

Whole(picture) == \E n \in 0 .. MAX_FRAMES : \A c \in CELLS : picture[c] = n

(* In the game, and under the doom command, every picture published is one frame
   of the game.  (The melts publish what a rejected conversion left behind:
   update_entry_melt goes on after it and begin_exit_melt copies it.) *)
GameUntorn == shown_in \in {"camera", "doom"} => Whole(shown)

(* The picture never goes back in the game's time: not from the melts to the
   game, not from the game to the exit melt, not from one session to the next. *)
NeverBack ==
    [][shown # Blank /\ shown' # shown /\ shown' # Blank => \A c \in CELLS : shown'[c] >= shown[c]]_vars

(* The hardware never has a path over memory that has been given back, whatever
   calls of cleanup_media fail, and the worker knows of every path. *)
PathHasMemory == hd # "closed" => allocated /\ path_open

(* The worker thread, whose library is unloaded next, ends only when the path is
   closed, the memory is freed and no buffer or mapping is left.  The cleanup after
   the loop may fail and the thread ends all the same, so this rests on the refusal
   of a quit that could not clean up; it excepts an entry melt begun in the very pass
   that quits, which the coordinator, who has removed game.ready, does not allow. *)
ExitedClean ==
    wpc = "exited" /\ quit # "late" =>
        hd = "closed" /\ ~allocated /\ buffers = {} /\ ~source /\ ~media_active /\ media_restored

(* In camera mode the camera is not covered, except by a command of the supervisor,
   by a session whose mode the coordinator has taken away just before it stops it,
   or by a path that a cleanup could not stop or close.  So a start that fails
   anywhere takes down what it had put up. *)
CameraClear ==
    control = "camera" /\ wpc = "pass" /\ hd # "closed" => stuck \/ kind \in {"doom", "test", "ptz"}

(* A melt comes to its end, unless the media were stopped under it. *)
MeltEnds == (control \in {"entry", "exit"} /\ doom_frames) ~> (control \in {"camera", "doom"} \/ ~doom_frames)
=============================================================================
