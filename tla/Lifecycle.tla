----------------------------- MODULE Lifecycle -----------------------------
(***************************************************************************)
(* One armed run of E1 Doom: the injected worker thread                     *)
(* (e1-doom-injected.c), the coordinator script (target/e1-doom-runtime),   *)
(* the standalone controller and the game, which meet only in marker files  *)
(* under the state directory.                                               *)
(*                                                                         *)
(* Each process is a program counter; one step is what the process does     *)
(* between two accesses to a file another process also touches.  What PTZ   *)
(* gestures the user makes is a free choice (RuntimeControl has the         *)
(* recogniser).  Everything else that may go wrong - a cleanup of the       *)
(* worker, a start of the OSG, the game, the heartbeat, the controller, a   *)
(* worker that needs longer than the coordinator waits - is a kind of fault.*)
(***************************************************************************)
EXTENDS Naturals, FiniteSets

CONSTANTS
  MAX_REQUESTS,  \* bound: dashboard clicks
  MAX_GESTURES,  \* bound: PTZ enter or exit gestures
  FAULTS,        \* the kinds of fault that may happen
  MAX_FAULTS     \* bound: kinds of fault in a behaviour

ASSUME LifecycleAssumption ==
    /\ FAULTS \subseteq {"heartbeat", "media", "game", "controller", "cleanup", "slow"}
    /\ MAX_REQUESTS \in Nat /\ MAX_GESTURES \in Nat /\ MAX_FAULTS \in Nat

VARIABLES
  \* marker files
  runtime_mode,                       \* contents of runtime.mode; "" while truncated
  runtime_start, dashboard_start, dashboard_camera,
  game_ready, audio_active, injected_error, start_failed,
  command,                            \* contents of injected.command, or "none"
  shm,                                \* framebuffer.shm and audio.pcm exist
  \* the worker
  wpc, wcmd,
  wmode,                              \* control.mode
  ptz_mode,                           \* what the PTZ hook does with a command
  media,                              \* "live": OSG path started with a Doom source;
                                      \* "stuck": a failed cleanup has left part of it
  audio,                              \* "on": the AAC hook substitutes the game's ring;
                                      \* "stuck": passes the microphone, ring still mapped
  wjob,                               \* a write of runtime.mode under way
  quit,                               \* this pass is the last one
  \* the coordinator
  cpc, cmode, cret, audio_doom, game_pid, stop_requested,
  outcome,                            \* runtime-restored or runtime-cleanup.failed
  \* the game and the controller
  game, http,
  \* bounds and history
  requests, gestures,
  faults                              \* kinds of fault that have happened

files == <<runtime_mode, runtime_start, dashboard_start, dashboard_camera, game_ready,
           audio_active, injected_error, start_failed, command, shm>>
worker == <<wpc, wcmd, wmode, ptz_mode, media, audio, wjob, quit>>
coordinator == <<cpc, cmode, cret, audio_doom, game_pid, stop_requested, outcome>>
bounds == <<requests, gestures, faults>>
vars == <<files, worker, coordinator, game, http, bounds>>

NoJob == [value |-> "", next |-> ""]
DoomModes == {"entry-melt", "doom", "exit-melt"}

Init ==
    /\ runtime_mode = "camera-armed"
    /\ runtime_start = FALSE /\ dashboard_start = FALSE /\ dashboard_camera = FALSE
    /\ game_ready = FALSE /\ audio_active = FALSE /\ injected_error = FALSE
    /\ start_failed = FALSE /\ command = "none" /\ shm = FALSE
    /\ wpc = "command" /\ wcmd = "none" /\ wmode = "camera" /\ ptz_mode = "camera"
    /\ media = "none" /\ audio = "unused" /\ wjob = NoJob /\ quit = FALSE
    /\ cpc = "loop" /\ cmode = "camera-armed" /\ cret = "rearm"
    /\ audio_doom = FALSE /\ game_pid = FALSE /\ stop_requested = FALSE /\ outcome = "none"
    /\ game = "none" /\ http = "none"
    /\ requests = 0 /\ gestures = 0 /\ faults = {}

(* Every kind of K happens in this step; what has failed once may fail again. *)
Faults(K) ==
    /\ K \subseteq FAULTS /\ Cardinality(faults \cup K) <= MAX_FAULTS
    /\ faults' = faults \cup K

-----------------------------------------------------------------------------
(* The injected worker: one pass of its loop reads a command, moves the
   lifecycle and presents a frame. *)

(* write_marker("runtime.mode", v): open with O_TRUNC here, the write itself
   in WriteMode; then the worker goes on at pc. *)
TruncateMode(v, pc) ==
    /\ runtime_mode' = ""
    /\ wjob' = [value |-> v, next |-> pc]
    /\ wpc' = "write"

WriteMode ==
    /\ wpc = "write"
    /\ runtime_mode' = wjob.value
    /\ wpc' = wjob.next
    /\ wjob' = NoJob
    /\ UNCHANGED <<runtime_start, dashboard_start, dashboard_camera, game_ready, audio_active,
                   injected_error, start_failed, command, shm, wcmd, wmode, ptz_mode, media, audio,
                   quit, coordinator, game, http, bounds>>

(* cleanup_media returns 0 or, with something to give back, -1: then the frame
   source is closed all the same. *)
CleanMedia(ok) ==
    /\ ok \/ media # "none"
    /\ media' = IF ok THEN "none" ELSE "stuck"

(* cleanup_audio: once the hook has been used, a callback that stays in it makes
   it return -1; the microphone has the stream back but ring and marker stay. *)
HoldsAudio == audio \in {"on", "stuck"}
CleanAudio(ok) ==
    /\ ok \/ audio # "unused"
    /\ audio' = IF ok THEN (IF audio = "unused" THEN "unused" ELSE "off")
                ELSE (IF audio = "on" THEN "stuck" ELSE audio)
    /\ audio_active' = (audio_active /\ ~ok)

Failed(ok) == IF ok THEN {} ELSE {"cleanup"}

(* The heartbeat of the supervisor stood still for four seconds: media and
   audio go back to the camera, the runtime state stays. *)
HeartbeatDeadman ==
    /\ wpc = "command" /\ ~quit /\ (media # "none" \/ HoldsAudio)
    /\ \E aok, mok \in BOOLEAN :
         /\ CleanAudio(aok) /\ CleanMedia(mok) /\ Faults({"heartbeat"} \cup Failed(aok /\ mok))
         /\ injected_error' = (injected_error \/ ~(aok /\ mok))
    /\ UNCHANGED <<runtime_mode, runtime_start, dashboard_start, dashboard_camera, game_ready,
                   start_failed, command, shm, wpc, wcmd, wmode, ptz_mode, wjob, quit,
                   coordinator, game, http, requests, gestures>>

(* read_command opens and reads the file ... *)
ReadCommand ==
    /\ wpc = "command" /\ ~quit
    /\ wcmd' = command
    /\ wpc' = IF command = "none" THEN "lifecycle" ELSE "unlink"
    /\ UNCHANGED <<files, wmode, ptz_mode, media, audio, wjob, quit, coordinator, game, http, bounds>>

(* ... and unlinks whatever has the name by then. *)
UnlinkCommand ==
    /\ wpc = "unlink"
    /\ command' = "none"
    /\ wpc' = "exec"
    /\ UNCHANGED <<runtime_mode, runtime_start, dashboard_start, dashboard_camera, game_ready,
                   audio_active, injected_error, start_failed, shm, wcmd, wmode, ptz_mode, media,
                   audio, wjob, quit, coordinator, game, http, bounds>>

(* start_stock_audio_doom; a failure reports an error and runs cleanup_audio. *)
StartAudio ==
    /\ wcmd = "audio-stock-doom"
    /\ \/ /\ ~HoldsAudio /\ shm
          /\ audio' = "on" /\ audio_active' = TRUE
          /\ UNCHANGED <<injected_error, faults>>
       \/ /\ HoldsAudio \/ ~shm
          /\ \E ok \in BOOLEAN : CleanAudio(ok) /\ Faults(Failed(ok))
          /\ injected_error' = TRUE
    /\ wpc' = "lifecycle"
    /\ UNCHANGED <<runtime_mode, wmode, ptz_mode, media, wjob, quit>>

(* A failed cleanup is reported and nothing else; the next command retries it. *)
StopAudio ==
    /\ wcmd \in {"audio-stop", "stop"}
    /\ \E aok, mok \in BOOLEAN :
         /\ CleanAudio(aok)
         /\ IF wcmd = "stop" THEN CleanMedia(mok) ELSE mok /\ UNCHANGED media
         /\ Faults(Failed(aok /\ mok))
         /\ injected_error' = (injected_error \/ ~(aok /\ mok))
    /\ wpc' = "lifecycle"
    /\ UNCHANGED <<runtime_mode, wmode, ptz_mode, wjob, quit>>

PtzCamera ==
    /\ wcmd = "ptz-camera"
    /\ wmode' = "camera" /\ ptz_mode' = "camera"
    /\ TruncateMode("camera-armed", "lifecycle")
    /\ UNCHANGED <<audio_active, injected_error, media, audio, quit, faults>>

(* quit: the loop ends with this pass, but only when both cleanups returned 0. *)
Quit ==
    /\ wcmd = "quit"
    /\ \E aok, mok \in BOOLEAN :
         /\ CleanAudio(aok) /\ CleanMedia(mok) /\ Faults(Failed(aok /\ mok))
         /\ injected_error' = (injected_error \/ ~(aok /\ mok))
         /\ quit' = (aok /\ mok)
    /\ wpc' = "lifecycle"
    /\ UNCHANGED <<runtime_mode, wmode, ptz_mode, wjob>>

Execute ==
    /\ wpc = "exec"
    /\ StartAudio \/ StopAudio \/ PtzCamera \/ Quit
    /\ wcmd' = "none"                      \* the buffer is local to the pass
    /\ UNCHANGED <<runtime_start, dashboard_start, dashboard_camera, game_ready, start_failed, command,
                   shm, coordinator, game, http, requests, gestures>>

(* After the loop: both cleanups again, whatever they return; the hook is off
   and the marker files the worker shares are removed. *)
Leave ==
    /\ wpc = "command" /\ quit
    /\ \E aok, mok \in BOOLEAN :
         /\ CleanAudio(aok) /\ CleanMedia(mok) /\ Faults(Failed(aok /\ mok))
         /\ injected_error' = (injected_error \/ ~(aok /\ mok))
    /\ ptz_mode' = "off" /\ runtime_mode' = "missing" /\ wpc' = "exited"
    /\ runtime_start' = FALSE /\ dashboard_start' = FALSE /\ dashboard_camera' = FALSE
    /\ UNCHANGED <<game_ready, start_failed, command, shm, wcmd, wmode, wjob, quit, coordinator, game,
                   http, requests, gestures>>

(* Requests of this pass in the order of the code: dashboard.start,
   dashboard.camera, then the gesture g found by draining the PTZ ring. *)
ModeAfter(g) ==
    LET m1 == IF dashboard_start /\ wmode = "camera" THEN "entry" ELSE wmode
        m2 == IF dashboard_camera /\ m1 = "doom" THEN "exit" ELSE m1
    IN  IF g /\ m2 = "camera" THEN "entry" ELSE IF g /\ m2 = "doom" THEN "exit" ELSE m2

Lifecycle ==
    /\ wpc = "lifecycle"
    /\ dashboard_start' = FALSE /\ dashboard_camera' = FALSE
    /\ \E g \in BOOLEAN :
         /\ g => gestures < MAX_GESTURES
         /\ gestures' = IF g THEN gestures + 1 ELSE gestures
         /\ \/ /\ ModeAfter(g) = wmode                          \* nothing to do
               /\ wpc' = "present"
               /\ UNCHANGED <<runtime_mode, runtime_start, injected_error, wmode, ptz_mode, media,
                              wjob, faults>>
            \/ /\ ModeAfter(g) # wmode /\ wmode = "camera" /\ ~game_ready  \* deferred start
               /\ runtime_start' = TRUE
               /\ wpc' = "present"
               /\ UNCHANGED <<runtime_mode, injected_error, wmode, ptz_mode, media, wjob, faults>>
            \/ /\ ModeAfter(g) # wmode /\ wmode = "camera" /\ game_ready   \* begin_entry_melt
               /\ wmode' = "entry" /\ ptz_mode' = "doom"
               /\ TruncateMode("entry-melt", "media")
               /\ UNCHANGED <<runtime_start, injected_error, media, faults>>
            \/ /\ ModeAfter(g) # wmode /\ wmode = "doom" /\ media = "live" \* begin_exit_melt
               /\ wmode' = "exit"
               /\ TruncateMode("exit-melt", "present")
               /\ UNCHANGED <<runtime_start, injected_error, ptz_mode, media, faults>>
            \/ /\ ModeAfter(g) # wmode /\ wmode = "doom" /\ media # "live" \* it fails
               /\ \E ok \in BOOLEAN : CleanMedia(ok) /\ Faults(Failed(ok))
               /\ injected_error' = TRUE
               /\ wmode' = "camera" /\ ptz_mode' = "camera"
               /\ TruncateMode("camera-armed", "present")
               /\ UNCHANGED runtime_start
    /\ UNCHANGED <<game_ready, audio_active, start_failed, command, shm, wcmd, audio, quit,
                   coordinator, game, http, requests>>

(* The rest of begin_entry_melt: open the frame source and start the OSG, which
   is refused over anything an earlier cleanup has left.  With no source nothing
   is allocated that could fail to be given back. *)
StartMedia ==
    /\ wpc = "media"
    /\ \/ /\ shm /\ media = "none"
          /\ media' = "live" /\ wpc' = "present"
          /\ UNCHANGED <<runtime_mode, injected_error, wmode, ptz_mode, wjob, faults>>
       \/ /\ \E ok \in BOOLEAN :
               /\ ok \/ shm \/ media # "none"
               /\ media' = IF ok THEN "none" ELSE "stuck"
               /\ injected_error' = (injected_error \/ ~ok)
               /\ Faults((IF shm /\ media = "none" THEN {"media"} ELSE {}) \cup Failed(ok))
          /\ wmode' = "camera" /\ ptz_mode' = "camera"
          /\ TruncateMode("camera-armed", "report")
    /\ UNCHANGED <<runtime_start, dashboard_start, dashboard_camera, game_ready, audio_active,
                   start_failed, command, shm, wcmd, audio, quit, coordinator, game, http,
                   requests, gestures>>

(* The failure is reported after runtime.mode has changed. *)
ReportError ==
    /\ wpc = "report"
    /\ injected_error' = TRUE
    /\ wpc' = "present"
    /\ UNCHANGED <<runtime_mode, runtime_start, dashboard_start, dashboard_camera, game_ready,
                   audio_active, start_failed, command, shm, wcmd, wmode, ptz_mode, media, audio,
                   wjob, quit, coordinator, game, http, bounds>>

(* A pass that presents a frame, or has none to present. *)
Present ==
    /\ wpc = "present"
    /\ wpc' = "command"
    /\ UNCHANGED <<files, wcmd, wmode, ptz_mode, media, audio, wjob, quit, coordinator, game, http,
                   bounds>>

(* update_entry_melt, the pass on which every column has fallen. *)
EntryDone ==
    /\ wpc = "present" /\ media = "live" /\ wmode = "entry"
    /\ wmode' = "doom"
    /\ TruncateMode("doom", "command")
    /\ UNCHANGED <<runtime_start, dashboard_start, dashboard_camera, game_ready, audio_active,
                   injected_error, start_failed, command, shm, wcmd, ptz_mode, media, audio, quit,
                   coordinator, game, http, bounds>>

(* Mutant of ExitDone: the marker takes the name of control.mode. *)
ExitDoneWrongMarker ==
    /\ wpc = "present" /\ media = "live" /\ wmode = "exit"
    /\ media' = "none" /\ wmode' = "camera" /\ ptz_mode' = "camera"
    /\ TruncateMode(IF ~game_ready THEN "camera-armed" ELSE "camera", "command")
    /\ UNCHANGED <<runtime_start, dashboard_start, dashboard_camera, game_ready, audio_active,
                   injected_error, start_failed, command, shm, wcmd, audio, quit,
                   coordinator, game, http, bounds>>

(* update_exit_melt, likewise: the OSG is gone before the marker changes. *)
ExitDone ==
    /\ wpc = "present" /\ media = "live" /\ wmode = "exit"
    /\ media' = "none" /\ wmode' = "camera" /\ ptz_mode' = "camera"
    /\ TruncateMode(IF game_ready THEN "stopping" ELSE "camera-armed", "command")
    /\ UNCHANGED <<runtime_start, dashboard_start, dashboard_camera, game_ready, audio_active,
                   injected_error, start_failed, command, shm, wcmd, audio, quit,
                   coordinator, game, http, bounds>>

(* Mutant of PresentFails: the hook is left in Doom mode. *)
PresentFailsKeepsPtz ==
    /\ wpc = "present" /\ media = "live" /\ Faults({"media"})
    /\ injected_error' = TRUE
    /\ media' = "none" /\ wmode' = "camera" /\ UNCHANGED ptz_mode
    /\ TruncateMode("camera-armed", "command")
    /\ UNCHANGED <<runtime_start, dashboard_start, dashboard_camera, game_ready, audio_active,
                   start_failed, command, shm, wcmd, audio, quit, coordinator, game, http,
                   requests, gestures>>

(* frame_status < 0 - of the media calls, or of the cleanup at the end of the
   exit melt: the worker reports it, tries the cleanup (again) and is back in
   camera mode whatever came of it. *)
PresentFails ==
    /\ wpc = "present" /\ media = "live"
    /\ \E cause \in {"media", "cleanup"}, ok \in BOOLEAN :
         /\ cause = "cleanup" => wmode = "exit"
         /\ Faults({cause} \cup Failed(ok)) /\ CleanMedia(ok)
    /\ injected_error' = TRUE
    /\ wmode' = "camera" /\ ptz_mode' = "camera"
    /\ TruncateMode("camera-armed", "command")
    /\ UNCHANGED <<runtime_start, dashboard_start, dashboard_camera, game_ready, audio_active,
                   start_failed, command, shm, wcmd, audio, quit, coordinator, game, http,
                   requests, gestures>>

-----------------------------------------------------------------------------
(* The coordinator script. *)

Go(pc) == cpc' = pc
Exit == cpc' = "cl_audio"                   \* exit: the EXIT trap runs cleanup

(* A bounded wait for done, or a sleep, is over.  Unless it is slow, the worker
   has dealt with every command by the time a wait runs out. *)
Answered ==
    /\ command = "none" /\ wpc \notin {"unlink", "exec", "write", "media", "report"}
    /\ quit => wpc = "exited"
Over(done) == IF done \/ Answered THEN UNCHANGED faults ELSE Faults({"slow"})

(* The top of the loop: a stop request, a controller found dead, or a look at
   runtime.mode. *)
ReadMode ==
    /\ cpc = "loop"
    /\ \/ stop_requested /\ Exit /\ UNCHANGED <<cmode, faults>>
       \/ ~stop_requested /\ Faults({"controller"}) /\ Exit /\ UNCHANGED cmode
       \/ ~stop_requested /\ Go("case") /\ cmode' = runtime_mode /\ UNCHANGED faults
    /\ UNCHANGED <<files, worker, cret, audio_doom, game_pid, stop_requested, outcome, game, http,
                   requests, gestures>>

(* Mutant of CaseMode: stopping is left to run out by itself. *)
CaseModeIgnoresStopping ==
    /\ cpc = "case"
    /\ \/ /\ cmode \in DoomModes
          /\ IF ~game_pid \/ game = "dead" THEN Exit ELSE Go("error")
          /\ UNCHANGED command
       \/ /\ cmode \in {"camera-armed"}
          /\ IF audio_doom THEN Go("unarm") /\ command' = "audio-stop"
             ELSE Go("reap") /\ UNCHANGED command
       \/ /\ cmode \in {"starting", "stopping"} /\ Go("error") /\ UNCHANGED command
       \/ /\ cmode \in {"", "missing"} /\ Exit /\ UNCHANGED command
    /\ cret' = "rearm"
    /\ UNCHANGED <<runtime_mode, runtime_start, dashboard_start, dashboard_camera, game_ready,
                   audio_active, injected_error, start_failed, shm, worker, cmode, audio_doom,
                   game_pid, stop_requested, outcome, game, http, bounds>>

(* The case of the main loop.  Its Doom branch would arm the audio hook when
   audio_doom is 0; GameHasAudio shows that it never is. *)
CaseMode ==
    /\ cpc = "case"
    /\ \/ /\ cmode \in DoomModes
          /\ IF ~game_pid \/ game = "dead" THEN Exit ELSE Go("error")
          /\ UNCHANGED command
       \/ /\ cmode \in {"stopping", "camera-armed"}
          /\ IF audio_doom THEN Go("unarm") /\ command' = "audio-stop"
             ELSE Go("reap") /\ UNCHANGED command
       \/ /\ cmode = "starting" /\ Go("error") /\ UNCHANGED command
       \/ /\ cmode \in {"", "missing"} /\ Exit /\ UNCHANGED command
    /\ cret' = "rearm"
    /\ UNCHANGED <<runtime_mode, runtime_start, dashboard_start, dashboard_camera, game_ready,
                   audio_active, injected_error, start_failed, shm, worker, cmode, audio_doom,
                   game_pid, stop_requested, outcome, game, http, bounds>>

(* Mutant of UnarmAudio: the microphone is taken to be back at once. *)
UnarmAudioNoWait ==
    /\ cpc = "unarm"
    /\ audio_doom' = FALSE /\ Go("reap")
    /\ UNCHANGED <<files, worker, cmode, cret, game_pid, stop_requested, outcome, game, http, bounds>>

(* The wait for audio.active to go away. *)
UnarmAudio ==
    /\ cpc = "unarm"
    /\ Over(~audio_active)
    /\ \/ ~audio_active /\ audio_doom' = FALSE /\ Go("reap")
       \/ audio_active /\ Exit /\ UNCHANGED audio_doom
    /\ UNCHANGED <<files, worker, cmode, cret, game_pid, stop_requested, outcome, game, http,
                   requests, gestures>>

(* Mutant of ReapGame: the pid is dropped without ending the child. *)
ReapGameForgotten ==
    /\ cpc = "reap"
    /\ IF game_pid \/ cret = "finalize"
       THEN /\ UNCHANGED game /\ game_pid' = FALSE
            /\ game_ready' \in {FALSE, game_ready}
            /\ Go("rm")
       ELSE Go(cret) /\ UNCHANGED <<game, game_pid, game_ready>>
    /\ UNCHANGED <<runtime_mode, runtime_start, dashboard_start, dashboard_camera, audio_active,
                   injected_error, start_failed, command, shm, worker, cmode, cret, audio_doom,
                   stop_requested, outcome, http, bounds>>

(* stop_game: a clean exit of the game unlinks game.ready itself, a killed one
   leaves it to the rm. *)
ReapGame ==
    /\ cpc = "reap"
    /\ IF game_pid \/ cret = "finalize"
       THEN /\ game' = "none" /\ game_pid' = FALSE
            /\ game_ready' \in {FALSE, game_ready}
            /\ Go("rm")
       ELSE Go(cret) /\ UNCHANGED <<game, game_pid, game_ready>>
    /\ UNCHANGED <<runtime_mode, runtime_start, dashboard_start, dashboard_camera, audio_active,
                   injected_error, start_failed, command, shm, worker, cmode, cret, audio_doom,
                   stop_requested, outcome, http, bounds>>

RemoveGameFiles ==
    /\ cpc = "rm"
    /\ game_ready' = FALSE /\ shm' = FALSE
    /\ Go(cret)
    /\ UNCHANGED <<runtime_mode, runtime_start, dashboard_start, dashboard_camera, audio_active,
                   injected_error, start_failed, command, worker, cmode, cret, audio_doom, game_pid,
                   stop_requested, outcome, game, http, bounds>>

(* stopping becomes camera-armed, whatever the file holds by now. *)
Rearm ==
    /\ cpc = "rearm"
    /\ runtime_mode' = IF cmode = "stopping" THEN "camera-armed" ELSE runtime_mode
    /\ cmode' = "camera-armed"
    /\ Go("request")
    /\ UNCHANGED <<runtime_start, dashboard_start, dashboard_camera, game_ready, audio_active,
                   injected_error, start_failed, command, shm, worker, cret, audio_doom, game_pid,
                   stop_requested, outcome, game, http, bounds>>

TakeRequest ==
    /\ cpc = "request"
    /\ Go(IF runtime_start THEN "clear" ELSE "error")
    /\ runtime_start' = FALSE
    /\ UNCHANGED <<runtime_mode, dashboard_start, dashboard_camera, game_ready, audio_active,
                   injected_error, start_failed, command, shm, worker, cmode, cret, audio_doom,
                   game_pid, stop_requested, outcome, game, http, bounds>>

(* start_game: remove stale markers, ... *)
ClearMarkers ==
    /\ cpc = "clear"
    /\ game_ready' = FALSE /\ start_failed' = FALSE /\ shm' = FALSE
    /\ dashboard_start' = FALSE /\ dashboard_camera' = FALSE
    /\ Go("spawn")
    /\ UNCHANGED <<runtime_mode, runtime_start, audio_active, injected_error, command, worker,
                   cmode, cret, audio_doom, game_pid, stop_requested, outcome, game, http, bounds>>

(* ... announce the start and spawn the game. *)
SpawnGame ==
    /\ cpc = "spawn"
    /\ runtime_mode' = "starting"
    /\ game' = "booting" /\ game_pid' = TRUE
    /\ Go("boot")
    /\ UNCHANGED <<runtime_start, dashboard_start, dashboard_camera, game_ready, audio_active,
                   injected_error, start_failed, command, shm, worker, cmode, cret, audio_doom,
                   stop_requested, outcome, http, bounds>>

(* The 15 second readiness gate. *)
AwaitGame ==
    /\ cpc = "boot"
    /\ \/ game_ready /\ shm /\ command' = "audio-stock-doom" /\ Go("first_arm")
       \/ ~game_ready /\ Go("fail") /\ UNCHANGED command
    /\ UNCHANGED <<runtime_mode, runtime_start, dashboard_start, dashboard_camera, game_ready,
                   audio_active, injected_error, start_failed, shm, worker, cmode, cret, audio_doom,
                   game_pid, stop_requested, outcome, game, http, bounds>>

(* Mutant of ArmFirst: dashboard.start is removed with runtime.start. *)
ArmFirstNoRequest ==
    /\ cpc = "first_arm" /\ Over(audio_active)
    /\ \/ /\ audio_active
          /\ audio_doom' = TRUE /\ runtime_start' = FALSE /\ dashboard_start' = FALSE
          /\ Go("error")
       \/ /\ ~audio_active
          /\ Go("fail") /\ UNCHANGED <<audio_doom, runtime_start, dashboard_start>>
    /\ UNCHANGED <<runtime_mode, dashboard_camera, game_ready, audio_active, injected_error,
                   start_failed, command, shm, worker, cmode, cret, game_pid, stop_requested, outcome,
                   game, http, requests, gestures>>

(* Mutant of ArmFirst: the coordinator does not note that it has armed. *)
ArmFirstUnnoted ==
    /\ cpc = "first_arm" /\ Over(audio_active)
    /\ \/ /\ audio_active
          /\ runtime_start' = FALSE /\ dashboard_start' = TRUE /\ UNCHANGED audio_doom
          /\ Go("error")
       \/ /\ ~audio_active
          /\ Go("fail") /\ UNCHANGED <<audio_doom, runtime_start, dashboard_start>>
    /\ UNCHANGED <<runtime_mode, dashboard_camera, game_ready, audio_active, injected_error,
                   start_failed, command, shm, worker, cmode, cret, game_pid, stop_requested, outcome,
                   game, http, requests, gestures>>

(* Audio first, then the request that makes the worker start the melt. *)
ArmFirst ==
    /\ cpc = "first_arm" /\ Over(audio_active)
    /\ \/ /\ audio_active
          /\ audio_doom' = TRUE /\ runtime_start' = FALSE /\ dashboard_start' = TRUE
          /\ Go("error")
       \/ /\ ~audio_active
          /\ Go("fail") /\ UNCHANGED <<audio_doom, runtime_start, dashboard_start>>
    /\ UNCHANGED <<runtime_mode, dashboard_camera, game_ready, audio_active, injected_error,
                   start_failed, command, shm, worker, cmode, cret, game_pid, stop_requested, outcome,
                   game, http, requests, gestures>>

FailStart ==
    /\ cpc = "fail"
    /\ start_failed' = TRUE /\ command' = "audio-stop"
    /\ Go("fail_wait")
    /\ UNCHANGED <<runtime_mode, runtime_start, dashboard_start, dashboard_camera, game_ready,
                   audio_active, injected_error, shm, worker, cmode, cret, audio_doom, game_pid,
                   stop_requested, outcome, game, http, bounds>>

FailWait ==
    /\ cpc = "fail_wait" /\ Over(~audio_active)
    /\ audio_doom' = FALSE /\ cret' = "failed"
    /\ Go("reap")
    /\ UNCHANGED <<files, worker, cmode, game_pid, stop_requested, outcome, game, http, requests,
                   gestures>>

StartFailed ==
    /\ cpc = "failed"
    /\ runtime_mode' = "camera-armed"
    /\ Go("error")
    /\ UNCHANGED <<runtime_start, dashboard_start, dashboard_camera, game_ready, audio_active,
                   injected_error, start_failed, command, shm, worker, cmode, cret, audio_doom,
                   game_pid, stop_requested, outcome, game, http, bounds>>

CheckError ==
    /\ cpc = "error"
    /\ IF injected_error THEN Exit ELSE Go("loop")
    /\ UNCHANGED <<files, worker, cmode, cret, audio_doom, game_pid, stop_requested, outcome, game,
                   http, bounds>>

(* TERM, INT or HUP while request_stop is their handler; on_exit puts the
   default action back before cleanup. *)
RequestStop ==
    /\ ~stop_requested /\ cpc # "cl_audio" /\ cret # "finalize"
    /\ stop_requested' = TRUE
    /\ UNCHANGED <<files, worker, cpc, cmode, cret, audio_doom, game_pid, outcome, game, http, bounds>>

(* cleanup: each step sends a command and gives it time.  Between stop_game
   and the quit of e1-injected-finalize both instruction patches are taken out;
   that part has no effect on the state modelled here. *)
CleanupSend ==
    /\ \/ /\ cpc = "cl_audio"
          /\ IF audio_active THEN command' = "audio-stop" /\ Go("cl_wait")
             ELSE UNCHANGED command /\ Go("cl_ptz")
       \/ cpc = "cl_ptz" /\ command' = "ptz-camera" /\ Go("cl_ptz_sleep")
       \/ cpc = "cl_stop" /\ command' = "stop" /\ Go("cl_stop_sleep")
       \/ cpc = "finalize" /\ command' = "quit" /\ Go("fin_wait")
       \/ cpc = "fin_again" /\ command' = "quit" /\ Go("fin_wait_again")
    /\ cret' = "finalize"
    /\ UNCHANGED <<runtime_mode, runtime_start, dashboard_start, dashboard_camera, game_ready,
                   audio_active, injected_error, start_failed, shm, worker, cmode, audio_doom,
                   game_pid, stop_requested, outcome, game, http, bounds>>

(* Mutant of CleanupWait: the wait for the worker to leave is not bounded. *)
CleanupWaitForever ==
    /\ \/ cpc = "cl_wait" /\ Over(~audio_active) /\ Go("cl_ptz")
       \/ cpc = "cl_ptz_sleep" /\ Over(FALSE) /\ Go("cl_stop")
       \/ cpc = "cl_stop_sleep" /\ Over(FALSE) /\ Go("reap")
       \/ cpc = "fin_wait" /\ wpc = "exited" /\ UNCHANGED faults /\ Go("verify")
    /\ UNCHANGED <<files, worker, cmode, cret, audio_doom, game_pid, stop_requested, outcome, game,
                   http, requests, gestures>>

(* e1-injected-finalize sends quit once more when the worker is still there. *)
CleanupWait ==
    /\ \/ cpc = "cl_wait" /\ Over(~audio_active) /\ Go("cl_ptz")
       \/ cpc = "cl_ptz_sleep" /\ Over(FALSE) /\ Go("cl_stop")
       \/ cpc = "cl_stop_sleep" /\ Over(FALSE) /\ Go("reap")
       \/ /\ cpc = "fin_wait" /\ Over(wpc = "exited")
          /\ Go(IF wpc = "exited" THEN "verify" ELSE "fin_again")
       \/ cpc = "fin_wait_again" /\ Over(wpc = "exited") /\ Go("verify")
    /\ UNCHANGED <<files, worker, cmode, cret, audio_doom, game_pid, stop_requested, outcome, game,
                   http, requests, gestures>>

(* Mutant of Verify: the waits have been long enough. *)
VerifyTrusts ==
    /\ cpc = "verify"
    /\ outcome' = IF ~audio_active THEN "restored" ELSE "failed"
    /\ Go("down")
    /\ UNCHANGED <<files, worker, cmode, cret, audio_doom, game_pid, stop_requested, game, http,
                   bounds>>

(* thread.exited is there and audio.active is not: the library may be unloaded
   and the watchdog disarmed.  Otherwise runtime-cleanup.failed, and the watchdog
   keeps watch.  The worker's media markers, also tested, follow thread.exited. *)
Verify ==
    /\ cpc = "verify"
    /\ outcome' = IF wpc = "exited" /\ ~audio_active THEN "restored" ELSE "failed"
    /\ Go("down")
    /\ UNCHANGED <<files, worker, cmode, cret, audio_doom, game_pid, stop_requested, game, http,
                   bounds>>

-----------------------------------------------------------------------------
(* The game and the controller. *)

GamePublishes ==
    /\ game = "booting"
    /\ game' = "running" /\ shm' = TRUE /\ game_ready' = TRUE
    /\ UNCHANGED <<runtime_mode, runtime_start, dashboard_start, dashboard_camera, audio_active,
                   injected_error, start_failed, command, worker, coordinator, http, bounds>>

(* The game dies; on a clean exit it unlinks game.ready. *)
GameDies ==
    /\ game \in {"booting", "running"} /\ Faults({"game"})
    /\ game' = "dead" /\ game_ready' \in {FALSE, game_ready}
    /\ UNCHANGED <<runtime_mode, runtime_start, dashboard_start, dashboard_camera, audio_active,
                   injected_error, start_failed, command, shm, worker, coordinator, http,
                   requests, gestures>>

ControllerUp ==
    cret = "finalize" => cpc \in {"cl_wait", "cl_ptz", "cl_ptz_sleep", "cl_stop", "cl_stop_sleep"}

(* /start and /camera (or Quit Game in the menu): the mode is checked when the
   request is routed ... *)
RouteRequest ==
    /\ ControllerUp /\ http = "none" /\ requests < MAX_REQUESTS
    /\ \/ runtime_mode = "camera-armed" /\ http' = "start"
       \/ runtime_mode = "doom" /\ http' = "camera"
    /\ requests' = requests + 1
    /\ UNCHANGED <<files, worker, coordinator, game, gestures, faults>>

(* ... and the marker is written afterwards. *)
WriteRequest ==
    /\ ControllerUp /\ http # "none"
    /\ http' = "none"
    /\ runtime_start' = (runtime_start \/ http = "start")
    /\ dashboard_camera' = (dashboard_camera \/ http = "camera")
    /\ UNCHANGED <<runtime_mode, dashboard_start, game_ready, audio_active, injected_error,
                   start_failed, command, shm, worker, coordinator, game, bounds>>

-----------------------------------------------------------------------------
Worker == WriteMode \/ ReadCommand \/ UnlinkCommand \/ Execute \/ Leave \/ Lifecycle \/ StartMedia
          \/ ReportError \/ Present \/ EntryDone \/ ExitDone \/ PresentFails

Coordinator == ReadMode \/ CaseMode \/ UnarmAudio \/ ReapGame \/ RemoveGameFiles
               \/ Rearm \/ TakeRequest \/ ClearMarkers \/ SpawnGame \/ AwaitGame \/ ArmFirst
               \/ FailStart \/ FailWait \/ StartFailed \/ CheckError \/ CleanupSend \/ CleanupWait
               \/ Verify

(* The script has exited and the worker thread with it. *)
Terminated == cpc = "down" /\ wpc = "exited" /\ UNCHANGED vars

Next == Terminated \/ Worker \/ Coordinator \/ HeartbeatDeadman \/ RequestStop \/ GamePublishes \/ GameDies
        \/ RouteRequest \/ WriteRequest

Spec == Init /\ [][Next]_vars

(* The worker and the coordinator poll forever, a melt has finitely many
   columns to drop, and a routed request is written. *)
FairSpec == Spec /\ WF_vars(Worker) /\ WF_vars(Coordinator)
                 /\ SF_vars(EntryDone) /\ SF_vars(ExitDone) /\ WF_vars(WriteRequest)
-----------------------------------------------------------------------------
Modes == DoomModes \cup {"", "missing", "camera-armed", "starting", "stopping"}
Commands == {"none", "audio-stock-doom", "audio-stop", "ptz-camera", "stop", "quit"}
Nexts == {"lifecycle", "media", "report", "present", "command"}
Places == Nexts \cup {"unlink", "exec", "write", "exited"}

FlagsOK ==
    {runtime_start, dashboard_start, dashboard_camera, game_ready, audio_active,
     injected_error, start_failed, shm, quit, audio_doom, game_pid,
     stop_requested} \subseteq BOOLEAN

JobOK ==
    /\ wjob \in [value : Modes, next : Nexts \cup {""}]
    /\ wpc = "write" => wjob.next # ""

WorkerOK ==
    /\ runtime_mode \in Modes
    /\ command \in Commands /\ wcmd \in Commands
    /\ wpc \in Places
    /\ wmode \in {"camera", "entry", "doom", "exit"}
    /\ ptz_mode \in {"camera", "doom", "off"}
    /\ media \in {"none", "live", "stuck"} /\ audio \in {"unused", "off", "on", "stuck"}

CoordinatorPlaces ==
    {"loop", "case", "unarm", "reap", "rm", "rearm", "request", "clear", "spawn", "boot", "first_arm",
     "fail", "fail_wait", "failed", "error", "cl_audio", "cl_wait", "cl_ptz", "cl_ptz_sleep", "cl_stop",
     "cl_stop_sleep", "finalize", "fin_wait", "fin_again", "fin_wait_again", "verify", "down"}

CoordinatorOK ==
    /\ cpc \in CoordinatorPlaces
    /\ outcome \in {"none", "restored", "failed"}
    /\ cret \in {"rearm", "failed", "finalize"}
    /\ cmode \in Modes
    /\ game \in {"none", "booting", "running", "dead"}

BoundsOK ==
    /\ http \in {"none", "start", "camera"}
    /\ requests \in 0..MAX_REQUESTS /\ gestures \in 0..MAX_GESTURES /\ faults \subseteq FAULTS

TypeOK == FlagsOK /\ JobOK /\ WorkerOK /\ CoordinatorOK /\ BoundsOK

(* Whenever the worker is back in camera mode the user has the PTZ motors and
   the picture back.  Only a shutdown that is about to send "stop" may still show
   the game, and what a failed cleanup has left has been reported, on which the
   coordinator shuts down. *)
CameraReturned ==
    wpc = "command" /\ wmode = "camera" =>
        /\ ptz_mode = "camera"
        /\ media = "live" => cret = "finalize"
        /\ media = "stuck" => injected_error

(* A coordinator that looks at the mode with a game of its own has armed the
   audio hook for it, on whatever path it came there; the branch of its loop
   that arms late (e1-doom-runtime:387) is never taken. *)
GameHasAudio == cpc = "case" /\ game_pid => audio_doom

(* "Audio substitution ... returns to the microphone before the game is
   reaped" (IMPLEMENTATION.md:484): the coordinator never kills a game whose
   ring the AAC hook still plays, unless a wait ran out on a slow worker. *)
MicBeforeReap ==
    [][(game \in {"booting", "running"} /\ game' = "none") => audio # "on" \/ "slow" \in faults]_vars

(* There is never a second game: start_game finds no earlier child alive,
   whatever the worker, the user and the timeouts did before. *)
OneGame == [][(game' = "booting" /\ game # "booting") => game = "none"]_vars

(* A return to the camera gives back picture, microphone and PTZ and ends the
   game, unless the user is back in Doom by then, the heartbeat dead-man took
   the media away under the melt, which then never completes, a slow worker lost
   the command to stop audio, or the coordinator reports that it could not clean
   up. *)
Restored == media = "none" /\ ~HoldsAudio /\ game = "none" /\ ptz_mode # "doom"
ExitRestores ==
    wmode = "exit" ~> \/ Restored \/ wmode = "doom" \/ outcome = "failed"
                      \/ faults \cap {"heartbeat", "slow"} # {}

(* A start request is never forgotten: it ends in Doom, in a recorded start
   failure or in the coordinator's shutdown, unless the game dies or the
   dead-man strikes on the way. *)
StartResolved ==
    runtime_start ~> \/ wmode = "doom" \/ start_failed \/ cpc = "down"
                     \/ faults \cap {"game", "heartbeat"} # {}

(* Asked to stop, the coordinator comes down, whatever the worker, the game and
   the user were doing and whatever failed: with everything given back and the
   worker gone, or with runtime-cleanup.failed on record. *)
StopRestores ==
    stop_requested ~> \/ outcome = "restored" /\ wpc = "exited" /\ Restored
                      \/ outcome = "failed" /\ faults \cap {"cleanup", "slow"} # {}

(* The record of the shutdown can be relied on: runtime-restored, on which the
   watchdog is disarmed, means that the worker has left and holds nothing, though
   it refuses to quit over a failed cleanup and repeats its cleanups unchecked
   after the loop; the failure is recorded only when a cleanup did fail or the
   worker was slow. *)
DownHonest ==
    cpc = "down" =>
        \/ outcome = "restored" /\ wpc = "exited" /\ Restored
        \/ outcome = "failed" /\ faults \cap {"cleanup", "slow"} # {}

(* IMPLEMENTATION.md:170: after a return to the camera the coordinator
   "remains armed for another later start"; it leaves its loop only for a stop
   request, a reported error or a dead child. *)
RemainsArmed == cpc = "cl_audio" => stop_requested \/ injected_error \/ faults # {}
=============================================================================
