-------------------------- MODULE LifecycleProofs --------------------------
(***************************************************************************)
(* Proofs about Lifecycle, for any number of requests, gestures and faults. *)
(***************************************************************************)
EXTENDS Lifecycle, TLAPS

(* Where the shutdown is: the last two places of stop_game belong to it or to
   the main loop, told apart by cret. *)
Finish == {"fin_wait", "fin_again", "fin_wait_again", "verify", "down"}
Shutdown == {"cl_wait", "cl_ptz", "cl_ptz_sleep", "cl_stop", "cl_stop_sleep", "finalize"} \cup Finish
PlaceInv ==
    /\ cpc \in Shutdown => cret = "finalize"
    /\ cret = "finalize" => cpc \in Shutdown \cup {"reap", "rm"}

(* The coordinator owns every game there is, and none after stop_game. *)
PidInv ==
    /\ game # "none" => game_pid
    /\ cpc \in {"rm", "rearm", "request", "clear", "spawn", "failed", "finalize"} \cup Finish
         => ~game_pid

(* On every way round the main loop a game of its own is an armed one. *)
ArmedInv == cpc \in {"loop", "case", "error"} /\ game_pid => audio_doom

EntryMelt == wpc = "media" \/ (wpc = "write" /\ wjob.next = "media")

(* What the worker still shows of Doom in camera mode: a picture that a shutdown
   will take down, or the remains of a cleanup that has been reported. *)
CameraInv ==
    /\ wpc # "exited" /\ wmode = "camera" => ptz_mode = "camera"
    /\ media = "live" /\ wmode = "camera" => cret = "finalize"
    /\ media = "stuck" => injected_error
    /\ EntryMelt => wmode = "entry" /\ (media = "live" => cret = "finalize")
    /\ command = "ptz-camera" \/ wcmd = "ptz-camera" => cret = "finalize"

Busy == wpc \in {"unlink", "exec"}
Idle == command = "none" /\ ~Busy

(* cmd is on its way to the worker, and nothing but cmd. *)
Sent(cmd) ==
    \/ command = cmd /\ wpc # "exec" /\ (wpc = "unlink" => wcmd = cmd)
    \/ command = "none" /\ wpc = "exec" /\ wcmd = cmd

(* The marker tells what the hook holds. *)
HookInv == audio_active <=> HoldsAudio

ArmPending == command = "audio-stock-doom" \/ (Busy /\ wcmd = "audio-stock-doom")

(* Where the hook may play the game's ring, and where a command to arm it may
   still be on its way. *)
MicInv ==
    /\ ArmPending => cpc = "first_arm" /\ ~HoldsAudio
    /\ wpc = "exec" /\ wcmd = "audio-stock-doom" => command # "audio-stock-doom"
    /\ audio = "stuck" => injected_error
    /\ cpc \in {"loop", "case", "unarm"} /\ HoldsAudio => audio_doom
    /\ cpc = "error" /\ HoldsAudio => audio_doom \/ injected_error
    /\ cpc \in {"reap", "rm"} /\ cret = "rearm" => ~HoldsAudio
    /\ cpc \in {"rearm", "request", "clear", "spawn", "boot"} => ~HoldsAudio
    /\ cpc \in {"reap", "rm", "fail", "fail_wait", "failed", "finalize"} \cup Finish => audio # "on"
    /\ cpc = "cl_stop" => Idle
    /\ cpc = "cl_stop_sleep" => Sent("stop") \/ (Idle /\ audio # "on")

(* A worker that may quit holds nothing and takes nothing any more: the last pass
   finds no game it could start a melt for. *)
QuitInv ==
    /\ quit \/ command = "quit" \/ (Busy /\ wcmd = "quit") => cpc \in Finish
    /\ cpc \in {"finalize"} \cup Finish => ~game_ready
    /\ quit => media = "none" /\ ~HoldsAudio /\ ~EntryMelt /\ ~Busy
    /\ wpc = "exited" => quit /\ ptz_mode = "off"
    /\ cpc = "down" =>
         \/ outcome = "restored" /\ wpc = "exited"
         \/ outcome = "failed" /\ faults \cap {"cleanup", "slow"} # {}

(* Without a failed cleanup or a slow worker, one quit is enough. *)
OneQuitInv ==
    /\ media # "stuck" /\ audio # "stuck"
    /\ cret = "finalize" /\ cpc \in {"reap", "rm", "finalize"} => Idle
    /\ cpc = "fin_wait" => Sent("quit") \/ quit
    /\ cpc \notin {"fin_again", "fin_wait_again"}
    /\ cpc = "verify" => wpc = "exited"

Prompt == "slow" \notin faults
Clean == Prompt /\ "cleanup" \notin faults
DownInv == QuitInv /\ (Clean => OneQuitInv)
MicWhenPrompt == Prompt => MicInv

USE LifecycleAssumption DEF vars, files, worker, coordinator, bounds

-----------------------------------------------------------------------------
(* Who changes what. *)

(* The worker changes neither the coordinator's variables nor the game. *)
LEMMA WorkerFrame ==
    ASSUME Worker \/ HeartbeatDeadman
    PROVE  UNCHANGED <<coordinator, game>> /\ faults \subseteq faults'
<1>1. CASE WriteMode
  BY <1>1 DEF WriteMode
<1>2. CASE ReadCommand
  BY <1>2 DEF ReadCommand
<1>3. CASE UnlinkCommand
  BY <1>3 DEF UnlinkCommand
<1>4. CASE Execute
  BY <1>4 DEF Execute, StartAudio, StopAudio, PtzCamera, Quit, Faults
<1>5. CASE Leave
  BY <1>5 DEF Leave, Faults
<1>6. CASE Lifecycle
  BY <1>6 DEF Lifecycle, Faults
<1>7. CASE StartMedia
  BY <1>7 DEF StartMedia, Faults
<1>8. CASE ReportError
  BY <1>8 DEF ReportError
<1>9. CASE Present
  BY <1>9 DEF Present
<1>10. CASE EntryDone
  BY <1>10 DEF EntryDone
<1>11. CASE ExitDone
  BY <1>11 DEF ExitDone
<1>12. CASE PresentFails
  BY <1>12 DEF PresentFails, Faults
<1>13. CASE HeartbeatDeadman
  BY <1>13 DEF HeartbeatDeadman, Faults
<1> QED
  BY <1>1, <1>2, <1>3, <1>4, <1>5, <1>6, <1>7, <1>8, <1>9, <1>10, <1>11, <1>12, <1>13
  DEF Worker

(* The coordinator changes no variable of the worker. *)
LEMMA CoordinatorFrame ==
    ASSUME Coordinator
    PROVE  UNCHANGED <<worker, audio_active, injected_error>> /\ faults \subseteq faults'
<1>1. CASE ReadMode
  BY <1>1 DEF ReadMode, Faults
<1>2. CASE CaseMode
  BY <1>2 DEF CaseMode
<1>3. CASE UnarmAudio
  BY <1>3 DEF UnarmAudio, Over, Faults
<1>4. CASE ReapGame
  BY <1>4 DEF ReapGame
<1>5. CASE RemoveGameFiles
  BY <1>5 DEF RemoveGameFiles
<1>6. CASE Rearm
  BY <1>6 DEF Rearm
<1>7. CASE TakeRequest
  BY <1>7 DEF TakeRequest
<1>8. CASE ClearMarkers
  BY <1>8 DEF ClearMarkers
<1>9. CASE SpawnGame
  BY <1>9 DEF SpawnGame
<1>10. CASE AwaitGame
  BY <1>10 DEF AwaitGame
<1>11. CASE ArmFirst
  BY <1>11 DEF ArmFirst, Over, Faults
<1>12. CASE FailStart
  BY <1>12 DEF FailStart
<1>13. CASE FailWait
  BY <1>13 DEF FailWait, Over, Faults
<1>14. CASE StartFailed
  BY <1>14 DEF StartFailed
<1>15. CASE CheckError
  BY <1>15 DEF CheckError
<1>16. CASE CleanupSend
  BY <1>16 DEF CleanupSend
<1>17. CASE CleanupWait
  BY <1>17 DEF CleanupWait, Over, Faults
<1>18. CASE Verify
  BY <1>18 DEF Verify
<1> QED
  BY <1>1, <1>2, <1>3, <1>4, <1>5, <1>6, <1>7, <1>8, <1>9, <1>10, <1>11, <1>12, <1>13, <1>14,
     <1>15, <1>16, <1>17, <1>18
  DEF Coordinator

(* The user, the game and the controller change neither. *)
LEMMA OutsideFrame ==
    ASSUME RequestStop \/ GamePublishes \/ GameDies \/ RouteRequest \/ WriteRequest
           \/ Terminated \/ UNCHANGED vars
    PROVE  /\ UNCHANGED <<worker, cpc, cmode, cret, audio_doom, game_pid, outcome, command,
                           audio_active, injected_error>>
           /\ faults \subseteq faults'
           /\ game = "none" => game_ready' = game_ready
           /\ game # "none" <=> game' # "none"
           /\ game' = "booting" => game = "booting"
  BY DEF RequestStop, GamePublishes, GameDies, RouteRequest, WriteRequest, Terminated, Faults

-----------------------------------------------------------------------------
(* Types. *)

(* The words in the marker files and the places of the worker. *)
LEMMA Words ==
    /\ {"", "missing", "camera-armed", "starting", "stopping", "entry-melt", "doom", "exit-melt"}
         \subseteq Modes
    /\ {"none", "audio-stock-doom", "audio-stop", "ptz-camera", "stop", "quit"} \subseteq Commands
    /\ {"lifecycle", "media", "report", "present", "command", "unlink", "exec", "write", "exited"}
         \subseteq Places
    /\ {"loop", "case", "unarm", "reap", "rm", "rearm", "request", "clear", "spawn", "boot", "first_arm",
        "fail", "fail_wait", "failed", "error", "cl_audio", "cl_wait", "cl_ptz", "cl_ptz_sleep",
        "cl_stop", "cl_stop_sleep", "finalize", "fin_wait", "fin_again", "fin_wait_again", "verify",
        "down"} \subseteq CoordinatorPlaces
  BY DEF Modes, DoomModes, Commands, Places, Nexts, CoordinatorPlaces

(* What a worker that opens runtime.mode leaves behind. *)
LEMMA TruncateJob ==
    ASSUME NEW v \in Modes, NEW n \in Nexts, TruncateMode(v, n)
    PROVE  JobOK' /\ wjob'.next = n /\ wpc' = "write" /\ runtime_mode' \in Modes
  BY DEF TruncateMode, JobOK, Nexts, Modes

(* No other step but the write touches it. *)
LEMMA JobKept ==
    ASSUME JobOK, UNCHANGED wjob, wpc' # "write" \/ UNCHANGED wpc
    PROVE  JobOK'
  BY DEF JobOK

(* The worker goes on where it meant to go after the write. *)
LEMMA JobDone ==
    ASSUME JobOK, WriteMode
    PROVE  JobOK' /\ wpc' \in Nexts /\ wpc' \in Places /\ runtime_mode' \in Modes
  BY DEF WriteMode, NoJob, JobOK, Nexts, Modes, Places

(* Every step keeps the marker files and the flags of the processes Boolean. *)
LEMMA FlagsStep == ASSUME FlagsOK, [Next]_vars PROVE FlagsOK'
<1> USE DEF FlagsOK
<1>1. CASE WriteMode
  BY <1>1 DEF WriteMode
<1>2. CASE ReadCommand
  BY <1>2 DEF ReadCommand
<1>3. CASE UnlinkCommand
  BY <1>3 DEF UnlinkCommand
<1>4. CASE Execute
  BY <1>4 DEF Execute, StartAudio, StopAudio, PtzCamera, Quit,
     CleanAudio, CleanMedia, Faults
<1>5. CASE Lifecycle
  BY <1>5 DEF Lifecycle, ModeAfter, CleanMedia, Faults
<1>6. CASE StartMedia
  BY <1>6 DEF StartMedia, Faults
<1>7. CASE ReportError
  BY <1>7 DEF ReportError
<1>8. CASE Present
  BY <1>8 DEF Present
<1>9. CASE EntryDone
  BY <1>9 DEF EntryDone
<1>10. CASE ExitDone
  BY <1>10 DEF ExitDone
<1>11. CASE PresentFails
  BY <1>11 DEF PresentFails, CleanMedia, Faults
<1>12. CASE ReadMode
  BY <1>12 DEF ReadMode, Faults, Go, Exit
<1>13. CASE CaseMode
  BY <1>13 DEF CaseMode, Go, Exit, DoomModes
<1>14. CASE UnarmAudio
  BY <1>14 DEF UnarmAudio, Over, Answered, Faults, Go, Exit
<1>15. CASE ReapGame
  BY <1>15 DEF ReapGame, Go
<1>16. CASE RemoveGameFiles
  BY <1>16 DEF RemoveGameFiles, Go
<1>17. CASE Rearm
  BY <1>17 DEF Rearm, Go
<1>18. CASE TakeRequest
  BY <1>18 DEF TakeRequest, Go
<1>19. CASE ClearMarkers
  BY <1>19 DEF ClearMarkers, Go
<1>20. CASE SpawnGame
  BY <1>20 DEF SpawnGame, Go
<1>21. CASE AwaitGame
  BY <1>21 DEF AwaitGame, Go
<1>22. CASE ArmFirst
  BY <1>22 DEF ArmFirst, Over, Answered, Faults, Go
<1>23. CASE FailStart
  BY <1>23 DEF FailStart, Go
<1>24. CASE FailWait
  BY <1>24 DEF FailWait, Over, Answered, Faults, Go
<1>25. CASE StartFailed
  BY <1>25 DEF StartFailed, Go
<1>26. CASE CheckError
  BY <1>26 DEF CheckError, Go, Exit
<1>27. CASE CleanupSend
  BY <1>27 DEF CleanupSend, Go
<1>28. CASE CleanupWait
  BY <1>28 DEF CleanupWait, Over, Answered, Faults, Go
<1>29. CASE HeartbeatDeadman
  BY <1>29 DEF HeartbeatDeadman, CleanAudio, CleanMedia, Faults
<1>30. CASE RequestStop
  BY <1>30 DEF RequestStop
<1>31. CASE GamePublishes
  BY <1>31 DEF GamePublishes
<1>32. CASE GameDies
  BY <1>32 DEF GameDies, Faults
<1>33. CASE RouteRequest
  BY <1>33 DEF RouteRequest
<1>34. CASE WriteRequest
  BY <1>34 DEF WriteRequest
<1>35. CASE Terminated \/ UNCHANGED vars
  BY <1>35 DEF Terminated
<1>36. CASE Leave
  BY <1>36 DEF Leave, CleanAudio, CleanMedia, Faults
<1>37. CASE Verify
  BY <1>37 DEF Verify, Go
<1> QED
  BY <1>1, <1>2, <1>3, <1>4, <1>5, <1>6, <1>7, <1>8, <1>9, <1>10, <1>11, <1>12, <1>13, <1>14,
     <1>15, <1>16, <1>17, <1>18, <1>19, <1>20, <1>21, <1>22, <1>23, <1>24, <1>25, <1>26, <1>27,
     <1>28, <1>29, <1>30, <1>31, <1>32, <1>33, <1>34, <1>35, <1>36, <1>37
  DEF Next, Worker, Coordinator

(* Every step leaves a well-formed write of runtime.mode. *)
LEMMA JobStep == ASSUME JobOK, [Next]_vars PROVE JobOK'
<1> USE DEF Modes, DoomModes, Nexts
<1>1. CASE WriteMode
  BY <1>1, JobDone DEF WriteMode
<1>2. CASE ReadCommand
  BY <1>2, JobKept DEF ReadCommand
<1>3. CASE UnlinkCommand
  BY <1>3, JobKept DEF UnlinkCommand
<1>4. CASE Execute
  BY <1>4, TruncateJob, JobKept DEF Execute, StartAudio, StopAudio, PtzCamera, Quit,
     CleanAudio, CleanMedia, Faults
<1>5. CASE Lifecycle
  BY <1>5, TruncateJob, JobKept DEF Lifecycle, ModeAfter, CleanMedia, Faults
<1>6. CASE StartMedia
  BY <1>6, TruncateJob, JobKept DEF StartMedia, Faults
<1>7. CASE ReportError
  BY <1>7, JobKept DEF ReportError
<1>8. CASE Present
  BY <1>8, JobKept DEF Present
<1>9. CASE EntryDone
  BY <1>9, TruncateJob DEF EntryDone
<1>10. CASE ExitDone
  BY <1>10, TruncateJob DEF ExitDone
<1>11. CASE PresentFails
  BY <1>11, TruncateJob DEF PresentFails, CleanMedia, Faults
<1>12. CASE ReadMode
  BY <1>12, JobKept DEF ReadMode, Faults, Go, Exit
<1>13. CASE CaseMode
  BY <1>13, JobKept DEF CaseMode, Go, Exit, DoomModes
<1>14. CASE UnarmAudio
  BY <1>14, JobKept DEF UnarmAudio, Over, Answered, Faults, Go, Exit
<1>15. CASE ReapGame
  BY <1>15, JobKept DEF ReapGame, Go
<1>16. CASE RemoveGameFiles
  BY <1>16, JobKept DEF RemoveGameFiles, Go
<1>17. CASE Rearm
  BY <1>17, JobKept DEF Rearm, Go
<1>18. CASE TakeRequest
  BY <1>18, JobKept DEF TakeRequest, Go
<1>19. CASE ClearMarkers
  BY <1>19, JobKept DEF ClearMarkers, Go
<1>20. CASE SpawnGame
  BY <1>20, JobKept DEF SpawnGame, Go
<1>21. CASE AwaitGame
  BY <1>21, JobKept DEF AwaitGame, Go
<1>22. CASE ArmFirst
  BY <1>22, JobKept DEF ArmFirst, Over, Answered, Faults, Go
<1>23. CASE FailStart
  BY <1>23, JobKept DEF FailStart, Go
<1>24. CASE FailWait
  BY <1>24, JobKept DEF FailWait, Over, Answered, Faults, Go
<1>25. CASE StartFailed
  BY <1>25, JobKept DEF StartFailed, Go
<1>26. CASE CheckError
  BY <1>26, JobKept DEF CheckError, Go, Exit
<1>27. CASE CleanupSend
  BY <1>27, JobKept DEF CleanupSend, Go
<1>28. CASE CleanupWait
  BY <1>28, JobKept DEF CleanupWait, Over, Answered, Faults, Go
<1>29. CASE HeartbeatDeadman
  BY <1>29, JobKept DEF HeartbeatDeadman, CleanAudio, CleanMedia, Faults
<1>30. CASE RequestStop
  BY <1>30, JobKept DEF RequestStop
<1>31. CASE GamePublishes
  BY <1>31, JobKept DEF GamePublishes
<1>32. CASE GameDies
  BY <1>32, JobKept DEF GameDies, Faults
<1>33. CASE RouteRequest
  BY <1>33, JobKept DEF RouteRequest
<1>34. CASE WriteRequest
  BY <1>34, JobKept DEF WriteRequest
<1>35. CASE Terminated \/ UNCHANGED vars
  BY <1>35, JobKept DEF Terminated
<1>36. CASE Leave
  BY <1>36, JobKept DEF Leave, CleanAudio, CleanMedia, Faults
<1>37. CASE Verify
  BY <1>37, JobKept DEF Verify, Go
<1> QED
  BY <1>1, <1>2, <1>3, <1>4, <1>5, <1>6, <1>7, <1>8, <1>9, <1>10, <1>11, <1>12, <1>13, <1>14,
     <1>15, <1>16, <1>17, <1>18, <1>19, <1>20, <1>21, <1>22, <1>23, <1>24, <1>25, <1>26, <1>27,
     <1>28, <1>29, <1>30, <1>31, <1>32, <1>33, <1>34, <1>35, <1>36, <1>37
  DEF Next, Worker, Coordinator

(* Every step keeps the modes, the commands and the place of the worker. *)
LEMMA WorkerStep == ASSUME JobOK, WorkerOK, CoordinatorOK, [Next]_vars PROVE WorkerOK'
<1> USE DEF WorkerOK, CoordinatorOK
<1>1. CASE WriteMode
  BY <1>1, JobDone, Words DEF WriteMode
<1>2. CASE ReadCommand
  BY <1>2, Words DEF ReadCommand
<1>3. CASE UnlinkCommand
  BY <1>3, Words DEF UnlinkCommand
<1>4. CASE Execute
  <2>1. command' = command /\ wcmd' = "none" /\ wpc' \in {"lifecycle", "write"}
    BY <1>4 DEF Execute, StartAudio, StopAudio, PtzCamera, Quit, TruncateMode
  <2>2. CASE StartAudio
    BY <1>4, <2>1, <2>2, Words DEF Execute, StartAudio, CleanAudio
  <2>3. CASE StopAudio
    BY <1>4, <2>1, <2>3, Words DEF Execute, StopAudio, CleanAudio, CleanMedia
  <2>4. CASE PtzCamera
    BY <1>4, <2>1, <2>4, Words DEF Execute, PtzCamera, TruncateMode
  <2>5. CASE Quit
    BY <1>4, <2>1, <2>5, Words DEF Execute, Quit, CleanAudio, CleanMedia
  <2> QED
    BY <1>4, <2>2, <2>3, <2>4, <2>5 DEF Execute
<1>5. CASE Lifecycle
  BY <1>5, Words DEF Lifecycle, ModeAfter, CleanMedia, Faults, TruncateMode
<1>6. CASE StartMedia
  BY <1>6, Words DEF StartMedia, Faults, TruncateMode
<1>7. CASE ReportError
  BY <1>7, Words DEF ReportError
<1>8. CASE Present
  BY <1>8, Words DEF Present
<1>9. CASE EntryDone
  BY <1>9, Words DEF EntryDone, TruncateMode
<1>10. CASE ExitDone
  BY <1>10, Words DEF ExitDone, TruncateMode
<1>11. CASE PresentFails
  BY <1>11, Words DEF PresentFails, CleanMedia, Faults, TruncateMode
<1>12. CASE ReadMode
  BY <1>12, Words DEF ReadMode, Faults, Go, Exit
<1>13. CASE CaseMode
  BY <1>13, Words DEF CaseMode, Go, Exit, DoomModes
<1>14. CASE UnarmAudio
  BY <1>14, Words DEF UnarmAudio, Over, Answered, Faults, Go, Exit
<1>15. CASE ReapGame
  BY <1>15, Words DEF ReapGame, Go
<1>16. CASE RemoveGameFiles
  BY <1>16, Words DEF RemoveGameFiles, Go
<1>17. CASE Rearm
  BY <1>17, Words DEF Rearm, Go
<1>18. CASE TakeRequest
  BY <1>18, Words DEF TakeRequest, Go
<1>19. CASE ClearMarkers
  BY <1>19, Words DEF ClearMarkers, Go
<1>20. CASE SpawnGame
  BY <1>20, Words DEF SpawnGame, Go
<1>21. CASE AwaitGame
  BY <1>21, Words DEF AwaitGame, Go
<1>22. CASE ArmFirst
  BY <1>22, Words DEF ArmFirst, Over, Answered, Faults, Go
<1>23. CASE FailStart
  BY <1>23, Words DEF FailStart, Go
<1>24. CASE FailWait
  BY <1>24, Words DEF FailWait, Over, Answered, Faults, Go
<1>25. CASE StartFailed
  BY <1>25, Words DEF StartFailed, Go
<1>26. CASE CheckError
  BY <1>26, Words DEF CheckError, Go, Exit
<1>27. CASE CleanupSend
  BY <1>27, Words DEF CleanupSend, Go
<1>28. CASE CleanupWait
  BY <1>28, Words DEF CleanupWait, Over, Answered, Faults, Go
<1>29. CASE HeartbeatDeadman
  BY <1>29, Words DEF HeartbeatDeadman, CleanAudio, CleanMedia, Faults
<1>30. CASE RequestStop
  BY <1>30, Words DEF RequestStop
<1>31. CASE GamePublishes
  BY <1>31, Words DEF GamePublishes
<1>32. CASE GameDies
  BY <1>32, Words DEF GameDies, Faults
<1>33. CASE RouteRequest
  BY <1>33, Words DEF RouteRequest
<1>34. CASE WriteRequest
  BY <1>34, Words DEF WriteRequest
<1>35. CASE Terminated \/ UNCHANGED vars
  BY <1>35, Words DEF Terminated
<1>36. CASE Leave
  BY <1>36, Words DEF Leave, CleanAudio, CleanMedia, Faults
<1>37. CASE Verify
  BY <1>37, Words DEF Verify, Go
<1> QED
  BY <1>1, <1>2, <1>3, <1>4, <1>5, <1>6, <1>7, <1>8, <1>9, <1>10, <1>11, <1>12, <1>13, <1>14,
     <1>15, <1>16, <1>17, <1>18, <1>19, <1>20, <1>21, <1>22, <1>23, <1>24, <1>25, <1>26, <1>27,
     <1>28, <1>29, <1>30, <1>31, <1>32, <1>33, <1>34, <1>35, <1>36, <1>37
  DEF Next, Worker, Coordinator

(* Every step keeps the place of the coordinator, its return from stop_game and the game. *)
LEMMA CoordinatorStep == ASSUME WorkerOK, CoordinatorOK, [Next]_vars PROVE CoordinatorOK'
<1> USE DEF CoordinatorOK
<1>1. CASE ReadMode
  BY <1>1, Words DEF ReadMode, Go, Exit, WorkerOK
<1>2. CASE CaseMode
  BY <1>2, Words DEF CaseMode, Go, Exit
<1>3. CASE UnarmAudio
  BY <1>3, Words DEF UnarmAudio, Go, Exit
<1>4. CASE ReapGame
  BY <1>4, Words DEF ReapGame, Go
<1>5. CASE RemoveGameFiles
  BY <1>5, Words DEF RemoveGameFiles, Go
<1>6. CASE Rearm
  BY <1>6, Words DEF Rearm, Go
<1>7. CASE TakeRequest
  BY <1>7, Words DEF TakeRequest, Go
<1>8. CASE ClearMarkers
  BY <1>8, Words DEF ClearMarkers, Go
<1>9. CASE SpawnGame
  BY <1>9, Words DEF SpawnGame, Go
<1>10. CASE AwaitGame
  BY <1>10, Words DEF AwaitGame, Go
<1>11. CASE ArmFirst
  BY <1>11, Words DEF ArmFirst, Go
<1>12. CASE FailStart
  BY <1>12, Words DEF FailStart, Go
<1>13. CASE FailWait
  BY <1>13, Words DEF FailWait, Go
<1>14. CASE StartFailed
  BY <1>14, Words DEF StartFailed, Go
<1>15. CASE CheckError
  BY <1>15, Words DEF CheckError, Go, Exit
<1>16. CASE CleanupSend
  BY <1>16, Words DEF CleanupSend, Go
<1>17. CASE CleanupWait
  BY <1>17, Words DEF CleanupWait, Go
<1>18. CASE Verify
  BY <1>18, Words DEF Verify, Go
<1>19. CASE Worker \/ HeartbeatDeadman
  BY <1>19, WorkerFrame
<1>20. CASE GamePublishes \/ GameDies
  BY <1>20, OutsideFrame DEF GamePublishes, GameDies
<1>21. CASE RequestStop \/ RouteRequest \/ WriteRequest \/ Terminated \/ UNCHANGED vars
  BY <1>21 DEF RequestStop, RouteRequest, WriteRequest, Terminated
<1> QED
  BY <1>1, <1>2, <1>3, <1>4, <1>5, <1>6, <1>7, <1>8, <1>9, <1>10, <1>11, <1>12, <1>13, <1>14,
     <1>15, <1>16, <1>17, <1>18, <1>19, <1>20, <1>21
  DEF Next, Coordinator

(* Every step keeps the bounds. *)
LEMMA BoundsStep == ASSUME BoundsOK, [Next]_vars PROVE BoundsOK'
<1> USE DEF BoundsOK
<1>1. CASE WriteMode
  BY <1>1 DEF WriteMode
<1>2. CASE ReadCommand
  BY <1>2 DEF ReadCommand
<1>3. CASE UnlinkCommand
  BY <1>3 DEF UnlinkCommand
<1>4. CASE Execute
  BY <1>4 DEF Execute, StartAudio, StopAudio, PtzCamera, Quit,
     CleanAudio, CleanMedia, Faults
<1>5. CASE Lifecycle
  <2>1. http' = http /\ requests' = requests /\ gestures' \in 0..MAX_GESTURES
    BY <1>5 DEF Lifecycle
  <2>2. faults' \subseteq FAULTS
    BY <1>5 DEF Lifecycle, Faults
  <2> QED
    BY <2>1, <2>2
<1>6. CASE StartMedia
  BY <1>6 DEF StartMedia, Faults
<1>7. CASE ReportError
  BY <1>7 DEF ReportError
<1>8. CASE Present
  BY <1>8 DEF Present
<1>9. CASE EntryDone
  BY <1>9 DEF EntryDone
<1>10. CASE ExitDone
  BY <1>10 DEF ExitDone
<1>11. CASE PresentFails
  BY <1>11 DEF PresentFails, CleanMedia, Faults
<1>12. CASE ReadMode
  BY <1>12 DEF ReadMode, Faults, Go, Exit
<1>13. CASE CaseMode
  BY <1>13 DEF CaseMode, Go, Exit, DoomModes
<1>14. CASE UnarmAudio
  BY <1>14 DEF UnarmAudio, Over, Faults, Go, Exit
<1>15. CASE ReapGame
  BY <1>15 DEF ReapGame, Go
<1>16. CASE RemoveGameFiles
  BY <1>16 DEF RemoveGameFiles, Go
<1>17. CASE Rearm
  BY <1>17 DEF Rearm, Go
<1>18. CASE TakeRequest
  BY <1>18 DEF TakeRequest, Go
<1>19. CASE ClearMarkers
  BY <1>19 DEF ClearMarkers, Go
<1>20. CASE SpawnGame
  BY <1>20 DEF SpawnGame, Go
<1>21. CASE AwaitGame
  BY <1>21 DEF AwaitGame, Go
<1>22. CASE ArmFirst
  BY <1>22 DEF ArmFirst, Over, Faults, Go
<1>23. CASE FailStart
  BY <1>23 DEF FailStart, Go
<1>24. CASE FailWait
  <2>1. faults' \subseteq FAULTS
    BY <1>24 DEF FailWait, Over, Faults
  <2> QED
    BY <1>24, <2>1 DEF FailWait
<1>25. CASE StartFailed
  BY <1>25 DEF StartFailed, Go
<1>26. CASE CheckError
  BY <1>26 DEF CheckError, Go, Exit
<1>27. CASE CleanupSend
  BY <1>27 DEF CleanupSend, Go
<1>28. CASE CleanupWait
  BY <1>28 DEF CleanupWait, Over, Faults, Go
<1>29. CASE HeartbeatDeadman
  BY <1>29 DEF HeartbeatDeadman, CleanAudio, CleanMedia, Faults
<1>30. CASE RequestStop
  BY <1>30 DEF RequestStop
<1>31. CASE GamePublishes
  BY <1>31 DEF GamePublishes
<1>32. CASE GameDies
  BY <1>32 DEF GameDies, Faults
<1>33. CASE RouteRequest
  BY <1>33 DEF RouteRequest
<1>34. CASE WriteRequest
  BY <1>34 DEF WriteRequest
<1>35. CASE Terminated \/ UNCHANGED vars
  BY <1>35 DEF Terminated
<1>36. CASE Leave
  BY <1>36 DEF Leave, CleanAudio, CleanMedia, Faults
<1>37. CASE Verify
  BY <1>37 DEF Verify, Go
<1> QED
  BY <1>1, <1>2, <1>3, <1>4, <1>5, <1>6, <1>7, <1>8, <1>9, <1>10, <1>11, <1>12, <1>13, <1>14,
     <1>15, <1>16, <1>17, <1>18, <1>19, <1>20, <1>21, <1>22, <1>23, <1>24, <1>25, <1>26, <1>27,
     <1>28, <1>29, <1>30, <1>31, <1>32, <1>33, <1>34, <1>35, <1>36, <1>37
  DEF Next, Worker, Coordinator


(* Every variable of the runtime stays in its type: what the worker writes
   into runtime.mode and where it goes on afterwards, and where the
   coordinator goes after stop_game. *)
THEOREM TypeCorrect == Spec => []TypeOK
<1>1. ASSUME Init PROVE TypeOK
  <2>1. wjob = [value |-> "", next |-> ""] /\ wpc = "command"
    BY <1>1 DEF Init, NoJob
  <2>2. JobOK
    BY <2>1 DEF JobOK, Modes
  <2>3. FlagsOK
    BY <1>1 DEF Init, FlagsOK
  <2>4. WorkerOK
    BY <1>1 DEF Init, WorkerOK, Modes, Commands, Nexts, Places
  <2>5. CoordinatorOK
    BY <1>1 DEF Init, CoordinatorOK, CoordinatorPlaces, Modes
  <2>6. BoundsOK
    BY <1>1 DEF Init, BoundsOK
  <2> QED
    BY <2>2, <2>3, <2>4, <2>5, <2>6 DEF TypeOK
<1>2. TypeOK /\ [Next]_vars => TypeOK'
  BY FlagsStep, JobStep, WorkerStep, CoordinatorStep, BoundsStep DEF TypeOK
<1> QED
  BY <1>1, <1>2, PTL DEF Spec

-----------------------------------------------------------------------------
(* The coordinator and its game. *)

CoordinatorInv == PlaceInv /\ PidInv /\ ArmedInv

(* Every way round the main loop, through a failed start and down the
   shutdown keeps the game owned, and armed before the loop looks at it. *)
LEMMA CoordinatorInvStep ==
    ASSUME TypeOK, CoordinatorInv, [Next]_vars
    PROVE  CoordinatorInv'
<1> USE DEF CoordinatorInv, PlaceInv, PidInv, ArmedInv, Shutdown, Finish, TypeOK, CoordinatorOK
<1>1. CASE ReadMode
  BY <1>1 DEF ReadMode, Go, Exit
<1>2. CASE CaseMode
  BY <1>2 DEF CaseMode, Go, Exit
<1>3. CASE UnarmAudio
  BY <1>3 DEF UnarmAudio, Go, Exit
<1>4. CASE ReapGame
  BY <1>4 DEF ReapGame, Go
<1>5. CASE RemoveGameFiles
  BY <1>5 DEF RemoveGameFiles, Go
<1>6. CASE Rearm
  BY <1>6 DEF Rearm, Go
<1>7. CASE TakeRequest
  BY <1>7 DEF TakeRequest, Go
<1>8. CASE ClearMarkers
  BY <1>8 DEF ClearMarkers, Go
<1>9. CASE SpawnGame
  BY <1>9 DEF SpawnGame, Go
<1>10. CASE AwaitGame
  BY <1>10 DEF AwaitGame, Go
<1>11. CASE ArmFirst
  BY <1>11 DEF ArmFirst, Go
<1>12. CASE FailStart
  BY <1>12 DEF FailStart, Go
<1>13. CASE FailWait
  BY <1>13 DEF FailWait, Go
<1>14. CASE StartFailed
  BY <1>14 DEF StartFailed, Go
<1>15. CASE CheckError
  BY <1>15 DEF CheckError, Go, Exit
<1>16. CASE CleanupSend
  BY <1>16 DEF CleanupSend, Go
<1>17. CASE CleanupWait
  BY <1>17 DEF CleanupWait, Go
<1>18. CASE Verify
  BY <1>18 DEF Verify, Go
<1>19. CASE Worker \/ HeartbeatDeadman
  BY <1>19, WorkerFrame
<1>20. CASE RequestStop \/ GamePublishes \/ GameDies \/ RouteRequest \/ WriteRequest
            \/ Terminated \/ UNCHANGED vars
  BY <1>20, OutsideFrame
<1> QED
  BY <1>1, <1>2, <1>3, <1>4, <1>5, <1>6, <1>7, <1>8, <1>9, <1>10, <1>11, <1>12, <1>13, <1>14,
     <1>15, <1>16, <1>17, <1>18, <1>19, <1>20
  DEF Next, Coordinator

(* The coordinator's invariant holds throughout. *)
LEMMA CoordinatorAlways == Spec => [](TypeOK /\ CoordinatorInv)
<1>1. Init => CoordinatorInv
  BY DEF Init, CoordinatorInv, PlaceInv, PidInv, ArmedInv, Shutdown, Finish
<1> QED
  BY <1>1, TypeCorrect, CoordinatorInvStep, PTL DEF Spec

(* GameHasAudio: the coordinator never looks at the mode with a game whose
   audio it has not armed, whatever the worker, the user and the faults do. *)
THEOREM GameHasAudioAlways == Spec => []GameHasAudio
<1>1. CoordinatorInv => GameHasAudio
  BY DEF CoordinatorInv, ArmedInv, GameHasAudio
<1> QED
  BY <1>1, CoordinatorAlways, PTL

(* OneGame: start_game never finds an earlier child. *)
THEOREM OneGameAlways == Spec => OneGame
<1>1. ASSUME CoordinatorInv, [Next]_vars, game' = "booting", game # "booting"
      PROVE  game = "none"
  <2>1. CASE SpawnGame
    BY <1>1, <2>1 DEF SpawnGame, CoordinatorInv, PidInv
  <2>2. CASE ReapGame
    BY <1>1, <2>2 DEF ReapGame
  <2>3. CASE Coordinator /\ ~SpawnGame /\ ~ReapGame
    BY <1>1, <2>3 DEF Coordinator, ReadMode, CaseMode, UnarmAudio, RemoveGameFiles, Rearm,
       TakeRequest, ClearMarkers, AwaitGame, ArmFirst, FailStart, FailWait, StartFailed, CheckError,
       CleanupSend, CleanupWait, Verify
  <2> QED
    BY <1>1, <2>1, <2>2, <2>3, WorkerFrame, OutsideFrame DEF Next
<1>2. CoordinatorInv /\ [Next]_vars => [(game' = "booting" /\ game # "booting") => game = "none"]_vars
  BY <1>1
<1> QED
  BY <1>2, CoordinatorAlways, PTL DEF Spec, OneGame

-----------------------------------------------------------------------------
(* What the worker gives back. *)

(* A shutdown stays one, and only a shutdown sends ptz-camera. *)
LEMMA ShutdownFrame ==
    ASSUME CoordinatorInv, Coordinator
    PROVE  /\ cret = "finalize" => cret' = "finalize"
           /\ command' = "ptz-camera" => command = "ptz-camera" \/ cret' = "finalize"
<1> USE DEF CoordinatorInv, PlaceInv, Shutdown, Finish
<1>1. CASE ReadMode
  BY <1>1 DEF ReadMode
<1>2. CASE CaseMode
  BY <1>2 DEF CaseMode
<1>3. CASE UnarmAudio
  BY <1>3 DEF UnarmAudio
<1>4. CASE ReapGame
  BY <1>4 DEF ReapGame
<1>5. CASE RemoveGameFiles
  BY <1>5 DEF RemoveGameFiles
<1>6. CASE Rearm
  BY <1>6 DEF Rearm
<1>7. CASE TakeRequest
  BY <1>7 DEF TakeRequest
<1>8. CASE ClearMarkers
  BY <1>8 DEF ClearMarkers
<1>9. CASE SpawnGame
  BY <1>9 DEF SpawnGame
<1>10. CASE AwaitGame
  BY <1>10 DEF AwaitGame
<1>11. CASE ArmFirst
  BY <1>11 DEF ArmFirst
<1>12. CASE FailStart
  BY <1>12 DEF FailStart
<1>13. CASE FailWait
  BY <1>13 DEF FailWait
<1>14. CASE StartFailed
  BY <1>14 DEF StartFailed
<1>15. CASE CheckError
  BY <1>15 DEF CheckError
<1>16. CASE CleanupSend
  BY <1>16 DEF CleanupSend
<1>17. CASE CleanupWait
  BY <1>17 DEF CleanupWait
<1>18. CASE Verify
  BY <1>18 DEF Verify
<1> QED
  BY <1>1, <1>2, <1>3, <1>4, <1>5, <1>6, <1>7, <1>8, <1>9, <1>10, <1>11, <1>12, <1>13, <1>14,
     <1>15, <1>16, <1>17, <1>18
  DEF Coordinator

(* What opening runtime.mode says about the entry melt. *)
LEMMA TruncateMelt ==
    ASSUME NEW v, NEW pc, TruncateMode(v, pc)
    PROVE  wpc' = "write" /\ (EntryMelt' => pc = "media")
  BY DEF TruncateMode, EntryMelt

(* CameraInv is inductive on top of the coordinator's invariant: injected.error
   is written with every cleanup that leaves something, and never removed. *)
LEMMA CameraInvStep ==
    ASSUME TypeOK, CoordinatorInv, CameraInv, [Next]_vars
    PROVE  CameraInv'
<1> USE DEF CameraInv
<1>1. CASE WriteMode
  BY <1>1, WorkerFrame DEF Worker, coordinator, WriteMode, NoJob, EntryMelt
<1>2. CASE ReadCommand
  BY <1>2, WorkerFrame DEF Worker, coordinator, ReadCommand, EntryMelt
<1>3. CASE UnlinkCommand
  BY <1>3, WorkerFrame DEF Worker, coordinator, UnlinkCommand, EntryMelt
<1>4. CASE Execute
  <2>1. UNCHANGED <<coordinator, command>> /\ wpc = "exec" /\ wcmd' = "none"
    BY <1>4 DEF Execute
  <2>2. CASE StartAudio
    BY <2>1, <2>2 DEF StartAudio, EntryMelt
  <2>3. CASE StopAudio
    BY <2>1, <2>3 DEF StopAudio, CleanMedia, EntryMelt
  <2>4. CASE PtzCamera
    BY <2>1, <2>4, TruncateMelt DEF PtzCamera
  <2>5. CASE Quit
    BY <2>1, <2>5 DEF Quit, CleanMedia, EntryMelt
  <2> QED
    BY <1>4, <2>2, <2>3, <2>4, <2>5 DEF Execute
<1>5. CASE Leave
  BY <1>5, WorkerFrame DEF Worker, coordinator, Leave, CleanMedia, EntryMelt
<1>6. CASE Lifecycle
  BY <1>6, WorkerFrame, TruncateMelt DEF Worker, coordinator, Lifecycle, ModeAfter, CleanMedia, EntryMelt
<1>7. CASE StartMedia
  <2>1. UNCHANGED <<coordinator, command, wcmd>> /\ wmode = "entry"
    BY <1>7, WorkerFrame DEF Worker, StartMedia, EntryMelt
  <2>2. CASE media' = "live" /\ wpc' = "present"
    BY <1>7, <2>1, <2>2 DEF StartMedia, EntryMelt
  <2>3. CASE TruncateMode("camera-armed", "report")
    <3>1. wpc' = "write" /\ ~EntryMelt'
      BY <2>3, TruncateMelt
    <3>2. /\ wmode' = "camera" /\ ptz_mode' = "camera" /\ media' # "live"
          /\ media' = "stuck" => injected_error'
      BY <1>7, <3>1 DEF StartMedia
    <3> QED
      BY <2>1, <3>1, <3>2
  <2> QED
    BY <1>7, <2>2, <2>3 DEF StartMedia
<1>8. CASE ReportError
  BY <1>8, WorkerFrame DEF Worker, coordinator, ReportError, EntryMelt
<1>9. CASE Present
  BY <1>9, WorkerFrame DEF Worker, coordinator, Present, EntryMelt
<1>10. CASE EntryDone
  BY <1>10, WorkerFrame, TruncateMelt DEF Worker, coordinator, EntryDone, EntryMelt
<1>11. CASE ExitDone
  BY <1>11, WorkerFrame, TruncateMelt DEF Worker, coordinator, ExitDone, EntryMelt
<1>12. CASE PresentFails
  BY <1>12, WorkerFrame, TruncateMelt DEF Worker, coordinator, PresentFails, CleanMedia, EntryMelt
<1>13. CASE HeartbeatDeadman
  BY <1>13, WorkerFrame DEF Worker, coordinator, HeartbeatDeadman, CleanMedia, EntryMelt
<1>14. CASE Coordinator
  BY <1>14, CoordinatorFrame, ShutdownFrame DEF EntryMelt
<1>15. CASE RequestStop \/ GamePublishes \/ GameDies \/ RouteRequest \/ WriteRequest
            \/ Terminated \/ UNCHANGED vars
  BY <1>15, OutsideFrame DEF EntryMelt
<1> QED
  BY <1>1, <1>2, <1>3, <1>4, <1>5, <1>6, <1>7, <1>8, <1>9, <1>10, <1>11, <1>12, <1>13, <1>14,
     <1>15
  DEF Next, Worker

(* CameraReturned: a worker in camera mode has given the motors back, and the
   picture too unless a shutdown is about to send "stop" or a cleanup failed, and
   then injected.error says so. *)
THEOREM CameraReturnedAlways == Spec => []CameraReturned
<1>1. Init => CameraInv
  BY DEF Init, CameraInv, EntryMelt, NoJob
<1>2. CameraInv => CameraReturned
  BY DEF CameraInv, CameraReturned
<1> QED
  BY <1>1, <1>2, CoordinatorAlways, CameraInvStep, PTL DEF Spec

-----------------------------------------------------------------------------
(* The microphone and the shutdown. *)

(* What cleanup_audio leaves, whatever it returns. *)
LEMMA CleanAudioHook ==
    ASSUME HookInv, NEW ok \in BOOLEAN, CleanAudio(ok)
    PROVE  HookInv' /\ audio' # "on" /\ (ok => ~HoldsAudio')
<1>1. CASE ok
  BY <1>1 DEF HookInv, CleanAudio, HoldsAudio
<1>2. CASE ~ok
  BY <1>2 DEF HookInv, CleanAudio, HoldsAudio
<1> QED
  BY <1>1, <1>2

(* audio.active is written and removed with what it stands for. *)
LEMMA HookInvStep == ASSUME TypeOK, HookInv, [Next]_vars PROVE HookInv'
<1> USE DEF HookInv
<1>1. CASE WriteMode
  BY <1>1 DEF WriteMode, HoldsAudio
<1>2. CASE ReadCommand
  BY <1>2 DEF ReadCommand, HoldsAudio
<1>3. CASE UnlinkCommand
  BY <1>3 DEF UnlinkCommand, HoldsAudio
<1>4. CASE Execute
  <2>1. CASE StartAudio
    BY <2>1, CleanAudioHook DEF StartAudio, HoldsAudio
  <2>2. CASE StopAudio
    BY <2>2, CleanAudioHook DEF StopAudio
  <2>3. CASE PtzCamera
    BY <2>3 DEF PtzCamera, HoldsAudio
  <2>4. CASE Quit
    BY <2>4, CleanAudioHook DEF Quit
  <2> QED
    BY <1>4, <2>1, <2>2, <2>3, <2>4 DEF Execute
<1>5. CASE Leave
  BY <1>5, CleanAudioHook DEF Leave
<1>6. CASE Lifecycle
  BY <1>6 DEF Lifecycle, HoldsAudio
<1>7. CASE StartMedia
  BY <1>7 DEF StartMedia, HoldsAudio
<1>8. CASE ReportError
  BY <1>8 DEF ReportError, HoldsAudio
<1>9. CASE Present
  BY <1>9 DEF Present, HoldsAudio
<1>10. CASE EntryDone
  BY <1>10 DEF EntryDone, HoldsAudio
<1>11. CASE ExitDone
  BY <1>11 DEF ExitDone, HoldsAudio
<1>12. CASE PresentFails
  BY <1>12 DEF PresentFails, HoldsAudio
<1>13. CASE HeartbeatDeadman
  BY <1>13, CleanAudioHook DEF HeartbeatDeadman
<1>14. CASE Coordinator
  BY <1>14, CoordinatorFrame DEF HoldsAudio
<1>15. CASE RequestStop \/ GamePublishes \/ GameDies \/ RouteRequest \/ WriteRequest
            \/ Terminated \/ UNCHANGED vars
  BY <1>15, OutsideFrame DEF HoldsAudio
<1> QED
  BY <1>1, <1>2, <1>3, <1>4, <1>5, <1>6, <1>7, <1>8, <1>9, <1>10, <1>11, <1>12, <1>13, <1>14,
     <1>15
  DEF Next, Worker

(* MicInv is inductive as long as every bounded wait outlasts the command it is
   for: the request to arm is pending only while start_game waits for it, so
   nothing can arm the hook behind the coordinator's back. *)
LEMMA MicInvStep ==
    ASSUME TypeOK, CoordinatorInv, HookInv, MicInv, Prompt', [Next]_vars
    PROVE  MicInv'
<1> USE DEF MicInv, ArmPending, Sent, Idle, Busy, Finish, HoldsAudio
<1>1. CASE WriteMode
  BY <1>1, WorkerFrame, JobDone DEF Worker, WriteMode, TypeOK, Nexts
<1>2. CASE ReadCommand
  BY <1>2, WorkerFrame DEF Worker, ReadCommand
<1>3. CASE UnlinkCommand
  BY <1>3, WorkerFrame DEF Worker, UnlinkCommand
<1>4. CASE Execute
  <2>1. UNCHANGED <<coordinator, command, game>> /\ wpc = "exec" /\ wcmd' = "none"
    BY <1>4 DEF Execute
  <2>2. CASE StartAudio
    BY <2>1, <2>2 DEF StartAudio, CleanAudio
  <2>3. CASE StopAudio
    BY <2>1, <2>3 DEF StopAudio, CleanAudio
  <2>4. CASE PtzCamera
    BY <2>1, <2>4 DEF PtzCamera, TruncateMode
  <2>5. CASE Quit
    BY <2>1, <2>5 DEF Quit, CleanAudio
  <2> QED
    BY <1>4, <2>2, <2>3, <2>4, <2>5 DEF Execute
<1>5. CASE Leave
  BY <1>5, WorkerFrame DEF Worker, Leave, CleanAudio
<1>6. CASE Lifecycle
  <2>1. UNCHANGED <<coordinator, audio, command, wcmd>> /\ wpc = "lifecycle"
    BY <1>6, WorkerFrame DEF Worker, Lifecycle
  <2>2. wpc' \in {"present", "write"}
    BY <1>6 DEF Lifecycle, TruncateMode
  <2>3. injected_error' = TRUE \/ injected_error' = injected_error
    BY <1>6 DEF Lifecycle
  <2> QED
    BY <2>1, <2>2, <2>3
<1>7. CASE StartMedia
  BY <1>7, WorkerFrame DEF Worker, StartMedia, TruncateMode
<1>8. CASE ReportError
  BY <1>8, WorkerFrame DEF Worker, ReportError
<1>9. CASE Present
  BY <1>9, WorkerFrame DEF Worker, Present
<1>10. CASE EntryDone
  BY <1>10, WorkerFrame DEF Worker, EntryDone, TruncateMode
<1>11. CASE ExitDone
  BY <1>11, WorkerFrame DEF Worker, ExitDone, TruncateMode
<1>12. CASE PresentFails
  BY <1>12, WorkerFrame DEF Worker, PresentFails, TruncateMode
<1>13. CASE HeartbeatDeadman
  BY <1>13, WorkerFrame DEF Worker, HeartbeatDeadman, CleanAudio
<1>14. CASE ReadMode
  BY <1>14, CoordinatorFrame DEF Coordinator, ReadMode, Go, Exit
<1>15. CASE CaseMode
  BY <1>15, CoordinatorFrame DEF Coordinator, CaseMode, Go, Exit
<1>16. CASE UnarmAudio
  BY <1>16, CoordinatorFrame DEF Coordinator, UnarmAudio, Go, Exit, Over,
     Answered, Faults, Prompt, HookInv
<1>17. CASE ReapGame
  BY <1>17, CoordinatorFrame DEF Coordinator, ReapGame, Go, TypeOK,
     CoordinatorOK, CoordinatorInv, PlaceInv, Shutdown
<1>18. CASE RemoveGameFiles
  BY <1>18, CoordinatorFrame DEF Coordinator, RemoveGameFiles, Go, TypeOK,
     CoordinatorOK, CoordinatorInv, PlaceInv, Shutdown
<1>19. CASE Rearm
  BY <1>19, CoordinatorFrame DEF Coordinator, Rearm, Go
<1>20. CASE TakeRequest
  BY <1>20, CoordinatorFrame DEF Coordinator, TakeRequest, Go
<1>21. CASE ClearMarkers
  BY <1>21, CoordinatorFrame DEF Coordinator, ClearMarkers, Go
<1>22. CASE SpawnGame
  BY <1>22, CoordinatorFrame DEF Coordinator, SpawnGame, Go
<1>23. CASE AwaitGame
  BY <1>23, CoordinatorFrame DEF Coordinator, AwaitGame, Go
<1>24. CASE ArmFirst
  BY <1>24, CoordinatorFrame DEF Coordinator, ArmFirst, Go, Over,
     Answered, Faults, Prompt, HookInv
<1>25. CASE FailStart
  BY <1>25, CoordinatorFrame DEF Coordinator, FailStart, Go
<1>26. CASE FailWait
  BY <1>26, CoordinatorFrame DEF Coordinator, FailWait, Go, Over,
     Answered, Faults, Prompt, HookInv
<1>27. CASE StartFailed
  BY <1>27, CoordinatorFrame DEF Coordinator, StartFailed, Go
<1>28. CASE CheckError
  BY <1>28, CoordinatorFrame DEF Coordinator, CheckError, Go, Exit
<1>29. CASE CleanupSend
  BY <1>29, CoordinatorFrame DEF Coordinator, CleanupSend, Go, HookInv
<1>30. CASE CleanupWait
  BY <1>30, CoordinatorFrame DEF Coordinator, CleanupWait, Go, Over,
     Answered, Faults, Prompt, CoordinatorInv, PlaceInv, Shutdown
<1>31. CASE Verify
  BY <1>31, CoordinatorFrame DEF Coordinator, Verify, Go
<1>32. CASE RequestStop \/ GamePublishes \/ GameDies \/ RouteRequest \/ WriteRequest
            \/ Terminated \/ UNCHANGED vars
  BY <1>32, OutsideFrame
<1> QED
  BY <1>1, <1>2, <1>3, <1>4, <1>5, <1>6, <1>7, <1>8, <1>9, <1>10, <1>11, <1>12, <1>13, <1>14,
     <1>15, <1>16, <1>17, <1>18, <1>19, <1>20, <1>21, <1>22, <1>23, <1>24, <1>25, <1>26, <1>27,
     <1>28, <1>29, <1>30, <1>31, <1>32
  DEF Next, Worker, Coordinator

(* What the last pass of the worker and the end of the shutdown rely on. *)
LEMMA QuitInvStep ==
    ASSUME TypeOK, CoordinatorInv, HookInv, DownInv, [Next]_vars
    PROVE  QuitInv'
<1> USE DEF DownInv, QuitInv, Finish, HoldsAudio, Busy
<1>1. CASE WriteMode
  BY <1>1, WorkerFrame, JobDone DEF Worker, WriteMode, TypeOK, Nexts, EntryMelt
<1>2. CASE ReadCommand
  BY <1>2, WorkerFrame DEF Worker, ReadCommand, EntryMelt
<1>3. CASE UnlinkCommand
  BY <1>3, WorkerFrame DEF Worker, UnlinkCommand, EntryMelt
<1>4. CASE Execute
  <2>1. UNCHANGED <<coordinator, command, game_ready>> /\ wpc = "exec" /\ wcmd' = "none"
        /\ faults \subseteq faults'
    BY <1>4, WorkerFrame DEF Execute, Worker
  <2>2. CASE StartAudio
    BY <2>1, <2>2 DEF StartAudio, EntryMelt
  <2>3. CASE StopAudio
    BY <2>1, <2>3 DEF StopAudio, EntryMelt
  <2>4. CASE PtzCamera
    BY <2>1, <2>4, TruncateMelt DEF PtzCamera, TruncateMode
  <2>5. CASE Quit
    BY <2>1, <2>5 DEF Quit, CleanAudio, CleanMedia, EntryMelt, TypeOK, WorkerOK
  <2> QED
    BY <1>4, <2>2, <2>3, <2>4, <2>5 DEF Execute
<1>5. CASE Leave
  BY <1>5, WorkerFrame DEF Worker, Leave, CleanAudio, CleanMedia, TypeOK, WorkerOK, EntryMelt
<1>6. CASE Lifecycle
  <2>1. /\ UNCHANGED <<coordinator, audio, command, wcmd, game_ready, quit>> /\ wpc = "lifecycle"
        /\ faults \subseteq faults'
    BY <1>6, WorkerFrame DEF Worker, Lifecycle
  <2>2. wpc' \in {"present", "write"}
    BY <1>6 DEF Lifecycle, TruncateMode
  <2>3. media = "none" => media' = "none"
    BY <1>6 DEF Lifecycle, CleanMedia
  <2>4. EntryMelt' => game_ready
    BY <1>6, TruncateMelt DEF Lifecycle, EntryMelt
  <2> QED
    BY <2>1, <2>2, <2>3, <2>4
<1>7. CASE StartMedia
  BY <1>7, WorkerFrame, TruncateMelt DEF Worker, StartMedia, TruncateMode, EntryMelt
<1>8. CASE ReportError
  BY <1>8, WorkerFrame DEF Worker, ReportError, EntryMelt
<1>9. CASE Present
  BY <1>9, WorkerFrame DEF Worker, Present, EntryMelt
<1>10. CASE EntryDone
  BY <1>10, WorkerFrame, TruncateMelt DEF Worker, EntryDone, TruncateMode, EntryMelt
<1>11. CASE ExitDone
  BY <1>11, WorkerFrame, TruncateMelt DEF Worker, ExitDone, TruncateMode, EntryMelt
<1>12. CASE PresentFails
  BY <1>12, WorkerFrame, TruncateMelt DEF Worker, PresentFails, CleanMedia, TruncateMode, EntryMelt
<1>13. CASE HeartbeatDeadman
  BY <1>13, WorkerFrame DEF Worker, HeartbeatDeadman, CleanAudio, CleanMedia, TypeOK, WorkerOK, EntryMelt
<1>14. CASE ReadMode
  BY <1>14, CoordinatorFrame DEF Coordinator, ReadMode, Go, Exit, EntryMelt
<1>15. CASE CaseMode
  BY <1>15, CoordinatorFrame DEF Coordinator, CaseMode, Go, Exit, EntryMelt
<1>16. CASE UnarmAudio
  BY <1>16, CoordinatorFrame DEF Coordinator, UnarmAudio, Go, Exit, Over, EntryMelt
<1>17. CASE ReapGame
  BY <1>17, CoordinatorFrame DEF Coordinator, ReapGame, Go, TypeOK,
     CoordinatorOK, CoordinatorInv, PlaceInv, Shutdown, EntryMelt
<1>18. CASE RemoveGameFiles
  BY <1>18, CoordinatorFrame DEF Coordinator, RemoveGameFiles, Go, TypeOK,
     CoordinatorOK, CoordinatorInv, PlaceInv, Shutdown, EntryMelt
<1>19. CASE Rearm
  BY <1>19, CoordinatorFrame DEF Coordinator, Rearm, Go, EntryMelt
<1>20. CASE TakeRequest
  BY <1>20, CoordinatorFrame DEF Coordinator, TakeRequest, Go, EntryMelt
<1>21. CASE ClearMarkers
  BY <1>21, CoordinatorFrame DEF Coordinator, ClearMarkers, Go, EntryMelt
<1>22. CASE SpawnGame
  BY <1>22, CoordinatorFrame DEF Coordinator, SpawnGame, Go, EntryMelt
<1>23. CASE AwaitGame
  BY <1>23, CoordinatorFrame DEF Coordinator, AwaitGame, Go, EntryMelt
<1>24. CASE ArmFirst
  BY <1>24, CoordinatorFrame DEF Coordinator, ArmFirst, Go, Over, EntryMelt
<1>25. CASE FailStart
  BY <1>25, CoordinatorFrame DEF Coordinator, FailStart, Go, EntryMelt
<1>26. CASE FailWait
  BY <1>26, CoordinatorFrame DEF Coordinator, FailWait, Go, Over, EntryMelt
<1>27. CASE StartFailed
  BY <1>27, CoordinatorFrame DEF Coordinator, StartFailed, Go, EntryMelt
<1>28. CASE CheckError
  BY <1>28, CoordinatorFrame DEF Coordinator, CheckError, Go, Exit, EntryMelt
<1>29. CASE CleanupSend
  BY <1>29, CoordinatorFrame DEF Coordinator, CleanupSend, Go, EntryMelt
<1>30. CASE CleanupWait
  BY <1>30, CoordinatorFrame DEF Coordinator, CleanupWait, Go, Over, EntryMelt
<1>31. CASE Verify
  BY <1>31, CoordinatorFrame DEF Coordinator, Verify, Go, Clean, Prompt, OneQuitInv,
     HookInv, EntryMelt
<1>32. CASE RequestStop \/ GamePublishes \/ GameDies \/ RouteRequest \/ WriteRequest
            \/ Terminated \/ UNCHANGED vars
  BY <1>32, OutsideFrame DEF EntryMelt, CoordinatorInv, PidInv
<1> QED
  BY <1>1, <1>2, <1>3, <1>4, <1>5, <1>6, <1>7, <1>8, <1>9, <1>10, <1>11, <1>12, <1>13, <1>14,
     <1>15, <1>16, <1>17, <1>18, <1>19, <1>20, <1>21, <1>22, <1>23, <1>24, <1>25, <1>26, <1>27,
     <1>28, <1>29, <1>30, <1>31, <1>32
  DEF Next, Worker, Coordinator

(* Without a failed cleanup or a slow worker nothing is left to the worker but to
   leave once "quit" is sent. *)
LEMMA OneQuitInvStep ==
    ASSUME TypeOK, CoordinatorInv, QuitInv, OneQuitInv, Clean', [Next]_vars
    PROVE  OneQuitInv'
<1> USE DEF OneQuitInv, Clean, Prompt, Sent, Idle, Busy
<1>1. CASE WriteMode
  BY <1>1, WorkerFrame, JobDone DEF Worker, WriteMode, TypeOK, Nexts
<1>2. CASE ReadCommand
  BY <1>2, WorkerFrame DEF Worker, ReadCommand
<1>3. CASE UnlinkCommand
  BY <1>3, WorkerFrame DEF Worker, UnlinkCommand
<1>4. CASE Execute
  <2>1. UNCHANGED <<coordinator, command>> /\ wpc = "exec" /\ wcmd' = "none"
    BY <1>4 DEF Execute
  <2>2. CASE StartAudio
    BY <2>1, <2>2 DEF StartAudio, CleanAudio, Faults, Failed
  <2>3. CASE StopAudio
    BY <2>1, <2>3 DEF StopAudio, CleanAudio, CleanMedia, Faults, Failed
  <2>4. CASE PtzCamera
    BY <2>1, <2>4 DEF PtzCamera, TruncateMode
  <2>5. CASE Quit
    BY <2>1, <2>5 DEF Quit, CleanAudio, CleanMedia, Faults, Failed
  <2> QED
    BY <1>4, <2>2, <2>3, <2>4, <2>5 DEF Execute
<1>5. CASE Leave
  BY <1>5, WorkerFrame DEF Worker, Leave, CleanAudio, CleanMedia, Faults, Failed
<1>6. CASE Lifecycle
  BY <1>6, WorkerFrame DEF Worker, Lifecycle, ModeAfter, CleanMedia, Faults, Failed, TruncateMode
<1>7. CASE StartMedia
  BY <1>7, WorkerFrame DEF Worker, StartMedia, CleanMedia, Faults, Failed, TruncateMode
<1>8. CASE ReportError
  BY <1>8, WorkerFrame DEF Worker, ReportError
<1>9. CASE Present
  BY <1>9, WorkerFrame DEF Worker, Present
<1>10. CASE EntryDone
  BY <1>10, WorkerFrame DEF Worker, EntryDone, TruncateMode
<1>11. CASE ExitDone
  BY <1>11, WorkerFrame DEF Worker, ExitDone, TruncateMode
<1>12. CASE PresentFails
  BY <1>12, WorkerFrame DEF Worker, PresentFails, CleanMedia, Faults, Failed, TruncateMode
<1>13. CASE HeartbeatDeadman
  BY <1>13, WorkerFrame DEF Worker, HeartbeatDeadman, CleanAudio, CleanMedia, Faults, Failed
<1>14. CASE ReadMode
  BY <1>14, CoordinatorFrame DEF Coordinator, ReadMode, Go, Exit, CoordinatorInv, PlaceInv, Shutdown, Finish
<1>15. CASE CaseMode
  BY <1>15, CoordinatorFrame DEF Coordinator, CaseMode, Go, Exit, CoordinatorInv, PlaceInv, Shutdown, Finish
<1>16. CASE UnarmAudio
  BY <1>16, CoordinatorFrame DEF Coordinator, UnarmAudio, Go, Exit, Over,
     Answered, Faults, QuitInv, Finish, CoordinatorInv, PlaceInv, Shutdown
<1>17. CASE ReapGame
  BY <1>17, CoordinatorFrame DEF Coordinator, ReapGame, Go, CoordinatorInv, PlaceInv, Shutdown, Finish,
     TypeOK, CoordinatorOK
<1>18. CASE RemoveGameFiles
  BY <1>18, CoordinatorFrame DEF Coordinator, RemoveGameFiles, Go, CoordinatorInv, PlaceInv, Shutdown, Finish,
     TypeOK, CoordinatorOK
<1>19. CASE Rearm
  BY <1>19, CoordinatorFrame DEF Coordinator, Rearm, Go, CoordinatorInv, PlaceInv, Shutdown, Finish
<1>20. CASE TakeRequest
  BY <1>20, CoordinatorFrame DEF Coordinator, TakeRequest, Go, CoordinatorInv, PlaceInv, Shutdown, Finish
<1>21. CASE ClearMarkers
  BY <1>21, CoordinatorFrame DEF Coordinator, ClearMarkers, Go, CoordinatorInv, PlaceInv, Shutdown, Finish
<1>22. CASE SpawnGame
  BY <1>22, CoordinatorFrame DEF Coordinator, SpawnGame, Go, CoordinatorInv, PlaceInv, Shutdown, Finish
<1>23. CASE AwaitGame
  BY <1>23, CoordinatorFrame DEF Coordinator, AwaitGame, Go, CoordinatorInv, PlaceInv, Shutdown, Finish
<1>24. CASE ArmFirst
  BY <1>24, CoordinatorFrame DEF Coordinator, ArmFirst, Go, Over,
     Answered, Faults, QuitInv, Finish, CoordinatorInv, PlaceInv, Shutdown
<1>25. CASE FailStart
  BY <1>25, CoordinatorFrame DEF Coordinator, FailStart, Go, CoordinatorInv, PlaceInv, Shutdown, Finish
<1>26. CASE FailWait
  BY <1>26, CoordinatorFrame DEF Coordinator, FailWait, Go, Over,
     Answered, Faults, QuitInv, Finish, CoordinatorInv, PlaceInv, Shutdown
<1>27. CASE StartFailed
  BY <1>27, CoordinatorFrame DEF Coordinator, StartFailed, Go, CoordinatorInv, PlaceInv, Shutdown, Finish
<1>28. CASE CheckError
  BY <1>28, CoordinatorFrame DEF Coordinator, CheckError, Go, Exit, CoordinatorInv, PlaceInv, Shutdown, Finish
<1>29. CASE CleanupSend
  BY <1>29, CoordinatorFrame DEF Coordinator, CleanupSend, Go, CoordinatorInv, PlaceInv, Shutdown, Finish
<1>30. CASE CleanupWait
  BY <1>30, CoordinatorFrame DEF Coordinator, CleanupWait, Go, Over,
     Answered, Faults, QuitInv, Finish, CoordinatorInv, PlaceInv, Shutdown
<1>31. CASE Verify
  BY <1>31, CoordinatorFrame DEF Coordinator, Verify, Go, CoordinatorInv, PlaceInv, Shutdown, Finish
<1>32. CASE RequestStop \/ GamePublishes \/ GameDies \/ RouteRequest \/ WriteRequest
            \/ Terminated \/ UNCHANGED vars
  BY <1>32, OutsideFrame
<1> QED
  BY <1>1, <1>2, <1>3, <1>4, <1>5, <1>6, <1>7, <1>8, <1>9, <1>10, <1>11, <1>12, <1>13, <1>14,
     <1>15, <1>16, <1>17, <1>18, <1>19, <1>20, <1>21, <1>22, <1>23, <1>24, <1>25, <1>26, <1>27,
     <1>28, <1>29, <1>30, <1>31, <1>32
  DEF Next, Worker, Coordinator

(* A fault that has happened stays on record, so what holds without it is kept
   up to the step in which it happens. *)
LEMMA FaultsKept == ASSUME [Next]_vars PROVE faults \subseteq faults'
  BY WorkerFrame, CoordinatorFrame, OutsideFrame DEF Next

(* MicBeforeReap: the coordinator never ends a game whose ring the AAC hook is
   still reading, unless a wait ran out on a slow worker. *)
THEOREM MicBeforeReapAlways == Spec => MicBeforeReap
<1>1. Init => HookInv /\ MicWhenPrompt
  BY DEF Init, HookInv, HoldsAudio, MicWhenPrompt, MicInv, ArmPending, Sent, Idle, Busy, Finish
<1>2. TypeOK /\ CoordinatorInv /\ HookInv /\ MicWhenPrompt /\ [Next]_vars
        => HookInv' /\ MicWhenPrompt'
  BY HookInvStep, MicInvStep, FaultsKept DEF MicWhenPrompt, Prompt
<1>3. ASSUME MicWhenPrompt, Prompt, [Next]_vars, game \in {"booting", "running"}, game' = "none"
      PROVE  audio # "on"
  <2>1. CASE ReapGame
    BY <1>3, <2>1 DEF ReapGame, MicWhenPrompt, MicInv
  <2>2. CASE SpawnGame
    BY <1>3, <2>2 DEF SpawnGame
  <2>3. CASE Coordinator /\ ~SpawnGame /\ ~ReapGame
    BY <1>3, <2>3 DEF Coordinator, ReadMode, CaseMode, UnarmAudio, RemoveGameFiles, Rearm,
       TakeRequest, ClearMarkers, AwaitGame, ArmFirst, FailStart, FailWait, StartFailed, CheckError,
       CleanupSend, CleanupWait, Verify
  <2> QED
    BY <1>3, <2>1, <2>2, <2>3, WorkerFrame, OutsideFrame DEF Next
<1>4. MicWhenPrompt /\ [Next]_vars
        => [(game \in {"booting", "running"} /\ game' = "none")
              => audio # "on" \/ "slow" \in faults]_vars
  BY <1>3 DEF Prompt
<1> QED
  BY <1>1, <1>2, <1>4, CoordinatorAlways, PTL DEF Spec, MicBeforeReap

(* DownHonest, the safety half of StopRestores: a coordinator that is down and says
   so has given back picture, microphone and motors, ended the game and outlived
   the worker, whatever was going on when it was asked to stop; otherwise it has
   recorded the failure, and a cleanup did fail or the worker was slow. *)
THEOREM DownRestored == Spec => []DownHonest
<1>1. Init => HookInv /\ DownInv
  BY DEF Init, NoJob, HookInv, HoldsAudio, DownInv, QuitInv, OneQuitInv, EntryMelt, Sent, Idle,
     Busy, Finish
<1>2. TypeOK /\ CoordinatorInv /\ HookInv /\ DownInv /\ [Next]_vars => HookInv' /\ DownInv'
  BY HookInvStep, QuitInvStep, OneQuitInvStep, FaultsKept DEF DownInv, Clean, Prompt
<1>3. CoordinatorInv /\ DownInv => DownHonest
  BY DEF CoordinatorInv, PidInv, Finish, DownInv, QuitInv, DownHonest, Restored
<1> QED
  BY <1>1, <1>2, <1>3, CoordinatorAlways, PTL DEF Spec

=============================================================================
