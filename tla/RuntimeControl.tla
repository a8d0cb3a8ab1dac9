--------------------------- MODULE RuntimeControl ---------------------------
(***************************************************************************)
(* The recogniser and mode machine of e1-runtime-control.h as the injected  *)
(* worker drives it: one pass of the worker looks at the heartbeat and takes *)
(* a command, either of which may take the media away or reset the mode     *)
(* without the other, takes the dashboard requests, drains the PTZ ring     *)
(* (drain_ptz_events), ticks, begins a melt if a request or gesture asked    *)
(* for one, and presents a frame that may end the melt.                     *)
(*                                                                         *)
(* The functions of the header are operators on the record struct           *)
(* e1_runtime_control; each returns the new record and the actions asked    *)
(* for.  Times are the code's milliseconds, scaled down by the bounds.      *)
(***************************************************************************)
EXTENDS Integers, Sequences

CONSTANTS
  SECRET,        \* the directional sequence secret[]
  TAPS,          \* E1_STOP_ONLY_SECRET_TAPS
  GAP,           \* E1_SECRET_GAP_MS
  TOTAL,         \* E1_SECRET_TOTAL_MS
  HOLD,          \* E1_EXIT_HOLD_MS
  COMMANDS,      \* PTZ commands seen by the hook; 0 is stop, 4 is Down
  MAX_TIME,      \* bound: the clock
  MAX_EVENTS,    \* bound: PTZ events
  MAX_REQUESTS   \* bound: dashboard requests

ASSUME ControlAssumption ==
    /\ SECRET \in Seq(Int) /\ Len(SECRET) > 0
    /\ TAPS \in Nat \ {0} /\ GAP \in Nat \ {0} /\ TOTAL \in Nat /\ HOLD \in Nat
    /\ COMMANDS \subseteq Int
    /\ MAX_TIME \in Nat /\ MAX_EVENTS \in Nat /\ MAX_REQUESTS \in Nat

VARIABLES
  control,   \* struct e1_runtime_control
  now,       \* monotonic_ms()
  pc,        \* where the worker is in its pass
  actions,   \* the actions of this pass
  live,      \* state.path_started && state.doom_frames: frames are shown
  melt,      \* the melt that begin_entry_melt or begin_exit_melt set up
  \* history and bounds
  apart,     \* what came between mode and media since the last start of the media
  hist,      \* events seen since the last melt or reset, with their times
  events, requests

vars == <<control, now, pc, actions, live, melt, apart, hist, events, requests>>

Modes == {"camera", "entry", "doom", "exit"}

(* memset(&control, 0, ...) with mode CAMERA_ARMED *)
Cleared ==
    [mode |-> "camera", secret_index |-> 0, secret_first |-> 0, secret_last |-> 0,
     stop_only_index |-> 0, stop_only_first |-> 0, stop_only_last |-> 0, exit_down_first |-> 0,
     camera_control_down |-> FALSE, raw_direction |-> FALSE, secret_complete |-> FALSE,
     exit_down |-> FALSE]

Init ==
    /\ control = Cleared /\ now = 1 /\ pc = "command" /\ actions = {}
    /\ live = FALSE /\ melt = "none" /\ apart = {}
    /\ hist = <<>> /\ events = 0 /\ requests = 0

-----------------------------------------------------------------------------
(* e1-runtime-control.h *)

Result(c, acts) == [c |-> c, acts |-> acts]

(* Mutant of ResetSecret: the time of the first press is kept. *)
ResetSecretKeepsFirst(c) ==
    [c EXCEPT !.secret_index = 0, !.secret_last = 0, !.secret_complete = FALSE]

ResetSecret(c) == [c EXCEPT !.secret_index = 0, !.secret_first = 0, !.secret_last = 0,
                            !.secret_complete = FALSE]

ResetStopOnly(c) == [c EXCEPT !.stop_only_index = 0, !.stop_only_first = 0, !.stop_only_last = 0]

(* A gesture of n taps so far is too slow: its last tap or its first is too
   long ago. *)
Expired(n, first, last, t) == n # 0 /\ (t - last > GAP \/ t - first > TOTAL)

ExpireStopOnly(c, t) ==
    IF Expired(c.stop_only_index, c.stop_only_first, c.stop_only_last, t)
    THEN ResetStopOnly(c) ELSE c

ExpireSecret(c, t) ==
    IF Expired(c.secret_index, c.secret_first, c.secret_last, t) THEN ResetSecret(c) ELSE c

(* Mutant of RequestEnter: the taps of the gesture are kept. *)
RequestEnterKeepsTaps(c) ==
    IF c.mode # "camera" THEN Result(c, {})
    ELSE Result(ResetSecret([c EXCEPT !.mode = "entry", !.raw_direction = FALSE]), {"ENTER"})

RequestEnter(c) ==
    IF c.mode # "camera" THEN Result(c, {})
    ELSE Result(ResetStopOnly(ResetSecret(
                  [c EXCEPT !.mode = "entry", !.camera_control_down = FALSE,
                            !.raw_direction = FALSE])), {"ENTER"})

(* Mutant of RequestExit: no guard on the mode. *)
RequestExitUnguarded(c) ==
    Result(ResetStopOnly([c EXCEPT !.mode = "exit", !.camera_control_down = FALSE,
                                   !.raw_direction = FALSE, !.exit_down = FALSE,
                                   !.exit_down_first = 0]), {"EXIT"})

RequestExit(c) ==
    IF c.mode # "doom" THEN Result(c, {})
    ELSE Result(ResetStopOnly([c EXCEPT !.mode = "exit", !.camera_control_down = FALSE,
                                        !.raw_direction = FALSE, !.exit_down = FALSE,
                                        !.exit_down_first = 0]), {"EXIT"})

(* One more stop-only tap at t. *)
CountTap(c, t) ==
    LET d == [c EXCEPT !.stop_only_first = IF c.stop_only_index = 0 THEN t ELSE @,
                       !.stop_only_last = t, !.stop_only_index = @ + 1]
    IN  IF d.stop_only_index # TAPS THEN Result(d, {})
        ELSE IF d.mode = "camera" THEN RequestEnter(d) ELSE RequestExit(d)

(* Mutant of ObserveRaw: a stop that ends a directional press counts. *)
ObserveRawPaired(c, command, t) ==
    IF c.mode \notin {"camera", "doom"}
    THEN Result(ResetStopOnly([c EXCEPT !.raw_direction = FALSE]), {})
    ELSE IF command # 0
    THEN Result([ExpireStopOnly(c, t) EXCEPT !.raw_direction = TRUE], {})
    ELSE CountTap([ExpireStopOnly(c, t) EXCEPT !.raw_direction = FALSE], t)

(* e1_runtime_observe_raw_ptz: a stop without a direction before it is a tap. *)
ObserveRaw(c, command, t) ==
    IF c.mode \notin {"camera", "doom"}
    THEN Result(ResetStopOnly([c EXCEPT !.raw_direction = FALSE]), {})
    ELSE IF command # 0
    THEN Result(ResetStopOnly([c EXCEPT !.raw_direction = TRUE]), {})
    ELSE IF c.raw_direction
    THEN Result(ResetStopOnly([c EXCEPT !.raw_direction = FALSE]), {})
    ELSE CountTap(ExpireStopOnly(c, t), t)

(* A press at t matches the next command of the secret, or starts over. *)
MatchSecret(c, command, t) ==
    IF c.secret_index < Len(SECRET) /\ command = SECRET[c.secret_index + 1]
    THEN [c EXCEPT !.secret_first = IF c.secret_index = 0 THEN t ELSE @,
                   !.secret_last = t, !.secret_index = @ + 1,
                   !.secret_complete = (c.secret_index + 1 = Len(SECRET)) \/ @]
    ELSE IF command = SECRET[1]
    THEN [ResetSecret(c) EXCEPT !.secret_index = 1, !.secret_first = t, !.secret_last = t]
    ELSE ResetSecret(c)

CameraCommand(c0, command, t) ==
    LET c == ExpireSecret(c0, t)
        released == [c EXCEPT !.camera_control_down = FALSE]
    IN  IF command = 0
        THEN IF c.secret_complete
             THEN Result(ResetSecret([released EXCEPT !.mode = "entry"]), {"ENTER"})
             ELSE Result(released, {})
        ELSE IF c.camera_control_down THEN Result(c, {})
        ELSE Result(MatchSecret([c EXCEPT !.camera_control_down = TRUE], command, t), {})

Held(c, t) == t - c.exit_down_first >= HOLD

(* The Doom branch of e1_runtime_apply_ptz: Down held for HOLD leaves. *)
DoomCommand(c, command, t) ==
    LET released == [c EXCEPT !.exit_down = FALSE, !.exit_down_first = 0]
    IN  IF command = 4
        THEN Result(IF c.exit_down THEN c
                    ELSE [c EXCEPT !.exit_down = TRUE, !.exit_down_first = t], {"FORWARD"})
        ELSE IF command = 0 /\ c.exit_down /\ Held(c, t)
        THEN Result([released EXCEPT !.mode = "exit"], {"FORWARD", "EXIT"})
        ELSE Result(IF c.exit_down THEN released ELSE c, {"FORWARD"})

ApplyPtz(c, command, t) ==
    CASE c.mode = "camera" -> CameraCommand(c, command, t)
      [] c.mode = "doom"   -> DoomCommand(c, command, t)
      [] c.mode = "exit" /\ c.exit_down /\ command = 0 ->
           Result([c EXCEPT !.exit_down = FALSE, !.exit_down_first = 0], {"FORWARD"})
      [] OTHER -> Result(c, {})

Tick(c0, t) ==
    LET c1 == IF c0.mode = "camera" THEN ExpireSecret(c0, t) ELSE c0
        c  == IF c0.mode \in {"camera", "doom"} THEN ExpireStopOnly(c1, t) ELSE c1
    IN  IF c.mode = "doom" /\ c.exit_down /\ Held(c, t)
        THEN Result([c EXCEPT !.mode = "exit"], {"EXIT"})
        ELSE Result(c, {})

ExitComplete(c) ==
    ResetStopOnly(ResetSecret(
        [c EXCEPT !.mode = "camera", !.camera_control_down = FALSE, !.raw_direction = FALSE,
                  !.exit_down = FALSE, !.exit_down_first = 0]))

-----------------------------------------------------------------------------
(* The worker's pass. *)

(* The heartbeat of the supervisor (stale: it stood still for too long) and the
   commands of the coordinator that touch mode or media: "stop", which leaves the
   mode, and "ptz-camera", which leaves the media.  A cleanup_media that fails
   closes the frame source all the same. *)
Command(stale, command) ==
    /\ pc = "command"
    /\ LET gone == stale \/ command = "stop"
       IN  /\ live' = (live /\ ~gone)
           /\ melt' = IF gone THEN "none" ELSE melt
           /\ apart' = apart \cup (IF live /\ gone THEN {"taken"} ELSE {})
                             \cup (IF live' /\ command = "ptz-camera" THEN {"left"} ELSE {})
    /\ control' = IF command = "ptz-camera" THEN Cleared ELSE control
    /\ hist' = IF command = "ptz-camera" THEN <<>> ELSE hist
    /\ pc' = "requests"
    /\ UNCHANGED <<now, actions, events, requests>>

(* dashboard.start (start) and dashboard.camera (camera), in this order. *)
DashboardRequests(start, camera) ==
    /\ pc = "requests"
    /\ (start \/ camera) => requests < MAX_REQUESTS
    /\ requests' = IF start \/ camera THEN requests + 1 ELSE requests
    /\ LET e == IF start THEN RequestEnter(control) ELSE Result(control, {})
           x == IF camera THEN RequestExit(e.c) ELSE Result(e.c, {})
       IN  control' = x.c /\ actions' = e.acts \cup x.acts
    /\ pc' = "drain"
    /\ UNCHANGED <<now, live, melt, apart, hist, events>>

(* One event of drain_ptz_events; in camera mode a press is at once followed
   by a stop of the worker's own making. *)
DrainEvent(command) ==
    /\ pc = "drain" /\ events < MAX_EVENTS
    /\ events' = events + 1
    /\ LET o == ObserveRaw(control, command, now)
           a == ApplyPtz(o.c, command, now)
           s == IF control.mode = "camera" /\ command # 0
                THEN ApplyPtz(a.c, 0, now + 1) ELSE Result(a.c, {})
       IN  control' = s.c /\ actions' = actions \cup o.acts \cup a.acts \cup s.acts
    /\ hist' = Append(IF control.mode \in {"entry", "exit"} THEN <<>> ELSE hist,
                      [command |-> command, at |-> now])
    /\ UNCHANGED <<now, pc, live, melt, apart, requests>>

(* Mutant of Deferred: the request is dropped but the mode is kept. *)
DeferredKeepsMode(ready) == Result(control, IF ready THEN actions ELSE actions \ {"ENTER"})

(* A start without a ready game becomes a request to the coordinator. *)
Deferred(ready) ==
    IF "ENTER" \in actions /\ ~ready THEN Result(Cleared, actions \ {"ENTER"})
    ELSE Result(control, actions)

(* The rest of the block: defer, tick, begin a melt; begun tells whether
   begin_entry_melt or begin_exit_melt succeeds.  An entry melt starts the media,
   which fails where they are up already, an exit melt needs them; after a failed
   one they are down. *)
BeginMelt(ready, begun) ==
    /\ pc = "drain"
    /\ LET d == Deferred(ready)
           t == Tick(d.c, now)
           acts == d.acts \cup t.acts
           none == acts \cap {"ENTER", "EXIT"} = {}
       IN  /\ begun /\ "ENTER" \in acts => ~live
           /\ "EXIT" \in acts => begun = live
           /\ actions' = acts
           /\ control' = IF none \/ begun THEN t.c
                         ELSE IF "EXIT" \in acts THEN Cleared
                         ELSE [t.c EXCEPT !.mode = "camera"]
           /\ live' = IF none THEN live ELSE begun
           /\ melt' = IF none THEN melt
                      ELSE IF ~begun THEN "none"
                      ELSE IF "EXIT" \in acts THEN "exit" ELSE "entry"
           /\ apart' = IF begun /\ "ENTER" \in acts THEN {} ELSE apart
    /\ hist' = IF (actions \cup actions') \cap {"ENTER", "EXIT"} # {} THEN <<>> ELSE hist
    /\ pc' = "present"
    /\ UNCHANGED <<now, events, requests>>

(* A frame is shown, if the media are up, and time goes by; done is the last step
   of a melt, fails a lost frame source or a failed cleanup after the exit melt. *)
Present(done, fails, t) ==
    /\ pc = "present"
    /\ done \/ fails => live
    /\ done => ~fails /\ control.mode \in {"entry", "exit"}
    /\ control' = CASE fails -> Cleared
                    [] done /\ control.mode = "entry" -> [control EXCEPT !.mode = "doom"]
                    [] done /\ control.mode = "exit" -> ExitComplete(control)
                    [] OTHER -> control
    /\ live' = (live /\ ~fails /\ ~(done /\ control.mode = "exit"))
    /\ melt' = IF fails \/ done THEN "none" ELSE melt
    /\ hist' = IF fails \/ done THEN <<>> ELSE hist
    /\ now' = t
    /\ pc' = "command" /\ actions' = {}
    /\ UNCHANGED <<apart, events, requests>>

Next ==
    \/ \E stale \in BOOLEAN, command \in {"none", "stop", "ptz-camera"} : Command(stale, command)
    \/ \E start, camera \in BOOLEAN : DashboardRequests(start, camera)
    \/ \E command \in COMMANDS : DrainEvent(command)
    \/ \E ready, begun \in BOOLEAN : BeginMelt(ready, begun)
    \/ \E done, fails \in BOOLEAN, t \in now .. MAX_TIME : Present(done, fails, t)

Spec == Init /\ [][Next]_vars
-----------------------------------------------------------------------------
TypeOK ==
    /\ control \in [mode : Modes, secret_index : Nat, secret_first : Nat, secret_last : Nat,
                    stop_only_index : Nat, stop_only_first : Nat, stop_only_last : Nat,
                    exit_down_first : Nat, camera_control_down : BOOLEAN,
                    raw_direction : BOOLEAN, secret_complete : BOOLEAN, exit_down : BOOLEAN]
    /\ now \in Nat /\ pc \in {"command", "requests", "drain", "present"}
    /\ actions \subseteq {"ENTER", "EXIT", "FORWARD"}
    /\ live \in BOOLEAN /\ melt \in {"none", "entry", "exit"} /\ apart \subseteq {"taken", "left"}
    /\ events \in Nat /\ requests \in Nat

(* However dashboard requests, taps and ticks fall into one pass of the worker,
   it never has to begin both melts, and the action it is left with agrees with
   the mode the recogniser is in. *)
OneTransition ==
    /\ ~({"ENTER", "EXIT"} \subseteq actions)
    /\ pc = "drain" => /\ "ENTER" \in actions => control.mode = "entry"
                       /\ "EXIT" \in actions => control.mode = "exit"

(* What the mode m says of the media and the melt: a melt mode has its own melt
   running and Doom is shown, unless a stop or the dead-man took the media away;
   no melt runs under another mode and nothing covers the camera in camera mode,
   unless "ptz-camera" left it there. *)
Backed(m) ==
    /\ m \in {"entry", "exit"} => melt = m \/ "taken" \in apart
    /\ m = "doom" => live \/ "taken" \in apart
    /\ melt # "none" => live /\ (melt = m \/ "left" \in apart)
    /\ live => m # "camera" \/ "left" \in apart

(* Between passes mode and media agree, whatever requests, gestures, deferrals,
   failed starts and failed frames came: otherwise nobody would ever call
   e1_runtime_entry_complete or e1_runtime_exit_complete, or the picture would
   stay over the camera.  Only the commands and the dead-man, which act on one of
   the two, set them apart, and the next start of the media puts them together. *)
MeltBehindMode == pc = "command" => Backed(control.mode)

(* What a melt starts from: no tap made before or during it counts after it,
   and a hold of Down is only ever timed in Doom. *)
CleanRecogniser ==
    /\ control.mode \in {"entry", "exit"} =>
         control.stop_only_index = 0 /\ control.secret_index = 0
    /\ control.exit_down => control.mode \in {"doom", "exit"}
    /\ control.secret_index # 0 => control.mode = "camera"

(* The times the recogniser keeps are in the past and in order - the stop the
   worker makes up is stamped a millisecond ahead - so none of the unsigned
   differences it takes ever wraps into an expired gesture or a held Down. *)
TimesPast ==
    /\ control.secret_last <= now /\ control.secret_first <= control.secret_last
    /\ control.stop_only_last <= now /\ control.stop_only_first <= control.stop_only_last
    /\ control.exit_down_first <= now

-----------------------------------------------------------------------------
(* The gestures as the documentation describes them, over the history. *)

(* TAPS stops in time, the first not the release of a press. *)
TapGesture(h, t) ==
    LET first == Len(h) - TAPS + 1
    IN  /\ first >= 1 /\ t - h[first].at <= TOTAL
        /\ \A i \in first .. Len(h) : h[i].command = 0
        /\ \A i \in first + 1 .. Len(h) : h[i].at - h[i - 1].at <= GAP
        /\ first > 1 => h[first - 1].command = 0

Presses(h) == {i \in 1 .. Len(h) : h[i].command # 0}

(* The presses from at[1] on are the first k commands of the secret, each in time
   after the one before. *)
SecretSoFar(h, k, at) ==
    /\ \A i \in 1 .. k : h[at[i]].command = SECRET[i]
    /\ \A i \in 2 .. k : at[i - 1] < at[i] /\ h[at[i]].at - h[at[i - 1]].at <= GAP
    /\ \A j \in Presses(h) : j >= at[1] => \E i \in 1 .. k : j = at[i]

(* The last presses are the secret, in time. *)
SecretGesture(h, t) ==
    \E at \in [1 .. Len(SECRET) -> Presses(h)] :
        SecretSoFar(h, Len(SECRET), at) /\ t - h[at[1]].at <= TOTAL

(* Down since HOLD or longer, with nothing else in between; the release may
   be the last event. *)
HoldGesture(h, t) ==
    \E i \in 1 .. Len(h) : /\ h[i].command = 4 /\ t - h[i].at >= HOLD
                           /\ \A j \in i .. Len(h) : h[j].command = 4 \/ (j = Len(h) /\ h[j].command = 0)

(* Nothing short of a complete gesture moves the mode, whatever lies between
   the taps and wherever the passes and melts fall: an event enters Doom only
   on the secret or the stop-only taps and leaves it only on the taps or a held
   Down, and a tick leaves it only for Down still held. *)
OnlyGestures ==
    [][pc = "drain" =>
         /\ (events' # events /\ control'.mode # control.mode) =>
              \/ TapGesture(hist', now)
              \/ control.mode = "camera" /\ SecretGesture(hist', now)
              \/ control.mode = "doom" /\ HoldGesture(hist', now)
         /\ (events' = events /\ "EXIT" \in actions' \ actions) => HoldGesture(hist, now)]_vars
=============================================================================
