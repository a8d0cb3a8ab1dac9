-------------------------------- MODULE Keys --------------------------------
(***************************************************************************)
(* Who holds which key of the game.  The standalone controller keeps the    *)
(* browser's held codes and sends key datagrams (i_input_e1.c, HTTP half);  *)
(* the injected worker sends PTZ datagrams over the same socket; the game's *)
(* I_StartTic applies both (game half, with e1-ptz-input.h).                *)
(*                                                                         *)
(* The browser and the network are whatever requests arrive: every fetch    *)
(* has its own connection, so they come in any order, twice or not at all.  *)
(* Only differences of times matter, so the clock is kept as ages: of the   *)
(* last activity, of the controller's pass (it samples now before it polls),*)
(* of the PTZ deadline and of the last release of Up.                       *)
(***************************************************************************)
EXTENDS Integers, Sequences, FiniteSets

CONSTANTS
  CODES,         \* KeyboardEvent.code values the browser sends
  COMMANDS,      \* PTZ commands that arrive
  SLOTS,         \* E1_HTTP_HELD_CODES, 64
  DEADMAN,       \* E1_HTTP_DEADMAN_MS, 2500
  TIMEOUT,       \* E1_PTZ_INPUT_TIMEOUT_MS, 350
  DOUBLE_TAP,    \* E1_PTZ_ACTION_DOUBLE_TAP_MS, 700
  PASS,          \* the longest the clock runs from one pass to the next
  QUEUE          \* datagrams the game's socket holds

ASSUME KeysAssumption ==
    /\ SLOTS \in Nat \ {0} /\ DEADMAN \in Nat /\ TIMEOUT \in Nat \ {0} /\ DOUBLE_TAP \in Nat
    /\ PASS \in Nat \ {0} /\ QUEUE \in Nat
    /\ CODES \subseteq STRING /\ IsFiniteSet(CODES)
    /\ COMMANDS \subseteq {"stop", "left", "right", "up", "down", "escape", "action"}

NONE == -1   \* a time of zero: none

VARIABLES
  mode,                              \* runtime.mode
  game,                              \* a game runs
  cpc, http_held, age, lag, release, \* the controller: place, held codes, ages, controller_release
  queue,                             \* datagrams in the game's socket
  game_down,                         \* the keys the game sees down
  held, left, up_age,                \* struct e1_ptz_input_state: keys, time to the deadline, age of the last Up
  lost, gone                         \* ghosts: a key datagram was lost; nobody plays any more

controller == <<cpc, http_held, age, lag, release>>
ptz == <<held, left, up_age>>
vars == <<mode, game, controller, queue, game_down, ptz, lost, gone>>

(* http_key_for_code: aliases share a key. *)
KeyOf == [c \in CODES |->
    CASE c \in {"ShiftLeft", "ShiftRight"} -> "shift"
      [] c \in {"ControlLeft", "ControlRight"} -> "fire"
      [] c \in {"AltLeft", "AltRight"} -> "alt"
      [] c \in {"Enter", "NumpadEnter"} -> "enter"
      [] c = "Space" -> "use" [] c = "Escape" -> "escape"
      [] c = "ArrowUp" -> "up" [] c = "ArrowDown" -> "down"
      [] c = "ArrowLeft" -> "left" [] c = "ArrowRight" -> "right"
      [] OTHER -> c]

Directions == {"up", "down", "left", "right"}
ActionKeys == {"fire", "use", "enter"}
PtzKeys == Directions \cup ActionKeys \cup {"escape"}
Keys == {KeyOf[c] : c \in CODES} \cup PtzKeys

Datagrams == [ptz : COMMANDS] \cup [key : {KeyOf[c] : c \in CODES}, down : BOOLEAN]
IsKey(d) == "key" \in DOMAIN d

Init ==
    /\ mode = "camera" /\ game = FALSE
    /\ cpc = "sleep" /\ http_held = {} /\ age = NONE /\ lag = 0 /\ release = FALSE
    /\ queue = <<>> /\ game_down = {}
    /\ held = {} /\ left = 0 /\ up_age = NONE
    /\ lost = FALSE /\ gone = FALSE

-----------------------------------------------------------------------------
(* post_key of the controller: sendto never waits; without a game, or with its
   socket full, the datagram is gone. *)
Room(n) == game /\ Len(queue) + n <= QUEUE

PostKey(k, down) ==
    IF Room(1) THEN queue' = Append(queue, [key |-> k, down |-> down]) /\ UNCHANGED lost
               ELSE lost' = (lost \/ game) /\ UNCHANGED queue

(* http_key_is_held *)
HeldKeys(codes) == {KeyOf[c] : c \in codes}

(* The keyups of http_release_all, one for every key, in the keys' order (any
   order here): those that fit are sent. *)
ReleaseAll ==
    /\ http_held' = {}
    /\ LET keys == HeldKeys(http_held) IN
       \E sent \in SUBSET keys :
         /\ IF game /\ Len(queue) + Cardinality(keys) <= QUEUE THEN sent = keys
            ELSE Cardinality(sent) = (IF game THEN QUEUE - Len(queue) ELSE 0)
         /\ \E order \in {s \in [1 .. Cardinality(sent) -> sent] : \A k \in sent : \E i \in DOMAIN s : s[i] = k} :
              queue' = queue \o [i \in DOMAIN order |-> [key |-> order[i], down |-> FALSE]]
         /\ lost' = (lost \/ (game /\ sent # keys))

-----------------------------------------------------------------------------
(* The controller's loop.  now is sampled at the start of a pass. *)

PassBegins ==
    /\ cpc = "sleep"
    /\ cpc' = "poll" /\ lag' = 0
    /\ UNCHANGED <<mode, game, http_held, age, release, queue, game_down, ptz, lost, gone>>

Serving == cpc = "poll" /\ ~gone
Served == UNCHANGED <<mode, game, cpc, lag, release, game_down, ptz, gone>>

(* A code that is not in the table needs a slot whose code is not held. *)
HasSlot(c) == c \in http_held \/ Cardinality(http_held) < SLOTS

(* http_apply_key for /down and /up, refused unless runtime.mode reads "doom". *)
Down(c) ==
    /\ Serving /\ mode = "doom" /\ HasSlot(c)
    /\ age' = 0 /\ http_held' = http_held \cup {c}
    /\ IF KeyOf[c] \in HeldKeys(http_held) THEN UNCHANGED <<queue, lost>> ELSE PostKey(KeyOf[c], TRUE)
    /\ Served

(* Mutant of Up: the key goes up whoever else holds it. *)
UpAnyway(c) ==
    /\ Serving /\ mode = "doom" /\ HasSlot(c)
    /\ age' = 0 /\ http_held' = http_held \ {c}
    /\ IF c \notin http_held THEN UNCHANGED <<queue, lost>> ELSE PostKey(KeyOf[c], FALSE)
    /\ Served

Up(c) ==
    /\ Serving /\ mode = "doom" /\ HasSlot(c)
    /\ age' = 0 /\ http_held' = http_held \ {c}
    /\ IF c \notin http_held \/ KeyOf[c] \in HeldKeys(http_held \ {c})
       THEN UNCHANGED <<queue, lost>> ELSE PostKey(KeyOf[c], FALSE)
    /\ Served

Heartbeat ==
    /\ Serving
    /\ age' = 0 /\ UNCHANGED <<http_held, queue, lost>> /\ Served

(* /release-all and /camera *)
ReleaseRequest ==
    /\ Serving
    /\ ReleaseAll /\ UNCHANGED age /\ Served

(* now - http_last_activity_ms, unsigned: an activity later than now is long ago. *)
Expired(a) == a - lag < 0 \/ a - lag > DEADMAN

(* Mutant of PassEnds: the signal only forgets the activity. *)
PassEndsForgets ==
    /\ cpc = "poll" /\ cpc' = "sleep"
    /\ release' = FALSE
    /\ IF age # NONE /\ Expired(age) /\ ~release THEN ReleaseAll ELSE UNCHANGED <<http_held, queue, lost>>
    /\ age' = IF release \/ (age # NONE /\ Expired(age)) THEN NONE ELSE age
    /\ UNCHANGED <<mode, game, lag, game_down, ptz, gone>>

(* After the poll: SIGUSR1, then the dead-man. *)
PassEnds ==
    /\ cpc = "poll" /\ cpc' = "sleep"
    /\ release' = FALSE
    /\ IF release \/ (age # NONE /\ Expired(age))
       THEN ReleaseAll /\ age' = NONE
       ELSE UNCHANGED <<http_held, queue, lost, age>>
    /\ UNCHANGED <<mode, game, lag, game_down, ptz, gone>>

(* SIGTERM: the last release, and the process is gone. *)
ControllerStops ==
    /\ cpc = "sleep"
    /\ cpc' = "stopped" /\ ReleaseAll
    /\ age' = NONE /\ lag' = 0 /\ release' = FALSE
    /\ UNCHANGED <<mode, game, game_down, ptz, gone>>

-----------------------------------------------------------------------------
(* The game. *)

(* e1_ptz_set_held and post_delta: releases first, then presses. *)
SetHeld(next) ==
    /\ held' = next
    /\ left' = IF next = {} THEN 0 ELSE TIMEOUT
    /\ game_down' = (game_down \ (held \ next)) \cup (next \ held)

Turn(d) == (held \ Directions) \cup {d}
DoubleTap == "up" \notin held /\ up_age \in 0 .. DOUBLE_TAP

(* e1_ptz_apply_command *)
Apply(command) ==
    CASE command = "stop" ->
           /\ SetHeld({})
           /\ up_age' = CASE "up" \in held /\ held \cap ActionKeys = {} -> 0
                          [] held \cap ActionKeys # {} -> NONE
                          [] OTHER -> up_age
      [] command = "up" ->
           /\ SetHeld(Turn("up") \cup (IF DoubleTap THEN ActionKeys ELSE {}))
           /\ up_age' = IF DoubleTap THEN NONE ELSE up_age
      [] command \in Directions \ {"up"} -> SetHeld(Turn(command)) /\ up_age' = NONE
      [] command = "escape" -> SetHeld(held \cup {"escape"}) /\ UNCHANGED up_age
      [] command = "action" -> SetHeld(held \cup ActionKeys) /\ UNCHANGED up_age

(* One recv of I_StartTic. *)
Receive ==
    /\ game /\ queue # <<>>
    /\ queue' = Tail(queue)
    /\ LET d == Head(queue) IN
       IF IsKey(d)
       THEN /\ game_down' = IF d.down THEN game_down \cup {d.key} ELSE game_down \ {d.key}
            /\ UNCHANGED ptz
       ELSE Apply(d.ptz)
    /\ UNCHANGED <<mode, game, controller, lost, gone>>

(* Mutant of Expire: only a command looks at the deadline. *)
ExpireNever ==
    /\ game /\ held # {} /\ left = 0
    /\ UNCHANGED vars

(* e1_ptz_expire at the end of I_StartTic: when 64 datagrams are read, or none is
   left.  Where one tic ends and the next begins makes no other difference. *)
Expire ==
    /\ game /\ held # {} /\ left = 0
    /\ SetHeld({})
    /\ UNCHANGED <<mode, game, controller, queue, up_age, lost, gone>>

-----------------------------------------------------------------------------
(* The runtime around them: what RuntimeControl and Lifecycle do with the mode and
   the game, as far as keys see it. *)

(* start_game, with I_InitKeyboard of the new process, up to the entry melt. *)
StartGame ==
    /\ mode = "camera" /\ ~game /\ cpc # "stopped"
    /\ mode' = "entry" /\ game' = TRUE
    /\ queue' = <<>> /\ game_down' = {} /\ lost' = FALSE
    /\ held' = {} /\ left' = 0 /\ up_age' = NONE
    /\ UNCHANGED <<controller, gone>>

ModeMoves ==
    /\ \/ mode = "entry" /\ mode' \in {"doom", "stopping"}
       \/ mode = "doom" /\ mode' \in {"exit", "stopping"}
       \/ mode = "exit" /\ mode' = "stopping"
    /\ UNCHANGED <<game, controller, queue, game_down, ptz, lost, gone>>

(* stop_game: the signal, and only then the game. *)
SignalRelease ==
    /\ mode = "stopping"
    /\ mode' = "reaping" /\ release' = (cpc # "stopped")
    /\ UNCHANGED <<game, cpc, http_held, age, lag, queue, game_down, ptz, lost, gone>>

ReapGame ==
    /\ mode = "reaping"
    /\ mode' = "camera" /\ game' = FALSE
    /\ queue' = <<>> /\ game_down' = {} /\ held' = {} /\ left' = 0 /\ up_age' = NONE
    /\ UNCHANGED <<controller, lost, gone>>

(* The game ends by itself: the coordinator either ends too, and stops the
   controller, or first sees the mode the worker has moved on to. *)
GameDies ==
    /\ game /\ game' = FALSE
    /\ queue' = <<>> /\ game_down' = {} /\ held' = {} /\ left' = 0 /\ up_age' = NONE
    /\ UNCHANGED <<mode, controller, lost, gone>>

(* The worker sends a PTZ datagram in Doom mode; one that does not fit is gone. *)
PtzCommand(command) ==
    /\ mode \in {"entry", "doom", "exit"} /\ ~gone
    /\ queue' = IF Room(1) THEN Append(queue, [ptz |-> command]) ELSE queue
    /\ UNCHANGED <<mode, game, controller, game_down, ptz, lost, gone>>

PlayersGone ==
    /\ ~gone /\ gone' = TRUE
    /\ UNCHANGED <<mode, game, controller, queue, game_down, ptz, lost>>

OldEnough == DEADMAN + PASS + 1
Older(a, limit) == IF a = NONE THEN NONE ELSE IF a < limit THEN a + 1 ELSE a

(* The clock, which waits for the controller as long as the scheduler would. *)
Tick ==
    /\ (cpc # "stopped" => lag < PASS)
    /\ age' = Older(age, OldEnough + PASS)
    /\ lag' = IF cpc # "stopped" THEN lag + 1 ELSE 0
    /\ left' = IF left > 0 THEN left - 1 ELSE 0
    /\ up_age' = Older(up_age, DOUBLE_TAP + 1)
    /\ UNCHANGED <<mode, game, cpc, http_held, release, queue, game_down, held, lost, gone>>

-----------------------------------------------------------------------------
Requests == Heartbeat \/ ReleaseRequest \/ \E c \in CODES : Down(c) \/ Up(c)
Controller == PassBegins \/ PassEnds
Game == Receive \/ Expire
Runtime == StartGame \/ ModeMoves \/ SignalRelease \/ ReapGame \/ GameDies \/ PlayersGone
           \/ \E command \in COMMANDS : PtzCommand(command)

Next == Requests \/ Controller \/ ControllerStops \/ Game \/ Runtime \/ Tick

(* The controller and the game run, and time goes on, however often they do. *)
Spec ==
    /\ Init /\ [][Next]_vars
    /\ WF_vars(PassBegins) /\ WF_vars(PassEnds) /\ WF_vars(Receive) /\ WF_vars(Expire)
    /\ SF_vars(Tick)

-----------------------------------------------------------------------------
TypeOK ==
    /\ mode \in {"camera", "entry", "doom", "exit", "stopping", "reaping"} /\ game \in BOOLEAN
    /\ cpc \in {"sleep", "poll", "stopped"} /\ http_held \subseteq CODES /\ age \in NONE .. OldEnough + PASS
    /\ lag \in 0 .. PASS /\ release \in BOOLEAN
    /\ queue \in Seq(Datagrams) /\ Len(queue) <= QUEUE
    /\ game_down \subseteq Keys
    /\ held \subseteq PtzKeys /\ left \in 0 .. TIMEOUT /\ up_age \in NONE .. DOUBLE_TAP + 1
    /\ lost \in BOOLEAN /\ gone \in BOOLEAN

(* What the game will think of a key when it has read its socket. *)
WillBeDown(k) ==
    LET about == {i \in 1 .. Len(queue) : IsKey(queue[i]) /\ queue[i].key = k} IN
    IF about = {} THEN k \in game_down
    ELSE \E i \in about : queue[i].down /\ \A j \in about : j <= i

(* A key that only browsers hold is down in the game, once it has read its socket,
   exactly while some code for it is held: an alias releases nothing another code
   holds, no key leaks into a later game (IMPLEMENTATION.md:428-436).  Exempt are
   a game whose socket has overflowed and the time a release is pending. *)
HeldReaches ==
    game /\ ~lost /\ ~release =>
        \A k \in Keys \ PtzKeys : WillBeDown(k) <=> k \in HeldKeys(http_held)

(* Whatever is held, the dead-man is armed for it, and no older than a pass
   allows: no held code outlives the browser's silence. *)
Guarded == http_held # {} => age \in 0 .. DEADMAN + 2 * PASS

(* The dead-man releases keys only when the browser has been silent for the time
   IMPLEMENTATION.md:431-432 gives. *)
DeadmanOnlyWhenSilent ==
    [][(PassEnds /\ ~release /\ http_held' # http_held) => age > DEADMAN]_vars

(* When the browser is gone and the PTZ commands are over, whatever was lost or
   cut short on the way, the game is left with no key down, unless its socket
   overflowed. *)
AllReleased ==
    gone ~> [](http_held = {} /\ (game /\ ~lost => game_down = {}))
=============================================================================
