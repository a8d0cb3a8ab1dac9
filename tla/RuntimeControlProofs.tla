------------------------ MODULE RuntimeControlProofs ------------------------
(***************************************************************************)
(* The recogniser and the worker's pass, for every secret, tap count,       *)
(* deadline and set of commands.                                            *)
(***************************************************************************)
EXTENDS RuntimeControl, TLAPS

Control == [mode : Modes, secret_index : Nat, secret_first : Nat, secret_last : Nat,
            stop_only_index : Nat, stop_only_first : Nat, stop_only_last : Nat,
            exit_down_first : Nat, camera_control_down : BOOLEAN,
            raw_direction : BOOLEAN, secret_complete : BOOLEAN, exit_down : BOOLEAN]

(* What holds of the record at time t, also in the middle of an event. *)
Sane(c, t) ==
    /\ c \in Control
    /\ c.mode \in {"entry", "exit"} => c.stop_only_index = 0 /\ c.secret_index = 0
    /\ c.exit_down => c.mode \in {"doom", "exit"}
    /\ c.exit_down /\ c.mode = "doom" => c.stop_only_index = 0
    /\ c.secret_index # 0 => c.mode = "camera"
    /\ c.secret_last <= t /\ c.secret_first <= c.secret_last
    /\ c.stop_only_last <= t /\ c.stop_only_first <= c.stop_only_last
    /\ c.exit_down_first <= t

(* Between events no secret is complete and not acted upon: the stop that acts
   on it follows the last press at once. *)
Settled(c, t) == Sane(c, t) /\ ~c.secret_complete

(* ... and Down is held in Doom only as the last direction seen, so the stop
   that ends the hold is not a tap. *)
Rest(c, t) == Settled(c, t) /\ (c.exit_down /\ c.mode = "doom" => c.raw_direction)

(* A step of the recogniser from c to d moves the mode only along with the
   action that says so. *)
Moves(c, d, acts) ==
    /\ acts \subseteq {"ENTER", "EXIT", "FORWARD"}
    /\ \/ d.mode = c.mode /\ acts \cap {"ENTER", "EXIT"} = {}
       \/ c.mode = "camera" /\ d.mode = "entry" /\ acts \cap {"ENTER", "EXIT"} = {"ENTER"}
       \/ c.mode = "doom" /\ d.mode = "exit" /\ acts \cap {"ENTER", "EXIT"} = {"EXIT"}

LEMMA ResetSecretFields ==
    ASSUME NEW c \in Control, NEW d, d = ResetSecret(c)
    PROVE  /\ d \in Control
           /\ d.secret_index = 0 /\ d.secret_first = 0 /\ d.secret_last = 0
           /\ d.secret_complete = FALSE
           /\ d.mode = c.mode /\ d.stop_only_index = c.stop_only_index
           /\ d.stop_only_first = c.stop_only_first /\ d.stop_only_last = c.stop_only_last
           /\ d.exit_down_first = c.exit_down_first /\ d.exit_down = c.exit_down
           /\ d.camera_control_down = c.camera_control_down /\ d.raw_direction = c.raw_direction
<1>1. d \in Control
  BY DEF Control, ResetSecret
<1>2. /\ d.secret_index = 0 /\ d.secret_first = 0 /\ d.secret_last = 0
      /\ d.secret_complete = FALSE
      /\ d.mode = c.mode /\ d.stop_only_index = c.stop_only_index
      /\ d.stop_only_first = c.stop_only_first /\ d.stop_only_last = c.stop_only_last
      /\ d.exit_down_first = c.exit_down_first /\ d.exit_down = c.exit_down
      /\ d.camera_control_down = c.camera_control_down /\ d.raw_direction = c.raw_direction
  BY DEF Control, ResetSecret
<1> QED BY <1>1, <1>2

LEMMA ResetStopOnlyFields ==
    ASSUME NEW c \in Control, NEW d, d = ResetStopOnly(c)
    PROVE  /\ d \in Control
           /\ d.stop_only_index = 0 /\ d.stop_only_first = 0 /\ d.stop_only_last = 0
           /\ d.mode = c.mode /\ d.secret_index = c.secret_index
           /\ d.secret_first = c.secret_first /\ d.secret_last = c.secret_last
           /\ d.secret_complete = c.secret_complete
           /\ d.exit_down_first = c.exit_down_first /\ d.exit_down = c.exit_down
           /\ d.camera_control_down = c.camera_control_down /\ d.raw_direction = c.raw_direction
<1>1. d \in Control
  BY DEF Control, ResetStopOnly
<1>2. /\ d.stop_only_index = 0 /\ d.stop_only_first = 0 /\ d.stop_only_last = 0
      /\ d.mode = c.mode /\ d.secret_index = c.secret_index
      /\ d.secret_first = c.secret_first /\ d.secret_last = c.secret_last
      /\ d.secret_complete = c.secret_complete
      /\ d.exit_down_first = c.exit_down_first /\ d.exit_down = c.exit_down
      /\ d.camera_control_down = c.camera_control_down /\ d.raw_direction = c.raw_direction
  BY DEF Control, ResetStopOnly
<1> QED BY <1>1, <1>2

LEMMA ResetSecretFacts ==
    ASSUME NEW t \in Nat, NEW c, Sane(c, t), NEW d, d = ResetSecret(c)
    PROVE  /\ Sane(d, t) /\ ~d.secret_complete /\ d.mode = c.mode
           /\ d.stop_only_index = c.stop_only_index
           /\ d.camera_control_down = c.camera_control_down
<1>1. c \in Control
  BY DEF Sane
<1>2. /\ d \in Control /\ d.secret_complete = FALSE /\ d.mode = c.mode
      /\ d.secret_index = 0 /\ d.secret_first = 0 /\ d.secret_last = 0
      /\ d.stop_only_index = c.stop_only_index
      /\ d.stop_only_first = c.stop_only_first /\ d.stop_only_last = c.stop_only_last
      /\ d.exit_down_first = c.exit_down_first /\ d.exit_down = c.exit_down
      /\ d.camera_control_down = c.camera_control_down
  BY <1>1, ResetSecretFields
<1>3. Sane(d, t)
  BY <1>2 DEF Sane
<1> QED BY <1>2, <1>3

LEMMA ResetStopOnlyFacts ==
    ASSUME NEW t \in Nat, NEW c, Sane(c, t), NEW d, d = ResetStopOnly(c)
    PROVE  /\ Sane(d, t) /\ d.mode = c.mode /\ d.stop_only_index = 0
           /\ d.secret_complete = c.secret_complete /\ d.exit_down = c.exit_down
           /\ d.raw_direction = c.raw_direction
<1>1. c \in Control
  BY DEF Sane
<1> QED BY <1>1, ResetStopOnlyFields DEF Sane

LEMMA ExpireFacts ==
    ASSUME NEW t \in Nat, NEW c, Sane(c, t), NEW u \in Nat
    PROVE  /\ Sane(ExpireSecret(c, u), t) /\ ExpireSecret(c, u).mode = c.mode
           /\ ExpireSecret(c, u).stop_only_index = c.stop_only_index
           /\ ~c.secret_complete => ~ExpireSecret(c, u).secret_complete
           /\ ExpireSecret(c, u).camera_control_down = c.camera_control_down
           /\ Sane(ExpireStopOnly(c, u), t) /\ ExpireStopOnly(c, u).mode = c.mode
           /\ ExpireStopOnly(c, u).secret_complete = c.secret_complete
           /\ ExpireStopOnly(c, u).exit_down = c.exit_down
           /\ ExpireStopOnly(c, u).raw_direction = c.raw_direction
BY ResetSecretFacts, ResetStopOnlyFacts DEF ExpireSecret, ExpireStopOnly

LEMMA ResultFacts ==
    ASSUME NEW c, NEW acts
    PROVE  Result(c, acts).c = c /\ Result(c, acts).acts = acts
BY DEF Result

LEMMA MovesTrans ==
    ASSUME NEW c, NEW d, NEW e, NEW x, NEW y, Moves(c, d, x), Moves(d, e, y)
    PROVE  Moves(c, e, x \cup y)
BY DEF Moves

LEMMA RequestEnterFacts ==
    ASSUME NEW t \in Nat, NEW c, Settled(c, t)
    PROVE  Settled(RequestEnter(c).c, t) /\ Moves(c, RequestEnter(c).c, RequestEnter(c).acts)
<1>1. CASE c.mode # "camera"
  BY <1>1 DEF RequestEnter, Result, Moves
<1>2. CASE c.mode = "camera"
  <2> DEFINE d == RequestEnter(c).c
  <2>1. RequestEnter(c).acts = {"ENTER"}
    BY <1>2 DEF RequestEnter, Result
  <2> DEFINE c1 == [c EXCEPT !.mode = "entry", !.camera_control_down = FALSE,
                             !.raw_direction = FALSE]
             c2 == ResetSecret(c1)
  <2>2. d = ResetStopOnly(c2)
    BY <1>2 DEF RequestEnter, Result
  <2>3. c1 \in Control /\ c1.mode = "entry"
        /\ c1.exit_down_first = c.exit_down_first /\ c1.exit_down = c.exit_down
    BY DEF Settled, Sane, Control, Modes
  <2> HIDE DEF d, c1, c2
  <2>4. c2 \in Control /\ c2.mode = "entry" /\ c2.secret_index = 0 /\ c2.secret_first = 0
        /\ c2.secret_last = 0 /\ c2.secret_complete = FALSE
        /\ c2.exit_down_first = c.exit_down_first /\ c2.exit_down = c.exit_down
    BY <2>3, ResetSecretFields DEF c2
  <2>5. /\ d \in Control /\ d.mode = "entry" /\ d.stop_only_index = 0
        /\ d.stop_only_first = 0 /\ d.stop_only_last = 0 /\ d.secret_index = 0
        /\ d.secret_first = 0 /\ d.secret_last = 0 /\ d.secret_complete = FALSE
        /\ d.exit_down_first = c.exit_down_first /\ d.exit_down = c.exit_down
    BY <2>2, <2>4, ResetStopOnlyFields
  <2>6. Settled(d, t)
    BY <1>2, <2>5 DEF Settled, Sane
  <2>7. Moves(c, d, {"ENTER"})
    BY <1>2, <2>5 DEF Moves
  <2> QED BY <2>1, <2>6, <2>7 DEF d
<1> QED BY <1>1, <1>2

LEMMA RequestExitFacts ==
    ASSUME NEW t \in Nat, NEW c, Settled(c, t)
    PROVE  Settled(RequestExit(c).c, t) /\ Moves(c, RequestExit(c).c, RequestExit(c).acts)
<1>1. CASE c.mode # "doom"
  BY <1>1 DEF RequestExit, Result, Moves
<1>2. CASE c.mode = "doom"
  <2> DEFINE d == RequestExit(c).c
  <2>1. RequestExit(c).acts = {"EXIT"}
    BY <1>2 DEF RequestExit, Result
  <2> DEFINE c1 == [c EXCEPT !.mode = "exit", !.camera_control_down = FALSE,
                             !.raw_direction = FALSE, !.exit_down = FALSE,
                             !.exit_down_first = 0]
  <2>2. d = ResetStopOnly(c1)
    BY <1>2 DEF RequestExit, Result
  <2>3. c1 \in Control /\ c1.mode = "exit" /\ c1.exit_down_first = 0 /\ c1.exit_down = FALSE
        /\ c1.secret_index = c.secret_index /\ c1.secret_first = c.secret_first
        /\ c1.secret_last = c.secret_last /\ c1.secret_complete = c.secret_complete
    BY DEF Settled, Sane, Control, Modes
  <2> HIDE DEF d, c1
  <2>4. /\ d \in Control /\ d.mode = "exit" /\ d.stop_only_index = 0 /\ d.stop_only_first = 0
        /\ d.stop_only_last = 0 /\ d.secret_index = c.secret_index
        /\ d.secret_first = c.secret_first /\ d.secret_last = c.secret_last
        /\ d.secret_complete = c.secret_complete
        /\ d.exit_down_first = 0 /\ d.exit_down = FALSE
    BY <2>2, <2>3, ResetStopOnlyFields
  <2>5. Settled(d, t)
    BY <1>2, <2>4 DEF Settled, Sane
  <2>6. Moves(c, d, {"EXIT"})
    BY <1>2, <2>4 DEF Moves
  <2> QED BY <2>1, <2>5, <2>6 DEF d
<1> QED BY <1>1, <1>2

LEMMA CountTapFacts ==
    ASSUME NEW t \in Nat, NEW c, Settled(c, t), c.mode \in {"camera", "doom"},
           c.mode = "doom" => ~c.exit_down
    PROVE  Settled(CountTap(c, t).c, t) /\ Moves(c, CountTap(c, t).c, CountTap(c, t).acts)
<1> DEFINE f == IF c.stop_only_index = 0 THEN t ELSE c.stop_only_first
           n == c.stop_only_index + 1
           d == [c EXCEPT !.stop_only_first = f, !.stop_only_last = t, !.stop_only_index = n]
<1>1. c \in Control /\ f \in Nat /\ f <= t /\ n \in Nat
  BY DEF Settled, Sane, Control
<1>2. CountTap(c, t) = IF d.stop_only_index # TAPS THEN Result(d, {})
                       ELSE IF d.mode = "camera" THEN RequestEnter(d) ELSE RequestExit(d)
  BY DEF CountTap
<1> HIDE DEF f, n
<1>3. d \in Control
  BY <1>1 DEF Control
<1>4. /\ d.mode = c.mode /\ d.stop_only_last = t /\ d.stop_only_first = f
      /\ d.secret_index = c.secret_index
      /\ d.secret_first = c.secret_first /\ d.secret_last = c.secret_last
      /\ d.secret_complete = c.secret_complete
      /\ d.exit_down_first = c.exit_down_first /\ d.exit_down = c.exit_down
  BY <1>1 DEF Control
<1> HIDE DEF d
<1>5. Settled(d, t)
  BY <1>1, <1>3, <1>4 DEF Settled, Sane
<1>6. Moves(c, d, {})
  BY <1>4 DEF Moves
<1>7. \A x, acts : Moves(d, x, acts) => Moves(c, x, acts)
  BY <1>4 DEF Moves
<1>8. CASE d.stop_only_index # TAPS
  BY <1>2, <1>5, <1>6, <1>8, ResultFacts
<1>9. CASE d.stop_only_index = TAPS /\ d.mode = "camera"
  BY <1>2, <1>5, <1>7, <1>9, RequestEnterFacts
<1>10. CASE d.stop_only_index = TAPS /\ d.mode # "camera"
  BY <1>2, <1>5, <1>7, <1>10, RequestExitFacts
<1> QED BY <1>8, <1>9, <1>10

(* What e1_runtime_observe_raw_ptz does of a direction, or of its release. *)
Raw(c, b) == ResetStopOnly([c EXCEPT !.raw_direction = b])

LEMMA RawFacts ==
    ASSUME NEW t \in Nat, NEW c, Settled(c, t), NEW d, d = Raw(c, TRUE) \/ d = Raw(c, FALSE)
    PROVE  Settled(d, t) /\ d.mode = c.mode /\ d.stop_only_index = 0
<1> PICK b \in BOOLEAN : d = Raw(c, b)
  OBVIOUS
<1> DEFINE e == [c EXCEPT !.raw_direction = b]
<1>1. c \in Control
  BY DEF Settled, Sane
<1>2. /\ e \in Control /\ e.mode = c.mode /\ e.secret_index = c.secret_index
      /\ e.secret_first = c.secret_first /\ e.secret_last = c.secret_last
      /\ e.secret_complete = c.secret_complete
      /\ e.stop_only_index = c.stop_only_index
      /\ e.stop_only_first = c.stop_only_first /\ e.stop_only_last = c.stop_only_last
      /\ e.exit_down_first = c.exit_down_first /\ e.exit_down = c.exit_down
  BY <1>1 DEF Control
<1>3. d = ResetStopOnly(e)
  BY DEF Raw
<1> HIDE DEF e
<1>4. Sane(e, t) /\ ~e.secret_complete
  BY <1>2 DEF Settled, Sane
<1> QED BY <1>2, <1>3, <1>4, ResetStopOnlyFacts DEF Settled

LEMMA RawDirection ==
    ASSUME NEW c \in Control
    PROVE  Raw(c, TRUE).raw_direction
BY DEF Raw, ResetStopOnly, Control

LEMMA ObserveRawFacts ==
    ASSUME NEW t \in Nat, NEW c, Rest(c, t), NEW command, NEW o, o = ObserveRaw(c, command, t)
    PROVE  /\ Settled(o.c, t) /\ Moves(c, o.c, o.acts)
           /\ command # 0 => o.c.stop_only_index = 0 /\ o.c.mode = c.mode
           /\ command # 0 /\ c.mode = "doom" => o.c.raw_direction
<1>0. Settled(c, t) /\ c \in Control
  BY DEF Rest, Settled, Sane
<1>1. CASE c.mode \notin {"camera", "doom"}
  <2>1. o.c = Raw(c, FALSE) /\ o.acts = {}
    BY <1>1, ResultFacts DEF ObserveRaw, Raw
  <2>2. Settled(o.c, t) /\ o.c.mode = c.mode /\ o.c.stop_only_index = 0
    BY <1>0, <2>1, RawFacts
  <2> QED BY <1>1, <2>1, <2>2 DEF Moves
<1>2. CASE c.mode \in {"camera", "doom"} /\ command # 0
  <2>1. o.c = Raw(c, TRUE) /\ o.acts = {}
    BY <1>2, ResultFacts DEF ObserveRaw, Raw
  <2>2. Settled(o.c, t) /\ o.c.mode = c.mode /\ o.c.stop_only_index = 0
    BY <1>0, <2>1, RawFacts
  <2>3. o.c.raw_direction
    BY <1>0, <2>1, RawDirection
  <2> QED BY <2>1, <2>2, <2>3 DEF Moves
<1>3. CASE c.mode \in {"camera", "doom"} /\ command = 0 /\ c.raw_direction
  <2>1. o.c = Raw(c, FALSE) /\ o.acts = {}
    BY <1>3, ResultFacts DEF ObserveRaw, Raw
  <2>2. Settled(o.c, t) /\ o.c.mode = c.mode /\ o.c.stop_only_index = 0
    BY <1>0, <2>1, RawFacts
  <2> QED BY <1>3, <2>1, <2>2 DEF Moves
<1>4. CASE c.mode \in {"camera", "doom"} /\ command = 0 /\ ~c.raw_direction
  <2> DEFINE e == ExpireStopOnly(c, t)
  <2>1. o = CountTap(e, t)
    BY <1>4 DEF ObserveRaw
  <2>2. Settled(e, t) /\ e.mode = c.mode /\ e.exit_down = c.exit_down
    BY <1>0, ExpireFacts DEF Settled
  <2>3. e.mode = "doom" => ~e.exit_down
    BY <1>4, <2>2 DEF Rest
  <2> HIDE DEF e
  <2>4. Settled(o.c, t) /\ Moves(e, o.c, o.acts)
    BY <1>4, <2>1, <2>2, <2>3, CountTapFacts
  <2>5. Moves(c, o.c, o.acts)
    BY <2>2, <2>4 DEF Moves
  <2> QED BY <1>4, <2>4, <2>5
<1> QED BY <1>1, <1>2, <1>3, <1>4

(* A change of camera_control_down alone. *)
LEMMA ControlDownFacts ==
    ASSUME NEW t \in Nat, NEW c, Sane(c, t), NEW d,
           \/ d = [c EXCEPT !.camera_control_down = TRUE]
           \/ d = [c EXCEPT !.camera_control_down = FALSE]
    PROVE  /\ Sane(d, t) /\ d.mode = c.mode /\ d.stop_only_index = c.stop_only_index
           /\ d.secret_complete = c.secret_complete
<1> PICK b \in BOOLEAN : d = [c EXCEPT !.camera_control_down = b]
  OBVIOUS
<1>1. c \in Control
  BY DEF Sane
<1>2. /\ d \in Control /\ d.mode = c.mode /\ d.secret_index = c.secret_index
      /\ d.secret_first = c.secret_first /\ d.secret_last = c.secret_last
      /\ d.secret_complete = c.secret_complete
      /\ d.stop_only_index = c.stop_only_index
      /\ d.stop_only_first = c.stop_only_first /\ d.stop_only_last = c.stop_only_last
      /\ d.exit_down_first = c.exit_down_first /\ d.exit_down = c.exit_down
  BY <1>1 DEF Control
<1> QED BY <1>2 DEF Sane

LEMMA MatchSecretFacts ==
    ASSUME NEW t \in Nat, NEW c, Sane(c, t), c.mode = "camera", NEW command,
           NEW d, d = MatchSecret(c, command, t)
    PROVE  Sane(d, t) /\ d.mode = c.mode /\ d.stop_only_index = c.stop_only_index
<1>1. c \in Control
  BY DEF Sane
<1>2. CASE c.secret_index < Len(SECRET) /\ command = SECRET[c.secret_index + 1]
  <2> DEFINE f == IF c.secret_index = 0 THEN t ELSE c.secret_first
             n == c.secret_index + 1
             b == (n = Len(SECRET)) \/ c.secret_complete
  <2>1. d = [c EXCEPT !.secret_first = f, !.secret_last = t, !.secret_index = n,
                      !.secret_complete = b]
    BY <1>2 DEF MatchSecret
  <2>2. f \in Nat /\ f <= t /\ n \in Nat /\ b \in BOOLEAN
    BY <1>1 DEF Sane, Control
  <2> HIDE DEF f, n, b
  <2>3. /\ d \in Control /\ d.mode = c.mode
        /\ d.secret_first = f /\ d.secret_last = t
        /\ d.stop_only_index = c.stop_only_index
        /\ d.stop_only_first = c.stop_only_first /\ d.stop_only_last = c.stop_only_last
        /\ d.exit_down_first = c.exit_down_first /\ d.exit_down = c.exit_down
    BY <1>1, <2>1, <2>2 DEF Control
  <2> QED BY <2>2, <2>3 DEF Sane
<1>3. CASE ~(c.secret_index < Len(SECRET) /\ command = SECRET[c.secret_index + 1])
           /\ command = SECRET[1]
  <2> DEFINE e == ResetSecret(c)
             n == 1
  <2>1. d = [e EXCEPT !.secret_index = n, !.secret_first = t, !.secret_last = t]
    BY <1>3 DEF MatchSecret
  <2>2. Sane(e, t) /\ e.mode = c.mode /\ e.stop_only_index = c.stop_only_index
    BY ResetSecretFacts
  <2>3. e \in Control /\ n \in Nat
    BY <2>2 DEF Sane
  <2> HIDE DEF e, n
  <2>4. d \in Control
    BY <2>1, <2>3 DEF Control
  <2>5. /\ d.mode = e.mode /\ d.secret_first = t /\ d.secret_last = t
        /\ d.stop_only_index = e.stop_only_index
        /\ d.stop_only_first = e.stop_only_first /\ d.stop_only_last = e.stop_only_last
        /\ d.exit_down_first = e.exit_down_first /\ d.exit_down = e.exit_down
    BY <2>1, <2>3 DEF Control
  <2> QED BY <2>2, <2>4, <2>5 DEF Sane
<1>4. CASE ~(c.secret_index < Len(SECRET) /\ command = SECRET[c.secret_index + 1])
           /\ command # SECRET[1]
  <2>1. d = ResetSecret(c)
    BY <1>4 DEF MatchSecret
  <2> QED BY <2>1, ResetSecretFacts
<1> QED BY <1>2, <1>3, <1>4

(* A press and a stop in camera mode; the stop may come a millisecond later
   than what the record has seen. *)
LEMMA CameraPressFacts ==
    ASSUME NEW t \in Nat, NEW c, Sane(c, t), c.mode = "camera", NEW command, command # 0,
           NEW a, a = CameraCommand(c, command, t)
    PROVE  /\ Sane(a.c, t) /\ a.c.mode = "camera" /\ a.c.stop_only_index = c.stop_only_index
           /\ a.acts = {}
<1> DEFINE e == ExpireSecret(c, t)
           p == [e EXCEPT !.camera_control_down = TRUE]
<1>1. Sane(e, t) /\ e.mode = c.mode /\ e.stop_only_index = c.stop_only_index
  BY ExpireFacts
<1>2. a = IF e.camera_control_down THEN Result(e, {})
          ELSE Result(MatchSecret(p, command, t), {})
  BY DEF CameraCommand
<1> HIDE DEF e
<1>3. Sane(p, t) /\ p.mode = c.mode /\ p.stop_only_index = c.stop_only_index
  BY <1>1, ControlDownFacts
<1> HIDE DEF p
<1>4. CASE e.camera_control_down
  BY <1>1, <1>2, <1>4, ResultFacts
<1>5. CASE ~e.camera_control_down
  <2>1. a.c = MatchSecret(p, command, t) /\ a.acts = {}
    BY <1>2, <1>5, ResultFacts
  <2> QED BY <1>3, <2>1, MatchSecretFacts
<1> QED BY <1>4, <1>5

LEMMA CameraStopFacts ==
    ASSUME NEW t \in Nat, NEW c, Sane(c, t), c.mode = "camera", NEW u \in Nat,
           c.secret_complete => c.stop_only_index = 0,
           NEW a, a = CameraCommand(c, 0, u)
    PROVE  Settled(a.c, t) /\ Moves(c, a.c, a.acts)
<1> DEFINE e == ExpireSecret(c, u)
           r == [e EXCEPT !.camera_control_down = FALSE]
           x == [r EXCEPT !.mode = "entry"]
<1>1. /\ Sane(e, t) /\ e.mode = c.mode /\ e.stop_only_index = c.stop_only_index
      /\ ~c.secret_complete => ~e.secret_complete
  BY ExpireFacts
<1>2. a = IF e.secret_complete THEN Result(ResetSecret(x), {"ENTER"}) ELSE Result(r, {})
  BY DEF CameraCommand
<1> HIDE DEF e
<1>3. /\ Sane(r, t) /\ r.mode = c.mode /\ r.stop_only_index = c.stop_only_index
      /\ r.secret_complete = e.secret_complete
  BY <1>1, ControlDownFacts
<1> HIDE DEF r
<1>4. CASE e.secret_complete
  <2> DEFINE d == ResetSecret(x)
  <2>1. a.c = d /\ a.acts = {"ENTER"}
    BY <1>2, <1>4, ResultFacts
  <2>2. r \in Control
    BY <1>3 DEF Sane
  <2>3. /\ x \in Control /\ x.mode = "entry"
        /\ x.stop_only_index = r.stop_only_index
        /\ x.stop_only_first = r.stop_only_first /\ x.stop_only_last = r.stop_only_last
        /\ x.exit_down_first = r.exit_down_first /\ x.exit_down = r.exit_down
    BY <2>2 DEF Control, Modes
  <2> HIDE DEF x
  <2>4. /\ d \in Control /\ d.mode = "entry" /\ d.secret_complete = FALSE
        /\ d.secret_index = 0 /\ d.secret_first = 0 /\ d.secret_last = 0
        /\ d.stop_only_index = r.stop_only_index
        /\ d.stop_only_first = r.stop_only_first /\ d.stop_only_last = r.stop_only_last
        /\ d.exit_down_first = r.exit_down_first /\ d.exit_down = r.exit_down
    BY <2>3, ResetSecretFields
  <2> HIDE DEF d
  <2>5. d.stop_only_index = 0
    BY <1>1, <1>3, <1>4, <2>4
  <2>6. ~d.exit_down
    BY <1>3, <2>4 DEF Sane
  <2>7. Settled(d, t)
    BY <1>3, <2>4, <2>5, <2>6 DEF Settled, Sane
  <2>8. Moves(c, d, {"ENTER"})
    BY <2>4 DEF Moves
  <2> QED BY <2>1, <2>7, <2>8
<1>5. CASE ~e.secret_complete
  <2>1. a.c = r /\ a.acts = {}
    BY <1>2, <1>5, ResultFacts
  <2>2. Settled(r, t)
    BY <1>3, <1>5 DEF Settled
  <2>3. Moves(c, r, {})
    BY <1>3 DEF Moves
  <2> QED BY <2>1, <2>2, <2>3
<1> QED BY <1>4, <1>5

(* The end of a hold of Down. *)
Released(c) == [c EXCEPT !.exit_down = FALSE, !.exit_down_first = 0]

LEMMA ReleasedFacts ==
    ASSUME NEW t \in Nat, NEW c, Settled(c, t), NEW d, d = Released(c)
    PROVE  /\ Settled(d, t) /\ d.mode = c.mode /\ d.exit_down = FALSE
           /\ d.stop_only_index = c.stop_only_index
<1> DEFINE z == 0
<1>1. c \in Control /\ z \in Nat /\ z <= t
  BY DEF Settled, Sane
<1>2. d = [c EXCEPT !.exit_down = FALSE, !.exit_down_first = z]
  BY DEF Released
<1> HIDE DEF z
<1>3. /\ d \in Control /\ d.mode = c.mode /\ d.secret_index = c.secret_index
      /\ d.secret_first = c.secret_first /\ d.secret_last = c.secret_last
      /\ d.secret_complete = c.secret_complete
      /\ d.stop_only_index = c.stop_only_index
      /\ d.stop_only_first = c.stop_only_first /\ d.stop_only_last = c.stop_only_last
      /\ d.exit_down_first = z /\ d.exit_down = FALSE
  BY <1>1, <1>2 DEF Control
<1> QED BY <1>1, <1>3 DEF Settled, Sane

(* From Doom the mode may only go to exit with no tap counted. *)
LEMMA LeaveFacts ==
    ASSUME NEW t \in Nat, NEW c, Settled(c, t), c.mode = "doom", c.stop_only_index = 0,
           NEW d, d = [c EXCEPT !.mode = "exit"]
    PROVE  Settled(d, t) /\ d.mode = "exit"
<1>1. c \in Control
  BY DEF Settled, Sane
<1>2. /\ d \in Control /\ d.mode = "exit" /\ d.secret_index = c.secret_index
      /\ d.secret_first = c.secret_first /\ d.secret_last = c.secret_last
      /\ d.secret_complete = c.secret_complete
      /\ d.stop_only_index = c.stop_only_index
      /\ d.stop_only_first = c.stop_only_first /\ d.stop_only_last = c.stop_only_last
      /\ d.exit_down_first = c.exit_down_first /\ d.exit_down = c.exit_down
  BY <1>1 DEF Control, Modes
<1> QED BY <1>2 DEF Settled, Sane

LEMMA RestAway ==
    ASSUME NEW t, NEW c, Settled(c, t), c.mode # "doom"
    PROVE  Rest(c, t)
BY DEF Rest

LEMMA DoomCommandFacts ==
    ASSUME NEW t \in Nat, NEW c, Settled(c, t), c.mode = "doom", NEW command,
           command # 0 => c.raw_direction /\ c.stop_only_index = 0,
           NEW a, a = DoomCommand(c, command, t)
    PROVE  Rest(a.c, t) /\ Moves(c, a.c, a.acts)
<1>1. CASE command = 4 /\ c.exit_down
  <2>1. a.c = c /\ a.acts = {"FORWARD"}
    BY <1>1, ResultFacts DEF DoomCommand
  <2>2. Rest(c, t)
    BY <1>1 DEF Rest
  <2> QED BY <2>1, <2>2 DEF Moves
<1>2. CASE command = 4 /\ ~c.exit_down
  <2> DEFINE d == [c EXCEPT !.exit_down = TRUE, !.exit_down_first = t]
  <2>1. a.c = d /\ a.acts = {"FORWARD"}
    BY <1>2, ResultFacts DEF DoomCommand
  <2>2. c \in Control
    BY DEF Settled, Sane
  <2>3. /\ d \in Control /\ d.mode = c.mode /\ d.secret_index = c.secret_index
        /\ d.secret_first = c.secret_first /\ d.secret_last = c.secret_last
        /\ d.secret_complete = c.secret_complete
        /\ d.stop_only_index = c.stop_only_index
        /\ d.stop_only_first = c.stop_only_first /\ d.stop_only_last = c.stop_only_last
        /\ d.exit_down_first = t /\ d.raw_direction = c.raw_direction
    BY <2>2 DEF Control
  <2> HIDE DEF d
  <2>4. d.stop_only_index = 0 /\ d.raw_direction
    BY <1>2, <2>3
  <2>5. Sane(d, t) /\ ~d.secret_complete
    BY <2>3, <2>4 DEF Settled, Sane
  <2>6. Rest(d, t)
    BY <2>4, <2>5 DEF Rest, Settled
  <2> QED BY <2>1, <2>3, <2>6 DEF Moves
<1>3. CASE command = 0 /\ c.exit_down /\ Held(c, t)
  <2> DEFINE r == Released(c)
             d == [r EXCEPT !.mode = "exit"]
  <2>1. a.c = d /\ a.acts = {"FORWARD", "EXIT"}
    BY <1>3, ResultFacts DEF DoomCommand, Released
  <2>2. Settled(r, t) /\ r.mode = "doom" /\ r.stop_only_index = c.stop_only_index
    BY ReleasedFacts
  <2>3. c.stop_only_index = 0
    BY <1>3 DEF Settled, Sane
  <2> HIDE DEF r
  <2>4. Settled(d, t) /\ d.mode = "exit"
    BY <2>2, <2>3, LeaveFacts
  <2> HIDE DEF d
  <2> QED BY <2>1, <2>4, RestAway DEF Moves
<1>4. CASE command # 4 /\ ~(command = 0 /\ c.exit_down /\ Held(c, t)) /\ c.exit_down
  <2> DEFINE r == Released(c)
  <2>1. a.c = r /\ a.acts = {"FORWARD"}
    BY <1>4, ResultFacts DEF DoomCommand, Released
  <2>2. Settled(r, t) /\ r.mode = c.mode /\ r.exit_down = FALSE
    BY ReleasedFacts
  <2> HIDE DEF r
  <2>3. Rest(r, t)
    BY <2>2 DEF Rest
  <2> QED BY <2>1, <2>2, <2>3 DEF Moves
<1>5. CASE command # 4 /\ ~(command = 0 /\ c.exit_down /\ Held(c, t)) /\ ~c.exit_down
  <2>1. a.c = c /\ a.acts = {"FORWARD"}
    BY <1>5, ResultFacts DEF DoomCommand
  <2>2. Rest(c, t)
    BY <1>5 DEF Rest
  <2> QED BY <2>1, <2>2 DEF Moves
<1> QED BY <1>1, <1>2, <1>3, <1>4, <1>5

(* A melt only ever lets a held Down go. *)
LEMMA MeltCommandFacts ==
    ASSUME NEW t \in Nat, NEW c, Settled(c, t), c.mode \in {"entry", "exit"}, NEW command,
           NEW a, a = ApplyPtz(c, command, t)
    PROVE  Rest(a.c, t) /\ Moves(c, a.c, a.acts)
<1>1. CASE c.mode = "exit" /\ c.exit_down /\ command = 0
  <2>1. a.c = Released(c) /\ a.acts = {"FORWARD"}
    BY <1>1, ResultFacts DEF ApplyPtz, Released
  <2>2. Settled(a.c, t) /\ a.c.mode = c.mode
    BY <2>1, ReleasedFacts
  <2> QED BY <1>1, <2>1, <2>2, RestAway DEF Moves
<1>2. CASE ~(c.mode = "exit" /\ c.exit_down /\ command = 0)
  <2>1. a.c = c /\ a.acts = {}
    BY <1>2, ResultFacts DEF ApplyPtz
  <2>2. Rest(c, t)
    BY RestAway
  <2> QED BY <2>1, <2>2 DEF Moves
<1> QED BY <1>1, <1>2

LEMMA TickFacts ==
    ASSUME NEW t \in Nat, NEW c, Rest(c, t), NEW a, a = Tick(c, t)
    PROVE  Rest(a.c, t) /\ Moves(c, a.c, a.acts)
<1> DEFINE c1 == IF c.mode = "camera" THEN ExpireSecret(c, t) ELSE c
           d  == IF c.mode \in {"camera", "doom"} THEN ExpireStopOnly(c1, t) ELSE c1
<1>1. a = IF d.mode = "doom" /\ d.exit_down /\ Held(d, t)
          THEN Result([d EXCEPT !.mode = "exit"], {"EXIT"}) ELSE Result(d, {})
  BY DEF Tick
<1>2. /\ Sane(c1, t) /\ ~c1.secret_complete /\ c1.mode = c.mode
      /\ c1.mode # "camera" => c1 = c
  BY ExpireFacts DEF Rest, Settled
<1> HIDE DEF c1
<1>3. /\ Sane(d, t) /\ ~d.secret_complete /\ d.mode = c.mode
      /\ d.exit_down = c1.exit_down /\ d.raw_direction = c1.raw_direction
  BY <1>2, ExpireFacts
<1> HIDE DEF d
<1>4. Rest(d, t)
  BY <1>2, <1>3 DEF Rest, Settled
<1>5. CASE d.mode = "doom" /\ d.exit_down /\ Held(d, t)
  <2>1. a.c = [d EXCEPT !.mode = "exit"] /\ a.acts = {"EXIT"}
    BY <1>1, <1>5, ResultFacts
  <2>2. Settled(d, t) /\ d.stop_only_index = 0
    BY <1>4, <1>5 DEF Rest, Settled, Sane
  <2>3. Settled(a.c, t) /\ a.c.mode = "exit"
    BY <1>5, <2>1, <2>2, LeaveFacts
  <2> QED BY <1>3, <1>5, <2>1, <2>3, RestAway DEF Moves
<1>6. CASE ~(d.mode = "doom" /\ d.exit_down /\ Held(d, t))
  <2>1. a.c = d /\ a.acts = {}
    BY <1>1, <1>6, ResultFacts
  <2> QED BY <1>3, <1>4, <2>1 DEF Moves
<1> QED BY <1>5, <1>6

(* One event, with the stop the worker makes up after a press in camera mode. *)
Drained(c, command, t) ==
    LET o == ObserveRaw(c, command, t)
        a == ApplyPtz(o.c, command, t)
        s == IF c.mode = "camera" /\ command # 0
             THEN ApplyPtz(a.c, 0, t + 1) ELSE Result(a.c, {})
    IN  Result(s.c, o.acts \cup a.acts \cup s.acts)

LEMMA DrainFacts ==
    ASSUME NEW t \in Nat, NEW c, Rest(c, t), NEW command, NEW r, r = Drained(c, command, t)
    PROVE  Rest(r.c, t) /\ Moves(c, r.c, r.acts)
<1> DEFINE o == ObserveRaw(c, command, t)
           a == ApplyPtz(o.c, command, t)
           s == IF c.mode = "camera" /\ command # 0
                THEN ApplyPtz(a.c, 0, t + 1) ELSE Result(a.c, {})
<1> SUFFICES Rest(s.c, t) /\ Moves(c, s.c, o.acts \cup a.acts \cup s.acts)
  BY ResultFacts DEF Drained
<1>1. /\ Settled(o.c, t) /\ Moves(c, o.c, o.acts)
      /\ command # 0 => o.c.stop_only_index = 0 /\ o.c.mode = c.mode
      /\ command # 0 /\ c.mode = "doom" => o.c.raw_direction
  BY ObserveRawFacts
<1> HIDE DEF o
<1>2. Sane(o.c, t) /\ ~o.c.secret_complete /\ o.c.mode \in Modes
  BY <1>1 DEF Settled, Sane, Control
<1>3. CASE c.mode = "camera" /\ command # 0
  <2>1. a = CameraCommand(o.c, command, t)
    BY <1>1, <1>3 DEF ApplyPtz
  <2>2. s = ApplyPtz(a.c, 0, t + 1)
    BY <1>3
  <2> HIDE DEF a, s
  <2>3. Sane(a.c, t) /\ a.c.mode = "camera" /\ a.c.stop_only_index = 0 /\ a.acts = {}
    BY <1>1, <1>2, <1>3, <2>1, CameraPressFacts
  <2>4. s = CameraCommand(a.c, 0, t + 1)
    BY <2>2, <2>3 DEF ApplyPtz
  <2>5. Settled(s.c, t) /\ Moves(a.c, s.c, s.acts)
    <3>1. t + 1 \in Nat
      OBVIOUS
    <3> QED BY <2>3, <2>4, <3>1, CameraStopFacts
  <2>6. Moves(c, a.c, o.acts \cup a.acts)
    BY <1>1, <1>3, <2>3 DEF Moves
  <2>7. Moves(c, s.c, (o.acts \cup a.acts) \cup s.acts)
    BY <2>5, <2>6, MovesTrans
  <2>8. s.c.mode # "doom"
    BY <1>3, <2>7 DEF Moves
  <2> QED BY <2>5, <2>7, <2>8, RestAway
<1>4. CASE ~(c.mode = "camera" /\ command # 0)
  <2>1. s.c = a.c /\ s.acts = {}
    BY <1>4, ResultFacts
  <2> HIDE DEF s
  <2>2. Rest(a.c, t) /\ Moves(o.c, a.c, a.acts)
    <3>1. CASE o.c.mode = "camera"
      <4>1. command = 0
        BY <1>1, <1>4, <3>1
      <4>2. a = CameraCommand(o.c, 0, t)
        BY <3>1, <4>1 DEF ApplyPtz
      <4>3. Settled(a.c, t) /\ Moves(o.c, a.c, a.acts)
        BY <1>2, <3>1, <4>2, CameraStopFacts
      <4>4. a.c.mode # "doom"
        BY <3>1, <4>3 DEF Moves
      <4> QED BY <4>3, <4>4, RestAway
    <3>2. CASE o.c.mode = "doom"
      <4>1. a = DoomCommand(o.c, command, t)
        BY <3>2 DEF ApplyPtz
      <4>2. command # 0 => o.c.raw_direction /\ o.c.stop_only_index = 0
        BY <1>1, <3>2
      <4> QED BY <1>1, <3>2, <4>1, <4>2, DoomCommandFacts
    <3>3. CASE o.c.mode \in {"entry", "exit"}
      BY <1>1, <3>3, MeltCommandFacts
    <3> QED BY <1>2, <3>1, <3>2, <3>3 DEF Modes
  <2>3. Moves(c, a.c, o.acts \cup a.acts)
    BY <1>1, <2>2, MovesTrans
  <2>4. o.acts \cup a.acts \cup s.acts = o.acts \cup a.acts
    BY <2>1
  <2> QED BY <2>1, <2>2, <2>3, <2>4
<1> QED BY <1>3, <1>4

LEMMA ClearedFacts ==
    ASSUME NEW t \in Nat
    PROVE  Rest(Cleared, t) /\ Cleared.mode = "camera"
BY DEF Rest, Settled, Sane, Control, Modes, Cleared

LEMMA LaterFacts ==
    ASSUME NEW t \in Nat, NEW u \in Nat, t <= u, NEW c, Rest(c, t)
    PROVE  Rest(c, u)
BY DEF Rest, Settled, Sane, Control

(* Every melt mode ends in a mode with nothing counted and nothing held. *)
LEMMA ModeOnlyFacts ==
    ASSUME NEW t \in Nat, NEW c, Rest(c, t), c.mode = "entry", NEW m \in {"camera", "doom"},
           NEW d, d = [c EXCEPT !.mode = m]
    PROVE  Rest(d, t) /\ d.mode = m
<1>1. c \in Control /\ ~c.exit_down
  BY DEF Rest, Settled, Sane
<1>2. /\ d \in Control /\ d.mode = m /\ d.secret_index = c.secret_index
      /\ d.secret_first = c.secret_first /\ d.secret_last = c.secret_last
      /\ d.secret_complete = c.secret_complete
      /\ d.stop_only_index = c.stop_only_index
      /\ d.stop_only_first = c.stop_only_first /\ d.stop_only_last = c.stop_only_last
      /\ d.exit_down_first = c.exit_down_first /\ d.exit_down = c.exit_down
  BY <1>1 DEF Control, Modes
<1>3. ~d.exit_down
  BY <1>1, <1>2
<1>4. Sane(d, t) /\ ~d.secret_complete
  BY <1>2, <1>3 DEF Rest, Settled, Sane
<1> QED BY <1>2, <1>3, <1>4 DEF Rest, Settled

LEMMA ExitCompleteFacts ==
    ASSUME NEW t \in Nat, NEW c, Rest(c, t), NEW d, d = ExitComplete(c)
    PROVE  Rest(d, t) /\ d.mode = "camera"
<1> DEFINE z == 0
           c1 == [c EXCEPT !.mode = "camera", !.camera_control_down = FALSE,
                           !.raw_direction = FALSE, !.exit_down = FALSE, !.exit_down_first = z]
           c2 == ResetSecret(c1)
<1>1. d = ResetStopOnly(c2)
  BY DEF ExitComplete
<1>2. c \in Control /\ z \in Nat /\ z <= t
  BY DEF Rest, Settled, Sane
<1> HIDE DEF z
<1>3. c1 \in Control /\ c1.mode = "camera" /\ c1.exit_down = FALSE /\ c1.exit_down_first = z
  BY <1>2 DEF Control, Modes
<1> HIDE DEF c1
<1>4. /\ c2 \in Control /\ c2.mode = "camera" /\ c2.exit_down = FALSE
      /\ c2.exit_down_first = z /\ c2.secret_first = 0 /\ c2.secret_last = 0
      /\ c2.secret_complete = FALSE
  BY <1>3, ResetSecretFields
<1> HIDE DEF c2
<1>5. /\ d \in Control /\ d.mode = "camera" /\ d.exit_down = FALSE
      /\ d.exit_down_first = z /\ d.secret_first = 0 /\ d.secret_last = 0
      /\ d.secret_complete = FALSE /\ d.stop_only_first = 0 /\ d.stop_only_last = 0
  BY <1>1, <1>4, ResetStopOnlyFields
<1> QED BY <1>2, <1>5 DEF Rest, Settled, Sane

-----------------------------------------------------------------------------
(* The worker's pass. *)

(* Backed, with the media l, the melt x and what set them apart a given. *)
Fits(m, l, x, a) ==
    /\ m \in {"entry", "exit"} => x = m \/ "taken" \in a
    /\ m = "doom" => l \/ "taken" \in a
    /\ x # "none" => l /\ (x = m \/ "left" \in a)
    /\ l => m # "camera" \/ "left" \in a

(* The actions collected so far, the mode and the media: an action not yet carried
   out has changed the mode but not the media, which are as they were in the mode
   before. *)
Agree(c, acts, l, x, a) ==
    /\ acts \subseteq {"ENTER", "EXIT", "FORWARD"}
    /\ ~({"ENTER", "EXIT"} \subseteq acts)
    /\ "ENTER" \in acts => c.mode = "entry" /\ Fits("camera", l, x, a)
    /\ "EXIT" \in acts => c.mode = "exit"
    /\ acts \cap {"ENTER", "EXIT"} = {} => Fits(c.mode, l, x, a)

IInv ==
    /\ TypeOK
    /\ Rest(control, now)
    /\ ~({"ENTER", "EXIT"} \subseteq actions)
    /\ pc = "drain" => Agree(control, actions, live, melt, apart)
    /\ pc # "drain" => Fits(control.mode, live, melt, apart)

LEMMA AgreeMoves ==
    ASSUME NEW c, NEW d, NEW acts, NEW y, NEW l, NEW x, NEW a,
           Agree(c, acts, l, x, a), Moves(c, d, y)
    PROVE  Agree(d, acts \cup y, l, x, a)
BY DEF Agree, Moves

LEMMA InitIInv == Init => IInv
<1> SUFFICES ASSUME Init PROVE IInv
  OBVIOUS
<1>1. Rest(control, now) /\ control.mode = "camera"
  BY ClearedFacts DEF Init
<1>2. control \in Control
  BY <1>1 DEF Rest, Settled, Sane
<1>3. TypeOK
  BY <1>2 DEF Init, TypeOK, Control
<1> QED BY <1>1, <1>3 DEF Init, IInv, Fits

LEMMA CommandStep ==
    ASSUME IInv, NEW stale \in BOOLEAN, NEW command \in {"none", "stop", "ptz-camera"},
           Command(stale, command)
    PROVE  IInv'
<1> DEFINE gone == stale \/ command = "stop"
<1>1. /\ pc = "command" /\ pc' = "requests" /\ now' = now /\ actions' = actions
      /\ events' = events /\ requests' = requests
      /\ live' = (live /\ ~gone)
      /\ melt' = IF gone THEN "none" ELSE melt
      /\ apart' = apart \cup (IF live /\ gone THEN {"taken"} ELSE {})
                        \cup (IF live' /\ command = "ptz-camera" THEN {"left"} ELSE {})
      /\ control' = IF command = "ptz-camera" THEN Cleared ELSE control
  BY DEF Command
<1>2. now \in Nat /\ Rest(control, now) /\ Fits(control.mode, live, melt, apart)
  BY <1>1 DEF IInv, TypeOK
<1>3. Rest(control', now') /\ (control' = control \/ (command = "ptz-camera" /\ control'.mode = "camera"))
  BY <1>1, <1>2, ClearedFacts
<1>4. Fits(control.mode, live', melt', apart')
  BY <1>1, <1>2 DEF Fits
<1>5. Fits(control'.mode, live', melt', apart')
  <2>1. CASE command = "ptz-camera" /\ control'.mode = "camera"
    <3>1. live' => "left" \in apart'
      BY <1>1, <2>1
    <3> QED BY <1>4, <2>1, <3>1 DEF Fits
  <2>2. CASE control' = control
    BY <1>4, <2>2
  <2> QED BY <1>3, <2>1, <2>2
<1>6. control' \in Control
  BY <1>3 DEF Rest, Settled, Sane
<1>7. live' \in BOOLEAN /\ melt' \in {"none", "entry", "exit"} /\ apart' \subseteq {"taken", "left"}
  BY <1>1 DEF IInv, TypeOK
<1>8. TypeOK'
  BY <1>1, <1>6, <1>7 DEF IInv, TypeOK, Control
<1> QED BY <1>1, <1>3, <1>5, <1>8 DEF IInv

LEMMA RequestsStep ==
    ASSUME IInv, NEW start \in BOOLEAN, NEW camera \in BOOLEAN, DashboardRequests(start, camera)
    PROVE  IInv'
<1> DEFINE e == IF start THEN RequestEnter(control) ELSE Result(control, {})
           x == IF camera THEN RequestExit(e.c) ELSE Result(e.c, {})
<1>1. /\ pc = "requests" /\ pc' = "drain" /\ now' = now /\ events' = events
      /\ live' = live /\ melt' = melt /\ apart' = apart
      /\ control' = x.c /\ actions' = e.acts \cup x.acts
      /\ requests' \in Nat
  BY DEF DashboardRequests, IInv, TypeOK
<1>2. now \in Nat /\ Rest(control, now) /\ Settled(control, now)
  BY DEF IInv, TypeOK, Rest
<1>3. Rest(e.c, now) /\ Moves(control, e.c, e.acts)
  <2>1. CASE start
    <3>1. e = RequestEnter(control)
      BY <2>1
    <3>2. Settled(e.c, now) /\ Moves(control, e.c, e.acts)
      BY <1>2, <3>1, RequestEnterFacts
    <3>3. CASE e.c.mode = "doom"
      <4>1. e.c = control
        BY <3>1, <3>2, <3>3, ResultFacts DEF Moves, RequestEnter
      <4> QED BY <1>2, <3>2, <4>1
    <3> QED BY <3>2, <3>3, RestAway
  <2>2. CASE ~start
    BY <1>2, <2>2, ResultFacts DEF Moves
  <2> QED BY <2>1, <2>2
<1> HIDE DEF e
<1>4. Rest(x.c, now) /\ Moves(e.c, x.c, x.acts)
  <2>1. CASE camera
    <3>1. x = RequestExit(e.c)
      BY <2>1
    <3>2. Settled(x.c, now) /\ Moves(e.c, x.c, x.acts)
      BY <1>2, <1>3, <3>1, RequestExitFacts DEF Rest
    <3>3. x.c.mode # "doom" \/ x.c = e.c
      BY <3>1, <3>2, ResultFacts DEF Moves, RequestExit
    <3> QED BY <1>3, <3>2, <3>3, RestAway
  <2>2. CASE ~camera
    BY <1>3, <2>2, ResultFacts DEF Moves
  <2> QED BY <2>1, <2>2
<1> HIDE DEF x
<1>5. Agree(control, {}, live, melt, apart)
  BY <1>1 DEF IInv, Agree
<1>6. Agree(x.c, {} \cup (e.acts \cup x.acts), live, melt, apart)
  BY <1>3, <1>4, <1>5, AgreeMoves, MovesTrans
<1>7. Agree(control', actions', live', melt', apart')
  <2>1. {} \cup (e.acts \cup x.acts) = actions'
    BY <1>1
  <2> QED BY <1>1, <1>6, <2>1
<1>8. control' \in Control /\ Rest(control', now')
  BY <1>1, <1>4 DEF Rest, Settled, Sane
<1>9. TypeOK'
  BY <1>1, <1>7, <1>8 DEF IInv, TypeOK, Agree, Control
<1> QED BY <1>1, <1>7, <1>8, <1>9 DEF IInv, Agree

LEMMA DrainStep ==
    ASSUME IInv, NEW command, DrainEvent(command)
    PROVE  IInv'
<1> DEFINE r == Drained(control, command, now)
<1>1. /\ pc = "drain" /\ pc' = "drain" /\ now' = now /\ requests' = requests
      /\ live' = live /\ melt' = melt /\ apart' = apart
      /\ events' \in Nat
  BY DEF DrainEvent, IInv, TypeOK
<1>2. control' = r.c /\ actions' = actions \cup r.acts
  BY ResultFacts DEF DrainEvent, Drained
<1>3. now \in Nat /\ Rest(control, now) /\ Agree(control, actions, live, melt, apart)
  BY <1>1 DEF IInv, TypeOK
<1>4. Rest(r.c, now) /\ Moves(control, r.c, r.acts)
  BY <1>3, DrainFacts
<1> HIDE DEF r
<1>5. Agree(control', actions', live', melt', apart')
  BY <1>1, <1>2, <1>3, <1>4, AgreeMoves
<1>6. control' \in Control /\ Rest(control', now')
  BY <1>1, <1>2, <1>4 DEF Rest, Settled, Sane
<1>7. TypeOK'
  BY <1>1, <1>5, <1>6 DEF IInv, TypeOK, Agree, Control
<1> QED BY <1>1, <1>5, <1>6, <1>7 DEF IInv, Agree

LEMMA BeginMeltStep ==
    ASSUME IInv, NEW ready \in BOOLEAN, NEW begun \in BOOLEAN, BeginMelt(ready, begun)
    PROVE  IInv'
<1> DEFINE d == Deferred(ready)
           t == Tick(d.c, now)
           acts == d.acts \cup t.acts
           none == acts \cap {"ENTER", "EXIT"} = {}
<1>1. /\ pc = "drain" /\ pc' = "present" /\ now' = now /\ events' = events
      /\ requests' = requests /\ actions' = acts
      /\ control' = IF none \/ begun THEN t.c
                    ELSE IF "EXIT" \in acts THEN Cleared
                    ELSE [t.c EXCEPT !.mode = "camera"]
      /\ live' = IF none THEN live ELSE begun
      /\ melt' = IF none THEN melt
                 ELSE IF ~begun THEN "none"
                 ELSE IF "EXIT" \in acts THEN "exit" ELSE "entry"
      /\ apart' = IF begun /\ "ENTER" \in acts THEN {} ELSE apart
  BY DEF BeginMelt
<1>2. now \in Nat /\ Rest(control, now) /\ Agree(control, actions, live, melt, apart)
  BY <1>1 DEF IInv, TypeOK
<1>3. Rest(d.c, now) /\ Agree(d.c, d.acts, live, melt, apart)
  <2>1. CASE "ENTER" \in actions /\ ~ready
    <3>1. d.c = Cleared /\ d.acts = actions \ {"ENTER"}
      BY <2>1, ResultFacts DEF Deferred
    <3>2. Rest(d.c, now) /\ d.c.mode = "camera"
      BY <1>2, <3>1, ClearedFacts
    <3> HIDE DEF d
    <3> QED BY <1>2, <2>1, <3>1, <3>2 DEF Agree
  <2>2. CASE ~("ENTER" \in actions /\ ~ready)
    BY <1>2, <2>2, ResultFacts DEF Deferred
  <2> QED BY <2>1, <2>2
<1> HIDE DEF d
<1>4. Rest(t.c, now) /\ Moves(d.c, t.c, t.acts)
  BY <1>2, <1>3, TickFacts
<1> HIDE DEF t
<1>5. Agree(t.c, acts, live, melt, apart)
  BY <1>3, <1>4, AgreeMoves
<1> HIDE DEF acts
<1>6. Rest(control', now') /\ Fits(control'.mode, live', melt', apart')
  <2>1. CASE none
    <3>1. control' = t.c /\ live' = live /\ melt' = melt /\ apart' = apart
      BY <1>1, <2>1
    <3> QED BY <1>1, <1>4, <1>5, <2>1, <3>1 DEF Agree
  <2>2. CASE "EXIT" \in acts
    <3>1. t.c.mode = "exit" /\ "ENTER" \notin acts
      BY <1>5, <2>2 DEF Agree
    <3>2. CASE begun
      <4>1. control' = t.c /\ melt' = "exit" /\ live' = TRUE
        BY <1>1, <2>2, <3>2
      <4> QED BY <1>1, <1>4, <3>1, <4>1 DEF Fits
    <3>3. CASE ~begun
      <4>1. control' = Cleared /\ melt' = "none" /\ live' = FALSE
        BY <1>1, <2>2, <3>3
      <4>2. Rest(control', now) /\ control'.mode = "camera"
        BY <1>2, <4>1, ClearedFacts
      <4> QED BY <1>1, <4>1, <4>2 DEF Fits
    <3> QED BY <3>2, <3>3
  <2>3. CASE "ENTER" \in acts /\ "EXIT" \notin acts
    <3>1. t.c.mode = "entry"
      BY <1>5, <2>3 DEF Agree
    <3>2. CASE begun
      <4>1. control' = t.c /\ melt' = "entry" /\ live' = TRUE
        BY <1>1, <2>3, <3>2
      <4> QED BY <1>1, <1>4, <3>1, <4>1 DEF Fits
    <3>3. CASE ~begun
      <4>1. control' = [t.c EXCEPT !.mode = "camera"] /\ melt' = "none" /\ live' = FALSE
        BY <1>1, <2>3, <3>3
      <4>2. Rest(control', now) /\ control'.mode = "camera"
        BY <1>2, <1>4, <3>1, <4>1, ModeOnlyFacts
      <4> QED BY <1>1, <4>1, <4>2 DEF Fits
    <3> QED BY <3>2, <3>3
  <2> QED BY <2>1, <2>2, <2>3
<1>7. control' \in Control
  BY <1>6 DEF Rest, Settled, Sane
<1>8. live' \in BOOLEAN /\ melt' \in {"none", "entry", "exit"} /\ apart' \subseteq {"taken", "left"}
  BY <1>1 DEF IInv, TypeOK
<1>9. TypeOK'
  BY <1>1, <1>5, <1>7, <1>8 DEF IInv, TypeOK, Agree, Control
<1> QED BY <1>1, <1>5, <1>6, <1>9 DEF IInv, Agree

LEMMA PresentStep ==
    ASSUME IInv, NEW done \in BOOLEAN, NEW fails \in BOOLEAN, NEW t \in now .. MAX_TIME,
           Present(done, fails, t)
    PROVE  IInv'
<1>1. /\ pc = "present" /\ pc' = "command" /\ now' = t /\ actions' = {}
      /\ events' = events /\ requests' = requests /\ apart' = apart
      /\ done \/ fails => live
      /\ done => ~fails /\ control.mode \in {"entry", "exit"}
      /\ control' = CASE fails -> Cleared
                      [] done /\ control.mode = "entry" -> [control EXCEPT !.mode = "doom"]
                      [] done /\ control.mode = "exit" -> ExitComplete(control)
                      [] OTHER -> control
      /\ live' = (live /\ ~fails /\ ~(done /\ control.mode = "exit"))
      /\ melt' = IF fails \/ done THEN "none" ELSE melt
  BY DEF Present
<1>2. /\ now \in Nat /\ t \in Nat /\ now <= t /\ Rest(control, now)
      /\ Fits(control.mode, live, melt, apart)
  BY <1>1, ControlAssumption DEF IInv, TypeOK
<1>3. Rest(control, t)
  BY <1>2, LaterFacts
<1>4. Rest(control', t) /\ Fits(control'.mode, live', melt', apart')
  <2>1. CASE fails
    <3>1. control' = Cleared /\ melt' = "none" /\ live' = FALSE
      BY <1>1, <2>1
    <3>2. Rest(control', t) /\ control'.mode = "camera"
      BY <1>2, <3>1, ClearedFacts
    <3> QED BY <3>1, <3>2 DEF Fits
  <2>2. CASE ~fails /\ done /\ control.mode = "entry"
    <3>1. control' = [control EXCEPT !.mode = "doom"] /\ melt' = "none" /\ live' = TRUE
      BY <1>1, <2>2
    <3>2. Rest(control', t) /\ control'.mode = "doom"
      BY <1>2, <1>3, <2>2, <3>1, ModeOnlyFacts
    <3> QED BY <3>1, <3>2 DEF Fits
  <2>3. CASE ~fails /\ done /\ control.mode = "exit"
    <3>1. control' = ExitComplete(control) /\ melt' = "none" /\ live' = FALSE
      BY <1>1, <2>3
    <3>2. Rest(control', t) /\ control'.mode = "camera"
      BY <1>2, <1>3, <3>1, ExitCompleteFacts
    <3> QED BY <3>1, <3>2 DEF Fits
  <2>4. CASE ~fails /\ ~done
    <3>1. control' = control /\ melt' = melt /\ live' = live
      BY <1>1, <2>4 DEF IInv, TypeOK
    <3> QED BY <1>1, <1>2, <1>3, <3>1
  <2> QED BY <1>1, <2>1, <2>2, <2>3, <2>4
<1>5. control' \in Control
  BY <1>4 DEF Rest, Settled, Sane
<1>6. live' \in BOOLEAN /\ melt' \in {"none", "entry", "exit"}
  BY <1>1 DEF IInv, TypeOK
<1>7. TypeOK'
  BY <1>1, <1>2, <1>5, <1>6 DEF IInv, TypeOK, Control
<1> QED BY <1>1, <1>4, <1>7 DEF IInv

(* IInv is inductive: no step of the worker's pass leaves it. *)
THEOREM Inductive == Spec => []IInv
<1>1. IInv /\ [Next]_vars => IInv'
  <2> SUFFICES ASSUME IInv, [Next]_vars PROVE IInv'
    OBVIOUS
  <2>1. CASE \E start, camera \in BOOLEAN : DashboardRequests(start, camera)
    BY <2>1, RequestsStep
  <2>2. CASE \E command \in COMMANDS : DrainEvent(command)
    BY <2>2, DrainStep
  <2>3. CASE \E ready, begun \in BOOLEAN : BeginMelt(ready, begun)
    BY <2>3, BeginMeltStep
  <2>4. CASE \E done, fails \in BOOLEAN, t \in now .. MAX_TIME : Present(done, fails, t)
    BY <2>4, PresentStep
  <2>5. CASE \E stale \in BOOLEAN, command \in {"none", "stop", "ptz-camera"} :
               Command(stale, command)
    BY <2>5, CommandStep
  <2>6. CASE UNCHANGED vars
    <3>1. /\ control' = control /\ now' = now /\ pc' = pc /\ actions' = actions
          /\ live' = live /\ melt' = melt /\ apart' = apart
          /\ events' = events /\ requests' = requests
      BY <2>6 DEF vars
    <3> QED BY <3>1 DEF IInv, TypeOK
  <2> QED BY <2>1, <2>2, <2>3, <2>4, <2>5, <2>6 DEF Next
<1> QED BY InitIInv, <1>1, PTL DEF Spec

(* The worker never holds both requests at once, and the one it holds is the
   one its mode says (OneTransition), for every secret, tap count and deadline
   and any number of events and requests in a pass. *)
THEOREM OneTransitionHolds == Spec => []OneTransition
<1>1. IInv => OneTransition
  BY DEF IInv, OneTransition, Agree
<1> QED BY Inductive, <1>1, PTL

(* Between passes mode, melt and media agree, but for what "stop", the dead-man
   and "ptz-camera" set apart, until the media next start (MeltBehindMode). *)
THEOREM MeltBehindModeHolds == Spec => []MeltBehindMode
<1>1. IInv => MeltBehindMode
  BY DEF IInv, MeltBehindMode, Backed, Fits
<1> QED BY Inductive, <1>1, PTL

(* A melt starts from a clean recogniser, and taps, secret presses and held
   Down never survive into a mode they do not belong to (CleanRecogniser). *)
THEOREM CleanRecogniserHolds == Spec => []CleanRecogniser
<1>1. IInv => CleanRecogniser
  BY DEF IInv, CleanRecogniser, Rest, Settled, Sane
<1> QED BY Inductive, <1>1, PTL

(* The times of the recogniser lie in the past and in order, so none of its
   unsigned differences ever wraps (TimesPast); the control record and the
   pass have their types (TypeOK). *)
THEOREM TimesPastHolds == Spec => [](TypeOK /\ TimesPast)
<1>1. IInv => TypeOK /\ TimesPast
  BY DEF IInv, TimesPast, Rest, Settled, Sane
<1> QED BY Inductive, <1>1, PTL

-----------------------------------------------------------------------------
(* What the recogniser counts, against the events it has seen. *)

Event == [command : Int, at : Nat]
Happened(command, t) == [command |-> command, at |-> t]

(* The last n events are taps in time, the first of them at first and the last at
   last, and not the release of a press; raw says that the last event is a press. *)
TapRun(h, n, raw, first, last) ==
    /\ n <= Len(h)
    /\ \A i \in Len(h) - n + 1 .. Len(h) : h[i].command = 0
    /\ \A i \in Len(h) - n + 2 .. Len(h) : h[i].at - h[i - 1].at <= GAP
    /\ n # 0 => ~raw /\ h[Len(h) - n + 1].at = first /\ h[Len(h)].at = last
    /\ ~raw /\ n < Len(h) => h[Len(h) - n].command = 0

(* The last presses are the first k commands of the secret. *)
SecretRun(h, k, first, last) ==
    k # 0 => \E at \in [1 .. k -> Presses(h)] :
                SecretSoFar(h, k, at) /\ h[at[1]].at = first /\ h[at[k]].at = last

(* Down was pressed at first, and nothing else has happened since. *)
HoldRun(h, first) ==
    \E i \in 1 .. Len(h) : h[i].at = first /\ \A j \in i .. Len(h) : h[j].command = 4

(* g is h and one more event. *)
Longer(g, h, command, t) ==
    /\ Len(h) \in Nat /\ Len(g) = Len(h) + 1
    /\ \A i \in 1 .. Len(h) : g[i] = h[i] /\ h[i].at \in Nat
    /\ g[Len(g)].command = command /\ g[Len(g)].at = t

LEMMA AppendEvent ==
    ASSUME NEW h \in Seq(Event), NEW command \in Int, NEW t \in Nat,
           NEW g, g = Append(h, Happened(command, t))
    PROVE  g \in Seq(Event) /\ Longer(g, h, command, t)
  <1>1. Happened(command, t) \in Event BY DEF Happened, Event
  <1>2. /\ g \in Seq(Event) /\ Len(h) \in Nat /\ Len(g) = Len(h) + 1
        /\ \A i \in 1 .. Len(h) : g[i] = h[i]
        /\ g[Len(g)] = Happened(command, t)
    BY <1>1
  <1>3. \A i \in 1 .. Len(h) : h[i] \in Event OBVIOUS
  <1> QED BY <1>2, <1>3 DEF Happened, Event, Longer

LEMMA TapRunReset ==
    ASSUME NEW h \in Seq(Event), NEW n \in Nat, NEW raw \in BOOLEAN, NEW first, NEW last,
           TapRun(h, n, raw, first, last)
    PROVE  TapRun(h, 0, raw, 0, 0)
  <1>1. Len(h) \in Nat OBVIOUS
  <1>2. ~raw /\ 0 < Len(h) => h[Len(h)].command = 0 BY <1>1 DEF TapRun
  <1> QED BY <1>1, <1>2 DEF TapRun

(* A direction, or its release. *)
LEMMA TapRunBroken ==
    ASSUME NEW h, NEW command \in Int, NEW t \in Nat, NEW raw \in BOOLEAN, ~raw => command = 0,
           NEW g, Longer(g, h, command, t)
    PROVE  TapRun(g, 0, raw, 0, 0)
  <1>1. Len(g) \in Nat /\ g[Len(g)].command = command BY DEF Longer
  <1> QED BY <1>1 DEF TapRun

(* One tap more. *)
LEMMA TapRunTap ==
    ASSUME NEW h, NEW n \in Nat, NEW first \in Nat, NEW last \in Nat, NEW t \in Nat,
           TapRun(h, n, FALSE, first, last), n # 0 => t - last <= GAP,
           NEW g, Longer(g, h, 0, t)
    PROVE  TapRun(g, n + 1, FALSE, IF n = 0 THEN t ELSE first, t)
  <1> DEFINE f == IF n = 0 THEN t ELSE first
  <1>1. /\ Len(h) \in Nat /\ Len(g) = Len(h) + 1
        /\ \A i \in 1 .. Len(h) : g[i] = h[i]
        /\ g[Len(g)].command = 0 /\ g[Len(g)].at = t
    BY DEF Longer
  <1>2. n <= Len(h) BY DEF TapRun
  <1>3. ASSUME NEW i \in Len(g) - (n + 1) + 1 .. Len(g) PROVE g[i].command = 0
    <2>1. CASE i = Len(g) BY <1>1, <2>1
    <2>2. CASE i # Len(g)
      <3>1. i \in 1 .. Len(h) /\ i \in Len(h) - n + 1 .. Len(h) BY <1>1, <1>2, <2>2
      <3> QED BY <1>1, <3>1 DEF TapRun
    <2> QED BY <2>1, <2>2
  <1>4. ASSUME NEW i \in Len(g) - (n + 1) + 2 .. Len(g) PROVE g[i].at - g[i - 1].at <= GAP
    <2>1. CASE i = Len(g)
      <3>1. n # 0 /\ i - 1 = Len(h) /\ Len(h) \in 1 .. Len(h) BY <1>1, <1>2, <2>1
      <3>2. h[Len(h)].at = last BY <3>1 DEF TapRun
      <3>3. g[i - 1] = h[Len(h)] /\ g[i].at = t BY <1>1, <2>1, <3>1
      <3> QED BY <3>1, <3>2, <3>3
    <2>2. CASE i # Len(g)
      <3>1. i \in 1 .. Len(h) /\ i - 1 \in 1 .. Len(h) /\ i \in Len(h) - n + 2 .. Len(h) BY <1>1, <1>2, <2>2
      <3> QED BY <1>1, <3>1 DEF TapRun
    <2> QED BY <2>1, <2>2
  <1>5. g[Len(g) - (n + 1) + 1].at = f
    <2>1. CASE n = 0 BY <1>1, <2>1
    <2>2. CASE n # 0
      <3>1. Len(g) - (n + 1) + 1 = Len(h) - n + 1 /\ Len(h) - n + 1 \in 1 .. Len(h) BY <1>1, <1>2, <2>2
      <3>2. h[Len(h) - n + 1].at = first BY <2>2 DEF TapRun
      <3> QED BY <1>1, <2>2, <3>1, <3>2
    <2> QED BY <2>1, <2>2
  <1>6. n + 1 < Len(g) => g[Len(g) - (n + 1)].command = 0
    <2> SUFFICES ASSUME n + 1 < Len(g) PROVE g[Len(g) - (n + 1)].command = 0 OBVIOUS
    <2>1. Len(g) - (n + 1) = Len(h) - n /\ Len(h) - n \in 1 .. Len(h) /\ n < Len(h) BY <1>1
    <2>2. h[Len(h) - n].command = 0 BY <2>1 DEF TapRun
    <2> QED BY <1>1, <2>1, <2>2
  <1> HIDE DEF f
  <1>7. n + 1 <= Len(g) BY <1>1, <1>2
  <1>8. TapRun(g, n + 1, FALSE, f, t) BY <1>1, <1>3, <1>4, <1>5, <1>6, <1>7 DEF TapRun
  <1> QED BY <1>8 DEF f

LEMMA TapRunDone ==
    ASSUME NEW g \in Seq(Event), NEW first \in Nat, NEW last, NEW t \in Nat,
           TapRun(g, TAPS, FALSE, first, last), t - first <= TOTAL
    PROVE  TapGesture(g, t)
  <1> DEFINE f == Len(g) - TAPS + 1
  <1>1. Len(g) \in Nat /\ TAPS \in Nat \ {0} BY ControlAssumption
  <1>2. f >= 1 /\ f \in Nat /\ f + 1 = Len(g) - TAPS + 2 BY <1>1 DEF TapRun
  <1>3. g[f].at = first BY <1>1 DEF TapRun
  <1>4. \A i \in f .. Len(g) : g[i].command = 0 BY DEF TapRun
  <1>5. \A i \in f + 1 .. Len(g) : g[i].at - g[i - 1].at <= GAP BY <1>2 DEF TapRun
  <1>6. f > 1 => g[f - 1].command = 0
    <2>1. f - 1 = Len(g) - TAPS /\ (f > 1 => TAPS < Len(g)) BY <1>1
    <2> QED BY <2>1 DEF TapRun
  <1> HIDE DEF f
  <1>7. /\ f >= 1 /\ t - g[f].at <= TOTAL
        /\ \A i \in f .. Len(g) : g[i].command = 0
        /\ \A i \in f + 1 .. Len(g) : g[i].at - g[i - 1].at <= GAP
        /\ f > 1 => g[f - 1].command = 0
    BY <1>2, <1>3, <1>4, <1>5, <1>6
  <1> QED BY <1>7 DEF TapGesture, f

-----------------------------------------------------------------------------
(* The secret. *)

LEMMA PressesAppend ==
    ASSUME NEW h, NEW command \in Int, NEW t \in Nat,
           NEW g, Longer(g, h, command, t)
    PROVE  /\ command = 0 => Presses(g) = Presses(h)
           /\ command # 0 => /\ Presses(h) \subseteq Presses(g) /\ Len(g) \in Presses(g)
                             /\ \A j \in Presses(g) : j \in Presses(h) \/ j = Len(g)
  <1>1. /\ Len(h) \in Nat /\ Len(g) = Len(h) + 1
        /\ \A i \in 1 .. Len(h) : g[i] = h[i]
        /\ g[Len(g)].command = command
    BY DEF Longer
  <1>2. 1 .. Len(g) = (1 .. Len(h)) \cup {Len(g)} BY <1>1
  <1> QED BY <1>1, <1>2 DEF Presses

LEMMA PressesPress ==
    ASSUME NEW h, NEW command \in Int, NEW t \in Nat, command # 0,
           NEW g, Longer(g, h, command, t)
    PROVE  /\ Presses(h) \subseteq Presses(g) /\ Len(g) \in Presses(g)
           /\ \A j \in Presses(g) : j \in Presses(h) \/ j = Len(g)
  BY PressesAppend

(* A stop changes nothing. *)
LEMMA SecretRunStop ==
    ASSUME NEW h, NEW t \in Nat, NEW k \in Nat, NEW first, NEW last, SecretRun(h, k, first, last),
           NEW g, Longer(g, h, 0, t)
    PROVE  SecretRun(g, k, first, last)
  <1>0. 0 \in Int OBVIOUS
  <1>1. Presses(g) = Presses(h) BY <1>0, PressesAppend, Zenon
  <1>2. \A i \in 1 .. Len(h) : g[i] = h[i] BY DEF Longer
  <1>3. Presses(h) \subseteq 1 .. Len(h) BY DEF Presses
  <1>4. ASSUME k # 0 PROVE \E at \in [1 .. k -> Presses(g)] :
                SecretSoFar(g, k, at) /\ g[at[1]].at = first /\ g[at[k]].at = last
    <2>1. PICK at \in [1 .. k -> Presses(h)] : SecretSoFar(h, k, at) /\ h[at[1]].at = first /\ h[at[k]].at = last
      BY <1>4 DEF SecretRun
    <2>2. \A i \in 1 .. k : at[i] \in 1 .. Len(h) /\ g[at[i]] = h[at[i]] BY <1>2, <1>3, <2>1
    <2>3. 1 \in 1 .. k /\ k \in 1 .. k /\ \A i \in 2 .. k : i \in 1 .. k /\ i - 1 \in 1 .. k BY <1>4
    <2>4. SecretSoFar(g, k, at) BY <1>1, <2>1, <2>2, <2>3 DEF SecretSoFar
    <2>5. g[at[1]].at = first /\ g[at[k]].at = last BY <2>1, <2>2, <2>3
    <2> QED BY <1>1, <2>1, <2>4, <2>5
  <1> QED BY <1>4 DEF SecretRun

(* A press that starts the secret. *)
LEMMA SecretRunFirst ==
    ASSUME NEW h, NEW command \in Int, NEW t \in Nat, command # 0, command = SECRET[1],
           NEW g, Longer(g, h, command, t)
    PROVE  SecretRun(g, 1, t, t)
  <1> DEFINE at == [i \in 1 .. 1 |-> Len(g)]
  <1>1. Len(h) \in Nat /\ Len(g) = Len(h) + 1 /\ g[Len(g)].command = command /\ g[Len(g)].at = t BY DEF Longer
  <1>2. /\ Presses(h) \subseteq Presses(g) /\ Len(g) \in Presses(g)
        /\ \A j \in Presses(g) : j \in Presses(h) \/ j = Len(g)
    BY PressesPress
  <1>3. Presses(g) \subseteq 1 .. Len(g) BY DEF Presses
  <1>4. at \in [1 .. 1 -> Presses(g)] /\ at[1] = Len(g) /\ \A i \in 1 .. 1 : i = 1 BY <1>2
  <1> HIDE DEF at
  <1>5. SecretSoFar(g, 1, at)
    <2>1. \A i \in 1 .. 1 : g[at[i]].command = SECRET[i] BY <1>1, <1>4
    <2>2. \A j \in Presses(g) : j >= at[1] => \E i \in 1 .. 1 : j = at[i] BY <1>1, <1>3, <1>4
    <2> QED BY <2>1, <2>2 DEF SecretSoFar
  <1>6. \E a \in [1 .. 1 -> Presses(g)] : SecretSoFar(g, 1, a) /\ g[a[1]].at = t
    BY <1>1, <1>4, <1>5
  <1> QED BY <1>6 DEF SecretRun

(* A press that goes on with it. *)
LEMMA SecretRunNext ==
    ASSUME NEW h, NEW command \in Int, NEW t \in Nat, NEW k \in Nat \ {0},
           NEW first \in Nat, NEW last \in Nat,
           SecretRun(h, k, first, last), t - last <= GAP, command # 0, SECRET[k + 1] = command,
           NEW g, Longer(g, h, command, t)
    PROVE  SecretRun(g, k + 1, first, t)
  <1>1. /\ Len(h) \in Nat /\ Len(g) = Len(h) + 1
        /\ \A i \in 1 .. Len(h) : g[i] = h[i]
        /\ g[Len(g)].command = command /\ g[Len(g)].at = t
    BY DEF Longer
  <1>2. /\ Presses(h) \subseteq Presses(g) /\ Len(g) \in Presses(g)
        /\ \A j \in Presses(g) : j \in Presses(h) \/ j = Len(g)
    BY PressesPress
  <1>3. Presses(h) \subseteq 1 .. Len(h) BY DEF Presses
  <1>4. PICK old \in [1 .. k -> Presses(h)] :
          SecretSoFar(h, k, old) /\ h[old[1]].at = first /\ h[old[k]].at = last
    BY DEF SecretRun
  <1> DEFINE at == [i \in 1 .. k + 1 |-> IF i = k + 1 THEN Len(g) ELSE old[i]]
  <1>5. \A i \in 1 .. k : i \in 1 .. k + 1 /\ i # k + 1 OBVIOUS
  <1>6. 1 \in 1 .. k /\ k \in 1 .. k /\ k + 1 \in 1 .. k + 1 /\ 1 .. k + 1 = (1 .. k) \cup {k + 1} OBVIOUS
  <1>7. /\ at \in [1 .. k + 1 -> Presses(g)]
        /\ \A i \in 1 .. k : at[i] = old[i]
        /\ at[k + 1] = Len(g)
    BY <1>2, <1>4, <1>5, <1>6
  <1> HIDE DEF at
  <1>8. ASSUME NEW i \in 1 .. k PROVE at[i] \in 1 .. Len(h) /\ at[i] < Len(g) /\ g[at[i]] = h[old[i]]
    <2>1. at[i] = old[i] /\ old[i] \in 1 .. Len(h) BY <1>3, <1>4, <1>7
    <2> QED BY <1>1, <2>1
  <1>9. SecretSoFar(g, k + 1, at)
    <2>1. ASSUME NEW i \in 1 .. k + 1 PROVE g[at[i]].command = SECRET[i]
      <3>1. CASE i = k + 1 BY <1>1, <1>7, <3>1
      <3>2. CASE i \in 1 .. k BY <1>4, <1>8, <3>2 DEF SecretSoFar
      <3> QED BY <1>6, <3>1, <3>2
    <2>2. ASSUME NEW i \in 2 .. k + 1 PROVE at[i - 1] < at[i] /\ g[at[i]].at - g[at[i - 1]].at <= GAP
      <3>1. CASE i = k + 1
        <4>1. i - 1 = k BY <3>1
        <4> QED BY <1>1, <1>4, <1>6, <1>7, <1>8, <3>1, <4>1
      <3>2. CASE i # k + 1
        <4>1. i \in 2 .. k /\ i \in 1 .. k /\ i - 1 \in 1 .. k BY <3>2
        <4> QED BY <1>4, <1>7, <1>8, <4>1 DEF SecretSoFar
      <3> QED BY <3>1, <3>2
    <2>3. ASSUME NEW j \in Presses(g), j >= at[1] PROVE \E i \in 1 .. k + 1 : j = at[i]
      <3>1. CASE j = Len(g) BY <1>6, <1>7, <3>1
      <3>2. CASE j \in Presses(h)
        <4>1. PICK i \in 1 .. k : j = old[i] BY <1>4, <1>6, <1>7, <2>3, <3>2 DEF SecretSoFar
        <4> QED BY <1>5, <1>7, <4>1
      <3> QED BY <1>2, <3>1, <3>2
    <2> QED BY <2>1, <2>2, <2>3 DEF SecretSoFar
  <1>10. g[at[1]].at = first /\ g[at[k + 1]].at = t BY <1>1, <1>4, <1>6, <1>7, <1>8
  <1> QED BY <1>7, <1>9, <1>10 DEF SecretRun

LEMMA SecretRunDone ==
    ASSUME NEW g, NEW first, NEW last, NEW t, SecretRun(g, Len(SECRET), first, last), t - first <= TOTAL
    PROVE  SecretGesture(g, t)
  BY ControlAssumption DEF SecretRun, SecretGesture

-----------------------------------------------------------------------------
(* The hold. *)

LEMMA HoldRunFirst ==
    ASSUME NEW h, NEW t \in Nat,
           NEW g, Longer(g, h, 4, t)
    PROVE  HoldRun(g, t)
  <1>1. Len(h) \in Nat /\ Len(g) = Len(h) + 1 /\ g[Len(g)].command = 4 /\ g[Len(g)].at = t BY DEF Longer
  <1> QED BY <1>1 DEF HoldRun

LEMMA HoldRunMore ==
    ASSUME NEW h, NEW t \in Nat, NEW first, HoldRun(h, first),
           NEW g, Longer(g, h, 4, t)
    PROVE  HoldRun(g, first)
  <1>1. /\ Len(h) \in Nat /\ Len(g) = Len(h) + 1 /\ g[Len(g)].command = 4
        /\ \A i \in 1 .. Len(h) : g[i] = h[i]
    BY DEF Longer
  <1>2. PICK i \in 1 .. Len(h) : h[i].at = first /\ \A j \in i .. Len(h) : h[j].command = 4 BY DEF HoldRun
  <1>3. ASSUME NEW j \in i .. Len(g) PROVE g[j].command = 4
    <2>1. CASE j = Len(g) BY <1>1, <2>1
    <2>2. CASE j # Len(g)
      <3>1. j \in i .. Len(h) /\ j \in 1 .. Len(h) BY <1>1, <2>2
      <3> QED BY <1>1, <1>2, <3>1
    <2> QED BY <2>1, <2>2
  <1>4. i \in 1 .. Len(g) /\ g[i].at = first BY <1>1, <1>2
  <1> QED BY <1>3, <1>4 DEF HoldRun

(* Down is let go, or is still held. *)
LEMMA HoldRunDone ==
    ASSUME NEW h, NEW t \in Nat, NEW first \in Nat, HoldRun(h, first), t - first >= HOLD,
           NEW g, Longer(g, h, 0, t)
    PROVE  HoldGesture(h, t) /\ HoldGesture(g, t)
  <1>1. /\ Len(h) \in Nat /\ Len(g) = Len(h) + 1 /\ g[Len(g)].command = 0
        /\ \A i \in 1 .. Len(h) : g[i] = h[i]
    BY DEF Longer
  <1>2. PICK i \in 1 .. Len(h) : h[i].at = first /\ \A j \in i .. Len(h) : h[j].command = 4 BY DEF HoldRun
  <1>3. ASSUME NEW j \in i .. Len(g) PROVE g[j].command = 4 \/ (j = Len(g) /\ g[j].command = 0)
    <2>1. CASE j = Len(g) BY <1>1, <2>1
    <2>2. CASE j # Len(g)
      <3>1. j \in i .. Len(h) /\ j \in 1 .. Len(h) BY <1>1, <2>2
      <3> QED BY <1>1, <1>2, <3>1
    <2> QED BY <2>1, <2>2
  <1>4. i \in i .. Len(h) /\ h[i].command = 4 BY <1>1, <1>2
  <1>5. i \in 1 .. Len(g) /\ g[i].at = first /\ g[i].command = 4 BY <1>1, <1>2, <1>4
  <1>6. HoldGesture(g, t) BY <1>3, <1>5 DEF HoldGesture
  <1>7. HoldGesture(h, t) BY <1>2, <1>4 DEF HoldGesture
  <1> QED BY <1>6, <1>7

-----------------------------------------------------------------------------
(* One event and the counts. *)

Taps(c, h) == TapRun(h, c.stop_only_index, c.raw_direction, c.stop_only_first, c.stop_only_last)
Secrets(c, h) == SecretRun(h, c.secret_index, c.secret_first, c.secret_last)
Holds(c, h) == c.exit_down => HoldRun(h, c.exit_down_first)

(* What the record counts in camera mode and in Doom is what has happened. *)
Remembered(c, h) == c.mode \in {"camera", "doom"} => Taps(c, h) /\ Secrets(c, h) /\ Holds(c, h)

SameTaps(c, d) ==
    /\ d.stop_only_index = c.stop_only_index /\ d.raw_direction = c.raw_direction
    /\ d.stop_only_first = c.stop_only_first /\ d.stop_only_last = c.stop_only_last
SameSecret(c, d) ==
    d.secret_index = c.secret_index /\ d.secret_first = c.secret_first /\ d.secret_last = c.secret_last
SameHold(c, d) == d.exit_down = c.exit_down /\ d.exit_down_first = c.exit_down_first

(* A step of the recogniser that is only about the taps. *)
TapsOnly(c, d) ==
    d.mode = c.mode /\ SameSecret(c, d) /\ SameHold(c, d) /\ d.camera_control_down = c.camera_control_down

LEMMA RawFields ==
    ASSUME NEW c \in Control, NEW b \in BOOLEAN, NEW d, d = Raw(c, b)
    PROVE  /\ TapsOnly(c, d) /\ d.raw_direction = b
           /\ d.stop_only_index = 0 /\ d.stop_only_first = 0 /\ d.stop_only_last = 0
  <1> DEFINE e == [c EXCEPT !.raw_direction = b]
  <1>1. d = ResetStopOnly(e) BY DEF Raw
  <1>2. e \in Control /\ TapsOnly(c, e) /\ e.raw_direction = b BY DEF Control, TapsOnly, SameSecret, SameHold
  <1> HIDE DEF e
  <1> QED BY <1>1, <1>2, ResetStopOnlyFields DEF TapsOnly, SameSecret, SameHold

LEMMA ExpireStopOnlyFields ==
    ASSUME NEW c \in Control, NEW t \in Nat, NEW d, d = ExpireStopOnly(c, t)
    PROVE  /\ d \in Control /\ TapsOnly(c, d) /\ d.raw_direction = c.raw_direction
           /\ \/ d = c /\ ~Expired(c.stop_only_index, c.stop_only_first, c.stop_only_last, t)
              \/ d.stop_only_index = 0 /\ d.stop_only_first = 0 /\ d.stop_only_last = 0
  <1>1. CASE Expired(c.stop_only_index, c.stop_only_first, c.stop_only_last, t)
    <2>1. d = ResetStopOnly(c) BY <1>1 DEF ExpireStopOnly
    <2> QED BY <2>1, ResetStopOnlyFields DEF TapsOnly, SameSecret, SameHold
  <1>2. CASE ~Expired(c.stop_only_index, c.stop_only_first, c.stop_only_last, t)
    <2>1. d = c BY <1>2 DEF ExpireStopOnly
    <2> QED BY <1>2, <2>1 DEF TapsOnly, SameSecret, SameHold
  <1> QED BY <1>1, <1>2

LEMMA ExpireSecretFields ==
    ASSUME NEW c \in Control, NEW t \in Nat, NEW d, d = ExpireSecret(c, t)
    PROVE  /\ d \in Control /\ d.mode = c.mode /\ SameTaps(c, d) /\ SameHold(c, d)
           /\ d.camera_control_down = c.camera_control_down
           /\ \/ d = c /\ ~Expired(c.secret_index, c.secret_first, c.secret_last, t)
              \/ d.secret_index = 0 /\ d.secret_first = 0 /\ d.secret_last = 0 /\ d.secret_complete = FALSE
  <1>1. CASE Expired(c.secret_index, c.secret_first, c.secret_last, t)
    <2>1. d = ResetSecret(c) BY <1>1 DEF ExpireSecret
    <2> QED BY <2>1, ResetSecretFields DEF SameTaps, SameHold
  <1>2. CASE ~Expired(c.secret_index, c.secret_first, c.secret_last, t)
    <2>1. d = c BY <1>2 DEF ExpireSecret
    <2> QED BY <1>2, <2>1 DEF SameTaps, SameHold
  <1> QED BY <1>1, <1>2

(* An expired count is forgotten, whatever it was. *)
LEMMA ExpireForgets ==
    ASSUME NEW c \in Control, NEW t \in Nat, NEW h \in Seq(Event)
    PROVE  /\ Taps(c, h) => Taps(ExpireStopOnly(c, t), h)
           /\ Secrets(c, h) => Secrets(ExpireSecret(c, t), h)
  <1> DEFINE d == ExpireStopOnly(c, t)
             e == ExpireSecret(c, t)
  <1>1. /\ d.raw_direction = c.raw_direction
        /\ d = c \/ (d.stop_only_index = 0 /\ d.stop_only_first = 0 /\ d.stop_only_last = 0)
    BY ExpireStopOnlyFields
  <1>2. e = c \/ e.secret_index = 0 BY ExpireSecretFields
  <1> HIDE DEF d, e
  <1>3. c.stop_only_index \in Nat /\ c.raw_direction \in BOOLEAN BY DEF Control
  <1>4. Taps(c, h) => Taps(d, h) BY <1>1, <1>3, TapRunReset DEF Taps
  <1>5. Secrets(c, h) => Secrets(e, h) BY <1>2 DEF Secrets, SecretRun
  <1> QED BY <1>4, <1>5 DEF d, e

LEMMA RequestModes ==
    ASSUME NEW c \in Control
    PROVE  /\ c.mode = "camera" => RequestEnter(c).c.mode = "entry" /\ ~RequestEnter(c).c.camera_control_down
           /\ c.mode # "camera" => RequestEnter(c).c = c
           /\ c.mode = "doom" => RequestExit(c).c.mode = "exit" /\ ~RequestExit(c).c.camera_control_down
           /\ c.mode # "doom" => RequestExit(c).c = c
  <1>1. CASE c.mode = "camera"
    <2> DEFINE d == [c EXCEPT !.mode = "entry", !.camera_control_down = FALSE, !.raw_direction = FALSE]
               e == ResetSecret(d)
    <2>1. d \in Control /\ d.mode = "entry" /\ d.camera_control_down = FALSE BY DEF Control, Modes
    <2>2. RequestEnter(c).c = ResetStopOnly(e) BY <1>1, ResultFacts DEF RequestEnter
    <2> HIDE DEF d
    <2>3. e \in Control /\ e.mode = "entry" /\ e.camera_control_down = FALSE BY <2>1, ResetSecretFields
    <2> HIDE DEF e
    <2>4. RequestEnter(c).c.mode = "entry" /\ RequestEnter(c).c.camera_control_down = FALSE
      BY <2>2, <2>3, ResetStopOnlyFields
    <2> QED BY <1>1, <2>4, ResultFacts DEF RequestExit
  <1>2. CASE c.mode = "doom"
    <2> DEFINE z == 0
               d == [c EXCEPT !.mode = "exit", !.camera_control_down = FALSE, !.raw_direction = FALSE,
                              !.exit_down = FALSE, !.exit_down_first = z]
    <2>0. z \in Nat OBVIOUS
    <2>2. RequestExit(c).c = ResetStopOnly(d) BY <1>2, ResultFacts DEF RequestExit
    <2> HIDE DEF z
    <2>1. d \in Control /\ d.mode = "exit" /\ d.camera_control_down = FALSE BY <2>0 DEF Control, Modes
    <2> HIDE DEF d
    <2>3. RequestExit(c).c.mode = "exit" /\ RequestExit(c).c.camera_control_down = FALSE
      BY <2>1, <2>2, ResetStopOnlyFields
    <2> QED BY <1>2, <2>3, ResultFacts DEF RequestEnter
  <1>3. CASE c.mode \notin {"camera", "doom"} BY <1>3, ResultFacts DEF RequestEnter, RequestExit
  <1> QED BY <1>1, <1>2, <1>3

(* A tap is counted, or completes the gesture. *)
LEMMA CountTapGesture ==
    ASSUME NEW t \in Nat, NEW c \in Control, c.mode \in {"camera", "doom"}, ~c.raw_direction,
           NEW h \in Seq(Event), NEW g \in Seq(Event), Longer(g, h, 0, t), Taps(c, h),
           c.stop_only_index # 0 => t - c.stop_only_last <= GAP /\ t - c.stop_only_first <= TOTAL,
           NEW r, r = CountTap(c, t).c
    PROVE  \/ r.mode \in {"entry", "exit"} /\ ~r.camera_control_down /\ TapGesture(g, t)
           \/ TapsOnly(c, r) /\ Taps(r, g)
  <1> DEFINE f == IF c.stop_only_index = 0 THEN t ELSE c.stop_only_first
             n == c.stop_only_index + 1
             d == [c EXCEPT !.stop_only_first = f, !.stop_only_last = t, !.stop_only_index = n]
  <1>1. CountTap(c, t) = IF d.stop_only_index # TAPS THEN Result(d, {})
                         ELSE IF d.mode = "camera" THEN RequestEnter(d) ELSE RequestExit(d)
    BY DEF CountTap
  <1>2. c.stop_only_index \in Nat /\ c.stop_only_first \in Nat /\ c.stop_only_last \in Nat /\ c.raw_direction = FALSE
    BY DEF Control
  <1>3. f \in Nat /\ n \in Nat /\ t - f <= TOTAL BY <1>2, ControlAssumption
  <1>4. TapRun(g, n, FALSE, f, t) BY <1>2, TapRunTap DEF Taps
  <1> HIDE DEF f, n
  <1>5. d \in Control /\ TapsOnly(c, d) BY <1>3 DEF Control, TapsOnly, SameSecret, SameHold
  <1>6. d.stop_only_index = n /\ d.stop_only_first = f /\ d.stop_only_last = t /\ d.raw_direction = FALSE
    BY <1>2, <1>3 DEF Control
  <1> HIDE DEF d
  <1>7. CASE n # TAPS
    <2>1. r = d BY <1>1, <1>6, <1>7, ResultFacts
    <2> QED BY <1>4, <1>5, <1>6, <2>1 DEF Taps
  <1>8. CASE n = TAPS
    <2>1. TapGesture(g, t) BY <1>3, <1>4, <1>8, TapRunDone
    <2>2. d.mode = c.mode BY <1>5 DEF TapsOnly
    <2>3. r.mode \in {"entry", "exit"} /\ ~r.camera_control_down
      BY <1>1, <1>5, <1>6, <1>8, <2>2, RequestModes
    <2> QED BY <2>1, <2>3
  <1> QED BY <1>7, <1>8

LEMMA ObserveGesture ==
    ASSUME NEW t \in Nat, NEW c \in Control, c.mode \in {"camera", "doom"}, NEW command \in Int,
           NEW h \in Seq(Event), NEW g \in Seq(Event), Longer(g, h, command, t), Taps(c, h),
           NEW o, o = ObserveRaw(c, command, t).c
    PROVE  \/ command = 0 /\ o.mode \in {"entry", "exit"} /\ ~o.camera_control_down /\ TapGesture(g, t)
           \/ TapsOnly(c, o) /\ Taps(o, g)
  <1>1. CASE command # 0 \/ c.raw_direction
    <2> DEFINE b == command # 0
    <2>1. b \in BOOLEAN /\ (~b => command = 0) OBVIOUS
    <2>2. o = Raw(c, b) BY <1>1, ResultFacts DEF ObserveRaw, Raw
    <2> HIDE DEF b
    <2>3. /\ TapsOnly(c, o) /\ o.raw_direction = b
          /\ o.stop_only_index = 0 /\ o.stop_only_first = 0 /\ o.stop_only_last = 0
      BY <2>1, <2>2, RawFields
    <2>4. TapRun(g, 0, b, 0, 0) BY <2>1, TapRunBroken
    <2> QED BY <2>3, <2>4 DEF Taps
  <1>2. CASE command = 0 /\ ~c.raw_direction
    <2> DEFINE d == ExpireStopOnly(c, t)
    <2>1. o = CountTap(d, t).c BY <1>2 DEF ObserveRaw
    <2>2. /\ d \in Control /\ TapsOnly(c, d) /\ d.raw_direction = c.raw_direction
          /\ d.stop_only_index # 0 => ~Expired(d.stop_only_index, d.stop_only_first, d.stop_only_last, t)
      BY ExpireStopOnlyFields
    <2>3. Taps(d, h) BY ExpireForgets
    <2> HIDE DEF d
    <2>4. d.stop_only_index # 0 => t - d.stop_only_last <= GAP /\ t - d.stop_only_first <= TOTAL
      <3>1. d.stop_only_last \in Nat /\ d.stop_only_first \in Nat BY <2>2 DEF Control
      <3>2. d.stop_only_index # 0 => ~(t - d.stop_only_last > GAP) /\ ~(t - d.stop_only_first > TOTAL)
        BY <2>2 DEF Expired
      <3> QED BY <3>1, <3>2, ControlAssumption
    <2>5. d.mode \in {"camera", "doom"} /\ ~d.raw_direction BY <1>2, <2>2 DEF TapsOnly
    <2>6. Longer(g, h, 0, t) BY <1>2
    <2>7. \/ o.mode \in {"entry", "exit"} /\ ~o.camera_control_down /\ TapGesture(g, t)
          \/ TapsOnly(d, o) /\ Taps(o, g)
      BY <2>1, <2>2, <2>3, <2>4, <2>5, <2>6, CountTapGesture
    <2> QED BY <1>2, <2>2, <2>7 DEF TapsOnly, SameSecret, SameHold
  <1> QED BY <1>1, <1>2

(* A stop in camera mode, when no secret is complete. *)
LEMMA CameraStopGesture ==
    ASSUME NEW t \in Nat, NEW c \in Control, ~c.secret_complete, NEW h \in Seq(Event), Secrets(c, h),
           NEW a, a = CameraCommand(c, 0, t).c
    PROVE  a.mode = c.mode /\ SameTaps(c, a) /\ SameHold(c, a) /\ ~a.camera_control_down /\ Secrets(a, h)
  <1> DEFINE e == ExpireSecret(c, t)
             r == [e EXCEPT !.camera_control_down = FALSE]
  <1>1. /\ e \in Control /\ e.mode = c.mode /\ SameTaps(c, e) /\ SameHold(c, e)
        /\ e.secret_complete = FALSE
    BY ExpireSecretFields DEF Control
  <1>2. Secrets(e, h) BY ExpireForgets
  <1>3. CameraCommand(c, 0, t) = IF e.secret_complete THEN Result(ResetSecret([r EXCEPT !.mode = "entry"]), {"ENTER"})
                                 ELSE Result(r, {})
    BY DEF CameraCommand
  <1> HIDE DEF e
  <1>4. a = r BY <1>1, <1>3, ResultFacts
  <1>5. /\ a.mode = e.mode /\ SameTaps(e, a) /\ SameHold(e, a) /\ SameSecret(e, a)
        /\ a.camera_control_down = FALSE
    BY <1>1, <1>4 DEF Control, SameTaps, SameHold, SameSecret
  <1> HIDE DEF r
  <1> QED BY <1>1, <1>2, <1>5 DEF SameTaps, SameHold, SameSecret, Secrets

(* A press is the next one of the secret, the first one, or none. *)
LEMMA MatchGesture ==
    ASSUME NEW t \in Nat, NEW c \in Control, ~c.secret_complete, NEW command \in Int, command # 0,
           NEW h \in Seq(Event), NEW g, Longer(g, h, command, t), Secrets(c, h),
           c.secret_index # 0 => t - c.secret_last <= GAP,
           NEW d, d = MatchSecret(c, command, t)
    PROVE  /\ d \in Control /\ d.mode = c.mode /\ SameTaps(c, d) /\ SameHold(c, d) /\ Secrets(d, g)
           /\ d.secret_complete => d.secret_index = Len(SECRET)
  <1>0. c.secret_index \in Nat /\ c.secret_first \in Nat /\ c.secret_last \in Nat BY DEF Control
  <1>1. CASE c.secret_index < Len(SECRET) /\ command = SECRET[c.secret_index + 1]
    <2> DEFINE k == c.secret_index
               f == IF k = 0 THEN t ELSE c.secret_first
               n == k + 1
               b == (n = Len(SECRET)) \/ c.secret_complete
    <2>1. d = [c EXCEPT !.secret_first = f, !.secret_last = t, !.secret_index = n, !.secret_complete = b]
      BY <1>1 DEF MatchSecret
    <2>2. f \in Nat /\ n \in Nat /\ b \in BOOLEAN /\ (b => n = Len(SECRET)) BY <1>0
    <2>3. SecretRun(g, n, f, t)
      <3>1. CASE k = 0
        <4>1. n = 1 /\ f = t /\ command = SECRET[1] BY <1>1, <3>1
        <4>2. SecretRun(g, 1, t, t) BY <4>1, SecretRunFirst
        <4> QED BY <4>1, <4>2
      <3>2. CASE k # 0
        <4>1. k \in Nat \ {0} /\ t - c.secret_last <= GAP /\ SECRET[k + 1] = command /\ f = c.secret_first
          BY <1>0, <1>1, <3>2
        <4>2. SecretRun(h, k, c.secret_first, c.secret_last) BY DEF Secrets
        <4> HIDE DEF k
        <4>3. SecretRun(g, k + 1, c.secret_first, t) BY <1>0, <4>1, <4>2, SecretRunNext
        <4> QED BY <4>1, <4>3
      <3> QED BY <3>1, <3>2
    <2> HIDE DEF k, f, n, b
    <2>4. /\ d \in Control /\ d.mode = c.mode /\ SameTaps(c, d) /\ SameHold(c, d)
          /\ d.secret_index = n /\ d.secret_first = f /\ d.secret_last = t /\ d.secret_complete = b
      BY <2>1, <2>2 DEF Control, SameTaps, SameHold
    <2> QED BY <2>2, <2>3, <2>4 DEF Secrets
  <1>2. CASE ~(c.secret_index < Len(SECRET) /\ command = SECRET[c.secret_index + 1]) /\ command = SECRET[1]
    <2> DEFINE e == ResetSecret(c)
               n == 1
    <2>1. d = [e EXCEPT !.secret_index = n, !.secret_first = t, !.secret_last = t] BY <1>2 DEF MatchSecret
    <2>2. /\ e \in Control /\ e.mode = c.mode /\ SameTaps(c, e) /\ SameHold(c, e) /\ e.secret_complete = FALSE
      BY ResetSecretFields DEF SameTaps, SameHold
    <2>3. n \in Nat OBVIOUS
    <2>4. SecretRun(g, n, t, t) BY <1>2, SecretRunFirst
    <2> HIDE DEF e, n
    <2>5. /\ d \in Control /\ d.mode = e.mode /\ SameTaps(e, d) /\ SameHold(e, d)
          /\ d.secret_index = n /\ d.secret_first = t /\ d.secret_last = t /\ d.secret_complete = e.secret_complete
      BY <2>1, <2>2, <2>3 DEF Control, SameTaps, SameHold
    <2> QED BY <2>2, <2>4, <2>5 DEF Secrets, SameTaps, SameHold
  <1>3. CASE ~(c.secret_index < Len(SECRET) /\ command = SECRET[c.secret_index + 1]) /\ command # SECRET[1]
    <2>1. d = ResetSecret(c) BY <1>3 DEF MatchSecret
    <2>2. /\ d \in Control /\ d.mode = c.mode /\ SameTaps(c, d) /\ SameHold(c, d)
          /\ d.secret_complete = FALSE /\ d.secret_index = 0
      BY <2>1, ResetSecretFields DEF SameTaps, SameHold
    <2> QED BY <2>2 DEF Secrets, SecretRun
  <1> QED BY <1>1, <1>2, <1>3

(* A press in camera mode and the stop the worker makes up after it. *)
LEMMA CameraPressGesture ==
    ASSUME NEW t \in Nat, NEW c \in Control, c.mode = "camera", ~c.secret_complete, ~c.camera_control_down,
           NEW command \in Int, command # 0,
           NEW h \in Seq(Event), NEW g \in Seq(Event), Longer(g, h, command, t), Secrets(c, h),
           NEW a, a = CameraCommand(c, command, t).c, NEW s, s = CameraCommand(a, 0, t + 1).c
    PROVE  /\ ~s.camera_control_down
           /\ \/ s.mode = "entry" /\ SecretGesture(g, t)
              \/ s.mode = "camera" /\ SameTaps(c, s) /\ SameHold(c, s) /\ Secrets(s, g)
  <1> DEFINE e == ExpireSecret(c, t)
             p == [e EXCEPT !.camera_control_down = TRUE]
  <1>0. /\ e \in Control /\ e.mode = c.mode /\ SameTaps(c, e) /\ SameHold(c, e)
        /\ e.camera_control_down = c.camera_control_down
        /\ \/ e = c /\ ~Expired(c.secret_index, c.secret_first, c.secret_last, t)
           \/ e.secret_index = 0 /\ e.secret_first = 0 /\ e.secret_last = 0 /\ e.secret_complete = FALSE
    BY ExpireSecretFields
  <1>2. Secrets(e, h) BY ExpireForgets
  <1>3. ~e.camera_control_down => a = MatchSecret(p, command, t) BY ResultFacts DEF CameraCommand
  <1> HIDE DEF e
  <1>a. ~e.secret_complete /\ ~e.camera_control_down BY <1>0
  <1>b. e.secret_complete \in BOOLEAN BY <1>0 DEF Control
  <1>c. e.secret_index # 0 => ~Expired(e.secret_index, e.secret_first, e.secret_last, t) BY <1>0
  <1>1. /\ e \in Control /\ e.mode = c.mode /\ SameTaps(c, e) /\ SameHold(c, e)
        /\ e.secret_complete = FALSE
        /\ e.secret_index # 0 => ~Expired(e.secret_index, e.secret_first, e.secret_last, t)
    BY <1>0, <1>a, <1>b, <1>c
  <1>4. /\ p \in Control /\ p.mode = e.mode /\ SameTaps(e, p) /\ SameHold(e, p) /\ SameSecret(e, p)
        /\ p.secret_complete = FALSE
    BY <1>1 DEF Control, SameTaps, SameHold, SameSecret
  <1> HIDE DEF p
  <1>5. p.secret_index # 0 => t - p.secret_last <= GAP
    <2>1. e.secret_last \in Nat BY <1>1 DEF Control
    <2>2. e.secret_index # 0 => ~(t - e.secret_last > GAP) BY <1>1 DEF Expired
    <2> QED BY <1>4, <2>1, <2>2, ControlAssumption DEF SameSecret
  <1>6. Secrets(p, h) BY <1>2, <1>4 DEF Secrets, SameSecret
  <1>7. /\ a \in Control /\ a.mode = p.mode /\ SameTaps(p, a) /\ SameHold(p, a) /\ Secrets(a, g)
        /\ a.secret_complete => a.secret_index = Len(SECRET)
    BY <1>a, <1>3, <1>4, <1>5, <1>6, MatchGesture
  <1>8. a.mode = "camera" /\ SameTaps(c, a) /\ SameHold(c, a) BY <1>1, <1>4, <1>7 DEF SameTaps, SameHold
  <1>9. t + 1 \in Nat OBVIOUS
  <1>10. CASE ~a.secret_complete
    BY <1>7, <1>8, <1>9, <1>10, CameraStopGesture DEF SameTaps, SameHold
  <1>11. CASE a.secret_complete
    <2> DEFINE y == ExpireSecret(a, t + 1)
               r == [y EXCEPT !.camera_control_down = FALSE]
               x == [r EXCEPT !.mode = "entry"]
    <2>1. /\ y \in Control /\ y.mode = a.mode /\ SameTaps(a, y) /\ SameHold(a, y)
          /\ \/ y = a /\ ~Expired(a.secret_index, a.secret_first, a.secret_last, t + 1)
             \/ y.secret_index = 0 /\ y.secret_first = 0 /\ y.secret_last = 0 /\ y.secret_complete = FALSE
      BY <1>7, <1>9, ExpireSecretFields
    <2>2. CameraCommand(a, 0, t + 1) = IF y.secret_complete THEN Result(ResetSecret(x), {"ENTER"}) ELSE Result(r, {})
      BY DEF CameraCommand
    <2> HIDE DEF y
    <2>3. /\ r \in Control /\ r.mode = y.mode /\ SameTaps(y, r) /\ SameHold(y, r) /\ SameSecret(y, r)
          /\ r.camera_control_down = FALSE
      BY <2>1 DEF Control, SameTaps, SameHold, SameSecret
    <2> HIDE DEF r
    <2>4. CASE y.secret_complete
      <3>1. x \in Control /\ x.mode = "entry" /\ x.camera_control_down = FALSE BY <2>3 DEF Control, Modes
      <3>2. s = ResetSecret(x) BY <2>2, <2>4, ResultFacts
      <3> HIDE DEF x
      <3>3. s.mode = "entry" /\ s.camera_control_down = FALSE BY <3>1, <3>2, ResetSecretFields
      <3>4. a.secret_index = Len(SECRET) /\ Len(SECRET) \in Nat \ {0} /\ a.secret_first \in Nat
        <4>1. Len(SECRET) \in Nat \ {0} BY ControlAssumption
        <4>2. a.secret_first \in Nat BY <1>7 DEF Control
        <4>3. a.secret_index = Len(SECRET) BY <1>7, <1>11
        <4> QED BY <4>1, <4>2, <4>3
      <3>5. ~Expired(a.secret_index, a.secret_first, a.secret_last, t + 1) BY <2>1, <2>4
      <3>6. t - a.secret_first <= TOTAL
        <4>1. ~((t + 1) - a.secret_first > TOTAL) BY <3>4, <3>5 DEF Expired
        <4> QED BY <3>4, <4>1, ControlAssumption
      <3>7. SecretGesture(g, t) BY <1>7, <3>4, <3>6, SecretRunDone DEF Secrets
      <3> QED BY <3>3, <3>7
    <2>5. CASE ~y.secret_complete
      <3>1. s = r BY <2>2, <2>5, ResultFacts
      <3>2. r.secret_index = 0 BY <1>11, <2>1, <2>3, <2>5 DEF SameSecret
      <3>3. Secrets(s, g) BY <3>1, <3>2 DEF Secrets, SecretRun
      <3> QED BY <1>8, <2>1, <2>3, <3>1, <3>3 DEF SameTaps, SameHold
    <2> QED BY <2>4, <2>5
  <1> QED BY <1>10, <1>11

(* A command in Doom starts, keeps, ends or completes the hold of Down. *)
LEMMA DoomGesture ==
    ASSUME NEW t \in Nat, NEW c \in Control, c.mode = "doom", NEW command \in Int,
           NEW h \in Seq(Event), NEW g \in Seq(Event), Longer(g, h, command, t), Holds(c, h),
           NEW a, a = DoomCommand(c, command, t).c
    PROVE  /\ a.camera_control_down = c.camera_control_down
           /\ \/ a.mode = "exit" /\ HoldGesture(g, t)
              \/ a.mode = "doom" /\ SameTaps(c, a) /\ SameSecret(c, a) /\ Holds(a, g)
  <1>0. c.exit_down_first \in Nat BY DEF Control
  <1>1. CASE command = 4 /\ c.exit_down
    <2>1. a = c BY <1>1, ResultFacts DEF DoomCommand
    <2>2. Holds(c, g) BY <1>1, HoldRunMore DEF Holds
    <2> QED BY <2>1, <2>2 DEF SameTaps, SameSecret
  <1>2. CASE command = 4 /\ ~c.exit_down
    <2>1. a = [c EXCEPT !.exit_down = TRUE, !.exit_down_first = t] BY <1>2, ResultFacts DEF DoomCommand
    <2>2. /\ a.camera_control_down = c.camera_control_down /\ a.mode = "doom"
          /\ SameTaps(c, a) /\ SameSecret(c, a) /\ a.exit_down_first = t
      BY <2>1 DEF Control, SameTaps, SameSecret
    <2>3. HoldRun(g, t) BY <1>2, HoldRunFirst
    <2> QED BY <2>2, <2>3 DEF Holds
  <1>3. CASE command = 0 /\ c.exit_down /\ Held(c, t)
    <2> DEFINE z == 0
               r == [c EXCEPT !.exit_down = FALSE, !.exit_down_first = z]
    <2>1. a = [r EXCEPT !.mode = "exit"] BY <1>3, ResultFacts DEF DoomCommand
    <2>2. z \in Nat OBVIOUS
    <2> HIDE DEF z
    <2>3. r \in Control /\ r.camera_control_down = c.camera_control_down BY <2>2 DEF Control
    <2> HIDE DEF r
    <2>4. a.mode = "exit" /\ a.camera_control_down = c.camera_control_down BY <2>1, <2>3 DEF Control, Modes
    <2>5. HoldRun(h, c.exit_down_first) /\ t - c.exit_down_first >= HOLD BY <1>3 DEF Holds, Held
    <2>6. Longer(g, h, 0, t) BY <1>3
    <2>7. HoldGesture(g, t) BY <1>0, <2>5, <2>6, HoldRunDone
    <2> QED BY <2>4, <2>7
  <1>4. CASE command # 4 /\ ~(command = 0 /\ c.exit_down /\ Held(c, t))
    <2>1. a = Released(c) \/ (a = c /\ ~c.exit_down) BY <1>4, ResultFacts DEF DoomCommand, Released
    <2>2. CASE a = c /\ ~c.exit_down BY <2>2 DEF SameTaps, SameSecret, Holds
    <2>3. CASE a = Released(c)
      <3> DEFINE z == 0
      <3>1. a = [c EXCEPT !.exit_down = FALSE, !.exit_down_first = z] /\ z \in Nat BY <2>3 DEF Released
      <3> HIDE DEF z
      <3>2. /\ a.camera_control_down = c.camera_control_down /\ a.mode = "doom"
            /\ SameTaps(c, a) /\ SameSecret(c, a) /\ a.exit_down = FALSE
        BY <3>1 DEF Control, SameTaps, SameSecret
      <3> QED BY <3>2 DEF Holds
    <2> QED BY <2>1, <2>2, <2>3
  <1> QED BY <1>1, <1>2, <1>3, <1>4

(* A command during a melt. *)
LEMMA MeltCommandGesture ==
    ASSUME NEW c \in Control, c.mode \in {"entry", "exit"}, NEW command, NEW t,
           NEW a, a = ApplyPtz(c, command, t).c
    PROVE  a.mode = c.mode /\ a.camera_control_down = c.camera_control_down
  <1>1. a = Released(c) \/ a = c BY ResultFacts DEF ApplyPtz, Released
  <1>2. CASE a = Released(c)
    <2> DEFINE z == 0
    <2>1. a = [c EXCEPT !.exit_down = FALSE, !.exit_down_first = z] BY <1>2 DEF Released
    <2> HIDE DEF z
    <2> QED BY <2>1 DEF Control
  <1> QED BY <1>1, <1>2

(* One event, and the stop the worker makes up after a press in camera mode: the
   mode moves on a complete gesture alone, and otherwise the record still counts
   what has happened. *)
LEMMA DrainGesture ==
    ASSUME NEW t \in Nat, NEW c, Rest(c, t), ~c.camera_control_down, c.mode \in {"camera", "doom"},
           NEW command \in Int, NEW h \in Seq(Event), NEW g \in Seq(Event), Longer(g, h, command, t),
           Remembered(c, h), NEW d, d = Drained(c, command, t).c
    PROVE  /\ ~d.camera_control_down /\ Remembered(d, g)
           /\ d.mode # c.mode => \/ TapGesture(g, t)
                                 \/ c.mode = "camera" /\ SecretGesture(g, t)
                                 \/ c.mode = "doom" /\ HoldGesture(g, t)
  <1> DEFINE o == ObserveRaw(c, command, t).c
             a == ApplyPtz(o, command, t).c
  <1>1. /\ c \in Control /\ ~c.secret_complete /\ Taps(c, h) /\ Secrets(c, h) /\ Holds(c, h)
        /\ c.mode = "camera" => ~c.exit_down
        /\ c.mode = "doom" => c.secret_index = 0
    BY DEF Rest, Settled, Sane, Remembered
  <1>2. /\ c.mode = "camera" /\ command # 0 => d = ApplyPtz(a, 0, t + 1).c
        /\ ~(c.mode = "camera" /\ command # 0) => d = a
    BY ResultFacts DEF Drained
  <1>3. /\ Settled(o, t)
        /\ command # 0 => o.stop_only_index = 0 /\ o.mode = c.mode
    BY ObserveRawFacts
  <1>4. \/ command = 0 /\ o.mode \in {"entry", "exit"} /\ ~o.camera_control_down /\ TapGesture(g, t)
        \/ TapsOnly(c, o) /\ Taps(o, g)
    BY <1>1, ObserveGesture
  <1> HIDE DEF o
  <1>5. o \in Control /\ Sane(o, t) /\ ~o.secret_complete BY <1>3 DEF Settled, Sane
  <1>6. CASE command = 0 /\ o.mode \in {"entry", "exit"} /\ ~o.camera_control_down /\ TapGesture(g, t)
    <2>1. a.mode = o.mode /\ a.camera_control_down = o.camera_control_down BY <1>5, <1>6, MeltCommandGesture
    <2> HIDE DEF a
    <2> QED BY <1>2, <1>6, <2>1 DEF Remembered
  <1>7. CASE TapsOnly(c, o) /\ Taps(o, g) /\ c.mode = "camera" /\ command # 0
    <2>1. /\ o.mode = "camera" /\ ~o.camera_control_down /\ Secrets(o, h) /\ ~o.exit_down
      BY <1>1, <1>7 DEF TapsOnly, SameSecret, SameHold, Secrets
    <2>2. a = CameraCommand(o, command, t).c BY <2>1 DEF ApplyPtz
    <2>3. a.mode = "camera"
      BY <1>3, <1>5, <1>7, <2>1, <2>2, CameraPressFacts
    <2> HIDE DEF a
    <2>4. d = CameraCommand(a, 0, t + 1).c BY <1>2, <1>7, <2>3 DEF ApplyPtz
    <2>5. /\ ~d.camera_control_down
          /\ \/ d.mode = "entry" /\ SecretGesture(g, t)
             \/ d.mode = "camera" /\ SameTaps(o, d) /\ SameHold(o, d) /\ Secrets(d, g)
      BY <1>5, <1>7, <2>1, <2>2, <2>4, CameraPressGesture
    <2>6. CASE d.mode = "entry" /\ SecretGesture(g, t) BY <1>7, <2>5, <2>6 DEF Remembered
    <2>7. CASE d.mode = "camera" /\ SameTaps(o, d) /\ SameHold(o, d) /\ Secrets(d, g)
      <3>1. Taps(d, g) BY <1>7, <2>7 DEF Taps, SameTaps
      <3>2. Holds(d, g) BY <2>1, <2>7 DEF Holds, SameHold
      <3> QED BY <1>7, <2>5, <2>7, <3>1, <3>2 DEF Remembered
    <2> QED BY <2>5, <2>6, <2>7
  <1>8. CASE TapsOnly(c, o) /\ Taps(o, g) /\ c.mode = "camera" /\ command = 0
    <2>1. /\ o.mode = "camera" /\ Secrets(o, h) /\ ~o.exit_down /\ Longer(g, h, 0, t)
      BY <1>1, <1>8 DEF TapsOnly, SameSecret, SameHold, Secrets
    <2>2. o.secret_index \in Nat BY <1>5 DEF Control
    <2>3. Secrets(o, g) BY <2>1, <2>2, SecretRunStop DEF Secrets
    <2>4. a = CameraCommand(o, 0, t).c BY <1>8, <2>1 DEF ApplyPtz
    <2> HIDE DEF a
    <2>5. d = a BY <1>2, <1>8
    <2>6. d.mode = o.mode /\ SameTaps(o, d) /\ SameHold(o, d) /\ ~d.camera_control_down /\ Secrets(d, g)
      BY <1>5, <2>3, <2>4, <2>5, CameraStopGesture
    <2>7. Taps(d, g) BY <1>8, <2>6 DEF Taps, SameTaps
    <2>8. Holds(d, g) BY <2>1, <2>6 DEF Holds, SameHold
    <2> QED BY <1>8, <2>1, <2>6, <2>7, <2>8 DEF Remembered
  <1>9. CASE TapsOnly(c, o) /\ Taps(o, g) /\ c.mode = "doom"
    <2>1. /\ o.mode = "doom" /\ Holds(o, h) /\ o.secret_index = 0 /\ ~o.camera_control_down
      BY <1>1, <1>9 DEF TapsOnly, SameSecret, SameHold, Holds
    <2>2. a = DoomCommand(o, command, t).c BY <2>1 DEF ApplyPtz
    <2> HIDE DEF a
    <2>3. d = a BY <1>2, <1>9
    <2>4. /\ d.camera_control_down = o.camera_control_down
          /\ \/ d.mode = "exit" /\ HoldGesture(g, t)
             \/ d.mode = "doom" /\ SameTaps(o, d) /\ SameSecret(o, d) /\ Holds(d, g)
      BY <1>5, <2>1, <2>2, <2>3, DoomGesture
    <2>5. CASE d.mode = "exit" /\ HoldGesture(g, t) BY <1>9, <2>1, <2>4, <2>5 DEF Remembered
    <2>6. CASE d.mode = "doom" /\ SameTaps(o, d) /\ SameSecret(o, d) /\ Holds(d, g)
      <3>1. Taps(d, g) BY <1>9, <2>6 DEF Taps, SameTaps
      <3>2. Secrets(d, g) BY <2>1, <2>6 DEF Secrets, SameSecret, SecretRun
      <3> QED BY <1>9, <2>1, <2>4, <2>6, <3>1, <3>2 DEF Remembered
    <2> QED BY <2>4, <2>5, <2>6
  <1> QED BY <1>4, <1>6, <1>7, <1>8, <1>9

(* During a melt an event moves nothing. *)
LEMMA DrainMelt ==
    ASSUME NEW t \in Nat, NEW c, Rest(c, t), ~c.camera_control_down, c.mode \in {"entry", "exit"},
           NEW command, NEW d, d = Drained(c, command, t).c
    PROVE  ~d.camera_control_down /\ d.mode = c.mode
  <1> DEFINE o == ObserveRaw(c, command, t).c
             a == ApplyPtz(o, command, t).c
  <1>1. c \in Control BY DEF Rest, Settled, Sane
  <1>2. d = a BY ResultFacts DEF Drained
  <1>3. o = Raw(c, FALSE) BY ResultFacts DEF ObserveRaw, Raw
  <1>4. Settled(o, t) BY ObserveRawFacts
  <1> HIDE DEF o
  <1>5. o \in Control BY <1>4 DEF Settled, Sane
  <1>6. o.mode = c.mode /\ o.camera_control_down = c.camera_control_down BY <1>1, <1>3, RawFields DEF TapsOnly
  <1>7. a.mode = o.mode /\ a.camera_control_down = o.camera_control_down BY <1>5, <1>6, MeltCommandGesture
  <1> QED BY <1>2, <1>6, <1>7

(* A tick forgets what has expired, and leaves Doom only while Down is held. *)
LEMMA TickGesture ==
    ASSUME NEW t \in Nat, NEW c, Rest(c, t), ~c.camera_control_down, NEW h \in Seq(Event), Remembered(c, h),
           NEW r, r = Tick(c, t)
    PROVE  /\ ~r.c.camera_control_down /\ Remembered(r.c, h)
           /\ "EXIT" \in r.acts => HoldGesture(h, t)
  <1> DEFINE b == IF c.mode = "camera" THEN ExpireSecret(c, t) ELSE c
             d == IF c.mode \in {"camera", "doom"} THEN ExpireStopOnly(b, t) ELSE b
  <1>0. c \in Control BY DEF Rest, Settled, Sane
  <1>1. r = IF d.mode = "doom" /\ d.exit_down /\ Held(d, t)
            THEN Result([d EXCEPT !.mode = "exit"], {"EXIT"}) ELSE Result(d, {})
    BY DEF Tick
  <1>2. /\ b \in Control /\ b.mode = c.mode /\ SameTaps(c, b) /\ SameHold(c, b)
        /\ b.camera_control_down = c.camera_control_down
        /\ Secrets(c, h) => Secrets(b, h)
    BY <1>0, ExpireSecretFields, ExpireForgets DEF SameTaps, SameHold
  <1> HIDE DEF b
  <1>3. /\ d \in Control /\ TapsOnly(b, d)
        /\ Taps(b, h) => Taps(d, h)
    BY <1>2, ExpireStopOnlyFields, ExpireForgets DEF TapsOnly, SameSecret, SameHold
  <1> HIDE DEF d
  <1>4. d.mode = c.mode /\ ~d.camera_control_down BY <1>2, <1>3 DEF TapsOnly
  <1>5. Remembered(d, h)
    <2> SUFFICES ASSUME d.mode \in {"camera", "doom"} PROVE Taps(d, h) /\ Secrets(d, h) /\ Holds(d, h)
      BY DEF Remembered
    <2>1. Taps(c, h) /\ Secrets(c, h) /\ Holds(c, h) BY <1>4 DEF Remembered
    <2>2. Taps(b, h) BY <1>2, <2>1 DEF Taps, SameTaps
    <2>3. Secrets(d, h) BY <1>2, <1>3, <2>1 DEF Secrets, TapsOnly, SameSecret
    <2>4. Holds(d, h) BY <1>2, <1>3, <2>1 DEF Holds, TapsOnly, SameHold
    <2> QED BY <1>3, <2>2, <2>3, <2>4
  <1>6. CASE d.mode = "doom" /\ d.exit_down /\ Held(d, t)
    <2> DEFINE z == 0
               g == Append(h, Happened(z, t))
    <2>1. r.c = [d EXCEPT !.mode = "exit"] BY <1>1, <1>6, ResultFacts
    <2>2. r.c.mode = "exit" /\ r.c.camera_control_down = d.camera_control_down BY <1>3, <2>1 DEF Control
    <2>a. z \in Int OBVIOUS
    <2> HIDE DEF z
    <2>3. Longer(g, h, z, t) BY <2>a, AppendEvent
    <2>4. HoldRun(h, d.exit_down_first) /\ t - d.exit_down_first >= HOLD BY <1>5, <1>6 DEF Remembered, Holds, Held
    <2>5. d.exit_down_first \in Nat BY <1>3 DEF Control
    <2> HIDE DEF g
    <2>6. HoldGesture(h, t) BY <2>3, <2>4, <2>5, HoldRunDone DEF z
    <2> QED BY <1>4, <2>2, <2>6 DEF Remembered
  <1>7. CASE ~(d.mode = "doom" /\ d.exit_down /\ Held(d, t))
    <2>1. r.c = d /\ r.acts = {} BY <1>1, <1>7, ResultFacts
    <2> QED BY <1>4, <1>5, <2>1
  <1> QED BY <1>6, <1>7

(* Nothing counted, nothing seen. *)
LEMMA FreshGesture ==
    ASSUME NEW c \in Control, c.stop_only_index = 0, c.secret_index = 0, ~c.exit_down
    PROVE  Remembered(c, <<>>)
  <1>1. TapRun(<<>>, 0, c.raw_direction, c.stop_only_first, c.stop_only_last) BY DEF TapRun
  <1> QED BY <1>1 DEF Remembered, Taps, Secrets, SecretRun, Holds

LEMMA ClearedGesture == Cleared \in Control /\ ~Cleared.camera_control_down /\ Remembered(Cleared, <<>>)
  <1>1. /\ Cleared \in Control /\ ~Cleared.camera_control_down
        /\ Cleared.stop_only_index = 0 /\ Cleared.secret_index = 0 /\ ~Cleared.exit_down
    BY DEF Cleared, Control, Modes
  <1> QED BY <1>1, FreshGesture

-----------------------------------------------------------------------------
(* The history of the pass. *)

(* What the recogniser counts is what has happened since the last melt or reset,
   and no press waits for its stop between two events. *)
HistInv ==
    /\ hist \in Seq(Event)
    /\ ~control.camera_control_down
    /\ Remembered(control, hist)

LEMMA InitHist == Init => HistInv
  <1>1. <<>> \in Seq(Event) OBVIOUS
  <1> QED BY <1>1, ClearedGesture DEF Init, HistInv

LEMMA CommandHist ==
    ASSUME HistInv, NEW stale, NEW command, Command(stale, command)
    PROVE  HistInv'
  <1>1. /\ control' = IF command = "ptz-camera" THEN Cleared ELSE control
        /\ hist' = IF command = "ptz-camera" THEN <<>> ELSE hist
    BY DEF Command
  <1>2. <<>> \in Seq(Event) OBVIOUS
  <1>3. CASE command = "ptz-camera" BY <1>1, <1>2, <1>3, ClearedGesture DEF HistInv
  <1>4. CASE command # "ptz-camera" BY <1>1, <1>4 DEF HistInv
  <1> QED BY <1>3, <1>4

LEMMA RequestsHist ==
    ASSUME IInv, HistInv, NEW start \in BOOLEAN, NEW camera \in BOOLEAN, DashboardRequests(start, camera)
    PROVE  HistInv'
  <1> DEFINE e == IF start THEN RequestEnter(control) ELSE Result(control, {})
             x == IF camera THEN RequestExit(e.c) ELSE Result(e.c, {})
  <1>1. control' = x.c /\ hist' = hist BY DEF DashboardRequests
  <1>2. now \in Nat /\ Settled(control, now) /\ control \in Control BY DEF IInv, TypeOK, Rest, Settled, Sane
  <1>3. e.c = control \/ (e.c.mode = "entry" /\ ~e.c.camera_control_down) BY <1>2, RequestModes, ResultFacts
  <1>4. e.c \in Control
    <2>1. CASE start
      <3>1. Settled(e.c, now) BY <1>2, <2>1, RequestEnterFacts
      <3> QED BY <3>1 DEF Settled, Sane
    <2>2. CASE ~start BY <1>2, <2>2, ResultFacts
    <2> QED BY <2>1, <2>2
  <1> HIDE DEF e
  <1>5. x.c = e.c \/ (x.c.mode = "exit" /\ ~x.c.camera_control_down) BY <1>4, RequestModes, ResultFacts
  <1> HIDE DEF x
  <1>6. control' = control \/ (control'.mode \in {"entry", "exit"} /\ ~control'.camera_control_down)
    BY <1>1, <1>3, <1>5
  <1> QED BY <1>1, <1>6 DEF HistInv, Remembered

LEMMA DrainHist ==
    ASSUME IInv, HistInv, NEW command \in COMMANDS, DrainEvent(command)
    PROVE  /\ HistInv'
           /\ control'.mode # control.mode =>
                \/ TapGesture(hist', now)
                \/ control.mode = "camera" /\ SecretGesture(hist', now)
                \/ control.mode = "doom" /\ HoldGesture(hist', now)
  <1> DEFINE h == IF control.mode \in {"entry", "exit"} THEN <<>> ELSE hist
             d == Drained(control, command, now).c
  <1>1. control' = d BY ResultFacts DEF DrainEvent, Drained
  <1>2. hist' = Append(h, Happened(command, now)) BY DEF DrainEvent, Happened
  <1>3. now \in Nat /\ Rest(control, now) /\ control.mode \in Modes BY DEF IInv, TypeOK
  <1>4. command \in Int BY ControlAssumption
  <1>5. h \in Seq(Event) BY DEF HistInv
  <1>6. control.mode \in {"camera", "doom"} => Remembered(control, h) BY DEF HistInv
  <1> HIDE DEF h
  <1>7. hist' \in Seq(Event) /\ Longer(hist', h, command, now) BY <1>2, <1>3, <1>4, <1>5, AppendEvent
  <1> HIDE DEF d
  <1>8. ~control.camera_control_down BY DEF HistInv
  <1>9. CASE control.mode \in {"camera", "doom"}
    <2>1. /\ ~d.camera_control_down /\ Remembered(d, hist')
          /\ d.mode # control.mode => \/ TapGesture(hist', now)
                                      \/ control.mode = "camera" /\ SecretGesture(hist', now)
                                      \/ control.mode = "doom" /\ HoldGesture(hist', now)
      BY <1>3, <1>4, <1>5, <1>6, <1>7, <1>8, <1>9, DrainGesture DEF d
    <2> QED BY <1>1, <1>7, <2>1 DEF HistInv
  <1>10. CASE control.mode \in {"entry", "exit"}
    <2>1. ~d.camera_control_down /\ d.mode = control.mode BY <1>3, <1>8, <1>10, DrainMelt DEF d
    <2> QED BY <1>1, <1>7, <1>10, <2>1 DEF HistInv, Remembered
  <1> QED BY <1>3, <1>9, <1>10 DEF Modes

LEMMA BeginMeltHist ==
    ASSUME IInv, HistInv, NEW ready \in BOOLEAN, NEW begun \in BOOLEAN, BeginMelt(ready, begun)
    PROVE  HistInv' /\ ("EXIT" \in actions' \ actions => HoldGesture(hist, now))
  <1> DEFINE d == Deferred(ready)
             t == Tick(d.c, now)
             acts == d.acts \cup t.acts
             h == IF "ENTER" \in actions /\ ~ready THEN <<>> ELSE hist
  <1>1. /\ pc = "drain" /\ actions' = acts
        /\ control' = IF acts \cap {"ENTER", "EXIT"} = {} \/ begun THEN t.c
                      ELSE IF "EXIT" \in acts THEN Cleared
                      ELSE [t.c EXCEPT !.mode = "camera"]
        /\ hist' = IF (actions \cup acts) \cap {"ENTER", "EXIT"} # {} THEN <<>> ELSE hist
    BY DEF BeginMelt
  <1>2. now \in Nat /\ Rest(control, now) /\ Agree(control, actions, live, melt, apart)
    BY <1>1 DEF IInv, TypeOK
  <1>3. /\ Rest(d.c, now) /\ ~d.c.camera_control_down /\ Remembered(d.c, h) /\ h \in Seq(Event)
        /\ Agree(d.c, d.acts, live, melt, apart) /\ d.acts \subseteq actions
        /\ (h = hist /\ d.acts = actions) \/ (d.c.mode = "camera" /\ h = <<>> /\ "ENTER" \in actions)
    <2>1. CASE "ENTER" \in actions /\ ~ready
      <3>1. d.c = Cleared /\ d.acts = actions \ {"ENTER"} /\ h = <<>> BY <2>1, ResultFacts DEF Deferred
      <3>2. <<>> \in Seq(Event) OBVIOUS
      <3> HIDE DEF d, h
      <3> QED BY <1>2, <2>1, <3>1, <3>2, ClearedFacts, ClearedGesture DEF Agree
    <2>2. CASE ~("ENTER" \in actions /\ ~ready)
      <3>1. d.c = control /\ d.acts = actions /\ h = hist BY <2>2, ResultFacts DEF Deferred
      <3> HIDE DEF d, h
      <3> QED BY <1>2, <3>1 DEF HistInv
    <2> QED BY <2>1, <2>2
  <1> HIDE DEF d, h
  <1>4. Rest(t.c, now) /\ Moves(d.c, t.c, t.acts) BY <1>2, <1>3, TickFacts
  <1>5. /\ ~t.c.camera_control_down /\ Remembered(t.c, h)
        /\ "EXIT" \in t.acts => HoldGesture(h, now)
    BY <1>2, <1>3, TickGesture
  <1> HIDE DEF t
  <1>6. Agree(t.c, acts, live, melt, apart) BY <1>3, <1>4, AgreeMoves
  <1>7. "EXIT" \in actions' \ actions => HoldGesture(hist, now)
    <2> SUFFICES ASSUME "EXIT" \in actions' \ actions PROVE HoldGesture(hist, now) OBVIOUS
    <2>1. "EXIT" \in t.acts BY <1>1, <1>3
    <2>2. d.c.mode # "camera" BY <1>4, <2>1 DEF Moves
    <2> QED BY <1>3, <1>5, <2>1, <2>2
  <1> HIDE DEF acts
  <1>8. HistInv'
    <2>1. CASE acts \cap {"ENTER", "EXIT"} = {}
      <3>1. control' = t.c BY <1>1, <2>1
      <3>2. hist' = h
        <4>1. CASE h = hist /\ d.acts = actions BY <1>1, <2>1, <4>1 DEF acts
        <4>2. CASE h = <<>> /\ "ENTER" \in actions BY <1>1, <4>2
        <4> QED BY <1>3, <4>1, <4>2
      <3> QED BY <1>3, <1>5, <3>1, <3>2 DEF HistInv
    <2>2. CASE acts \cap {"ENTER", "EXIT"} # {}
      <3>1. hist' = <<>> /\ hist' \in Seq(Event) BY <1>1, <2>2
      <3>2. CASE begun
        <4>1. control' = t.c BY <1>1, <3>2
        <4>2. t.c.mode \in {"entry", "exit"} BY <1>6, <2>2 DEF Agree
        <4> QED BY <1>5, <3>1, <4>1, <4>2 DEF HistInv, Remembered
      <3>3. CASE ~begun /\ "EXIT" \in acts
        <4>1. control' = Cleared BY <1>1, <2>2, <3>3
        <4> QED BY <3>1, <4>1, ClearedGesture DEF HistInv
      <3>4. CASE ~begun /\ "EXIT" \notin acts
        <4>1. control' = [t.c EXCEPT !.mode = "camera"] /\ t.c.mode = "entry" BY <1>1, <1>6, <2>2, <3>4 DEF Agree
        <4>2. t.c \in Control /\ t.c.stop_only_index = 0 /\ t.c.secret_index = 0 /\ ~t.c.exit_down
          BY <1>4, <4>1 DEF Rest, Settled, Sane
        <4>3. /\ control' \in Control /\ control'.stop_only_index = t.c.stop_only_index
              /\ control'.secret_index = t.c.secret_index /\ control'.exit_down = t.c.exit_down
              /\ control'.camera_control_down = t.c.camera_control_down
          BY <4>1, <4>2 DEF Control, Modes
        <4>4. Remembered(control', <<>>) BY <4>2, <4>3, FreshGesture
        <4> QED BY <1>5, <3>1, <4>3, <4>4 DEF HistInv
      <3> QED BY <3>2, <3>3, <3>4
    <2> QED BY <2>1, <2>2
  <1> QED BY <1>7, <1>8

LEMMA PresentHist ==
    ASSUME IInv, HistInv, NEW done \in BOOLEAN, NEW fails \in BOOLEAN, NEW t \in now .. MAX_TIME,
           Present(done, fails, t)
    PROVE  HistInv'
  <1>1. /\ done => ~fails /\ control.mode \in {"entry", "exit"}
        /\ control' = CASE fails -> Cleared
                        [] done /\ control.mode = "entry" -> [control EXCEPT !.mode = "doom"]
                        [] done /\ control.mode = "exit" -> ExitComplete(control)
                        [] OTHER -> control
        /\ hist' = IF fails \/ done THEN <<>> ELSE hist
    BY DEF Present
  <1>2. now \in Nat /\ Rest(control, now) /\ control \in Control BY DEF IInv, TypeOK, Rest, Settled, Sane
  <1>3. <<>> \in Seq(Event) OBVIOUS
  <1>4. CASE fails
    <2>1. control' = Cleared /\ hist' = <<>> BY <1>1, <1>4
    <2> QED BY <1>1, <1>3, <1>4, <2>1, ClearedGesture DEF HistInv
  <1>5. CASE ~fails /\ done /\ control.mode = "entry"
    <2>1. control' = [control EXCEPT !.mode = "doom"] BY <1>1, <1>5
    <2>2. control.stop_only_index = 0 /\ control.secret_index = 0 /\ ~control.exit_down
      BY <1>2, <1>5 DEF Rest, Settled, Sane
    <2>3. /\ control' \in Control /\ control'.mode = "doom"
          /\ control'.stop_only_index = control.stop_only_index
          /\ control'.secret_index = control.secret_index /\ control'.exit_down = control.exit_down
          /\ control'.camera_control_down = control.camera_control_down
      BY <1>2, <2>1 DEF Control, Modes
    <2>4. Remembered(control', <<>>) BY <2>2, <2>3, FreshGesture
    <2> QED BY <1>1, <1>3, <1>5, <2>3, <2>4 DEF HistInv
  <1>6. CASE ~fails /\ done /\ control.mode = "exit"
    <2> DEFINE z == 0
               b == [control EXCEPT !.mode = "camera", !.camera_control_down = FALSE, !.raw_direction = FALSE,
                                    !.exit_down = FALSE, !.exit_down_first = z]
               e == ResetSecret(b)
    <2>1. control' = ResetStopOnly(e) BY <1>1, <1>6 DEF ExitComplete
    <2>2. z \in Nat OBVIOUS
    <2> HIDE DEF z
    <2>3. b \in Control /\ b.mode = "camera" /\ b.camera_control_down = FALSE /\ b.exit_down = FALSE
      BY <1>2, <2>2 DEF Control, Modes
    <2> HIDE DEF b
    <2>4. /\ e \in Control /\ e.mode = "camera" /\ e.camera_control_down = FALSE /\ e.exit_down = FALSE
          /\ e.secret_index = 0
      BY <2>3, ResetSecretFields
    <2> HIDE DEF e
    <2>5. /\ control' \in Control /\ control'.mode = "camera" /\ control'.camera_control_down = FALSE
          /\ control'.exit_down = FALSE /\ control'.secret_index = 0 /\ control'.stop_only_index = 0
      BY <2>1, <2>4, ResetStopOnlyFields
    <2>6. Remembered(control', <<>>) BY <2>5, FreshGesture
    <2> QED BY <1>1, <1>3, <1>6, <2>5, <2>6 DEF HistInv
  <1>7. CASE ~fails /\ ~done
    <2>1. control' = control /\ hist' = hist BY <1>1, <1>7
    <2> QED BY <2>1 DEF HistInv
  <1> QED BY <1>1, <1>4, <1>5, <1>6, <1>7

(* What the record of the recogniser counts is what the history since the last
   melt or reset says, at every point of the pass. *)
THEOREM HistoryRemembered == Spec => []HistInv
  <1>1. IInv /\ HistInv /\ [Next]_vars => HistInv'
    <2> SUFFICES ASSUME IInv, HistInv, [Next]_vars PROVE HistInv' OBVIOUS
    <2>1. CASE \E start, camera \in BOOLEAN : DashboardRequests(start, camera) BY <2>1, RequestsHist
    <2>2. CASE \E command \in COMMANDS : DrainEvent(command) BY <2>2, DrainHist
    <2>3. CASE \E ready, begun \in BOOLEAN : BeginMelt(ready, begun) BY <2>3, BeginMeltHist
    <2>4. CASE \E done, fails \in BOOLEAN, t \in now .. MAX_TIME : Present(done, fails, t) BY <2>4, PresentHist
    <2>5. CASE \E stale \in BOOLEAN, command \in {"none", "stop", "ptz-camera"} : Command(stale, command)
      BY <2>5, CommandHist
    <2>6. CASE UNCHANGED vars
      <3>1. control' = control /\ hist' = hist BY <2>6 DEF vars
      <3> QED BY <3>1 DEF HistInv
    <2> QED BY <2>1, <2>2, <2>3, <2>4, <2>5, <2>6 DEF Next
  <1> QED BY Inductive, InitHist, <1>1, PTL DEF Spec

(* Nothing short of a complete gesture moves the mode (OnlyGestures): an event
   enters Doom only on the secret or the stop-only taps and leaves it only on
   the taps or a held Down, and a tick leaves it only for Down still held - for
   every secret, tap count and deadline, however many events, requests, melts
   and resets lie in between. *)
THEOREM OnlyGesturesHold == Spec => OnlyGestures
  <1> DEFINE Step == pc = "drain" =>
               /\ (events' # events /\ control'.mode # control.mode) =>
                    \/ TapGesture(hist', now)
                    \/ control.mode = "camera" /\ SecretGesture(hist', now)
                    \/ control.mode = "doom" /\ HoldGesture(hist', now)
               /\ (events' = events /\ "EXIT" \in actions' \ actions) => HoldGesture(hist, now)
  <1>1. IInv /\ HistInv /\ [Next]_vars => [Step]_vars
    <2> SUFFICES ASSUME IInv, HistInv, Next PROVE Step OBVIOUS
    <2>1. CASE \E start, camera \in BOOLEAN : DashboardRequests(start, camera)
      BY <2>1 DEF DashboardRequests
    <2>2. CASE \E command \in COMMANDS : DrainEvent(command)
      <3>1. PICK command \in COMMANDS : DrainEvent(command) BY <2>2
      <3>2. events \in Nat /\ events' = events + 1 BY <3>1 DEF DrainEvent, IInv, TypeOK
      <3> QED BY <3>1, <3>2, DrainHist
    <2>3. CASE \E ready, begun \in BOOLEAN : BeginMelt(ready, begun)
      <3>1. PICK ready \in BOOLEAN, begun \in BOOLEAN : BeginMelt(ready, begun) BY <2>3
      <3>2. events' = events BY <3>1 DEF BeginMelt
      <3> QED BY <3>1, <3>2, BeginMeltHist
    <2>4. CASE \E done, fails \in BOOLEAN, t \in now .. MAX_TIME : Present(done, fails, t)
      BY <2>4 DEF Present
    <2>5. CASE \E stale \in BOOLEAN, command \in {"none", "stop", "ptz-camera"} : Command(stale, command)
      BY <2>5 DEF Command
    <2> QED BY <2>1, <2>2, <2>3, <2>4, <2>5 DEF Next
  <1> QED BY Inductive, HistoryRemembered, <1>1, PTL DEF Spec, OnlyGestures
=============================================================================
