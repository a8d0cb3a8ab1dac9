----------------------------- MODULE KeysProofs -----------------------------
(***************************************************************************)
(* For any set of codes, any table, socket and time bounds: the controller, *)
(* the socket and the game keep their types; whatever is held is under the  *)
(* dead-man; and what the game will have down is what the browser holds.    *)
(* The second needs what the two times of a pass have to do with each       *)
(* other: asleep, the activity is at most the dead-man's time older than    *)
(* the pass that looked at it; polling, a whole pass more.  The third needs *)
(* what a pending release leaves true: nothing is down that nobody holds,   *)
(* and one game leaves the next nothing that is not about to be released.   *)
(***************************************************************************)
EXTENDS Keys, FiniteSetTheorems, TLAPS

(* The controller's own state. *)
ControllerOK ==
    /\ cpc \in {"sleep", "poll", "stopped"} /\ http_held \subseteq CODES
    /\ age \in NONE .. OldEnough + PASS /\ lag \in 0 .. PASS /\ release \in BOOLEAN

(* How old the activity may be while something is held. *)
InTime == http_held # {} =>
    /\ cpc # "stopped"
    /\ age \in 0 .. DEADMAN + lag + (IF cpc = "poll" THEN PASS ELSE 0)

USE KeysAssumption DEF vars, controller, ptz, NONE

(* The controller begins with nothing held. *)
LEMMA KeysControllerInit == Init => ControllerOK /\ InTime
<1> SUFFICES ASSUME Init PROVE ControllerOK /\ InTime
  OBVIOUS
<1>1. release \in BOOLEAN
  BY DEF Init
<1>2. cpc = "sleep" /\ http_held = {} /\ age = NONE /\ lag = 0
  BY DEF Init
<1> QED
  BY <1>1, <1>2 DEF ControllerOK, InTime, OldEnough

(* Every step keeps the controller's types, and the activity in time. *)
LEMMA KeysControllerStep == ControllerOK /\ InTime /\ [Next]_vars => ControllerOK' /\ InTime'
<1> SUFFICES ASSUME ControllerOK, InTime, [Next]_vars PROVE ControllerOK' /\ InTime'
  OBVIOUS
<1> USE DEF ControllerOK, InTime, OldEnough
<1>1. ASSUME PassBegins PROVE ControllerOK' /\ InTime'
  BY <1>1 DEF PassBegins
<1>2. ASSUME NEW c \in CODES, Down(c) PROVE ControllerOK' /\ InTime'
  BY <1>2 DEF Down, Serving, Served, HasSlot
<1>3. ASSUME NEW c \in CODES, Up(c) PROVE ControllerOK' /\ InTime'
  BY <1>3 DEF Up, Serving, Served, HasSlot
<1>4. ASSUME Heartbeat PROVE ControllerOK' /\ InTime'
  BY <1>4 DEF Heartbeat, Serving, Served
<1>5. ASSUME ReleaseRequest PROVE ControllerOK' /\ InTime'
  BY <1>5 DEF ReleaseRequest, Serving, Served, ReleaseAll
<1>6. ASSUME PassEnds PROVE ControllerOK' /\ InTime'
  <2>1. cpc' = "sleep" /\ lag' = lag
    BY <1>6 DEF PassEnds
  <2>2. release' \in BOOLEAN
    BY <1>6 DEF PassEnds
  <2>3. \/ http_held' = {} /\ age' = NONE
        \/ http_held' = http_held /\ age' = age /\ (age = NONE \/ ~Expired(age))
    BY <1>6 DEF PassEnds, ReleaseAll
  <2>4. ControllerOK'
    <3>1. http_held' \subseteq CODES /\ age' \in {NONE, age}
      BY <2>3
    <3>2. age' \in NONE .. OldEnough + PASS
      BY <3>1
    <3> QED
      BY <2>1, <2>2, <3>1, <3>2
  <2>5. ASSUME http_held' # {} PROVE age' \in 0 .. DEADMAN + lag'
    <3>1. age \in 0 .. OldEnough + PASS /\ ~Expired(age) /\ age' = age /\ lag' = lag /\ lag \in Nat
      BY <2>1, <2>3, <2>5
    <3> QED
      BY <3>1 DEF Expired
  <2> QED
    BY <2>1, <2>4, <2>5
<1>7. ASSUME ControllerStops PROVE ControllerOK' /\ InTime'
  <2>1. cpc' = "stopped" /\ http_held' = {} /\ age' = NONE /\ lag' = 0
    BY <1>7 DEF ControllerStops, ReleaseAll
  <2>2. release' \in BOOLEAN
    BY <1>7 DEF ControllerStops
  <2> QED
    BY <2>1, <2>2
<1>8. ASSUME Receive PROVE ControllerOK' /\ InTime'
  BY <1>8 DEF Receive
<1>9. ASSUME Expire PROVE ControllerOK' /\ InTime'
  BY <1>9 DEF Expire, SetHeld
<1>10. ASSUME StartGame PROVE ControllerOK' /\ InTime'
  BY <1>10 DEF StartGame
<1>11. ASSUME ModeMoves PROVE ControllerOK' /\ InTime'
  BY <1>11 DEF ModeMoves
<1>12. ASSUME SignalRelease PROVE ControllerOK' /\ InTime'
  BY <1>12 DEF SignalRelease
<1>13. ASSUME ReapGame PROVE ControllerOK' /\ InTime'
  BY <1>13 DEF ReapGame
<1>14. ASSUME GameDies PROVE ControllerOK' /\ InTime'
  BY <1>14 DEF GameDies
<1>15. ASSUME NEW command \in COMMANDS, PtzCommand(command) PROVE ControllerOK' /\ InTime'
  BY <1>15 DEF PtzCommand
<1>16. ASSUME PlayersGone PROVE ControllerOK' /\ InTime'
  BY <1>16 DEF PlayersGone
<1>17. ASSUME Tick PROVE ControllerOK' /\ InTime'
  BY <1>17 DEF Tick, Older
<1>18. CASE UNCHANGED vars
  BY <1>18
<1> QED
  BY <1>1, <1>2, <1>3, <1>4, <1>5, <1>6, <1>7, <1>8, <1>9, <1>10, <1>11, <1>12, <1>13, <1>14, <1>15, <1>16, <1>17, <1>18
  DEF Next, Requests, Controller, Game, Runtime

(* Whatever is held, the dead-man is armed for it and not overdue by more than two
   passes of the controller's loop. *)
THEOREM KeysGuarded == Spec => []Guarded
<1>1. Init => ControllerOK /\ InTime
  BY KeysControllerInit
<1>2. ControllerOK /\ InTime => Guarded
  BY DEF ControllerOK, InTime, Guarded
<1> QED
  BY <1>1, <1>2, KeysControllerStep, PTL DEF Spec

(* The game's socket. *)
SocketOK == queue \in Seq(Datagrams) /\ Len(queue) <= QUEUE /\ lost \in BOOLEAN

(* A key datagram keeps the socket within its size, sent or lost. *)
LEMMA KeysPost ==
  ASSUME SocketOK, NEW c \in CODES, NEW d \in BOOLEAN, PostKey(KeyOf[c], d) PROVE SocketOK'
<1>1. [key |-> KeyOf[c], down |-> d] \in Datagrams
  BY DEF Datagrams
<1>2. CASE Room(1)
  <2>1. queue' = Append(queue, [key |-> KeyOf[c], down |-> d]) /\ Len(queue) + 1 <= QUEUE
    BY <1>2 DEF PostKey, Room
  <2>2. lost' \in BOOLEAN
    BY <1>2 DEF PostKey, SocketOK
  <2> QED
    BY <1>1, <2>1, <2>2 DEF SocketOK
<1>3. CASE ~Room(1)
  <2>1. lost' \in BOOLEAN
    BY <1>3 DEF PostKey
  <2>2. queue' = queue
    BY <1>3 DEF PostKey
  <2> QED
    BY <2>1, <2>2 DEF SocketOK
<1> QED
  BY <1>2, <1>3

(* So does the release of everything that is held, one datagram for every key. *)
LEMMA KeysRelease ==
  ASSUME SocketOK, http_held \subseteq CODES, ReleaseAll PROVE SocketOK'
<1> DEFINE keys == HeldKeys(http_held)
<1>1. PICK sent \in SUBSET keys :
         /\ IF game /\ Len(queue) + Cardinality(keys) <= QUEUE THEN sent = keys
            ELSE Cardinality(sent) = (IF game THEN QUEUE - Len(queue) ELSE 0)
         /\ \E order \in {s \in [1 .. Cardinality(sent) -> sent] : \A k \in sent : \E i \in DOMAIN s : s[i] = k} :
              queue' = queue \o [i \in DOMAIN order |-> [key |-> order[i], down |-> FALSE]]
         /\ lost' = (lost \/ (game /\ sent # keys))
  BY DEF ReleaseAll
<1>2. IsFiniteSet(sent) /\ Cardinality(sent) \in Nat
  <2>1. IsFiniteSet(http_held)
    BY FS_Subset
  <2>2. [c \in http_held |-> KeyOf[c]] \in Surjection(http_held, keys)
    BY DEF Surjection, HeldKeys
  <2>3. IsFiniteSet(keys)
    BY <2>1, <2>2, FS_Surjection
  <2> QED
    BY <1>1, <2>3, FS_Subset, FS_CardinalityType
<1>3. Len(queue) \in Nat /\ Len(queue) + Cardinality(sent) <= QUEUE
  BY <1>1, <1>2 DEF SocketOK
<1>4. PICK order \in [1 .. Cardinality(sent) -> sent] :
         queue' = queue \o [i \in DOMAIN order |-> [key |-> order[i], down |-> FALSE]]
  BY <1>1
<1> DEFINE ups == [i \in DOMAIN order |-> [key |-> order[i], down |-> FALSE]]
<1>5. ups \in Seq(Datagrams) /\ Len(ups) = Cardinality(sent)
  <2>1. DOMAIN order = 1 .. Cardinality(sent)
    BY <1>4
  <2>2. ASSUME NEW i \in 1 .. Cardinality(sent) PROVE [key |-> order[i], down |-> FALSE] \in Datagrams
    <3>1. order[i] \in {KeyOf[c] : c \in CODES}
      BY <1>1, <1>4 DEF HeldKeys
    <3> QED
      BY <3>1 DEF Datagrams
  <2> QED
    BY <1>2, <2>1, <2>2
<1>6. queue' = queue \o ups
  BY <1>4
<1>7. queue' \in Seq(Datagrams) /\ Len(queue') <= QUEUE
  <2> HIDE DEF ups
  <2> QED
    BY <1>3, <1>5, <1>6 DEF SocketOK
<1>8. lost' \in BOOLEAN
  BY <1>1
<1> QED
  BY <1>7, <1>8 DEF SocketOK

(* The game's own state, and the modes. *)
GameOK ==
    /\ mode \in {"camera", "entry", "doom", "exit", "stopping", "reaping"}
    /\ game \in BOOLEAN /\ gone \in BOOLEAN
    /\ game_down \subseteq Keys /\ held \subseteq PtzKeys
    /\ left \in 0 .. TIMEOUT /\ up_age \in NONE .. DOUBLE_TAP + 1

(* Every step keeps the types of the socket. *)
LEMMA KeysSocketStep == ControllerOK /\ SocketOK /\ GameOK /\ [Next]_vars => SocketOK'
<1> SUFFICES ASSUME ControllerOK, SocketOK, GameOK, [Next]_vars PROVE SocketOK'
  OBVIOUS
<1>1. ASSUME PassBegins PROVE SocketOK'
  BY <1>1 DEF PassBegins, SocketOK
<1>2. ASSUME NEW c \in CODES, Down(c) PROVE SocketOK'
  BY <1>2, KeysPost DEF Down, SocketOK
<1>3. ASSUME NEW c \in CODES, Up(c) PROVE SocketOK'
  BY <1>3, KeysPost DEF Up, SocketOK
<1>4. ASSUME Heartbeat PROVE SocketOK'
  BY <1>4 DEF Heartbeat, SocketOK
<1>5. ASSUME ReleaseRequest PROVE SocketOK'
  BY <1>5, KeysRelease DEF ReleaseRequest, ControllerOK
<1>6. ASSUME PassEnds PROVE SocketOK'
  BY <1>6, KeysRelease DEF PassEnds, ControllerOK, SocketOK
<1>7. ASSUME ControllerStops PROVE SocketOK'
  BY <1>7, KeysRelease DEF ControllerStops, ControllerOK
<1>8. ASSUME Receive PROVE SocketOK'
  BY <1>8 DEF Receive, SocketOK
<1>9. ASSUME Expire PROVE SocketOK'
  BY <1>9 DEF Expire, SocketOK
<1>10. ASSUME StartGame PROVE SocketOK'
  <2>1. lost' \in BOOLEAN
    BY <1>10 DEF StartGame
  <2>2. queue' = <<>>
    BY <1>10 DEF StartGame
  <2> QED
    BY <2>1, <2>2 DEF SocketOK
<1>11. ASSUME ModeMoves PROVE SocketOK'
  BY <1>11 DEF ModeMoves, SocketOK
<1>12. ASSUME SignalRelease PROVE SocketOK'
  BY <1>12 DEF SignalRelease, SocketOK
<1>13. ASSUME ReapGame PROVE SocketOK'
  BY <1>13 DEF ReapGame, SocketOK
<1>14. ASSUME GameDies PROVE SocketOK'
  BY <1>14 DEF GameDies, SocketOK
<1>15. ASSUME NEW command \in COMMANDS, PtzCommand(command) PROVE SocketOK'
  <2>1. [ptz |-> command] \in Datagrams
    BY DEF Datagrams
  <2>2. lost' = lost
    BY <1>15 DEF PtzCommand
  <2>3. queue' = queue \/ (queue' = Append(queue, [ptz |-> command]) /\ Len(queue) + 1 <= QUEUE)
    BY <1>15 DEF PtzCommand, Room
  <2> QED
    BY <2>1, <2>2, <2>3 DEF SocketOK
<1>16. ASSUME PlayersGone PROVE SocketOK'
  BY <1>16 DEF PlayersGone, SocketOK
<1>17. ASSUME Tick PROVE SocketOK'
  BY <1>17 DEF Tick, SocketOK
<1>18. CASE UNCHANGED vars
  BY <1>18 DEF SocketOK
<1> QED
  BY <1>1, <1>2, <1>3, <1>4, <1>5, <1>6, <1>7, <1>8, <1>9, <1>10, <1>11, <1>12, <1>13, <1>14, <1>15, <1>16, <1>17, <1>18
  DEF Next, Requests, Controller, Game, Runtime

(* Every step keeps the types of the game, the PTZ adapter included. *)
LEMMA KeysGameStep == SocketOK /\ GameOK /\ [Next]_vars => GameOK'
<1> SUFFICES ASSUME SocketOK, GameOK, [Next]_vars PROVE GameOK'
  OBVIOUS
<1> USE DEF GameOK
<1>1. ASSUME PassBegins PROVE GameOK'
  BY <1>1 DEF PassBegins
<1>2. ASSUME NEW c \in CODES, Down(c) PROVE GameOK'
  BY <1>2 DEF Down, Served
<1>3. ASSUME NEW c \in CODES, Up(c) PROVE GameOK'
  BY <1>3 DEF Up, Served
<1>4. ASSUME Heartbeat PROVE GameOK'
  BY <1>4 DEF Heartbeat, Served
<1>5. ASSUME ReleaseRequest PROVE GameOK'
  BY <1>5 DEF ReleaseRequest, Served
<1>6. ASSUME PassEnds PROVE GameOK'
  BY <1>6 DEF PassEnds
<1>7. ASSUME ControllerStops PROVE GameOK'
  BY <1>7 DEF ControllerStops
<1>8. ASSUME Receive PROVE GameOK'
  <2> DEFINE d == Head(queue)
  <2>1. d \in Datagrams
    BY <1>8 DEF Receive, SocketOK
  <2>2. UNCHANGED <<mode, game, gone>>
    BY <1>8 DEF Receive
  <2>3. CASE IsKey(d)
    <3>1. d.key \in Keys
      BY <2>1, <2>3 DEF IsKey, Datagrams, Keys
    <3>2. UNCHANGED ptz
      BY <1>8, <2>3 DEF Receive
    <3>3. game_down' \subseteq game_down \cup {d.key}
      BY <1>8, <2>3 DEF Receive
    <3> QED
      BY <2>2, <3>1, <3>2, <3>3
  <2>4. CASE ~IsKey(d)
    <3>1. d.ptz \in COMMANDS /\ Apply(d.ptz)
      BY <1>8, <2>1, <2>4 DEF Receive, IsKey, Datagrams
    <3>2. \E next \in SUBSET PtzKeys : SetHeld(next)
      BY <3>1 DEF Apply, Turn, PtzKeys, Directions, ActionKeys
    <3>3. up_age' \in {0, NONE, up_age}
      BY <3>1 DEF Apply, Directions
    <3>4. game_down' \subseteq Keys /\ held' \subseteq PtzKeys /\ left' \in 0 .. TIMEOUT
      BY <3>2 DEF SetHeld, Keys
    <3> QED
      BY <2>2, <3>3, <3>4
  <2> QED
    BY <2>3, <2>4
<1>9. ASSUME Expire PROVE GameOK'
  BY <1>9 DEF Expire, SetHeld
<1>10. ASSUME StartGame PROVE GameOK'
  BY <1>10 DEF StartGame
<1>11. ASSUME ModeMoves PROVE GameOK'
  BY <1>11 DEF ModeMoves
<1>12. ASSUME SignalRelease PROVE GameOK'
  BY <1>12 DEF SignalRelease
<1>13. ASSUME ReapGame PROVE GameOK'
  <2>1. game' \in BOOLEAN /\ gone' \in BOOLEAN
    BY <1>13 DEF ReapGame
  <2>2. mode' \in {"camera", mode}
    BY <1>13 DEF ReapGame
  <2>3. game_down' = {} /\ held' = {} /\ left' = 0 /\ up_age' = NONE
    BY <1>13 DEF ReapGame
  <2> QED
    BY <2>1, <2>2, <2>3
<1>14. ASSUME GameDies PROVE GameOK'
  <2>1. game' \in BOOLEAN /\ gone' \in BOOLEAN
    BY <1>14 DEF GameDies
  <2>2. mode' \in {"camera", mode}
    BY <1>14 DEF GameDies
  <2>3. game_down' = {} /\ held' = {} /\ left' = 0 /\ up_age' = NONE
    BY <1>14 DEF GameDies
  <2> QED
    BY <2>1, <2>2, <2>3
<1>15. ASSUME NEW command \in COMMANDS, PtzCommand(command) PROVE GameOK'
  BY <1>15 DEF PtzCommand
<1>16. ASSUME PlayersGone PROVE GameOK'
  BY <1>16 DEF PlayersGone
<1>17. ASSUME Tick PROVE GameOK'
  BY <1>17 DEF Tick, Older
<1>18. CASE UNCHANGED vars
  BY <1>18
<1> QED
  BY <1>1, <1>2, <1>3, <1>4, <1>5, <1>6, <1>7, <1>8, <1>9, <1>10, <1>11, <1>12, <1>13, <1>14, <1>15, <1>16, <1>17, <1>18
  DEF Next, Requests, Controller, Game, Runtime

(* The socket and the game begin empty. *)
LEMMA KeysSocketInit == Init => SocketOK
<1> SUFFICES ASSUME Init PROVE SocketOK
  OBVIOUS
<1>1. lost \in BOOLEAN
  BY DEF Init
<1>2. queue = <<>>
  BY DEF Init
<1> QED
  BY <1>1, <1>2 DEF SocketOK

(* Nor has the game a key down. *)
LEMMA KeysGameInit == Init => GameOK
<1> SUFFICES ASSUME Init PROVE GameOK
  OBVIOUS
<1>1. game \in BOOLEAN /\ gone \in BOOLEAN
  BY DEF Init
<1>2. mode = "camera" /\ game_down = {} /\ held = {} /\ left = 0 /\ up_age = NONE
  BY DEF Init
<1> QED
  BY <1>1, <1>2 DEF GameOK

(* The types of controller, socket and game. *)
THEOREM KeysTypes == Spec => []TypeOK
<1> DEFINE Inv == ControllerOK /\ InTime /\ SocketOK /\ GameOK
<1>1. Init => Inv
  BY KeysControllerInit, KeysSocketInit, KeysGameInit
<1>2. Inv /\ [Next]_vars => Inv'
  BY KeysControllerStep, KeysSocketStep, KeysGameStep
<1>3. Inv => TypeOK
  BY DEF ControllerOK, SocketOK, GameOK, TypeOK
<1> HIDE DEF Inv
<1> QED
  BY <1>1, <1>2, <1>3, PTL DEF Spec

-----------------------------------------------------------------------------
(* What a queue of datagrams does to a key. *)

(* Datagram d is about key k; where q speaks of k; whether k is down after q. *)
About(d, k) == IsKey(d) /\ d.key = k
Says(q, k) == {i \in 1 .. Len(q) : About(q[i], k)}
DownAfter(q, g, k) ==
    IF Says(q, k) = {} THEN k \in g ELSE \E i \in Says(q, k) : q[i].down /\ \A j \in Says(q, k) : j <= i

(* WillBeDown is that of the socket and the keys of this state, *)
LEMMA KeysAhead == \A k : WillBeDown(k) <=> DownAfter(queue, game_down, k)
  BY DEF WillBeDown, DownAfter, Says, About
(* and of the next state. *)
LEMMA KeysAheadNext == \A k : WillBeDown(k)' <=> DownAfter(queue', game_down', k)
  BY DEF WillBeDown, DownAfter, Says, About

(* A key datagram is about its key, a PTZ datagram about none. *)
LEMMA KeysAbout ==
    /\ \A a, b, k : About([key |-> a, down |-> b], k) <=> a = k
    /\ \A c, k : ~About([ptz |-> c], k)
  BY DEF About, IsKey

(* The last datagram about a key decides, *)
LEMMA AppendOwn ==
    ASSUME NEW q \in Seq(Datagrams), NEW g, NEW k, NEW d \in Datagrams, About(d, k), d.down \in BOOLEAN
    PROVE  DownAfter(Append(q, d), g, k) <=> d.down
<1> DEFINE r == Append(q, d)
<1>1. Len(q) \in Nat /\ Len(r) = Len(q) + 1 /\ r[Len(r)] = d
  OBVIOUS
<1>2. Len(r) \in Says(r, k) /\ \A j \in Says(r, k) : j <= Len(r)
  BY <1>1 DEF Says
<1> HIDE DEF r
<1>3. \A i \in Says(r, k) : (\A j \in Says(r, k) : j <= i) => i = Len(r)
  BY <1>1, <1>2 DEF Says
<1> QED
  BY <1>1, <1>2, <1>3 DEF DownAfter, r

(* and one about something else decides nothing. *)
LEMMA AppendOther ==
    ASSUME NEW q \in Seq(Datagrams), NEW g, NEW k, NEW d \in Datagrams, ~About(d, k)
    PROVE  DownAfter(Append(q, d), g, k) <=> DownAfter(q, g, k)
<1> DEFINE r == Append(q, d)
<1>1. Len(q) \in Nat /\ Len(r) = Len(q) + 1 /\ r[Len(q) + 1] = d /\ \A i \in 1 .. Len(q) : r[i] = q[i]
  OBVIOUS
<1> HIDE DEF r
<1>2. Says(r, k) = Says(q, k)
  BY <1>1 DEF Says
<1>3. \A i \in Says(q, k) : r[i] = q[i]
  BY <1>1 DEF Says
<1> QED
  BY <1>2, <1>3 DEF DownAfter, r

(* Reading the first datagram and applying it leaves the outcome as it was. *)
LEMMA TailRead ==
    ASSUME NEW q \in Seq(Datagrams), q # <<>>, NEW g, NEW h, NEW k,
           About(Head(q), k) => (k \in h <=> Head(q).down),
           ~About(Head(q), k) => (k \in h <=> k \in g)
    PROVE  DownAfter(Tail(q), h, k) <=> DownAfter(q, g, k)
<1> DEFINE r == Tail(q)
<1>1. Len(q) \in Nat /\ Len(q) > 0 /\ Len(r) = Len(q) - 1 /\ q[1] = Head(q) /\ \A i \in 1 .. Len(r) : r[i] = q[i + 1]
  OBVIOUS
<1> HIDE DEF r
<1>2. \A i : i \in Says(r, k) <=> i \in 1 .. Len(r) /\ i + 1 \in Says(q, k)
  BY <1>1 DEF Says
<1>3. 1 \in Says(q, k) <=> About(Head(q), k)
  BY <1>1 DEF Says
<1>4. \A i \in Says(q, k) : i \in Nat /\ i >= 1 /\ (i # 1 => i - 1 \in Says(r, k))
  BY <1>1, <1>2 DEF Says
<1>5. CASE Says(r, k) = {}
  <2>1. Says(q, k) = IF About(Head(q), k) THEN {1} ELSE {}
    BY <1>3, <1>4, <1>5
  <2> QED
    BY <1>1, <1>5, <2>1 DEF DownAfter, r
<1>6. CASE Says(r, k) # {}
  <2>1. Says(q, k) # {}
    BY <1>2, <1>6
  <2>2. ASSUME NEW i \in Says(r, k), r[i].down, \A j \in Says(r, k) : j <= i
        PROVE  \E m \in Says(q, k) : q[m].down /\ \A j \in Says(q, k) : j <= m
    <3>1. i \in Nat /\ i + 1 \in Says(q, k) /\ q[i + 1].down
      BY <1>1, <1>2, <2>2
    <3>2. ASSUME NEW j \in Says(q, k) PROVE j <= i + 1
      BY <1>4, <2>2, <3>1, <3>2
    <3> QED
      BY <3>1, <3>2
  <2>3. ASSUME NEW m \in Says(q, k), q[m].down, \A j \in Says(q, k) : j <= m
        PROVE  \E i \in Says(r, k) : r[i].down /\ \A j \in Says(r, k) : j <= i
    <3>1. PICK i \in Says(r, k) : TRUE
      BY <1>6
    <3>2. i \in Nat /\ i >= 1 /\ i + 1 <= m /\ m \in Nat
      BY <1>1, <1>2, <1>4, <2>3 DEF Says
    <3>3. m - 1 \in Says(r, k) /\ r[m - 1].down
      <4>1. m - 1 \in Says(r, k)
        BY <1>4, <3>2
      <4>2. r[m - 1] = q[(m - 1) + 1] /\ (m - 1) + 1 = m
        BY <1>1, <1>2, <4>1, <3>2
      <4> QED
        BY <2>3, <4>1, <4>2
    <3>4. \A j \in Says(r, k) : j <= m - 1
      BY <1>1, <1>2, <2>3, <3>2
    <3> QED
      BY <3>3, <3>4
  <2> QED
    BY <1>6, <2>1, <2>2, <2>3 DEF DownAfter, r
<1> QED
  BY <1>5, <1>6

(* Keyups for the keys of S at the end of the queue release those, and no other. *)
LEMMA ConcatUps ==
    ASSUME NEW q \in Seq(Datagrams), NEW g, NEW u \in Seq(Datagrams), NEW S,
           \A i \in 1 .. Len(u) : ~u[i].down /\ IsKey(u[i]) /\ u[i].key \in S,
           \A s \in S : \E i \in 1 .. Len(u) : u[i].key = s, NEW k
    PROVE  DownAfter(q \o u, g, k) <=> k \notin S /\ DownAfter(q, g, k)
<1> DEFINE r == q \o u
<1>1. /\ Len(q) \in Nat /\ Len(u) \in Nat /\ Len(r) = Len(q) + Len(u)
      /\ \A i \in 1 .. Len(q) : r[i] = q[i]
      /\ \A i \in 1 .. Len(u) : r[Len(q) + i] = u[i]
  OBVIOUS
<1> HIDE DEF r
<1>2. \A i \in 1 .. Len(r) : i > Len(q) => i - Len(q) \in 1 .. Len(u) /\ r[i] = u[i - Len(q)]
  <2> SUFFICES ASSUME NEW i \in 1 .. Len(r), i > Len(q) PROVE i - Len(q) \in 1 .. Len(u) /\ r[i] = u[i - Len(q)]
    OBVIOUS
  <2>1. i - Len(q) \in 1 .. Len(u) /\ Len(q) + (i - Len(q)) = i
    BY <1>1
  <2> QED
    BY <1>1, <2>1
<1>3. CASE k \in S
  <2>1. PICK m \in 1 .. Len(u) : u[m].key = k
    BY <1>3
  <2>2. Len(q) + m \in Says(r, k)
    BY <1>1, <2>1 DEF Says, About
  <2>3. ASSUME NEW i \in Says(r, k), \A j \in Says(r, k) : j <= i PROVE ~r[i].down
    <3>1. i \in 1 .. Len(r) /\ i > Len(q)
      BY <1>1, <2>2, <2>3, <2>1 DEF Says
    <3> QED
      BY <1>2, <3>1
  <2> QED
    BY <1>3, <2>2, <2>3 DEF DownAfter, r
<1>4. CASE k \notin S
  <2>1. Says(r, k) = Says(q, k)
    <3>1. \A i \in Says(r, k) : i <= Len(q)
      BY <1>1, <1>2, <1>4 DEF Says, About
    <3> QED
      BY <1>1, <3>1 DEF Says
  <2>2. \A i \in Says(q, k) : r[i] = q[i]
    BY <1>1 DEF Says
  <2> QED
    BY <1>4, <2>1, <2>2 DEF DownAfter, r
<1> QED
  BY <1>3, <1>4

-----------------------------------------------------------------------------
(* What the game will have down is what the browser holds. *)

BrowserKeys == Keys \ PtzKeys

(* Nothing is down for good that no code holds, even while a release is pending;
   what is held is down, but for a pending release; and a release is pending for
   whatever one game leaves to the next. *)
NothingStuck == game /\ ~lost => \A k \in BrowserKeys : WillBeDown(k) => k \in HeldKeys(http_held)
HeldIsDown == game /\ ~lost /\ ~release => \A k \in BrowserKeys : k \in HeldKeys(http_held) => WillBeDown(k)
NoneInherited == mode \in {"camera", "reaping"} => release \/ http_held = {}
KeysInv == NothingStuck /\ HeldIsDown /\ NoneInherited

(* A step that touches neither the socket, the keys nor a pending release. *)
LEMMA KeysKept ==
    ASSUME KeysInv, UNCHANGED <<queue, game_down, http_held>>, game' => game, game' /\ lost => lost',
           release => release', mode' \in {"camera", "reaping"} => mode \in {"camera", "reaping"}
    PROVE  KeysInv'
<1>1. \A k : WillBeDown(k)' <=> WillBeDown(k)
  BY KeysAhead, KeysAheadNext
<1> QED
  BY <1>1 DEF KeysInv, NothingStuck, HeldIsDown, NoneInherited

(* One key datagram: after it the key is what the datagram says, every other key
   what it was, unless the datagram is lost. *)
LEMMA KeysPosted ==
    ASSUME SocketOK, GameOK, NEW c \in CODES, NEW b \in BOOLEAN, PostKey(KeyOf[c], b),
           UNCHANGED <<game, game_down>>, game', ~lost'
    PROVE  /\ ~lost
           /\ WillBeDown(KeyOf[c])' <=> b
           /\ \A k : k # KeyOf[c] => (WillBeDown(k)' <=> WillBeDown(k))
<1> DEFINE d == [key |-> KeyOf[c], down |-> b]
<1>1. Room(1) /\ queue' = Append(queue, d) /\ ~lost
  BY DEF PostKey, GameOK, SocketOK
<1>2. d \in Datagrams /\ d.down = b
  BY DEF Datagrams
<1>3. \A k : About(d, k) <=> KeyOf[c] = k
  BY KeysAbout
<1> HIDE DEF d
<1>4. WillBeDown(KeyOf[c])' <=> b
  BY <1>1, <1>2, <1>3, AppendOwn, KeysAheadNext DEF SocketOK
<1>5. ASSUME NEW k, k # KeyOf[c] PROVE WillBeDown(k)' <=> WillBeDown(k)
  BY <1>1, <1>2, <1>3, <1>5, AppendOther, KeysAhead, KeysAheadNext DEF SocketOK
<1> QED
  BY <1>1, <1>4, <1>5

(* http_release_all: every held key goes up, every other key is what it was. *)
LEMMA KeysReleased ==
    ASSUME SocketOK, GameOK, http_held \subseteq CODES, ReleaseAll,
           UNCHANGED <<game, game_down>>, game', ~lost'
    PROVE  /\ ~lost /\ http_held' = {}
           /\ \A k : WillBeDown(k)' <=> k \notin HeldKeys(http_held) /\ WillBeDown(k)
<1> DEFINE keys == HeldKeys(http_held)
<1>1. PICK sent \in SUBSET keys :
         /\ \E order \in {s \in [1 .. Cardinality(sent) -> sent] : \A k \in sent : \E i \in DOMAIN s : s[i] = k} :
              queue' = queue \o [i \in DOMAIN order |-> [key |-> order[i], down |-> FALSE]]
         /\ lost' = (lost \/ (game /\ sent # keys))
  BY DEF ReleaseAll
<1>2. ~lost /\ sent = keys
  BY <1>1 DEF SocketOK, GameOK
<1>3. PICK order \in [1 .. Cardinality(keys) -> keys] :
         /\ \A k \in keys : \E i \in DOMAIN order : order[i] = k
         /\ queue' = queue \o [i \in DOMAIN order |-> [key |-> order[i], down |-> FALSE]]
  BY <1>1, <1>2
<1> DEFINE u == [i \in DOMAIN order |-> [key |-> order[i], down |-> FALSE]]
<1>4. Cardinality(keys) \in Nat
  <2>1. IsFiniteSet(http_held)
    BY FS_Subset
  <2>2. [c \in http_held |-> KeyOf[c]] \in Surjection(http_held, keys)
    BY DEF Surjection, HeldKeys
  <2> QED
    BY <2>1, <2>2, FS_Surjection, FS_CardinalityType
<1>5. DOMAIN order = 1 .. Cardinality(keys)
  BY <1>3
<1>6. \A i \in 1 .. Cardinality(keys) : order[i] \in keys /\ [key |-> order[i], down |-> FALSE] \in Datagrams
  <2> SUFFICES ASSUME NEW i \in 1 .. Cardinality(keys)
               PROVE  order[i] \in keys /\ [key |-> order[i], down |-> FALSE] \in Datagrams
    OBVIOUS
  <2>1. order[i] \in keys
    BY <1>3
  <2>2. order[i] \in {KeyOf[c] : c \in CODES}
    BY <2>1 DEF HeldKeys
  <2> QED
    BY <2>1, <2>2 DEF Datagrams
<1>7. u \in Seq(Datagrams) /\ Len(u) = Cardinality(keys)
  BY <1>4, <1>5, <1>6
<1>8. \A i \in 1 .. Len(u) : u[i] = [key |-> order[i], down |-> FALSE]
  BY <1>5, <1>7
<1>9. \A i \in 1 .. Len(u) : ~u[i].down /\ IsKey(u[i]) /\ u[i].key \in keys
  BY <1>6, <1>7, <1>8 DEF IsKey
<1>10. \A s \in keys : \E i \in 1 .. Len(u) : u[i].key = s
  BY <1>3, <1>5, <1>7, <1>8
<1>11. queue' = queue \o u
  BY <1>3
<1> HIDE DEF u, keys
<1>12. ASSUME NEW k PROVE DownAfter(queue \o u, game_down, k) <=> k \notin keys /\ DownAfter(queue, game_down, k)
  BY <1>7, <1>9, <1>10, ConcatUps DEF SocketOK
<1>13. \A k : WillBeDown(k)' <=> k \notin keys /\ WillBeDown(k)
  BY <1>11, <1>12, KeysAhead, KeysAheadNext
<1>14. http_held' = {}
  BY DEF ReleaseAll
<1> QED
  BY <1>2, <1>13, <1>14 DEF keys

(* After a release of everything the next game inherits nothing. *)
LEMMA KeysAfterRelease ==
    ASSUME SocketOK, GameOK, ControllerOK, KeysInv, ReleaseAll, UNCHANGED <<game, game_down>>
    PROVE  KeysInv'
<1>1. http_held' = {}
  BY DEF ReleaseAll
<1>2. ASSUME game', ~lost' PROVE \A k \in BrowserKeys : ~WillBeDown(k)'
  BY <1>2, KeysReleased DEF KeysInv, NothingStuck, ControllerOK
<1> QED
  BY <1>1, <1>2 DEF KeysInv, NothingStuck, HeldIsDown, NoneInherited, HeldKeys

(* The PTZ remote only moves its own keys. *)
LEMMA KeysApply ==
    ASSUME GameOK, NEW command \in COMMANDS, Apply(command)
    PROVE  \A k \in BrowserKeys : k \in game_down' <=> k \in game_down
<1>1. \E next \in SUBSET PtzKeys : SetHeld(next)
  BY DEF Apply, Turn, PtzKeys, Directions, ActionKeys, GameOK
<1> QED
  BY <1>1 DEF SetHeld, BrowserKeys, GameOK

(* Every step keeps socket and browser in agreement. *)
LEMMA KeysInvStep ==
    ControllerOK /\ InTime /\ SocketOK /\ GameOK /\ KeysInv /\ [Next]_vars => KeysInv'
<1> SUFFICES ASSUME ControllerOK, InTime, SocketOK, GameOK, KeysInv, [Next]_vars PROVE KeysInv'
  OBVIOUS
<1>1. ASSUME PassBegins PROVE KeysInv'
  BY <1>1, KeysKept DEF PassBegins
<1>2. ASSUME NEW c \in CODES, Down(c) PROVE KeysInv'
  <2>1. UNCHANGED <<mode, game, game_down, release>> /\ mode = "doom" /\ http_held' = http_held \cup {c}
    BY <1>2 DEF Down, Served
  <2>2. HeldKeys(http_held') = HeldKeys(http_held) \cup {KeyOf[c]}
    BY <2>1 DEF HeldKeys
  <2>3. CASE KeyOf[c] \in HeldKeys(http_held)
    <3>1. UNCHANGED <<queue, lost>> /\ HeldKeys(http_held') = HeldKeys(http_held)
      BY <1>2, <2>2, <2>3 DEF Down
    <3>2. \A k : WillBeDown(k)' <=> WillBeDown(k)
      BY <2>1, <3>1, KeysAhead, KeysAheadNext
    <3> QED
      BY <2>1, <3>1, <3>2 DEF KeysInv, NothingStuck, HeldIsDown, NoneInherited
  <2>4. CASE KeyOf[c] \notin HeldKeys(http_held)
    <3>1. PostKey(KeyOf[c], TRUE)
      BY <1>2, <2>4 DEF Down
    <3>2. ASSUME game', ~lost'
          PROVE  /\ ~lost /\ WillBeDown(KeyOf[c])'
                 /\ \A k : k # KeyOf[c] => (WillBeDown(k)' <=> WillBeDown(k))
      BY <2>1, <3>1, <3>2, KeysPosted
    <3> QED
      BY <2>1, <2>2, <3>2 DEF KeysInv, NothingStuck, HeldIsDown, NoneInherited
  <2> QED
    BY <2>3, <2>4
<1>3. ASSUME NEW c \in CODES, Up(c) PROVE KeysInv'
  <2>1. UNCHANGED <<mode, game, game_down, release>> /\ mode = "doom" /\ http_held' = http_held \ {c}
    BY <1>3 DEF Up, Served
  <2>2. CASE c \notin http_held \/ KeyOf[c] \in HeldKeys(http_held \ {c})
    <3>1. UNCHANGED <<queue, lost>>
      BY <1>3, <2>2 DEF Up
    <3>2. HeldKeys(http_held') = HeldKeys(http_held)
      BY <2>1, <2>2 DEF HeldKeys
    <3>3. \A k : WillBeDown(k)' <=> WillBeDown(k)
      BY <2>1, <3>1, KeysAhead, KeysAheadNext
    <3> QED
      BY <2>1, <3>1, <3>2, <3>3 DEF KeysInv, NothingStuck, HeldIsDown, NoneInherited
  <2>3. CASE c \in http_held /\ KeyOf[c] \notin HeldKeys(http_held \ {c})
    <3>1. PostKey(KeyOf[c], FALSE)
      BY <1>3, <2>3 DEF Up
    <3>2. HeldKeys(http_held') = HeldKeys(http_held) \ {KeyOf[c]}
      BY <2>1, <2>3 DEF HeldKeys
    <3>3. ASSUME game', ~lost'
          PROVE  /\ ~lost /\ ~WillBeDown(KeyOf[c])'
                 /\ \A k : k # KeyOf[c] => (WillBeDown(k)' <=> WillBeDown(k))
      BY <2>1, <3>1, <3>3, KeysPosted
    <3> QED
      BY <2>1, <3>2, <3>3 DEF KeysInv, NothingStuck, HeldIsDown, NoneInherited
  <2> QED
    BY <2>2, <2>3
<1>4. ASSUME Heartbeat PROVE KeysInv'
  BY <1>4, KeysKept DEF Heartbeat, Served
<1>5. ASSUME ReleaseRequest PROVE KeysInv'
  BY <1>5, KeysAfterRelease DEF ReleaseRequest, Served
<1>6. ASSUME PassEnds PROVE KeysInv'
  <2>1. CASE release \/ (age # NONE /\ Expired(age))
    BY <1>6, <2>1, KeysAfterRelease DEF PassEnds
  <2>2. CASE ~(release \/ (age # NONE /\ Expired(age)))
    BY <1>6, <2>2, KeysKept DEF PassEnds
  <2> QED
    BY <2>1, <2>2
<1>7. ASSUME ControllerStops PROVE KeysInv'
  BY <1>7, KeysAfterRelease DEF ControllerStops
<1>8. ASSUME Receive PROVE KeysInv'
  <2> DEFINE d == Head(queue)
  <2>1. /\ queue \in Seq(Datagrams) /\ queue # <<>> /\ d \in Datagrams /\ queue' = Tail(queue)
        /\ UNCHANGED <<mode, game, http_held, release, lost>>
    BY <1>8 DEF Receive, SocketOK
  <2>2. ASSUME NEW k \in BrowserKeys
        PROVE  /\ About(d, k) => (k \in game_down' <=> d.down)
               /\ ~About(d, k) => (k \in game_down' <=> k \in game_down)
    <3>1. CASE IsKey(d)
      BY <1>8, <3>1 DEF Receive, About
    <3>2. CASE ~IsKey(d)
      <4>1. d.ptz \in COMMANDS /\ Apply(d.ptz)
        BY <1>8, <2>1, <3>2 DEF Receive, IsKey, Datagrams
      <4> QED
        BY <3>2, <4>1, KeysApply DEF About
    <3> QED
      BY <3>1, <3>2
  <2> HIDE DEF d
  <2>3. \A k \in BrowserKeys : WillBeDown(k)' <=> WillBeDown(k)
    <3> SUFFICES ASSUME NEW k \in BrowserKeys PROVE WillBeDown(k)' <=> WillBeDown(k)
      OBVIOUS
    <3>1. DownAfter(Tail(queue), game_down', k) <=> DownAfter(queue, game_down, k)
      BY <2>1, <2>2, TailRead DEF d
    <3> QED
      BY <2>1, <3>1, KeysAhead, KeysAheadNext
  <2> QED
    BY <2>1, <2>3 DEF KeysInv, NothingStuck, HeldIsDown, NoneInherited
<1>9. ASSUME Expire PROVE KeysInv'
  <2>1. UNCHANGED <<mode, game, http_held, release, lost, queue>>
    BY <1>9 DEF Expire
  <2>2. \A k \in BrowserKeys : k \in game_down' <=> k \in game_down
    BY <1>9 DEF Expire, SetHeld, BrowserKeys, GameOK
  <2>3. \A k \in BrowserKeys : WillBeDown(k)' <=> WillBeDown(k)
    BY <2>1, <2>2, KeysAhead, KeysAheadNext DEF DownAfter
  <2> QED
    BY <2>1, <2>3 DEF KeysInv, NothingStuck, HeldIsDown, NoneInherited
<1>10. ASSUME StartGame PROVE KeysInv'
  <2>1. queue' = <<>> /\ game_down' = {} /\ mode = "camera" /\ mode' = "entry" /\ UNCHANGED <<http_held, release>>
    BY <1>10 DEF StartGame
  <2>2. \A k : ~WillBeDown(k)'
    BY <2>1, KeysAheadNext DEF DownAfter, Says
  <2> QED
    BY <2>1, <2>2 DEF KeysInv, NothingStuck, HeldIsDown, NoneInherited, HeldKeys
<1>11. ASSUME ModeMoves PROVE KeysInv'
  BY <1>11, KeysKept DEF ModeMoves
<1>12. ASSUME SignalRelease PROVE KeysInv'
  <2>1. UNCHANGED <<game, http_held, queue, game_down, lost>> /\ release' = (cpc # "stopped")
    BY <1>12 DEF SignalRelease
  <2>2. \A k : WillBeDown(k)' <=> WillBeDown(k)
    BY <2>1, KeysAhead, KeysAheadNext
  <2>3. release' \/ http_held = {}
    BY <2>1 DEF InTime
  <2> QED
    BY <2>1, <2>2, <2>3 DEF KeysInv, NothingStuck, HeldIsDown, NoneInherited, HeldKeys
<1>13. ASSUME ReapGame PROVE KeysInv'
  BY <1>13 DEF ReapGame, KeysInv, NothingStuck, HeldIsDown, NoneInherited
<1>14. ASSUME GameDies PROVE KeysInv'
  BY <1>14 DEF GameDies, KeysInv, NothingStuck, HeldIsDown, NoneInherited
<1>15. ASSUME NEW command \in COMMANDS, PtzCommand(command) PROVE KeysInv'
  <2> DEFINE d == [ptz |-> command]
  <2>1. UNCHANGED <<mode, game, http_held, release, lost, game_down>>
    BY <1>15 DEF PtzCommand
  <2>2. queue' = queue \/ queue' = Append(queue, d)
    BY <1>15 DEF PtzCommand
  <2>3. d \in Datagrams /\ \A k : ~About(d, k)
    BY KeysAbout DEF Datagrams
  <2> HIDE DEF d
  <2>4. ASSUME NEW k PROVE WillBeDown(k)' <=> WillBeDown(k)
    <3>1. DownAfter(Append(queue, d), game_down, k) <=> DownAfter(queue, game_down, k)
      BY <2>3, AppendOther DEF SocketOK
    <3> QED
      BY <2>1, <2>2, <3>1, KeysAhead, KeysAheadNext
  <2> QED
    BY <2>1, <2>4 DEF KeysInv, NothingStuck, HeldIsDown, NoneInherited
<1>16. ASSUME PlayersGone PROVE KeysInv'
  BY <1>16, KeysKept DEF PlayersGone
<1>17. ASSUME Tick PROVE KeysInv'
  BY <1>17, KeysKept DEF Tick
<1>18. CASE UNCHANGED vars
  BY <1>18, KeysKept
<1> QED
  BY <1>1, <1>2, <1>3, <1>4, <1>5, <1>6, <1>7, <1>8, <1>9, <1>10, <1>11, <1>12, <1>13, <1>14, <1>15, <1>16, <1>17, <1>18
  DEF Next, Requests, Controller, Game, Runtime

(* HeldReaches: with no datagram lost and no release pending, the game has down,
   once it has read its socket, exactly the browser keys some code holds. *)
THEOREM KeysHeldReaches == Spec => []HeldReaches
<1> DEFINE Inv == ControllerOK /\ InTime /\ SocketOK /\ GameOK /\ KeysInv
<1>1. Init => ControllerOK /\ InTime /\ SocketOK /\ GameOK
  BY KeysControllerInit, KeysSocketInit, KeysGameInit
<1>2. Init => KeysInv
  BY DEF Init, KeysInv, NothingStuck, HeldIsDown, NoneInherited
<1>3. Inv /\ [Next]_vars => Inv'
  BY KeysControllerStep, KeysSocketStep, KeysGameStep, KeysInvStep
<1>4. Inv => HeldReaches
  BY DEF KeysInv, NothingStuck, HeldIsDown, HeldReaches, BrowserKeys
<1> HIDE DEF Inv
<1>5. Init => Inv
  BY <1>1, <1>2 DEF Inv
<1> QED
  BY <1>3, <1>4, <1>5, PTL DEF Spec
=============================================================================
