------------------------------ MODULE PtzRing ------------------------------
(***************************************************************************)
(* The ring that carries PTZ commands from the camera's own threads, which  *)
(* run e1_ptz_hook_route inside the patched dispatcher, to the injected     *)
(* worker, which drains it once per pass.  A producer takes a ticket, writes*)
(* the plain words of the ticket's slot and commits; nothing makes it wait  *)
(* for the worker, or for a producer one lap behind it.  The worker trusts  *)
(* the commit it has read and does not look at it again after it has copied *)
(* the words.                                                               *)
(*                                                                         *)
(* One step is one access to shared memory; the words, which are no atomics,*)
(* are written and read in any order.  A word's value is the ticket of the  *)
(* call it came from.  Tickets are 32 bits wide in the code and are not     *)
(* wrapped here: 2^32 button presses are out of reach.                      *)
(***************************************************************************)
EXTENDS Integers, FiniteSets

CONSTANTS
  THREADS,   \* camera threads that may be in the hook
  SIZE,      \* PTZ_RING_SIZE, 64 in the code
  FIELDS,    \* the words of an event: channel, command, speed
  MAX_CALLS  \* bound: tickets

ASSUME PtzAssumption ==
    /\ SIZE \in Nat \ {0} /\ MAX_CALLS \in Nat /\ IsFiniteSet(THREADS)

NONE == -1   \* a word that has not been written or copied, no ticket

VARIABLES
  ptz_mode, active_calls, write_ticket,  \* the atomics
  committed, word,                       \* the slots
  tpc, ticket, left,                     \* each thread: place, ticket, words to write
  rpc, read_ticket, drained, copy,       \* the worker: place, next ticket, copied words
  last,                                  \* ghost: the last event it handed on
  mixed                                  \* ghost: tickets taken while their slot was being written

atomics == <<ptz_mode, active_calls, write_ticket>>
slots == <<committed, word>>
threads == <<tpc, ticket, left>>
worker == <<rpc, read_ticket, drained, copy, last>>
vars == <<atomics, slots, threads, worker, mixed>>

Slots == 0 .. SIZE - 1
Slot(n) == n % SIZE
Nothing == [f \in FIELDS |-> NONE]

Init ==
    /\ ptz_mode = "camera" /\ active_calls = 0 /\ write_ticket = 0
    /\ committed = [s \in Slots |-> 0] /\ word = [s \in Slots |-> Nothing]
    /\ tpc = [t \in THREADS |-> "out"] /\ ticket = [t \in THREADS |-> NONE]
    /\ left = [t \in THREADS |-> {}]
    /\ rpc = "away" /\ read_ticket = 0 /\ drained = 0 /\ copy = Nothing
    /\ last = [sequence |-> 0, event |-> Nothing, lapped |-> FALSE]
    /\ mixed = {}

-----------------------------------------------------------------------------
(* e1_ptz_hook_route *)

(* The bound is on the calls, so that a call once begun can go on. *)
Enter(t) ==
    /\ tpc[t] = "out" /\ write_ticket + active_calls < MAX_CALLS
    /\ active_calls' = active_calls + 1
    /\ tpc' = [tpc EXCEPT ![t] = "mode"]
    /\ UNCHANGED <<ptz_mode, write_ticket, slots, ticket, left, worker, mixed>>

(* The first load of ptz_mode, for a command supported_ptz_command knows. *)
LoadMode(t) ==
    /\ tpc[t] = "mode"
    /\ tpc' = [tpc EXCEPT ![t] = IF ptz_mode # "off" THEN "take" ELSE "pass"]
    /\ UNCHANGED <<atomics, slots, ticket, left, worker, mixed>>

(* supported_ptz_command knows no such command. *)
Unsupported(t) ==
    /\ tpc[t] = "mode"
    /\ tpc' = [tpc EXCEPT ![t] = "pass"]
    /\ UNCHANGED <<atomics, slots, ticket, left, worker, mixed>>

(* Threads other than t that still write the slot of ticket n. *)
Writers(t, n) == {u \in THREADS \ {t} : tpc[u] = "write" /\ Slot(ticket[u]) = Slot(n)}

(* fetch_add: the ghost notes a slot that another thread still writes. *)
Take(t) ==
    /\ tpc[t] = "take"
    /\ ticket' = [ticket EXCEPT ![t] = write_ticket]
    /\ write_ticket' = write_ticket + 1
    /\ left' = [left EXCEPT ![t] = FIELDS]
    /\ tpc' = [tpc EXCEPT ![t] = "write"]
    /\ mixed' = IF Writers(t, write_ticket) = {} THEN mixed ELSE mixed \cup {write_ticket}
    /\ UNCHANGED <<ptz_mode, active_calls, slots, worker>>

Write(t, f) ==
    /\ tpc[t] = "write" /\ f \in left[t]
    /\ word' = [word EXCEPT ![Slot(ticket[t])][f] = ticket[t]]
    /\ left' = [left EXCEPT ![t] = @ \ {f}]
    /\ UNCHANGED <<atomics, committed, tpc, ticket, worker, mixed>>

(* Mutant of Commit: a relaxed store, visible before the words are. *)
CommitRelaxed(t) ==
    /\ tpc[t] = "write"
    /\ committed' = [committed EXCEPT ![Slot(ticket[t])] = ticket[t] + 1]
    /\ tpc' = IF left[t] = {} THEN [tpc EXCEPT ![t] = "route"] ELSE tpc
    /\ UNCHANGED <<atomics, word, ticket, left, worker, mixed>>

Commit(t) ==
    /\ tpc[t] = "write" /\ left[t] = {}
    /\ committed' = [committed EXCEPT ![Slot(ticket[t])] = ticket[t] + 1]
    /\ tpc' = [tpc EXCEPT ![t] = "route"]
    /\ UNCHANGED <<atomics, word, ticket, left, worker, mixed>>

(* The second load of ptz_mode: the game's call, or the camera's as well. *)
Route(t) ==
    /\ tpc[t] = "route"
    /\ tpc' = [tpc EXCEPT ![t] = IF ptz_mode = "doom" THEN "consume" ELSE "pass"]
    /\ UNCHANGED <<atomics, slots, ticket, left, worker, mixed>>

Leave(t) ==
    /\ tpc[t] \in {"consume", "pass"}
    /\ active_calls' = active_calls - 1
    /\ tpc' = [tpc EXCEPT ![t] = "out"]
    /\ ticket' = [ticket EXCEPT ![t] = NONE]
    /\ UNCHANGED <<ptz_mode, write_ticket, slots, left, worker, mixed>>

-----------------------------------------------------------------------------
(* The worker: drain_ptz_events, and set_ptz_hook_mode between two drains. *)

SetMode(m) ==
    /\ rpc = "away" /\ ptz_mode # m
    /\ ptz_mode' = m
    /\ UNCHANGED <<active_calls, write_ticket, slots, threads, worker, mixed>>

BeginDrain ==
    /\ rpc = "away"
    /\ rpc' = "look" /\ drained' = 0
    /\ UNCHANGED <<atomics, slots, threads, read_ticket, copy, last, mixed>>

expected == read_ticket + 1
seen == committed[Slot(read_ticket)]

(* Mutant of Look: a slot from an earlier lap is taken for an overrun. *)
LookBack ==
    /\ rpc = "look"
    /\ \/ /\ drained = SIZE \/ seen = 0
          /\ rpc' = "away"
          /\ UNCHANGED <<read_ticket, drained, copy>>
       \/ /\ drained < SIZE /\ seen # 0 /\ seen # expected
          /\ read_ticket' = seen - 1 /\ drained' = drained + 1
          /\ UNCHANGED <<rpc, copy>>
       \/ /\ drained < SIZE /\ seen = expected
          /\ rpc' = "copy" /\ copy' = Nothing
          /\ UNCHANGED <<read_ticket, drained>>
    /\ UNCHANGED <<atomics, slots, threads, last, mixed>>

(* Mutant of Look: an overrun ends the pass. *)
LookNoResync ==
    /\ rpc = "look"
    /\ \/ /\ drained = SIZE \/ seen # expected
          /\ rpc' = "away"
          /\ UNCHANGED <<read_ticket, drained, copy>>
       \/ /\ drained < SIZE /\ seen = expected
          /\ rpc' = "copy" /\ copy' = Nothing
          /\ UNCHANGED <<read_ticket, drained>>
    /\ UNCHANGED <<atomics, slots, threads, last, mixed>>

(* The load of committed: the end of the pass, an overrun, or an event. *)
Look ==
    /\ rpc = "look"
    /\ \/ /\ drained = SIZE \/ seen < expected
          /\ rpc' = "away"
          /\ UNCHANGED <<read_ticket, drained, copy>>
       \/ /\ drained < SIZE /\ seen > expected
          /\ read_ticket' = seen - 1 /\ drained' = drained + 1
          /\ UNCHANGED <<rpc, copy>>
       \/ /\ drained < SIZE /\ seen = expected
          /\ rpc' = "copy" /\ copy' = Nothing
          /\ UNCHANGED <<read_ticket, drained>>
    /\ UNCHANGED <<atomics, slots, threads, last, mixed>>

CopyWord(f) ==
    /\ rpc = "copy" /\ copy[f] = NONE
    /\ copy' = [copy EXCEPT ![f] = word[Slot(read_ticket)][f]]
    /\ UNCHANGED <<atomics, slots, threads, rpc, read_ticket, drained, last, mixed>>

(* Mutant of HandOn: what has piled up behind the event is dropped. *)
HandOnNewest ==
    /\ rpc = "copy" /\ \A f \in FIELDS : copy[f] # NONE
    /\ last' = [sequence |-> expected, event |-> copy, lapped |-> write_ticket > read_ticket + SIZE]
    /\ read_ticket' = write_ticket /\ drained' = drained + 1
    /\ rpc' = "look" /\ copy' = Nothing
    /\ UNCHANGED <<atomics, slots, threads, mixed>>

(* The event goes to the gesture recogniser and to the game's socket; the ghost
   notes whether the ring has been lapped by then. *)
HandOn ==
    /\ rpc = "copy" /\ \A f \in FIELDS : copy[f] # NONE
    /\ last' = [sequence |-> expected, event |-> copy, lapped |-> write_ticket > read_ticket + SIZE]
    /\ read_ticket' = expected /\ drained' = drained + 1
    /\ rpc' = "look" /\ copy' = Nothing
    /\ UNCHANGED <<atomics, slots, threads, mixed>>

-----------------------------------------------------------------------------
Call(t) ==
    \/ LoadMode(t) \/ Unsupported(t) \/ Take(t) \/ Commit(t) \/ Route(t) \/ Leave(t)
    \/ \E f \in FIELDS : Write(t, f)

Drain == BeginDrain \/ Look \/ HandOn \/ \E f \in FIELDS : CopyWord(f)

Next ==
    \/ \E t \in THREADS : Enter(t) \/ Call(t)
    \/ \E m \in {"camera", "doom", "off"} : SetMode(m)
    \/ Drain

(* A call that has entered the hook runs on: nothing in it waits.  The worker
   comes back to the ring after every pass. *)
Fairness == (\A t \in THREADS : WF_vars(Call(t))) /\ WF_vars(Drain)

Spec == Init /\ [][Next]_vars /\ Fairness

-----------------------------------------------------------------------------
TypeOK ==
    /\ ptz_mode \in {"camera", "doom", "off"}
    /\ active_calls \in 0 .. Cardinality(THREADS) /\ write_ticket \in Nat
    /\ committed \in [Slots -> Nat]
    /\ word \in [Slots -> [FIELDS -> Nat \cup {NONE}]]
    /\ tpc \in [THREADS -> {"out", "mode", "take", "write", "route", "consume", "pass"}]
    /\ ticket \in [THREADS -> Nat \cup {NONE}] /\ left \in [THREADS -> SUBSET FIELDS]
    /\ rpc \in {"away", "look", "copy"} /\ read_ticket \in Nat /\ drained \in 0 .. SIZE
    /\ copy \in [FIELDS -> Nat \cup {NONE}]
    /\ last \in [sequence : Nat, event : [FIELDS -> Nat \cup {NONE}], lapped : BOOLEAN]
    /\ mixed \subseteq Nat

(* An event handed on by drain_ptz_events carries the channel, the command and
   the speed of one call, the one its sequence names, unless the ring was lapped
   while it was copied or two producers were in its slot at once: the reader
   does not read committed again after the copy (e1-doom-injected.c:440-442). *)
EventWhole ==
    last.sequence > 0 /\ ~last.lapped /\ last.sequence - 1 \notin mixed =>
        \A f \in FIELDS : last.event[f] = last.sequence - 1

(* No event is handed on twice and none after a later one, whatever the
   producers do to the slots, overruns included. *)
InOrder == [][last' # last => last'.sequence > last.sequence]_vars

(* The reader passes over a ticket only when more calls than the ring has slots
   have been made since: a press is never lost to a slow or a stalled producer. *)
LostOnlyWhenLapped == [][read_ticket' > read_ticket + 1 => write_ticket > read_ticket + SIZE]_vars

(* As long as no producer is overtaken by a whole lap, every call that took a
   ticket is handed on or passed over by the worker in the end. *)
NoneForgotten ==
    [](mixed = {}) => \A n \in 0 .. MAX_CALLS - 1 : (write_ticket > n ~> read_ticket > n)
=============================================================================
