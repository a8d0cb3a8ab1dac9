----------------------------- MODULE AudioHook -----------------------------
(***************************************************************************)
(* The hand-over of the game's audio ring between the injected worker, which*)
(* maps, publishes and unmaps it, and the stock audio thread, which runs    *)
(* e1_audio_pcm_hook_route before each AAC frame.  They share only atomics: *)
(* audio_pcm_mode, audio_pcm_ring, audio_pcm_last_frame and the counter     *)
(* audio_pcm_active_calls.  What is read in the ring is AudioRing's matter; *)
(* a mapping is a number here, 0 is NULL.                                   *)
(*                                                                         *)
(* One step is one access to shared memory.  On ARMv7 the store of          *)
(* audio_pcm_mode that begins a stop may still be in the worker's store     *)
(* buffer (pending) when the worker loads the counter: release and acquire  *)
(* order nothing between the two.  A call that reads the old mode behind a   *)
(* counter the worker has already believed is a stray one.                  *)
(***************************************************************************)
EXTENDS Integers, FiniteSets

CONSTANTS
  THREADS,       \* threads that run the hook; the camera has one
  MARKER_FAILS,  \* write_marker("audio.active", ...) may fail
  ATTEMPTS,      \* loads of the counter before a stop gives up
  MAX_ARMS       \* bound: mappings

ASSUME HookAssumption ==
    /\ IsFiniteSet(THREADS) /\ MARKER_FAILS \in BOOLEAN
    /\ ATTEMPTS \in Nat \ {0} /\ MAX_ARMS \in Nat

VARIABLES
  mode, ring, last, active,         \* the atomics
  pending,                          \* a store of mode not yet visible
  mapped, arms,                     \* the mapping, if any, and how many there were
  wpc, attempt,                     \* the worker
  hook_active, hook_used, hook_mode,\* struct audio_state
  audio_active, injected_error,     \* marker files
  tpc, tring,                       \* each thread: place and the ring it loaded
  stray,                            \* history: threads in a stray call
  spoilt                            \* history: the ring was mapped with a stray call about

atomics == <<mode, ring, last, active, pending>>
state == <<hook_active, hook_used, hook_mode>>
markers == <<audio_active, injected_error>>
threads == <<tpc, tring>>
history == <<stray, spoilt>>
vars == <<atomics, mapped, arms, wpc, attempt, state, markers, threads, history>>

HookModes == {"pass", "tone", "doom"}

Init ==
    /\ mode = "pass" /\ ring = 0 /\ last = 0 /\ active = 0 /\ pending = "none"
    /\ mapped = 0 /\ arms = 0 /\ wpc = "idle" /\ attempt = 0
    /\ hook_active = FALSE /\ hook_used = FALSE /\ hook_mode = "pass"
    /\ audio_active = FALSE /\ injected_error = FALSE
    /\ tpc = [t \in THREADS |-> "out"] /\ tring = [t \in THREADS |-> 0]
    /\ stray = {} /\ spoilt = FALSE

-----------------------------------------------------------------------------
(* e1_audio_pcm_hook_route *)

Enter(t) ==
    /\ tpc[t] = "out"
    /\ active' = active + 1
    /\ tpc' = [tpc EXCEPT ![t] = "mode"]
    /\ UNCHANGED <<mode, ring, last, pending, mapped, arms, wpc, attempt, state, markers, tring, history>>

LoadMode(t) ==
    /\ tpc[t] = "mode"
    /\ tpc' = [tpc EXCEPT ![t] = CASE mode = "doom" -> "ring"
                                   [] mode = "tone" -> "tone"
                                   [] OTHER -> "leave"]
    /\ stray' = IF wpc = "null" /\ mode # "pass" THEN stray \cup {t} ELSE stray
    /\ UNCHANGED <<atomics, mapped, arms, wpc, attempt, state, markers, tring, spoilt>>

(* A frame of the tone, or the one after the last, which ends it. *)
PlayTone(t) ==
    /\ tpc[t] = "tone"
    /\ mode' \in {mode, "pass"}
    /\ tpc' = [tpc EXCEPT ![t] = "leave"]
    /\ UNCHANGED <<ring, last, active, pending, mapped, arms, wpc, attempt, state, markers, tring, history>>

LoadRing(t) ==
    /\ tpc[t] = "ring"
    /\ tring' = [tring EXCEPT ![t] = ring]
    /\ tpc' = [tpc EXCEPT ![t] = IF ring = 0 THEN "leave" ELSE "read"]
    /\ UNCHANGED <<atomics, mapped, arms, wpc, attempt, state, markers, history>>

(* The end of e1_audio_ring_read_next, which reads the mapping for as long as
   the thread is at "read": it found a frame, whose number becomes the last one
   (here: the mapping it is from), or it found none. *)
ReadRing(t) ==
    /\ tpc[t] = "read"
    /\ last' \in {last, tring[t]}
    /\ tpc' = [tpc EXCEPT ![t] = "leave"]
    /\ UNCHANGED <<mode, ring, active, pending, mapped, arms, wpc, attempt, state, markers, tring, history>>

Leave(t) ==
    /\ tpc[t] = "leave"
    /\ active' = active - 1
    /\ tpc' = [tpc EXCEPT ![t] = "out"]
    /\ tring' = [tring EXCEPT ![t] = 0] /\ stray' = stray \ {t}
    /\ UNCHANGED <<mode, ring, last, pending, mapped, arms, wpc, attempt, state, markers, spoilt>>

-----------------------------------------------------------------------------
(* The worker. *)

Drain ==
    /\ pending # "none"
    /\ mode' = pending /\ pending' = "none"
    /\ UNCHANGED <<ring, last, active, mapped, arms, wpc, attempt, state, markers, threads, history>>

(* audio_has_resources; the native encoder path is never open here. *)
HasResources == hook_active \/ mapped # 0

(* Mutant of MapRing: the last frame of the game before is kept. *)
MapRingKeepsLast ==
    /\ wpc = "idle" /\ pending = "none" /\ ~HasResources /\ arms < MAX_ARMS
    /\ arms' = arms + 1 /\ mapped' = arms + 1 /\ ring' = arms + 1
    /\ wpc' = "arm"
    /\ spoilt' = (stray # {})
    /\ UNCHANGED <<mode, last, active, pending, attempt, state, markers, threads, stray>>

(* start_stock_audio_doom up to the store of the pointer.  A missing or invalid
   ring, and a start of either kind while audio has resources, is an error,
   after which the worker stops audio. *)
MapRing ==
    /\ wpc = "idle" /\ pending = "none"
    /\ \/ /\ ~HasResources /\ arms < MAX_ARMS
          /\ arms' = arms + 1 /\ mapped' = arms + 1 /\ ring' = arms + 1 /\ last' = 0
          /\ wpc' = "arm" /\ spoilt' = (stray # {})
          /\ UNCHANGED injected_error
       \/ /\ injected_error' = TRUE
          /\ wpc' = "stop"
          /\ UNCHANGED <<arms, mapped, ring, last, spoilt>>
    /\ UNCHANGED <<mode, active, pending, attempt, state, audio_active, threads, stray>>

ArmDoom ==
    /\ wpc = "arm"
    /\ mode' = "doom"
    /\ hook_active' = TRUE /\ hook_used' = TRUE /\ hook_mode' = "doom"
    /\ wpc' = "mark"
    /\ UNCHANGED <<ring, last, active, pending, mapped, arms, attempt, markers, threads, history>>

(* start_stock_audio_tone *)
StartTone ==
    /\ wpc = "idle" /\ pending = "none" /\ ~HasResources
    /\ mode' = "tone"
    /\ hook_active' = TRUE /\ hook_used' = TRUE /\ hook_mode' = "tone"
    /\ wpc' = "mark"
    /\ UNCHANGED <<ring, last, active, pending, mapped, arms, attempt, markers, threads, history>>

MarkActive ==
    /\ wpc = "mark"
    /\ audio_active' = TRUE
    /\ wpc' = "idle"
    /\ UNCHANGED <<atomics, mapped, arms, attempt, state, injected_error, threads, history>>

(* The marker cannot be written: the start is undone - without a look at
   audio_pcm_active_calls - and the worker reports it and stops audio. *)
MarkFails ==
    /\ wpc = "mark" /\ MARKER_FAILS
    /\ mode' = "pass"
    /\ hook_active' = FALSE /\ hook_mode' = "pass"
    /\ wpc' = IF hook_mode = "doom" THEN "undo" ELSE "stop"
    /\ injected_error' = TRUE
    /\ UNCHANGED <<ring, last, active, pending, mapped, arms, attempt, hook_used, audio_active,
                   threads, history>>

UndoRing ==
    /\ wpc = "undo"
    /\ ring' = 0 /\ wpc' = "undo_map"
    /\ UNCHANGED <<mode, last, active, pending, mapped, arms, attempt, state, markers, threads, history>>

UndoMap ==
    /\ wpc = "undo_map"
    /\ mapped' = 0 /\ wpc' = "stop"
    /\ UNCHANGED <<atomics, arms, attempt, state, markers, threads, history>>

(* audio-stop, stop, quit or the heartbeat dead-man, and the worker's own stop
   after a failed start: cleanup_audio begins. *)
BeginStop ==
    /\ wpc \in {"idle", "stop"} /\ pending = "none"
    /\ IF hook_active \/ hook_used
       THEN /\ pending' = "pass" /\ hook_active' = FALSE
            /\ attempt' = 0 /\ wpc' = "quiesce"
            /\ UNCHANGED markers
       ELSE /\ injected_error' = (injected_error \/ HasResources)
            /\ audio_active' = (audio_active /\ HasResources)
            /\ wpc' = "idle"
            /\ UNCHANGED <<pending, hook_active, attempt>>
    /\ UNCHANGED <<mode, ring, last, active, mapped, arms, hook_used, hook_mode, threads, history>>

(* Mutant of Quiesce: a call under way is not waited for. *)
QuiesceNoWait ==
    /\ wpc = "quiesce"
    /\ wpc' = "null"
    /\ UNCHANGED <<atomics, mapped, arms, attempt, state, markers, threads, history>>

(* Mutant of Quiesce: a stop that gives up removes the marker all the same. *)
QuiesceForgets ==
    /\ wpc = "quiesce"
    /\ \/ /\ attempt < ATTEMPTS /\ active = 0
          /\ wpc' = "null" /\ UNCHANGED <<attempt, markers>>
       \/ /\ attempt < ATTEMPTS /\ active # 0
          /\ attempt' = attempt + 1 /\ UNCHANGED <<wpc, markers>>
       \/ /\ attempt = ATTEMPTS
          /\ wpc' = "idle" /\ injected_error' = TRUE /\ audio_active' = FALSE
          /\ UNCHANGED attempt
    /\ UNCHANGED <<atomics, mapped, arms, state, threads, history>>

(* cleanup_stock_audio_hook: one load of the counter, or the end of the loop;
   the failed stop leaves the mapping and its marker for the next one. *)
Quiesce ==
    /\ wpc = "quiesce"
    /\ \/ /\ attempt < ATTEMPTS /\ active = 0
          /\ wpc' = "null" /\ UNCHANGED <<attempt, injected_error>>
       \/ /\ attempt < ATTEMPTS /\ active # 0
          /\ attempt' = attempt + 1 /\ UNCHANGED <<wpc, injected_error>>
       \/ /\ attempt = ATTEMPTS
          /\ wpc' = "idle" /\ injected_error' = TRUE /\ UNCHANGED attempt
    /\ UNCHANGED <<atomics, mapped, arms, state, audio_active, threads, history>>

StoreNull ==
    /\ wpc = "null" /\ pending = "none"
    /\ ring' = 0 /\ wpc' = "unmap"
    /\ UNCHANGED <<mode, last, active, pending, mapped, arms, attempt, state, markers, threads, history>>

(* munmap, then the markers. *)
GiveBack ==
    /\ wpc = "unmap"
    /\ mapped' = 0 /\ hook_mode' = "pass" /\ audio_active' = FALSE
    /\ wpc' = "idle"
    /\ UNCHANGED <<atomics, arms, attempt, hook_active, hook_used, injected_error, threads, history>>

(* update_stock_audio finds that the tone has played out. *)
ToneOver ==
    /\ wpc = "idle" /\ hook_active /\ hook_mode = "tone" /\ mode = "pass"
    /\ hook_active' = FALSE /\ hook_mode' = "pass" /\ audio_active' = FALSE
    /\ UNCHANGED <<atomics, mapped, arms, wpc, attempt, hook_used, injected_error, threads, history>>

-----------------------------------------------------------------------------
Call(t) == Enter(t) \/ LoadMode(t) \/ PlayTone(t) \/ LoadRing(t) \/ ReadRing(t) \/ Leave(t)

Worker == MapRing \/ ArmDoom \/ StartTone \/ MarkActive \/ MarkFails \/ UndoRing \/ UndoMap
          \/ BeginStop \/ Quiesce \/ StoreNull \/ GiveBack \/ ToneOver

Next == Drain \/ Worker \/ \E t \in THREADS : Call(t)

Spec == Init /\ [][Next]_vars

-----------------------------------------------------------------------------
(* The types; the counter never falls below zero, where it would stay nonzero
   and hold up every later stop. *)
TypeOK ==
    /\ mode \in HookModes /\ pending \in {"none", "pass"}
    /\ ring \in Nat /\ last \in Nat /\ active \in Nat
    /\ mapped \in Nat /\ arms \in Nat /\ attempt \in 0 .. ATTEMPTS
    /\ wpc \in {"idle", "arm", "mark", "undo", "undo_map", "stop", "quiesce", "null", "unmap"}
    /\ hook_active \in BOOLEAN /\ hook_used \in BOOLEAN /\ hook_mode \in HookModes
    /\ audio_active \in BOOLEAN /\ injected_error \in BOOLEAN
    /\ tpc \in [THREADS -> {"out", "mode", "tone", "ring", "read", "leave"}]
    /\ tring \in [THREADS -> Nat]
    /\ stray \subseteq THREADS /\ spoilt \in BOOLEAN

(* When cleanup_stock_audio_hook clears the pointer and unmaps the ring, no
   callback but a stray one reads it or is about to: those that were under way
   have left, and a later one has seen the pass-through mode. *)
QuietUnmap ==
    wpc \in {"null", "unmap"} => \A t \in THREADS \ stray : tpc[t] \notin {"ring", "read"}

(* IMPLEMENTATION.md:344: "on exit it switches to pass-through, waits for active
   callbacks to quiesce, unmaps the ring": when the ring is unmapped no callback,
   stray or not, reads it. *)
NoReaderLeft == wpc = "unmap" => \A t \in THREADS : tpc[t] # "read"

(* With audio.active gone and the worker between commands, nothing of a start
   is left behind: no mapping, no published pointer, and microphone sound on its
   way to the encoder.  The coordinator goes on with the recovery on the
   strength of that marker. *)
MarkerHonest ==
    ~audio_active /\ wpc = "idle" => /\ mode = "pass" /\ ring = 0 /\ mapped = 0
                                     /\ ~hook_active

(* While audio.active is there for the game, the hook really plays the ring that
   is mapped and counts its frames from that ring's start: no call left over
   from an earlier tone or game has switched the mode back or set the last frame.
   It holds up to the first error - a call that outlasts the wait of a stop can
   do both, and the coordinator cleans up on injected.error - and unless a stray
   call of the stop before was still about when the ring was mapped. *)
OwnsStream ==
    audio_active /\ hook_active /\ hook_mode = "doom" /\ ~injected_error /\ ~spoilt =>
        /\ mode = "doom" /\ pending = "none"
        /\ mapped # 0 /\ ring = mapped /\ last \in {0, mapped}
=============================================================================
