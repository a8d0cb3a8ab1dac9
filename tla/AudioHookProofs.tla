-------------------------- MODULE AudioHookProofs --------------------------
(***************************************************************************)
(* For any finite set of threads that run the hook: a stop that finds the   *)
(* counter at zero unmaps a ring that only a stray call may read, and       *)
(* without the marker the worker has left nothing behind.  For one thread,  *)
(* the game's stream is its own up to the first error or stray call.        *)
(***************************************************************************)
EXTENDS AudioHook, FiniteSetTheorems, TLAPS

(* The calls audio_pcm_active_calls stands for. *)
Inside == {t \in THREADS : tpc[t] # "out"}

Counted == active = Cardinality(Inside)

(* The mode is pass-through, or about to be, from the moment a stop may find the
   counter at zero, and stays so while the ring goes. *)
Passing ==
    /\ pending = "pass" => wpc \in {"quiesce", "null", "idle"} /\ ~hook_active
    /\ wpc = "unmap" => pending = "none"
    /\ wpc \in {"quiesce", "null", "unmap"} => ~hook_active /\ (pending = "none" => mode = "pass")

(* Nothing of a start is left. *)
Nothing == ~hook_active /\ mode = "pass" /\ mapped = 0 /\ ring = 0

(* What the worker owns at each of its places. *)
Owned ==
    /\ wpc \in {"idle", "stop", "quiesce"} => audio_active \/ Nothing
    /\ wpc \in {"undo", "undo_map"} => ~hook_active /\ mode = "pass"
    /\ wpc \in {"unmap", "undo_map"} \/ mapped = 0 => ring = 0
    /\ wpc = "mark" => hook_active
    /\ hook_active /\ hook_mode # "doom" => mapped = 0
    /\ hook_active \/ mode # "pass" \/ (mapped # 0 /\ wpc # "arm") => hook_used

IInv == TypeOK /\ Counted /\ Passing /\ QuietUnmap /\ Owned

(* A thread that enters or leaves changes the number of calls by one. *)
LEMMA CountCalls ==
    ASSUME NEW S \in SUBSET THREADS, NEW t \in THREADS
    PROVE  /\ Cardinality(S) \in Nat
           /\ Cardinality(S) = 0 => S = {}
           /\ t \notin S => Cardinality(S \cup {t}) = Cardinality(S) + 1
           /\ t \in S => Cardinality(S \ {t}) = Cardinality(S) - 1
<1>1. IsFiniteSet(S)
  BY HookAssumption, FS_Subset
<1>2. Cardinality(S) \in Nat /\ (Cardinality(S) = 0 => S = {})
  BY <1>1, FS_CardinalityType, FS_EmptySet
<1>3. t \notin S => Cardinality(S \cup {t}) = Cardinality(S) + 1
  BY <1>1, FS_AddElement
<1>4. t \in S => Cardinality(S \ {t}) = Cardinality(S) - 1
  BY <1>1, FS_RemoveElement
<1> QED
  BY <1>2, <1>3, <1>4

(* The types, the counter not negative, hold along every step. *)
LEMMA TypeStep ==
    ASSUME TypeOK, Counted, Next
    PROVE  TypeOK'
<1> USE HookAssumption DEF TypeOK, HookModes
<1>1. CASE Drain
  BY <1>1 DEF Drain, atomics, state, markers, threads, history
<1>2. CASE MapRing
  <2>1. arms' \in Nat /\ mapped' \in Nat /\ ring' \in Nat /\ last' \in Nat
    BY <1>2 DEF MapRing
  <2>2. injected_error' \in BOOLEAN
    BY <1>2 DEF MapRing
  <2> QED
    BY <2>1, <2>2, <1>2 DEF MapRing, state, threads, history
<1>3. CASE ArmDoom
  BY <1>3 DEF ArmDoom, atomics, state, markers, threads, history
<1>4. CASE StartTone
  BY <1>4 DEF StartTone, atomics, state, markers, threads, history
<1>5. CASE MarkActive
  BY <1>5 DEF MarkActive, atomics, state, markers, threads, history
<1>6. CASE MarkFails
  BY <1>6 DEF MarkFails, atomics, state, markers, threads, history
<1>7. CASE UndoRing
  BY <1>7 DEF UndoRing, atomics, state, markers, threads, history
<1>8. CASE UndoMap
  BY <1>8 DEF UndoMap, atomics, state, markers, threads, history
<1>9. CASE BeginStop
  <2>1. attempt' \in 0 .. ATTEMPTS
    BY <1>9 DEF BeginStop
  <2>2. /\ hook_active' \in BOOLEAN /\ audio_active' \in BOOLEAN /\ injected_error' \in BOOLEAN
        /\ wpc' \in {"quiesce", "idle"} /\ pending' \in {"none", "pass"}
    BY <1>9, Zenon DEF BeginStop, markers
  <2> QED
    BY <2>1, <2>2, <1>9 DEF BeginStop, threads, history
<1>10. CASE Quiesce
  <2>1. attempt' \in 0 .. ATTEMPTS
    BY <1>10 DEF Quiesce
  <2>2. injected_error' \in BOOLEAN /\ wpc' \in {"null", "idle", "quiesce"}
    BY <1>10 DEF Quiesce
  <2> QED
    BY <2>1, <2>2, <1>10 DEF Quiesce, atomics, state, threads, history
<1>11. CASE StoreNull
  BY <1>11 DEF StoreNull, atomics, state, markers, threads, history
<1>12. CASE GiveBack
  BY <1>12 DEF GiveBack, atomics, state, markers, threads, history
<1>13. CASE ToneOver
  BY <1>13 DEF ToneOver, atomics, state, markers, threads, history
<1>14. ASSUME NEW t \in THREADS, Enter(t) PROVE TypeOK'
  BY <1>14 DEF Enter, atomics, state, markers, history
<1>15. ASSUME NEW t \in THREADS, LoadMode(t) PROVE TypeOK'
  BY <1>15 DEF LoadMode, atomics, state, markers, history
<1>16. ASSUME NEW t \in THREADS, PlayTone(t) PROVE TypeOK'
  BY <1>16 DEF PlayTone, atomics, state, markers, history
<1>17. ASSUME NEW t \in THREADS, LoadRing(t) PROVE TypeOK'
  BY <1>17 DEF LoadRing, atomics, state, markers, history
<1>18. ASSUME NEW t \in THREADS, ReadRing(t) PROVE TypeOK'
  BY <1>18 DEF ReadRing, atomics, state, markers, history
<1>19. ASSUME NEW t \in THREADS, Leave(t) PROVE TypeOK'
  <2>1. t \in Inside /\ Inside \in SUBSET THREADS
    BY <1>19 DEF Leave, Inside
  <2>2. active - 1 \in Nat
    BY <2>1, CountCalls DEF Counted
  <2> QED
    BY <2>2, <1>19 DEF Leave, state, markers, history
<1> QED
  BY <1>1, <1>2, <1>3, <1>4, <1>5, <1>6, <1>7, <1>8, <1>9, <1>10, <1>11, <1>12, <1>13, <1>14,
     <1>15, <1>16, <1>17, <1>18, <1>19 DEF Next, Worker, Call

(* The counter is the number of calls under way. *)
LEMMA CountStep ==
    ASSUME TypeOK, Counted, Next
    PROVE  Counted'
<1> USE DEF TypeOK, Counted
<1> Inside \in SUBSET THREADS
  BY DEF Inside
<1>1. ASSUME NEW t \in THREADS, Enter(t) PROVE Counted'
  <2>1. t \notin Inside /\ Inside' = Inside \cup {t}
    BY <1>1 DEF Enter, Inside
  <2> QED
    BY <2>1, <1>1, CountCalls DEF Enter
<1>2. ASSUME NEW t \in THREADS, Leave(t) PROVE Counted'
  <2>1. t \in Inside /\ Inside' = Inside \ {t}
    BY <1>2 DEF Leave, Inside
  <2> QED
    BY <2>1, <1>2, CountCalls DEF Leave
<1>3. ASSUME NEW t \in THREADS, LoadMode(t) \/ PlayTone(t) \/ LoadRing(t) \/ ReadRing(t)
      PROVE  Counted'
  <2>1. Inside' = Inside
    BY <1>3 DEF LoadMode, PlayTone, LoadRing, ReadRing, Inside
  <2> QED
    BY <2>1, <1>3 DEF LoadMode, PlayTone, LoadRing, ReadRing, atomics
<1>4. CASE Drain \/ Worker
  <2>1. UNCHANGED <<active, tpc>>
    BY <1>4 DEF Drain, Worker, MapRing, ArmDoom, StartTone, MarkActive, MarkFails, UndoRing,
                UndoMap, BeginStop, Quiesce, StoreNull, GiveBack, ToneOver, atomics, threads, history
  <2> QED
    BY <2>1 DEF Inside
<1> QED
  BY <1>1, <1>2, <1>3, <1>4 DEF Next, Call

(* A worker's step, and what it owns: one step per action. *)
LEMMA OwnStep ==
    ASSUME TypeOK, Passing, Owned, Next
    PROVE  Passing' /\ Owned'
<1> USE DEF TypeOK, Passing, Owned, Nothing, HookModes
<1>1. CASE Drain
  BY <1>1 DEF Drain, atomics, state, markers, threads, history
<1>2. CASE MapRing
  BY <1>2 DEF MapRing, HasResources, atomics, state, markers, threads, history
<1>3. CASE ArmDoom
  BY <1>3 DEF ArmDoom, atomics, state, markers, threads, history
<1>4. CASE StartTone
  BY <1>4 DEF StartTone, HasResources, atomics, state, markers, threads, history
<1>5. CASE MarkActive
  BY <1>5 DEF MarkActive, atomics, state, markers, threads, history
<1>6. CASE MarkFails
  BY <1>6 DEF MarkFails, atomics, state, markers, threads, history
<1>7. CASE UndoRing
  BY <1>7 DEF UndoRing, atomics, state, markers, threads, history
<1>8. CASE UndoMap
  BY <1>8 DEF UndoMap, atomics, state, markers, threads, history
<1>9. CASE BeginStop
  BY <1>9 DEF BeginStop, HasResources, atomics, state, markers, threads, history
<1>10. CASE Quiesce
  BY <1>10 DEF Quiesce, atomics, state, markers, threads, history
<1>11. CASE StoreNull
  BY <1>11 DEF StoreNull, atomics, state, markers, threads, history
<1>12. CASE GiveBack
  BY <1>12 DEF GiveBack, atomics, state, markers, threads, history
<1>13. CASE ToneOver
  BY <1>13 DEF ToneOver, atomics, state, markers, threads, history
<1>14. ASSUME NEW t \in THREADS, Call(t) PROVE Passing' /\ Owned'
  <2>1. /\ UNCHANGED <<ring, pending, mapped, wpc, state, audio_active>>
        /\ mode' \in {mode, "pass"}
    BY <1>14 DEF Call, Enter, LoadMode, PlayTone, LoadRing, ReadRing, Leave, atomics, state, markers,
       history
  <2> QED
    BY <2>1 DEF state
<1> QED
  BY <1>1, <1>2, <1>3, <1>4, <1>5, <1>6, <1>7, <1>8, <1>9, <1>10, <1>11, <1>12, <1>13, <1>14
  DEF Next, Worker

(* The counter read as zero means that every thread is out; a thread that comes
   in afterwards reads the pass-through mode, or is a stray one. *)
LEMMA QuietStep ==
    ASSUME TypeOK, Counted, Passing, QuietUnmap, Next
    PROVE  QuietUnmap'
<1> USE DEF TypeOK, QuietUnmap
<1>1. CASE Quiesce
  <2>1. active = 0 => \A t \in THREADS : tpc[t] = "out"
    <3> SUFFICES ASSUME active = 0, NEW t \in THREADS PROVE tpc[t] = "out"
      OBVIOUS
    <3>1. Inside \in SUBSET THREADS /\ Cardinality(Inside) = 0
      BY DEF Inside, Counted
    <3>2. Inside = {}
      BY <3>1, CountCalls
    <3> QED
      BY <3>2 DEF Inside
  <2> QED
    BY <2>1, <1>1 DEF Quiesce, threads, history
<1>2. ASSUME NEW t \in THREADS, LoadMode(t) PROVE QuietUnmap'
  BY <1>2 DEF LoadMode, Passing, atomics
<1>3. ASSUME NEW t \in THREADS, Enter(t) \/ PlayTone(t) \/ LoadRing(t) \/ ReadRing(t) \/ Leave(t)
      PROVE  QuietUnmap'
  BY <1>3 DEF Enter, PlayTone, LoadRing, ReadRing, Leave, history
<1>4. CASE Drain \/ StoreNull
  BY <1>4 DEF Drain, StoreNull, threads, history
<1>5. CASE Worker /\ ~Quiesce /\ ~StoreNull
  <2>1. wpc' \notin {"null", "unmap"} \/ UNCHANGED <<wpc, tpc, stray>>
    BY <1>5 DEF Worker, MapRing, ArmDoom, StartTone, MarkActive, MarkFails, UndoRing, UndoMap,
                BeginStop, GiveBack, ToneOver, threads, history
  <2> QED
    BY <2>1
<1> QED
  BY <1>1, <1>2, <1>3, <1>4, <1>5 DEF Next, Worker, Call

(* The worker starts with nothing mapped and no call under way. *)
LEMMA InitInv == Init => IInv
<1> SUFFICES ASSUME Init PROVE IInv
  OBVIOUS
<1>1. TypeOK
  <2>1. attempt \in 0 .. ATTEMPTS
    BY HookAssumption DEF Init
  <2>2. tpc \in [THREADS -> {"out"}] /\ tring \in [THREADS -> {0}]
    BY DEF Init
  <2> QED
    BY <2>1, <2>2 DEF Init, TypeOK, HookModes
<1>2. Passing /\ QuietUnmap /\ Owned
  BY DEF Init, Passing, QuietUnmap, Owned, Nothing
<1>3. Inside = {}
  BY DEF Init, Inside
<1>4. Counted
  BY <1>3, FS_EmptySet DEF Init, Counted
<1> QED
  BY <1>1, <1>2, <1>4 DEF IInv

(* The inductive invariant. *)
THEOREM Inductive == Spec => []IInv
<1>1. IInv /\ [Next]_vars => IInv'
  <2> SUFFICES ASSUME IInv, [Next]_vars PROVE IInv'
    OBVIOUS
  <2>1. CASE Next
    BY <2>1, TypeStep, CountStep, OwnStep, QuietStep DEF IInv
  <2>2. CASE UNCHANGED vars
    BY <2>2 DEF IInv, TypeOK, Counted, Inside, Passing, QuietUnmap, Owned, Nothing, vars, atomics,
                state, markers, threads, history
  <2> QED
    BY <2>1, <2>2
<1> QED
  BY InitInv, <1>1, PTL DEF Spec

(* cleanup_stock_audio_hook never unmaps a ring a callback reads or is about to
   read, however many threads run the hook, but for a call that read the old mode
   behind the counter: nothing but the missing barrier can go wrong. *)
THEOREM QuietUnmapHolds == Spec => []QuietUnmap
<1>1. IInv => QuietUnmap
  BY DEF IInv
<1> QED
  BY <1>1, Inductive, PTL

(* Without audio.active, and the worker between commands, the microphone has
   the stream back and nothing is mapped: also after a start that failed at any
   point and a stop that gave up. *)
THEOREM MarkerHonestHolds == Spec => []MarkerHonest
<1>1. IInv => MarkerHonest
  BY DEF IInv, Owned, Nothing, MarkerHonest
<1> QED
  BY <1>1, Inductive, PTL

-----------------------------------------------------------------------------
(* The one audio thread of the camera. *)

(* Up to the first error: what a call under way has to do with the mode and the
   mapping ... *)
CallInv == ~injected_error =>
    \A t \in THREADS \ stray :
      /\ tpc[t] = "tone" => (mode = "tone" /\ wpc \notin {"null", "unmap"}) \/ wpc = "quiesce"
      /\ tpc[t] \in {"ring", "read"} => mapped # 0
      /\ tpc[t] = "read" => tring[t] = mapped

(* ... and what the worker has published. *)
StreamInv == ~injected_error =>
    /\ wpc \notin {"stop", "undo", "undo_map"}
    /\ wpc = "idle" => pending = "none"
    /\ wpc \in {"idle", "arm"} /\ ~hook_active => mode = "pass"
    /\ wpc = "arm" => mapped # 0 /\ ~hook_active
    /\ mode = "doom" \/ (hook_active /\ hook_mode = "doom") => mapped # 0
    /\ hook_active /\ hook_mode = "doom" /\ ~spoilt => mode = "doom"
    /\ mapped # 0 /\ ~spoilt /\ wpc \notin {"null", "unmap"} => last \in {0, mapped} /\ stray = {}
    /\ wpc # "unmap" => ring = mapped

(* An error stays reported. *)
LEMMA ErrorStays == ASSUME TypeOK, [Next]_vars, ~injected_error' PROVE ~injected_error
<1> USE DEF TypeOK, vars, markers
<1>1. CASE BeginStop
  BY <1>1, Zenon DEF BeginStop
<1>2. CASE Worker /\ ~BeginStop
  BY <1>2 DEF Worker, MapRing, ArmDoom, StartTone, MarkActive, MarkFails, UndoRing, UndoMap, Quiesce,
     StoreNull, GiveBack, ToneOver
<1>3. ASSUME NEW t \in THREADS, Call(t) PROVE ~injected_error
  BY <1>3 DEF Call, Enter, LoadMode, PlayTone, LoadRing, ReadRing, Leave
<1> QED
  BY <1>1, <1>2, <1>3 DEF Next, Drain

(* Every step keeps them, when one thread runs the hook: with two, one may still
   be in a tone that the other has ended, and switch a later game off. *)
LEMMA StreamStep ==
    ASSUME NEW only, THREADS = {only}, IInv, CallInv, StreamInv, [Next]_vars
    PROVE  CallInv' /\ StreamInv'
<1> SUFFICES ASSUME ~injected_error' PROVE CallInv' /\ StreamInv'
  BY DEF CallInv, StreamInv
<1>0. ~injected_error
  BY ErrorStays DEF IInv
<1> USE <1>0 DEF CallInv, StreamInv, IInv, TypeOK, Passing, HookModes
<1>1. CASE Drain
  <2>1. /\ wpc \in {"quiesce", "null"} /\ mode' = "pass" /\ pending' = "none" /\ ~hook_active
        /\ UNCHANGED <<ring, last, mapped, wpc, state, markers, threads, history>>
    BY <1>1 DEF Drain
  <2>2. CallInv'
    BY <2>1 DEF markers, threads, history
  <2>3. StreamInv'
    BY <2>1 DEF state, markers, history
  <2> QED
    BY <2>2, <2>3
<1>2. CASE MapRing
  <2>1. /\ ~hook_active /\ mapped = 0 /\ wpc = "idle" /\ wpc' = "arm"
        /\ mapped' # 0 /\ ring' = mapped' /\ last' = 0
        /\ UNCHANGED <<mode, pending, state, threads, stray>>
    BY <1>2 DEF MapRing, HasResources
  <2>2. ~spoilt' => stray = {}
    BY <1>2 DEF MapRing
  <2>3. CallInv'
    BY <2>1 DEF threads
  <2>4. StreamInv'
    BY <2>1, <2>2 DEF state
  <2> QED
    BY <2>3, <2>4
<1>3. CASE ArmDoom
  BY <1>3 DEF ArmDoom, markers, threads, history
<1>4. CASE StartTone
  BY <1>4 DEF StartTone, HasResources, markers, threads, history
<1>5. CASE MarkActive
  BY <1>5 DEF MarkActive, Owned, atomics, state, threads, history
<1>6. CASE MarkFails
  BY <1>6 DEF MarkFails
<1>7. CASE UndoRing \/ UndoMap
  BY <1>7 DEF UndoRing, UndoMap
<1>8. CASE BeginStop
  BY <1>8 DEF BeginStop, Owned, HasResources, markers, threads, history
<1>9. CASE Quiesce
  <2>1. active = 0 => tpc[only] = "out"
    <3>1. Inside \in SUBSET THREADS
      BY DEF Inside
    <3>2. active = 0 => Inside = {}
      BY <3>1, CountCalls DEF Counted
    <3> QED
      BY <3>2 DEF Inside
  <2> QED
    BY <1>9, <2>1 DEF Quiesce, atomics, state, threads, history
<1>10. CASE StoreNull
  BY <1>10 DEF StoreNull, state, markers, threads, history
<1>11. CASE GiveBack
  BY <1>11 DEF GiveBack, QuietUnmap, Owned, atomics, threads, history
<1>12. CASE ToneOver
  BY <1>12 DEF ToneOver, atomics, threads, history
<1>13. ASSUME Enter(only) PROVE CallInv' /\ StreamInv'
  BY <1>13 DEF Enter, state, markers, history
<1>14. ASSUME LoadMode(only) PROVE CallInv' /\ StreamInv'
  BY <1>14 DEF LoadMode, atomics, state, markers, history
<1>15. ASSUME PlayTone(only) PROVE CallInv' /\ StreamInv'
  BY <1>15 DEF PlayTone, state, markers, history
<1>16. ASSUME LoadRing(only) PROVE CallInv' /\ StreamInv'
  BY <1>16 DEF LoadRing, QuietUnmap, atomics, state, markers, history
<1>17. ASSUME ReadRing(only) PROVE CallInv' /\ StreamInv'
  BY <1>17 DEF ReadRing, state, markers, history
<1>18. ASSUME Leave(only) PROVE CallInv' /\ StreamInv'
  BY <1>18 DEF Leave, state, markers, history
<1>19. CASE UNCHANGED vars
  BY <1>19 DEF vars, atomics, state, markers, threads, history
<1> QED
  BY <1>1, <1>2, <1>3, <1>4, <1>5, <1>6, <1>7, <1>8, <1>9, <1>10, <1>11, <1>12, <1>13, <1>14, <1>15,
     <1>16, <1>17, <1>18, <1>19 DEF Next, Worker, Call

(* OwnsStream: while the game has the marker, nothing has failed and no stray call
   was about when its ring was mapped, the one audio thread plays the mapped ring,
   from that ring's start. *)
THEOREM OwnsStreamHolds ==
    ASSUME NEW only, THREADS = {only}
    PROVE  Spec => []OwnsStream
<1>1. Init => CallInv /\ StreamInv
  BY DEF Init, CallInv, StreamInv
<1>2. IInv /\ CallInv /\ StreamInv /\ [Next]_vars => CallInv' /\ StreamInv'
  BY StreamStep
<1>3. IInv /\ StreamInv => OwnsStream
  BY DEF IInv, Passing, Owned, StreamInv, OwnsStream, TypeOK
<1> QED
  BY <1>1, <1>2, <1>3, Inductive, PTL DEF Spec
=============================================================================
