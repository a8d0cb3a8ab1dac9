# E1 Doom in TLA+

E1 Doom replaces the picture and the microphone of a Reolink E1 camera by a
running game of Doom, on demand, and gives both back. This directory is a
formal model of the parts of that program where several processes and threads
meet, with the TLC configurations that check it and proofs checked by TLAPS.

Paths below are relative to the repository root.

## 1. Inventory

### Actors

| Actor | Code | State it owns |
|---|---|---|
| stock `device` threads, through two instruction patches | `src/camera/e1-ptz-hook.S`, `e1-audio-hook.S`, the `*_hook_route` functions of `e1-doom-injected.c` | active-call counters, PTZ ticket ring, the callback's place in the audio ring |
| injected worker thread | `e1-doom-injected.c` (`worker`) | `control` (mode, gesture recogniser), `ptz_mode`, media and audio resources |
| coordinator | `target/e1-doom-runtime` | `game_pid`, `controller_pid`, `audio_doom`, `stop_requested` |
| controller | `i_input_e1.c` built standalone | HTTP clients, held keys, heartbeat deadline |
| game | Woof with `src/platform/e1` | framebuffer and audio ring (producer), key state |
| patch supervisors, dead-men, watchdog, finalisation | `e1-ptz-patch-supervisor.c`, `target/e1-*` | saved instruction bytes, recovery markers |
| launcher, boot service | `target/e1-doom-run`, `target/e1-doom-boot` | lock, retry count |

They share two memory-mapped files (`audio.pcm`, `framebuffer.shm`), a datagram
socket (`ptz.sock`) and some thirty marker files in one state directory. There
is no lock across processes: every protocol is a sequence lock, a ticket or
the existence and contents of a file.

### Components, operations and what makes them correct

* **Audio ring** (`e1-audio-ring.c`, `i_sound_e1.c`). Producer: `publish_frame`,
  `fill_audio_prebuffer`; consumer: `e1_audio_ring_read_next` in the AAC
  callback. Correct if the encoder only ever gets whole frames in increasing
  order or silence, if flow control never lets the producer lap the reader, and
  if neither side starves the other.
* **Runtime lifecycle** (`worker`, `e1-doom-runtime`). Operations: start
  request, readiness gate, audio arming, entry melt, exit melt, reaping,
  shutdown, and every failure on the way. Correct if the camera, microphone and
  motors always come back, there is one game at most, and the microphone is
  back before a game is killed.
* **Gesture recogniser** (`e1-runtime-control.h`). Correct if only a complete
  gesture changes the mode, one worker pass begins at most one melt, and mode and
  media part only where the code parts them: by the dead-man, a stop or
  `ptz-camera`.
* **Audio hook hand-over** (`start_stock_audio_doom`, `cleanup_stock_audio_hook`,
  `e1_audio_pcm_hook_route`). Correct if the worker never unmaps the ring under
  a callback.
* **PTZ ticket ring** (`e1_ptz_hook_route`, `drain_ptz_events`). Correct if no
  event is seen twice, torn or out of order, and an overrun loses only old ones.
* **Frame publication** (`i_video_e1.c`, `convert_doom_frame`). Correct if no
  torn frame is presented as stable and drops are counted once.
* **OSG media resources** (`start_media`, `cleanup_media`). Correct if every
  partial failure releases what was acquired, in reverse order.
* **PTZ key adapter, browser controller** (`e1-ptz-input.h`, `i_input_e1.c`).
  Correct if a key is down while somebody holds it and no longer than that.
* **Melt, mixer** (`e1-melt.h`, `e1-sfx-mixer.c`). Bounded algorithms.
* **Patch supervisor and recovery scripts** (`e1-ptz-patch-supervisor.c`,
  `target/e1-injected-*`, `e1-*-deadman`, `e1-runtime-watchdog`). Correct if the
  original bytes are always put back and the library is unloaded only when no
  callback can be in it.

### What is hard

Interleavings of unsynchronised processes (torn memory, torn files, check then
act on marker files); bounded waits that give up while the answer is on its
way; failures in the middle of hand-overs; liveness of two pollers that wait
for each other. `PROJECT.json` lists each hazard at its line.

## 2. Modules

| Module | Models |
|---|---|
| `AudioStream` | what the audio ring promises: an ordered stream of whole frames or silence |
| `AudioRing` | the ring, mixer thread and callback, one step per shared-memory access |
| `AudioHook` | worker and audio callbacks around the mapping of the ring |
| `PtzRing` | the camera threads that log PTZ calls and the worker that drains them |
| `FrameSlot` | the single-slot sequence lock between the game's display and the worker: what the frame protocol is |
| `Melt` | the clock, the fall and the composition of a melt, as operators |
| `Media` | the worker's media session: resources, presentation, melts, markers; extends `FrameSlot` and `Melt` |
| `RuntimeControl`, `MCRuntimeControl` | the gesture recogniser as the worker drives it |
| `Keys` | browser codes and PTZ commands on their way to the keys the game sees |
| `Lifecycle` | worker, coordinator, controller and game through the marker files |
| `Recovery` | patch supervisors, watchdog, dead-men, finalisation and unloading |
| `AudioRingProofs`, `AudioHookProofs`, `PtzRingProofs`, `MediaProofs`, `RuntimeControlProofs`, `KeysProofs`, `LifecycleProofs`, `RecoveryProofs` | the inductive invariant and the theorems of each; `MediaProofs` has those of `FrameSlot` and `Melt` too |

A definition with the comment "Mutant of X" is a deliberate fault in X. It is
used by nothing; putting it in X's place shows that a property really depends on
what X does.

How the modules fit together. `Lifecycle` is the whole runtime at the level of
files; each other module opens one part of it: `RuntimeControl` says which
gestures it may see, `Media` what its media flag stands for, `AudioHook` and
`AudioRing` its audio flag, `Keys` what its modes and its `stop_game` mean for
keys, `Recovery` what comes between the last game and the unloading. `Media`
uses the steps of `FrameSlot` as they are, so what is proved of the frame
protocol holds in it.

### AudioRing

Variables `published`, `consumed`, `seq`, `cell` are the mapped
`struct e1_audio_ring`; a frame's samples are abstracted to its number, three
words per slot (`frame_number` and two halves of the samples), so a torn copy is
one whose words disagree. The two full barriers of each side delimit *sets* of
words written or read in any order (`pput`, `cget`), which is what the ARM
memory model leaves open; across a barrier steps are in program order.
`BeginPublish`, `WriteWord`, `EndWrite`, `Publish` are `publish_frame`;
`EndFill` ends a pass of `fill_audio_prebuffer`; `BeginRead` ... `Acknowledge`
are `e1_audio_ring_read_next` with its two attempts; `Reattach` is an
audio-stop followed by an audio-stock-doom on the same ring. Frame numbers do
not wrap: a 32-bit count of 64 ms frames lasts over eight years.

### Lifecycle

One process is one program counter; one step is what it does between two
accesses to a file somebody else touches. `write_marker` on `runtime.mode` is
two steps (`TruncateMode`, `WriteMode`) because the file is opened with
`O_TRUNC`; `read_command` is two (read, unlink). The other markers are only
tested for existence and change in one step. Commands are sent by `mv`, so they
are atomic but can be overwritten. What gesture a user makes is a free choice;
`RuntimeControl` models how it is recognised.

Every cleanup may fail wherever the code calls it: in the dead-man, in `stop`,
`audio-stop` and `quit`, after a failed start, at the end of the exit melt and
when presentation fails. `media` is then `stuck` (part of the path is left, the
frame source is closed), `audio` is `stuck` (the microphone has the stream, ring
and marker stay); both are reported in `injected.error` and tried again by the
next command. `quit` ends the loop only when both cleanups returned 0; the pass
goes on to its end and `Leave` is what follows the loop, with the two cleanups
whose results are ignored. The coordinator sends `quit` twice, then `Verify`
decides between `runtime-restored`, on which the watchdog is disarmed, and
`runtime-cleanup.failed` (`outcome`).

Faults are kinds, and a kind that has happened may happen again: a heartbeat loss
of four seconds, a media failure, a game that dies (with or without removing
`game.ready`), a controller that dies, a failing cleanup, and a worker that is
slow: a wait of the coordinator (5 s) or a sleep of it (1 s) ends before the
worker (a pass every half frame interval) has dealt with the command. Shutdown is
modelled to the worker's exit; the patch restoration between `stop_game` and
`quit`, and a coordinator that dies in its cleanup and leaves the rest to the
detached watchdog, are in `Recovery`.

### RuntimeControl

The functions of the header are operators on a record with the fields of
`struct e1_runtime_control`. One pass of the worker is `Command` (the heartbeat
dead-man, `stop` and `ptz-camera`), `DashboardRequests`, any number of
`DrainEvent`, `BeginMelt` (deferral without a ready game, tick, beginning a melt,
which may fail) and `Present`. `live` is a started path with a frame source,
`melt` the melt it is in. The dead-man and `stop` take the media and leave the
mode; `ptz-camera` resets the mode and leaves the media: `apart` remembers
whether either has happened since mode and media last agreed. The laboratory
commands (`doom`, `transparent`, `checkerboard`, `alloc`) and `ptz-doom` and
`ptz-off`, which no script sends to an armed runtime, are not in this module. In camera mode `DrainEvent`
adds the synthesized stop one millisecond later, as `drain_ptz_events` does.
`hist` is history: the events since the recogniser last started afresh. The
gestures the properties speak of are defined over `hist`, independently of the
counters of the code.

### AudioHook

The four atomics `audio_pcm_mode`, `audio_pcm_ring`, `audio_pcm_last_frame`,
`audio_pcm_active_calls` are `mode`, `ring`, `last`, `active`; one step is one
access to them. `Enter` ... `Leave` are `e1_audio_pcm_hook_route`, once per
thread; `MapRing`, `ArmDoom`, `MarkActive` are `start_stock_audio_doom` and
`MarkFails`, `UndoRing`, `UndoMap` its error path; `StartTone` and `ToneOver`
are the bounded test tone; `BeginStop`, `Quiesce`, `StoreNull`, `GiveBack` are
`cleanup_audio` with `cleanup_stock_audio_hook`, whose hundred looks at the
counter are `ATTEMPTS`. A mapping is a number and a frame's number is the
mapping it came from.

`pending` is the worker's store buffer. The code has a release store of the mode
(line 1226) and an acquire load of the counter (line 1230) with nothing between
them, and on a multi-core ARMv7 that does not order the two: the counter may be
read while the store is still on its way (`Drain`). A callback that then loads
the old mode, behind a counter the worker has already believed, is *stray*; the
run `hook_unfenced` shows what it can do. `QuietUnmap` and `OwnsStream` say what
the counter does achieve: nobody but a stray call is left in the ring, and a
game's stream is its own unless a stray call was still about when its ring was
mapped (`spoilt`). A full barrier between the two lines would leave no stray
call. The camera has one audio thread; `OwnsStream` and its theorem need that,
the other theorems do not.

### PtzRing

`ptz_mode`, `active_calls`, `write_ticket` and the slots' `committed` and words
are the atomics of `e1-doom-injected.c`; `Enter` ... `Leave` are
`e1_ptz_hook_route` in a thread of the camera, `BeginDrain`, `Look`, `CopyWord`,
`HandOn` are `drain_ptz_events`. A word's value is the ticket of the call that
wrote it, so a torn event is one whose words disagree. The words between the
ticket and the commit are relaxed stores and may be written in any order. The
worker does not look at `committed` again after it has copied a slot; a producer
one lap ahead, or an overtaken one that wakes up, can therefore mix two events.
The ghost `mixed` has the tickets whose slot two producers were in, and `EventWhole` says
that those and a lap are the only ways to get a mixed event. Tickets do not
wrap: 32 bits of PTZ calls.

### FrameSlot, Melt and Media

`FrameSlot` has the game (`InitGraphics`, `BeginFrameWrite`, `Draw`, `EndFrame`,
`CountFrame`, `SignalGameReady`, `GameEnds`) and the reader (`LoadFrame`,
`LoadSlot`, `ConvertCell`, `CheckSlot`, `CheckFrame`, `TakeFrame`). A cell stands
for a piece of palette or pixels that is copied on its own; its value is the
frame it belongs to. The frame counter is incremented after the slot's
sequence, so frame n + 1 can be accepted under the number n; it is whole
nevertheless, and that is what the property asks.

`Melt` translates `e1-melt.h`: `Ticks` and `ClockAfter` are the tick clock with
its remainder, `Fall` a column, `ScaledRow` and `Behind` the composition. `Media`
is `start_media` call by call (`OpenSource`, `Allocate`, `TryFrame`, `StartPath`
and their failures), `cleanup_media` (each of its three calls may fail and is
tried again at the next stop or quit), `update_doom_frame` and
`update_entry_melt` (`PresentFrame`, `MeltMoves`, `EntryDone`, `ExitDone`), with
the markers `media.active` and `media.restored` and every command that starts or
stops a session. `Quit` needs a cleanup that succeeded and lets the pass go on,
in which an entry may still begin (`quit` is then `late`); `Leave` is the cleanup
after the loop, whose result the code ignores. Columns fall independently of their pixels, so a melt is only
its rows.

### Keys

The controller's pass is `PassBegins` (now is sampled), any requests (`Down`,
`Up`, `Heartbeat`, `ReleaseRequest`) and `PassEnds` (the release that `stop_game`
asks for by `SIGUSR1`, and the dead-man). Only ages of times are kept. Requests
come from any number of pages, in any order, twice or not at all, because every
`fetch` may use its own connection. The game is `Receive` and `Expire`, with the
functions of `e1-ptz-input.h` in `Apply`. `StartGame` ... `GameDies` are the
runtime as keys see it; the mode `entry` stands for starting and the entry melt.
Where one tic ends and the next begins (after 64 datagrams) makes no difference
to what is held and is left out.

### Recovery

A site is two words; `mark` are its files; `sup` the supervisor's place;
`tracer` the process that has stopped the threads of `device`. As all threads
are stopped, what a tracer does until it detaches is one step, and one that dies
in it leaves any of the words it was writing. `call` is a stock thread in the
trampoline: `entry` and `exit` are the instructions of `e1-audio-hook.S` and
`e1-ptz-hook.S` before the counter is incremented and after it is decremented.
The two recoverers (the coordinator's cleanup and the watchdog) run the same
scripts, dead-man of PTZ, dead-man of audio, `e1-injected-finalize`, and may do
so at the same time; `e1-injected-supervisor` unloads when told.

The worker changes the audio site's files too. Every command but `quit` removes
`audio.restored`, a start of the game's sound also `audio.hook.quiesced`
(`TakesStart`), and `cleanup_audio` writes `audio.restored` itself as long as the
hook has not been used (`TakesStop`, `played`). `Commanded` says when a command
can come: from the coordinator up to its recovery, and later, while a game has
the sound, from a dead-man or `e1-injected-supervisor`.

Assumptions, each named in the module: a supervisor needs less from its go file
to the patch than a dead-man takes to start (`Settled`; without it a site could
be patched after the unload, which no file prevents); a stock thread needs less
for the uncounted instructions than the worker for a pass, half a frame interval
(`PROMPT`; with `FALSE` TLC finds the library unloaded under such a thread); the
15 s of finalisation outlast `e1-injected-supervisor` unless it has refused or
is dead (`FinalTimeout`); the watchdog misses a heartbeat of a living
coordinator only in its cleanup; the one emergency attempt finds the device
traced by another only when that tracer is too slow (a fault); scripts outlive
the coordinator that started them. A thread that enters a half-written site
would crash the camera; the model does not go on from there.

## 3. Runs

| Run | Bounds | Shows |
|---|---|---|
| `ring_flow` | 3 slots, prebuffer 1, 7 frames, 2 re-attachments | `NoContention`, `BacklogBound`, `Delivered`, `KeepsMixing` |
| `ring_free` | 3 slots, prebuffer 1, 7 frames, 1 re-attachment, free-run | `UntornRead`, `SkipsOnlyOverwritten`, `StreamSpec` (refinement) |
| `lifecycle` | 1 request, 1 gesture, 1 kind of fault out of all six, fairness | `TypeOK`, `CameraReturned`, `GameHasAudio`, `DownHonest`, `OneGame`, `MicBeforeReap`, `ExitRestores`, `StartResolved`, `StopRestores` |
| `lifecycle_armed` | 2 requests, no gesture, no fault | **violated** `RemainsArmed` |
| `control` | secret of 3, 3 taps, 6 events, 4 time units | `OneTransition`, `MeltBehindMode`, `CleanRecogniser`, `TimesPast`, `OnlyGestures` |
| `hook_stop` | 1 thread, 3 mappings, 2 looks at the counter, markers that fail | `QuietUnmap`, `MarkerHonest`, `OwnsStream` |
| `hook_unfenced` | 1 thread, 1 mapping | **violated** `NoReaderLeft` |
| `ptz_ring` | 2 threads, 2 slots, 2 words, 4 calls | `EventWhole`, `InOrder`, `LostOnlyWhenLapped`, `NoneForgotten` |
| `media` | 2 cells, 3 frames, 2 columns, 2 rows, 2 attempts, 2 sessions | `GameUntorn`, `NeverBack`, `PathHasMemory`, `ExitedClean`, `CameraClear`, `MeltEnds` |
| `keys` | 3 codes (both shifts and ArrowUp), commands stop and up, socket of 2, all times 0 or 1 | `HeldReaches`, `Guarded`, `AllReleased` |
| `keys_deadman` | 1 code, dead-man of 2 | **violated** `DeadmanOnlyWhenSilent` |
| `recovery` | both sites, a coordinator that dies at will, 1 more fault | `UnloadSafe`, `RecordHonest`, `Restores` |

Why the bounds suffice. Three slots and a prebuffer of one keep the proportion
the code relies on (8 > 2 * 3) at its tightest; seven frames are two full laps
and a re-attachment. A request is a start and the gesture the return, or the
gesture the start and the request the return, and either can come at any step;
what the worker, the coordinator and the game do in between is not bounded. One
kind of fault, as often as it likes, in every place it can bite. A secret of three with a repeated start has the same
self-overlap as the one of eight; six events are two complete tap gestures;
four time units pass the gap (1), the total (3) and the hold (2). Three mappings
are a game after a game after a stop that gave up; two looks at the counter are
one that finds a call and one that may not. Four calls over two slots are two
laps, with a thread that sleeps through one of them. Three frames are one shown,
one drawn during the conversion and one more; two sessions are a failure and
what comes after it. Two shifts are one key under two codes, ArrowUp is a key
the PTZ remote has too; two places in the socket overflow with three codes
released at once. One fault besides the coordinator's death is what the scripts
are written for; the invariants of `recovery` also hold with three, `Restores`
does not: a supervisor too slow that still has the device stopped when the one
emergency attempt comes, and then dies, leaves its site patched.

`CHECK_DEADLOCK FALSE` in `recovery` (when everything is restored, or refused,
nobody has anything left to do). Every other run checks it.

Fairness. `RingFlow` assumes weak fairness of the mixer thread (a polling loop
with a 32 ms sleep) and of the callback (the stock audio thread runs for every
AAC frame). `Lifecycle` assumes weak fairness of worker and coordinator
(polling loops), strong fairness of the end of a melt (finitely many columns,
each pass of the clock moves them) and weak fairness of writing a routed HTTP
request. `PtzRing` assumes it of each call under way and of the drain, not of
new calls. `Media` assumes it of the worker's own steps only, not of the game or
the commands. `Keys` assumes weak fairness of the passes of the controller and of
the game's tics, and strong fairness of the clock, which may be held up between
two passes but not for ever. `Recovery` assumes it of every process and of
threads in the trampoline, not of new calls, faults or the coordinator stopping.
Nowhere is anything assumed about the user, the game becoming ready, or faults.

### What the violations show

* `RemainsArmed`: `write_marker` truncates `runtime.mode` before writing it. The
  coordinator polls the file; an empty read is an "unexpected runtime mode" and
  shuts everything down. The window is two system calls wide at every mode
  change.
* `NoReaderLeft`: a stop stores the pass-through mode, reads the counter as zero
  while the store is in its buffer, and unmaps the ring; a callback that entered
  in between has read the old mode and reads the ring, where IMPLEMENTATION.md
  says the stop waits for callbacks. It takes two cores and a store that stays in
  its buffer while the callback gets from the counter to the mode.
* `DeadmanOnlyWhenSilent`: the controller samples `now` before it polls, and a
  request read in the poll sets `http_last_activity_ms` to a later time. If the
  millisecond has changed, the unsigned difference is huge and the dead-man
  releases, at the end of the pass, the very key that was pressed in it.

### Behaviours met that have no run of their own

In the lifecycle:

* A game that exits cleanly between the readiness gate and the worker's look at
  `game.ready` leaves `runtime.mode` at `starting`, which the main loop ignores
  for ever: the child is not reaped and the stream stays silent.
* A gesture completed between `game.ready` and `audio.active` starts the melt
  while the microphone is still live; the audio is armed late.
* A gesture that meets `game.ready` while the coordinator is reaping the game
  starts a melt over a dying game; the coordinator then shuts the runtime down.
* When a cleanup keeps failing the worker never obeys `quit`: the coordinator
  comes down with `runtime-cleanup.failed`, the worker alive and the watchdog
  still armed (`DownHonest`).

In the recogniser: the heartbeat dead-man and `stop` in Doom or in a melt leave a
mode with nothing behind it that could end it, until `ptz-camera`
(`MeltBehindMode` says these are the only ways there). The secret does not lead back from Doom (stop-only taps, the
held Down and the dashboard do), and an extra Up before it makes the matcher
miss it.

In audio: when `audio.active` cannot be written, `start_stock_audio_doom` unmaps
the ring it has already published without waiting for a callback that came in
meanwhile (a stop does wait, `QuietUnmap`); a lap that both attempts of one read
see is counted as dropped twice.

In media:

* The melts may publish a torn picture: `update_entry_melt` goes on after a
  rejected conversion, `begin_exit_melt` copies what one left. `GameUntorn` is
  about the game, where the code promises more.
* `media.restored` of an earlier session is not removed by an entry by gesture;
  `ptz-camera` puts the mode to camera under a picture that is shown; a stop or
  the dead-man leaves the control mode with media gone.
* `doom N` while a source is mapped loses the old mapping and then fails.
  `ptz-doom` and `ptz-off` are sent by no script.

For keys:

* The PTZ release of a key also releases it for a browser that holds it, so
  `HeldReaches` speaks of keys only browsers have.
* `e1_ptz_expire` does not note the time of Up's release: a double tap without
  stop commands is not recognised.
* An up that is refused during the exit melt, or overtakes its down, stays held
  while heartbeats go on. A keyup lost to a full socket stays down in the game
  for good; the ghost `lost` exempts such a game.

In recovery:

* A runtime that is stopped before any game was started: the coordinator's `stop`
  makes `cleanup_audio` write `audio.restored` (`e1-doom-injected.c:1528` asks for
  an unused hook *or* a missing `audio.patch.used`) with the jump still installed.
  Normally the audio supervisor restores the bytes a moment later. If it is
  lost, both dead-man scripts find the file, leave the emergency restoration out
  (`EmergencyLeftOut`) and fail on the missing `audio.hook.quiesced`; the bytes
  stay patched. `RecordHonest` and `Restores` except exactly this (`played`,
  `Forsaken`); without `Forsaken` TLC finds it with one death. The library is
  not unloaded in that case (`UnloadSafe`).
* An `audio-stop` of a dead-man or of `e1-injected-supervisor` removes a record
  the supervisor has just written; the scripts then restore again or refuse to
  unload.

The installation does not look whether a stopped thread stands
between the two words; with `e1-injected-supervisor` dead two recoverers may
both call `dlclose` (the model unmaps once and cannot tell).

## 4. Proofs

Every invariant and every action property of a passing run, and the refinement
of `AudioStream`, is a theorem here, for all values of the constants that the named
assumptions of the modules allow. What is left to TLC alone is the liveness.

`AudioRingProofs`, for every `SLOTS > 2 * PREBUFFER > 0`, both producer modes
and any bounds:

* `RingInvariant`: `IInv == TypeOK /\ SlotInv /\ ReadInv /\ CountInv /\ FlowInv`
  is inductive. `SlotInv` says what each slot holds given its sequence number
  (`UntornRead` alone is not inductive: one must know that an even, unchanged
  sequence number means an unchanged, complete slot); `ReadInv` ties the words
  copied so far to the slot while its sequence is still `before`; `CountInv`
  orders the counters; `FlowInv` bounds the lead of the producer and of a
  re-attached reader.
* `RingTypes`, `RingUntorn`, `RingNoContention`, `RingBacklog`: the properties of
  the runs, from it.
* `RingSkips`: `SkipsOnlyOverwritten`, from `RetainInv` beside `IInv`: a slot
  never goes back to an older frame, so a frame the callback jumps over, whose
  slot has gone round, is gone for good.
* `RingImplementsStream`: `Spec => StreamSpec` with `avail <- published`,
  `heard <- last`.

`RuntimeControlProofs`, for every secret, tap count, deadline, set of commands
and number of events in a pass:

* `Inductive`: `IInv` says the types, that `Rest(control, now)` holds, that no
  pass wants both melts, that the action wanted agrees with the mode while
  events are drained (`Agree`), and that otherwise media and melt are those of the
  mode unless `apart` tells who parted them (`Fits`). `Rest` is the invariant of the record: all its times are in
  the past, a held Down in Doom is a raw direction with no tap counted, and
  `secret_complete` does not survive the event that set it. Each of these is
  needed by a function called later in the same pass: without the second, the
  stop that ends a hold could also complete the taps and ask for two exits.
* `OneTransitionHolds`, `MeltBehindModeHolds`, `CleanRecogniserHolds`,
  `TimesPastHolds`: the properties of the run, from it. Each function of the
  header has a lemma saying what it does to `Rest` and to the mode.
* `HistoryRemembered` and, from it, `OnlyGesturesHold`: `HistInv` says that what
  the record counts is what has happened. `Taps`: the last `stop_only_index`
  events are stops in time, the first of them not the release of a press;
  `Secrets`: the last presses are the first `secret_index` commands of the
  secret, at the times the record keeps; `Holds`: since `exit_down_first` there
  was nothing but Down. It also says that no press waits for its stop between two
  events (`camera_control_down` is off), or a press could be swallowed. The
  lemmas on `TapRun`, `SecretRun` and `HoldRun` say how a run grows, breaks and
  becomes a gesture as an event is appended; those on the functions of the header
  say which of the three each function does.

`AudioHookProofs`, for any finite set of threads, any number of looks at the
counter, with or without marker failures, in the memory order the code has:

* `Inductive`: `IInv == TypeOK /\ Counted /\ Passing /\ QuietUnmap /\ Owned`.
  `Counted` says the counter is the number of threads inside, so zero means
  nobody; `Passing` that the mode is pass-through, or its store on its way, from
  the moment the counter may be believed, so that only a stray call goes to the
  ring after that; `Owned` what the
  worker still holds at each of its places, failed starts included.
* `QuietUnmapHolds` and `MarkerHonestHolds`, from it.
* `OwnsStreamHolds`, for one thread: `CallInv` and `StreamInv` say, up to the first
  error or a ring mapped with a stray call about, what a call under way and the worker's place have to do with the mode,
  the ring and the last frame. With a second thread the claim is false: two calls
  may both end the same tone, and the later one puts the mode back to
  pass-through when a game has already been started.

`PtzRingProofs`, for every ring size, any finite set of threads and any set of
words:

* `IInv == TypeOK /\ TicketInv /\ Overtaken /\ WordInv /\ CopyInv`, with
  `Counted` beside it (the counter is the number of threads inside).
  `TicketInv` says that tickets are distinct and that a slot is committed only for
  tickets of its own; `Overtaken` that a ticket taken while an older one of its
  slot is still being written is in `mixed`; `WordInv` what a slot that is neither
  mixed nor lapped holds; `CopyInv` ties the words copied so far to it. Without
  `Overtaken` a late store of an overtaken producer would pass for the new lap's.
* `PtzEventWhole`, `PtzInOrder`, `PtzLost`, `PtzTypes`, from it.

`MediaProofs` on the frame protocol, for any set of cells and any number of
frames: `FrameInv` relates the two counters at each place of the game (`InStep`),
says that a slot with the even sequence 2n holds frame n in every cell
(`EvenWhole`) and what is drawn of the next one (`Drawn`, `AllDrawn`), and ties
what was converted so far to the slot while its sequence is the one read
(`ReaderInv`). `FrameStable` says a conversion that is accepted is one frame.

`MediaProofs` on the worker, for any bounds:

* `MediaInv == Typed /\ Holding /\ Covered /\ ExitedClean /\ Untorn`: memory is
  there before and for as long as a path is over it, an entry that is being
  started is in the entry mode so that its failure is found, and a picture that
  passed both checks is whole until it is published. `QuitInv` says what the pass
  that quits may still start. `MediaUntorn`,
  `MediaPathHasMemory`, `MediaExitedClean`, `MediaCameraClear` follow.
* `MediaNeverBack`: `TimeInv == Drawing /\ FromSlot /\ Uncovered /\ Ahead` beside
  `MediaInv`. Cell by cell, the slot only grows (`Drawing`), every picture came
  out of it (`FromSlot`), and the buffer the next publication comes from
  (`pixels`, `doom_pixels` or the conversion under way, depending on the mode and
  the worker's place) is not behind what is shown (`Ahead`); a session starts from
  an uncovered camera (`Uncovered`). Each step is then `Onward`.
* `TicksConserved`, `FallMoves`, `ComposeInside`: the melt's arithmetic for every
  rate, knee and height.

`RecoveryProofs`, for any number of faults:

* `RecoveryInvariant`: `IInv == TypeOK /\ StartedOver /\ FilesSay /\ PlayedArmed
  /\ DeadmanAt /\ UnloadFrozen`. `StartedOver` says that a recoverer past its first dead-man
  began when no supervisor was on its way to a patch; `FilesSay` what each file
  of a site means for its words and its supervisor's place (the worker's own
  `audio.restored` means nothing); `PlayedArmed` that a game has had the sound only
  with the audio site past its installation; `DeadmanAt` that a
  dead-man is at a site whose supervisor is past the installation;
  `UnloadFrozen` that from the first order to unload on, nothing can change the
  sites any more. `UnloadSafe` needs the last because the unloading step itself
  looks at little.
* `RecoveryRecordHonest`, and `RecoveryUnloadSafe` assuming `PROMPT` (needed only
  for the threads, not for the bytes).

`LifecycleProofs`, for any number of requests, gestures and faults of every kind,
failing cleanups and a slow worker included:

* `TypeCorrect`. Where the worker goes on after `write_marker` and the
  coordinator after `stop_game` are values (`wjob.next`, `cret`), so the type
  invariant ties them to the places that use them.
* `GameHasAudioAlways` and `OneGameAlways`, from `CoordinatorInv == PlaceInv /\
  PidInv /\ ArmedInv`: which places belong to the shutdown, that the coordinator
  knows of every game and of none after `stop_game`, and that on every way round
  the main loop its game is an armed one.
* `CameraReturnedAlways`, from `CameraInv`: in camera mode a picture is there only
  in a shutdown that will stop it, and the remains of a failed cleanup only with
  the error reported; an entry that has written its mode but not started its
  media is in the entry mode, and `ptz-camera` is under way only in a shutdown.
* `MicBeforeReapAlways`: `MicInv` says which command is on its way between the two
  processes at each place of the coordinator (`Sent`, `Idle`), hence that the hook
  no longer plays the ring when a game is ended. It holds as long as the worker was
  not slow, and once it was the property allows what a wait that ran out does.
* `DownRestored`: `DownHonest`, the safety half of `StopRestores`. `QuitInv` says
  that a worker that may quit holds nothing and takes nothing any more, because
  the coordinator has removed `game.ready` before it sends `quit`; `OneQuitInv`
  that without a failed cleanup or a slow worker one `quit` is enough, so that a
  recorded failure has a cause.

`KeysProofs`, for any finite set of codes, table, times and socket:
`IInv == ControllerOK /\ InTime /\ SocketOK /\ GameOK`, where `InTime` relates
the age of the last activity to the controller's place in its pass. `KeysGuarded`
and `KeysTypes` follow: a held code is always under a dead-man that has at most
two passes beyond its time.

`KeysHeldReaches` needs `KeysInv` beside it: what a key will be once the socket is
read (`WillBeDown`, the last datagram about it or else the game's own state) is
what the controller holds, in both directions, and nothing is held from one game
to the next unless a release is pending (`NoneInherited`).

Only model-checked: liveness, because fairness is outside the prover's reach
(`Delivered`, `KeepsMixing`, `NoneForgotten`, `MeltEnds`, `AllReleased`, `Restores`,
`ExitRestores`, `StartResolved`, `StopRestores`). `Media`'s `TypeOK` is in no run and
no theorem beyond the parts `Typed` and `FrameTypeOK`: that the rows of a melt stay
in `Rows` under `AdvanceBy`, a recursion over the ticks, takes an induction that is
out of reach too. TLC finds it to hold under the bounds of `media`.

## 5. Plan

What is left, in this order:

1. The safety halves of the other liveness properties, as far as they have one:
   `Restores` and `ExitRestores` at the states where their processes have stopped.
2. The launcher and the boot service: lock directory, bounded retries, stop. They
   run before and after the runtime and share only its exit with it.
3. The native encoder path of `start_audio_tone`, which no mode of the runtime
   uses, and the voices of the mixer against a reference.

## 6. Not modelled

Pixel conversion, sample arithmetic and the OPL synthesiser (data), the ptrace
mechanics of the injector and the byte-pattern search (sequential, against an
external process), the parsing of HTTP requests, the Woof engine (third party),
host tools. `PROJECT.json` lists each with its reason.
