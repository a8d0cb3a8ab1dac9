------------------------------ MODULE Recovery ------------------------------
(***************************************************************************)
(* How the camera's instruction bytes come back and the injected library    *)
(* goes.  A patch supervisor per hook site installs a jump and restores the *)
(* bytes when its owner is gone (e1-ptz-patch-supervisor.c); a recoverer,   *)
(* the coordinator's cleanup or the detached watchdog, runs both dead-man   *)
(* scripts and e1-injected-finalize; e1-injected-supervisor unloads.  They  *)
(* agree by files of the state directory alone, and any wait of theirs may  *)
(* run out.  The stock threads keep calling through the sites.              *)
(*                                                                         *)
(* A tracer stops every thread of the device, so what it reads and writes   *)
(* until it detaches is one step; a second tracer is refused.  A site is    *)
(* two words, each written by one poke.                                     *)
(***************************************************************************)
EXTENDS Naturals, FiniteSets

CONSTANTS
  SITES,       \* the hook sites in use
  PROMPT,      \* a thread needs less for the uncounted ends of a trampoline than the worker for a pass
  MAX_FAULTS   \* bound: what fails, dies or is too slow, the death of a running coordinator apart

ASSUME RecoveryAssumption ==
    SITES \subseteq {"ptz", "audio"} /\ PROMPT \in BOOLEAN /\ MAX_FAULTS \in Nat

VARIABLES
  patched,     \* the words of a site that hold the jump
  mark,        \* the site's files: used, active, patch.restored, quiesced, restored
  sup, owner,  \* the site's supervisor, and the process it waits for
  tracer,      \* who has stopped the device's threads
  call,        \* where a stock thread is in the site's trampoline
  mapped, thread, quit, restored,  \* the library; its worker runs; the quit command; the file "restored"
  played,      \* stock_hook_used: the worker has started the sound of a game
  isup,        \* e1-injected-supervisor
  pc, at, ok,  \* the recoverers: place, site, and nothing refused so far
  faults

site == <<patched, mark, sup, owner>>
library == <<mapped, thread, quit, restored, played, isup>>
rec == <<pc, at, ok>>
vars == <<site, tracer, call, library, rec, faults>>

WORDS == {1, 2}
Recoverers == {"coordinator", "watchdog"}

Init ==
    /\ patched = [s \in SITES |-> {}] /\ mark = [s \in SITES |-> {}]
    /\ sup = [s \in SITES |-> "none"] /\ owner = [s \in SITES |-> s = "ptz"]
    /\ tracer = "none" /\ call = [s \in SITES |-> "out"]
    /\ mapped = TRUE /\ thread = TRUE /\ quit = FALSE /\ restored = FALSE /\ played = FALSE /\ isup = "runs"
    /\ pc = [r \in Recoverers |-> "run"] /\ at = [r \in Recoverers |-> "ptz"] /\ ok = [r \in Recoverers |-> TRUE]
    /\ faults = 0

Has(s, f) == f \in mark[s]
Fault == faults < MAX_FAULTS /\ faults' = faults + 1

(* attach_all_threads and detach_all_threads *)
Attach(x) == tracer = "none" /\ tracer' = x
Refused(x) == tracer \notin {"none", x} /\ UNCHANGED tracer
Detach(x) == tracer = x /\ tracer' = "none"

-----------------------------------------------------------------------------
(* The supervisor of a site: supervise_device_doom, supervise_device_audio_log. *)

SupMoves(s, from, to) == sup[s] = from /\ sup' = [sup EXCEPT ![s] = to]
SupOnly == UNCHANGED <<call, library, rec>>

(* The coordinator starts a supervisor, sees it ready, writes the go file, and
   starts the next when this one is active. *)
Arm(s) ==
    /\ pc["coordinator"] = "run" /\ mapped /\ (s = "audio" /\ "ptz" \in SITES => sup["ptz"] = "watch")
    /\ SupMoves(s, "none", "go")
    /\ UNCHANGED <<patched, mark, owner, faults>> /\ UNCHANGED tracer /\ SupOnly

(* The owner (forked here, for audio) and patch.used. *)
MarkUsed(s) ==
    /\ SupMoves(s, "go", "used") /\ (s = "ptz" => owner[s])
    /\ owner' = [owner EXCEPT ![s] = TRUE]
    /\ mark' = [mark EXCEPT ![s] = @ \cup {"used"}]
    /\ UNCHANGED <<patched, faults>> /\ UNCHANGED tracer /\ SupOnly

OwnerMissing(s) ==
    /\ SupMoves(s, "go", "ended") /\ ~owner[s] /\ s = "ptz"
    /\ UNCHANGED <<patched, mark, owner, faults>> /\ UNCHANGED tracer /\ SupOnly

MarkActive(s) ==
    /\ SupMoves(s, "used", "marked")
    /\ mark' = [mark EXCEPT ![s] = @ \cup {"active"}]
    /\ UNCHANGED <<patched, owner, faults>> /\ UNCHANGED tracer /\ SupOnly

SupAttaches(s) ==
    /\ sup[s] \in {"marked", "restore", "again"} /\ Attach(s)
    /\ UNCHANGED <<site, faults>> /\ SupOnly

Install(s) ==
    /\ SupMoves(s, "marked", "watch") /\ Detach(s)
    /\ patched' = [patched EXCEPT ![s] = WORDS]
    /\ UNCHANGED <<mark, owner, faults>> /\ SupOnly

(* A poke, the rollback or only the detaching failed: the site holds anything of
   the two, the supervisor takes it for not installed, and ends its owner. *)
InstallFails(s) ==
    /\ SupMoves(s, "marked", "ended")
    /\ \/ Refused(s) /\ UNCHANGED <<patched, faults>>
       \/ Detach(s) /\ Fault /\ \E w \in SUBSET WORDS : patched' = [patched EXCEPT ![s] = w]
    /\ owner' = [owner EXCEPT ![s] = FALSE]
    /\ UNCHANGED mark /\ SupOnly

(* wait_for_doom_owner, wait_for_owner *)
OwnerGone(s) ==
    /\ SupMoves(s, "watch", "restore") /\ ~owner[s]
    /\ UNCHANGED <<patched, mark, owner, faults>> /\ UNCHANGED tracer /\ SupOnly

(* Mutant of Restored: the word that is checked first is the only one. *)
RestoredHalf(s) ==
    /\ patched' = [patched EXCEPT ![s] = @ \ {1}]
    /\ mark' = [mark EXCEPT ![s] = @ \cup {"patch.restored"}]

(* Operation -1 of inspect_or_modify, verified, and the file that says so. *)
Restored(s) ==
    /\ patched' = [patched EXCEPT ![s] = {}]
    /\ mark' = [mark EXCEPT ![s] = @ \cup {"patch.restored"}]

Restore(s) ==
    /\ sup[s] \in {"restore", "again"} /\ sup' = [sup EXCEPT ![s] = "quiesce"]
    /\ Detach(s) /\ Restored(s)
    /\ UNCHANGED <<owner, faults>> /\ SupOnly

(* A restoration that fails leaves every word it has not reached; the first
   failure is tried again at done. *)
RestoreFails(s) ==
    /\ sup[s] \in {"restore", "again"}
    /\ sup' = [sup EXCEPT ![s] = IF @ = "restore" THEN "again" ELSE "ended"]
    /\ \/ Refused(s) /\ UNCHANGED <<patched, faults>>
       \/ Detach(s) /\ Fault /\ \E w \in SUBSET patched[s] : patched' = [patched EXCEPT ![s] = w]
    /\ UNCHANGED <<mark, owner>> /\ SupOnly

(* The worker has confirmed: the marker goes, and the restoration is on record. *)
Confirmed(s) == mark' = [mark EXCEPT ![s] = (@ \ {"active"}) \cup {"restored"}]

SeesQuiesced(s) ==
    /\ SupMoves(s, "quiesce", "ended") /\ Has(s, "quiesced")
    /\ Confirmed(s)
    /\ UNCHANGED <<patched, owner, faults>> /\ UNCHANGED tracer /\ SupOnly

(* wait_for_marker runs out; a confirmation that comes now only removes the marker. *)
QuiesceTimeout(s) ==
    /\ SupMoves(s, "quiesce", "late") /\ ~Has(s, "quiesced")
    /\ UNCHANGED <<patched, mark, owner, faults>> /\ UNCHANGED tracer /\ SupOnly

SupEnds(s) ==
    /\ SupMoves(s, "late", "ended")
    /\ mark' = [mark EXCEPT ![s] = IF "quiesced" \in @ THEN @ \ {"active"} ELSE @]
    /\ UNCHANGED <<patched, owner, faults>> /\ UNCHANGED tracer /\ SupOnly

(* The supervisor is killed: the threads it had stopped run on with the words it
   had written, and the marker may be gone without a record. *)
SupDies(s) ==
    /\ sup[s] \notin {"none", "ended"} /\ sup' = [sup EXCEPT ![s] = "ended"] /\ Fault
    /\ IF tracer = s
       THEN /\ tracer' = "none"
            /\ \E w \in SUBSET WORDS :
                 (sup[s] = "marked" \/ w \subseteq patched[s]) /\ patched' = [patched EXCEPT ![s] = w]
       ELSE UNCHANGED <<tracer, patched>>
    /\ \/ UNCHANGED mark
       \/ sup[s] = "quiesce" /\ Has(s, "quiesced") /\ mark' = [mark EXCEPT ![s] = @ \ {"active"}]
    /\ UNCHANGED owner /\ SupOnly

OwnerDies(s) ==
    /\ sup[s] = "watch" /\ owner[s] /\ owner' = [owner EXCEPT ![s] = FALSE] /\ Fault
    /\ UNCHANGED <<patched, mark, sup>> /\ UNCHANGED tracer /\ SupOnly

Supervisor(s) ==
    \/ MarkUsed(s) \/ OwnerMissing(s) \/ MarkActive(s) \/ SupAttaches(s) \/ Install(s) \/ OwnerGone(s) \/ Restore(s)
    \/ InstallFails(s) \/ RestoreFails(s) \/ SeesQuiesced(s) \/ QuiesceTimeout(s) \/ SupEnds(s)

-----------------------------------------------------------------------------
(* The device: its threads run while nobody traces them. *)

CallMoves(s, from, to) ==
    /\ tracer = "none" /\ call[s] = from /\ call' = [call EXCEPT ![s] = to]
    /\ UNCHANGED <<site, tracer, library, rec, faults>>

(* A stock thread through the jump, the trampoline and the counted route. *)
Enter(s) == patched[s] = WORDS /\ CallMoves(s, "out", "entry")
Count(s) == CallMoves(s, "entry", "inside")
Uncount(s) == CallMoves(s, "inside", "exit")
Leave(s) == CallMoves(s, "exit", "out")

(* Mutant of Quiesce: the counter is not looked at. *)
QuiesceAnyway(s) ==
    /\ tracer = "none" /\ thread /\ Has(s, "patch.restored")
    /\ mark' = [mark EXCEPT ![s] = @ \cup {"quiesced"}]
    /\ UNCHANGED <<patched, sup, owner, tracer, call, library, rec, faults>>

(* The worker's look at the counter. *)
Quiesce(s) ==
    /\ tracer = "none" /\ thread /\ Has(s, "patch.restored") /\ ~Has(s, "quiesced")
    /\ call[s] # "inside" /\ (PROMPT => call[s] = "out")
    /\ mark' = [mark EXCEPT ![s] = @ \cup {"quiesced"}]
    /\ UNCHANGED <<patched, sup, owner, tracer, call, library, rec, faults>>

(* A command other than quit, from the coordinator or, while the sound of a game is
   on, from a dead-man or e1-injected-supervisor. *)
Armed == "audio" \in SITES /\ sup["audio"] \notin {"none", "go", "used", "marked"}
Commanded ==
    /\ tracer = "none" /\ thread /\ "audio" \in SITES
    /\ \/ pc["coordinator"] = "run" /\ Armed
       \/ pc["coordinator"] = "begin"
       \/ played /\ (isup = "cleanup" \/ \E r \in Recoverers : pc[r] = "wait" /\ at[r] = "audio")

(* audio-stock-doom: the record and the confirmation go. *)
TakesStart ==
    /\ Commanded /\ pc["coordinator"] = "run" /\ played' = TRUE
    /\ mark' = [mark EXCEPT !["audio"] = @ \ {"restored", "quiesced"}]
    /\ UNCHANGED <<patched, sup, owner, tracer, call, mapped, thread, quit, restored, isup, rec, faults>>

(* stop, audio-stop or a start that failed: the record goes, and cleanup_audio
   writes it itself as long as no game has had the sound. *)
TakesStop ==
    /\ Commanded
    /\ mark' = [mark EXCEPT !["audio"] = IF played /\ Has("audio", "used") THEN @ \ {"restored"} ELSE @ \cup {"restored"}]
    /\ UNCHANGED <<patched, sup, owner, tracer, call, library, rec, faults>>

(* The worker obeys quit and writes thread.exited. *)
ThreadExits ==
    /\ tracer = "none" /\ thread /\ quit /\ thread' = FALSE
    /\ UNCHANGED <<site, tracer, call, mapped, quit, restored, played, isup, rec, faults>>

-----------------------------------------------------------------------------
(* What both kinds of recovery ask of a site before the library may go. *)
Proven(s) == Has(s, "restored") /\ Has(s, "quiesced") /\ ~Has(s, "active")
AllProven == \A s \in SITES : Has(s, "used") => Proven(s)

(* --inspect-device and --inspect-device-audio *)
Inspected == \A s \in SITES : patched[s] = {}

(* The files removed after the library. *)
Forget == mark' = [s \in SITES |-> mark[s] \ (IF s = "ptz" THEN {"used", "patch.restored", "quiesced"} ELSE {"used"})]

(* e1-injected-supervisor: told to stop, it waits for both sites, ... *)
IsupQuits ==
    /\ isup = "cleanup" /\ AllProven
    /\ isup' = "quit" /\ quit' = TRUE
    /\ UNCHANGED <<site, tracer, call, mapped, thread, restored, played, rec, faults>>

IsupRefuses ==
    /\ isup \in {"cleanup", "quit"} /\ isup' = "failed"
    /\ UNCHANGED <<site, tracer, call, mapped, thread, quit, restored, played, rec, faults>>

(* ... for the worker, and unloads. *)
IsupUnloads ==
    /\ isup = "quit" /\ ~thread /\ tracer = "none"
    /\ ("audio" \in SITES /\ Has("audio", "used") => Has("audio", "quiesced") /\ ~Has("audio", "active"))
    /\ mapped' = FALSE /\ isup' = "done" /\ restored' = TRUE /\ Forget
    /\ UNCHANGED <<patched, sup, owner, tracer, call, thread, quit, played, rec, faults>>

IsupDies ==
    /\ isup \in {"runs", "cleanup", "quit"} /\ isup' = "failed" /\ Fault
    /\ UNCHANGED <<site, tracer, call, mapped, thread, quit, restored, played, rec>>
-----------------------------------------------------------------------------
(* A recoverer: the dead-man of each site with restore-only, then finalize. *)

Goes(r, from, to) == pc[r] = from /\ pc' = [pc EXCEPT ![r] = to]

(* The next site, or finalize, which is left out after a refusal. *)
Advance(r, fine) ==
    /\ pc' = [pc EXCEPT ![r] = IF at[r] = "ptz" THEN "begin" ELSE IF ok[r] /\ fine THEN "final" ELSE "failed"]
    /\ at' = [at EXCEPT ![r] = "audio"] /\ ok' = [ok EXCEPT ![r] = @ /\ fine]

RecOnly == UNCHANGED <<call, faults>>

(* cleanup of the coordinator, for whatever reason: the controller, which owns the
   PTZ patch, is stopped first. *)
CoordinatorStops ==
    /\ Goes("coordinator", "run", "begin")
    /\ owner' = [s \in SITES |-> owner[s] /\ s # "ptz"]
    /\ UNCHANGED <<patched, mark, sup, tracer, at, ok, library>> /\ RecOnly

(* A script it has started goes on without it, so it dies between two of them. *)
CoordinatorDies ==
    /\ pc["coordinator"] \in {"run", "begin", "final"} /\ pc' = [pc EXCEPT !["coordinator"] = "failed"]
    /\ IF pc["coordinator"] = "run" THEN UNCHANGED faults ELSE Fault
    /\ UNCHANGED <<site, tracer, at, ok, library, call>>

(* A supervisor takes milliseconds from the go file to the patch, the watchdog a
   second to miss the coordinator. *)
Settled == \A s \in SITES : sup[s] \notin {"go", "used", "marked"}

(* The coordinator is gone, or its cleanup is slower than the heartbeat allows. *)
WatchdogFires ==
    /\ pc["coordinator"] \notin {"run", "done"} /\ Settled
    /\ IF pc["coordinator"] = "failed" THEN UNCHANGED faults ELSE Fault
    /\ Goes("watchdog", "run", "begin")
    /\ owner' = [s \in SITES |-> owner[s] /\ s # "ptz"]
    /\ UNCHANGED <<patched, mark, sup, tracer, at, ok, library, call>>

Disarm ==
    /\ pc["coordinator"] = "done" /\ Goes("watchdog", "run", "done")
    /\ UNCHANGED <<site, tracer, at, ok, library>> /\ RecOnly

(* A site that was never used is left alone; otherwise its owner is killed. *)
DeadmanSkips(r) ==
    /\ pc[r] = "begin" /\ Settled /\ (at[r] \in SITES => ~Has(at[r], "used"))
    /\ Advance(r, TRUE)
    /\ UNCHANGED <<site, tracer, library>> /\ RecOnly

DeadmanFires(r) ==
    /\ Goes(r, "begin", "wait") /\ Settled /\ at[r] \in SITES /\ Has(at[r], "used")
    /\ owner' = [owner EXCEPT ![at[r]] = FALSE]
    /\ UNCHANGED <<patched, mark, sup, tracer, at, ok, library>> /\ RecOnly

(* The PTZ script leaves the quiescence to finalize. *)
Awaited(s) == Has(s, "restored") /\ (s = "audio" => Has(s, "quiesced") /\ ~Has(s, "active"))

DeadmanSees(r) ==
    /\ Goes(r, "wait", "verify") /\ Awaited(at[r])
    /\ UNCHANGED <<site, tracer, at, ok, library>> /\ RecOnly

(* The supervisor has ended short of that, or, which is a fault of its own, is
   too slow: without a record emergency_restore_device, refused without the library or when another
   tracer has the device: that slow supervisor, or, another fault, since a tracer
   needs less than the wait, somebody else. *)
WaitsOut(s, more) ==
    /\ ~Awaited(s)
    /\ faults' = faults + more + (IF sup[s] = "ended" THEN 0 ELSE 1) /\ faults' <= MAX_FAULTS

(* Mutant of EmergencyAttaches: the dead-man only waits for the supervisor. *)
EmergencySkipped(r) ==
    /\ Goes(r, "wait", "verify") /\ ~Has(at[r], "restored") /\ WaitsOut(at[r], 0) /\ mapped
    /\ UNCHANGED <<site, tracer, at, ok, library, call>>

EmergencyAttaches(r) ==
    /\ Goes(r, "wait", "emergency") /\ ~Has(at[r], "restored") /\ WaitsOut(at[r], 0) /\ mapped /\ Attach(r)
    /\ UNCHANGED <<site, at, ok, library, call>>

EmergencyRefused(r) ==
    /\ Goes(r, "wait", "verify") /\ (mapped => Refused(r))
    /\ ~Has(at[r], "restored") /\ WaitsOut(at[r], IF mapped /\ tracer # at[r] THEN 1 ELSE 0)
    /\ UNCHANGED <<site, tracer, at, ok, library, call>>

EmergencyLeftOut(r) ==
    /\ Goes(r, "wait", "verify") /\ Has(at[r], "restored") /\ WaitsOut(at[r], 0)
    /\ UNCHANGED <<site, tracer, at, ok, library, call>>

EmergencyRestores(r) ==
    /\ Goes(r, "emergency", "quiesce") /\ Detach(r) /\ Restored(at[r])
    /\ UNCHANGED <<sup, owner, at, ok, library>> /\ RecOnly

EmergencyFails(r) ==
    /\ Goes(r, "emergency", "verify") /\ Detach(r) /\ Fault
    /\ \E w \in SUBSET patched[at[r]] : patched' = [patched EXCEPT ![at[r]] = w]
    /\ UNCHANGED <<mark, sup, owner, at, ok, library, call>>

EmergencyConfirmed(r) ==
    /\ Goes(r, "quiesce", "verify") /\ Has(at[r], "quiesced") /\ Confirmed(at[r])
    /\ UNCHANGED <<patched, sup, owner, tracer, at, ok, library>> /\ RecOnly

EmergencyTimeout(r) ==
    /\ Goes(r, "quiesce", "verify") /\ ~Has(at[r], "quiesced")
    /\ UNCHANGED <<site, tracer, at, ok, library>> /\ RecOnly

(* The last test of the script. *)
Verify(r) ==
    /\ pc[r] = "verify"
    /\ LET s == at[r] IN
       Advance(r, Has(s, "restored") /\ ~Has(s, "active") /\ (s = "audio" => Has(s, "quiesced")))
    /\ UNCHANGED <<site, tracer, library>> /\ RecOnly

(* e1-injected-finalize.  Everything proven, it tells e1-injected-supervisor, or,
   without one, the worker; with the library gone it looks a last time. *)
Refuse(r, from) == Goes(r, from, "failed")

FinalTells(r) ==
    /\ Goes(r, "final", "asked") /\ AllProven /\ Inspected /\ mapped
    /\ IF isup = "failed" THEN quit' = TRUE /\ UNCHANGED isup
       ELSE isup' = (IF isup = "runs" THEN "cleanup" ELSE isup) /\ UNCHANGED quit
    /\ UNCHANGED <<site, tracer, at, ok, mapped, thread, restored, played>> /\ RecOnly

FinalMoves(r) ==
    /\ \/ Goes(r, "final", "last") /\ AllProven /\ Inspected /\ ~mapped
       \/ Refuse(r, "final") /\ ~(AllProven /\ Inspected)
       \/ Goes(r, "asked", "last") /\ ~mapped
       \/ Refuse(r, "exit")
    /\ UNCHANGED <<site, tracer, at, ok, library>> /\ RecOnly

(* Fifteen seconds outlast e1-injected-supervisor: it has refused, or is dead. *)
FinalTimeout(r) ==
    /\ Goes(r, "asked", "exit") /\ mapped /\ isup = "failed"
    /\ quit' = TRUE
    /\ UNCHANGED <<site, tracer, at, ok, mapped, thread, restored, played, isup>> /\ RecOnly

FinalUnloads(r) ==
    /\ Goes(r, "exit", "last") /\ ~thread /\ tracer = "none"
    /\ ("audio" \in SITES /\ Has("audio", "used") => Has("audio", "restored") /\ Has("audio", "quiesced"))
    /\ Inspected
    /\ mapped' = FALSE
    /\ UNCHANGED <<site, tracer, at, ok, thread, quit, restored, played, isup>> /\ RecOnly

FinalEnds(r) ==
    /\ IF Inspected /\ ~mapped /\ \A s \in SITES : ~Has(s, "active")
       THEN Goes(r, "last", "done") /\ Forget /\ restored' = TRUE
       ELSE Refuse(r, "last") /\ UNCHANGED <<mark, restored>>
    /\ UNCHANGED <<patched, sup, owner, tracer, at, ok, mapped, thread, quit, played, isup>> /\ RecOnly

Deadman(r) ==
    \/ DeadmanSkips(r) \/ DeadmanFires(r) \/ DeadmanSees(r) \/ EmergencyAttaches(r) \/ EmergencyRefused(r) \/ EmergencyLeftOut(r)
    \/ EmergencyRestores(r) \/ EmergencyConfirmed(r) \/ EmergencyTimeout(r) \/ Verify(r)
Finalize(r) == FinalTells(r) \/ FinalMoves(r) \/ FinalTimeout(r) \/ FinalUnloads(r) \/ FinalEnds(r)

-----------------------------------------------------------------------------
Faults ==
    \/ \E s \in SITES : SupDies(s) \/ OwnerDies(s)
    \/ \E r \in Recoverers : EmergencyFails(r)
    \/ IsupDies \/ CoordinatorDies
Calls(s) == Enter(s) \/ Count(s) \/ Uncount(s) \/ Leave(s)
Isup == IsupQuits \/ IsupRefuses \/ IsupUnloads

Next ==
    \/ \E s \in SITES : Arm(s) \/ Supervisor(s) \/ Calls(s) \/ Quiesce(s)
    \/ \E r \in Recoverers : Deadman(r) \/ Finalize(r)
    \/ TakesStart \/ TakesStop \/ ThreadExits \/ Isup \/ CoordinatorStops \/ WatchdogFires \/ Disarm \/ Faults

(* Every process that runs is scheduled; nothing makes the coordinator stop. *)
Spec ==
    /\ Init /\ [][Next]_vars
    /\ \A s \in SITES : WF_vars(Supervisor(s)) /\ WF_vars(Count(s) \/ Uncount(s) \/ Leave(s)) /\ WF_vars(Quiesce(s))
    /\ \A r \in Recoverers : WF_vars(Deadman(r) \/ Finalize(r))
    /\ WF_vars(ThreadExits) /\ WF_vars(Isup) /\ WF_vars(WatchdogFires) /\ WF_vars(Disarm)

-----------------------------------------------------------------------------
TypeOK ==
    /\ patched \in [SITES -> SUBSET WORDS]
    /\ mark \in [SITES -> SUBSET {"used", "active", "patch.restored", "quiesced", "restored"}]
    /\ sup \in [SITES -> {"none", "go", "used", "marked", "watch", "restore", "again", "quiesce", "late", "ended"}]
    /\ owner \in [SITES -> BOOLEAN] /\ tracer \in {"none"} \cup SITES \cup Recoverers
    /\ call \in [SITES -> {"out", "entry", "inside", "exit"}]
    /\ mapped \in BOOLEAN /\ thread \in BOOLEAN /\ quit \in BOOLEAN /\ restored \in BOOLEAN /\ played \in BOOLEAN
    /\ isup \in {"runs", "cleanup", "quit", "done", "failed"}
    /\ pc \in [Recoverers -> {"run", "begin", "wait", "emergency", "quiesce", "verify", "final", "asked", "exit", "last", "done", "failed"}]
    /\ at \in [Recoverers -> {"ptz", "audio"}] /\ ok \in [Recoverers -> BOOLEAN] /\ faults \in 0 .. MAX_FAULTS

(* The library is gone only when every site has its original bytes and no stock
   thread is in its code, whichever of the recoverers unloaded it and whatever
   died or ran out on the way (IMPLEMENTATION.md:517-518). *)
UnloadSafe == ~mapped => \A s \in SITES : patched[s] = {} /\ call[s] = "out"

(* A restoration on record is one of both words, and stays one; until a game has had
   the sound, the worker's own record of it says nothing of the site
   (e1-doom-injected.c:1528). *)
RecordHonest == \A s \in SITES : Has(s, "restored") => patched[s] = {} \/ (s = "audio" /\ ~played)

(* When the coordinator stops or dies, every site gets its bytes back for good.  What
   remains is an audio site whose supervisor is lost before a game has had the sound:
   the worker's record keeps both dead-men from restoring it. *)
Forsaken(s) == s = "audio" /\ ~played /\ sup[s] = "ended"
Restores == pc["coordinator"] # "run" ~> [](\A s \in SITES : patched[s] = {} \/ Forsaken(s))
=============================================================================
