--------------------------- MODULE RecoveryProofs ---------------------------
(***************************************************************************)
(* For every set of hook sites and any number of faults, refusals, deaths   *)
(* and waits that run out: the library goes only when every site has its    *)
(* bytes and no stock thread is in its code, and a restoration on record is *)
(* one.  The inductive invariant says what each file and each place of a    *)
(* recoverer proves: a file once written by a restoration rules out a later *)
(* installation, and everything from finalize's first test on happens with  *)
(* the sites clean and no supervisor left that could patch one again.       *)
(***************************************************************************)
EXTENDS Recovery, TLAPS

Installing == {"go", "used", "marked"}
Clean(s) == patched[s] = {} /\ (PROMPT => call[s] = "out")
Over == pc["coordinator"] # "run" /\ Settled
Frozen == Over /\ \A s \in SITES : Clean(s)

(* A recoverer past its first dead-man started when nothing could be installed
   any more. *)
StartedOver ==
    /\ pc["watchdog"] # "run" => pc["coordinator"] # "run"
    /\ \A r \in Recoverers : (pc[r] \notin {"run", "begin", "failed"} \/ at[r] = "audio") => Over

(* What the files of a site say of its supervisor and its bytes. *)
FilesSay == \A s \in SITES :
    /\ Has(s, "used") => sup[s] \notin {"none", "go"}
    /\ sup[s] \in {"used", "marked"} => Has(s, "used")
    /\ Has(s, "patch.restored") \/ Has(s, "quiesced") \/ (Has(s, "restored") /\ (s = "audio" => played)) =>
          patched[s] = {} /\ sup[s] \notin {"none"} \cup Installing
    /\ Has(s, "quiesced") => Clean(s)
    /\ Clean(s) \/ Has(s, "used")

(* A game has had the sound only with the audio site past the installation. *)
PlayedArmed == played => Armed

(* A dead-man at work is at a site whose supervisor is past the installation. *)
DeadmanAt == \A r \in Recoverers : pc[r] \in {"wait", "emergency", "quiesce", "verify"} =>
    at[r] \in SITES /\ sup[at[r]] \notin {"none"} \cup Installing

(* From the first order to unload on, nothing can dirty a site. *)
UnloadFrozen ==
    isup \in {"cleanup", "quit", "done"} \/ ~mapped \/ (\E r \in Recoverers : pc[r] \in {"asked", "exit", "last"}) => Frozen

Rest == StartedOver /\ FilesSay /\ PlayedArmed /\ DeadmanAt /\ UnloadFrozen
IInv == TypeOK /\ Rest

USE RecoveryAssumption DEF vars, site, library, rec, WORDS, Recoverers, Has

(* Every step keeps the types. *)
LEMMA RecoveryTypeStep == TypeOK /\ [Next]_vars => TypeOK'
<1> SUFFICES ASSUME TypeOK, [Next]_vars PROVE TypeOK'
  OBVIOUS
<1> USE DEF TypeOK
<1>1. ASSUME NEW s \in SITES, Arm(s) PROVE TypeOK'
  BY <1>1 DEF Arm, SupMoves, SupOnly
<1>2. ASSUME NEW s \in SITES, MarkUsed(s) PROVE TypeOK'
  BY <1>2 DEF MarkUsed, SupMoves, SupOnly
<1>3. ASSUME NEW s \in SITES, OwnerMissing(s) PROVE TypeOK'
  BY <1>3 DEF OwnerMissing, SupMoves, SupOnly
<1>4. ASSUME NEW s \in SITES, MarkActive(s) PROVE TypeOK'
  BY <1>4 DEF MarkActive, SupMoves, SupOnly
<1>5. ASSUME NEW s \in SITES, SupAttaches(s) PROVE TypeOK'
  BY <1>5 DEF SupAttaches, Attach, SupOnly
<1>6. ASSUME NEW s \in SITES, Install(s) PROVE TypeOK'
  BY <1>6 DEF Install, SupMoves, Detach, SupOnly
<1>7. ASSUME NEW s \in SITES, InstallFails(s) PROVE TypeOK'
  <2>1. UNCHANGED patched => patched' \in [SITES -> SUBSET WORDS]
    OBVIOUS
  <2>2. (\E w \in SUBSET WORDS : patched' = [patched EXCEPT ![s] = w]) => patched' \in [SITES -> SUBSET WORDS]
    OBVIOUS
  <2>3. patched' \in [SITES -> SUBSET WORDS]
    BY <1>7, <2>1, <2>2 DEF InstallFails, SupMoves, Refused, Detach, Fault, SupOnly
  <2>4. faults' \in 0 .. MAX_FAULTS
    BY <1>7 DEF InstallFails, SupMoves, Refused, Detach, Fault, SupOnly
  <2> QED
    BY <1>7, <2>3, <2>4 DEF InstallFails, SupMoves, Refused, Detach, Fault, SupOnly
<1>8. ASSUME NEW s \in SITES, OwnerGone(s) PROVE TypeOK'
  BY <1>8 DEF OwnerGone, SupMoves, SupOnly
<1>9. ASSUME NEW s \in SITES, Restore(s) PROVE TypeOK'
  BY <1>9 DEF Restore, Detach, Restored, SupOnly
<1>10. ASSUME NEW s \in SITES, RestoreFails(s) PROVE TypeOK'
  <2>1. UNCHANGED patched => patched' \in [SITES -> SUBSET WORDS]
    OBVIOUS
  <2>2. ASSUME \E w \in SUBSET patched[s] : patched' = [patched EXCEPT ![s] = w] PROVE patched' \in [SITES -> SUBSET WORDS]
    <3>1. PICK w \in SUBSET patched[s] : patched' = [patched EXCEPT ![s] = w]
      BY <2>2
    <3>2. w \in SUBSET WORDS
      OBVIOUS
    <3> QED
      BY <3>1, <3>2
  <2>3. patched' \in [SITES -> SUBSET WORDS]
    BY <1>10, <2>1, <2>2 DEF RestoreFails, Refused, Detach, Fault, SupOnly
  <2>4. faults' \in 0 .. MAX_FAULTS
    BY <1>10 DEF RestoreFails, Refused, Detach, Fault, SupOnly
  <2> QED
    BY <1>10, <2>3, <2>4 DEF RestoreFails, Refused, Detach, Fault, SupOnly
<1>11. ASSUME NEW s \in SITES, SeesQuiesced(s) PROVE TypeOK'
  BY <1>11 DEF SeesQuiesced, SupMoves, Confirmed, SupOnly
<1>12. ASSUME NEW s \in SITES, QuiesceTimeout(s) PROVE TypeOK'
  BY <1>12 DEF QuiesceTimeout, SupMoves, SupOnly
<1>13. ASSUME NEW s \in SITES, SupEnds(s) PROVE TypeOK'
  BY <1>13 DEF SupEnds, SupMoves, SupOnly
<1>14. ASSUME NEW s \in SITES, SupDies(s) PROVE TypeOK'
  <2>1. UNCHANGED patched => patched' \in [SITES -> SUBSET WORDS]
    OBVIOUS
  <2>2. (\E w \in SUBSET WORDS : patched' = [patched EXCEPT ![s] = w]) => patched' \in [SITES -> SUBSET WORDS]
    OBVIOUS
  <2>3. patched' \in [SITES -> SUBSET WORDS]
    BY <1>14, <2>1, <2>2 DEF SupDies, Fault, SupOnly
  <2>4. faults' \in 0 .. MAX_FAULTS
    BY <1>14 DEF SupDies, Fault, SupOnly
  <2>5. mark' \in [SITES -> SUBSET {"used", "active", "patch.restored", "quiesced", "restored"}]
    BY <1>14 DEF SupDies
  <2>6. tracer' \in {"none"} \cup SITES \cup Recoverers
    BY <1>14 DEF SupDies
  <2>7. sup' = [sup EXCEPT ![s] = "ended"] /\ UNCHANGED <<owner, call, library, rec>>
    BY <1>14 DEF SupDies, SupOnly
  <2> QED
    BY <2>3, <2>4, <2>5, <2>6, <2>7
<1>15. ASSUME NEW s \in SITES, OwnerDies(s) PROVE TypeOK'
  BY <1>15 DEF OwnerDies, Fault, SupOnly
<1>16. ASSUME NEW s \in SITES, Enter(s) PROVE TypeOK'
  BY <1>16 DEF Enter, CallMoves
<1>17. ASSUME NEW s \in SITES, Count(s) PROVE TypeOK'
  BY <1>17 DEF Count, CallMoves
<1>18. ASSUME NEW s \in SITES, Uncount(s) PROVE TypeOK'
  BY <1>18 DEF Uncount, CallMoves
<1>19. ASSUME NEW s \in SITES, Leave(s) PROVE TypeOK'
  BY <1>19 DEF Leave, CallMoves
<1>20. ASSUME NEW s \in SITES, Quiesce(s) PROVE TypeOK'
  BY <1>20 DEF Quiesce
<1>21. ASSUME ThreadExits PROVE TypeOK'
  BY <1>21 DEF ThreadExits
<1>22. ASSUME IsupQuits PROVE TypeOK'
  BY <1>22 DEF IsupQuits
<1>23. ASSUME IsupRefuses PROVE TypeOK'
  BY <1>23 DEF IsupRefuses
<1>24. ASSUME IsupUnloads PROVE TypeOK'
  BY <1>24 DEF IsupUnloads, Forget
<1>25. ASSUME IsupDies PROVE TypeOK'
  BY <1>25 DEF IsupDies, Fault
<1>26. ASSUME CoordinatorStops PROVE TypeOK'
  BY <1>26 DEF CoordinatorStops, Goes, RecOnly
<1>27. ASSUME CoordinatorDies PROVE TypeOK'
  BY <1>27 DEF CoordinatorDies, Fault
<1>28. ASSUME WatchdogFires PROVE TypeOK'
  BY <1>28 DEF WatchdogFires, Goes, Fault
<1>29. ASSUME Disarm PROVE TypeOK'
  BY <1>29 DEF Disarm, Goes, RecOnly
<1>30. ASSUME NEW r \in Recoverers, DeadmanSkips(r) PROVE TypeOK'
  BY <1>30 DEF DeadmanSkips, Advance, RecOnly
<1>31. ASSUME NEW r \in Recoverers, DeadmanFires(r) PROVE TypeOK'
  BY <1>31 DEF DeadmanFires, Goes, RecOnly
<1>32. ASSUME NEW r \in Recoverers, DeadmanSees(r) PROVE TypeOK'
  BY <1>32 DEF DeadmanSees, Goes, RecOnly
<1>33. ASSUME NEW r \in Recoverers, EmergencyAttaches(r) PROVE TypeOK'
  BY <1>33 DEF EmergencyAttaches, Goes, WaitsOut, Awaited, Attach
<1>34. ASSUME NEW r \in Recoverers, EmergencyRefused(r) PROVE TypeOK'
  BY <1>34 DEF EmergencyRefused, Goes, WaitsOut, Awaited, Refused
<1>35. ASSUME NEW r \in Recoverers, EmergencyRestores(r) PROVE TypeOK'
  BY <1>35 DEF EmergencyRestores, Goes, Detach, Restored, RecOnly
<1>36. ASSUME NEW r \in Recoverers, EmergencyFails(r) PROVE TypeOK'
  <2>1. PICK w \in SUBSET patched[at[r]] : patched' = [patched EXCEPT ![at[r]] = w]
    BY <1>36 DEF EmergencyFails
  <2>2. \A s \in SITES : at[r] = s => w \in SUBSET WORDS
    OBVIOUS
  <2>3. patched' \in [SITES -> SUBSET WORDS]
    BY <2>1, <2>2
  <2>4. faults' \in 0 .. MAX_FAULTS
    BY <1>36 DEF EmergencyFails, Fault
  <2> QED
    BY <1>36, <2>3, <2>4 DEF EmergencyFails, Goes, Detach
<1>37. ASSUME NEW r \in Recoverers, EmergencyConfirmed(r) PROVE TypeOK'
  BY <1>37 DEF EmergencyConfirmed, Goes, Confirmed, RecOnly
<1>38. ASSUME NEW r \in Recoverers, EmergencyTimeout(r) PROVE TypeOK'
  BY <1>38 DEF EmergencyTimeout, Goes, RecOnly
<1>39. ASSUME NEW r \in Recoverers, Verify(r) PROVE TypeOK'
  BY <1>39 DEF Verify, Advance, RecOnly
<1>40. ASSUME NEW r \in Recoverers, FinalTells(r) PROVE TypeOK'
  BY <1>40 DEF FinalTells, Goes, RecOnly
<1>41. ASSUME NEW r \in Recoverers, FinalMoves(r) PROVE TypeOK'
  BY <1>41 DEF FinalMoves, Goes, Refuse, RecOnly
<1>42. ASSUME NEW r \in Recoverers, FinalTimeout(r) PROVE TypeOK'
  BY <1>42 DEF FinalTimeout, Goes, RecOnly
<1>43. ASSUME NEW r \in Recoverers, FinalUnloads(r) PROVE TypeOK'
  BY <1>43 DEF FinalUnloads, Goes, RecOnly
<1>44. ASSUME NEW r \in Recoverers, FinalEnds(r) PROVE TypeOK'
  <2>1. Forget => mark' \in [SITES -> SUBSET {"used", "active", "patch.restored", "quiesced", "restored"}]
    BY DEF Forget
  <2>2. UNCHANGED mark => mark' \in [SITES -> SUBSET {"used", "active", "patch.restored", "quiesced", "restored"}]
    OBVIOUS
  <2>3. mark' \in [SITES -> SUBSET {"used", "active", "patch.restored", "quiesced", "restored"}]
    BY <1>44, <2>1, <2>2 DEF FinalEnds
  <2>4. pc' \in [Recoverers -> {"run", "begin", "wait", "emergency", "quiesce", "verify", "final", "asked", "exit", "last", "done", "failed"}]
    BY <1>44 DEF FinalEnds, Goes, Refuse
  <2>5. restored' \in BOOLEAN
    BY <1>44 DEF FinalEnds
  <2> QED
    BY <1>44, <2>3, <2>4, <2>5 DEF FinalEnds, RecOnly
<1>45. ASSUME TakesStart PROVE TypeOK'
  BY <1>45 DEF TakesStart, Commanded
<1>46. ASSUME TakesStop PROVE TypeOK'
  <2>1. mark' \in [SITES -> SUBSET {"used", "active", "patch.restored", "quiesced", "restored"}]
    BY <1>46 DEF TakesStop, Commanded
  <2> QED
    BY <1>46, <2>1 DEF TakesStop
<1>47. ASSUME NEW r \in Recoverers, EmergencyLeftOut(r) PROVE TypeOK'
  BY <1>47 DEF EmergencyLeftOut, Goes, WaitsOut, Awaited
<1>48. CASE UNCHANGED vars
  BY <1>48
<1> QED
  BY <1>1, <1>2, <1>3, <1>4, <1>5, <1>6, <1>7, <1>8, <1>9, <1>10, <1>11, <1>12, <1>13, <1>14, <1>15, <1>16, <1>17, <1>18, <1>19, <1>20, <1>21, <1>22, <1>23, <1>24, <1>25, <1>26, <1>27, <1>28, <1>29, <1>30, <1>31, <1>32, <1>33, <1>34, <1>35, <1>36, <1>37, <1>38, <1>39, <1>40, <1>41, <1>42, <1>43, <1>44, <1>45, <1>46, <1>47, <1>48
  DEF Next, Supervisor, Calls, Deadman, Finalize, Isup, Faults

(* Every step keeps the other parts. *)
LEMMA RecoveryRestStep == TypeOK /\ TypeOK' /\ Rest /\ [Next]_vars => Rest'
<1> SUFFICES ASSUME TypeOK, TypeOK', Rest, [Next]_vars PROVE Rest'
  OBVIOUS
<1> USE DEF TypeOK, Rest, StartedOver, FilesSay, PlayedArmed, Armed, DeadmanAt, UnloadFrozen, Frozen, Over, Clean, Settled, Installing, AllProven, Proven, Inspected
<1>1. ASSUME NEW s \in SITES, Arm(s) PROVE Rest'
  BY <1>1 DEF Arm, SupMoves, SupOnly
<1>2. ASSUME NEW s \in SITES, MarkUsed(s) PROVE Rest'
  BY <1>2 DEF MarkUsed, SupMoves, SupOnly
<1>3. ASSUME NEW s \in SITES, OwnerMissing(s) PROVE Rest'
  BY <1>3 DEF OwnerMissing, SupMoves, SupOnly
<1>4. ASSUME NEW s \in SITES, MarkActive(s) PROVE Rest'
  BY <1>4 DEF MarkActive, SupMoves, SupOnly
<1>5. ASSUME NEW s \in SITES, SupAttaches(s) PROVE Rest'
  BY <1>5 DEF SupAttaches, Attach, SupOnly
<1>6. ASSUME NEW s \in SITES, Install(s) PROVE Rest'
  BY <1>6 DEF Install, SupMoves, Detach, SupOnly
<1>7. ASSUME NEW s \in SITES, InstallFails(s) PROVE Rest'
  BY <1>7 DEF InstallFails, SupMoves, Refused, Detach, Fault, SupOnly
<1>8. ASSUME NEW s \in SITES, OwnerGone(s) PROVE Rest'
  BY <1>8 DEF OwnerGone, SupMoves, SupOnly
<1>9. ASSUME NEW s \in SITES, Restore(s) PROVE Rest'
  BY <1>9 DEF Restore, Detach, Restored, SupOnly
<1>10. ASSUME NEW s \in SITES, RestoreFails(s) PROVE Rest'
  BY <1>10 DEF RestoreFails, Refused, Detach, Fault, SupOnly
<1>11. ASSUME NEW s \in SITES, SeesQuiesced(s) PROVE Rest'
  BY <1>11 DEF SeesQuiesced, SupMoves, Confirmed, SupOnly
<1>12. ASSUME NEW s \in SITES, QuiesceTimeout(s) PROVE Rest'
  BY <1>12 DEF QuiesceTimeout, SupMoves, SupOnly
<1>13. ASSUME NEW s \in SITES, SupEnds(s) PROVE Rest'
  BY <1>13 DEF SupEnds, SupMoves, SupOnly
<1>14. ASSUME NEW s \in SITES, SupDies(s) PROVE Rest'
  BY <1>14 DEF SupDies, Fault, SupOnly
<1>15. ASSUME NEW s \in SITES, OwnerDies(s) PROVE Rest'
  BY <1>15 DEF OwnerDies, Fault, SupOnly
<1>16. ASSUME NEW s \in SITES, Enter(s) PROVE Rest'
  BY <1>16 DEF Enter, CallMoves
<1>17. ASSUME NEW s \in SITES, Count(s) PROVE Rest'
  BY <1>17 DEF Count, CallMoves
<1>18. ASSUME NEW s \in SITES, Uncount(s) PROVE Rest'
  BY <1>18 DEF Uncount, CallMoves
<1>19. ASSUME NEW s \in SITES, Leave(s) PROVE Rest'
  BY <1>19 DEF Leave, CallMoves
<1>20. ASSUME NEW s \in SITES, Quiesce(s) PROVE Rest'
  BY <1>20 DEF Quiesce
<1>21. ASSUME ThreadExits PROVE Rest'
  BY <1>21 DEF ThreadExits
<1>22. ASSUME IsupQuits PROVE Rest'
  BY <1>22 DEF IsupQuits
<1>23. ASSUME IsupRefuses PROVE Rest'
  BY <1>23 DEF IsupRefuses
<1>24. ASSUME IsupUnloads PROVE Rest'
  BY <1>24 DEF IsupUnloads, Forget
<1>25. ASSUME IsupDies PROVE Rest'
  BY <1>25 DEF IsupDies, Fault
<1>26. ASSUME CoordinatorStops PROVE Rest'
  BY <1>26 DEF CoordinatorStops, Goes, RecOnly
<1>27. ASSUME CoordinatorDies PROVE Rest'
  BY <1>27 DEF CoordinatorDies, Fault
<1>28. ASSUME WatchdogFires PROVE Rest'
  BY <1>28 DEF WatchdogFires, Goes, Fault
<1>29. ASSUME Disarm PROVE Rest'
  BY <1>29 DEF Disarm, Goes, RecOnly
<1>30. ASSUME NEW r \in Recoverers, DeadmanSkips(r) PROVE Rest'
  BY <1>30 DEF DeadmanSkips, Advance, RecOnly
<1>31. ASSUME NEW r \in Recoverers, DeadmanFires(r) PROVE Rest'
  BY <1>31 DEF DeadmanFires, Goes, RecOnly
<1>32. ASSUME NEW r \in Recoverers, DeadmanSees(r) PROVE Rest'
  BY <1>32 DEF DeadmanSees, Goes, RecOnly
<1>33. ASSUME NEW r \in Recoverers, EmergencyAttaches(r) PROVE Rest'
  BY <1>33 DEF EmergencyAttaches, Goes, WaitsOut, Awaited, Attach
<1>34. ASSUME NEW r \in Recoverers, EmergencyRefused(r) PROVE Rest'
  BY <1>34 DEF EmergencyRefused, Goes, WaitsOut, Awaited, Refused
<1>35. ASSUME NEW r \in Recoverers, EmergencyRestores(r) PROVE Rest'
  BY <1>35 DEF EmergencyRestores, Goes, Detach, Restored, RecOnly
<1>36. ASSUME NEW r \in Recoverers, EmergencyFails(r) PROVE Rest'
  <2>1. \A s \in SITES : patched'[s] \subseteq patched[s]
    <3>1. PICK w \in SUBSET patched[at[r]] : patched' = [patched EXCEPT ![at[r]] = w]
      BY <1>36 DEF EmergencyFails
    <3> QED
      BY <3>1
  <2>2. UNCHANGED <<mark, sup, owner, at, ok, call, mapped, thread, quit, restored, played, isup>>
    BY <1>36 DEF EmergencyFails
  <2>3. pc[r] = "emergency" /\ pc' = [pc EXCEPT ![r] = "verify"]
    BY <1>36 DEF EmergencyFails, Goes
  <2>4. StartedOver'
    BY <2>2, <2>3
  <2>5. FilesSay'
    BY <2>1, <2>2
  <2>6. DeadmanAt'
    BY <2>2, <2>3
  <2>7. UnloadFrozen'
    BY <2>1, <2>2, <2>3
  <2>8. PlayedArmed'
    BY <2>2
  <2> QED
    BY <2>4, <2>5, <2>6, <2>7, <2>8
<1>37. ASSUME NEW r \in Recoverers, EmergencyConfirmed(r) PROVE Rest'
  BY <1>37 DEF EmergencyConfirmed, Goes, Confirmed, RecOnly
<1>38. ASSUME NEW r \in Recoverers, EmergencyTimeout(r) PROVE Rest'
  BY <1>38 DEF EmergencyTimeout, Goes, RecOnly
<1>39. ASSUME NEW r \in Recoverers, Verify(r) PROVE Rest'
  BY <1>39 DEF Verify, Advance, RecOnly
<1>40. ASSUME NEW r \in Recoverers, FinalTells(r) PROVE Rest'
  BY <1>40 DEF FinalTells, Goes, RecOnly
<1>41. ASSUME NEW r \in Recoverers, FinalMoves(r) PROVE Rest'
  BY <1>41 DEF FinalMoves, Goes, Refuse, RecOnly
<1>42. ASSUME NEW r \in Recoverers, FinalTimeout(r) PROVE Rest'
  BY <1>42 DEF FinalTimeout, Goes, RecOnly
<1>43. ASSUME NEW r \in Recoverers, FinalUnloads(r) PROVE Rest'
  BY <1>43 DEF FinalUnloads, Goes, RecOnly
<1>44. ASSUME NEW r \in Recoverers, FinalEnds(r) PROVE Rest'
  BY <1>44 DEF FinalEnds, Goes, Refuse, Forget, RecOnly
<1>45. ASSUME TakesStart PROVE Rest'
  BY <1>45 DEF TakesStart, Commanded
<1>46. ASSUME TakesStop PROVE Rest'
  BY <1>46 DEF TakesStop, Commanded
<1>47. ASSUME NEW r \in Recoverers, EmergencyLeftOut(r) PROVE Rest'
  BY <1>47 DEF EmergencyLeftOut, Goes, WaitsOut, Awaited
<1>48. CASE UNCHANGED vars
  BY <1>48
<1> HIDE DEF TypeOK, Rest, StartedOver, FilesSay, PlayedArmed, Armed, DeadmanAt, UnloadFrozen, Frozen, Over, Clean, Settled, Installing, AllProven, Proven, Inspected
<1> QED
  BY <1>1, <1>2, <1>3, <1>4, <1>5, <1>6, <1>7, <1>8, <1>9, <1>10, <1>11, <1>12, <1>13, <1>14, <1>15, <1>16, <1>17, <1>18, <1>19, <1>20, <1>21, <1>22, <1>23, <1>24, <1>25, <1>26, <1>27, <1>28, <1>29, <1>30, <1>31, <1>32, <1>33, <1>34, <1>35, <1>36, <1>37, <1>38, <1>39, <1>40, <1>41, <1>42, <1>43, <1>44, <1>45, <1>46, <1>47, <1>48
  DEF Next, Supervisor, Calls, Deadman, Finalize, Isup, Faults

(* The files, the supervisors and the recoverers agree in every state of the
   recovery, for all sites and any number of faults. *)
THEOREM RecoveryInvariant == Spec => []IInv
<1>1. Init => TypeOK
  <2> SUFFICES ASSUME Init PROVE TypeOK
    OBVIOUS
  <2>1. /\ patched \in [SITES -> SUBSET WORDS]
        /\ mark \in [SITES -> SUBSET {"used", "active", "patch.restored", "quiesced", "restored"}]
    BY DEF Init
  <2>2. owner \in [SITES -> BOOLEAN]
    BY DEF Init
  <2>3. sup \in [SITES -> {"none"}] /\ call \in [SITES -> {"out"}]
    BY DEF Init
  <2>4. pc \in [Recoverers -> {"run"}] /\ at \in [Recoverers -> {"ptz", "audio"}]
    BY DEF Init
  <2>5. ok \in [Recoverers -> BOOLEAN]
    BY DEF Init
  <2>6. faults \in 0 .. MAX_FAULTS
    BY DEF Init
  <2> QED
    BY <2>1, <2>2, <2>3, <2>4, <2>5, <2>6 DEF Init, TypeOK
<1>2. Init => Rest
  BY DEF Init, Rest, StartedOver, FilesSay, PlayedArmed, Armed, DeadmanAt, UnloadFrozen, Frozen, Over, Clean, Settled, Installing
<1>3. Init => IInv
  BY <1>1, <1>2 DEF IInv
<1>4. IInv /\ [Next]_vars => IInv'
  BY RecoveryTypeStep, RecoveryRestStep DEF IInv
<1> QED
  BY <1>3, <1>4, PTL DEF Spec

(* A restoration that a supervisor or an emergency has put on record is one of
   both words, and no later step of any process undoes it; the worker writes a
   record of its own only as long as no game has had the sound. *)
THEOREM RecoveryRecordHonest == Spec => []RecordHonest
<1>1. IInv => RecordHonest
  BY DEF IInv, Rest, FilesSay, RecordHonest
<1> QED
  BY <1>1, RecoveryInvariant, PTL

(* Where a thread needs less for the uncounted instructions than the worker for a
   pass, the library goes only with every site restored and nobody in its code. *)
THEOREM RecoveryUnloadSafe == ASSUME PROMPT PROVE Spec => []UnloadSafe
<1>1. IInv => UnloadSafe
  BY PROMPT DEF IInv, Rest, UnloadFrozen, Frozen, Clean, UnloadSafe
<1> QED
  BY <1>1, RecoveryInvariant, PTL
=============================================================================
