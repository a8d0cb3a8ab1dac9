--------------------------- MODULE PtzRingProofs ---------------------------
(***************************************************************************)
(* Proofs about PtzRing for every ring size, every set of threads and every *)
(* number of words.  The argument of EventWhole: a writer that is in a slot *)
(* when a later ticket of that slot is taken puts that ticket in mixed      *)
(* (Overtaken); so the words of a ticket outside mixed, within one lap of   *)
(* the newest ticket, are written by nobody but its own call.               *)
(***************************************************************************)
EXTENDS PtzRing, FiniteSetTheorems, TLAPS

Inside == {t \in THREADS : tpc[t] # "out"}
Counted == active_calls = Cardinality(Inside)

(* The thread holds a ticket it has not committed. *)
Writing(t) == tpc[t] = "write"
Fresh(n) == n \notin mixed /\ write_ticket <= n + SIZE

(* Tickets and commits are of the slot they are in and have been taken. *)
TicketInv ==
    /\ read_ticket <= write_ticket
    /\ \A s \in Slots : committed[s] <= write_ticket
    /\ \A s \in Slots : committed[s] # 0 => Slot(committed[s] - 1) = s
    /\ \A t \in THREADS : Writing(t) => /\ ticket[t] \in Nat /\ ticket[t] < write_ticket
                                        /\ committed[Slot(ticket[t])] # ticket[t] + 1
    /\ \A t, u \in THREADS : Writing(t) /\ Writing(u) /\ t # u => ticket[t] # ticket[u]

(* A ticket taken while an older one of its slot is still written is mixed. *)
Overtaken ==
    \A t \in THREADS : \A n \in Nat :
        Writing(t) /\ ticket[t] < n /\ n < write_ticket /\ Slot(n) = Slot(ticket[t]) => n \in mixed

(* The words of a fresh ticket, written so far and once committed. *)
WordInv ==
    /\ \A t \in THREADS : Writing(t) /\ Fresh(ticket[t]) =>
         \A f \in FIELDS \ left[t] : word[Slot(ticket[t])][f] = ticket[t]
    /\ \A s \in Slots : committed[s] # 0 /\ Fresh(committed[s] - 1) =>
         \A f \in FIELDS : word[s][f] = committed[s] - 1

CopyInv ==
    /\ last.sequence <= read_ticket
    /\ rpc = "copy" => drained < SIZE /\ read_ticket < write_ticket
    /\ rpc = "copy" /\ Fresh(read_ticket) =>
         /\ committed[Slot(read_ticket)] = read_ticket + 1
         /\ \A f \in FIELDS : copy[f] \in {NONE, read_ticket}
    /\ EventWhole

IInv == TypeOK /\ TicketInv /\ Overtaken /\ WordInv /\ CopyInv

-----------------------------------------------------------------------------
LEMMA SlotType == ASSUME NEW n \in Nat PROVE Slot(n) \in Slots
<1>1. SIZE \in Nat /\ SIZE > 0 BY PtzAssumption
<1>2. n % SIZE \in 0 .. SIZE - 1 BY <1>1, SMTT(30)
<1> QED BY <1>2 DEF Slot, Slots

(* Tickets of one slot are whole laps apart. *)
LEMMA Laps ==
    ASSUME NEW a \in Nat, NEW b \in Nat, Slot(a) = Slot(b), a < b
    PROVE  a + SIZE <= b
<1>1. SIZE \in Nat /\ SIZE > 0 BY PtzAssumption
<1>3. \A z \in Nat : z = SIZE * (z \div SIZE) + (z % SIZE) /\ z \div SIZE \in Int /\ z % SIZE \in 0 .. SIZE - 1
  BY <1>1, SMTT(30)
<1> DEFINE p == a \div SIZE  q == b \div SIZE
<1>4. a = SIZE * p + (a % SIZE) /\ b = SIZE * q + (b % SIZE) /\ p \in Int /\ q \in Int BY <1>3
<1>5. a % SIZE = b % SIZE /\ a % SIZE \in Int BY <1>3 DEF Slot
<1> HIDE DEF p, q
<1>6. SIZE * p < SIZE * q
  <2> DEFINE r == a % SIZE  x == SIZE * p  y == SIZE * q
  <2>1. a = x + r /\ b = y + r /\ x \in Int /\ y \in Int /\ r \in Int BY <1>1, <1>4, <1>5
  <2> HIDE DEF r, x, y
  <2>2. x < y BY <2>1
  <2> QED BY <2>2 DEF x, y
<1>7. p < q BY <1>1, <1>4, <1>6, SMTT(30)
<1>8. SIZE * (p + 1) <= SIZE * q BY <1>1, <1>4, <1>7, SMTT(30)
<1>9. SIZE * (p + 1) = SIZE * p + SIZE BY <1>1, <1>4, SMTT(30)
<1> QED
  <2> DEFINE r == a % SIZE  x == SIZE * p  y == SIZE * q
  <2>1. a = x + r /\ b = y + r /\ x \in Int /\ y \in Int /\ r \in Int /\ x + SIZE <= y
    BY <1>1, <1>4, <1>5, <1>8, <1>9
  <2> HIDE DEF r, x, y
  <2> QED BY <1>1, <2>1

(* What CountCalls says of the set of threads inside the hook. *)
LEMMA CountCalls ==
    ASSUME NEW S \in SUBSET THREADS, NEW t \in THREADS
    PROVE  /\ Cardinality(S) \in 0 .. Cardinality(THREADS)
           /\ t \notin S => Cardinality(S \cup {t}) = Cardinality(S) + 1
           /\ t \in S => Cardinality(S \ {t}) = Cardinality(S) - 1
<1>1. IsFiniteSet(THREADS) BY PtzAssumption
<1>2. IsFiniteSet(S) /\ Cardinality(S) <= Cardinality(THREADS) BY <1>1, FS_Subset
<1>3. Cardinality(S) \in Nat /\ Cardinality(THREADS) \in Nat BY <1>1, <1>2, FS_CardinalityType
<1>4. t \notin S => Cardinality(S \cup {t}) = Cardinality(S) + 1 BY <1>2, FS_AddElement
<1>5. t \in S => Cardinality(S \ {t}) = Cardinality(S) - 1 BY <1>2, FS_RemoveElement
<1> QED BY <1>2, <1>3, <1>4, <1>5

-----------------------------------------------------------------------------
(* The types hold along every step: a thread that leaves was counted. *)
LEMMA TypeStep ==
    ASSUME TypeOK, Counted, TicketInv, CopyInv, Next
    PROVE  TypeOK' /\ Counted'
<1> USE DEF TypeOK, Counted, Inside
<1> USE SlotType
<1>s. SIZE \in Nat /\ SIZE > 0 BY PtzAssumption
<1>1. ASSUME NEW t \in THREADS, Enter(t) PROVE TypeOK' /\ Counted'
  <2>1. t \notin Inside /\ Inside' = Inside \cup {t} /\ Inside \in SUBSET THREADS /\ Inside' \in SUBSET THREADS
    BY <1>1 DEF Enter
  <2>2. Counted' /\ active_calls' \in 0 .. Cardinality(THREADS)
    <3>1. active_calls' = Cardinality(Inside') BY <1>1, <2>1, CountCalls DEF Enter
    <3>2. Cardinality(Inside') \in 0 .. Cardinality(THREADS) BY <2>1, CountCalls
    <3> QED BY <3>1, <3>2
  <2> QED BY <1>1, <2>2 DEF Enter, slots, worker
<1>2. ASSUME NEW t \in THREADS, Leave(t) PROVE TypeOK' /\ Counted'
  <2>1. t \in Inside /\ Inside' = Inside \ {t} /\ Inside \in SUBSET THREADS /\ Inside' \in SUBSET THREADS
    BY <1>2 DEF Leave
  <2>2. Counted' /\ active_calls' \in 0 .. Cardinality(THREADS)
    <3>1. active_calls' = Cardinality(Inside') BY <1>2, <2>1, CountCalls DEF Leave
    <3>2. Cardinality(Inside') \in 0 .. Cardinality(THREADS) BY <2>1, CountCalls
    <3> QED BY <3>1, <3>2
  <2> QED BY <1>2, <2>2 DEF Leave, slots, worker
<1>3. ASSUME NEW t \in THREADS, LoadMode(t) \/ Unsupported(t) \/ Route(t) PROVE TypeOK' /\ Counted'
  <2>1. Inside' = Inside BY <1>3 DEF LoadMode, Unsupported, Route
  <2> QED BY <1>3, <2>1 DEF LoadMode, Unsupported, Route, atomics, slots, worker
<1>4. ASSUME NEW t \in THREADS, Take(t) PROVE TypeOK' /\ Counted'
  <2>1. Inside' = Inside BY <1>4 DEF Take
  <2>2. mixed' \subseteq Nat BY <1>4 DEF Take
  <2>3. write_ticket' \in Nat BY <1>4 DEF Take
  <2>4. ticket' \in [THREADS -> Nat \cup {NONE}] /\ left' \in [THREADS -> SUBSET FIELDS]
        /\ tpc' \in [THREADS -> {"out", "mode", "take", "write", "route", "consume", "pass"}]
    BY <1>4 DEF Take
  <2>5. UNCHANGED <<ptz_mode, active_calls, slots, worker>> BY <1>4 DEF Take
  <2> QED BY <2>1, <2>2, <2>3, <2>4, <2>5 DEF slots, worker
<1>5. ASSUME NEW t \in THREADS, NEW f \in FIELDS, Write(t, f) PROVE TypeOK' /\ Counted'
  <2>1. Inside' = Inside BY <1>5 DEF Write
  <2>2. ticket[t] \in Nat /\ Slot(ticket[t]) \in Slots BY <1>5 DEF Write, TicketInv, Writing
  <2>3. word' \in [Slots -> [FIELDS -> Nat \cup {NONE}]] BY <1>5, <2>2 DEF Write
  <2> QED BY <1>5, <2>1, <2>3 DEF Write, atomics, worker
<1>6. ASSUME NEW t \in THREADS, Commit(t) PROVE TypeOK' /\ Counted'
  <2>1. Inside' = Inside BY <1>6 DEF Commit
  <2>2. ticket[t] \in Nat /\ Slot(ticket[t]) \in Slots BY <1>6 DEF Commit, TicketInv, Writing
  <2>3. committed' \in [Slots -> Nat] BY <1>6, <2>2 DEF Commit
  <2>4. tpc' \in [THREADS -> {"out", "mode", "take", "write", "route", "consume", "pass"}]
    BY <1>6 DEF Commit
  <2>5. UNCHANGED <<atomics, word, ticket, left, worker, mixed>> BY <1>6 DEF Commit
  <2> QED BY <2>1, <2>3, <2>4, <2>5 DEF atomics, worker
<1>7. ASSUME NEW m \in {"camera", "doom", "off"}, SetMode(m) PROVE TypeOK' /\ Counted'
  BY <1>7 DEF SetMode, slots, threads, worker
<1>8. CASE BeginDrain
  BY <1>8, <1>s DEF BeginDrain, atomics, slots, threads
<1>9. CASE Look
  <2>1. Slot(read_ticket) \in Slots OBVIOUS
  <2>2. committed[Slot(read_ticket)] \in Nat BY <2>1
  <2>3. drained' \in 0 .. SIZE BY <1>9, <1>s DEF Look
  <2>4. read_ticket' \in Nat BY <1>9, <2>2 DEF Look, seen, expected
  <2>5. copy' \in [FIELDS -> Nat \cup {NONE}] BY <1>9 DEF Look, Nothing
  <2>6. rpc' \in {"away", "look", "copy"} BY <1>9 DEF Look
  <2>7. UNCHANGED <<atomics, slots, threads, last, mixed>> BY <1>9 DEF Look
  <2> QED BY <2>3, <2>4, <2>5, <2>6, <2>7 DEF atomics, slots, threads
<1>10. CASE HandOn
  BY <1>10, <1>s DEF HandOn, CopyInv, expected, Nothing, NONE, atomics, slots, threads
<1>11. ASSUME NEW f \in FIELDS, CopyWord(f) PROVE TypeOK' /\ Counted'
  <2>1. Slot(read_ticket) \in Slots OBVIOUS
  <2>2. word[Slot(read_ticket)] \in [FIELDS -> Nat \cup {NONE}] BY <2>1
  <2>3. word[Slot(read_ticket)][f] \in Nat \cup {NONE} BY <2>2
  <2>4. copy' \in [FIELDS -> Nat \cup {NONE}] BY <1>11, <2>3 DEF CopyWord
  <2> QED BY <1>11, <2>4 DEF CopyWord, atomics, slots, threads
<1> QED BY <1>1, <1>2, <1>3, <1>4, <1>5, <1>6, <1>7, <1>8, <1>9, <1>10, <1>11 DEF Next, Call, Drain

(* What a step changes of the tickets and of the slots, seen by a fixed thread
   and a fixed slot. *)
LEMMA TicketStep ==
    ASSUME TypeOK, TicketInv, CopyInv, Next
    PROVE  TicketInv'
<1> USE DEF TypeOK, TicketInv, Writing
<1> USE SlotType
<1>1. ASSUME NEW t \in THREADS, Enter(t) \/ Leave(t) \/ LoadMode(t) \/ Unsupported(t) \/ Route(t)
      PROVE TicketInv'
  <2>1. /\ read_ticket' = read_ticket /\ write_ticket' = write_ticket /\ committed' = committed
        /\ \A u \in THREADS : Writing(u)' => Writing(u) /\ ticket'[u] = ticket[u]
    BY <1>1 DEF Enter, Leave, LoadMode, Unsupported, Route, atomics, slots, worker
  <2> QED BY <2>1
<1>4. ASSUME NEW t \in THREADS, Take(t) PROVE TicketInv'
  <2>1. write_ticket' = write_ticket + 1 /\ ticket' = [ticket EXCEPT ![t] = write_ticket]
        /\ tpc' = [tpc EXCEPT ![t] = "write"] /\ committed' = committed /\ read_ticket' = read_ticket
    BY <1>4 DEF Take, slots, worker
  <2>2. Slot(write_ticket) \in Slots OBVIOUS
  <2>3. committed[Slot(write_ticket)] # write_ticket + 1 BY <2>2
  <2>4. ASSUME NEW u \in THREADS, Writing(u)' PROVE ticket[u]' \in Nat /\ ticket[u]' < write_ticket'
                                       /\ committed[Slot(ticket[u])]' # ticket[u]' + 1
    <3>1. CASE u = t BY <2>1, <2>3, <3>1
    <3>2. CASE u # t BY <2>1, <2>4, <3>2
    <3> QED BY <3>1, <3>2
  <2>5. ASSUME NEW u \in THREADS, NEW v \in THREADS, Writing(u)', Writing(v)', u # v PROVE ticket[u]' # ticket[v]'
    <3>1. CASE u = t BY <2>1, <2>5, <3>1
    <3>2. CASE v = t BY <2>1, <2>5, <3>2
    <3>3. CASE u # t /\ v # t BY <2>1, <2>5, <3>3
    <3> QED BY <3>1, <3>2, <3>3
  <2> QED BY <2>1, <2>4, <2>5
<1>5. ASSUME NEW t \in THREADS, NEW f \in FIELDS, Write(t, f) PROVE TicketInv'
  BY <1>5 DEF Write, atomics, worker
<1>6. ASSUME NEW t \in THREADS, Commit(t) PROVE TicketInv'
  <2>1. ticket[t] \in Nat /\ Slot(ticket[t]) \in Slots /\ ticket[t] < write_ticket BY <1>6 DEF Commit
  <2>2. committed' = [committed EXCEPT ![Slot(ticket[t])] = ticket[t] + 1] /\ tpc' = [tpc EXCEPT ![t] = "route"]
        /\ write_ticket' = write_ticket /\ read_ticket' = read_ticket /\ ticket' = ticket
    BY <1>6 DEF Commit, atomics, worker
  <2>3. \A s \in Slots : committed'[s] # 0 => Slot(committed'[s] - 1) = s
    <3>1. ticket[t] + 1 - 1 = ticket[t] BY <2>1
    <3> SUFFICES ASSUME NEW s \in Slots, committed'[s] # 0 PROVE Slot(committed'[s] - 1) = s
      OBVIOUS
    <3>2. CASE s = Slot(ticket[t])
      <4>1. committed'[s] = ticket[t] + 1 BY <2>2, <3>2
      <4> HIDE DEF TypeOK, TicketInv
      <4>2. committed'[s] - 1 = ticket[t] BY <4>1, <2>1
      <4> QED BY <4>2, <3>2
    <3>3. CASE s # Slot(ticket[t]) BY <2>2, <3>3
    <3> QED BY <3>2, <3>3
  <2>4. ASSUME NEW u \in THREADS, Writing(u)' PROVE committed[Slot(ticket[u])]' # ticket[u]' + 1
    <3>1. u # t /\ Writing(u) /\ Writing(t) BY <2>2, <2>4, <1>6 DEF Commit
    <3>2. ticket[u] # ticket[t] /\ ticket[u] \in Nat /\ committed[Slot(ticket[u])] # ticket[u] + 1
      BY <3>1
    <3>3. Slot(ticket[u]) \in Slots BY <3>2
    <3>4. committed'[Slot(ticket[u])] # ticket[u] + 1
      <4>1. CASE Slot(ticket[u]) = Slot(ticket[t])
        <5>1. committed'[Slot(ticket[u])] = ticket[t] + 1 BY <2>2, <3>3, <4>1
        <5> HIDE DEF TypeOK, TicketInv
        <5> QED BY <5>1, <2>1, <3>2
      <4>2. CASE Slot(ticket[u]) # Slot(ticket[t])
        <5>1. committed'[Slot(ticket[u])] = committed[Slot(ticket[u])] BY <2>2, <3>3, <4>2
        <5> QED BY <5>1, <3>2
      <4> QED BY <4>1, <4>2
    <3> QED BY <2>2, <3>4
  <2> QED BY <2>1, <2>2, <2>3, <2>4
<1>7. ASSUME NEW m \in {"camera", "doom", "off"}, SetMode(m) PROVE TicketInv'
  BY <1>7 DEF SetMode, slots, threads, worker
<1>8. CASE BeginDrain \/ \E f \in FIELDS : CopyWord(f)
  BY <1>8 DEF BeginDrain, CopyWord, atomics, slots, threads
<1>9. CASE Look
  <2>1. Slot(read_ticket) \in Slots OBVIOUS
  <2> QED BY <1>9, <2>1 DEF Look, seen, expected, atomics, slots, threads
<1>10. CASE HandOn
  BY <1>10 DEF HandOn, CopyInv, expected, atomics, slots, threads
<1> QED BY <1>1, <1>4, <1>5, <1>6, <1>7, <1>8, <1>9, <1>10 DEF Next, Call, Drain

LEMMA OvertakenStep ==
    ASSUME TypeOK, TicketInv, Overtaken, Next
    PROVE  Overtaken'
<1> SUFFICES ASSUME NEW u \in THREADS, NEW n \in Nat, Writing(u)', ticket'[u] < n, n < write_ticket',
                    Slot(n) = Slot(ticket'[u])
             PROVE  n \in mixed'
  BY DEF Overtaken
<1>1. CASE \E t \in THREADS : Take(t)
  <2> PICK t \in THREADS : Take(t) BY <1>1
  <2>1. /\ write_ticket' = write_ticket + 1 /\ ticket' = [ticket EXCEPT ![t] = write_ticket]
        /\ tpc' = [tpc EXCEPT ![t] = "write"] /\ mixed \subseteq mixed'
        /\ Writers(t, write_ticket) # {} => write_ticket \in mixed'
    BY DEF Take
  <2>2. u # t /\ Writing(u) /\ ticket'[u] = ticket[u]
    <3>1. u = t => ticket'[u] = write_ticket BY <2>1 DEF TypeOK
    <3>2. u # t BY <2>1, <3>1 DEF TypeOK
    <3> QED BY <2>1, <3>2 DEF TypeOK, Writing
  <2>3. CASE n = write_ticket
    <3>1. u \in Writers(t, write_ticket) BY <2>2, <2>3 DEF Writers, Writing
    <3> QED BY <2>1, <2>3, <3>1
  <2>4. CASE n # write_ticket
    <3>1. n < write_ticket BY <2>1, <2>4 DEF TypeOK
    <3>2. n \in mixed BY <2>2, <3>1 DEF Overtaken
    <3> QED BY <2>1, <3>2
  <2> QED BY <2>3, <2>4
<1>2. CASE ~ \E t \in THREADS : Take(t)
  <2>1. write_ticket' = write_ticket /\ mixed' = mixed
    BY <1>2 DEF Next, Call, Drain, Enter, Leave, LoadMode, Unsupported, Route, Write, Commit, SetMode, BeginDrain,
       Look, HandOn, CopyWord, atomics
  <2>2. Writing(u) /\ ticket'[u] = ticket[u]
    BY <1>2 DEF Next, Call, Drain, Enter, Leave, LoadMode, Unsupported, Route, Write, Commit, SetMode, BeginDrain,
       Look, HandOn, CopyWord, threads, TypeOK, Writing
  <2> QED BY <2>1, <2>2 DEF Overtaken
<1> QED BY <1>1, <1>2

(* Nobody but its own call writes the words of a fresh ticket's slot, and nobody
   commits over it. *)
LEMMA OnlyOwner ==
    ASSUME TypeOK, TicketInv, Overtaken, NEW t \in THREADS, Writing(t),
           NEW n \in Nat, n < write_ticket, Fresh(n), Slot(ticket[t]) = Slot(n)
    PROVE  ticket[t] = n
<1>1. ticket[t] \in Nat /\ ticket[t] < write_ticket BY DEF TicketInv
<1>2. SIZE \in Nat BY PtzAssumption
<1>3. ~(ticket[t] < n) BY <1>1 DEF Overtaken, Fresh
<1>4. ~(n < ticket[t])
  <2>1. SUFFICES ASSUME n < ticket[t] PROVE FALSE OBVIOUS
  <2>2. n + SIZE <= ticket[t] BY <1>1, <2>1, Laps
  <2> QED BY <1>1, <1>2, <2>2 DEF Fresh, TypeOK
<1> QED BY <1>1, <1>3, <1>4

(* Freshness is only ever lost. *)
LEMMA FreshBefore ==
    ASSUME TypeOK, Next, NEW n \in Nat, Fresh(n)'
    PROVE  Fresh(n)
<1>1. CASE \E t \in THREADS : Take(t)
  BY <1>1, PtzAssumption DEF Take, Fresh, TypeOK
<1>2. CASE ~ \E t \in THREADS : Take(t)
  <2>1. write_ticket' = write_ticket /\ mixed' = mixed
    BY <1>2 DEF Next, Call, Drain, Enter, Leave, LoadMode, Unsupported, Route, Write, Commit, SetMode, BeginDrain,
       Look, HandOn, CopyWord, atomics
  <2> QED BY <2>1 DEF Fresh
<1> QED BY <1>1, <1>2

LEMMA WordStep ==
    ASSUME TypeOK, TypeOK', TicketInv, TicketInv', Overtaken, WordInv, Next
    PROVE  WordInv'
<1>b. \A n \in Nat : Fresh(n)' => Fresh(n) BY FreshBefore
<1>1. ASSUME NEW t \in THREADS, Take(t) PROVE WordInv'
  <2>1. /\ ticket' = [ticket EXCEPT ![t] = write_ticket] /\ left' = [left EXCEPT ![t] = FIELDS]
        /\ tpc' = [tpc EXCEPT ![t] = "write"] /\ word' = word /\ committed' = committed
    BY <1>1 DEF Take, slots
  <2>2. \A u \in THREADS : Writing(u)' /\ u # t => Writing(u) /\ ticket'[u] = ticket[u] /\ left'[u] = left[u]
                                                 /\ ticket[u] \in Nat
    BY <2>1 DEF Writing, TypeOK, TicketInv
  <2>3. left'[t] = FIELDS BY <2>1 DEF TypeOK
  <2>4. \A s \in Slots : committed[s] # 0 => committed[s] - 1 \in Nat BY DEF TypeOK
  <2>5. \A u \in THREADS : Fresh(ticket[u])' /\ ticket'[u] \in Nat => Fresh(ticket'[u])
    BY <1>b DEF Fresh
  <2>6. \A s \in Slots : committed[s] # 0 /\ Fresh(committed[s] - 1)' => Fresh(committed[s] - 1)
    BY <1>b, <2>1, <2>4 DEF Fresh
  <2> QED BY <2>1, <2>2, <2>3, <2>5, <2>6 DEF WordInv
<1>2. ASSUME NEW t \in THREADS, NEW f \in FIELDS, Write(t, f) PROVE WordInv'
  <2>1. /\ word' = [word EXCEPT ![Slot(ticket[t])][f] = ticket[t]] /\ left' = [left EXCEPT ![t] = @ \ {f}]
        /\ committed' = committed /\ ticket' = ticket /\ tpc' = tpc /\ write_ticket' = write_ticket
        /\ mixed' = mixed /\ Writing(t)
    BY <1>2 DEF Write, Writing, atomics
  <2>2. ticket[t] \in Nat /\ Slot(ticket[t]) \in Slots BY <2>1, SlotType DEF TicketInv
  <2>3. ASSUME NEW u \in THREADS, Writing(u), Fresh(ticket[u]), NEW g \in FIELDS \ left'[u]
        PROVE  word'[Slot(ticket[u])][g] = ticket[u]
    <3>1. ticket[u] \in Nat /\ ticket[u] < write_ticket /\ Slot(ticket[u]) \in Slots
      BY <2>3, SlotType DEF TicketInv
    <3>2. CASE Slot(ticket[u]) # Slot(ticket[t])
      <4>1. u # t /\ left'[u] = left[u] BY <2>1, <3>2 DEF TypeOK
      <4>2. word'[Slot(ticket[u])] = word[Slot(ticket[u])] BY <2>1, <2>2, <3>1, <3>2 DEF TypeOK
      <4> QED BY <2>3, <4>1, <4>2 DEF WordInv
    <3>3. CASE Slot(ticket[u]) = Slot(ticket[t])
      <4>1. ticket[t] = ticket[u] BY <2>1, <2>3, <3>1, <3>3, OnlyOwner
      <4>2. u = t BY <2>1, <2>3, <4>1 DEF TicketInv
      <4>3. CASE g = f BY <2>1, <2>2, <4>1, <4>3 DEF TypeOK
      <4>4. CASE g # f
        <5>1. g \in FIELDS \ left[t] BY <2>1, <2>3, <4>2, <4>4 DEF TypeOK
        <5>2. word[Slot(ticket[t])][g] = ticket[t] BY <2>3, <4>2, <5>1 DEF WordInv
        <5>3. word'[Slot(ticket[t])][g] = word[Slot(ticket[t])][g] BY <2>1, <2>2, <4>4 DEF TypeOK
        <5> QED BY <4>2, <5>2, <5>3
      <4> QED BY <4>3, <4>4
    <3> QED BY <3>2, <3>3
  <2>4. ASSUME NEW s \in Slots, committed[s] # 0, Fresh(committed[s] - 1), NEW g \in FIELDS
        PROVE  word'[s][g] = committed[s] - 1
    <3>1. committed[s] - 1 \in Nat /\ committed[s] - 1 < write_ticket /\ Slot(committed[s] - 1) = s
      <4>1. committed[s] \in Nat /\ committed[s] <= write_ticket /\ write_ticket \in Nat
            /\ Slot(committed[s] - 1) = s
        BY <2>4 DEF TypeOK, TicketInv
      <4> QED BY <2>4, <4>1
    <3>2. Slot(ticket[t]) # s
      <4> SUFFICES ASSUME Slot(ticket[t]) = s PROVE FALSE OBVIOUS
      <4>1. ticket[t] = committed[s] - 1 BY <2>1, <2>4, <3>1, OnlyOwner
      <4>2. committed[Slot(ticket[t])] # ticket[t] + 1 BY <2>1 DEF TicketInv
      <4>3. committed[s] \in Nat BY DEF TypeOK
      <4> QED BY <4>1, <4>2, <4>3
    <3>3. word'[s] = word[s] BY <2>1, <2>2, <3>2 DEF TypeOK
    <3> QED BY <2>4, <3>3 DEF WordInv
  <2> QED BY <2>1, <2>3, <2>4 DEF WordInv, Writing, Fresh
<1>3. ASSUME NEW t \in THREADS, Commit(t) PROVE WordInv'
  <2>1. /\ committed' = [committed EXCEPT ![Slot(ticket[t])] = ticket[t] + 1] /\ word' = word /\ left' = left
        /\ tpc' = [tpc EXCEPT ![t] = "route"] /\ ticket' = ticket /\ write_ticket' = write_ticket
        /\ mixed' = mixed /\ Writing(t) /\ left[t] = {}
    BY <1>3 DEF Commit, Writing, atomics
  <2>2. ticket[t] \in Nat /\ Slot(ticket[t]) \in Slots BY <2>1, SlotType DEF TicketInv
  <2>3. \A u \in THREADS : Writing(u)' => Writing(u) BY <2>1 DEF Writing, TypeOK
  <2>4. ASSUME NEW s \in Slots, committed'[s] # 0, Fresh(committed'[s] - 1), NEW g \in FIELDS
        PROVE  word[s][g] = committed'[s] - 1
    <3>1. CASE s = Slot(ticket[t])
      <4>1. committed'[s] - 1 = ticket[t]
        <5>1. committed'[s] = ticket[t] + 1 BY <2>1, <3>1 DEF TypeOK
        <5> QED BY <5>1, <2>2
      <4>2. word[Slot(ticket[t])][g] = ticket[t] BY <2>1, <2>4, <4>1 DEF WordInv
      <4> QED BY <3>1, <4>1, <4>2
    <3>2. CASE s # Slot(ticket[t])
      <4>1. committed'[s] = committed[s] BY <2>1, <3>2 DEF TypeOK
      <4> QED BY <2>4, <4>1 DEF WordInv
    <3> QED BY <3>1, <3>2
  <2> QED BY <2>1, <2>3, <2>4 DEF WordInv, Fresh
<1>4. ASSUME UNCHANGED <<word, committed, write_ticket, mixed, left>>,
             \A u \in THREADS : Writing(u)' => Writing(u) /\ ticket'[u] = ticket[u]
      PROVE  WordInv'
  BY <1>4 DEF WordInv, Fresh
<1>5. ASSUME NEW t \in THREADS, Enter(t) \/ Leave(t) \/ LoadMode(t) \/ Unsupported(t) \/ Route(t)
      PROVE  WordInv'
  <2>1. UNCHANGED <<word, committed, write_ticket, mixed, left>>
    BY <1>5 DEF Enter, Leave, LoadMode, Unsupported, Route, atomics, slots
  <2>2. \A u \in THREADS : Writing(u)' => Writing(u) /\ ticket'[u] = ticket[u]
    BY <1>5 DEF Enter, Leave, LoadMode, Unsupported, Route, Writing, TypeOK
  <2> QED BY <1>4, <2>1, <2>2
<1>6. CASE (\E m \in {"camera", "doom", "off"} : SetMode(m)) \/ Drain
  <2>1. UNCHANGED <<word, committed, write_ticket, mixed, left, tpc, ticket>>
    BY <1>6 DEF SetMode, Drain, BeginDrain, Look, HandOn, CopyWord, atomics, slots, threads
  <2> QED BY <1>4, <2>1 DEF Writing
<1> QED BY <1>1, <1>2, <1>3, <1>5, <1>6 DEF Next, Call

LEMMA CopyStep ==
    ASSUME TypeOK, TypeOK', TicketInv, Overtaken, WordInv, CopyInv, Next
    PROVE  CopyInv'
<1>s. SIZE \in Nat BY PtzAssumption
<1>r. Slot(read_ticket) \in Slots /\ read_ticket \in Nat BY SlotType DEF TypeOK
<1>b. \A n \in Nat : Fresh(n)' => Fresh(n) BY FreshBefore
<1>m. write_ticket <= write_ticket' /\ mixed \subseteq mixed'
  <2>1. CASE \E t \in THREADS : Take(t) BY <2>1 DEF Take, TypeOK
  <2>2. CASE ~ \E t \in THREADS : Take(t)
    <3>1. write_ticket' = write_ticket /\ mixed' = mixed
      BY <2>2 DEF Next, Call, Drain, Enter, Leave, LoadMode, Unsupported, Route, Write, Commit, SetMode, BeginDrain,
         Look, HandOn, CopyWord, atomics
    <3> QED BY <3>1 DEF TypeOK
  <2> QED BY <2>1, <2>2
<1>1. ASSUME UNCHANGED <<worker>>,
             rpc = "copy" /\ Fresh(read_ticket)' => committed'[Slot(read_ticket)] = committed[Slot(read_ticket)]
      PROVE  CopyInv'
  <2>1. UNCHANGED <<rpc, read_ticket, drained, copy, last>> BY <1>1 DEF worker
  <2>2. EventWhole' BY <2>1, <1>m DEF CopyInv, EventWhole
  <2>3. last'.sequence <= read_ticket' /\ (rpc' = "copy" => drained' < SIZE) BY <2>1 DEF CopyInv
  <2>4. rpc' = "copy" => read_ticket' < write_ticket' BY <2>1, <1>m, <1>r DEF CopyInv, TypeOK
  <2>5. rpc' = "copy" /\ Fresh(read_ticket)' =>
          /\ committed'[Slot(read_ticket')] = read_ticket' + 1
          /\ \A f \in FIELDS : copy'[f] \in {NONE, read_ticket'}
    <3> SUFFICES ASSUME rpc' = "copy", Fresh(read_ticket)'
                 PROVE  /\ committed'[Slot(read_ticket')] = read_ticket' + 1
                        /\ \A f \in FIELDS : copy'[f] \in {NONE, read_ticket'}
      OBVIOUS
    <3>1. Fresh(read_ticket) BY <1>m, <1>r, <2>1, <1>s DEF Fresh, TypeOK
    <3> QED BY <1>1, <2>1, <3>1 DEF CopyInv
  <2> QED BY <2>2, <2>3, <2>4, <2>5 DEF CopyInv
<1>2. CASE \E t \in THREADS : Commit(t)
  <2> PICK t \in THREADS : Commit(t) BY <1>2
  <2>1. /\ committed' = [committed EXCEPT ![Slot(ticket[t])] = ticket[t] + 1] /\ UNCHANGED worker
        /\ Writing(t) /\ write_ticket' = write_ticket /\ mixed' = mixed
    BY DEF Commit, Writing, atomics
  <2>2. ASSUME rpc = "copy", Fresh(read_ticket)' PROVE Slot(ticket[t]) # Slot(read_ticket)
    <3>1. Fresh(read_ticket) /\ read_ticket < write_ticket BY <2>1, <2>2 DEF Fresh, CopyInv, worker
    <3>2. SUFFICES ASSUME Slot(ticket[t]) = Slot(read_ticket) PROVE FALSE OBVIOUS
    <3>3. ticket[t] = read_ticket BY <2>1, <3>1, <3>2, <1>r, OnlyOwner
    <3>4. committed[Slot(read_ticket)] = read_ticket + 1 BY <2>2, <3>1 DEF CopyInv
    <3> QED BY <2>1, <3>3, <3>4 DEF TicketInv
  <2>3. rpc = "copy" /\ Fresh(read_ticket)' => committed'[Slot(read_ticket)] = committed[Slot(read_ticket)]
    BY <2>1, <2>2, <1>r DEF TypeOK
  <2> QED BY <1>1, <2>1, <2>3
<1>3. CASE \E t \in THREADS : \/ Enter(t) \/ Leave(t) \/ LoadMode(t) \/ Unsupported(t) \/ Take(t) \/ Route(t)
                              \/ \E f \in FIELDS : Write(t, f)
  <2>1. UNCHANGED worker /\ committed' = committed
    BY <1>3 DEF Enter, Leave, LoadMode, Unsupported, Take, Route, Write, slots
  <2> QED BY <1>1, <2>1
<1>4. CASE \E m \in {"camera", "doom", "off"} : SetMode(m)
  <2>1. UNCHANGED worker /\ committed' = committed BY <1>4 DEF SetMode, slots
  <2> QED BY <1>1, <2>1
<1>5. CASE BeginDrain
  BY <1>5, <1>s, <1>m DEF BeginDrain, CopyInv, EventWhole
<1>6. CASE Look
  <2>0. seen \in Nat /\ seen <= write_ticket BY <1>r DEF seen, TypeOK, TicketInv
  <2>1. last' = last /\ mixed' = mixed /\ write_ticket' = write_ticket /\ committed' = committed
    BY <1>6 DEF Look, atomics, slots
  <2>2. read_ticket' >= read_ticket /\ last.sequence <= read_ticket'
    BY <1>6, <2>0, <1>r DEF Look, expected, CopyInv, TypeOK
  <2>3. ASSUME rpc' = "copy"
        PROVE  /\ drained' < SIZE /\ read_ticket' < write_ticket' /\ read_ticket' = read_ticket
               /\ committed[Slot(read_ticket)] = read_ticket + 1 /\ copy' = Nothing
    BY <1>6, <2>0, <2>1, <2>3, <1>r, <1>s DEF Look, seen, expected, TypeOK
  <2>4. EventWhole' BY <2>1 DEF CopyInv, EventWhole
  <2> QED BY <2>1, <2>2, <2>3, <2>4 DEF CopyInv, Nothing
<1>7. CASE HandOn
  <2>1. /\ read_ticket' = read_ticket + 1 /\ rpc' = "look" /\ mixed' = mixed /\ rpc = "copy"
        /\ last' = [sequence |-> read_ticket + 1, event |-> copy, lapped |-> write_ticket > read_ticket + SIZE]
        /\ \A f \in FIELDS : copy[f] # NONE
    BY <1>7 DEF HandOn, expected
  <2>2. last'.sequence = read_ticket + 1 /\ last'.sequence - 1 = read_ticket BY <2>1, <1>r
  <2>3. EventWhole'
    <3> SUFFICES ASSUME ~last'.lapped, read_ticket \notin mixed, NEW f \in FIELDS PROVE last'.event[f] = read_ticket
      BY <2>1, <2>2 DEF EventWhole
    <3>1. ~(write_ticket > read_ticket + SIZE) BY <2>1
    <3>2. Fresh(read_ticket) BY <3>1, <1>r, <1>s DEF Fresh, TypeOK
    <3>3. copy[f] = read_ticket BY <2>1, <3>2 DEF CopyInv
    <3> QED BY <2>1, <3>3
  <2> QED BY <2>1, <2>2, <2>3, <1>r DEF CopyInv
<1>8. ASSUME NEW f \in FIELDS, CopyWord(f) PROVE CopyInv'
  <2>1. /\ copy' = [copy EXCEPT ![f] = word[Slot(read_ticket)][f]] /\ rpc = "copy"
        /\ UNCHANGED <<rpc, read_ticket, drained, last, mixed, committed, write_ticket>>
    BY <1>8 DEF CopyWord, atomics, slots
  <2>2. EventWhole' BY <2>1 DEF CopyInv, EventWhole
  <2>3. ASSUME Fresh(read_ticket) PROVE \A g \in FIELDS : copy'[g] \in {NONE, read_ticket}
    <3>1. committed[Slot(read_ticket)] = read_ticket + 1 BY <2>1, <2>3 DEF CopyInv
    <3>2. committed[Slot(read_ticket)] - 1 = read_ticket /\ committed[Slot(read_ticket)] # 0 BY <3>1, <1>r
    <3>3. word[Slot(read_ticket)][f] = read_ticket BY <2>3, <3>2, <1>r DEF WordInv
    <3> QED BY <2>1, <2>3, <3>3 DEF CopyInv, TypeOK
  <2> QED BY <2>1, <2>2, <2>3 DEF CopyInv, Fresh
<1> QED BY <1>2, <1>3, <1>4, <1>5, <1>6, <1>7, <1>8 DEF Next, Call, Drain

LEMMA InitInv == Init => IInv /\ Counted
<1> SUFFICES ASSUME Init PROVE IInv /\ Counted OBVIOUS
<1>s. SIZE \in Nat /\ SIZE > 0 BY PtzAssumption
<1>1. Inside = {} BY DEF Init, Inside
<1>2. Cardinality(Inside) = 0 BY <1>1, FS_EmptySet
<1>3. Cardinality(THREADS) \in Nat BY PtzAssumption, FS_CardinalityType
<1>4. Nothing \in [FIELDS -> Nat \cup {NONE}] BY DEF Nothing
<1>5. TypeOK BY <1>s, <1>3, <1>4 DEF Init, TypeOK
<1>6. TicketInv BY <1>s DEF Init, TicketInv, Writing
<1>7. Overtaken BY DEF Init, Overtaken, Writing
<1>8. WordInv BY DEF Init, WordInv, Writing
<1>9. CopyInv BY DEF Init, CopyInv, EventWhole
<1> QED BY <1>2, <1>5, <1>6, <1>7, <1>8, <1>9 DEF Init, IInv, Counted

LEMMA StepInv == IInv /\ Counted /\ [Next]_vars => (IInv /\ Counted)'
<1> SUFFICES ASSUME IInv, Counted, [Next]_vars PROVE (IInv /\ Counted)' OBVIOUS
<1>1. CASE Next
  <2>1. TypeOK' /\ Counted' BY <1>1, TypeStep DEF IInv
  <2>2. TicketInv' BY <1>1, TicketStep DEF IInv
  <2>3. Overtaken' BY <1>1, OvertakenStep DEF IInv
  <2>4. WordInv' BY <1>1, <2>1, <2>2, WordStep DEF IInv
  <2>5. CopyInv' BY <1>1, <2>1, CopyStep DEF IInv
  <2> QED BY <2>1, <2>2, <2>3, <2>4, <2>5 DEF IInv
<1>2. CASE UNCHANGED vars
  BY <1>2 DEF vars, atomics, slots, threads, worker, IInv, TypeOK, TicketInv, Overtaken, WordInv, CopyInv, EventWhole,
     Counted, Inside, Writing, Fresh
<1> QED BY <1>1, <1>2

THEOREM PtzInvariant == Spec => [](IInv /\ Counted)
<1>1. Init => IInv /\ Counted BY InitInv
<1>2. (IInv /\ Counted) /\ [Next]_vars => (IInv /\ Counted)' BY StepInv
<1> QED BY <1>1, <1>2, PTL DEF Spec

(* The variables keep their types; the counter of calls in the hook is never
   negative, so e1_ptz_hook_route's two updates of it balance. *)
THEOREM PtzTypes == Spec => []TypeOK
<1>1. IInv => TypeOK BY DEF IInv
<1> QED BY <1>1, PtzInvariant, PTL

(* EventWhole for every ring size and any finite set of camera threads: what
   drain_ptz_events hands on is one call's event. *)
THEOREM PtzEventWhole == Spec => []EventWhole
<1>1. IInv => EventWhole BY DEF IInv, CopyInv
<1> QED BY <1>1, PtzInvariant, PTL

(* InOrder: drain_ptz_events never hands on an event twice or out of order. *)
THEOREM PtzInOrder == Spec => InOrder
<1>1. IInv /\ [Next]_vars => [last' # last => last'.sequence > last.sequence]_vars
  <2> SUFFICES ASSUME IInv, Next, last' # last PROVE last'.sequence > last.sequence
    BY DEF vars, worker
  <2>1. HandOn
    BY DEF Next, Call, Drain, Enter, Leave, LoadMode, Unsupported, Take, Route, Write, Commit, SetMode, BeginDrain,
       Look, CopyWord, worker
  <2>2. last'.sequence = read_ticket + 1 BY <2>1 DEF HandOn, expected
  <2> QED BY <2>2 DEF IInv, TypeOK, CopyInv
<1> QED BY <1>1, PtzInvariant, PTL DEF Spec, InOrder

(* LostOnlyWhenLapped: an overrun resynchronises by whole laps, so tickets are
   passed over only when the producers are more than a ring ahead. *)
THEOREM PtzLost == Spec => LostOnlyWhenLapped
<1>1. IInv /\ [Next]_vars => [read_ticket' > read_ticket + 1 => write_ticket > read_ticket + SIZE]_vars
  <2> SUFFICES ASSUME IInv, Next, read_ticket' > read_ticket + 1 PROVE write_ticket > read_ticket + SIZE
    BY DEF vars, worker
  <2>t. read_ticket \in Nat /\ write_ticket \in Nat BY DEF IInv, TypeOK
  <2>0. SIZE \in Nat /\ Slot(read_ticket) \in Slots BY <2>t, PtzAssumption, SlotType
  <2>1. CASE Look
    <3>1. committed[Slot(read_ticket)] \in Nat BY <2>0 DEF IInv, TypeOK
    <3>2. read_ticket' = committed[Slot(read_ticket)] - 1 BY <2>1, <2>t DEF Look, seen, expected
    <3> DEFINE c == committed[Slot(read_ticket)] - 1
    <3>3. c \in Nat /\ c > read_ticket /\ c < write_ticket
      <4>1. committed[Slot(read_ticket)] <= write_ticket BY <2>0 DEF IInv, TicketInv
      <4> QED BY <3>1, <3>2, <4>1, <2>t
    <3>4. Slot(c) = Slot(read_ticket) BY <2>0, <3>1, <3>3, <2>t DEF IInv, TicketInv
    <3> HIDE DEF c
    <3>5. read_ticket + SIZE <= c BY <3>3, <3>4, <2>t, Laps
    <3> QED BY <3>3, <3>5, <2>0, <2>t
  <2>2. CASE HandOn
    BY <2>2, <2>t DEF HandOn, expected
  <2>3. CASE ~Look /\ ~HandOn
    <3>1. read_ticket' = read_ticket
      BY <2>3 DEF Next, Call, Drain, Enter, Leave, LoadMode, Unsupported, Take, Route, Write, Commit, SetMode,
         BeginDrain, CopyWord, worker
    <3> QED BY <3>1, <2>t
  <2> QED BY <2>1, <2>2, <2>3
<1> QED BY <1>1, PtzInvariant, PTL DEF Spec, LostOnlyWhenLapped
=============================================================================
