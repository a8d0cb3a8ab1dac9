-------------------------- MODULE AudioRingProofs --------------------------
(***************************************************************************)
(* Proofs about AudioRing for every ring size and cushion.                  *)
(***************************************************************************)
EXTENDS AudioRing, TLAPS

Writing == ppc \in {"write", "even"}
InCall == cpc \in {"before", "copy", "after", "ack"}

(* A slot is odd exactly while it is being written; an even slot holds the
   words of one frame. *)
SlotInv ==
    /\ \A s \in Slots : seq[s] % 2 = 1 <=> Writing /\ s = SlotOf(frame_number)
    /\ \A s \in Slots : seq[s] % 2 = 0 => \A f \in Fields : cell[s][f] = cell[s]["num"]
    /\ Writing \/ ppc = "publish" =>
         \A f \in Fields \ pput : cell[SlotOf(frame_number)][f] = frame_number
    /\ ppc \in {"even", "publish"} => pput = {}

(* As long as the slot still has the sequence the callback saw, the words
   copied so far are the words in the slot. *)
ReadInv ==
    /\ cpc \in {"copy", "after"} =>
         /\ before % 2 = 0
         /\ before <= seq[SlotOf(target)]
         /\ before = seq[SlotOf(target)] =>
              \A f \in Fields \ cget : got[f] = cell[SlotOf(target)][f]
    /\ cpc = "after" => cget = {}
    /\ UntornRead

(* How the counters of the two sides are related. *)
CountInv ==
    /\ ppc \in {"fill", "exited"} => frame_number = published
    /\ ppc \in {"write", "even", "publish"} => frame_number = published + 1
    /\ consumed <= published
    /\ last # 0 => last = consumed
    /\ InCall => /\ consumed <= seen /\ seen <= published
                 /\ target <= seen /\ last < target

(* Flow control: what the producer may have written since the callback
   looked, and that every retained frame is whole in its slot. *)
FlowInv ==
    ~FREE_RUN =>
      /\ frame_number <= consumed + 2 * PREBUFFER
      /\ InCall =>
           /\ frame_number <= seen + 1 \/ frame_number <= consumed + PREBUFFER
           /\ last = 0 => target >= seen - PREBUFFER
           /\ last # 0 => target = last + 1
      /\ \A n \in 1 .. published :
           n + SLOTS > frame_number => cell[SlotOf(n)]["num"] = n
      /\ cpc \in {"copy", "after"} => before = seq[SlotOf(target)]
      /\ cpc # "retry"
      /\ drop = 0

SafeInv == TypeOK /\ SlotInv /\ ReadInv
IInv == SafeInv /\ CountInv /\ FlowInv

(* Two different frames less than one lap apart live in different slots. *)
LEMMA SlotsDiffer ==
    ASSUME NEW a \in Nat \ {0}, NEW b \in Nat \ {0}, a < b, b < a + SLOTS
    PROVE  SlotOf(a) # SlotOf(b)
<1> DEFINE x == a - 1  y == b - 1
<1>1. SLOTS \in Nat \ {0} BY RingAssumption
<1>2. x \in Nat /\ y \in Nat /\ x < y /\ y < x + SLOTS BY <1>1
<1> HIDE DEF x, y
<1>3. \A z \in Nat : z = SLOTS * (z \div SLOTS) + (z % SLOTS) /\ z \div SLOTS \in Int /\ z % SLOTS \in 0 .. SLOTS - 1
  BY <1>1, SMTT(30)
<1>4. SUFFICES ASSUME x % SLOTS = y % SLOTS PROVE FALSE
  BY <1>1 DEF SlotOf, x, y
<1>5. PICK p \in Int : p = x \div SLOTS BY <1>2, <1>3
<1>6. PICK q \in Int : q = y \div SLOTS BY <1>2, <1>3
<1>7. y - x = SLOTS * q - SLOTS * p BY <1>1, <1>2, <1>3, <1>4, <1>5, <1>6
<1>8. SLOTS * q - SLOTS * p = SLOTS * (q - p) BY <1>1
<1>9. CASE q - p <= 0
  <2>1. SLOTS * (q - p) <= 0 BY <1>1, <1>9
  <2> QED BY <2>1, <1>2, <1>7, <1>8
<1>10. CASE q - p >= 1
  <2>1. SLOTS * (q - p) >= SLOTS BY <1>1, <1>10
  <2> QED BY <2>1, <1>1, <1>2, <1>7, <1>8
<1> QED BY <1>9, <1>10

LEMMA SlotRange == \A n \in Nat \ {0} : SlotOf(n) \in Slots
<1>1. SLOTS \in Nat \ {0} BY RingAssumption
<1>2. \A z \in Nat : z % SLOTS \in 0 .. SLOTS - 1 BY <1>1, SMTT(30)
<1> QED BY <1>2 DEF SlotOf, Slots

-----------------------------------------------------------------------------
LEMMA InitIInv == Init => IInv
<1> SUFFICES ASSUME Init PROVE IInv OBVIOUS
<1> USE RingAssumption DEF Init, Frame, Silence
<1>1. TypeOK
  <2>1. seq \in [Slots -> Nat] /\ cell \in [Slots -> [Fields -> Nat]]
    OBVIOUS
  <2>2. got \in [Fields -> Nat] /\ pcm \in [Fields -> Nat]
    OBVIOUS
  <2>3. pput \in SUBSET Fields /\ cget \in SUBSET Fields
    OBVIOUS
  <2>4. audio_thread_stop \in BOOLEAN
    OBVIOUS
  <2>5. /\ published \in Nat /\ consumed \in Nat /\ frame_number \in Nat /\ generated \in Nat
        /\ attempt \in {0, 1} /\ seen \in Nat /\ target \in Nat \ {0} /\ before \in Nat
        /\ drop \in Nat /\ last \in Nat /\ dropped \in Nat /\ attaches \in Nat
    OBVIOUS
  <2>6. /\ ppc \in {"fill", "write", "even", "publish", "exited"}
        /\ cpc \in {"idle", "before", "copy", "after", "retry", "ack"}
    OBVIOUS
  <2> HIDE DEF Init
  <2> QED BY <2>1, <2>2, <2>3, <2>4, <2>5, <2>6 DEF TypeOK
<1>2. SlotInv
  <2>1. 0 % 2 = 0 OBVIOUS
  <2> QED BY <2>1 DEF SlotInv, Writing, Slots, Fields
<1>3. ReadInv BY DEF ReadInv, UntornRead
<1>4. CountInv BY DEF CountInv, InCall
<1>5. FlowInv BY DEF FlowInv, InCall
<1> QED BY <1>1, <1>2, <1>3, <1>4, <1>5 DEF IInv, SafeInv

(* What the callback aims at when it looks: a frame that is published, newer
   than the last one it took, and with flow control the oldest unread one. *)
LEMMA TargetFacts ==
    ASSUME TypeOK, CountInv, FlowInv, published # 0, published > last
    PROVE  /\ Target(published) \in Nat \ {0}
           /\ Target(published) <= published
           /\ last < Target(published)
           /\ last = 0 => Target(published) >= published - PREBUFFER
           /\ Oldest(published) \in Nat \ {0}
           /\ ~FREE_RUN /\ last # 0 => /\ Target(published) = last + 1
                                       /\ ~ (last + 1 < Oldest(published))
BY RingAssumption DEF TypeOK, CountInv, FlowInv, Target, Oldest

LEMMA TypeStep == IInv /\ [Next]_vars => TypeOK'
<1> SUFFICES ASSUME IInv, [Next]_vars PROVE TypeOK' OBVIOUS
<1>0. TypeOK /\ CountInv /\ FlowInv BY DEF IInv, SafeInv
<1> USE RingAssumption, SlotRange
<1>1. CASE BeginPublish
  BY <1>0, <1>1 DEF TypeOK, BeginPublish, call, stats
<1>2. ASSUME NEW f \in Fields, WriteWord(f) PROVE TypeOK'
  <2>1. frame_number # 0 BY <1>0, <1>2 DEF CountInv, WriteWord, TypeOK
  <2>2. cell' \in [Slots -> [Fields -> Nat]] BY <1>0, <1>2, <2>1 DEF TypeOK, WriteWord
  <2> QED BY <1>0, <1>2, <2>2 DEF TypeOK, WriteWord, call, stats
<1>3. CASE EndWrite
  <2>1. frame_number # 0 BY <1>0, <1>3 DEF CountInv, EndWrite, TypeOK
  <2> QED BY <1>0, <1>3, <2>1 DEF TypeOK, EndWrite, call, stats
<1>4. CASE Publish
  BY <1>0, <1>4 DEF TypeOK, Publish, call, stats
<1>5. CASE EndFill
  BY <1>0, <1>5 DEF TypeOK, EndFill, call, stats, ring
<1>6. CASE ShutdownSound
  BY <1>0, <1>6 DEF TypeOK, ShutdownSound, call, stats, ring
<1>7. ASSUME NEW n \in {0, 1}, Look(n) PROVE TypeOK'
  <2>1. CASE published = 0 \/ published <= last
    BY <1>0, <1>7, <2>1 DEF TypeOK, NothingNew, Look, ring, producer, Silence, Frame
  <2>2. CASE ~(published = 0 \/ published <= last)
    <3>1. Target(published) \in Nat \ {0} /\ Oldest(published) \in Nat \ {0}
      BY <1>0, <2>2, TargetFacts DEF TypeOK
    <3> QED BY <1>0, <1>7, <2>2, <3>1 DEF TypeOK, NothingNew, Look, ring, producer
  <2> QED BY <2>1, <2>2
<1>8. CASE ReadBefore
  BY <1>0, <1>8 DEF TypeOK, ReadBefore, Collide, ring, producer, Silence, Frame
<1>9. ASSUME NEW f \in Fields, ReadWord(f) PROVE TypeOK'
  <2>1. got' \in [Fields -> Nat] BY <1>0, <1>9 DEF TypeOK, ReadWord
  <2> QED BY <1>0, <1>9, <2>1 DEF TypeOK, ReadWord, ring, producer, stats
<1>10. CASE ReadAfter
  BY <1>0, <1>10 DEF TypeOK, ReadAfter, Collide, ring, producer, Silence, Frame
<1>11. CASE Acknowledge
  BY <1>0, <1>11 DEF TypeOK, Acknowledge, producer, CountInv, InCall
<1>12. CASE Reattach
  BY <1>0, <1>12 DEF TypeOK, Reattach, ring, producer, call
<1>13. CASE UNCHANGED vars
  BY <1>0, <1>13 DEF TypeOK, vars, ring, producer, call, stats
<1> QED BY <1>1, <1>2, <1>3, <1>4, <1>5, <1>6, <1>7, <1>8, <1>9, <1>10, <1>11, <1>12,
           <1>13 DEF Next, Mixer, Callback, BeginRead, RetryRead

(* The seqlock half: what the two sequence checks of a read establish. *)
LEMMA SlotStep == IInv /\ [Next]_vars => SlotInv'
<1> SUFFICES ASSUME IInv, [Next]_vars PROVE SlotInv' OBVIOUS
<1>0. TypeOK /\ CountInv /\ SlotInv BY DEF IInv, SafeInv
<1> USE SlotRange
<1>1. CASE BeginPublish
  <2> DEFINE s0 == SlotOf(frame_number + 1)
  <2>1. s0 \in Slots BY <1>0 DEF TypeOK
  <2>2. \A s \in Slots : seq[s] \in Nat /\ seq[s] % 2 = 0
    BY <1>0, <1>1 DEF SlotInv, BeginPublish, Writing, TypeOK
  <2>3. \A s \in Slots : seq'[s] = IF s = s0 THEN seq[s0] + 1 ELSE seq[s]
    <3>1. seq' = [seq EXCEPT ![s0] = seq[s0] - (seq[s0] % 2) + 1]
      BY <1>1 DEF BeginPublish
    <3>2. seq[s0] - (seq[s0] % 2) + 1 = seq[s0] + 1 BY <2>1, <2>2
    <3> QED BY <1>0, <2>1, <3>1, <3>2 DEF TypeOK
  <2>4. (seq[s0] + 1) % 2 = 1 BY <2>1, <2>2
  <2>5. \A s \in Slots : seq'[s] % 2 = 1 <=> s = s0
    BY <2>1, <2>2, <2>3, <2>4, <1>0 DEF TypeOK
  <2>6. \A s \in Slots : s # s0 => seq'[s] = seq[s]
    BY <2>3, <1>0 DEF TypeOK
  <2> QED BY <1>0, <1>1, <2>2, <2>4, <2>5, <2>6 DEF SlotInv, BeginPublish, Writing, TypeOK
<1>2. ASSUME NEW f \in Fields, WriteWord(f) PROVE SlotInv'
  <2>1. frame_number # 0 BY <1>0, <1>2 DEF CountInv, WriteWord, TypeOK
  <2>2. /\ \A s \in Slots, g \in Fields :
             cell'[s][g] = IF s = SlotOf(frame_number) /\ g = f THEN frame_number ELSE cell[s][g]
        /\ seq' = seq /\ frame_number' = frame_number /\ Writing /\ Writing'
        /\ pput' = pput \ {f} /\ ppc' # "publish" /\ (ppc' = "even" => pput' = {})
    BY <1>0, <1>2, <2>1 DEF TypeOK, WriteWord, Writing
  <2>3. \A s \in Slots : seq[s] % 2 = 0 => s # SlotOf(frame_number)
    BY <1>0, <2>2 DEF SlotInv
  <2>4. "num" \in Fields BY DEF Fields
  <2> QED BY <1>0, <1>2, <2>1, <2>2, <2>3, <2>4 DEF SlotInv, TypeOK
<1>3. CASE EndWrite
  <2> DEFINE s0 == SlotOf(frame_number)
  <2>1. s0 \in Slots BY <1>0, <1>3 DEF CountInv, EndWrite, TypeOK
  <2>2. seq[s0] % 2 = 1 /\ seq[s0] \in Nat BY <1>0, <1>3, <2>1 DEF SlotInv, EndWrite, Writing, TypeOK
  <2>3. (seq[s0] + 1) % 2 = 0 BY <2>2
  <2>4. \A s \in Slots : seq'[s] % 2 # 1
    BY <1>0, <1>3, <2>1, <2>3 DEF SlotInv, EndWrite, TypeOK
  <2>5. \A f \in Fields : cell[s0][f] = frame_number
    BY <1>0, <1>3 DEF SlotInv, EndWrite, Writing
  <2>6. \A s \in Slots, f \in Fields : s # s0 => cell[s][f] = cell[s]["num"]
    BY <1>0, <1>3 DEF SlotInv, Writing, TypeOK
  <2>7. /\ cell' = cell /\ ~Writing' /\ ppc' = "publish" /\ pput' = {} /\ "num" \in Fields
        /\ frame_number' = frame_number
    BY <1>0, <1>3 DEF EndWrite, Writing, Fields, SlotInv
  <2> QED BY <2>1, <2>4, <2>5, <2>6, <2>7 DEF SlotInv
<1>4. CASE Publish
  BY <1>0, <1>4 DEF SlotInv, Publish, Writing
<1>5. CASE EndFill
  BY <1>0, <1>5 DEF SlotInv, EndFill, Writing, ring
<1>6. CASE UNCHANGED <<ring, producer>>
  BY <1>0, <1>6 DEF SlotInv, Writing, ring, producer
<1>7. CASE ShutdownSound
  BY <1>0, <1>7 DEF SlotInv, ShutdownSound, Writing, ring
<1>8. CASE Acknowledge
  BY <1>0, <1>8 DEF SlotInv, Acknowledge, Writing, producer
<1>9. CASE Look(0) \/ Look(1) \/ ReadBefore \/ (\E f \in Fields : ReadWord(f)) \/ ReadAfter
           \/ Reattach \/ UNCHANGED vars
  BY <1>6, <1>9 DEF Look, NothingNew, ReadBefore, ReadWord, ReadAfter, Reattach, vars
<1> QED BY <1>1, <1>2, <1>3, <1>4, <1>5, <1>7, <1>8, <1>9
        DEF Next, Mixer, Callback, BeginRead, RetryRead

(* The sequence of a slot only grows, and a word only changes in a slot whose
   sequence is odd. *)
LEMMA SlotChanges ==
    ASSUME IInv, [Next]_vars, NEW s \in Slots
    PROVE  /\ seq[s] \in Nat /\ seq'[s] \in Nat /\ seq'[s] >= seq[s]
           /\ seq[s] % 2 = 0 => cell'[s] = cell[s]
<1>0. TypeOK /\ CountInv /\ SlotInv BY DEF IInv, SafeInv
<1>1. seq[s] \in Nat BY <1>0 DEF TypeOK
<1>2. CASE BeginPublish
  <2>1. SlotOf(frame_number + 1) \in Slots BY <1>0, SlotRange DEF TypeOK
  <2>2. \A k \in Nat : k - (k % 2) + 1 \in Nat /\ k - (k % 2) + 1 >= k OBVIOUS
  <2>3. seq'[s] = seq[s] \/ seq'[s] = seq[s] - (seq[s] % 2) + 1
    BY <1>0, <1>2, <2>1 DEF BeginPublish, TypeOK
  <2> QED BY <1>1, <1>2, <2>2, <2>3 DEF BeginPublish
<1>3. ASSUME NEW f \in Fields, WriteWord(f) PROVE seq' = seq /\ (seq[s] % 2 = 0 => cell'[s] = cell[s])
  <2>1. SlotOf(frame_number) \in Slots BY <1>0, <1>3, SlotRange DEF CountInv, WriteWord, TypeOK
  <2>2. seq[s] % 2 = 0 => s # SlotOf(frame_number) BY <1>0, <1>3 DEF SlotInv, WriteWord, Writing
  <2> QED BY <1>0, <1>3, <2>1, <2>2 DEF WriteWord, TypeOK
<1>4. CASE EndWrite
  <2>1. SlotOf(frame_number) \in Slots BY <1>0, <1>4, SlotRange DEF CountInv, EndWrite, TypeOK
  <2>2. seq'[s] = seq[s] \/ seq'[s] = seq[s] + 1 BY <1>0, <1>4, <2>1 DEF EndWrite, TypeOK
  <2> QED BY <1>1, <1>4, <2>2 DEF EndWrite
<1>5. CASE UNCHANGED <<seq, cell>> BY <1>1, <1>5
<1>6. CASE \/ Publish \/ EndFill \/ ShutdownSound \/ Look(0) \/ Look(1) \/ ReadBefore
           \/ (\E f \in Fields : ReadWord(f)) \/ ReadAfter \/ Acknowledge
           \/ Reattach \/ UNCHANGED vars
  BY <1>5, <1>6 DEF Publish, EndFill, ShutdownSound, Look, ReadBefore, ReadWord, ReadAfter,
     Acknowledge, Reattach, vars, ring
<1> QED BY <1>1, <1>2, <1>3, <1>4, <1>6 DEF Next, Mixer, Callback, BeginRead, RetryRead

LEMMA ReadStep == IInv /\ [Next]_vars => ReadInv'
<1> SUFFICES ASSUME IInv, [Next]_vars PROVE ReadInv' OBVIOUS
<1>0. TypeOK /\ SlotInv /\ ReadInv BY DEF IInv, SafeInv
<1> DEFINE t == SlotOf(target)
<1>t. t \in Slots BY <1>0, SlotRange DEF TypeOK
<1>c. /\ seq[t] \in Nat /\ seq'[t] \in Nat /\ seq'[t] >= seq[t]
      /\ seq[t] % 2 = 0 => cell'[t] = cell[t]
  BY <1>t, SlotChanges
<1>1. CASE UNCHANGED call
  <2>1. before \in Nat BY <1>0 DEF TypeOK
  <2> QED BY <1>0, <1>1, <1>c, <2>1 DEF ReadInv, UntornRead, call
<1>2. ASSUME NEW n \in {0, 1}, Look(n) PROVE ReadInv'
  BY <1>2 DEF Look, NothingNew, ReadInv, UntornRead
<1>3. CASE ReadBefore
  <2>1. seq[t] % 2 \in {0, 1} BY <1>c
  <2> QED BY <1>0, <1>3, <1>c, <2>1 DEF ReadBefore, Collide, ReadInv, UntornRead, ring
<1>4. ASSUME NEW f \in Fields, ReadWord(f) PROVE ReadInv'
  <2>1. \A g \in Fields : got'[g] = IF g = f THEN cell[t][f] ELSE got[g]
    BY <1>0, <1>4 DEF ReadWord, TypeOK
  <2>2. \A g \in Fields \ cget' : g = f \/ g \in Fields \ cget BY <1>4 DEF ReadWord
  <2> QED BY <1>0, <1>4, <1>c, <2>1, <2>2 DEF ReadWord, ReadInv, UntornRead, ring
<1>5. CASE ReadAfter
  <2>1. seq[t] = before /\ got["num"] = target =>
            \A f \in Fields : got[f] = target
    <3> SUFFICES ASSUME seq[t] = before, got["num"] = target, NEW f \in Fields
                 PROVE got[f] = target OBVIOUS
    <3>1. \A g \in Fields : got[g] = cell[t][g] BY <1>0, <1>5 DEF ReadInv, ReadAfter
    <3>2. cell[t][f] = cell[t]["num"] BY <1>0, <1>5, <1>t DEF ReadInv, ReadAfter, SlotInv
    <3>3. "num" \in Fields BY DEF Fields
    <3> QED BY <3>1, <3>2, <3>3
  <2>2. seq[t] = before /\ got["num"] = target => got = Frame(target)
    BY <1>0, <2>1 DEF TypeOK, Frame
  <2> QED BY <1>0, <1>5, <2>2 DEF ReadAfter, Collide, ReadInv, UntornRead, Frame
<1>6. CASE Acknowledge BY <1>6 DEF Acknowledge, ReadInv, UntornRead
<1>7. CASE \/ Mixer \/ ShutdownSound \/ Reattach \/ UNCHANGED vars
  BY <1>1, <1>7 DEF Mixer, BeginPublish, WriteWord, EndWrite, Publish, EndFill, ShutdownSound,
     Reattach, vars
<1> QED BY <1>2, <1>3, <1>4, <1>5, <1>6, <1>7 DEF Next, Callback, BeginRead, RetryRead

LEMMA CountStep == IInv /\ [Next]_vars => CountInv'
<1> SUFFICES ASSUME IInv, [Next]_vars PROVE CountInv' OBVIOUS
<1>0. TypeOK /\ CountInv /\ FlowInv BY DEF IInv, SafeInv
<1> USE <1>0 DEF CountInv, InCall, TypeOK
<1>1. CASE BeginPublish BY <1>1 DEF BeginPublish, call, stats
<1>2. ASSUME NEW f \in Fields, WriteWord(f) PROVE CountInv' BY <1>2 DEF WriteWord, call, stats
<1>3. CASE EndWrite BY <1>3 DEF EndWrite, call, stats
<1>4. CASE Publish BY <1>4 DEF Publish, call, stats
<1>5. CASE EndFill BY <1>5 DEF EndFill, ring, call, stats
<1>6. CASE ShutdownSound BY <1>6 DEF ShutdownSound, ring, call, stats
<1>7. ASSUME NEW n \in {0, 1}, Look(n) PROVE CountInv'
  <2>1. published # 0 /\ published > last =>
           Target(published) <= published /\ last < Target(published)
    BY TargetFacts
  <2> QED BY <1>7, <2>1 DEF Look, NothingNew, ring, producer
<1>8. CASE ReadBefore BY <1>8 DEF ReadBefore, Collide, ring, producer
<1>9. ASSUME NEW f \in Fields, ReadWord(f) PROVE CountInv' BY <1>9 DEF ReadWord, ring, producer, stats
<1>10. CASE ReadAfter BY <1>10 DEF ReadAfter, Collide, ring, producer
<1>11. CASE Acknowledge BY <1>11 DEF Acknowledge, producer
<1>12. CASE Reattach BY <1>12 DEF Reattach, ring, producer, call
<1>13. CASE UNCHANGED vars BY <1>13 DEF vars, ring, producer, call, stats
<1> QED BY <1>1, <1>2, <1>3, <1>4, <1>5, <1>6, <1>7, <1>8, <1>9, <1>10, <1>11, <1>12,
           <1>13 DEF Next, Mixer, Callback, BeginRead, RetryRead

(* The flow-control half.  BeginPublish is the only step that can endanger a
   read: the frame it starts is at most PREBUFFER past consumed, or one past
   what the callback saw, and so less than a lap past the target. *)
LEMMA FlowStep == IInv /\ [Next]_vars => FlowInv'
<1> SUFFICES ASSUME IInv, [Next]_vars, ~FREE_RUN PROVE FlowInv'
  BY DEF FlowInv
<1>0. TypeOK /\ SlotInv /\ ReadInv /\ CountInv /\ FlowInv BY DEF IInv, SafeInv
<1>a. SLOTS \in Nat \ {0} /\ PREBUFFER \in Nat \ {0} /\ SLOTS > 2 * PREBUFFER BY RingAssumption
<1>1. CASE BeginPublish
  <2> DEFINE n1 == frame_number + 1
  <2>1. /\ frame_number = published /\ n1 \in Nat \ {0} /\ frame_number' = n1
        /\ n1 <= consumed + PREBUFFER /\ published' = published
        /\ cell' = cell /\ UNCHANGED call /\ UNCHANGED stats /\ consumed' = consumed
    BY <1>0, <1>1, <1>a DEF BeginPublish, WantsFrame, CountInv, TypeOK
  <2>2. InCall => SlotOf(n1) # SlotOf(target)
    <3> SUFFICES ASSUME InCall PROVE SlotOf(n1) # SlotOf(target) OBVIOUS
    <3>1. target < n1 /\ target \in Nat \ {0}
      BY <1>0, <2>1 DEF CountInv, InCall, TypeOK
    <3>2. n1 < target + SLOTS
      BY <1>0, <1>a, <2>1 DEF CountInv, FlowInv, InCall, TypeOK
    <3> QED BY <2>1, <3>1, <3>2, SlotsDiffer
  <2>3. cpc \in {"copy", "after"} => before = seq'[SlotOf(target)]
    <3>1. SlotOf(n1) \in Slots /\ SlotOf(target) \in Slots BY <1>0, <2>1, SlotRange DEF TypeOK
    <3> QED BY <1>0, <1>1, <2>2, <3>1 DEF BeginPublish, TypeOK, FlowInv, InCall
  <2> QED BY <1>0, <1>a, <2>1, <2>3 DEF FlowInv, CountInv, InCall, TypeOK, call, stats
<1>2. ASSUME NEW f \in Fields, WriteWord(f) PROVE FlowInv'
  <2>1. frame_number = published + 1 /\ frame_number \in Nat \ {0}
    BY <1>0, <1>2 DEF CountInv, WriteWord, TypeOK
  <2>2. \A n \in 1 .. published : n + SLOTS > frame_number => cell'[SlotOf(n)]["num"] = n
    <3> SUFFICES ASSUME NEW n \in 1 .. published, n + SLOTS > frame_number
                 PROVE cell'[SlotOf(n)]["num"] = n OBVIOUS
    <3>1. SlotOf(n) # SlotOf(frame_number) BY <1>0, <1>a, <2>1, SlotsDiffer DEF TypeOK
    <3>2. cell'[SlotOf(n)] = cell[SlotOf(n)]
      BY <1>0, <1>2, <2>1, <3>1, SlotRange DEF WriteWord, TypeOK
    <3> QED BY <1>0, <3>2 DEF FlowInv
  <2> QED BY <1>0, <1>2, <2>2 DEF FlowInv, WriteWord, InCall, call, stats
<1>3. CASE EndWrite
  <2>1. frame_number = published + 1 /\ frame_number \in Nat \ {0}
    BY <1>0, <1>3 DEF CountInv, EndWrite, TypeOK
  <2>2. cpc \in {"copy", "after"} => SlotOf(target) # SlotOf(frame_number)
    <3> SUFFICES ASSUME cpc \in {"copy", "after"} PROVE SlotOf(target) # SlotOf(frame_number)
        OBVIOUS
    <3>1. /\ SlotOf(target) \in Slots
          /\ seq[SlotOf(target)] % 2 = 0
      BY <1>0, SlotRange DEF FlowInv, ReadInv, TypeOK
    <3>2. seq[SlotOf(frame_number)] % 2 = 1
      BY <1>0, <1>3, <2>1, SlotRange DEF SlotInv, EndWrite, Writing
    <3> QED BY <3>1, <3>2
  <2>3. cpc \in {"copy", "after"} => seq'[SlotOf(target)] = seq[SlotOf(target)]
    BY <1>0, <1>3, <2>1, <2>2, SlotRange DEF EndWrite, TypeOK
  <2> QED BY <1>0, <1>3, <2>3 DEF FlowInv, EndWrite, InCall, call, stats
<1>4. CASE Publish
  <2>1. frame_number = published + 1 /\ published' = frame_number BY <1>0, <1>4 DEF CountInv, Publish
  <2>2. cell[SlotOf(frame_number)]["num"] = frame_number
    BY <1>0, <1>4 DEF SlotInv, Publish, Fields
  <2> QED BY <1>0, <1>4, <2>1, <2>2 DEF FlowInv, Publish, InCall, TypeOK, call, stats
<1>5. CASE EndFill
  BY <1>0, <1>5 DEF FlowInv, EndFill, InCall, ring, call, stats
<1>6. CASE ShutdownSound
  BY <1>0, <1>6 DEF FlowInv, ShutdownSound, InCall, ring, call, stats
<1>7. ASSUME NEW n \in {0, 1}, Look(n), cpc # "idle" => n = 1 PROVE FlowInv'
  <2>1. CASE published = 0 \/ published <= last
    BY <1>0, <1>7, <2>1 DEF FlowInv, NothingNew, Look, InCall, ring, producer
  <2>2. CASE ~(published = 0 \/ published <= last)
    <3>1. /\ last = 0 => Target(published) >= published - PREBUFFER
          /\ last # 0 => Target(published) = last + 1 /\ ~(last + 1 < Oldest(published))
      BY <1>0, <2>2, TargetFacts DEF TypeOK
    <3>2. frame_number <= published + 1 BY <1>0 DEF CountInv, TypeOK
    <3>3. /\ seen' = published /\ target' = Target(published) /\ drop' = 0
          /\ cpc' = "before" /\ UNCHANGED <<ring, producer, last>>
      BY <1>0, <1>7, <2>2, <3>1 DEF Look, NothingNew, FlowInv
    <3> QED BY <1>0, <3>1, <3>2, <3>3 DEF FlowInv, InCall, ring, producer
  <2> QED BY <2>1, <2>2
<1>8. CASE ReadBefore
  <2>1. target \in Nat \ {0} /\ SlotOf(target) \in Slots /\ seq[SlotOf(target)] \in Nat
    BY <1>0, SlotRange DEF TypeOK
  <2>2. seq[SlotOf(target)] % 2 # 1
    <3> SUFFICES ASSUME Writing, SlotOf(target) = SlotOf(frame_number) PROVE FALSE
      BY <1>0, <2>1 DEF SlotInv
    <3>1. frame_number = published + 1 /\ target < frame_number
      BY <1>0, <1>8 DEF CountInv, Writing, InCall, ReadBefore, TypeOK
    <3>2. frame_number < target + SLOTS /\ frame_number \in Nat \ {0}
      BY <1>0, <1>8, <1>a, <3>1 DEF CountInv, FlowInv, InCall, ReadBefore, TypeOK
    <3> QED BY <2>1, <3>1, <3>2, SlotsDiffer
  <2> QED BY <1>0, <1>8, <2>2 DEF FlowInv, ReadBefore, InCall, ring, producer
<1>9. ASSUME NEW f \in Fields, ReadWord(f) PROVE FlowInv'
  BY <1>0, <1>9 DEF FlowInv, ReadWord, InCall, ring, producer, stats
<1>10. CASE ReadAfter
  <2>1. target \in 1 .. published /\ target + SLOTS > frame_number
    BY <1>0, <1>10, <1>a DEF CountInv, FlowInv, InCall, ReadAfter, TypeOK
  <2>2. cell[SlotOf(target)]["num"] = target BY <1>0, <2>1 DEF FlowInv
  <2>3. before = seq[SlotOf(target)] /\ got["num"] = target
    BY <1>0, <1>10, <2>2 DEF FlowInv, ReadInv, ReadAfter, Fields
  <2> QED BY <1>0, <1>10, <2>3 DEF FlowInv, ReadAfter, InCall, ring, producer
<1>11. CASE Acknowledge
  <2>1. frame_number <= target + 2 * PREBUFFER
    BY <1>0, <1>11, <1>a DEF FlowInv, CountInv, InCall, Acknowledge, TypeOK
  <2> QED BY <1>0, <1>11, <2>1 DEF FlowInv, Acknowledge, InCall, producer
<1>12. CASE Reattach
  BY <1>0, <1>12 DEF FlowInv, Reattach, InCall, ring, producer, call
<1>13. CASE UNCHANGED vars
  BY <1>0, <1>13 DEF FlowInv, InCall, vars, ring, producer, call, stats
<1> QED BY <1>1, <1>2, <1>3, <1>4, <1>5, <1>6, <1>7, <1>8, <1>9, <1>10, <1>11, <1>12,
           <1>13 DEF Next, Mixer, Callback, BeginRead, RetryRead

(* IInv is an invariant of the ring, in flow control and in free-run. *)
THEOREM RingInvariant == Spec => []IInv
<1>1. IInv /\ [Next]_vars => IInv'
  BY TypeStep, SlotStep, ReadStep, CountStep, FlowStep DEF IInv, SafeInv
<1> QED BY InitIInv, <1>1, PTL DEF Spec

(* Type correctness of every variable of both sides. *)
THEOREM RingTypes == Spec => []TypeOK
<1>1. IInv => TypeOK BY DEF IInv, SafeInv
<1> QED BY RingInvariant, <1>1, PTL

(* Every read that read_next accepts is the target frame, whole, for every
   ring size and whether or not the producer laps the callback. *)
THEOREM RingUntorn == Spec => []UntornRead
<1>1. IInv => UntornRead BY DEF IInv, SafeInv, ReadInv
<1> QED BY RingInvariant, <1>1, PTL

(* SLOTS > 2 * PREBUFFER is enough for flow control: no read is ever retried
   and no frame is ever counted as dropped. *)
THEOREM RingNoContention == Spec => []NoContention
<1>1. IInv => NoContention BY DEF IInv, FlowInv, NoContention
<1> QED BY RingInvariant, <1>1, PTL

(* The backlog of a flow-controlled ring stays within twice the cushion. *)
THEOREM RingBacklog == Spec => []BacklogBound
<1>1. IInv => BacklogBound
  BY RingAssumption DEF IInv, SafeInv, TypeOK, CountInv, FlowInv, BacklogBound
<1> QED BY RingInvariant, <1>1, PTL

(* The ring implements AudioStream: publish_frame is Produce, an accepted read
   is Deliver, a silent callback is Underrun, every other step is a stutter. *)
THEOREM RingImplementsStream == Spec => StreamSpec
<1>1. Init => Stream!Init
  BY DEF Init, Stream!Init, Stream!Silence, Stream!Frame, Silence, Frame
<1>2. IInv /\ [Next]_vars => [Stream!Next]_(Stream!vars)
  <2> SUFFICES ASSUME IInv, [Next]_vars PROVE Stream!Next \/ UNCHANGED <<published, last, pcm>>
    BY DEF Stream!vars
  <2>0. TypeOK /\ CountInv /\ UntornRead BY DEF IInv, SafeInv, ReadInv
  <2>1. CASE Publish
    <3>1. Stream!Produce BY <2>0, <2>1 DEF Publish, CountInv, stats, Stream!Produce
    <3> QED BY <3>1 DEF Stream!Next
  <2>2. CASE Acknowledge
    <3>1. target \in last + 1 .. published
      BY <2>0, <2>2 DEF Acknowledge, CountInv, InCall, TypeOK
    <3>2. last' = target /\ pcm' = Stream!Frame(target) /\ published' = published
      BY <2>0, <2>2 DEF Acknowledge, UntornRead, Frame, Stream!Frame
    <3>3. Stream!Deliver BY <3>1, <3>2 DEF Stream!Deliver
    <3> QED BY <3>3 DEF Stream!Next
  <2>3. CASE Reattach
    <3>1. Stream!Attach BY <2>3 DEF Reattach, ring, Stream!Attach
    <3> QED BY <3>1 DEF Stream!Next
  <2>4. CASE pcm' = Silence /\ UNCHANGED <<published, last>>
    <3>1. Stream!Underrun BY <2>4 DEF Stream!Underrun, Stream!Silence, Stream!Frame, Silence, Frame
    <3> QED BY <3>1 DEF Stream!Next
  <2>5. ASSUME NEW n \in {0, 1}, Look(n)
        PROVE UNCHANGED <<published, last>> /\ pcm' \in {pcm, Silence}
    BY <2>5 DEF Look, NothingNew, ring
  <2>6. CASE ReadBefore \/ ReadAfter
    <3>1. UNCHANGED <<published, last>> /\ pcm' \in {pcm, Silence}
      BY <2>6 DEF ReadBefore, ReadAfter, Collide, ring
    <3> QED BY <2>4, <3>1
  <2>7. CASE \/ BeginPublish \/ (\E f \in Fields : WriteWord(f)) \/ EndWrite \/ EndFill
             \/ ShutdownSound \/ (\E f \in Fields : ReadWord(f)) \/ UNCHANGED vars
    BY <2>7 DEF BeginPublish, WriteWord, EndWrite, EndFill, ShutdownSound, ReadWord, vars, ring,
       stats
  <2> QED BY <2>1, <2>2, <2>3, <2>4, <2>5, <2>6, <2>7
          DEF Next, Mixer, Callback, BeginRead, RetryRead
<1> QED BY RingInvariant, <1>1, <1>2, PTL DEF Spec, StreamSpec, Stream!Spec

-----------------------------------------------------------------------------
(* What the callback jumps over. *)

(* A slot never holds a frame from the future, and once a frame is published its
   slot never holds an older one again. *)
RetainInv ==
    /\ \A s \in Slots : cell[s]["num"] <= frame_number
    /\ \A n \in 1 .. published : n <= cell[SlotOf(n)]["num"]

(* One lap later the same slot is used again. *)
LEMMA SlotsRepeat == \A n \in Nat \ {0} : SlotOf(n + SLOTS) = SlotOf(n)
<1> SUFFICES ASSUME NEW n \in Nat \ {0} PROVE SlotOf(n + SLOTS) = SlotOf(n)
  OBVIOUS
<1> DEFINE x == n - 1  y == x + SLOTS
<1>1. SLOTS \in Nat \ {0} BY RingAssumption
<1>2. x \in Nat /\ y \in Nat BY <1>1
<1>3. \A z \in Nat : z = SLOTS * (z \div SLOTS) + (z % SLOTS) /\ z \div SLOTS \in Int /\ z % SLOTS \in 0 .. SLOTS - 1
  BY <1>1, SMTT(30)
<1>4. (n + SLOTS) - 1 = y BY <1>1
<1>5. PICK p \in Int : p = x \div SLOTS BY <1>2, <1>3
<1>6. PICK q \in Int : q = y \div SLOTS BY <1>2, <1>3
<1>7. PICK a \in 0 .. SLOTS - 1 : a = x % SLOTS BY <1>2, <1>3
<1>8. PICK b \in 0 .. SLOTS - 1 : b = y % SLOTS BY <1>2, <1>3
<1>9. x = SLOTS * p + a /\ y = SLOTS * q + b BY <1>2, <1>3, <1>5, <1>6, <1>7, <1>8
<1>10. y = x + SLOTS OBVIOUS
<1> HIDE DEF x, y
<1>11. a - b = SLOTS * (q - p - 1)
  <2>1. a - b = SLOTS * q - SLOTS * p - SLOTS BY <1>1, <1>2, <1>9, <1>10
  <2>2. SLOTS * (q - p - 1) = SLOTS * q - SLOTS * p - SLOTS BY <1>1
  <2> QED BY <2>1, <2>2
<1>12. CASE q - p - 1 >= 1
  <2>1. SLOTS * (q - p - 1) >= SLOTS BY <1>1, <1>12
  <2> QED BY <1>1, <1>11, <2>1
<1>13. CASE q - p - 1 <= -1
  <2>1. SLOTS * (q - p - 1) <= -SLOTS BY <1>1, <1>13
  <2> QED BY <1>1, <1>11, <2>1
<1>14. CASE q - p - 1 = 0
  BY <1>1, <1>4, <1>7, <1>8, <1>11, <1>14 DEF SlotOf, x
<1> QED BY <1>12, <1>13, <1>14

(* The number in a slot only ever grows. *)
LEMMA SlotsGrow ==
    ASSUME IInv, RetainInv, [Next]_vars
    PROVE  /\ \A s \in Slots : cell[s]["num"] <= cell'[s]["num"]
           /\ \A s \in Slots : cell'[s]["num"] <= frame_number'
<1>0. TypeOK /\ CountInv BY DEF IInv, SafeInv
<1>1. ASSUME NEW f \in Fields, WriteWord(f) PROVE
        /\ \A s \in Slots : cell[s]["num"] <= cell'[s]["num"]
        /\ \A s \in Slots : cell'[s]["num"] <= frame_number'
  <2>1. frame_number' = frame_number /\ frame_number \in Nat
    BY <1>0, <1>1 DEF WriteWord, TypeOK
  <2>2. \A s \in Slots : cell'[s]["num"] \in {cell[s]["num"], frame_number}
    BY <1>0, <1>1 DEF WriteWord, TypeOK, Fields
  <2>3. \A s \in Slots : cell[s]["num"] \in Nat
    BY <1>0 DEF TypeOK, Fields
  <2> QED BY <2>1, <2>2, <2>3 DEF RetainInv
<1>2. ASSUME UNCHANGED cell, frame_number' \in {frame_number, frame_number + 1} PROVE
        /\ \A s \in Slots : cell[s]["num"] <= cell'[s]["num"]
        /\ \A s \in Slots : cell'[s]["num"] <= frame_number'
  <2>1. \A s \in Slots : cell[s]["num"] \in Nat
    BY <1>0 DEF TypeOK, Fields
  <2> QED BY <1>0, <1>2, <2>1 DEF RetainInv, TypeOK
<1> QED
  BY <1>1, <1>2 DEF Next, Mixer, Callback, BeginPublish, EndWrite, Publish, EndFill, ShutdownSound,
     BeginRead, RetryRead, Look, ReadBefore, ReadWord, ReadAfter, Acknowledge, Reattach, vars, ring,
     producer

(* Every step keeps what is retained. *)
LEMMA RetainStep == ASSUME IInv, RetainInv, [Next]_vars PROVE RetainInv'
<1>0. TypeOK /\ CountInv /\ SlotInv BY DEF IInv, SafeInv
<1>1. ASSUME NEW n \in 1 .. published' PROVE n <= cell'[SlotOf(n)]["num"]
  <2>1. n \in Nat \ {0} /\ SlotOf(n) \in Slots
    <3>1. published' \in Nat BY TypeStep DEF TypeOK
    <3> QED BY <3>1, SlotRange
  <2>2. CASE n \in 1 .. published
    <3>1. n <= cell[SlotOf(n)]["num"] /\ cell[SlotOf(n)]["num"] \in Nat
      BY <1>0, <2>1, <2>2 DEF RetainInv, TypeOK, Fields
    <3>2. cell'[SlotOf(n)]["num"] \in Nat
      BY <2>1, TypeStep DEF TypeOK, Fields
    <3> QED BY <2>1, <3>1, <3>2, SlotsGrow
  <2>3. CASE n \notin 1 .. published
    <3>1. Publish
      BY <1>1, <2>3 DEF Next, Mixer, Callback, BeginPublish, WriteWord, EndWrite, EndFill,
         ShutdownSound, BeginRead, RetryRead, Look, ReadBefore, ReadWord, ReadAfter, Acknowledge,
         Reattach, vars, ring
    <3>2. n = frame_number /\ UNCHANGED cell
      BY <1>0, <1>1, <2>3, <3>1 DEF Publish, CountInv, TypeOK
    <3>3. cell[SlotOf(frame_number)]["num"] = frame_number
      BY <1>0, <3>1 DEF Publish, SlotInv, Fields
    <3> QED BY <1>0, <3>2, <3>3 DEF TypeOK
  <2> QED BY <2>2, <2>3
<1> QED BY <1>1, SlotsGrow DEF RetainInv

(* Strictly between two numbers. *)
LEMMA Between ==
    ASSUME NEW l \in Nat, NEW t \in Nat
    PROVE  /\ \A n \in l + 1 .. t - 1 : n \in Nat /\ l < n /\ n < t
           /\ \A n \in Nat : l < n /\ n < t => n \in l + 1 .. t - 1
OBVIOUS

(* What a look jumps over is gone: its slot was used again a lap later. *)
LEMMA SkipLook ==
    ASSUME IInv, RetainInv, NEW a \in {0, 1}, Look(a), cpc' # "idle", last # 0,
           NEW n \in last + 1 .. target' - 1
    PROVE  n < cell[SlotOf(n)]["num"]
<1>0. TypeOK BY DEF IInv, SafeInv
<1>1. published # 0 /\ target' = Target(published) BY DEF Look, NothingNew
<1>2. target' = Oldest(published) \/ target' = last + 1 BY <1>1 DEF Target
<1>3. published > SLOTS /\ target' = published - SLOTS + 1 /\ published \in Nat /\ last \in Nat
  BY <1>0, <1>1, <1>2, RingAssumption DEF Oldest, TypeOK
<1>4. n \in Nat \ {0} /\ n + SLOTS \in 1 .. published
  BY <1>3, RingAssumption
<1>5. SlotOf(n + SLOTS) = SlotOf(n) /\ SlotOf(n) \in Slots
  BY <1>4, SlotsRepeat, SlotRange
<1>6. n + SLOTS <= cell[SlotOf(n)]["num"] BY <1>4, <1>5 DEF RetainInv
<1>7. cell[SlotOf(n)]["num"] \in Nat BY <1>0, <1>5 DEF TypeOK, Fields
<1> QED BY <1>4, <1>6, <1>7, RingAssumption

(* What was skipped in an attempt stays overwritten until the call ends. *)
LEMMA SkipStep ==
    ASSUME IInv, RetainInv, SkipsOnlyOverwritten, [Next]_vars
    PROVE  SkipsOnlyOverwritten'
<1>0. TypeOK /\ TypeOK' BY TypeStep DEF IInv, SafeInv
<1> SUFFICES ASSUME cpc' # "idle", last' # 0, NEW n \in Nat, last' < n, n < target'
             PROVE  cell'[SlotOf(n)]["num"] > n
  <2>1. last' \in Nat /\ target' \in Nat BY <1>0 DEF TypeOK
  <2>2. \A n \in last' + 1 .. target' - 1 : n \in Nat /\ last' < n /\ n < target'
    BY <2>1, Between
  <2> QED BY <2>2 DEF SkipsOnlyOverwritten
<1>1. n \in Nat \ {0} /\ SlotOf(n) \in Slots
  <2>1. last' \in Nat /\ target' \in Nat BY <1>0 DEF TypeOK
  <2>2. n \in Nat \ {0} BY <2>1
  <2> QED BY <2>2, SlotRange
<1>2. cell[SlotOf(n)]["num"] \in Nat /\ cell'[SlotOf(n)]["num"] \in Nat
  BY <1>0, <1>1 DEF TypeOK, Fields
<1>3. ASSUME NEW a \in {0, 1}, Look(a) PROVE n < cell[SlotOf(n)]["num"]
  <2>1. last' = last BY <1>3 DEF Look
  <2>2. last \in Nat /\ target' \in Nat /\ last < n BY <1>0, <2>1 DEF TypeOK
  <2>3. n \in last + 1 .. target' - 1 BY <2>2, Between
  <2> QED BY <1>3, <2>1, <2>3, SkipLook
<1>4. ASSUME cpc # "idle", UNCHANGED <<last, target>> PROVE n < cell[SlotOf(n)]["num"]
  <2>1. last # 0 /\ n \in last + 1 .. target - 1 BY <1>0, <1>4 DEF TypeOK
  <2> QED BY <1>2, <1>4, <2>1 DEF SkipsOnlyOverwritten
<1>5. \/ \E a \in {0, 1} : Look(a)
      \/ cpc # "idle" /\ UNCHANGED <<last, target>>
  BY DEF Next, Mixer, Callback, BeginPublish, WriteWord, EndWrite, Publish, EndFill, ShutdownSound,
     BeginRead, RetryRead, ReadBefore, Collide, ReadWord, ReadAfter, Acknowledge, Reattach, vars,
     call, stats
<1>6. n < cell[SlotOf(n)]["num"] BY <1>3, <1>4, <1>5
<1> QED BY <1>1, <1>2, <1>6, SlotsGrow

(* SkipsOnlyOverwritten: read_next jumps only over frames the ring no longer has,
   for every ring size, with flow control or lapped by a free-running producer. *)
THEOREM RingSkips == Spec => []SkipsOnlyOverwritten
<1>1. ASSUME Init PROVE RetainInv /\ SkipsOnlyOverwritten
  <2>1. published = 0 /\ frame_number = 0 /\ cpc = "idle" BY <1>1 DEF Init
  <2>2. \A s \in Slots : cell[s]["num"] = 0 BY <1>1 DEF Init, Frame, Fields
  <2> QED BY <2>1, <2>2 DEF RetainInv, SkipsOnlyOverwritten
<1>2. IInv /\ RetainInv /\ [Next]_vars => RetainInv'
  BY RetainStep
<1>3. IInv /\ RetainInv /\ SkipsOnlyOverwritten /\ [Next]_vars => SkipsOnlyOverwritten'
  BY SkipStep
<1> QED BY RingInvariant, <1>1, <1>2, <1>3, PTL DEF Spec
=============================================================================
