----------------------------- MODULE AudioRing -----------------------------
(***************************************************************************)
(* The shared-memory audio ring between the game's mixer thread             *)
(* (i_sound_e1.c: publish_frame, fill_audio_prebuffer, audio_mixer_thread)  *)
(* and the stock AAC callback (e1-audio-ring.c: e1_audio_ring_read_next,    *)
(* called from e1_audio_pcm_hook_route).                                    *)
(*                                                                         *)
(* Every access to shared memory is a step of its own.  The accesses        *)
(* between two full barriers may happen in any order, so the words of a     *)
(* slot that publish_frame writes, or read_next reads, between its barriers *)
(* are a set of pending words and each step moves one of them.              *)
(* A frame's samples are abstracted to its number: word f of slot s holds   *)
(* the number of the frame that wrote it, so a torn copy is a copy whose    *)
(* words disagree.                                                          *)
(***************************************************************************)
EXTENDS Integers

CONSTANTS SLOTS,        \* E1_AUDIO_RING_SLOTS
          PREBUFFER,    \* E1_AUDIO_PREBUFFER_FRAMES
          FREE_RUN,     \* E1_DOOM_AUDIO_FREE_RUN: the producer follows the clock
          MAX_FRAMES,   \* bound: frames the game mixes in a behaviour
          MAX_ATTACH    \* bound: times the worker maps the ring again

ASSUME RingAssumption ==
    /\ SLOTS \in Nat \ {0}
    /\ PREBUFFER \in Nat \ {0}
    /\ SLOTS > 2 * PREBUFFER
    /\ FREE_RUN \in BOOLEAN
    /\ MAX_FRAMES \in Nat
    /\ MAX_ATTACH \in Nat

VARIABLES
  \* the mapped struct e1_audio_ring
  published, consumed,  \* published_frame, consumed_frame
  seq,                  \* slot[s].sequence
  cell,                 \* slot[s].frame_number and the words of slot[s].samples
  \* the mixer thread
  ppc, frame_number, generated,
  pput,                 \* words of the slot it has still to write
  audio_thread_stop,
  \* the callback
  cpc, attempt,
  seen, target, before, \* its locals published, target, sequence_before
  cget, got,            \* words still to read, and the output buffer
  drop,                 \* *dropped_frames of this call
  last,                 \* audio_pcm_last_frame
  dropped,              \* audio_pcm_dropped_frames
  pcm,                  \* the buffer as the hook returned it to the encoder
  \* history
  attaches              \* times the ring was mapped again

ring == <<published, consumed, seq, cell>>
producer == <<ppc, frame_number, generated, pput, audio_thread_stop>>
call == <<cpc, attempt, seen, target, before, cget, got, drop>>
stats == <<last, dropped, pcm, attaches>>
vars == <<ring, producer, call, stats>>

Fields == {"num", "lo", "hi"}
Frame(n) == [f \in Fields |-> n]
Silence == Frame(0)
Slots == 0 .. SLOTS - 1
SlotOf(n) == (n - 1) % SLOTS      \* (n - 1U) & (SLOTS - 1U)

Init ==
    /\ published = 0 /\ consumed = 0
    /\ seq = [s \in Slots |-> 0]
    /\ cell = [s \in Slots |-> Frame(0)]
    /\ ppc = "fill" /\ frame_number = 0 /\ generated = 0 /\ pput = {}
    /\ audio_thread_stop = FALSE
    /\ cpc = "idle" /\ attempt = 0 /\ seen = 0 /\ target = 1 /\ before = 0
    /\ cget = {} /\ got = Silence /\ drop = 0
    /\ last = 0 /\ dropped = 0 /\ pcm = Silence
    /\ attaches = 0

-----------------------------------------------------------------------------
(* The producer. *)

(* Mutants of WantsFrame: fill the whole ring ahead; an off-by-one. *)
WantsFrameWholeRing == generated < SLOTS /\ (FREE_RUN \/ frame_number - consumed < SLOTS)
WantsFrameOneMore == generated < SLOTS /\ (FREE_RUN \/ frame_number - consumed <= PREBUFFER)

(* The loop condition of fill_audio_prebuffer.  The clock decides in
   free-run; otherwise only what the callback has taken is replaced. *)
WantsFrame ==
    /\ generated < SLOTS
    /\ FREE_RUN \/ frame_number - consumed < PREBUFFER

(* publish_frame up to its first barrier: number the frame, make its slot odd. *)
BeginPublish ==
    /\ ppc = "fill" /\ WantsFrame /\ frame_number < MAX_FRAMES
    /\ frame_number' = frame_number + 1
    /\ seq' = [seq EXCEPT ![SlotOf(frame_number + 1)] = @ - (@ % 2) + 1]
    /\ pput' = Fields
    /\ ppc' = "write"
    /\ UNCHANGED <<published, consumed, cell, generated, audio_thread_stop, call, stats>>

(* One word of slot->frame_number and memcpy(slot->samples, ...). *)
WriteWord(f) ==
    /\ ppc = "write" /\ f \in pput
    /\ cell' = [cell EXCEPT ![SlotOf(frame_number)][f] = frame_number]
    /\ pput' = pput \ {f}
    /\ ppc' = IF pput = {f} THEN "even" ELSE "write"
    /\ UNCHANGED <<published, consumed, seq, frame_number, generated,
                   audio_thread_stop, call, stats>>

(* slot->sequence = sequence + 1U *)
EndWrite ==
    /\ ppc = "even"
    /\ seq' = [seq EXCEPT ![SlotOf(frame_number)] = @ + 1]
    /\ ppc' = "publish"
    /\ UNCHANGED <<published, consumed, cell, frame_number, generated, pput,
                   audio_thread_stop, call, stats>>

(* The diagnostic counters, then published_frame; back to the fill loop. *)
Publish ==
    /\ ppc = "publish"
    /\ published' = frame_number
    /\ generated' = generated + 1
    /\ ppc' = "fill"
    /\ UNCHANGED <<consumed, seq, cell, frame_number, pput, audio_thread_stop, call, stats>>

(* The fill pass ends: its condition fails, or in free-run no frame is due
   yet.  The thread sleeps, looks at audio_thread_stop and starts over. *)
EndFill ==
    /\ ppc = "fill"
    /\ FREE_RUN \/ ~WantsFrame \/ frame_number = MAX_FRAMES
    /\ ppc' = IF audio_thread_stop THEN "exited" ELSE "fill"
    /\ generated' = 0
    /\ UNCHANGED <<ring, frame_number, pput, audio_thread_stop, call, stats>>

(* I_ShutdownSound: the flag, then a join with the mixer thread. *)
ShutdownSound ==
    /\ ~audio_thread_stop
    /\ audio_thread_stop' = TRUE
    /\ UNCHANGED <<ring, ppc, frame_number, generated, pput, call, stats>>

-----------------------------------------------------------------------------
(* The callback. *)

OldestOffByOne(p) == IF p > SLOTS THEN p - SLOTS + 2 ELSE 1      \* mutant of Oldest
Oldest(p) == IF p > SLOTS THEN p - SLOTS + 1 ELSE 1

(* The frame the callback goes for when it sees p published. *)
Target(p) ==
    IF last = 0
    THEN IF p > PREBUFFER THEN p - PREBUFFER ELSE 1
    ELSE IF last + 1 < Oldest(p) THEN Oldest(p) ELSE last + 1

NothingNewOffByOne == published <= last + 1      \* mutant of NothingNew
NothingNew == published = 0 \/ published <= last

(* Lines 25-45 with n attempts behind: silence at once when nothing newer is
   published, otherwise choose the target and count what a lap cost. *)
Look(n) ==
    /\ seen' = published
    /\ attempt' = n
    /\ IF NothingNew
       THEN /\ cpc' = "idle" /\ pcm' = Silence
            /\ UNCHANGED <<target, drop>>
       ELSE /\ cpc' = "before" /\ target' = Target(published)
            /\ drop' = (IF n = 0 THEN 0 ELSE drop)
                       + (IF last # 0 /\ last + 1 < Oldest(published)
                          THEN Oldest(published) - (last + 1) ELSE 0)
            /\ UNCHANGED pcm
    /\ UNCHANGED <<ring, producer, before, cget, got, last, dropped, attaches>>

BeginRead == cpc = "idle" /\ Look(0)

RetryRead == cpc = "retry" /\ Look(1)

(* Mutant of Collide: the buffer is not cleared. *)
CollideUncleared ==
    IF attempt = 0
    THEN cpc' = "retry" /\ UNCHANGED pcm
    ELSE cpc' = "idle" /\ pcm' = got

(* A failed attempt: look again once, then give the encoder silence. *)
Collide ==
    IF attempt = 0
    THEN cpc' = "retry" /\ UNCHANGED pcm
    ELSE cpc' = "idle" /\ pcm' = Silence

(* sequence_before: an odd slot is being written. *)
ReadBefore ==
    /\ cpc = "before"
    /\ before' = seq[SlotOf(target)]
    /\ IF seq[SlotOf(target)] % 2 = 1
       THEN Collide /\ UNCHANGED cget
       ELSE cpc' = "copy" /\ cget' = Fields /\ UNCHANGED pcm
    /\ UNCHANGED <<ring, producer, attempt, seen, target, got, drop, last, dropped,
                   attaches>>

(* One word of slot->frame_number and memcpy(output, slot->samples). *)
ReadWord(f) ==
    /\ cpc = "copy" /\ f \in cget
    /\ got' = [got EXCEPT ![f] = cell[SlotOf(target)][f]]
    /\ cget' = cget \ {f}
    /\ cpc' = IF cget = {f} THEN "after" ELSE "copy"
    /\ UNCHANGED <<ring, producer, attempt, seen, target, before, drop, stats>>

(* Mutant of ReadAfter: the sequence is not read again. *)
ReadAfterNoRecheck ==
    /\ cpc = "after"
    /\ IF got["num"] = target THEN cpc' = "ack" /\ UNCHANGED pcm ELSE Collide
    /\ UNCHANGED <<ring, producer, attempt, seen, target, before, cget, got, drop,
                   last, dropped, attaches>>

(* sequence_after, and the check that the copy is the target frame. *)
ReadAfter ==
    /\ cpc = "after"
    /\ IF seq[SlotOf(target)] = before /\ got["num"] = target
       THEN cpc' = "ack" /\ UNCHANGED pcm
       ELSE Collide
    /\ UNCHANGED <<ring, producer, attempt, seen, target, before, cget, got, drop,
                   last, dropped, attaches>>

(* Mutant of Acknowledge: consumed_frame is not stored. *)
AcknowledgeLost ==
    /\ cpc = "ack"
    /\ last' = target /\ dropped' = dropped + drop /\ pcm' = got /\ cpc' = "idle"
    /\ UNCHANGED <<published, consumed, seq, cell, producer, attempt, seen, target, before,
                   cget, got, drop, attaches>>

(* Success: acknowledge through consumed_frame; the hook keeps the new
   last_frame and adds the call's drops to its counter. *)
Acknowledge ==
    /\ cpc = "ack"
    /\ consumed' = target
    /\ last' = target
    /\ dropped' = dropped + drop
    /\ pcm' = got
    /\ cpc' = "idle"
    /\ UNCHANGED <<published, seq, cell, producer, attempt, seen, target, before, cget,
                   got, drop, attaches>>

(* audio-stop then audio-stock-doom: with no callback active, the worker maps
   the ring again and start_stock_audio_doom clears the counters.
   consumed_frame lives in the ring and keeps its value. *)
Reattach ==
    /\ cpc = "idle" /\ attaches < MAX_ATTACH
    /\ attaches' = attaches + 1
    /\ last' = 0 /\ dropped' = 0
    /\ UNCHANGED <<ring, producer, call, pcm>>

-----------------------------------------------------------------------------
Mixer == BeginPublish \/ (\E f \in Fields : WriteWord(f)) \/ EndWrite \/ Publish \/ EndFill

Callback == BeginRead \/ RetryRead \/ ReadBefore \/ (\E f \in Fields : ReadWord(f))
            \/ ReadAfter \/ Acknowledge

Next == Mixer \/ ShutdownSound \/ Callback \/ Reattach

Spec == Init /\ [][Next]_vars

(* The mixer thread polls every 32 ms and the stock audio thread calls the
   hook for every AAC frame; neither ever waits for the other. *)
FairSpec == Spec /\ WF_vars(Mixer) /\ WF_vars(Callback)
-----------------------------------------------------------------------------
(* Properties. *)

TypeOK ==
    /\ published \in Nat /\ consumed \in Nat
    /\ seq \in [Slots -> Nat] /\ cell \in [Slots -> [Fields -> Nat]]
    /\ ppc \in {"fill", "write", "even", "publish", "exited"}
    /\ frame_number \in Nat /\ generated \in Nat /\ pput \in SUBSET Fields
    /\ audio_thread_stop \in BOOLEAN
    /\ cpc \in {"idle", "before", "copy", "after", "retry", "ack"}
    /\ attempt \in {0, 1} /\ seen \in Nat /\ target \in Nat \ {0} /\ before \in Nat
    /\ cget \in SUBSET Fields /\ got \in [Fields -> Nat] /\ drop \in Nat
    /\ last \in Nat /\ dropped \in Nat /\ pcm \in [Fields -> Nat]
    /\ attaches \in Nat

(* A read that read_next accepts is one whole frame, the target: the two
   sequence checks catch every write that overlapped the copy, in whatever
   order the words moved. *)
UntornRead == cpc = "ack" => got = Frame(target)

(* With flow control (not free-run) the producer never touches the slot a
   callback is reading, so no read ever has to be retried and no lap is ever
   counted, even when the worker has just mapped the ring again and the
   callback starts PREBUFFER frames behind what was already consumed. *)
NoContention == ~FREE_RUN => cpc # "retry" /\ drop = 0

(* With flow control the unread backlog is bounded, so frame_number -
   consumed_frame never wraps below zero and never approaches a lap. *)
BacklogBound == ~FREE_RUN => frame_number - consumed \in 0 .. 2 * PREBUFFER

(* "skip only frames that are no longer retained" (e1-audio-ring.h): every
   frame the target jumps over has been overwritten in its slot. *)
SkipsOnlyOverwritten ==
    cpc # "idle" /\ last # 0 =>
        \A n \in last + 1 .. target - 1 : cell[SlotOf(n)]["num"] > n

(* The ring implements AudioStream: the encoder gets whole frames, each one
   published before and newer than the one it got before, or silence. *)
Stream == INSTANCE AudioStream WITH avail <- published, heard <- last
StreamSpec == Stream!Spec

(* Every published frame is eventually heard, or overtaken by a newer one that
   is: a callback never stays behind the ring. *)
Delivered == \A n \in 1 .. MAX_FRAMES : published >= n ~> last >= n

(* Flow control never starves the stream: the acknowledgements keep the mixer
   going until the sound system is shut down. *)
KeepsMixing == <>(audio_thread_stop \/ published = MAX_FRAMES)
=============================================================================
