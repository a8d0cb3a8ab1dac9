---------------------------- MODULE AudioStream ----------------------------
(***************************************************************************)
(* What the shared audio ring promises the stock AAC encoder, without the   *)
(* ring: the game makes frames 1, 2, 3, ... available in order, and every   *)
(* callback hands the encoder either silence or ONE WHOLE frame that is     *)
(* already available and newer than the frame before it.  AudioRing         *)
(* implements this specification (AudioRing!StreamSpec).                    *)
(***************************************************************************)
EXTENDS Naturals

CONSTANT Fields          \* the words a frame is copied in, one at a time

VARIABLES avail,         \* newest frame the game has made available
          heard,         \* newest frame the encoder got since it was attached
          pcm            \* the buffer last handed to the encoder

Frame(n) == [f \in Fields |-> n]      \* all the words of frame n
Silence == Frame(0)

Init == avail = 0 /\ heard = 0 /\ pcm = Silence

Produce == avail' = avail + 1 /\ UNCHANGED <<heard, pcm>>

Deliver == \E n \in heard + 1 .. avail : heard' = n /\ pcm' = Frame(n) /\ UNCHANGED avail

Underrun == pcm' = Silence /\ UNCHANGED <<avail, heard>>

Attach == heard' = 0 /\ UNCHANGED <<avail, pcm>>

Next == Produce \/ Deliver \/ Underrun \/ Attach

vars == <<avail, heard, pcm>>
Spec == Init /\ [][Next]_vars
=============================================================================
