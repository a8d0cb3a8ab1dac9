-------------------------- MODULE MCRuntimeControl --------------------------
(* SECRET for TLC: a short sequence with the repeated start of the one in the
   code, which leaves the run room for time. *)
EXTENDS RuntimeControl

ShortSecret == <<3, 3, 4>>
=============================================================================
