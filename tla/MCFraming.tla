----------------------------- MODULE MCFraming -----------------------------
(* Small instances of Framing for TLC. *)
EXTENDS Framing

\* A header of the least length, then longer ones.
MCBodies == <<2, 12, 5>>
MCRewritten == <<9, 12, 40>>
=============================================================================
