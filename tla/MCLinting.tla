----------------------------- MODULE MCLinting -----------------------------
(* Small instances of Linting for TLC. *)
EXTENDS Linting
=============================================================================
