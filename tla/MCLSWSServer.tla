---------------------------- MODULE MCLSWSServer ----------------------------
(* Instances of LSWSServer for TLC. *)
EXTENDS LSWSServer
=============================================================================
