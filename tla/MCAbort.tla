------------------------------- MODULE MCAbort ------------------------------
(* A small instance of Abort for TLC. *)
EXTENDS Abort

CONSTANTS one, two, first, second
=============================================================================
