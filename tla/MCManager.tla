----------------------------- MODULE MCManager ------------------------------
(* Manager with two programs and two signals.                              *)
EXTENDS Manager
=============================================================================
