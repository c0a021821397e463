------------------------------ MODULE MCDaemon ------------------------------
(* Daemon with a few processes and clients. *)
EXTENDS Daemon
=============================================================================
