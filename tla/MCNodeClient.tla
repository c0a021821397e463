---------------------------- MODULE MCNodeClient ----------------------------
(* NodeClient with a few sockets. *)
EXTENDS NodeClient
=============================================================================
