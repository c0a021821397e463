---------------------------- MODULE MCNetProgram ----------------------------
(* NetProgram on small instances. *)
EXTENDS NetProgram
=============================================================================
