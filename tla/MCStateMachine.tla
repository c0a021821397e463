-------------------------- MODULE MCStateMachine --------------------------
(* StateMachine on small instances. *)
EXTENDS StateMachine
===========================================================================
