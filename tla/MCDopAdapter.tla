---------------------------- MODULE MCDopAdapter ----------------------------
(* DopAdapter with a few components, of which one may be reentered. *)
EXTENDS DopAdapter
=============================================================================
