---------------------------- MODULE MCPidManager ----------------------------
(* PidManager with instances of root, of another user, or of both. *)
EXTENDS PidManager, TLC

AnyUsers == {{"root"}, {"user"}, {"root", "user"}}

PidSymmetry == Permutations(Pids)
=============================================================================
