--------------------------- MODULE LockableMachine ---------------------------
(***************************************************************************)
(* The abstract promise of core/src/core/state_machine.c: a growing set of *)
(* numbered states and of edges between them, a current state, and locks   *)
(* that keep states from being chosen as a target.  A call chooses where   *)
(* it will go, runs its callbacks, and goes there: between the two other   *)
(* calls may choose and go, the last to choose going first, and locks and  *)
(* the current state may change.  Versions, checksums and snapshots are    *)
(* gone.                                                                   *)
(***************************************************************************)
EXTENDS Naturals

VARIABLES count, current, edges, locked,
          pledged    \* <<depth of the call, its target>>, chosen and not gone to

abstractVars == <<count, current, edges, locked, pledged>>

Known == 0 .. count - 1

Init == count = 0 /\ current = 0 /\ edges = {} /\ locked = {} /\ pledged = {}

\* A new state starts unlocked and unconnected.
AddOne ==
    /\ count' = count + 1
    /\ UNCHANGED <<current, edges, locked, pledged>>

Connect ==
    /\ \E from, to \in Known : edges' = edges \cup {<<from, to>>}
    /\ UNCHANGED <<count, current, locked, pledged>>

\* The only choice there is: an edge from where the machine is now, into a
\* state not locked now.  A call made meanwhile is deeper than those open.
Pledge ==
    /\ \E p \in pledged' :
          /\ p[2] \in Known \ locked
          /\ <<current, p[2]>> \in edges
          /\ \A q \in pledged : q[1] < p[1]
          /\ pledged' = pledged \cup {p}
    /\ UNCHANGED <<count, current, edges, locked>>

\* The one way current changes: the deepest call goes where it chose, once.
Move ==
    /\ \E p \in pledged :
          /\ \A q \in pledged : q[1] <= p[1]
          /\ current' = p[2]
          /\ pledged' = pledged \ {p}
    /\ UNCHANGED <<count, edges, locked>>

\* Locking, unlocking and restoring each decide the lock of one state.
Relock ==
    /\ \E s \in Known : locked' \in {locked \cup {s}, locked \ {s}}
    /\ UNCHANGED <<count, current, edges, pledged>>

Next == AddOne \/ Connect \/ Pledge \/ Move \/ Relock

Spec == Init /\ [][Next]_abstractVars
=============================================================================
