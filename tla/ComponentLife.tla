--------------------------- MODULE ComponentLife ---------------------------
(***************************************************************************)
(* The abstract promise of the DOP adapter to whoever writes a component:  *)
(* it runs one invocation of a component at a time, and nothing else       *)
(* happens to the component, least of all its release, until that ends.    *)
(***************************************************************************)
CONSTANT Handles

VARIABLES life, running

lifeVars == <<life, running>>

Init ==
    /\ life = [h \in Handles |-> "UNINITIALIZED"]
    /\ running = {}

Become(h, from, to) ==
    /\ life[h] = from
    /\ life' = [life EXCEPT ![h] = to]

Create(h) == Become(h, "UNINITIALIZED", "READY") \/ Become(h, "UNINITIALIZED", "ERROR")

Start(h) == Become(h, "READY", "EXECUTING") /\ running' = running \cup {h}

Finish(h) ==
    /\ Become(h, "EXECUTING", "READY") \/ Become(h, "EXECUTING", "ERROR")
    /\ running' = running \ {h}

Refuse(h) == Become(h, "READY", "ERROR")

Hold(h) == Become(h, "READY", "SUSPENDED") \/ Become(h, "SUSPENDED", "READY")

Recover(h) == Become(h, "ERROR", "READY")

Release(h) == \E from \in {"READY", "SUSPENDED", "ERROR"} : Become(h, from, "DESTROYED")

Next ==
    \E h \in Handles :
        \/ h \notin running /\ Start(h)
        \/ h \in running /\ Finish(h)
        \/ /\ h \notin running /\ UNCHANGED running
           /\ Create(h) \/ Refuse(h) \/ Hold(h) \/ Recover(h) \/ Release(h)

Spec == Init /\ [][Next]_lifeVars
=============================================================================
