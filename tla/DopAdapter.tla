----------------------------- MODULE DopAdapter -----------------------------
(***************************************************************************)
(* Components of the DOP adapter: their registry and lifecycle             *)
(* (core/src/adapter/polycall_dop_adapter.c, ..._lifecycle.c) and their    *)
(* invocation (..._invoke.c).                                              *)
(*                                                                         *)
(* A component's invoke callback runs in the middle of                     *)
(* polycall_dop_component_invoke, and may call the adapter: an invocation  *)
(* in progress is a frame on "calls".  The components in Reentered have    *)
(* callbacks that may lead back to the component they belong to.           *)
(*                                                                         *)
(* What the checks of an invocation look at (method, parameters,           *)
(* permissions, time, result) is reduced to whether they pass.  A handle   *)
(* is one polycall_dop_component_t: what unregister frees never comes back *)
(* under the same name.                                                    *)
(***************************************************************************)
EXTENDS Integers, Sequences, SequencesExt

CONSTANTS Handles,      \* the component structures ever allocated
          Ids,          \* the component_ids the callers configure
          Reentered,    \* those whose own callbacks may invoke them again
          MaxDepth      \* bound: invocations open at once

ASSUME DepthAssumption == MaxDepth \in Nat /\ Reentered \subseteq Handles /\ Ids # {}

VARIABLES state,        \* component->state
          id,           \* component->component_id
          registry,     \* adapter->components[0 .. component_count - 1]
          calls,        \* components of the open invocations, innermost first
          sweep,        \* index of adapter_cleanup's loop, 0 before it
          up            \* adapter->is_initialized

vars == <<state, id, registry, calls, sweep, up>>

-----------------------------------------------------------------------------
LifeStates == {"UNINITIALIZED", "INITIALIZING", "READY", "EXECUTING", "SUSPENDED",
               "ERROR", "CLEANUP", "DESTROYED"}

\* LIFECYCLE_TRANSITION_MATRIX, and dop_component_validate_transition's switch.
Targets == [s \in LifeStates |->
    CASE s = "UNINITIALIZED" -> {"INITIALIZING"}
      [] s = "INITIALIZING"  -> {"READY", "ERROR"}
      [] s = "READY"         -> {"EXECUTING", "SUSPENDED", "ERROR", "CLEANUP"}
      [] s = "EXECUTING"     -> {"READY", "ERROR"}
      [] s = "SUSPENDED"     -> {"READY", "ERROR", "CLEANUP"}
      [] s = "ERROR"         -> {"READY", "CLEANUP"}
      [] s = "CLEANUP"       -> {"DESTROYED"}
      [] s = "DESTROYED"     -> {}]

CanBecome(h, target) == target \in Targets[state[h]]

Allocated(h) == state[h] \notin {"UNINITIALIZED", "DESTROYED"}

IsCalled(h) == \E i \in 1 .. Len(calls) : calls[i] = h

Tame == Handles \ Reentered

\* The application calls the adapter, from a callback or from outside.
Callable == up /\ sweep = 0

Becomes(h, new) ==
    /\ state' = [state EXCEPT ![h] = new]
    /\ UNCHANGED <<id, up>>

-----------------------------------------------------------------------------
\* Mistakes the code could have made; each violates a property below.
RegisterTwice(h, i) ==      \* no check for a duplicate component_id
    /\ Callable /\ state[h] = "UNINITIALIZED"
    /\ registry' = Append(registry, h)
    /\ state' = [state EXCEPT ![h] = "READY"] /\ id' = [id EXCEPT ![h] = i]
    /\ UNCHANGED <<calls, sweep, up>>

RegisterUnfinished(h, i) == \* the transition to READY forgotten
    /\ Callable /\ state[h] = "UNINITIALIZED"
    /\ \A n \in 1 .. Len(registry) : id[registry[n]] # i
    /\ registry' = Append(registry, h)
    /\ state' = [state EXCEPT ![h] = "INITIALIZING"] /\ id' = [id EXCEPT ![h] = i]
    /\ UNCHANGED <<calls, sweep, up>>

UnregisterForced(h) ==      \* no validation of the transition to CLEANUP
    /\ \E n \in DOMAIN registry : registry[n] = h /\ registry' = RemoveAt(registry, n)
    /\ Becomes(h, "DESTROYED")

SuspendAny(h) ==            \* no check that the component is READY
    /\ Callable /\ Allocated(h)
    /\ Becomes(h, "SUSPENDED")
    /\ UNCHANGED <<registry, calls, sweep>>

ResumeAny(h) ==             \* only the matrix asked, not for SUSPENDED
    /\ Callable /\ CanBecome(h, "READY")
    /\ Becomes(h, "READY")
    /\ UNCHANGED <<registry, calls, sweep>>

EndInvokeEarly ==           \* a failed last check returns before "cleanup:"
    /\ calls # <<>>
    /\ \/ state[Head(calls)] = "EXECUTING" /\ Becomes(Head(calls), "READY")
       \/ state[Head(calls)] # "DESTROYED" /\ UNCHANGED <<state, id, up>>
    /\ calls' = Tail(calls)
    /\ UNCHANGED <<registry, sweep>>

-----------------------------------------------------------------------------
Init ==
    /\ state = [h \in Handles |-> "UNINITIALIZED"]
    /\ id = [h \in Handles |-> CHOOSE i \in Ids : TRUE]
    /\ registry = <<>> /\ calls = <<>>
    /\ sweep = 0 /\ up = TRUE

Register(h, i) ==
    /\ Callable /\ state[h] = "UNINITIALIZED"
    /\ \A n \in 1 .. Len(registry) : id[registry[n]] # i
    /\ registry' = Append(registry, h)
    /\ state' = [state EXCEPT ![h] = "READY"]
    /\ id' = [id EXCEPT ![h] = i]
    /\ UNCHANGED <<calls, sweep, up>>

\* polycall_dop_component_initialize is for a component structure the caller
\* made itself: one that was registered is past UNINITIALIZED.  It fails if
\* the language has no bridge or the init callback does.
Initialize(h) ==
    /\ Callable /\ CanBecome(h, "INITIALIZING")
    /\ \E outcome \in {"READY", "ERROR"} : Becomes(h, outcome)
    /\ UNCHANGED <<registry, calls, sweep>>

\* The registry's tail moves down over the component.
Unregister(h) ==
    /\ \E n \in DOMAIN registry : registry[n] = h /\ registry' = RemoveAt(registry, n)
    /\ CanBecome(h, "CLEANUP")
    /\ Becomes(h, "DESTROYED")

UnregisterByCaller(h) == Callable /\ Unregister(h) /\ UNCHANGED <<calls, sweep>>

\* An invocation that passes its checks runs the component's callback.
BeginInvoke(h) ==
    /\ Callable /\ Len(calls) < MaxDepth
    /\ state[h] = "READY"
    /\ Becomes(h, "EXECUTING")
    /\ calls' = <<h>> \o calls
    /\ UNCHANGED <<registry, sweep>>

\* One that fails them is over at once: EXECUTING, then ERROR.
RejectInvoke(h) ==
    /\ Callable /\ state[h] = "READY"
    /\ Becomes(h, "ERROR")
    /\ UNCHANGED <<registry, calls, sweep>>

\* "goto cleanup" serves the call that was refused because the component is
\* EXECUTING as well: the state it finds is the other invocation's.
RefuseInvoke(h) ==
    /\ Callable /\ h \in Reentered
    /\ state[h] = "EXECUTING"
    /\ Becomes(h, "ERROR")
    /\ UNCHANGED <<registry, calls, sweep>>

\* The callback has returned; its result has passed the last checks or not.
\* A return into a component that was freed has no defined outcome, and is
\* not followed.
EndInvoke ==
    /\ calls # <<>>
    /\ \/ /\ state[Head(calls)] = "EXECUTING"
          /\ \E outcome \in {"READY", "ERROR"} : Becomes(Head(calls), outcome)
       \/ /\ state[Head(calls)] \notin {"EXECUTING", "DESTROYED"}
          /\ UNCHANGED <<state, id, up>>
    /\ calls' = Tail(calls)
    /\ UNCHANGED <<registry, sweep>>

Suspend(h) ==
    /\ Callable /\ CanBecome(h, "SUSPENDED")
    /\ state[h] = "READY"
    /\ Becomes(h, "SUSPENDED")
    /\ UNCHANGED <<registry, calls, sweep>>

Resume(h) ==
    /\ Callable /\ CanBecome(h, "READY")
    /\ state[h] = "SUSPENDED"
    /\ Becomes(h, "READY")
    /\ UNCHANGED <<registry, calls, sweep>>

Reset(h) ==
    /\ Callable /\ state[h] = "ERROR"
    /\ CanBecome(h, "READY")
    /\ Becomes(h, "READY")
    /\ UNCHANGED <<registry, calls, sweep>>

\* polycall_dop_adapter_cleanup, when no callback is running, one component
\* a step: the index advances over a registry that unregister has shortened.
BeginCleanup ==
    /\ Callable /\ calls = <<>>
    /\ sweep' = 1
    /\ UNCHANGED <<state, id, registry, calls, up>>

SweepOne ==
    /\ up /\ sweep \in 1 .. Len(registry)
    /\ Unregister(registry[sweep])
    /\ sweep' = sweep + 1
    /\ UNCHANGED calls

EndCleanup ==
    /\ up /\ sweep > Len(registry)
    /\ up' = FALSE
    /\ UNCHANGED <<state, id, registry, calls, sweep>>

Next ==
    \/ \E h \in Handles, i \in Ids : Register(h, i)
    \/ \E h \in Handles :
          \/ Initialize(h) \/ UnregisterByCaller(h)
          \/ BeginInvoke(h) \/ RejectInvoke(h) \/ RefuseInvoke(h)
          \/ Suspend(h) \/ Resume(h) \/ Reset(h)
    \/ EndInvoke
    \/ BeginCleanup \/ SweepOne \/ EndCleanup

Spec == Init /\ [][Next]_vars

-----------------------------------------------------------------------------
\* Between two calls no component is left INITIALIZING or in CLEANUP.
TypeOK ==
    /\ state \in [Handles -> LifeStates \ {"INITIALIZING", "CLEANUP"}]
    /\ id \in [Handles -> Ids]
    /\ registry \in Seq(Handles) /\ calls \in Seq(Handles)
    /\ sweep \in Nat /\ up \in BOOLEAN

(***************************************************************************)
(* The registry holds each of its components once, alive and under an id   *)
(* no other has: find, and unregister's search by address, are right to    *)
(* stop at the first match.                                                *)
(***************************************************************************)
RegistryOfLive ==
    /\ \A n \in 1 .. Len(registry) : Allocated(registry[n])
    /\ \A m, n \in 1 .. Len(registry) :
          m # n => registry[m] # registry[n] /\ id[registry[m]] # id[registry[n]]

(***************************************************************************)
(* EXECUTING is the lock that keeps a component from being suspended,      *)
(* reset, invoked again or freed under its own callback: it is set exactly *)
(* while the component has an invocation open, and that is a single one.   *)
(* Stated for the components that are not Reentered, next to others that   *)
(* are and whose locks fail (OneExecutionAtATime).                         *)
(***************************************************************************)
ExecutingWhileCalled ==
    /\ \A h \in Tame : state[h] = "EXECUTING" <=> IsCalled(h)
    /\ \A m, n \in 1 .. Len(calls) : calls[m] = calls[n] /\ calls[m] \in Tame => m = n

(***************************************************************************)
(* Nobody is left EXECUTING when his last invocation has returned, in      *)
(* whatever order refused invocations, resets and returns have written his *)
(* state: from EXECUTING nothing but the end of an invocation leads back,  *)
(* and neither reset, unregister nor adapter_cleanup would accept him.     *)
(***************************************************************************)
NobodyLeftExecuting == \A h \in Handles : state[h] = "EXECUTING" => IsCalled(h)

\* A step takes a component along the matrix, through INITIALIZING, CLEANUP
\* or EXECUTING if the call passes through them, whatever callbacks do.
LegalStep ==
    \A h \in Handles :
        state'[h] # state[h] =>
            \/ state'[h] \in Targets[state[h]]
            \/ \E mid \in Targets[state[h]] \cap {"INITIALIZING", "CLEANUP", "EXECUTING"} :
                  state'[h] \in Targets[mid]

TransitionsAreLegal == [][LegalStep]_vars

(***************************************************************************)
(* What the author of a component may rely on, when no callback of its own *)
(* leads back to it, whatever the other components' callbacks do.          *)
(***************************************************************************)
Life == INSTANCE ComponentLife WITH
            Handles <- Tame,
            life    <- [h \in Tame |-> state[h]],
            running <- {h \in Tame : IsCalled(h)}

ImplementsComponentLife == Life!Spec

\* "Validate component state - must be READY for invocation": so a component
\* is never executed twice at once.
OneExecutionAtATime == \A m, n \in 1 .. Len(calls) : calls[m] = calls[n] => m = n
=============================================================================
