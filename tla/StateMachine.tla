---------------------------- MODULE StateMachine ----------------------------
(***************************************************************************)
(* The integrity-checked state machine of core/src/core/state_machine.c.   *)
(*                                                                         *)
(* One machine, from polycall_sm_create_with_integrity to                  *)
(* polycall_sm_destroy.  polycall_sm_execute_transition is not one step:   *)
(* it runs the caller's on_exit, action and on_enter callbacks between its *)
(* checks and its writes, so a call in progress is a frame on "calls", and *)
(* what a callback does to the machine is whatever API operation is        *)
(* enabled while a frame is open: lock the target, execute, anything but   *)
(* destroy.                                                                *)
(*                                                                         *)
(* A state's name and id never differ from those its slot was given, so    *)
(* compute_state_checksum, an XOR of a hash of the name with the id and    *)
(* the version, distinguishes two values of a slot exactly when their      *)
(* versions differ: a stored checksum is modelled by the version it was    *)
(* computed over.  The integrity_check hook is NULL; timestamps and        *)
(* is_final are read by no operation.  A guard_condition is given two      *)
(* const states and no context: it decides and changes nothing.            *)
(***************************************************************************)
EXTENDS Integers, Sequences

CONSTANTS MaxStates,       \* POLYCALL_MAX_STATES
          MaxTransitions,  \* POLYCALL_MAX_TRANSITIONS
          TransNames,      \* the names the caller gives transitions
          GuardedNames,    \* the names whose transitions have a guard_condition
          Holders,         \* the caller's PolyCall_StateSnapshot variables
          MaxDepth,        \* bound: execute_transition calls open at once
          MaxVersion,      \* bound: no transition raises a version above it
          MaxCount         \* bound: a diagnostics counter stops there

ASSUME SizesAssumption ==
    /\ MaxStates \in Nat \ {0}
    /\ MaxTransitions \in Nat
    /\ MaxDepth \in Nat \ {0}
    /\ MaxVersion \in Nat \ {0}
    /\ MaxCount \in Nat

VARIABLES states,          \* sm->states
          num_states,
          transitions,     \* sm->transitions[0 .. num_transitions - 1]
          current_state,
          snapshots,       \* what each holder's snapshot contains
          calls,           \* open execute_transition calls, innermost first
          alive,           \* sm->is_initialized
          diagnostics      \* sm->diagnostics, its two counters

vars == <<states, num_states, transitions, current_state, snapshots, calls,
          alive, diagnostics>>

-----------------------------------------------------------------------------
Ids == 0 .. MaxStates - 1

State == [id : Ids, version : Nat, checksum : Nat, is_locked : BOOLEAN]

Transition == [name : TransNames, from_state : Ids, to_state : Ids]

\* "leaving": on_exit and action run; "entering": on_enter runs.
Frame == [trans : Transition, phase : {"leaving", "entering"}]

\* The zeroes calloc leaves in a slot; also what an unset snapshot holds.
Zeroed == [id |-> 0, version |-> 0, checksum |-> 0, is_locked |-> FALSE]

ChecksumOver(version) == version

Used == 0 .. num_states - 1

\* The API is called from outside, or from a callback of an open call.
Callable == alive

-----------------------------------------------------------------------------
\* Mistakes the code could have made; each violates a property below.
AddStateUnbounded ==        \* no check of POLYCALL_MAX_STATES
    /\ Callable
    /\ states' = [i \in Ids |-> IF i = num_states
                    THEN [Zeroed EXCEPT !.id = i, !.version = 1, !.checksum = ChecksumOver(1)]
                    ELSE states[i]]
    /\ num_states' = num_states + 1
    /\ UNCHANGED <<transitions, current_state, snapshots, calls, alive, diagnostics>>

AddTransitionOffByOne(t) == \* ">" for ">=" in the check of the ids
    /\ Callable
    /\ t.from_state <= num_states /\ t.to_state <= num_states
    /\ Len(transitions) < MaxTransitions
    /\ transitions' = Append(transitions, t)
    /\ UNCHANGED <<states, num_states, current_state, snapshots, calls, alive, diagnostics>>

BeginExecuteLocked(i) ==    \* no check of the target's lock
    /\ Callable
    /\ \A j \in 1 .. i - 1 : transitions[j].name # transitions[i].name
    /\ transitions[i].from_state = current_state
    /\ Len(calls) < MaxDepth
    /\ states[transitions[i].to_state].version + Len(calls) < MaxVersion
    /\ calls' = <<[trans |-> transitions[i], phase |-> "leaving"]>> \o calls
    /\ UNCHANGED <<states, num_states, transitions, current_state, snapshots, alive, diagnostics>>

SetLockRefreshing(s, locked) == \* a checksum refreshed where none was broken
    /\ Callable
    /\ s < num_states
    /\ states' = [states EXCEPT ![s].is_locked = locked,
                                ![s].checksum = ChecksumOver(states[s].version)]
    /\ UNCHANGED <<num_states, transitions, current_state, snapshots, calls, alive, diagnostics>>

-----------------------------------------------------------------------------
Init ==
    /\ states = [i \in Ids |-> Zeroed]
    /\ num_states = 0
    /\ transitions = <<>>
    /\ current_state = 0
    /\ snapshots = [h \in Holders |-> {}]
    /\ calls = <<>>
    /\ alive = TRUE
    /\ diagnostics = [failed_transitions |-> 0, integrity_violations |-> 0]

AddState ==
    /\ Callable
    /\ num_states < MaxStates
    /\ states' = [states EXCEPT ![num_states] =
                    [id |-> num_states, version |-> 1,
                     checksum |-> ChecksumOver(1), is_locked |-> FALSE]]
    /\ num_states' = num_states + 1
    /\ UNCHANGED <<transitions, current_state, snapshots, calls, alive, diagnostics>>

\* The two ids are the caller's; an id of no state is refused.
AddTransition(t) ==
    /\ Callable
    /\ t.from_state < num_states /\ t.to_state < num_states
    /\ Len(transitions) < MaxTransitions
    /\ transitions' = Append(transitions, t)
    /\ UNCHANGED <<states, num_states, current_state, snapshots, calls, alive, diagnostics>>

\* The loop stops at the first transition of that name, whatever its source.
IsFirstOfName(i) == \A j \in 1 .. i - 1 : transitions[j].name # transitions[i].name

CountOne(counter) ==
    /\ diagnostics[counter] < MaxCount
    /\ diagnostics' = [diagnostics EXCEPT ![counter] = @ + 1]
    /\ UNCHANGED <<states, num_states, transitions, current_state, snapshots, calls, alive>>

\* An unknown name, a wrong source or a guard's "no" is counted and refused.
\* A locked target is refused too, and not counted: nothing changes.
RefuseExecute(name) ==
    /\ Callable
    /\ \A i \in DOMAIN transitions :
          transitions[i].name = name /\ IsFirstOfName(i) =>
             transitions[i].from_state # current_state \/ name \in GuardedNames
    /\ CountOne("failed_transitions")

\* execute_transition up to its callbacks; a guard, if any, has said "yes".
BeginExecute(i) ==
    /\ Callable
    /\ IsFirstOfName(i)
    /\ transitions[i].from_state = current_state
    /\ ~states[transitions[i].to_state].is_locked
    /\ Len(calls) < MaxDepth
    /\ states[transitions[i].to_state].version + Len(calls) < MaxVersion
    /\ calls' = <<[trans |-> transitions[i], phase |-> "leaving"]>> \o calls
    /\ UNCHANGED <<states, num_states, transitions, current_state, snapshots, alive, diagnostics>>

\* on_exit and the action have returned: move, whatever they did meanwhile.
MoveToNewState ==
    /\ calls # <<>> /\ calls[1].phase = "leaving"
    /\ LET to == calls[1].trans.to_state IN
        /\ current_state' = to
        /\ states' = [states EXCEPT ![to].version = @ + 1]
    /\ calls' = [calls EXCEPT ![1].phase = "entering"]
    /\ UNCHANGED <<num_states, transitions, snapshots, alive, diagnostics>>

\* on_enter has returned, and so does the call.
EndExecute ==
    /\ calls # <<>> /\ calls[1].phase = "entering"
    /\ calls' = Tail(calls)
    /\ UNCHANGED <<states, num_states, transitions, current_state, snapshots, alive, diagnostics>>

SetLock(s, locked) ==
    /\ Callable
    /\ s < num_states
    /\ states[s].is_locked # locked
    /\ states' = [states EXCEPT ![s].is_locked = locked]
    /\ UNCHANGED <<num_states, transitions, current_state, snapshots, calls, alive, diagnostics>>

LockState(s) == SetLock(s, TRUE)
UnlockState(s) == SetLock(s, FALSE)

\* A verification that passes changes nothing; one that fails is counted.
VerifiesOK(state) == state.checksum = ChecksumOver(state.version)

VerifyStateIntegrity(s) ==
    /\ Callable
    /\ s < num_states
    /\ ~VerifiesOK(states[s])
    /\ CountOne("integrity_violations")

\* A snapshot is a set of at most one copy of a state.
CreateStateSnapshot(h, s) ==
    /\ Callable
    /\ s < num_states
    /\ snapshots' = [snapshots EXCEPT ![h] = {states[s]}]
    /\ UNCHANGED <<states, num_states, transitions, current_state, calls, alive, diagnostics>>

\* Restoring writes the whole copy back: lock flag, version and checksum too.
RestoreStateFromSnapshot(h) ==
    /\ Callable
    /\ \E copy \in snapshots[h] : states' = [states EXCEPT ![copy.id] = copy]
    /\ UNCHANGED <<num_states, transitions, current_state, snapshots, calls, alive, diagnostics>>

\* A callback does not destroy the machine that is running it.
Destroy ==
    /\ alive /\ calls = <<>>
    /\ alive' = FALSE
    /\ UNCHANGED <<states, num_states, transitions, current_state, snapshots, calls, diagnostics>>

Next ==
    \/ AddState
    \/ \E t \in Transition : AddTransition(t)
    \/ \E i \in 1 .. Len(transitions) : BeginExecute(i)
    \/ \E name \in TransNames : RefuseExecute(name)
    \/ MoveToNewState
    \/ EndExecute
    \/ \E s \in Ids : LockState(s) \/ UnlockState(s) \/ VerifyStateIntegrity(s)
    \/ \E h \in Holders, s \in Ids : CreateStateSnapshot(h, s)
    \/ \E h \in Holders : RestoreStateFromSnapshot(h)
    \/ Destroy

Spec == Init /\ [][Next]_vars

-----------------------------------------------------------------------------
TypeOK ==
    /\ states \in [Ids -> State]
    /\ num_states \in 0 .. MaxStates
    /\ transitions \in Seq(Transition)
    /\ Len(transitions) <= MaxTransitions
    /\ current_state \in Ids
    /\ snapshots \in [Holders -> SUBSET State]
    /\ calls \in Seq(Frame)
    /\ alive \in BOOLEAN
    /\ diagnostics \in [failed_transitions : Nat, integrity_violations : Nat]

CurrentIsAdded == current_state < num_states \/ current_state = 0

TransitionsJoinAdded ==
    \A i \in 1 .. Len(transitions) :
        transitions[i].from_state < num_states /\ transitions[i].to_state < num_states

CallsJoinAdded ==
    \A i \in 1 .. Len(calls) :
        calls[i].trans.from_state < num_states /\ calls[i].trans.to_state < num_states

CopiesAreOfAdded == \A h \in Holders : \A copy \in snapshots[h] : copy.id < num_states

SlotsHoldTheirIds == \A s \in Used : states[s].id = s

(***************************************************************************)
(* Every index the code dereferences is one of an added state: the current *)
(* state, the ends of every transition, of those still executing, and the  *)
(* slot a snapshot is restored to, although restore checks its id against  *)
(* POLYCALL_MAX_STATES only and execute does not check current_state.      *)
(***************************************************************************)
IndicesAreOfAddedStates ==
    /\ CurrentIsAdded
    /\ TransitionsJoinAdded
    /\ CallsJoinAdded
    /\ CopiesAreOfAdded
    /\ SlotsHoldTheirIds

(***************************************************************************)
(* Verification is a one-way alarm: the stored checksum stays the one      *)
(* add_state computed, so a state verifies exactly until it is first       *)
(* entered, and again only when a copy from before then is restored.       *)
(***************************************************************************)
VerifiesUntilFirstEntered ==
    \A s \in Used : VerifiesOK(states[s]) <=> states[s].version = 1

Edges == {<<transitions[i].from_state, transitions[i].to_state>> : i \in 1 .. Len(transitions)}

LockedStates == {s \in Used : states[s].is_locked}

\* The calls that run on_exit or their action, each with where it will go.
Pledged ==
    {<<Len(calls) - i + 1, calls[i].trans.to_state>> :
        i \in {j \in 1 .. Len(calls) : calls[j].phase = "leaving"}}

(***************************************************************************)
(* What the machine still promises when callbacks use it: every move is    *)
(* one that execute_transition chose along an edge from the state current  *)
(* when it was called, into a state unlocked then; it is made once, after  *)
(* the moves of the calls its callbacks made, and nothing else moves.  It  *)
(* does not promise more: by the time it moves, a callback may have locked *)
(* the target or have moved the machine away from the edge's source.       *)
(***************************************************************************)
Lockable == INSTANCE LockableMachine WITH
    count <- num_states, current <- current_state, edges <- Edges, locked <- LockedStates,
    pledged <- Pledged

ImplementsLockableMachine == Lockable!Spec
=============================================================================
