------------------------- MODULE StateMachineProofs -------------------------
(***************************************************************************)
(* What TLAPS proves of StateMachine for every size of the tables, every   *)
(* set of names and snapshots and every nesting of calls.                  *)
(***************************************************************************)
EXTENDS StateMachine, SequenceTheorems, TLAPS

(***************************************************************************)
(* VerifiesUntilFirstEntered is not inductive: restoring a copy needs the  *)
(* same of the copy.  What add_state writes and nothing overwrites is the  *)
(* checksum of version 1, in the slots and in every snapshot of them.      *)
(***************************************************************************)
FirstChecksumKept(state) == state.checksum = 1 /\ state.version >= 1

ChecksumsAreOfVersionOne ==
    /\ \A s \in Used : FirstChecksumKept(states[s])
    /\ \A h \in Holders : \A copy \in snapshots[h] : FirstChecksumKept(copy)

IInv == TypeOK /\ IndicesAreOfAddedStates /\ ChecksumsAreOfVersionOne

-----------------------------------------------------------------------------
\* What opening a frame does to the stack of calls.
LEMMA PushFrame ==
    ASSUME NEW S, NEW f \in S, NEW seq \in Seq(S)
    PROVE  /\ <<f>> \o seq \in Seq(S)
           /\ Len(<<f>> \o seq) = Len(seq) + 1
           /\ (<<f>> \o seq)[1] = f
           /\ \A i \in 2 .. Len(seq) + 1 : (<<f>> \o seq)[i] = seq[i - 1]
<1>1. <<f>> \in Seq(S) /\ Len(<<f>>) = 1 /\ <<f>>[1] = f
  OBVIOUS
<1>2. QED
  BY <1>1, ConcatProperties, Z3

\* Closing the innermost frame leaves the outer ones, one place nearer.
LEMMA PopFrame ==
    ASSUME NEW S, NEW seq \in Seq(S), seq # <<>>
    PROVE  /\ Tail(seq) \in Seq(S)
           /\ Len(Tail(seq)) = Len(seq) - 1
           /\ \A i \in 1 .. Len(Tail(seq)) : Tail(seq)[i] = seq[i + 1]
BY HeadTailProperties

\* The type invariant, element by element.
LEMMA ElementTypes ==
    ASSUME TypeOK
    PROVE  /\ num_states \in Nat /\ num_states <= MaxStates
           /\ Used \subseteq Ids
           /\ \A s \in Ids : states[s] \in State
           /\ \A h \in Holders : \A copy \in snapshots[h] : copy \in State
           /\ Len(transitions) \in Nat
           /\ \A i \in 1 .. Len(transitions) : transitions[i] \in Transition
           /\ Len(calls) \in Nat
           /\ \A i \in 1 .. Len(calls) : calls[i] \in Frame
<1>1. num_states \in Nat /\ num_states <= MaxStates /\ Used \subseteq Ids
  BY SizesAssumption DEF TypeOK, Used, Ids
<1>2. transitions \in Seq(Transition) /\ calls \in Seq(Frame)
  BY DEF TypeOK
<1>3. /\ Len(transitions) \in Nat
      /\ \A i \in 1 .. Len(transitions) : transitions[i] \in Transition
  BY <1>2, ElementOfSeq, LenProperties
<1>4. Len(calls) \in Nat /\ \A i \in 1 .. Len(calls) : calls[i] \in Frame
  BY <1>2, ElementOfSeq, LenProperties
<1>5. QED
  BY <1>1, <1>3, <1>4 DEF TypeOK

LEMMA TransitionEnds ==
    ASSUME NEW t \in Transition
    PROVE  t.from_state \in Nat /\ t.to_state \in Nat
BY SizesAssumption DEF Transition, Ids

-----------------------------------------------------------------------------
LEMMA Initially == Init => IInv
<1> SUFFICES ASSUME Init PROVE IInv
  OBVIOUS
<1>1. TypeOK
  BY SizesAssumption DEF Init, TypeOK, Ids, Zeroed, State
<1>2. IndicesAreOfAddedStates
  BY DEF Init, IndicesAreOfAddedStates, CurrentIsAdded, TransitionsJoinAdded,
         CallsJoinAdded, CopiesAreOfAdded, SlotsHoldTheirIds, Used
<1>3. ChecksumsAreOfVersionOne
  BY DEF Init, ChecksumsAreOfVersionOne, Used
<1>4. QED
  BY <1>1, <1>2, <1>3 DEF IInv

\* Adding a state keeps every old index in range and fills one new slot.
LEMMA AddStateStep == IInv /\ AddState => IInv'
<1> SUFFICES ASSUME IInv, AddState PROVE IInv'
  OBVIOUS
<1> DEFINE new == [id |-> num_states, version |-> 1, checksum |-> 1, is_locked |-> FALSE]
<1>0. TypeOK /\ IndicesAreOfAddedStates /\ ChecksumsAreOfVersionOne
  BY DEF IInv
<1>1. /\ states' = [states EXCEPT ![num_states] = new]
      /\ num_states < MaxStates
      /\ num_states' = num_states + 1
      /\ UNCHANGED <<transitions, current_state, snapshots, calls, alive, diagnostics>>
  BY DEF AddState, ChecksumOver
<1>2. num_states \in Ids /\ new \in State
  BY <1>0, <1>1, SizesAssumption, ElementTypes DEF Ids, State
<1>3. /\ states' \in [Ids -> State]
      /\ states'[num_states] = new
      /\ \A s \in Ids \ {num_states} : states'[s] = states[s]
  BY <1>0, <1>1, <1>2 DEF TypeOK
<1>4. TypeOK'
  BY <1>0, <1>1, <1>2, <1>3, SizesAssumption DEF TypeOK, Ids
<1>5. \A s \in Used' : s \in Used \/ s = num_states
  BY <1>0, <1>1, ElementTypes DEF Used
<1>6. \A s \in Used : states'[s] = states[s]
  BY <1>0, <1>1, <1>3, ElementTypes DEF Used
<1>7. \A n \in Nat : n < num_states => n < num_states'
  BY <1>0, <1>1, ElementTypes
<1>8. CurrentIsAdded'
  BY <1>0, <1>1, <1>7, SizesAssumption
     DEF IndicesAreOfAddedStates, CurrentIsAdded, TypeOK, Ids
<1>9. TransitionsJoinAdded'
  BY <1>0, <1>1, <1>7, ElementTypes, TransitionEnds
     DEF IndicesAreOfAddedStates, TransitionsJoinAdded
<1>10. CallsJoinAdded'
  BY <1>0, <1>1, <1>7, ElementTypes, TransitionEnds
     DEF IndicesAreOfAddedStates, CallsJoinAdded, Frame
<1>11. CopiesAreOfAdded'
  BY <1>0, <1>1, <1>7, ElementTypes, SizesAssumption
     DEF IndicesAreOfAddedStates, CopiesAreOfAdded, State, Ids
<1>12. SlotsHoldTheirIds'
  BY <1>0, <1>3, <1>5, <1>6 DEF IndicesAreOfAddedStates, SlotsHoldTheirIds
<1>13. ChecksumsAreOfVersionOne'
  BY <1>0, <1>1, <1>3, <1>5, <1>6 DEF ChecksumsAreOfVersionOne, FirstChecksumKept
<1>14. QED
  BY <1>4, <1>8, <1>9, <1>10, <1>11, <1>12, <1>13 DEF IInv, IndicesAreOfAddedStates

LEMMA AddTransitionStep ==
    ASSUME NEW t \in Transition, IInv, AddTransition(t)
    PROVE  IInv'
<1>0. TypeOK /\ IndicesAreOfAddedStates /\ ChecksumsAreOfVersionOne
  BY DEF IInv
<1>1. /\ t.from_state < num_states /\ t.to_state < num_states
      /\ Len(transitions) < MaxTransitions
      /\ transitions' = Append(transitions, t)
      /\ UNCHANGED <<states, num_states, current_state, snapshots, calls, alive, diagnostics>>
  BY DEF AddTransition
<1>2. /\ transitions' \in Seq(Transition)
      /\ Len(transitions') = Len(transitions) + 1
      /\ \A i \in 1 .. Len(transitions) : transitions'[i] = transitions[i]
      /\ transitions'[Len(transitions) + 1] = t
  BY <1>0, <1>1, AppendProperties DEF TypeOK
<1>3. TypeOK'
  BY <1>0, <1>1, <1>2, SizesAssumption, ElementTypes DEF TypeOK
<1>4. TransitionsJoinAdded'
  BY <1>0, <1>1, <1>2, ElementTypes DEF IndicesAreOfAddedStates, TransitionsJoinAdded
<1>5. IndicesAreOfAddedStates'
  BY <1>0, <1>1, <1>4 DEF IndicesAreOfAddedStates, CurrentIsAdded, CallsJoinAdded,
                          CopiesAreOfAdded, SlotsHoldTheirIds, Used
<1>6. ChecksumsAreOfVersionOne'
  BY <1>0, <1>1 DEF ChecksumsAreOfVersionOne, Used
<1>7. QED
  BY <1>3, <1>5, <1>6 DEF IInv

\* The frame opened holds a transition of the table, so its ends are added.
LEMMA BeginExecuteStep ==
    ASSUME NEW i \in 1 .. Len(transitions), IInv, BeginExecute(i)
    PROVE  IInv'
<1> DEFINE f == [trans |-> transitions[i], phase |-> "leaving"]
<1>0. TypeOK /\ IndicesAreOfAddedStates /\ ChecksumsAreOfVersionOne
  BY DEF IInv
<1>1. /\ calls' = <<f>> \o calls
      /\ UNCHANGED <<states, num_states, transitions, current_state, snapshots, alive, diagnostics>>
  BY DEF BeginExecute
<1>2. f \in Frame /\ calls \in Seq(Frame)
  BY <1>0, ElementTypes DEF Frame, TypeOK
<1> HIDE DEF f
<1>3. /\ calls' \in Seq(Frame)
      /\ Len(calls') = Len(calls) + 1
      /\ calls'[1] = f
      /\ \A j \in 2 .. Len(calls) + 1 : calls'[j] = calls[j - 1]
  BY <1>1, <1>2, PushFrame
<1>4. TypeOK'
  BY <1>0, <1>1, <1>3 DEF TypeOK
<1>5. CallsJoinAdded'
  <2> SUFFICES ASSUME NEW j \in 1 .. Len(calls')
               PROVE  /\ calls'[j].trans.from_state < num_states
                      /\ calls'[j].trans.to_state < num_states
    BY <1>1 DEF CallsJoinAdded
  <2>1. CASE j = 1
    BY <2>1, <1>0, <1>3 DEF IndicesAreOfAddedStates, TransitionsJoinAdded, f
  <2>2. CASE j # 1
    <3>1. j - 1 \in 1 .. Len(calls) /\ calls'[j] = calls[j - 1]
      BY <2>2, <1>0, <1>3, ElementTypes
    <3>2. QED
      BY <3>1, <1>0 DEF IndicesAreOfAddedStates, CallsJoinAdded
  <2>3. QED
    BY <2>1, <2>2
<1>6. IndicesAreOfAddedStates'
  BY <1>0, <1>1, <1>5 DEF IndicesAreOfAddedStates, CurrentIsAdded, TransitionsJoinAdded,
                          CopiesAreOfAdded, SlotsHoldTheirIds, Used
<1>7. ChecksumsAreOfVersionOne'
  BY <1>0, <1>1 DEF ChecksumsAreOfVersionOne, Used
<1>8. QED
  BY <1>4, <1>6, <1>7 DEF IInv

\* The move raises one version and changes no id and no checksum.
LEMMA MoveStep == IInv /\ MoveToNewState => IInv'
<1> SUFFICES ASSUME IInv, MoveToNewState PROVE IInv'
  OBVIOUS
<1> DEFINE to == calls[1].trans.to_state
<1>0. TypeOK /\ IndicesAreOfAddedStates /\ ChecksumsAreOfVersionOne
  BY DEF IInv
<1>1. /\ calls # <<>>
      /\ current_state' = to
      /\ states' = [states EXCEPT ![to].version = @ + 1]
      /\ calls' = [calls EXCEPT ![1].phase = "entering"]
      /\ UNCHANGED <<num_states, transitions, snapshots, alive, diagnostics>>
  BY DEF MoveToNewState
<1>2. calls \in Seq(Frame) /\ 1 \in 1 .. Len(calls) /\ calls[1] \in Frame
  BY <1>0, <1>1, EmptySeq, ElementTypes DEF TypeOK
<1>3. to \in Ids /\ to < num_states
  BY <1>0, <1>2 DEF IndicesAreOfAddedStates, CallsJoinAdded, Frame, Transition
<1> HIDE DEF to
<1>4. [calls[1] EXCEPT !.phase = "entering"] \in Frame
  BY <1>2 DEF Frame
<1>5. /\ calls' \in Seq(Frame)
      /\ Len(calls') = Len(calls)
      /\ \A i \in 1 .. Len(calls) : calls'[i].trans = calls[i].trans
  <2>1. calls' = [calls EXCEPT ![1] = [calls[1] EXCEPT !.phase = "entering"]]
    BY <1>1
  <2>2. [calls[1] EXCEPT !.phase = "entering"].trans = calls[1].trans
    BY <1>2 DEF Frame
  <2>3. QED
    BY <2>1, <2>2, <1>2, <1>4, ExceptSeq
<1>6. [states[to] EXCEPT !.version = @ + 1] \in State
  BY <1>0, <1>3, ElementTypes DEF State
<1>7. /\ states' \in [Ids -> State]
      /\ \A s \in Ids : /\ states'[s].id = states[s].id
                        /\ states'[s].checksum = states[s].checksum
                        /\ states'[s].version \in {states[s].version, states[s].version + 1}
  BY <1>0, <1>1, <1>3, <1>6, ElementTypes DEF TypeOK, State
<1>8. TypeOK'
  BY <1>0, <1>1, <1>3, <1>5, <1>7 DEF TypeOK
<1>9. IndicesAreOfAddedStates'
  BY <1>0, <1>1, <1>3, <1>5, <1>7, ElementTypes
     DEF IndicesAreOfAddedStates, CurrentIsAdded, TransitionsJoinAdded, CallsJoinAdded,
         CopiesAreOfAdded, SlotsHoldTheirIds, Used
<1>10. ChecksumsAreOfVersionOne'
  <2>1. \A s \in Used : FirstChecksumKept(states'[s])
    BY <1>0, <1>7, ElementTypes DEF ChecksumsAreOfVersionOne, FirstChecksumKept, State
  <2>2. QED
    BY <2>1, <1>0, <1>1 DEF ChecksumsAreOfVersionOne, Used
<1>11. QED
  BY <1>8, <1>9, <1>10 DEF IInv

LEMMA EndExecuteStep == IInv /\ EndExecute => IInv'
<1> SUFFICES ASSUME IInv, EndExecute PROVE IInv'
  OBVIOUS
<1>0. TypeOK /\ IndicesAreOfAddedStates /\ ChecksumsAreOfVersionOne
  BY DEF IInv
<1>1. /\ calls # <<>>
      /\ calls' = Tail(calls)
      /\ UNCHANGED <<states, num_states, transitions, current_state, snapshots, alive, diagnostics>>
  BY DEF EndExecute
<1>2. /\ calls' \in Seq(Frame)
      /\ Len(calls') = Len(calls) - 1
      /\ \A i \in 1 .. Len(calls') : calls'[i] = calls[i + 1]
  BY <1>0, <1>1, PopFrame DEF TypeOK
<1>3. TypeOK'
  BY <1>0, <1>1, <1>2 DEF TypeOK
<1>4. CallsJoinAdded'
  <2> SUFFICES ASSUME NEW i \in 1 .. Len(calls')
               PROVE  /\ calls'[i].trans.from_state < num_states
                      /\ calls'[i].trans.to_state < num_states
    BY <1>1 DEF CallsJoinAdded
  <2>1. i + 1 \in 1 .. Len(calls) /\ calls'[i] = calls[i + 1]
    BY <1>0, <1>2, ElementTypes
  <2>2. QED
    BY <2>1, <1>0 DEF IndicesAreOfAddedStates, CallsJoinAdded
<1>5. IndicesAreOfAddedStates'
  BY <1>0, <1>1, <1>4 DEF IndicesAreOfAddedStates, CurrentIsAdded, TransitionsJoinAdded,
                          CopiesAreOfAdded, SlotsHoldTheirIds, Used
<1>6. ChecksumsAreOfVersionOne'
  BY <1>0, <1>1 DEF ChecksumsAreOfVersionOne, Used
<1>7. QED
  BY <1>3, <1>5, <1>6 DEF IInv

LEMMA SetLockStep ==
    ASSUME NEW s \in Ids, NEW b \in BOOLEAN, IInv, SetLock(s, b)
    PROVE  IInv'
<1>0. TypeOK /\ IndicesAreOfAddedStates /\ ChecksumsAreOfVersionOne
  BY DEF IInv
<1>1. /\ states' = [states EXCEPT ![s].is_locked = b]
      /\ UNCHANGED <<num_states, transitions, current_state, snapshots, calls, alive, diagnostics>>
  BY DEF SetLock
<1>2. [states[s] EXCEPT !.is_locked = b] \in State
  BY <1>0, ElementTypes DEF State
<1>3. /\ states' \in [Ids -> State]
      /\ \A r \in Ids : /\ states'[r].id = states[r].id
                        /\ states'[r].checksum = states[r].checksum
                        /\ states'[r].version = states[r].version
  BY <1>0, <1>1, <1>2, ElementTypes DEF TypeOK, State
<1>4. TypeOK'
  BY <1>0, <1>1, <1>3 DEF TypeOK
<1>5. IndicesAreOfAddedStates'
  BY <1>0, <1>1, <1>3, ElementTypes
     DEF IndicesAreOfAddedStates, CurrentIsAdded, TransitionsJoinAdded, CallsJoinAdded,
         CopiesAreOfAdded, SlotsHoldTheirIds, Used
<1>6. ChecksumsAreOfVersionOne'
  BY <1>0, <1>1, <1>3, ElementTypes DEF ChecksumsAreOfVersionOne, FirstChecksumKept, Used
<1>7. QED
  BY <1>4, <1>5, <1>6 DEF IInv

\* A copy is taken of an added state, whose facts it inherits.
LEMMA CreateSnapshotStep ==
    ASSUME NEW h \in Holders, NEW s \in Ids, IInv, CreateStateSnapshot(h, s)
    PROVE  IInv'
<1>0. TypeOK /\ IndicesAreOfAddedStates /\ ChecksumsAreOfVersionOne
  BY DEF IInv
<1>1. /\ s < num_states
      /\ snapshots' = [snapshots EXCEPT ![h] = {states[s]}]
      /\ UNCHANGED <<states, num_states, transitions, current_state, calls, alive, diagnostics>>
  BY DEF CreateStateSnapshot
<1>2. s \in Used /\ states[s] \in State
  BY <1>0, <1>1, SizesAssumption, ElementTypes DEF Used, Ids
<1>3. /\ snapshots' \in [Holders -> SUBSET State]
      /\ \A g \in Holders : \A copy \in snapshots'[g] :
            copy \in snapshots[g] \/ copy = states[s]
  BY <1>0, <1>1, <1>2 DEF TypeOK
<1>4. TypeOK'
  BY <1>0, <1>1, <1>3 DEF TypeOK
<1>5. CopiesAreOfAdded'
  BY <1>0, <1>1, <1>2, <1>3
     DEF IndicesAreOfAddedStates, CopiesAreOfAdded, SlotsHoldTheirIds
<1>6. IndicesAreOfAddedStates'
  BY <1>0, <1>1, <1>5 DEF IndicesAreOfAddedStates, CurrentIsAdded, TransitionsJoinAdded,
                          CallsJoinAdded, SlotsHoldTheirIds, Used
<1>7. ChecksumsAreOfVersionOne'
  BY <1>0, <1>1, <1>2, <1>3 DEF ChecksumsAreOfVersionOne, Used
<1>8. QED
  BY <1>4, <1>6, <1>7 DEF IInv

\* The copy goes back to the slot it was taken from.
LEMMA RestoreStep ==
    ASSUME NEW h \in Holders, IInv, RestoreStateFromSnapshot(h)
    PROVE  IInv'
<1>0. TypeOK /\ IndicesAreOfAddedStates /\ ChecksumsAreOfVersionOne
  BY DEF IInv
<1>1. PICK copy \in snapshots[h] : states' = [states EXCEPT ![copy.id] = copy]
  BY DEF RestoreStateFromSnapshot
<1>2. UNCHANGED <<num_states, transitions, current_state, snapshots, calls, alive, diagnostics>>
  BY DEF RestoreStateFromSnapshot
<1>3. copy \in State /\ copy.id \in Ids /\ FirstChecksumKept(copy)
  BY <1>0, ElementTypes DEF State, ChecksumsAreOfVersionOne
<1>4. /\ states' \in [Ids -> State]
      /\ states'[copy.id] = copy
      /\ \A s \in Ids \ {copy.id} : states'[s] = states[s]
  BY <1>0, <1>1, <1>3 DEF TypeOK
<1>5. TypeOK'
  BY <1>0, <1>2, <1>4 DEF TypeOK
<1>6. SlotsHoldTheirIds'
  BY <1>0, <1>2, <1>4, ElementTypes DEF IndicesAreOfAddedStates, SlotsHoldTheirIds, Used
<1>7. IndicesAreOfAddedStates'
  BY <1>0, <1>2, <1>6 DEF IndicesAreOfAddedStates, CurrentIsAdded, TransitionsJoinAdded,
                          CallsJoinAdded, CopiesAreOfAdded
<1>8. ChecksumsAreOfVersionOne'
  BY <1>0, <1>2, <1>3, <1>4, ElementTypes DEF ChecksumsAreOfVersionOne, Used
<1>9. QED
  BY <1>5, <1>7, <1>8 DEF IInv

\* Counting a refusal or a failed verification touches the diagnostics only.
LEMMA CountStep ==
    ASSUME NEW c \in {"failed_transitions", "integrity_violations"}, IInv, CountOne(c)
    PROVE  IInv'
<1>0. TypeOK /\ IndicesAreOfAddedStates /\ ChecksumsAreOfVersionOne
  BY DEF IInv
<1>1. UNCHANGED <<states, num_states, transitions, current_state, snapshots, calls, alive>>
  BY DEF CountOne
<1> DEFINE Counters == [failed_transitions : Nat, integrity_violations : Nat]
<1>2. diagnostics' \in Counters
  <2>1. diagnostics \in Counters
    BY <1>0 DEF TypeOK
  <2>2. diagnostics' = [diagnostics EXCEPT ![c] = diagnostics[c] + 1]
    BY DEF CountOne
  <2>3. CASE c = "failed_transitions"
    BY <2>1, <2>2, <2>3
  <2>4. CASE c = "integrity_violations"
    BY <2>1, <2>2, <2>4
  <2>5. QED
    BY <2>3, <2>4
<1>3. QED
  BY <1>0, <1>1, <1>2
     DEF IInv, TypeOK, IndicesAreOfAddedStates, CurrentIsAdded, TransitionsJoinAdded,
         CallsJoinAdded, CopiesAreOfAdded, SlotsHoldTheirIds, ChecksumsAreOfVersionOne, Used

LEMMA InvariantStep == IInv /\ [Next]_vars => IInv'
<1> SUFFICES ASSUME IInv, [Next]_vars PROVE IInv'
  OBVIOUS
<1>1. CASE AddState
  BY <1>1, AddStateStep
<1>2. ASSUME NEW t \in Transition, AddTransition(t) PROVE IInv'
  BY <1>2, AddTransitionStep
<1>3. ASSUME NEW i \in 1 .. Len(transitions), BeginExecute(i) PROVE IInv'
  BY <1>3, BeginExecuteStep
<1>4. ASSUME NEW name \in TransNames, RefuseExecute(name) PROVE IInv'
  BY <1>4, CountStep DEF RefuseExecute
<1>5. CASE MoveToNewState
  BY <1>5, MoveStep
<1>6. CASE EndExecute
  BY <1>6, EndExecuteStep
<1>7. ASSUME NEW s \in Ids, LockState(s) \/ UnlockState(s) PROVE IInv'
  BY <1>7, SetLockStep DEF LockState, UnlockState
<1>8. ASSUME NEW s \in Ids, VerifyStateIntegrity(s) PROVE IInv'
  BY <1>8, CountStep DEF VerifyStateIntegrity
<1>9. ASSUME NEW h \in Holders, NEW s \in Ids, CreateStateSnapshot(h, s) PROVE IInv'
  BY <1>9, CreateSnapshotStep
<1>10. ASSUME NEW h \in Holders, RestoreStateFromSnapshot(h) PROVE IInv'
  BY <1>10, RestoreStep
<1>11. CASE Destroy \/ UNCHANGED vars
  <2>1. /\ UNCHANGED <<states, num_states, transitions, current_state, snapshots, calls>>
        /\ UNCHANGED diagnostics
        /\ alive' \in {alive, FALSE}
    BY <1>11 DEF Destroy, vars
  <2>2. QED
    BY <2>1 DEF IInv, TypeOK, IndicesAreOfAddedStates, CurrentIsAdded, TransitionsJoinAdded,
                CallsJoinAdded, CopiesAreOfAdded, SlotsHoldTheirIds,
                ChecksumsAreOfVersionOne, Used
<1>12. QED
  BY <1>1, <1>2, <1>3, <1>4, <1>5, <1>6, <1>7, <1>8, <1>9, <1>10, <1>11 DEF Next

-----------------------------------------------------------------------------
\* The invariant behind the theorems below holds in every reachable state,
\* whatever API callbacks call (state_machine.c as a whole).
THEOREM InvariantHolds == Spec => []IInv
<1>1. QED
  BY Initially, InvariantStep, PTL DEF Spec

\* Every variable keeps its type under every operation of the API.
THEOREM TypeCorrect == Spec => []TypeOK
<1>1. IInv => TypeOK
  BY DEF IInv
<1>2. QED
  BY <1>1, InvariantHolds, PTL

\* Neither execute_transition nor restore_state_from_snapshot, which check
\* too little, can reach a slot that add_state has not filled.
THEOREM IndicesInRange == Spec => []IndicesAreOfAddedStates
<1>1. IInv => IndicesAreOfAddedStates
  BY DEF IInv
<1>2. QED
  BY <1>1, InvariantHolds, PTL

\* verify_state_integrity fails for every state that has been entered, and
\* for no other: execute_transition never renews the checksum.
THEOREM VerifiesOnlyUntilEntered == Spec => []VerifiesUntilFirstEntered
<1>1. IInv => VerifiesUntilFirstEntered
  <2> SUFFICES ASSUME IInv, NEW s \in Used
               PROVE  VerifiesOK(states[s]) <=> states[s].version = 1
    BY DEF VerifiesUntilFirstEntered
  <2>1. states[s].checksum = 1
    BY DEF IInv, ChecksumsAreOfVersionOne, FirstChecksumKept
  <2>2. QED
    BY <2>1 DEF VerifiesOK, ChecksumOver
<1>2. QED
  BY <1>1, InvariantHolds, PTL

-----------------------------------------------------------------------------
(***************************************************************************)
(* The refinement needs no more than IInv: each frame whose callbacks run  *)
(* before the move is a pledge, known by the depth of its call, which no   *)
(* other frame shares and no later step changes.                           *)
(***************************************************************************)
Leaving(i) == i \in 1 .. Len(calls) /\ calls[i].phase = "leaving"

PledgeOf(i) == <<Len(calls) - i + 1, calls[i].trans.to_state>>

LEMMA PledgedIs ==
    /\ \A q : q \in Pledged <=> \E i \in 1 .. Len(calls) : Leaving(i) /\ q = PledgeOf(i)
    /\ \A q : q \in Pledged' <=> \E i \in 1 .. Len(calls') : Leaving(i)' /\ q = PledgeOf(i)'
<1>1. \A q : q \in Pledged <=> \E i \in 1 .. Len(calls) : Leaving(i) /\ q = PledgeOf(i)
  BY DEF Pledged, PledgeOf, Leaving
<1>2. \A q : q \in Pledged' <=> \E i \in 1 .. Len(calls') : Leaving(i)' /\ q = PledgeOf(i)'
  BY DEF Pledged, PledgeOf, Leaving
<1>3. QED
  BY <1>1, <1>2

LEMMA PledgedKept == UNCHANGED calls => Pledged' = Pledged
BY DEF Pledged

LEMMA RefinementInit == Init => Lockable!Init
BY DEF Init, Lockable!Init, Edges, LockedStates, Used, Pledged

\* A new call is deeper than those open; its target is an unlocked neighbour.
LEMMA BeginIsPledge ==
    ASSUME IInv, NEW i \in 1 .. Len(transitions), BeginExecute(i)
    PROVE  Lockable!Pledge
<1> DEFINE f == [trans |-> transitions[i], phase |-> "leaving"]
           p == <<Len(calls) + 1, transitions[i].to_state>>
<1>0. TypeOK /\ IndicesAreOfAddedStates
  BY DEF IInv
<1>1. /\ calls' = <<f>> \o calls
      /\ transitions[i].from_state = current_state
      /\ ~states[transitions[i].to_state].is_locked
      /\ UNCHANGED <<states, num_states, transitions, current_state>>
  BY DEF BeginExecute
<1>2. Len(calls) \in Nat /\ transitions[i] \in Transition /\ f \in Frame
  BY <1>0, ElementTypes DEF Frame
<1>3. /\ Len(calls') = Len(calls) + 1
      /\ calls'[1] = f
      /\ \A k \in 2 .. Len(calls) + 1 : calls'[k] = calls[k - 1]
  BY <1>0, <1>1, <1>2, PushFrame DEF TypeOK
<1>4. Leaving(1)' /\ PledgeOf(1)' = p
  BY <1>2, <1>3 DEF Leaving, PledgeOf
<1>5. ASSUME NEW k \in 1 .. Len(calls)
      PROVE  (Leaving(k) <=> Leaving(k + 1)') /\ PledgeOf(k + 1)' = PledgeOf(k)
  <2>1. k + 1 \in 2 .. Len(calls) + 1 /\ (k + 1) - 1 = k /\ k + 1 \in 1 .. Len(calls')
    BY <1>2, <1>3
  <2>2. calls'[k + 1] = calls[k]
    BY <1>3, <2>1
  <2>3. QED
    BY <1>2, <1>3, <2>1, <2>2 DEF Leaving, PledgeOf
<1>6. Pledged' = Pledged \cup {p}
  <2>1. ASSUME NEW k \in 1 .. Len(calls), Leaving(k) PROVE PledgeOf(k) \in Pledged'
    <3>1. k + 1 \in 1 .. Len(calls')
      BY <1>2, <1>3
    <3>2. QED
      BY <2>1, <3>1, <1>5, PledgedIs
  <2>4. p \in Pledged'
    <3>1. 1 \in 1 .. Len(calls')
      BY <1>2, <1>3
    <3>2. QED
      BY <3>1, <1>4, PledgedIs
  <2>2. ASSUME NEW k \in 1 .. Len(calls'), Leaving(k)' PROVE PledgeOf(k)' \in Pledged \cup {p}
    <3>1. CASE k = 1
      BY <3>1, <1>4
    <3>2. CASE k # 1
      <4>1. k - 1 \in 1 .. Len(calls) /\ k = (k - 1) + 1
        BY <3>2, <1>2, <1>3
      <4>2. Leaving(k - 1) /\ PledgeOf(k)' = PledgeOf(k - 1)
        BY <4>1, <2>2, <1>5
      <4>3. QED
        BY <4>1, <4>2, PledgedIs
    <3>3. QED
      BY <3>1, <3>2
  <2>3. QED
    BY <2>1, <2>2, <2>4, PledgedIs
<1>7. \A q \in Pledged : q[1] < p[1]
  BY <1>2, PledgedIs DEF PledgeOf
<1>8. transitions[i].to_state \in Used \ LockedStates
  BY <1>0, <1>1, <1>2, TransitionEnds, ElementTypes
     DEF IndicesAreOfAddedStates, TransitionsJoinAdded, Used, LockedStates
<1>9. <<current_state, p[2]>> \in Edges
  BY <1>1 DEF Edges
<1>10. Edges' = Edges /\ LockedStates' = LockedStates
  BY <1>1 DEF Edges, LockedStates, Used
<1>11. QED
  BY <1>1, <1>6, <1>7, <1>8, <1>9, <1>10 DEF Lockable!Pledge, Lockable!Known, Used

\* The innermost call is the deepest; what it redeems is its own pledge.
LEMMA MoveIsMove ==
    ASSUME IInv, MoveToNewState
    PROVE  Lockable!Move
<1> DEFINE to == calls[1].trans.to_state
           p == <<Len(calls), to>>
<1>0. TypeOK /\ IndicesAreOfAddedStates
  BY DEF IInv
<1>1. /\ 1 \in 1 .. Len(calls) /\ Len(calls) \in Nat
      /\ calls[1] \in Frame /\ calls[1].phase = "leaving"
  BY <1>0, EmptySeq, ElementTypes DEF TypeOK, MoveToNewState
<1>2. to \in Used /\ to \in Ids
  BY <1>0, <1>1, TransitionEnds, ElementTypes
     DEF IndicesAreOfAddedStates, CallsJoinAdded, Used, Frame
<1>3. /\ current_state' = to
      /\ states' = [states EXCEPT ![to].version = @ + 1]
      /\ UNCHANGED <<num_states, transitions>>
  BY DEF MoveToNewState
<1>4. \A s \in Ids : states'[s].is_locked = states[s].is_locked
  BY <1>0, <1>2, <1>3, ElementTypes DEF TypeOK, State
<1>5. LockedStates' = LockedStates
  BY <1>0, <1>3, <1>4, ElementTypes DEF LockedStates, Used
<1>6. Edges' = Edges
  BY <1>3 DEF Edges
<1>7. /\ Len(calls') = Len(calls)
      /\ calls'[1].phase = "entering"
      /\ \A k \in 2 .. Len(calls) : calls'[k] = calls[k]
  <2>1. calls' = [calls EXCEPT ![1] = [calls[1] EXCEPT !.phase = "entering"]]
    BY DEF MoveToNewState
  <2>2. calls \in Seq(Frame) /\ [calls[1] EXCEPT !.phase = "entering"] \in Frame
    BY <1>0, <1>1 DEF TypeOK, Frame
  <2>3. [calls[1] EXCEPT !.phase = "entering"].phase = "entering"
    BY <1>1 DEF Frame
  <2>4. QED
    BY <1>1, <2>1, <2>2, <2>3, ExceptSeq
<1>8. Leaving(1) /\ PledgeOf(1) = p /\ ~Leaving(1)'
  BY <1>1, <1>7 DEF Leaving, PledgeOf
<1>9. \A k \in 2 .. Len(calls) : (Leaving(k) <=> Leaving(k)') /\ PledgeOf(k)' = PledgeOf(k)
  BY <1>1, <1>7 DEF Leaving, PledgeOf
<1>10. \A k \in 2 .. Len(calls) : PledgeOf(k) # p /\ PledgeOf(k)[1] <= p[1]
  BY <1>1 DEF PledgeOf
<1>11. p \in Pledged /\ \A q \in Pledged : q[1] <= p[1]
  <2>1. \A k \in 1 .. Len(calls) : k = 1 \/ k \in 2 .. Len(calls)
    BY <1>1
  <2>2. p \in Pledged
    BY <1>1, <1>8, PledgedIs
  <2>3. QED
    BY <1>1, <1>8, <1>10, <2>1, <2>2, PledgedIs
<1>12. Pledged' = Pledged \ {p}
  <2>1. \A k \in 1 .. Len(calls) : k = 1 \/ k \in 2 .. Len(calls)
    BY <1>1
  <2>2. ASSUME NEW q \in Pledged', q \notin Pledged \ {p} PROVE FALSE
    <3>1. PICK k \in 1 .. Len(calls) : Leaving(k)' /\ q = PledgeOf(k)'
      BY <1>7, PledgedIs
    <3>2. k \in 2 .. Len(calls)
      BY <3>1, <1>8, <2>1
    <3>3. QED
      BY <2>2, <3>1, <3>2, <1>9, <1>10, PledgedIs
  <2>3. ASSUME NEW q \in Pledged, q # p PROVE q \in Pledged'
    <3>1. PICK k \in 1 .. Len(calls) : Leaving(k) /\ q = PledgeOf(k)
      BY PledgedIs
    <3>2. k \in 2 .. Len(calls)
      BY <2>3, <3>1, <1>8, <2>1
    <3>3. QED
      BY <3>1, <3>2, <1>7, <1>9, PledgedIs
  <2>4. QED
    BY <2>2, <2>3
<1>13. QED
  BY <1>3, <1>5, <1>6, <1>11, <1>12 DEF Lockable!Move

\* The call that returns has moved: it is no pledge, and the others keep depth.
LEMMA EndKeepsPledges ==
    ASSUME IInv, EndExecute
    PROVE  Pledged' = Pledged
<1>0. TypeOK
  BY DEF IInv
<1>1. /\ calls \in Seq(Frame) /\ calls # <<>> /\ Len(calls) \in Nat
      /\ calls[1].phase = "entering" /\ calls' = Tail(calls)
  BY <1>0, ElementTypes DEF TypeOK, EndExecute
<1>2. /\ Len(calls') = Len(calls) - 1
      /\ \A k \in 1 .. Len(calls') : calls'[k] = calls[k + 1]
  BY <1>1, PopFrame
<1>3. ~Leaving(1)
  BY <1>1 DEF Leaving
<1>4. \A k \in 1 .. Len(calls') :
         (Leaving(k)' <=> Leaving(k + 1)) /\ PledgeOf(k)' = PledgeOf(k + 1)
  BY <1>1, <1>2 DEF Leaving, PledgeOf
<1>5. ASSUME NEW q \in Pledged PROVE q \in Pledged'
  <2>1. PICK k \in 1 .. Len(calls) : Leaving(k) /\ q = PledgeOf(k)
    BY PledgedIs
  <2>2. k - 1 \in 1 .. Len(calls') /\ (k - 1) + 1 = k
    BY <1>1, <1>2, <1>3, <2>1
  <2>3. QED
    BY <1>4, <2>1, <2>2, PledgedIs
<1>6. ASSUME NEW q \in Pledged' PROVE q \in Pledged
  <2>1. PICK k \in 1 .. Len(calls') : Leaving(k)' /\ q = PledgeOf(k)'
    BY PledgedIs
  <2>2. k + 1 \in 1 .. Len(calls)
    BY <1>1, <1>2
  <2>3. QED
    BY <1>4, <2>1, <2>2, PledgedIs
<1>7. QED
  BY <1>5, <1>6

LEMMA RefinementStep ==
    ASSUME IInv, [Next]_vars
    PROVE  [Lockable!Next]_(Lockable!abstractVars)
<1> USE DEF Lockable!abstractVars, Lockable!Known
<1>0. TypeOK /\ IndicesAreOfAddedStates
  BY DEF IInv
<1>1. CASE AddState
  <2>1. num_states' = num_states + 1 /\ UNCHANGED <<current_state, transitions, calls>>
    BY <1>1 DEF AddState
  <2>2. /\ num_states \in Ids
        /\ \A s \in Used : states'[s] = states[s]
        /\ ~states'[num_states].is_locked
    BY <1>0, <1>1, SizesAssumption, ElementTypes DEF AddState, Ids, Used, TypeOK
  <2>3. LockedStates' = LockedStates
    BY <1>0, <2>1, <2>2, ElementTypes DEF LockedStates, Used
  <2>4. QED
    BY <2>1, <2>3, PledgedKept DEF Edges, Lockable!Next, Lockable!AddOne
<1>2. ASSUME NEW t \in Transition, AddTransition(t) PROVE Lockable!Next
  <2>1. /\ t.from_state < num_states /\ t.to_state < num_states
        /\ transitions' = Append(transitions, t)
        /\ UNCHANGED <<states, num_states, current_state, calls>>
    BY <1>2 DEF AddTransition
  <2>2. t.from_state \in Used /\ t.to_state \in Used
    BY <1>0, <2>1, TransitionEnds, ElementTypes DEF Used
  <2>3. /\ Len(transitions') = Len(transitions) + 1
        /\ \A i \in 1 .. Len(transitions) : transitions'[i] = transitions[i]
        /\ transitions'[Len(transitions) + 1] = t
    BY <1>0, <2>1, AppendProperties DEF TypeOK
  <2>4. Edges' = Edges \cup {<<t.from_state, t.to_state>>}
    BY <1>0, <2>3, ElementTypes DEF Edges
  <2>5. LockedStates' = LockedStates
    BY <2>1 DEF LockedStates, Used
  <2>6. QED
    BY <2>1, <2>2, <2>4, <2>5, PledgedKept DEF Lockable!Next, Lockable!Connect, Used
<1>3. CASE MoveToNewState
  BY <1>3, MoveIsMove DEF Lockable!Next
<1>4. ASSUME NEW s \in Ids, NEW b \in BOOLEAN, SetLock(s, b) PROVE Lockable!Next
  <2>1. /\ s < num_states
        /\ states' = [states EXCEPT ![s].is_locked = b]
        /\ UNCHANGED <<num_states, transitions, current_state, calls>>
    BY <1>4 DEF SetLock
  <2>2. s \in Used
    BY <1>0, <2>1, SizesAssumption, ElementTypes DEF Used, Ids
  <2>3. /\ states'[s].is_locked = b
        /\ \A r \in Ids \ {s} : states'[r] = states[r]
    BY <1>0, <2>1, ElementTypes DEF TypeOK, State
  <2>4. LockedStates' \in {LockedStates \cup {s}, LockedStates \ {s}}
    BY <1>0, <2>1, <2>2, <2>3, ElementTypes DEF LockedStates, Used
  <2>5. QED
    BY <2>1, <2>2, <2>4, PledgedKept DEF Lockable!Next, Lockable!Relock, Edges, Used
<1>5. ASSUME NEW h \in Holders, RestoreStateFromSnapshot(h) PROVE Lockable!Next
  <2>1. PICK copy \in snapshots[h] : states' = [states EXCEPT ![copy.id] = copy]
    BY <1>5 DEF RestoreStateFromSnapshot
  <2>2. UNCHANGED <<num_states, transitions, current_state, calls>>
    BY <1>5 DEF RestoreStateFromSnapshot
  <2>3. copy.id \in Used /\ copy.id \in Ids
    BY <1>0, ElementTypes, SizesAssumption
       DEF IndicesAreOfAddedStates, CopiesAreOfAdded, State, Used, Ids
  <2>4. \A r \in Ids \ {copy.id} : states'[r] = states[r]
    BY <1>0, <2>1, <2>3 DEF TypeOK
  <2>5. LockedStates' \in {LockedStates \cup {copy.id}, LockedStates \ {copy.id}}
    BY <1>0, <2>2, <2>3, <2>4, ElementTypes DEF LockedStates, Used
  <2>6. QED
    BY <2>2, <2>3, <2>5, PledgedKept DEF Lockable!Next, Lockable!Relock, Edges, Used
<1>6. CASE UNCHANGED <<states, num_states, transitions, current_state, calls>>
  BY <1>6, PledgedKept DEF Edges, LockedStates, Used
<1>7. CASE EndExecute
  <2>1. UNCHANGED <<states, num_states, transitions, current_state>>
    BY <1>7 DEF EndExecute
  <2>2. QED
    BY <1>7, <2>1, EndKeepsPledges DEF Edges, LockedStates, Used
<1>8. ASSUME NEW i \in 1 .. Len(transitions), BeginExecute(i) PROVE Lockable!Next
  BY <1>8, BeginIsPledge DEF Lockable!Next
<1>9. QED
  <2>1. \/ UNCHANGED <<states, num_states, transitions, current_state, calls>>
        \/ AddState \/ MoveToNewState \/ EndExecute
        \/ \E i \in 1 .. Len(transitions) : BeginExecute(i)
        \/ \E t \in Transition : AddTransition(t)
        \/ \E s \in Ids, b \in BOOLEAN : SetLock(s, b)
        \/ \E h \in Holders : RestoreStateFromSnapshot(h)
    BY DEF Next, vars, RefuseExecute, LockState, UnlockState,
           VerifyStateIntegrity, CountOne, CreateStateSnapshot, Destroy
  <2>2. QED
    BY <2>1, <1>1, <1>2, <1>3, <1>4, <1>5, <1>6, <1>7, <1>8

\* Whatever API its callbacks call, every operation is a step of the abstract
\* machine or none: execute_transition chooses when it is called and makes
\* that one move later, although its checks may no longer hold by then.
THEOREM Refinement == Spec => ImplementsLockableMachine
<1>1. IInv /\ [Next]_vars => [Lockable!Next]_(Lockable!abstractVars)
  BY RefinementStep
<1>2. QED
  BY <1>1, RefinementInit, InvariantHolds, PTL
     DEF Spec, ImplementsLockableMachine, Lockable!Spec
=============================================================================
