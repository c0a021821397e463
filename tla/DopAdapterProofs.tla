-------------------------- MODULE DopAdapterProofs --------------------------
(***************************************************************************)
(* Proofs about the DOP adapter: first about DopAdapter, for any           *)
(* components, ids and depth of calls, then about DopMemory, for any       *)
(* components, regions, sizes and lists.                                   *)
(*                                                                         *)
(* RegistryOfLive and the legality of transitions hold whatever callbacks  *)
(* do.  That EXECUTING protects a component, and with it the abstract life *)
(* of a component, is proved for every component that no callback of its   *)
(* own leads back to (Tame), whatever those of the others do; for the      *)
(* Reentered ones it is false.                                             *)
(*                                                                         *)
(* The quota and the references of memory are two invariants, independent  *)
(* of each other; the first needs to know what a sum becomes when a region *)
(* enters it or leaves it.                                                 *)
(***************************************************************************)
EXTENDS DopAdapter, DopMemory, SequenceTheorems, FiniteSetTheorems, WellFoundedInduction, TLAPS

IInv ==
    /\ TypeOK
    /\ RegistryOfLive
    /\ ExecutingWhileCalled

-----------------------------------------------------------------------------
\* What unregister leaves of the registry.
LEMMA Shortened ==
    ASSUME registry \in Seq(Handles), NEW n \in 1 .. Len(registry)
    PROVE  /\ RemoveAt(registry, n) \in Seq(Handles)
           /\ Len(RemoveAt(registry, n)) = Len(registry) - 1
           /\ \A k \in 1 .. Len(registry) - 1 :
                RemoveAt(registry, n)[k] = IF k < n THEN registry[k] ELSE registry[k + 1]
<1> DEFINE before == SubSeq(registry, 1, n - 1)
           after == SubSeq(registry, n + 1, Len(registry))
<1>1. before \in Seq(Handles) /\ Len(before) = n - 1 /\ \A k \in 1 .. n - 1 : before[k] = registry[k]
  OBVIOUS
<1>2. /\ after \in Seq(Handles) /\ Len(after) = Len(registry) - n
      /\ \A k \in 1 .. Len(registry) - n : after[k] = registry[k + n]
  OBVIOUS
<1> HIDE DEF before, after
<1>3. /\ before \o after \in Seq(Handles)
      /\ Len(before \o after) = Len(before) + Len(after)
      /\ \A k \in 1 .. Len(before) + Len(after) :
           (before \o after)[k] = IF k <= Len(before) THEN before[k] ELSE after[k - Len(before)]
  BY <1>1, <1>2, ConcatProperties
<1>4. Len(before \o after) = Len(registry) - 1
  BY <1>1, <1>2, <1>3
<1>5. ASSUME NEW k \in 1 .. Len(registry) - 1
      PROVE  (before \o after)[k] = IF k < n THEN registry[k] ELSE registry[k + 1]
  <2>1. CASE k < n
    <3>1. k \in 1 .. Len(before) /\ k \in 1 .. Len(before) + Len(after)
      BY <1>1, <1>2, <2>1
    <3>2. (before \o after)[k] = before[k]
      BY <1>3, <3>1
    <3>3. QED
      BY <1>1, <2>1, <3>1, <3>2
  <2>2. CASE k >= n
    <3>1. k - (n - 1) \in 1 .. Len(registry) - n
      BY <2>2
    <3>2. after[k - (n - 1)] = registry[k + 1]
      BY <1>2, <3>1
    <3>3. (before \o after)[k] = after[k - (n - 1)]
      BY <1>1, <1>2, <1>3, <2>2
    <3>4. QED
      BY <2>2, <3>2, <3>3
  <2>3. Len(registry) \in Nat
    OBVIOUS
  <2>4. k < n \/ k >= n
    BY <2>3
  <2>5. QED
    BY <2>1, <2>2, <2>4
<1>6. RemoveAt(registry, n) = before \o after
  BY DEF RemoveAt, before, after
<1>7. QED
  BY <1>3, <1>4, <1>5, <1>6

\* Pushing and popping an invocation.
LEMMA Pushed ==
    ASSUME calls \in Seq(Handles), NEW h \in Handles
    PROVE  /\ <<h>> \o calls \in Seq(Handles)
           /\ Len(<<h>> \o calls) = Len(calls) + 1
           /\ (<<h>> \o calls)[1] = h
           /\ \A k \in 1 .. Len(calls) : (<<h>> \o calls)[k + 1] = calls[k]
  OBVIOUS

LEMMA Popped ==
    ASSUME calls \in Seq(Handles), calls # <<>>
    PROVE  /\ Tail(calls) \in Seq(Handles) /\ Head(calls) = calls[1] /\ Head(calls) \in Handles
           /\ Len(calls) \in Nat \ {0}
           /\ Len(Tail(calls)) = Len(calls) - 1
           /\ \A k \in 1 .. Len(calls) - 1 : Tail(calls)[k] = calls[k + 1]
  OBVIOUS

\* The matrix, row by row.
LEMMA TargetsAre ==
    /\ Targets["UNINITIALIZED"] = {"INITIALIZING"}
    /\ Targets["INITIALIZING"] = {"READY", "ERROR"}
    /\ Targets["READY"] = {"EXECUTING", "SUSPENDED", "ERROR", "CLEANUP"}
    /\ Targets["EXECUTING"] = {"READY", "ERROR"}
    /\ Targets["SUSPENDED"] = {"READY", "ERROR", "CLEANUP"}
    /\ Targets["ERROR"] = {"READY", "CLEANUP"}
    /\ Targets["CLEANUP"] = {"DESTROYED"}
    /\ Targets["DESTROYED"] = {}
  BY DEF Targets, LifeStates

\* Only these components can be cleaned up, and only these initialized.
LEMMA WhoCanBecome ==
    ASSUME TypeOK, NEW h \in Handles
    PROVE  /\ CanBecome(h, "CLEANUP") => state[h] \in {"READY", "SUSPENDED", "ERROR"}
           /\ CanBecome(h, "INITIALIZING") => state[h] = "UNINITIALIZED"
  BY TargetsAre DEF CanBecome, TypeOK, LifeStates

-----------------------------------------------------------------------------
LEMMA Initially == Init => IInv
<1> SUFFICES ASSUME Init PROVE IInv
  OBVIOUS
<1>1. TypeOK
  BY DepthAssumption DEF Init, TypeOK, LifeStates
<1>2. RegistryOfLive /\ ExecutingWhileCalled
  BY DEF Init, RegistryOfLive, ExecutingWhileCalled, IsCalled, Tame
<1>3. QED
  BY <1>1, <1>2 DEF IInv

\* Most operations move one component that is not executing to a state in
\* which it is allocated, and leave the registry and the calls alone.
LEMMA OneBecomes ==
    ASSUME IInv, NEW h \in Handles,
           NEW new \in {"READY", "EXECUTING", "SUSPENDED", "ERROR"},
           Becomes(h, new), UNCHANGED <<registry, calls, sweep>>,
           h \in Tame => state[h] # "EXECUTING" /\ new # "EXECUTING"
    PROVE  IInv'
<1>0. TypeOK /\ RegistryOfLive
  BY DEF IInv
<1>1. state' = [state EXCEPT ![h] = new] /\ UNCHANGED <<id, up>>
  BY DEF Becomes
<1>2. TypeOK'
  BY <1>0, <1>1 DEF TypeOK, LifeStates
<1>3. RegistryOfLive'
  BY <1>0, <1>1 DEF RegistryOfLive, Allocated, TypeOK
<1>4. ExecutingWhileCalled'
  BY <1>0, <1>1 DEF IInv, ExecutingWhileCalled, IsCalled, TypeOK
<1>5. QED
  BY <1>2, <1>3, <1>4 DEF IInv

LEMMA RegisterStep ==
    ASSUME IInv, NEW h \in Handles, NEW i \in Ids, Register(h, i)
    PROVE  IInv'
<1>0. TypeOK /\ RegistryOfLive
  BY DEF IInv
<1>1. /\ state[h] = "UNINITIALIZED"
      /\ state' = [state EXCEPT ![h] = "READY"]
      /\ id' = [id EXCEPT ![h] = i]
      /\ registry' = Append(registry, h)
      /\ UNCHANGED <<calls, sweep, up>>
      /\ \A n \in 1 .. Len(registry) : id[registry[n]] # i
  BY DEF Register
<1>2. TypeOK'
  BY <1>0, <1>1 DEF TypeOK, LifeStates
<1>3. /\ Len(registry') = Len(registry) + 1 /\ Len(registry) \in Nat
      /\ registry'[Len(registry) + 1] = h
      /\ \A n \in 1 .. Len(registry) : registry'[n] = registry[n] /\ registry[n] \in Handles
  BY <1>0, <1>1 DEF TypeOK
<1>4. \A n \in 1 .. Len(registry) : registry[n] # h
  BY <1>0, <1>1 DEF RegistryOfLive, Allocated
<1>5. RegistryOfLive'
  <2>1. \A n \in 1 .. Len(registry') : Allocated(registry[n])' /\ registry'[n] \in Handles
    BY <1>0, <1>1, <1>3, <1>4 DEF RegistryOfLive, Allocated, TypeOK
  <2>2. ASSUME NEW m \in 1 .. Len(registry'), NEW n \in 1 .. Len(registry'), m # n
        PROVE  registry'[m] # registry'[n] /\ id'[registry'[m]] # id'[registry'[n]]
    <3>1. CASE m <= Len(registry) /\ n <= Len(registry)
      BY <1>0, <1>1, <1>3, <1>4, <2>2, <3>1 DEF RegistryOfLive, TypeOK
    <3>2. CASE m = Len(registry) + 1 /\ n <= Len(registry)
      BY <1>0, <1>1, <1>3, <1>4, <2>2, <3>2 DEF TypeOK
    <3>3. CASE n = Len(registry) + 1 /\ m <= Len(registry)
      BY <1>0, <1>1, <1>3, <1>4, <2>2, <3>3 DEF TypeOK
    <3>4. QED
      BY <1>3, <2>2, <3>1, <3>2, <3>3
  <2>3. QED
    BY <2>1, <2>2 DEF RegistryOfLive, Allocated
<1>6. ExecutingWhileCalled'
  BY <1>0, <1>1 DEF IInv, ExecutingWhileCalled, IsCalled, TypeOK
<1>7. QED
  BY <1>2, <1>5, <1>6 DEF IInv

LEMMA UnregisterStep ==
    ASSUME IInv, NEW h \in Handles, Unregister(h), UNCHANGED calls, sweep' \in Nat
    PROVE  IInv'
<1>0. TypeOK /\ RegistryOfLive
  BY DEF IInv
<1>1. PICK n \in 1 .. Len(registry) : registry[n] = h /\ registry' = RemoveAt(registry, n)
  BY <1>0 DEF Unregister, TypeOK
<1>2. /\ state[h] \in {"READY", "SUSPENDED", "ERROR"}
      /\ state' = [state EXCEPT ![h] = "DESTROYED"]
      /\ UNCHANGED <<id, up>>
  BY <1>0, WhoCanBecome DEF Unregister, Becomes
<1>3. /\ registry' \in Seq(Handles)
      /\ Len(registry') = Len(registry) - 1 /\ Len(registry) \in Nat
      /\ \A k \in 1 .. Len(registry') :
           registry'[k] = IF k < n THEN registry[k] ELSE registry[k + 1]
  <2>1. registry \in Seq(Handles)
    BY <1>0 DEF TypeOK
  <2>2. Len(registry) \in Nat
    BY <2>1
  <2>3. /\ RemoveAt(registry, n) \in Seq(Handles)
        /\ Len(RemoveAt(registry, n)) = Len(registry) - 1
        /\ \A k \in 1 .. Len(registry) - 1 :
             RemoveAt(registry, n)[k] = IF k < n THEN registry[k] ELSE registry[k + 1]
    BY <2>1, Shortened
  <2>4. registry' = RemoveAt(registry, n)
    BY <1>1
  <2>5. QED
    BY <2>2, <2>3, <2>4, Zenon
<1>4. TypeOK'
  BY <1>0, <1>2, <1>3 DEF TypeOK, LifeStates
<1>5. ASSUME NEW k \in 1 .. Len(registry')
      PROVE  \E l \in 1 .. Len(registry) :
               /\ l # n /\ registry'[k] = registry[l]
               /\ l = IF k < n THEN k ELSE k + 1
  BY <1>3
<1>6. RegistryOfLive'
  <2>1. ASSUME NEW k \in 1 .. Len(registry') PROVE Allocated(registry[k])'
    <3>1. PICK l \in 1 .. Len(registry) : l # n /\ registry'[k] = registry[l]
      BY <1>5
    <3>2. registry[l] # h /\ registry[l] \in Handles /\ Allocated(registry[l])
      BY <1>0, <1>1, <3>1 DEF RegistryOfLive, TypeOK
    <3>3. QED
      BY <1>0, <1>2, <3>1, <3>2 DEF Allocated, TypeOK
  <2>2. ASSUME NEW j \in 1 .. Len(registry'), NEW k \in 1 .. Len(registry'), j # k
        PROVE  registry'[j] # registry'[k] /\ id'[registry'[j]] # id'[registry'[k]]
    <3>1. PICK l \in 1 .. Len(registry) :
            registry'[j] = registry[l] /\ l = IF j < n THEN j ELSE j + 1
      BY <1>5
    <3>2. PICK m \in 1 .. Len(registry) :
            registry'[k] = registry[m] /\ m = IF k < n THEN k ELSE k + 1
      BY <1>5
    <3>3. l # m
      BY <1>3, <2>2, <3>1, <3>2
    <3>4. QED
      BY <1>0, <1>2, <3>1, <3>2, <3>3 DEF RegistryOfLive
  <2>3. QED
    BY <2>1, <2>2 DEF RegistryOfLive, Allocated
<1>7. ExecutingWhileCalled'
  BY <1>0, <1>2 DEF IInv, ExecutingWhileCalled, IsCalled, TypeOK
<1>8. QED
  BY <1>4, <1>6, <1>7 DEF IInv

LEMMA BeginInvokeStep ==
    ASSUME IInv, NEW h \in Handles, BeginInvoke(h)
    PROVE  IInv'
<1>0. TypeOK /\ RegistryOfLive
  BY DEF IInv
<1>1. /\ state[h] = "READY"
      /\ state' = [state EXCEPT ![h] = "EXECUTING"]
      /\ calls' = <<h>> \o calls
      /\ UNCHANGED <<id, registry, sweep, up>>
  BY DEF BeginInvoke, Becomes
<1>2. /\ calls' \in Seq(Handles) /\ Len(calls') = Len(calls) + 1 /\ Len(calls) \in Nat
      /\ calls'[1] = h
      /\ \A k \in 1 .. Len(calls) : calls'[k + 1] = calls[k]
  BY <1>0, <1>1, Pushed DEF TypeOK
<1>3. TypeOK'
  BY <1>0, <1>1, <1>2 DEF TypeOK, LifeStates
<1>4. RegistryOfLive'
  BY <1>0, <1>1 DEF RegistryOfLive, Allocated, TypeOK
<1>5. ExecutingWhileCalled'
  <2>1. h \in Tame => \A k \in 1 .. Len(calls) : calls[k] # h
    BY <1>1 DEF IInv, ExecutingWhileCalled, IsCalled
  <2>2. \A k \in 1 .. Len(calls') : k = 1 \/ (k - 1 \in 1 .. Len(calls) /\ calls'[k] = calls[k - 1])
    BY <1>2
  <2>3. \A g \in Handles : IsCalled(g)' <=> g = h \/ IsCalled(g)
    <3>1. ASSUME NEW g \in Handles, NEW k \in 1 .. Len(calls'), calls'[k] = g
          PROVE  g = h \/ IsCalled(g)
      BY <1>2, <2>2, <3>1 DEF IsCalled
    <3>2. ASSUME NEW g \in Handles, NEW k \in 1 .. Len(calls), calls[k] = g
          PROVE  k + 1 \in 1 .. Len(calls') /\ calls'[k + 1] = g
      BY <1>2, <3>2
    <3>3. 1 \in 1 .. Len(calls') /\ calls'[1] = h
      BY <1>2
    <3>4. ASSUME NEW g \in Handles PROVE IsCalled(g)' => g = h \/ IsCalled(g)
      BY <3>1 DEF IsCalled
    <3>5. ASSUME NEW g \in Handles PROVE g = h \/ IsCalled(g) => IsCalled(g)'
      BY <3>2, <3>3 DEF IsCalled
    <3>6. QED
      BY <3>4, <3>5
  <2>4. \A g \in Handles : state'[g] = "EXECUTING" <=> g = h \/ state[g] = "EXECUTING"
    BY <1>0, <1>1 DEF TypeOK
  <2>5. ASSUME NEW m \in 1 .. Len(calls'), NEW n \in 1 .. Len(calls'), calls'[m] = calls'[n],
               calls'[m] \in Tame
        PROVE  m = n
    <3>1. m \in Int /\ n \in Int
      BY <1>2
    <3>2. CASE m = 1 \/ n = 1
      BY <1>2, <2>1, <2>2, <2>5, <3>2
    <3>3. CASE m # 1 /\ n # 1
      <4>1. /\ m - 1 \in 1 .. Len(calls) /\ n - 1 \in 1 .. Len(calls)
            /\ calls[m - 1] = calls[n - 1] /\ calls[m - 1] \in Tame
        BY <2>2, <2>5, <3>3
      <4>2. m - 1 = n - 1
        BY <4>1 DEF IInv, ExecutingWhileCalled
      <4>3. QED
        BY <3>1, <4>2
    <3>4. QED
      BY <3>2, <3>3
  <2>6. QED
    BY <2>3, <2>4, <2>5 DEF IInv, ExecutingWhileCalled, Tame
<1>6. QED
  BY <1>3, <1>4, <1>5 DEF IInv

\* Who is still called when the innermost call has ended.
LEMMA StillCalled ==
    ASSUME TypeOK, ExecutingWhileCalled, calls # <<>>, calls' = Tail(calls)
    PROVE  /\ \A g \in Tame : IsCalled(g)' <=> g # Head(calls) /\ IsCalled(g)
           /\ \A m, n \in 1 .. Len(calls') :
                calls'[m] = calls'[n] /\ calls'[m] \in Tame => m = n
<1>1. /\ Head(calls) = calls[1] /\ Len(calls) \in Nat \ {0}
      /\ Len(calls') = Len(calls) - 1
      /\ \A k \in 1 .. Len(calls') : calls'[k] = calls[k + 1]
  BY Popped DEF TypeOK
<1>2. \A k \in 1 .. Len(calls) : k = 1 \/ (k - 1 \in 1 .. Len(calls') /\ calls'[k - 1] = calls[k])
  BY <1>1
<1>3. \A g \in Tame : IsCalled(g)' => g # Head(calls) /\ IsCalled(g)
  BY <1>1 DEF IsCalled, ExecutingWhileCalled
<1>4. \A g \in Tame : g # Head(calls) /\ IsCalled(g) => IsCalled(g)'
  BY <1>1, <1>2 DEF IsCalled
<1>5. \A m, n \in 1 .. Len(calls') : calls'[m] = calls'[n] /\ calls'[m] \in Tame => m = n
  BY <1>1 DEF ExecutingWhileCalled
<1>6. QED
  BY <1>3, <1>4, <1>5

LEMMA EndInvokeStep == ASSUME IInv, EndInvoke PROVE IInv'
<1>0. TypeOK /\ RegistryOfLive
  BY DEF IInv
<1>1. Head(calls) \in Handles /\ calls' \in Seq(Handles)
  BY <1>0, Popped DEF EndInvoke, TypeOK
<1>2. \/ /\ state[Head(calls)] = "EXECUTING"
         /\ \E outcome \in {"READY", "ERROR"} : state' = [state EXCEPT ![Head(calls)] = outcome]
      \/ state[Head(calls)] # "EXECUTING" /\ state' = state
  BY DEF EndInvoke, Becomes
<1>3. UNCHANGED <<id, registry, sweep, up>> /\ calls # <<>> /\ calls' = Tail(calls)
  BY DEF EndInvoke, Becomes
<1>4. TypeOK'
  BY <1>0, <1>1, <1>2, <1>3 DEF TypeOK, LifeStates
<1>5. RegistryOfLive'
  BY <1>0, <1>1, <1>2, <1>3 DEF RegistryOfLive, Allocated, TypeOK
<1>6. ExecutingWhileCalled'
  <2>1. ExecutingWhileCalled
    BY DEF IInv
  <2>2. IsCalled(Head(calls))
    BY <1>0, <1>3, Popped DEF IsCalled, TypeOK
  <2>3. \A g \in Tame : state'[g] = "EXECUTING" <=> g # Head(calls) /\ state[g] = "EXECUTING"
    BY <1>0, <1>1, <1>2, <2>1, <2>2 DEF ExecutingWhileCalled, TypeOK, Tame
  <2>4. QED
    BY <1>0, <1>3, <2>1, <2>3, StillCalled DEF ExecutingWhileCalled
<1>7. QED
  BY <1>4, <1>5, <1>6 DEF IInv

-----------------------------------------------------------------------------
\* The loop of cleanup, between two components, touches none of them.
LEMMA OnlySweeping ==
    ASSUME IInv, UNCHANGED <<state, id, registry, calls>>, sweep' \in Nat, up' \in BOOLEAN
    PROVE  IInv'
<1>1. TypeOK'
  BY DEF IInv, TypeOK
<1>2. RegistryOfLive'
  BY DEF IInv, RegistryOfLive, Allocated
<1>3. ExecutingWhileCalled'
  BY DEF IInv, ExecutingWhileCalled, IsCalled
<1>4. QED
  BY <1>1, <1>2, <1>3 DEF IInv

LEMMA InvariantStep == IInv /\ [Next]_vars => IInv'
<1> SUFFICES ASSUME IInv, [Next]_vars PROVE IInv'
  OBVIOUS
<1>0. TypeOK /\ RegistryOfLive
  BY DEF IInv
<1>1. CASE UNCHANGED vars
  <2>1. sweep' \in Nat /\ up' \in BOOLEAN /\ UNCHANGED <<state, id, registry, calls>>
    BY <1>0, <1>1 DEF vars, TypeOK
  <2>2. QED
    BY <2>1, OnlySweeping
<1>2. ASSUME NEW h \in Handles, NEW i \in Ids, Register(h, i) PROVE IInv'
  BY <1>2, RegisterStep
<1>3. ASSUME NEW h \in Handles, Initialize(h) PROVE IInv'
  <2>1. state[h] = "UNINITIALIZED"
    BY <1>0, <1>3, WhoCanBecome DEF Initialize
  <2>2. QED
    BY <1>3, <2>1, OneBecomes DEF Initialize
<1>4. ASSUME NEW h \in Handles, UnregisterByCaller(h) PROVE IInv'
  <2>1. sweep' \in Nat /\ UNCHANGED calls /\ Unregister(h)
    BY <1>0, <1>4 DEF UnregisterByCaller, TypeOK
  <2>2. QED
    BY <2>1, UnregisterStep
<1>5. ASSUME NEW h \in Handles, BeginInvoke(h) PROVE IInv'
  BY <1>5, BeginInvokeStep
<1>6. ASSUME NEW h \in Handles, RejectInvoke(h) PROVE IInv'
  BY <1>6, OneBecomes DEF RejectInvoke
<1>7. ASSUME NEW h \in Handles, RefuseInvoke(h) PROVE IInv'
  BY <1>7, OneBecomes DEF RefuseInvoke, Tame
<1>8. ASSUME NEW h \in Handles, Suspend(h) PROVE IInv'
  BY <1>8, OneBecomes DEF Suspend
<1>9. ASSUME NEW h \in Handles, Resume(h) PROVE IInv'
  BY <1>9, OneBecomes DEF Resume
<1>10. ASSUME NEW h \in Handles, Reset(h) PROVE IInv'
  BY <1>10, OneBecomes DEF Reset
<1>11. CASE EndInvoke
  BY <1>11, EndInvokeStep
<1>12. CASE BeginCleanup
  <2>1. sweep' \in Nat /\ up' \in BOOLEAN /\ UNCHANGED <<state, id, registry, calls>>
    BY <1>0, <1>12 DEF BeginCleanup, TypeOK
  <2>2. QED
    BY <2>1, OnlySweeping
<1>13. CASE SweepOne
  <2>1. registry[sweep] \in Handles /\ sweep' \in Nat /\ UNCHANGED calls
    BY <1>0, <1>13 DEF SweepOne, TypeOK
  <2>2. QED
    BY <1>13, <2>1, UnregisterStep DEF SweepOne
<1>14. CASE EndCleanup
  <2>1. sweep' \in Nat /\ up' \in BOOLEAN /\ UNCHANGED <<state, id, registry, calls>>
    BY <1>0, <1>14 DEF EndCleanup, TypeOK
  <2>2. QED
    BY <2>1, OnlySweeping
<1>15. QED
  BY <1>1, <1>2, <1>3, <1>4, <1>5, <1>6, <1>7, <1>8, <1>9, <1>10, <1>11, <1>12, <1>13, <1>14
     DEF Next

\* The inductive invariant holds in every state.
THEOREM InvariantHolds == Spec => []IInv
  BY Initially, InvariantStep, PTL DEF Spec

-----------------------------------------------------------------------------
\* Between two calls no component is INITIALIZING or in CLEANUP.
THEOREM TypeCorrect == Spec => []TypeOK
<1>1. IInv => TypeOK
  BY DEF IInv
<1>2. QED
  BY <1>1, InvariantHolds, PTL

\* find and unregister may stop at the first match: the registry holds only
\* components that were not freed, each once and under an id of its own,
\* whatever callbacks do.
THEOREM RegistryIsOfLive == Spec => []RegistryOfLive
<1>1. IInv => RegistryOfLive
  BY DEF IInv
<1>2. QED
  BY <1>1, InvariantHolds, PTL

\* EXECUTING is the lock of every component that no callback of its own
\* leads back to.
THEOREM ExecutingProtects == Spec => []ExecutingWhileCalled
<1>1. IInv => ExecutingWhileCalled
  BY DEF IInv
<1>2. QED
  BY <1>1, InvariantHolds, PTL

-----------------------------------------------------------------------------
(***************************************************************************)
(* Nobody is left EXECUTING, the reentered components included: whatever   *)
(* refused calls and resets have written, an end of an invocation leaves   *)
(* its component in another state, and only a beginning, which is followed *)
(* by an end, leads to EXECUTING.  So the loop of cleanup is refused by    *)
(* nobody it comes to.                                                     *)
(***************************************************************************)
LEMMA OneStops ==
    ASSUME TypeOK, NobodyLeftExecuting, NEW h \in Handles, NEW new, new # "EXECUTING",
           state' = [state EXCEPT ![h] = new], UNCHANGED calls
    PROVE  NobodyLeftExecuting'
<1>1. \A g \in Handles : state'[g] = IF g = h THEN new ELSE state[g]
  BY DEF TypeOK
<1>2. \A g \in Handles : IsCalled(g)' <=> IsCalled(g)
  BY DEF IsCalled
<1>3. QED
  BY <1>1, <1>2 DEF NobodyLeftExecuting

LEMMA NobodyLeftBegins ==
    ASSUME TypeOK, NobodyLeftExecuting, NEW h \in Handles, BeginInvoke(h)
    PROVE  NobodyLeftExecuting'
<1>1. state' = [state EXCEPT ![h] = "EXECUTING"] /\ calls' = <<h>> \o calls
  BY DEF BeginInvoke, Becomes
<1>2. /\ Len(calls') = Len(calls) + 1 /\ Len(calls) \in Nat
      /\ calls'[1] = h
      /\ \A k \in 1 .. Len(calls) : calls'[k + 1] = calls[k]
  BY <1>1, Pushed DEF TypeOK
<1>3. IsCalled(h)'
  <2>1. 1 \in 1 .. Len(calls')
    BY <1>2
  <2>2. QED
    BY <1>2, <2>1 DEF IsCalled
<1>4. ASSUME NEW g \in Handles, IsCalled(g) PROVE IsCalled(g)'
  <2>1. PICK k \in 1 .. Len(calls) : calls[k] = g
    BY <1>4 DEF IsCalled
  <2>2. k + 1 \in 1 .. Len(calls') /\ calls'[k + 1] = g
    BY <1>2, <2>1
  <2>3. QED
    BY <2>2 DEF IsCalled
<1>5. \A g \in Handles : g # h => state'[g] = state[g]
  BY <1>1 DEF TypeOK
<1>6. QED
  BY <1>3, <1>4, <1>5 DEF NobodyLeftExecuting

LEMMA NobodyLeftEnds ==
    ASSUME TypeOK, NobodyLeftExecuting, EndInvoke
    PROVE  NobodyLeftExecuting'
<1>1. calls # <<>> /\ calls' = Tail(calls)
  BY DEF EndInvoke
<1>2. /\ Head(calls) = calls[1] /\ Head(calls) \in Handles /\ Len(calls) \in Nat \ {0}
      /\ Len(calls') = Len(calls) - 1
      /\ \A k \in 1 .. Len(calls) - 1 : calls'[k] = calls[k + 1]
  BY <1>1, Popped DEF TypeOK
<1>3. ASSUME NEW g \in Handles, g # Head(calls), IsCalled(g) PROVE IsCalled(g)'
  <2>1. PICK k \in 1 .. Len(calls) : calls[k] = g
    BY <1>3 DEF IsCalled
  <2>2. k # 1
    BY <1>2, <1>3, <2>1
  <2>3. k - 1 \in 1 .. Len(calls') /\ k - 1 \in 1 .. Len(calls) - 1 /\ (k - 1) + 1 = k
    BY <1>2, <2>1, <2>2
  <2>4. calls'[k - 1] = calls[k]
    BY <1>2, <2>3
  <2>5. QED
    BY <2>1, <2>3, <2>4 DEF IsCalled
<1>4. /\ state'[Head(calls)] # "EXECUTING"
      /\ \A g \in Handles : g # Head(calls) => state'[g] = state[g]
  <2>1. CASE \E outcome \in {"READY", "ERROR"} : state' = [state EXCEPT ![Head(calls)] = outcome]
    BY <1>2, <2>1 DEF TypeOK
  <2>2. CASE state[Head(calls)] # "EXECUTING" /\ state' = state
    BY <2>2
  <2>3. QED
    BY <2>1, <2>2 DEF EndInvoke, Becomes
<1>5. QED
  BY <1>3, <1>4 DEF NobodyLeftExecuting

LEMMA NobodyLeftStep ==
    ASSUME TypeOK, NobodyLeftExecuting, [Next]_vars
    PROVE  NobodyLeftExecuting'
<1>1. ASSUME UNCHANGED <<state, calls>> PROVE NobodyLeftExecuting'
  BY <1>1 DEF NobodyLeftExecuting, IsCalled
<1>2. ASSUME NEW h \in Handles, NEW i \in Ids, Register(h, i) PROVE NobodyLeftExecuting'
  BY <1>2, OneStops DEF Register
<1>3. ASSUME NEW h \in Handles, Initialize(h) PROVE NobodyLeftExecuting'
  BY <1>3, OneStops DEF Initialize, Becomes
<1>4. ASSUME NEW h \in Handles, Unregister(h), UNCHANGED calls PROVE NobodyLeftExecuting'
  BY <1>4, OneStops DEF Unregister, Becomes
<1>5. ASSUME NEW h \in Handles, BeginInvoke(h) PROVE NobodyLeftExecuting'
  BY <1>5, NobodyLeftBegins
<1>6. ASSUME NEW h \in Handles, RejectInvoke(h) \/ RefuseInvoke(h) PROVE NobodyLeftExecuting'
  BY <1>6, OneStops DEF RejectInvoke, RefuseInvoke, Becomes
<1>7. ASSUME NEW h \in Handles, Suspend(h) \/ Resume(h) \/ Reset(h) PROVE NobodyLeftExecuting'
  BY <1>7, OneStops DEF Suspend, Resume, Reset, Becomes
<1>8. CASE EndInvoke
  BY <1>8, NobodyLeftEnds
<1>9. CASE SweepOne
  <2>1. registry[sweep] \in Handles /\ Unregister(registry[sweep]) /\ UNCHANGED calls
    BY <1>9 DEF SweepOne, TypeOK
  <2>2. QED
    BY <1>4, <2>1
<1>10. CASE BeginCleanup \/ EndCleanup \/ UNCHANGED vars
  BY <1>1, <1>10 DEF BeginCleanup, EndCleanup, vars
<1>11. QED
  BY <1>2, <1>3, <1>4, <1>5, <1>6, <1>7, <1>8, <1>9, <1>10 DEF Next, UnregisterByCaller

\* No component is stuck EXECUTING, where neither reset nor unregister takes
\* it, when none of its invocations is open any more.
THEOREM NobodyStuck == Spec => []NobodyLeftExecuting
<1>1. Init => NobodyLeftExecuting
  BY DEF Init, NobodyLeftExecuting
<1>2. TypeOK /\ NobodyLeftExecuting /\ [Next]_vars => NobodyLeftExecuting'
  BY NobodyLeftStep
<1>3. QED
  BY <1>1, <1>2, TypeCorrect, PTL DEF Spec

\* While adapter_cleanup runs, no callback does.
SweepsAlone == sweep # 0 => calls = <<>>

\* The component that its loop has come to can be unregistered.
SweepIsAccepted == sweep \in 1 .. Len(registry) => CanBecome(registry[sweep], "CLEANUP")

\* adapter_cleanup is refused by no component it comes to, whatever state the
\* calls before have left it in: those it leaves are those it skips.
THEOREM CleanupRefusedByNone == Spec => []SweepIsAccepted
<1>1. Init => SweepsAlone
  BY DEF Init, SweepsAlone
<1>2. SweepsAlone /\ [Next]_vars => SweepsAlone'
  <2> SUFFICES ASSUME SweepsAlone, [Next]_vars PROVE SweepsAlone'
    OBVIOUS
  <2>1. ASSUME UNCHANGED <<sweep, calls>> PROVE SweepsAlone'
    BY <2>1 DEF SweepsAlone
  <2>2. ASSUME sweep' = 0 PROVE SweepsAlone'
    BY <2>2 DEF SweepsAlone
  <2>3. ASSUME NEW h \in Handles, NEW i \in Ids, Register(h, i) PROVE SweepsAlone'
    BY <2>1, <2>3 DEF Register
  <2>4. ASSUME NEW h \in Handles,
               \/ Initialize(h) \/ UnregisterByCaller(h) \/ RejectInvoke(h) \/ RefuseInvoke(h)
               \/ Suspend(h) \/ Resume(h) \/ Reset(h)
        PROVE  SweepsAlone'
    BY <2>1, <2>4 DEF Initialize, UnregisterByCaller, RejectInvoke, RefuseInvoke, Suspend,
                      Resume, Reset
  <2>5. ASSUME NEW h \in Handles, BeginInvoke(h) PROVE SweepsAlone'
    BY <2>2, <2>5 DEF BeginInvoke, Callable
  <2>6. CASE EndInvoke
    <3>1. sweep = 0 /\ sweep' = sweep
      BY <2>6 DEF EndInvoke, SweepsAlone
    <3>2. QED
      BY <2>2, <3>1
  <2>7. CASE BeginCleanup
    BY <2>7 DEF BeginCleanup, SweepsAlone
  <2>8. CASE SweepOne
    BY <2>8 DEF SweepOne, SweepsAlone
  <2>9. CASE EndCleanup \/ UNCHANGED vars
    BY <2>1, <2>9 DEF EndCleanup, vars
  <2>10. QED
    BY <2>3, <2>4, <2>5, <2>6, <2>7, <2>8, <2>9 DEF Next
<1>3. TypeOK /\ RegistryOfLive /\ NobodyLeftExecuting /\ SweepsAlone => SweepIsAccepted
  <2> SUFFICES ASSUME TypeOK, RegistryOfLive, NobodyLeftExecuting, SweepsAlone,
                      sweep \in 1 .. Len(registry)
               PROVE  CanBecome(registry[sweep], "CLEANUP")
    BY DEF SweepIsAccepted
  <2> DEFINE h == registry[sweep]
  <2>1. h \in Handles /\ Allocated(h)
    BY DEF TypeOK, RegistryOfLive
  <2>2. ~IsCalled(h)
    <3>1. Len(calls) = 0
      BY DEF SweepsAlone
    <3>2. QED
      BY <3>1 DEF IsCalled
  <2> HIDE DEF h
  <2>3. state[h] \in {"READY", "SUSPENDED", "ERROR"}
    BY <2>1, <2>2 DEF NobodyLeftExecuting, Allocated, TypeOK, LifeStates
  <2>4. CanBecome(h, "CLEANUP")
    BY <2>3, TargetsAre DEF CanBecome
  <2>5. QED
    BY <2>4 DEF h
<1>4. QED
  BY <1>1, <1>2, <1>3, TypeCorrect, RegistryIsOfLive, NobodyStuck, PTL DEF Spec

-----------------------------------------------------------------------------
\* One component moves, the others stay.
LEMMA OthersStay ==
    ASSUME TypeOK, NEW h \in Handles, NEW new, state' = [state EXCEPT ![h] = new],
           \/ new = state[h]
           \/ new \in Targets[state[h]]
           \/ \E mid \in Targets[state[h]] \cap {"INITIALIZING", "CLEANUP", "EXECUTING"} :
                 new \in Targets[mid]
    PROVE  LegalStep
<1>1. state'[h] = new /\ \A g \in Handles : g # h => state'[g] = state[g]
  BY DEF TypeOK
<1>2. QED
  BY <1>1 DEF LegalStep

LEMMA StepIsLegal == IInv /\ [Next]_vars => LegalStep
<1> SUFFICES ASSUME IInv, [Next]_vars PROVE LegalStep
  OBVIOUS
<1>0. TypeOK
  BY DEF IInv
<1>1. CASE UNCHANGED state
  BY <1>1 DEF LegalStep
<1>2. ASSUME NEW h \in Handles, NEW i \in Ids, Register(h, i) PROVE LegalStep
  BY <1>0, <1>2, OthersStay, TargetsAre DEF Register
<1>3. ASSUME NEW h \in Handles, Initialize(h) PROVE LegalStep
  <2>1. PICK outcome \in {"READY", "ERROR"} : state' = [state EXCEPT ![h] = outcome]
    BY <1>3 DEF Initialize, Becomes
  <2>2. state[h] = "UNINITIALIZED"
    BY <1>0, <1>3, WhoCanBecome DEF Initialize
  <2>3. QED
    BY <1>0, <2>1, <2>2, OthersStay, TargetsAre
<1>4. ASSUME NEW h \in Handles, Unregister(h) PROVE LegalStep
  <2>1. state' = [state EXCEPT ![h] = "DESTROYED"] /\ "CLEANUP" \in Targets[state[h]]
    BY <1>4 DEF Unregister, Becomes, CanBecome
  <2>2. QED
    BY <1>0, <2>1, OthersStay, TargetsAre
<1>5. ASSUME NEW h \in Handles, BeginInvoke(h) PROVE LegalStep
  BY <1>0, <1>5, OthersStay, TargetsAre DEF BeginInvoke, Becomes
<1>6. ASSUME NEW h \in Handles, RejectInvoke(h) PROVE LegalStep
  BY <1>0, <1>6, OthersStay, TargetsAre DEF RejectInvoke, Becomes
<1>7. ASSUME NEW h \in Handles, RefuseInvoke(h) PROVE LegalStep
  BY <1>0, <1>7, OthersStay, TargetsAre DEF RefuseInvoke, Becomes
<1>8. ASSUME NEW h \in Handles, Suspend(h) PROVE LegalStep
  BY <1>0, <1>8, OthersStay, TargetsAre DEF Suspend, Becomes
<1>9. ASSUME NEW h \in Handles, Resume(h) PROVE LegalStep
  BY <1>0, <1>9, OthersStay, TargetsAre DEF Resume, Becomes
<1>10. ASSUME NEW h \in Handles, Reset(h) PROVE LegalStep
  BY <1>0, <1>10, OthersStay, TargetsAre DEF Reset, Becomes
<1>11. CASE EndInvoke
  <2>1. Head(calls) \in Handles
    BY <1>0, <1>11, Popped DEF EndInvoke, TypeOK
  <2>2. CASE UNCHANGED state
    BY <1>1, <2>2
  <2>3. CASE /\ state[Head(calls)] = "EXECUTING"
             /\ \E outcome \in {"READY", "ERROR"} : Becomes(Head(calls), outcome)
    <3> DEFINE h == Head(calls)
    <3>1. PICK outcome \in {"READY", "ERROR"} : state' = [state EXCEPT ![h] = outcome]
      BY <2>3 DEF Becomes
    <3>2. outcome \in Targets[state[h]]
      BY <2>3, TargetsAre
    <3> HIDE DEF h
    <3>3. QED
      BY <1>0, <2>1, <3>1, <3>2, OthersStay DEF h
  <2>4. QED
    BY <1>11, <2>2, <2>3 DEF EndInvoke
<1>12. CASE SweepOne
  <2>1. registry[sweep] \in Handles /\ Unregister(registry[sweep])
    BY <1>0, <1>12 DEF SweepOne, TypeOK
  <2>2. QED
    BY <1>4, <2>1
<1>13. CASE BeginCleanup \/ EndCleanup \/ UNCHANGED vars
  BY <1>1, <1>13 DEF BeginCleanup, EndCleanup, vars
<1>14. ASSUME NEW h \in Handles, UnregisterByCaller(h) PROVE LegalStep
  BY <1>4, <1>14 DEF UnregisterByCaller
<1>15. QED
  BY <1>2, <1>3, <1>5, <1>6, <1>7, <1>8, <1>9, <1>10, <1>11, <1>12, <1>13, <1>14 DEF Next

\* A component moves along LIFECYCLE_TRANSITION_MATRIX, whatever callbacks do.
THEOREM TransitionsLegal == Spec => TransitionsAreLegal
<1>1. IInv /\ [Next]_vars => [LegalStep]_vars
  BY StepIsLegal
<1>2. QED
  BY <1>1, InvariantHolds, PTL DEF Spec, TransitionsAreLegal

-----------------------------------------------------------------------------
\* The components a ComponentLife sees running.
Running == {h \in Tame : IsCalled(h)}

LEMMA RunningExecute ==
    ASSUME IInv, IInv'
    PROVE  /\ Running = {g \in Tame : state[g] = "EXECUTING"}
           /\ Running' = {g \in Tame : state'[g] = "EXECUTING"}
  BY DEF Running, IInv, ExecutingWhileCalled

\* What a change of one component does to the set of those running.
LEMMA RunningAfter ==
    ASSUME IInv, IInv', NEW h \in Tame, NEW new,
           state' = [state EXCEPT ![h] = new]
    PROVE  /\ h \in Running <=> state[h] = "EXECUTING"
           /\ new = "EXECUTING" => Running' = Running \cup {h}
           /\ new # "EXECUTING" => Running' = Running \ {h}
<1>1. state'[h] = new /\ \A g \in Tame : g # h => state'[g] = state[g]
  BY DEF IInv, TypeOK, Tame
<1>2. QED
  BY <1>1, RunningExecute

\* What it does to the lives of the components that are not reentered.
LEMMA LifeAfter ==
    ASSUME IInv, NEW h \in Tame, NEW new, state' = [state EXCEPT ![h] = new]
    PROVE  /\ [g \in Tame |-> state[g]][h] = state[h]
           /\ [g \in Tame |-> state'[g]] = [[g \in Tame |-> state[g]] EXCEPT ![h] = new]
  BY DEF IInv, TypeOK, Tame

\* Where the components that are not reentered stay, nothing of the abstract
\* system changes: the others are no part of it.
LEMMA NothingSeen ==
    ASSUME IInv, IInv', \A g \in Tame : state'[g] = state[g]
    PROVE  UNCHANGED Life!lifeVars
<1>1. Running' = Running
  BY RunningExecute
<1>2. [g \in Tame |-> state[g]]' = [g \in Tame |-> state[g]]
  OBVIOUS
<1>3. QED
  BY <1>1, <1>2 DEF Life!lifeVars, Running

LEMMA ReenteredUnseen ==
    ASSUME IInv, IInv', NEW h \in Handles, h \notin Tame, NEW new,
           state' = [state EXCEPT ![h] = new]
    PROVE  UNCHANGED Life!lifeVars
<1>1. \A g \in Tame : state'[g] = state[g]
  BY DEF IInv, TypeOK, Tame
<1>2. QED
  BY <1>1, NothingSeen

\* A component that is not running makes a step of its life and does not run.
LEMMA QuietLife ==
    ASSUME IInv, IInv', NEW h \in Handles, NEW new,
           state' = [state EXCEPT ![h] = new],
           \/ state[h] = "UNINITIALIZED" /\ new \in {"READY", "ERROR"}
           \/ state[h] = "READY" /\ new \in {"ERROR", "SUSPENDED", "DESTROYED"}
           \/ state[h] = "SUSPENDED" /\ new \in {"READY", "DESTROYED"}
           \/ state[h] = "ERROR" /\ new \in {"READY", "DESTROYED"}
    PROVE  [Life!Next]_Life!lifeVars
<1>1. CASE h \in Tame
  <2>1. h \notin Running /\ Running' = Running
    BY <1>1, RunningAfter
  <2>2. \/ Life!Create(h) \/ Life!Refuse(h) \/ Life!Hold(h) \/ Life!Recover(h) \/ Life!Release(h)
    BY <1>1, LifeAfter
       DEF Life!Create, Life!Refuse, Life!Hold, Life!Recover, Life!Release, Life!Become
  <2>3. QED
    BY <1>1, <2>1, <2>2 DEF Life!Next, Running
<1>2. CASE h \notin Tame
  BY <1>2, ReenteredUnseen
<1>3. QED
  BY <1>1, <1>2

\* A component's invocation ends.
LEMMA FinishLife ==
    ASSUME IInv, IInv', NEW h \in Tame, state[h] = "EXECUTING",
           \E outcome \in {"READY", "ERROR"} : state' = [state EXCEPT ![h] = outcome]
    PROVE  Life!Next
<1>1. PICK outcome \in {"READY", "ERROR"} : state' = [state EXCEPT ![h] = outcome]
  OBVIOUS
<1>2. h \in Running /\ Running' = Running \ {h}
  BY <1>1, RunningAfter
<1>3. Life!Finish(h)
  BY <1>1, <1>2, LifeAfter DEF Life!Finish, Life!Become, Running
<1>4. QED
  BY <1>2, <1>3 DEF Life!Next, Running

LEMMA LifeStarts == Init => Life!Init
<1> SUFFICES ASSUME Init PROVE Life!Init
  OBVIOUS
<1>1. Running = {}
  BY DEF Init, Running, IsCalled
<1>2. QED
  BY <1>1 DEF Init, Life!Init, Running, Tame

LEMMA LifeStep ==
    ASSUME IInv, IInv', [Next]_vars
    PROVE  [Life!Next]_Life!lifeVars
<1>0. TypeOK /\ ExecutingWhileCalled
  BY DEF IInv
<1>1. CASE UNCHANGED <<state, calls>>
  BY <1>1 DEF Life!lifeVars, IsCalled
<1>2. ASSUME NEW h \in Handles, NEW i \in Ids, Register(h, i) PROVE [Life!Next]_Life!lifeVars
  BY <1>2, QuietLife DEF Register
<1>3. ASSUME NEW h \in Handles, Initialize(h) PROVE [Life!Next]_Life!lifeVars
  <2>1. state[h] = "UNINITIALIZED"
    BY <1>0, <1>3, WhoCanBecome DEF Initialize
  <2>2. QED
    BY <1>3, <2>1, QuietLife DEF Initialize, Becomes
<1>4. ASSUME NEW h \in Handles, Unregister(h) PROVE [Life!Next]_Life!lifeVars
  <2>1. state[h] \in {"READY", "SUSPENDED", "ERROR"}
    BY <1>0, <1>4, WhoCanBecome DEF Unregister
  <2>2. QED
    BY <1>4, <2>1, QuietLife DEF Unregister, Becomes
<1>5. ASSUME NEW h \in Handles, BeginInvoke(h) PROVE [Life!Next]_Life!lifeVars
  <2>1. state[h] = "READY" /\ state' = [state EXCEPT ![h] = "EXECUTING"]
    BY <1>5 DEF BeginInvoke, Becomes
  <2>2. CASE h \in Tame
    <3>1. h \notin Running /\ Running' = Running \cup {h}
      BY <2>1, <2>2, RunningAfter
    <3>2. Life!Start(h)
      BY <2>1, <2>2, <3>1, LifeAfter DEF Life!Start, Life!Become, Running
    <3>3. QED
      BY <2>2, <3>1, <3>2 DEF Life!Next, Running
  <2>3. QED
    BY <2>1, <2>2, ReenteredUnseen
<1>6. ASSUME NEW h \in Handles, RejectInvoke(h) PROVE [Life!Next]_Life!lifeVars
  BY <1>6, QuietLife DEF RejectInvoke, Becomes
<1>7. ASSUME NEW h \in Handles, RefuseInvoke(h) PROVE [Life!Next]_Life!lifeVars
  BY <1>7, ReenteredUnseen DEF RefuseInvoke, Becomes, Tame
<1>8. ASSUME NEW h \in Handles, Suspend(h) PROVE [Life!Next]_Life!lifeVars
  BY <1>8, QuietLife DEF Suspend, Becomes
<1>9. ASSUME NEW h \in Handles, Resume(h) PROVE [Life!Next]_Life!lifeVars
  BY <1>9, QuietLife DEF Resume, Becomes
<1>10. ASSUME NEW h \in Handles, Reset(h) PROVE [Life!Next]_Life!lifeVars
  BY <1>10, QuietLife DEF Reset, Becomes
<1>11. CASE EndInvoke
  <2> DEFINE c == Head(calls)
  <2>1. c \in Handles /\ IsCalled(c)
    BY <1>0, <1>11, Popped DEF EndInvoke, TypeOK, IsCalled
  <2>2. CASE c \in Tame
    <3>1. state[c] = "EXECUTING"
      BY <1>0, <2>1, <2>2 DEF ExecutingWhileCalled
    <3>2. QED
      BY <1>11, <2>2, <3>1, FinishLife DEF EndInvoke, Becomes
  <2>3. CASE c \notin Tame /\ state' = state
    BY <2>3, NothingSeen
  <2>4. CASE /\ c \notin Tame
             /\ \E outcome \in {"READY", "ERROR"} : state' = [state EXCEPT ![c] = outcome]
    BY <2>1, <2>4, ReenteredUnseen
  <2>5. QED
    BY <1>11, <2>2, <2>3, <2>4 DEF EndInvoke, Becomes
<1>12. CASE SweepOne
  <2>1. registry[sweep] \in Handles /\ Unregister(registry[sweep])
    BY <1>0, <1>12 DEF SweepOne, TypeOK
  <2>2. QED
    BY <1>4, <2>1
<1>13. CASE BeginCleanup \/ EndCleanup \/ UNCHANGED vars
  BY <1>1, <1>13 DEF BeginCleanup, EndCleanup, vars
<1>14. ASSUME NEW h \in Handles, UnregisterByCaller(h) PROVE [Life!Next]_Life!lifeVars
  BY <1>4, <1>14 DEF UnregisterByCaller
<1>15. QED
  BY <1>2, <1>3, <1>5, <1>6, <1>7, <1>8, <1>9, <1>10, <1>11, <1>12, <1>13, <1>14 DEF Next

\* The adapter keeps the promise of ComponentLife to the author of every
\* component whose own callbacks do not lead back to it.
THEOREM Refinement == Spec => ImplementsComponentLife
<1>1. IInv /\ IInv' /\ [Next]_vars => [Life!Next]_Life!lifeVars
  BY LifeStep
<1>2. QED
  BY <1>1, LifeStarts, InvariantHolds, PTL DEF Spec, ImplementsComponentLife, Life!Spec

-----------------------------------------------------------------------------
(***************************************************************************)
(* Sums.  SumFunctionOnSet is a recursive function of the sets it has      *)
(* summed: that there is one, what its values are, and what a member adds, *)
(* is shown of a smallest set for which it would be otherwise.             *)
(***************************************************************************)
LEMMA Smallest ==
    ASSUME NEW S, NEW Bad \in SUBSET FiniteSubsetsOf(S), Bad # {}
    PROVE  \E s \in Bad : \A t \in Bad : t \subseteq s => t = s
<1>1. IsWellFoundedOn(StrictSubsetOrdering(S), FiniteSubsetsOf(S))
  BY FS_StrictSubsetOrderingWellFounded
<1>2. PICK s \in Bad : \A t \in Bad : <<t, s>> \notin StrictSubsetOrdering(S)
  BY <1>1, WFMin
<1>3. ASSUME NEW t \in Bad, t \subseteq s, t # s PROVE FALSE
  BY <1>2, <1>3 DEF StrictSubsetOrdering, FiniteSubsetsOf
<1>4. QED
  BY <1>3

Chosen(s) == CHOOSE x \in s : TRUE

LEMMA ChosenIn == ASSUME NEW s, s # {} PROVE Chosen(s) \in s
  BY DEF Chosen

Summed(f, sizes, s) == IF s = {} THEN 0 ELSE sizes[Chosen(s)] + f[s \ {Chosen(s)}]

IsSum(f, sizes, S) == f = [s \in SUBSET S |-> Summed(f, sizes, s)]

LEMMA SumUnfolds ==
    ASSUME NEW f, NEW sizes, NEW S, IsSum(f, sizes, S), NEW s \in SUBSET S
    PROVE  f[s] = Summed(f, sizes, s)
  BY Zenon DEF IsSum

\* A sum depends on what is added only.
LEMMA SumsAgree ==
    ASSUME NEW f, NEW sizes, NEW S, IsSum(f, sizes, S),
           NEW g, NEW others, NEW T, IsSum(g, others, T),
           NEW s \in (SUBSET S) \cap (SUBSET T), IsFiniteSet(s),
           \A x \in s : sizes[x] = others[x]
    PROVE  f[s] = g[s]
<1> DEFINE Bad == {t \in SUBSET s : f[t] # g[t]}
<1> SUFFICES ASSUME Bad # {} PROVE FALSE
  OBVIOUS
<1>1. Bad \in SUBSET FiniteSubsetsOf(s)
  BY FS_Subset DEF FiniteSubsetsOf
<1>2. PICK t \in Bad : \A u \in Bad : u \subseteq t => u = t
  <2> HIDE DEF Bad
  <2>1. QED
    BY <1>1, Smallest
<1>3. f[t] = Summed(f, sizes, t) /\ g[t] = Summed(g, others, t)
  BY SumUnfolds
<1>4. CASE t = {}
  BY <1>2, <1>3, <1>4 DEF Summed
<1>5. CASE t # {}
  <2>1. Chosen(t) \in t /\ sizes[Chosen(t)] = others[Chosen(t)]
    BY <1>2, <1>5, ChosenIn
  <2>2. f[t \ {Chosen(t)}] = g[t \ {Chosen(t)}]
    BY <1>2, <2>1
  <2>3. QED
    BY <1>2, <1>3, <1>5, <2>1, <2>2 DEF Summed
<1>6. QED
  BY <1>4, <1>5

LEMMA SumExists ==
    ASSUME NEW sizes, NEW S, IsFiniteSet(S)
    PROVE  \E f : IsSum(f, sizes, S)
<1> DEFINE Bad == {t \in SUBSET S : ~ \E f : IsSum(f, sizes, t)}
<1> SUFFICES ASSUME Bad # {} PROVE FALSE
  OBVIOUS
<1>1. Bad \in SUBSET FiniteSubsetsOf(S)
  BY FS_Subset DEF FiniteSubsetsOf
<1>2. PICK t \in Bad : \A u \in Bad : u \subseteq t => u = t
  <2> HIDE DEF Bad
  <2>1. QED
    BY <1>1, Smallest
<1> DEFINE F(u) == CHOOSE f : IsSum(f, sizes, u)
           rest(s) == s \ {Chosen(s)}
           g == [s \in SUBSET t |-> IF s = {} THEN 0 ELSE sizes[Chosen(s)] + F(rest(s))[rest(s)]]
<1>3. ASSUME NEW u \in SUBSET t, u # t PROVE IsSum(F(u), sizes, u)
  <2>1. \E f : IsSum(f, sizes, u)
    BY <1>2, <1>3
  <2>2. QED
    BY <2>1
<1>4. ASSUME NEW s \in SUBSET t, s # {} PROVE g[rest(s)] = F(rest(s))[rest(s)]
  <2>1. Chosen(s) \in s
    BY <1>4, ChosenIn
  <2>2. rest(s) \in SUBSET t /\ rest(s) # t /\ IsSum(F(rest(s)), sizes, rest(s))
    BY <2>1, <1>3
  <2>3. F(rest(s))[rest(s)] = Summed(F(rest(s)), sizes, rest(s))
    BY <2>2, SumUnfolds
  <2>4. CASE rest(s) = {}
    BY <2>2, <2>3, <2>4 DEF Summed
  <2>5. CASE rest(s) # {}
    <3>1. Chosen(rest(s)) \in rest(s)
      BY <2>5, ChosenIn
    <3>2. rest(rest(s)) \in SUBSET t /\ rest(rest(s)) # t /\ rest(rest(s)) \subseteq rest(s)
      BY <2>2, <3>1
    <3>3. IsSum(F(rest(rest(s))), sizes, rest(rest(s)))
      BY <3>2, <1>3
    <3>4. IsFiniteSet(rest(rest(s)))
      BY <3>2, FS_Subset
    <3>5. F(rest(s))[rest(rest(s))] = F(rest(rest(s)))[rest(rest(s))]
      <4> HIDE DEF F, rest
      <4>1. QED
        BY <2>2, <3>2, <3>3, <3>4, SumsAgree
    <3>6. g[rest(s)] = sizes[Chosen(rest(s))] + F(rest(rest(s)))[rest(rest(s))]
      BY <2>2, <2>5
    <3>7. QED
      BY <2>3, <2>5, <3>5, <3>6 DEF Summed
  <2>6. QED
    BY <2>4, <2>5
<1>5. \A s \in SUBSET t : g[s] = Summed(g, sizes, s)
  <2> SUFFICES ASSUME NEW s \in SUBSET t PROVE g[s] = Summed(g, sizes, s)
    OBVIOUS
  <2>1. g[s] = IF s = {} THEN 0 ELSE sizes[Chosen(s)] + F(rest(s))[rest(s)]
    OBVIOUS
  <2>2. CASE s = {}
    BY <2>1, <2>2 DEF Summed
  <2>3. CASE s # {}
    <3>1. g[rest(s)] = F(rest(s))[rest(s)]
      BY <1>4, <2>3
    <3> HIDE DEF g, F
    <3>2. QED
      BY <2>1, <2>3, <3>1 DEF Summed
  <2>4. QED
    BY <2>2, <2>3
<1>6. g = [s \in SUBSET t |-> Summed(g, sizes, s)]
  BY <1>5
<1>7. IsSum(g, sizes, t)
  BY <1>6 DEF IsSum
<1>8. QED
  BY <1>2, <1>7

LEMMA SumIsFold ==
    ASSUME NEW sizes, NEW S, IsFiniteSet(S)
    PROVE  \E f : IsSum(f, sizes, S) /\ SumFunctionOnSet(sizes, S) = f[S]
<1> DEFINE iter[s \in SUBSET S] ==
             IF s = {} THEN 0
             ELSE LET x == CHOOSE x \in s : TRUE IN sizes[x] + iter[s \ {x}]
<1>1. \E f : IsSum(f, sizes, S)
  BY SumExists
<1>2. iter = [s \in SUBSET S |-> Summed(iter, sizes, s)]
  BY <1>1, Zenon DEF IsSum, Summed, Chosen
<1>3. SumFunctionOnSet(sizes, S) = iter[S]
  BY Zenon DEF SumFunctionOnSet, FoldFunctionOnSet, MapThenFoldSet
<1>4. IsSum(iter, sizes, S)
  BY <1>2 DEF IsSum
<1>5. QED
  BY <1>3, <1>4

LEMMA SumUnchanged ==
    ASSUME NEW sizes, NEW others, NEW S, IsFiniteSet(S), \A x \in S : sizes[x] = others[x]
    PROVE  SumFunctionOnSet(sizes, S) = SumFunctionOnSet(others, S)
<1>1. PICK f : IsSum(f, sizes, S) /\ SumFunctionOnSet(sizes, S) = f[S]
  BY SumIsFold
<1>2. PICK g : IsSum(g, others, S) /\ SumFunctionOnSet(others, S) = g[S]
  BY SumIsFold
<1>3. QED
  BY <1>1, <1>2, SumsAgree

LEMMA SumFirst ==
    ASSUME NEW sizes, NEW S, IsFiniteSet(S)
    PROVE  SumFunctionOnSet(sizes, S) =
               IF S = {} THEN 0 ELSE sizes[Chosen(S)] + SumFunctionOnSet(sizes, S \ {Chosen(S)})
<1> DEFINE R == S \ {Chosen(S)}
<1>1. PICK f : IsSum(f, sizes, S) /\ SumFunctionOnSet(sizes, S) = f[S]
  BY SumIsFold
<1>2. IsFiniteSet(R) /\ R \in (SUBSET S) \cap (SUBSET R)
  BY FS_Subset
<1>3. PICK g : IsSum(g, sizes, R) /\ SumFunctionOnSet(sizes, R) = g[R]
  BY <1>2, SumIsFold
<1>4. f[R] = g[R]
  <2> HIDE DEF R
  <2>1. QED
    BY <1>1, <1>2, <1>3, SumsAgree
<1>5. f[S] = Summed(f, sizes, S)
  BY <1>1, SumUnfolds
<1>6. QED
  BY <1>1, <1>3, <1>4, <1>5 DEF Summed

LEMMA SumType ==
    ASSUME NEW sizes, NEW S, IsFiniteSet(S), \A x \in S : sizes[x] \in Nat
    PROVE  SumFunctionOnSet(sizes, S) \in Nat
<1> DEFINE Bad == {t \in SUBSET S : SumFunctionOnSet(sizes, t) \notin Nat}
<1> SUFFICES ASSUME Bad # {} PROVE FALSE
  OBVIOUS
<1>1. Bad \in SUBSET FiniteSubsetsOf(S)
  BY FS_Subset DEF FiniteSubsetsOf
<1>2. PICK t \in Bad : \A u \in Bad : u \subseteq t => u = t
  <2> HIDE DEF Bad
  <2>1. QED
    BY <1>1, Smallest
<1>3. IsFiniteSet(t)
  BY <1>2, FS_Subset
<1>4. SumFunctionOnSet(sizes, t) =
          IF t = {} THEN 0 ELSE sizes[Chosen(t)] + SumFunctionOnSet(sizes, t \ {Chosen(t)})
  BY <1>3, SumFirst
<1>5. t # {} => sizes[Chosen(t)] \in Nat /\ SumFunctionOnSet(sizes, t \ {Chosen(t)}) \in Nat
  BY <1>2, ChosenIn
<1>6. QED
  BY <1>2, <1>4, <1>5

\* Whichever member is taken out first.
LEMMA SumSplits ==
    ASSUME NEW sizes, NEW S, IsFiniteSet(S), \A x \in S : sizes[x] \in Nat, NEW r \in S
    PROVE  SumFunctionOnSet(sizes, S) = sizes[r] + SumFunctionOnSet(sizes, S \ {r})
<1> DEFINE Total(t) == SumFunctionOnSet(sizes, t)
           Bad == {t \in SUBSET S : \E x \in t : Total(t) # sizes[x] + Total(t \ {x})}
<1> SUFFICES ASSUME Bad # {} PROVE FALSE
  OBVIOUS
<1>1. Bad \in SUBSET FiniteSubsetsOf(S)
  BY FS_Subset DEF FiniteSubsetsOf
<1>2. PICK t \in Bad : \A u \in Bad : u \subseteq t => u = t
  <2> HIDE DEF Bad
  <2>1. QED
    BY <1>1, Smallest
<1>3. PICK x \in t : Total(t) # sizes[x] + Total(t \ {x})
  BY <1>2
<1> DEFINE c == Chosen(t)
<1>4. c \in t /\ t \subseteq S
  BY <1>2, <1>3, ChosenIn
<1>5. Total(t) = sizes[c] + Total(t \ {c})
  <2>1. IsFiniteSet(t)
    BY <1>4, FS_Subset
  <2>2. QED
    BY <1>4, <2>1, SumFirst
<1>6. x # c
  BY <1>3, <1>5
<1>7. Total(t \ {c}) = sizes[x] + Total((t \ {c}) \ {x})
  <2>1. t \ {c} \notin Bad /\ t \ {c} \in SUBSET S /\ x \in t \ {c}
    BY <1>2, <1>3, <1>4, <1>6
  <2> HIDE DEF c, Total
  <2>2. QED
    BY <2>1
<1>8. Total(t \ {x}) = sizes[c] + Total((t \ {x}) \ {c})
  <2>1. t \ {x} \notin Bad /\ t \ {x} \in SUBSET S /\ c \in t \ {x}
    BY <1>2, <1>3, <1>4, <1>6
  <2> HIDE DEF c, Total
  <2>2. QED
    BY <2>1
<1>9. Total(t \ {x}) = sizes[c] + Total((t \ {c}) \ {x})
  <2>1. (t \ {c}) \ {x} = (t \ {x}) \ {c}
    OBVIOUS
  <2>2. QED
    BY <1>8, <2>1, Zenon
<1>10. sizes[c] \in Nat /\ sizes[x] \in Nat /\ Total((t \ {c}) \ {x}) \in Nat
  <2> DEFINE u == (t \ {c}) \ {x}
  <2>1. IsFiniteSet(u) /\ \A y \in u : sizes[y] \in Nat
    BY <1>4, FS_Subset
  <2> HIDE DEF u
  <2>2. SumFunctionOnSet(sizes, u) \in Nat
    BY <2>1, SumType
  <2>3. QED
    BY <1>3, <1>4, <2>2 DEF u
<1> DEFINE p == sizes[c]
           q == sizes[x]
           both == Total((t \ {c}) \ {x})
<1>11. p \in Nat /\ q \in Nat /\ both \in Nat /\ Total(t) = p + (q + both)
       /\ Total(t \ {x}) = p + both /\ Total(t) # q + Total(t \ {x})
  BY <1>3, <1>5, <1>7, <1>9, <1>10
<1> HIDE DEF c, Total, p, q, both
<1>12. QED
  BY <1>11

LEMMA SumGains ==
    ASSUME NEW sizes, NEW others, NEW S, IsFiniteSet(S), NEW r, r \notin S,
           \A x \in S : sizes[x] \in Nat /\ others[x] = sizes[x], others[r] \in Nat
    PROVE  SumFunctionOnSet(others, S \cup {r}) = SumFunctionOnSet(sizes, S) + others[r]
<1>1. SumFunctionOnSet(others, S) = SumFunctionOnSet(sizes, S)
  BY SumUnchanged
<1> DEFINE T == S \cup {r}
<1>2. IsFiniteSet(T) /\ (\A x \in T : others[x] \in Nat) /\ r \in T
  BY FS_AddElement
<1>3. T \ {r} = S
  OBVIOUS
<1> HIDE DEF T
<1>4. SumFunctionOnSet(others, T) = others[r] + SumFunctionOnSet(others, T \ {r})
  BY <1>2, SumSplits
<1>5. SumFunctionOnSet(sizes, S) \in Nat
  BY SumType
<1>6. SumFunctionOnSet(others, T) = others[r] + SumFunctionOnSet(sizes, S)
  BY <1>1, <1>3, <1>4, Zenon
<1> DEFINE before == SumFunctionOnSet(sizes, S)
           after == SumFunctionOnSet(others, T)
<1>7. before \in Nat /\ others[r] \in Nat /\ after = others[r] + before
  BY <1>5, <1>6
<1> HIDE DEF before, after
<1>8. after = before + others[r]
  BY <1>7
<1>9. QED
  BY <1>8 DEF before, after, T

-----------------------------------------------------------------------------
(***************************************************************************)
(* The quota.                                                              *)
(***************************************************************************)
MemoryTyped ==
    /\ region_state \in [Regions -> {"none", "live", "freed"}]
    /\ owner \in [Regions -> Components \cup {CHOOSE c \in Components : TRUE}]
    /\ size \in [Regions -> Nat] /\ reference_count \in [Regions -> Nat]
    /\ frees \in [Regions -> Nat]
    /\ memory_regions \in [Components -> Seq(Regions)]
    /\ total_memory_allocated \in [Components -> Nat]
    /\ registered \subseteq Components /\ lost \subseteq Regions

Used == {r \in Regions : region_state[r] # "none"}

\* Before its initialization is over, a component that is not early owns
\* nothing.
AllocatesLate ==
    \A c \in Components \ (initialized \cup early), r \in Used : owner[r] # c

LostIsFreed == \A r \in lost : region_state[r] = "freed"

QuotaInv ==
    /\ MemoryTyped
    /\ IsFiniteSet(Used)
    /\ AllocatesLate
    /\ LostIsFreed
    /\ QuotaIsExact

LEMMA MemoryInitially == MemoryInit => QuotaInv
<1> SUFFICES ASSUME MemoryInit PROVE QuotaInv
  OBVIOUS
<1>1. MemoryTyped
  BY DEF MemoryInit, MemoryTyped
<1>2. Used = {} /\ \A c : Owned(c) = {}
  BY DEF MemoryInit, Used, Owned
<1>3. IsFiniteSet({}) /\ SumFunctionOnSet(size, {}) = 0
  BY FS_EmptySet, SumFirst
<1>4. ASSUME NEW c \in registered
      PROVE  /\ total_memory_allocated[c] = SumFunctionOnSet(size, Owned(c))
             /\ SumFunctionOnSet(size, Owned(c)) <= MaxUsage
  <2>1. SumFunctionOnSet(size, Owned(c)) = 0
    BY <1>2, <1>3, Zenon
  <2>2. total_memory_allocated[c] = 0
    BY DEF MemoryInit
  <2>3. QED
    BY <2>1, <2>2, MemoryAssumption
<1>5. QuotaIsExact
  BY <1>4 DEF QuotaIsExact
<1>6. QED
  BY <1>1, <1>2, <1>3, <1>5 DEF QuotaInv, AllocatesLate, LostIsFreed, MemoryInit

\* size_t.
LEMMA Wrapped == ASSUME NEW i \in Int PROVE i % Word \in Nat
<1>1. Word \in Nat /\ Word # 0
  BY MemoryAssumption
<1>2. QED
  BY <1>1

\* A list grows by one entry.
LEMMA ListedEffect ==
    ASSUME MemoryTyped, NEW c \in Components, NEW r \in Regions, Listed(c, r)
    PROVE  /\ memory_regions' \in [Components -> Seq(Regions)]
           /\ Len(memory_regions[c]) \in Nat /\ Len(memory_regions[c]) < ListCapacity
           /\ Len(memory_regions'[c]) = Len(memory_regions[c]) + 1
           /\ memory_regions'[c][Len(memory_regions[c]) + 1] = r
           /\ \A i \in 1 .. Len(memory_regions[c]) : memory_regions'[c][i] = memory_regions[c][i]
           /\ \A d \in Components \ {c} : memory_regions'[d] = memory_regions[d]
<1> DEFINE before == memory_regions[c]
           after == Append(before, r)
<1>1. before \in Seq(Regions)
  BY DEF MemoryTyped
<1>2. memory_regions' = [memory_regions EXCEPT ![c] = after] /\ Len(before) < ListCapacity
  BY DEF Listed
<1>3. /\ after \in Seq(Regions) /\ Len(before) \in Nat /\ Len(after) = Len(before) + 1
      /\ after[Len(before) + 1] = r
      /\ \A i \in 1 .. Len(before) : after[i] = before[i]
  <2> HIDE DEF before
  <2>1. QED
    BY <1>1
<1> HIDE DEF after
<1>4. memory_regions' \in [Components -> Seq(Regions)] /\ memory_regions'[c] = after
      /\ \A d \in Components \ {c} : memory_regions'[d] = memory_regions[d]
  BY <1>2, <1>3 DEF MemoryTyped
<1>5. QED
  BY <1>2, <1>3, <1>4

LEMMA MemoryTypedStep ==
    ASSUME MemoryTyped, [MemoryNext]_memoryVars
    PROVE  MemoryTyped'
<1> USE DEF MemoryTyped
<1>0. MaxSize \in Nat
  BY MemoryAssumption
<1>1. ASSUME NEW c \in Components, NEW r \in Regions, NEW bytes \in 1 .. MaxSize, Allocate(c, r, bytes)
      PROVE  MemoryTyped'
  <2>0. bytes \in Nat /\ total_memory_allocated[c] + bytes \in Int
    BY <1>0
  <2>1. (total_memory_allocated[c] + bytes) % Word \in Nat
    BY <2>0, Wrapped
  <2>2. total_memory_allocated' \in [Components -> Nat]
    <3> DEFINE total == (total_memory_allocated[c] + bytes) % Word
    <3>1. \/ total_memory_allocated' = [total_memory_allocated EXCEPT ![c] = total]
          \/ total_memory_allocated' = total_memory_allocated
      BY <1>1, Zenon DEF Allocate
    <3>2. total \in Nat
      BY <2>1
    <3> HIDE DEF total
    <3>3. QED
      BY <3>1, <3>2
  <2>3. memory_regions' \in [Components -> Seq(Regions)]
    BY <1>1, ListedEffect DEF Allocate
  <2>4. region_state' \in [Regions -> {"none", "live", "freed"}]
    <3>1. \/ region_state' = [region_state EXCEPT ![r] = "live"]
          \/ region_state' = region_state
      BY <1>1, Zenon DEF Allocate, region
    <3>2. QED
      BY <3>1
  <2>7. reference_count' \in [Regions -> Nat]
    <3> DEFINE one == 1
    <3>1. \/ reference_count' = [reference_count EXCEPT ![r] = one]
          \/ reference_count' = reference_count
      BY <1>1, Zenon DEF Allocate, region
    <3>2. one \in Nat
      OBVIOUS
    <3> HIDE DEF one
    <3>3. QED
      BY <3>1, <3>2
  <2>5. owner' \in [Regions -> Components \cup {CHOOSE d \in Components : TRUE}]
    <3> DEFINE Owners == Components \cup {CHOOSE d \in Components : TRUE}
    <3>1. owner' = [owner EXCEPT ![r] = c] \/ owner' = owner
      BY <1>1, Zenon DEF Allocate, region
    <3>2. c \in Owners /\ owner \in [Regions -> Owners]
      OBVIOUS
    <3> HIDE DEF Owners
    <3>3. owner' \in [Regions -> Owners]
      BY <3>1, <3>2
    <3>4. QED
      BY <3>3 DEF Owners
  <2>6. size' \in [Regions -> Nat]
    <3>1. size' = [size EXCEPT ![r] = bytes] \/ size' = size
      BY <1>1, Zenon DEF Allocate, region
    <3>2. QED
      BY <3>1, <2>0
  <2>8. UNCHANGED <<frees, registered, lost>>
    BY <1>1 DEF Allocate
  <2>9. QED
    BY <2>2, <2>3, <2>4, <2>5, <2>6, <2>7, <2>8
<1>2. ASSUME NEW c \in Components, NEW r \in Regions, Free(c, r) PROVE MemoryTyped'
  <2>0. total_memory_allocated[c] - size[r] \in Int
    OBVIOUS
  <2>1. (total_memory_allocated[c] - size[r]) % Word \in Nat
    BY <2>0, Wrapped
  <2>2. total_memory_allocated' \in [Components -> Nat]
    BY <1>2, <2>1 DEF Free, Release
  <2>3. IsShared(r) => reference_count[r] - 1 \in Nat
    BY DEF IsShared
  <2>4. reference_count' \in [Regions -> Nat]
    BY <1>2, <2>3 DEF Free, Release
  <2>5. region_state' \in [Regions -> {"none", "live", "freed"}]
    BY <1>2 DEF Free, Release
  <2>6. frees' \in [Regions -> Nat] /\ UNCHANGED <<owner, size, memory_regions, registered, lost>>
    BY <1>2 DEF Free, lists, life
  <2>7. QED
    BY <2>2, <2>4, <2>5, <2>6
<1>3. ASSUME NEW c \in Components, NEW r \in Regions, NEW target \in Components, Share(c, target, r)
      PROVE  MemoryTyped'
  <2>1. memory_regions' \in [Components -> Seq(Regions)]
    BY <1>3, ListedEffect DEF Share
  <2>2. reference_count' \in [Regions -> Nat]
    <3>1. \/ reference_count' = [reference_count EXCEPT ![r] = reference_count[r] + 1]
          \/ reference_count' = reference_count
      BY <1>3, Zenon DEF Share
    <3>2. reference_count[r] + 1 \in Nat
      OBVIOUS
    <3>3. QED
      BY <3>1, <3>2
  <2>3. UNCHANGED <<region_state, owner, size, total_memory_allocated, registered, lost, frees>>
    BY <1>3 DEF Share, life
  <2>4. QED
    BY <2>1, <2>2, <2>3
<1>4. ASSUME NEW c \in Components, InitializeComponent(c) PROVE MemoryTyped'
  BY <1>4 DEF InitializeComponent, region, lists
<1>5. ASSUME NEW c \in Components, UnregisterComponent(c) PROVE MemoryTyped'
  <2>1. ToSet(memory_regions[c]) \subseteq Regions
    BY DEF ToSet
  <2>2. QED
    BY <1>5, <2>1 DEF UnregisterComponent
<1>6. CASE UNCHANGED memoryVars
  BY <1>6 DEF memoryVars, region, lists, life
<1>7. QED
  BY <1>1, <1>2, <1>3, <1>4, <1>5, <1>6 DEF MemoryNext

-----------------------------------------------------------------------------
Undisturbed(c) == c \in registered \ early /\ \A r \in lost : owner[r] # c

IsExact(c) ==
    /\ total_memory_allocated[c] = SumFunctionOnSet(size, Owned(c))
    /\ SumFunctionOnSet(size, Owned(c)) <= MaxUsage

LEMMA OwnedFinite ==
    ASSUME QuotaInv, NEW c
    PROVE  /\ IsFiniteSet(Owned(c)) /\ \A r \in Owned(c) : size[r] \in Nat
           /\ SumFunctionOnSet(size, Owned(c)) \in Nat
<1>1. Owned(c) \subseteq Used
  BY DEF Owned, Used
<1>2. IsFiniteSet(Owned(c))
  BY <1>1, FS_Subset DEF QuotaInv
<1>3. \A r \in Owned(c) : size[r] \in Nat
  BY DEF QuotaInv, MemoryTyped, Owned
<1>4. QED
  BY <1>2, <1>3, SumType

LEMMA ExactBefore ==
    ASSUME QuotaInv, NEW c, Undisturbed(c)
    PROVE  IsExact(c)
  BY DEF QuotaInv, QuotaIsExact, Undisturbed, IsExact

\* Of what a component owns, and its counter, nothing changes.
LEMMA ExactKept ==
    ASSUME QuotaInv, NEW c, IsExact(c), Owned(c)' = Owned(c), \A r \in Owned(c) : size'[r] = size[r],
           total_memory_allocated'[c] = total_memory_allocated[c]
    PROVE  IsExact(c)'
<1>1. IsFiniteSet(Owned(c)) /\ \A r \in Owned(c) : size[r] = size'[r]
  BY OwnedFinite
<1>2. SumFunctionOnSet(size, Owned(c)) = SumFunctionOnSet(size', Owned(c))
  BY <1>1, SumUnchanged
<1>3. QED
  BY <1>2 DEF IsExact

LEMMA ExactAllocate ==
    ASSUME QuotaInv, NEW c \in Components, IsExact(c),
           NEW r \in Regions, region_state[r] = "none", NEW bytes \in 1 .. MaxSize,
           (total_memory_allocated[c] + bytes) % Word <= MaxUsage,
           Owned(c)' = Owned(c) \cup {r},
           \A q \in Owned(c) : size'[q] = size[q], size'[r] = bytes,
           total_memory_allocated'[c] = (total_memory_allocated[c] + bytes) % Word
    PROVE  IsExact(c)'
<1> DEFINE before == SumFunctionOnSet(size, Owned(c))
           after == SumFunctionOnSet(size', Owned(c) \cup {r})
<1>1. bytes \in Nat /\ bytes <= MaxSize /\ MaxUsage \in Nat /\ Word \in Nat /\ MaxUsage + MaxSize < Word
      /\ MaxSize \in Nat
  BY MemoryAssumption
<1>2. r \notin Owned(c)
  BY DEF Owned
<1>3. before \in Nat /\ before <= MaxUsage /\ total_memory_allocated[c] = before
  BY OwnedFinite DEF IsExact
<1>4. after = before + size'[r]
  <2>1. IsFiniteSet(Owned(c)) /\ (\A q \in Owned(c) : size[q] \in Nat /\ size'[q] = size[q]) /\ size'[r] \in Nat
    BY <1>1, OwnedFinite
  <2>2. QED
    BY <1>2, <2>1, SumGains
<1> HIDE DEF before, after
<1>5. (before + bytes) % Word = before + bytes
  <2>1. before + bytes \in Nat /\ before + bytes < Word
    BY <1>1, <1>3
  <2> DEFINE sum == before + bytes
  <2> HIDE DEF sum
  <2>2. sum \in Nat /\ sum < Word => sum % Word = sum
    BY <1>1
  <2>3. QED
    BY <2>1, <2>2 DEF sum
<1>6. total_memory_allocated'[c] = after /\ after <= MaxUsage
  BY <1>3, <1>4, <1>5
<1>7. SumFunctionOnSet(size', Owned(c)') = after
  BY Zenon DEF after
<1>8. QED
  BY <1>6, <1>7 DEF IsExact

LEMMA ExactFree ==
    ASSUME QuotaInv, NEW c \in Components, IsExact(c), NEW r \in Owned(c),
           Owned(c)' = Owned(c) \ {r}, size' = size,
           total_memory_allocated'[c] = (total_memory_allocated[c] - size[r]) % Word
    PROVE  IsExact(c)'
<1> DEFINE before == SumFunctionOnSet(size, Owned(c))
           after == SumFunctionOnSet(size, Owned(c) \ {r})
           bytes == size[r]
<1>1. MaxUsage \in Nat /\ Word \in Nat /\ MaxUsage + MaxSize < Word /\ MaxSize \in Nat
  BY MemoryAssumption
<1>2. IsFiniteSet(Owned(c)) /\ (\A q \in Owned(c) : size[q] \in Nat)
  BY OwnedFinite
<1>3. before \in Nat /\ before <= MaxUsage /\ total_memory_allocated[c] = before
  BY OwnedFinite DEF IsExact
<1>4. after \in Nat
  <2> DEFINE rest == Owned(c) \ {r}
  <2>1. IsFiniteSet(rest) /\ \A q \in rest : size[q] \in Nat
    BY <1>2, FS_Subset
  <2> HIDE DEF rest
  <2>2. SumFunctionOnSet(size, rest) \in Nat
    BY <2>1, SumType
  <2>3. QED
    BY <2>2 DEF rest
<1>5. before = bytes + after
  BY <1>2, SumSplits
<1>6. bytes \in Nat
  BY <1>2
<1>7. SumFunctionOnSet(size', Owned(c)') = after
  BY Zenon
<1> HIDE DEF before, after
<1>8. before - bytes = after /\ after <= MaxUsage
  <2> HIDE DEF bytes
  <2>1. QED
    BY <1>1, <1>3, <1>4, <1>5, <1>6
<1>9. after % Word = after
  BY <1>1, <1>4, <1>8
<1>10. total_memory_allocated'[c] = after
  BY <1>3, <1>8, <1>9
<1>11. QED
  BY <1>7, <1>8, <1>10 DEF IsExact

\* What is left to show of a step: whatever it does, it frees regions that
\* were live, and takes at most one into use.
LEMMA QuotaFollows ==
    ASSUME QuotaInv, MemoryTyped', AllocatesLate', LostIsFreed',
           \E r : Used' \subseteq Used \cup {r},
           \A c \in Components : Undisturbed(c)' => IsExact(c)'
    PROVE  QuotaInv'
<1>1. PICK r : Used' \subseteq Used \cup {r}
  OBVIOUS
<1>2. IsFiniteSet(Used \cup {r})
  BY FS_AddElement DEF QuotaInv
<1>3. IsFiniteSet(Used')
  BY <1>1, <1>2, FS_Subset
<1>4. QuotaIsExact'
  <2> SUFFICES ASSUME NEW c \in registered' \ early', \A q \in lost' : owner'[q] # c
               PROVE  /\ total_memory_allocated'[c] = SumFunctionOnSet(size', Owned(c)')
                      /\ SumFunctionOnSet(size', Owned(c)') <= MaxUsage
    BY DEF QuotaIsExact
  <2>1. c \in Components
    BY DEF MemoryTyped
  <2>2. Undisturbed(c)'
    BY DEF Undisturbed
  <2>3. QED
    BY <2>1, <2>2 DEF IsExact
<1>5. QED
  BY <1>3, <1>4 DEF QuotaInv

LEMMA AllocateQuota ==
    ASSUME QuotaInv, MemoryTyped', NEW c \in Components, NEW r \in Regions, NEW bytes \in 1 .. MaxSize,
           Allocate(c, r, bytes)
    PROVE  QuotaInv'
<1>0. MemoryTyped /\ AllocatesLate /\ LostIsFreed
  BY DEF QuotaInv
<1>1. /\ c \in registered /\ region_state[r] = "none"
      /\ (total_memory_allocated[c] + bytes) % Word <= MaxUsage
      /\ UNCHANGED <<registered, initialized, lost>>
  BY DEF Allocate
<1>2. CASE UNCHANGED <<region, memory_regions, total_memory_allocated, early>>
  <2>1. UNCHANGED <<region_state, owner, size, total_memory_allocated, early>>
    BY <1>2 DEF region
  <2>2. Used' = Used /\ \A d : Owned(d)' = Owned(d)
    BY <2>1 DEF Used, Owned
  <2>3. AllocatesLate' /\ LostIsFreed'
    BY <1>0, <1>1, <2>1, <2>2 DEF AllocatesLate, LostIsFreed
  <2>4. ASSUME NEW d \in Components, Undisturbed(d)' PROVE IsExact(d)'
    <3>1. Undisturbed(d)
      BY <2>4, <1>1, <2>1 DEF Undisturbed
    <3>2. QED
      BY <2>1, <2>2, <3>1, ExactBefore, ExactKept
  <2>5. QED
    BY <2>2, <2>3, <2>4, QuotaFollows
<1>3. CASE /\ region_state' = [region_state EXCEPT ![r] = "live"] /\ owner' = [owner EXCEPT ![r] = c]
           /\ size' = [size EXCEPT ![r] = bytes]
           /\ total_memory_allocated' = [total_memory_allocated EXCEPT ![c] = (@ + bytes) % Word]
           /\ early' = IF c \in initialized THEN early ELSE early \cup {c}
  <2>1. /\ region_state'[r] = "live" /\ owner'[r] = c /\ size'[r] = bytes
        /\ \A q \in Regions \ {r} : /\ region_state'[q] = region_state[q] /\ owner'[q] = owner[q]
                                    /\ size'[q] = size[q]
        /\ total_memory_allocated'[c] = (total_memory_allocated[c] + bytes) % Word
        /\ \A d \in Components \ {c} : total_memory_allocated'[d] = total_memory_allocated[d]
    BY <1>0, <1>3 DEF MemoryTyped
  <2>2. Used' \subseteq Used \cup {r}
    BY <2>1 DEF Used
  <2>3. Owned(c)' = Owned(c) \cup {r} /\ r \notin Owned(c)
    BY <1>1, <2>1 DEF Owned
  <2>4. \A d \in Components \ {c} : Owned(d)' = Owned(d) /\ r \notin Owned(d)
    BY <1>1, <2>1 DEF Owned
  <2>5. \A d : Owned(d) \subseteq Regions
    BY DEF Owned
  <2>6. AllocatesLate'
    BY <1>0, <1>1, <1>3, <2>1, <2>2 DEF AllocatesLate, Used
  <2>7. r \notin lost /\ LostIsFreed'
    BY <1>0, <1>1, <2>1 DEF LostIsFreed, MemoryTyped
  <2>8. ASSUME NEW d \in Components, Undisturbed(d)' PROVE IsExact(d)'
    <3>1. \A q \in lost : owner'[q] = owner[q]
      BY <1>0, <2>1, <2>7 DEF MemoryTyped
    <3>2. Undisturbed(d)
      BY <2>8, <3>1, <1>1, <1>3 DEF Undisturbed
    <3>3. IsExact(d)
      BY <3>2, ExactBefore
    <3>4. CASE d = c
      <4>1. \A q \in Owned(c) : size'[q] = size[q]
        BY <2>1, <2>3, <2>5
      <4>2. QED
        BY <3>3, <3>4, <4>1, <1>1, <2>1, <2>3, ExactAllocate
    <3>5. CASE d # c
      <4>1. \A q \in Owned(d) : size'[q] = size[q]
        BY <2>1, <2>4, <2>5, <3>5
      <4>2. QED
        BY <3>3, <3>5, <4>1, <2>1, <2>4, ExactKept
    <3>6. QED
      BY <3>4, <3>5
  <2>9. QED
    BY <2>2, <2>6, <2>7, <2>8, QuotaFollows
<1>4. QED
  BY <1>2, <1>3, Zenon DEF Allocate

LEMMA FreeQuota ==
    ASSUME QuotaInv, MemoryTyped', NEW c \in Components, NEW r \in Regions, Free(c, r)
    PROVE  QuotaInv'
<1>0. MemoryTyped /\ AllocatesLate /\ LostIsFreed
  BY DEF QuotaInv
<1>1. /\ c \in registered /\ region_state[r] = "live" /\ owner[r] = c
      /\ UNCHANGED <<owner, size, registered, initialized, early, lost>>
  BY DEF Free, life
<1>2. \A d : Undisturbed(d)' => Undisturbed(d)
  BY <1>1 DEF Undisturbed
<1>3. CASE UNCHANGED <<region_state, total_memory_allocated>>
  <2>1. Used' = Used /\ \A d : Owned(d)' = Owned(d)
    BY <1>1, <1>3 DEF Used, Owned
  <2>2. AllocatesLate' /\ LostIsFreed'
    BY <1>0, <1>1, <1>3, <2>1 DEF AllocatesLate, LostIsFreed
  <2>3. ASSUME NEW d \in Components, Undisturbed(d)' PROVE IsExact(d)'
    BY <2>3, <1>1, <1>2, <1>3, <2>1, ExactBefore, ExactKept
  <2>4. QED
    BY <2>1, <2>2, <2>3, QuotaFollows
<1>4. CASE /\ region_state' = [region_state EXCEPT ![r] = "freed"]
           /\ total_memory_allocated' = [total_memory_allocated EXCEPT ![c] = (@ - size[r]) % Word]
  <2>1. /\ region_state'[r] = "freed" /\ \A q \in Regions \ {r} : region_state'[q] = region_state[q]
        /\ total_memory_allocated'[c] = (total_memory_allocated[c] - size[r]) % Word
        /\ \A d \in Components \ {c} : total_memory_allocated'[d] = total_memory_allocated[d]
    BY <1>0, <1>4 DEF MemoryTyped
  <2>2. Used' = Used
    BY <1>1, <2>1 DEF Used
  <2>3. Owned(c)' = Owned(c) \ {r} /\ r \in Owned(c)
    BY <1>1, <2>1 DEF Owned
  <2>4. \A d \in Components \ {c} : Owned(d)' = Owned(d)
    BY <1>1, <2>1 DEF Owned
  <2>5. AllocatesLate' /\ LostIsFreed'
    BY <1>0, <1>1, <2>1, <2>2 DEF AllocatesLate, LostIsFreed, MemoryTyped
  <2>6. ASSUME NEW d \in Components, Undisturbed(d)' PROVE IsExact(d)'
    <3>1. IsExact(d)
      BY <2>6, <1>2, ExactBefore
    <3>2. CASE d = c
      BY <3>1, <3>2, <1>1, <2>1, <2>3, ExactFree
    <3>3. CASE d # c
      BY <3>1, <3>3, <1>1, <2>1, <2>4, ExactKept
    <3>4. QED
      BY <3>2, <3>3
  <2>7. QED
    BY <2>2, <2>5, <2>6, QuotaFollows
<1>5. QED
  BY <1>3, <1>4, Zenon DEF Free, Release

LEMMA ShareQuota ==
    ASSUME QuotaInv, MemoryTyped',
           UNCHANGED <<region_state, owner, size, total_memory_allocated, life>>
    PROVE  QuotaInv'
<1>0. MemoryTyped /\ AllocatesLate /\ LostIsFreed
  BY DEF QuotaInv
<1>1. UNCHANGED <<registered, initialized, early, lost>>
  BY DEF life
<1>2. Used' = Used /\ \A d : Owned(d)' = Owned(d)
  BY DEF Used, Owned
<1>3. AllocatesLate' /\ LostIsFreed'
  BY <1>0, <1>1, <1>2 DEF AllocatesLate, LostIsFreed
<1>4. ASSUME NEW d \in Components, Undisturbed(d)' PROVE IsExact(d)'
  <2>1. Undisturbed(d)
    BY <1>1, <1>4 DEF Undisturbed
  <2>2. QED
    BY <1>2, <2>1, ExactBefore, ExactKept
<1>5. QED
  BY <1>2, <1>3, <1>4, QuotaFollows

\* The counter that is cleared counted nothing, unless the component is early.
LEMMA InitializeQuota ==
    ASSUME QuotaInv, MemoryTyped', NEW c \in Components, InitializeComponent(c)
    PROVE  QuotaInv'
<1>0. MemoryTyped /\ AllocatesLate /\ LostIsFreed
  BY DEF QuotaInv
<1>1. /\ c \in registered \ initialized /\ initialized' = initialized \cup {c}
      /\ UNCHANGED <<region_state, owner, size, registered, early, lost>>
      /\ total_memory_allocated'[c] = 0
      /\ \A d \in Components \ {c} : total_memory_allocated'[d] = total_memory_allocated[d]
  BY <1>0 DEF InitializeComponent, region, MemoryTyped
<1>2. Used' = Used /\ \A d : Owned(d)' = Owned(d)
  BY <1>1 DEF Used, Owned
<1>3. AllocatesLate' /\ LostIsFreed'
  BY <1>0, <1>1, <1>2 DEF AllocatesLate, LostIsFreed
<1>4. ASSUME NEW d \in Components, Undisturbed(d)' PROVE IsExact(d)'
  <2>1. Undisturbed(d)
    BY <1>1, <1>4 DEF Undisturbed
  <2>2. IsExact(d)
    BY <2>1, ExactBefore
  <2>3. total_memory_allocated'[d] = total_memory_allocated[d]
    <3>1. CASE d # c
      BY <1>1, <3>1
    <3>2. CASE d = c
      <4>1. Owned(d) = {}
        BY <1>0, <1>1, <2>1, <3>2 DEF AllocatesLate, Undisturbed, Owned, Used
      <4>2. SumFunctionOnSet(size, Owned(d)) = 0
        BY <4>1, FS_EmptySet, SumFirst
      <4>3. QED
        BY <1>1, <2>2, <3>2, <4>2 DEF IsExact
    <3>3. QED
      BY <3>1, <3>2
  <2>4. QED
    BY <1>1, <1>2, <2>2, <2>3, ExactKept
<1>5. QED
  BY <1>2, <1>3, <1>4, QuotaFollows

\* What is freed behind its owner's back is lost, and only its owner minds.
LEMMA UnregisterQuota ==
    ASSUME QuotaInv, MemoryTyped', NEW c \in Components, UnregisterComponent(c)
    PROVE  QuotaInv'
<1> DEFINE gone == ToSet(memory_regions[c])
<1>0. MemoryTyped /\ AllocatesLate /\ LostIsFreed
  BY DEF QuotaInv
<1>1. /\ \A r \in gone : region_state[r] = "live"
      /\ \A r \in Regions : region_state'[r] = IF r \in gone THEN "freed" ELSE region_state[r]
      /\ lost' = lost \cup gone /\ registered' = registered \ {c}
      /\ UNCHANGED <<owner, size, total_memory_allocated, initialized, early>>
  BY DEF UnregisterComponent
<1>2. gone \subseteq Regions
  BY <1>0 DEF ToSet, MemoryTyped
<1> HIDE DEF gone
<1>3. Used' = Used
  BY <1>1, <1>2 DEF Used
<1>4. AllocatesLate' /\ LostIsFreed'
  <2>1. AllocatesLate'
    BY <1>0, <1>1, <1>3 DEF AllocatesLate
  <2>2. \A r \in lost' : region_state'[r] = "freed"
    BY <1>0, <1>1, <1>2 DEF LostIsFreed, MemoryTyped
  <2>3. QED
    BY <2>1, <2>2 DEF LostIsFreed
<1>5. ASSUME NEW d \in Components, Undisturbed(d)' PROVE IsExact(d)'
  <2>1. Undisturbed(d) /\ \A r \in gone : owner[r] # d
    BY <1>1, <1>5 DEF Undisturbed
  <2>2. Owned(d)' = Owned(d)
    BY <1>1, <2>1 DEF Owned
  <2>3. QED
    BY <1>1, <2>1, <2>2, ExactBefore, ExactKept
<1>6. QED
  BY <1>3, <1>4, <1>5, QuotaFollows

LEMMA QuotaInductive == QuotaInv /\ [MemoryNext]_memoryVars => QuotaInv'
<1> SUFFICES ASSUME QuotaInv, [MemoryNext]_memoryVars PROVE QuotaInv'
  OBVIOUS
<1>0. MemoryTyped'
  BY MemoryTypedStep DEF QuotaInv
<1>1. ASSUME NEW c \in Components, NEW r \in Regions, NEW bytes \in 1 .. MaxSize, Allocate(c, r, bytes)
      PROVE  QuotaInv'
  BY <1>0, <1>1, AllocateQuota
<1>2. ASSUME NEW c \in Components, NEW r \in Regions, Free(c, r) PROVE QuotaInv'
  BY <1>0, <1>2, FreeQuota
<1>3. ASSUME NEW c \in Components, NEW r \in Regions, NEW target \in Components, Share(c, target, r)
      PROVE  QuotaInv'
  <2>1. UNCHANGED <<region_state, owner, size, total_memory_allocated, life>>
    BY <1>3 DEF Share
  <2>2. QED
    BY <1>0, <2>1, ShareQuota
<1>4. ASSUME NEW c \in Components, InitializeComponent(c) PROVE QuotaInv'
  BY <1>0, <1>4, InitializeQuota
<1>5. ASSUME NEW c \in Components, UnregisterComponent(c) PROVE QuotaInv'
  BY <1>0, <1>5, UnregisterQuota
<1>6. CASE UNCHANGED memoryVars
  <2>1. UNCHANGED <<region_state, owner, size, total_memory_allocated, life>>
    BY <1>6 DEF memoryVars, region
  <2>2. QED
    BY <1>0, <2>1, ShareQuota
<1>7. QED
  BY <1>1, <1>2, <1>3, <1>4, <1>5, <1>6 DEF MemoryNext

-----------------------------------------------------------------------------
(***************************************************************************)
(* References.  While nobody was unregistered, the entries of the lists    *)
(* that name a live region are the times it was freed and those it is      *)
(* still to be.                                                            *)
(***************************************************************************)
Counted(r) ==
    /\ IsFiniteSet(References(r))
    /\ region_state[r] = "none" => References(r) = {} /\ frees[r] = 0
    /\ region_state[r] = "live" => /\ reference_count[r] > 0
                                   /\ frees[r] + reference_count[r] = Cardinality(References(r))
    /\ region_state[r] = "freed" => frees[r] = Cardinality(References(r))

ReferencesInv ==
    /\ MemoryTyped
    /\ registered = Components => \A r \in Regions : Counted(r)

LEMMA ReferencesInitially == MemoryInit => ReferencesInv
<1> SUFFICES ASSUME MemoryInit PROVE ReferencesInv
  OBVIOUS
<1>1. MemoryTyped
  BY MemoryInitially DEF QuotaInv
<1>2. ASSUME NEW r \in Regions PROVE Counted(r)
  <2>1. \A entry \in Components \X (1 .. ListCapacity) :
          entry[2] >= 1 /\ Len(memory_regions[entry[1]]) = 0 /\ entry[2] \in Int
    BY DEF MemoryInit
  <2>2. References(r) = {}
    BY <2>1 DEF References
  <2>3. QED
    BY <2>2, FS_EmptySet DEF Counted, MemoryInit
<1>3. QED
  BY <1>1, <1>2 DEF ReferencesInv

\* A new entry refers to its region, once more.
LEMMA ReferenceAdded ==
    ASSUME MemoryTyped, NEW c \in Components, NEW r \in Regions, Listed(c, r)
    PROVE  \E entry : /\ entry \notin References(r)
                      /\ References(r)' = References(r) \cup {entry}
                      /\ \A q \in Regions \ {r} : References(q)' = References(q)
<1> DEFINE n == Len(memory_regions[c])
           entry == <<c, n + 1>>
<1>1. /\ n \in Nat /\ n < ListCapacity /\ ListCapacity \in Nat
      /\ Len(memory_regions'[c]) = n + 1 /\ memory_regions'[c][n + 1] = r
      /\ \A i \in 1 .. n : memory_regions'[c][i] = memory_regions[c][i]
      /\ \A d \in Components \ {c} : memory_regions'[d] = memory_regions[d]
  BY ListedEffect, MemoryAssumption
<1> HIDE DEF n
<1>2. entry \in Components \X (1 .. ListCapacity) /\ entry[1] = c /\ entry[2] = n + 1
  BY <1>1
<1>3. \A q : entry \notin References(q)
  BY <1>1, <1>2 DEF References, n
<1>4. ASSUME NEW q \in Regions, NEW e \in Components \X (1 .. ListCapacity), e # entry
      PROVE  e \in References(q)' <=> e \in References(q)
  <2>1. e = <<e[1], e[2]>> /\ e[1] \in Components /\ e[2] \in 1 .. ListCapacity
    OBVIOUS
  <2>2. CASE e[1] # c
    BY <1>1, <2>1, <2>2 DEF References
  <2>3. CASE e[1] = c
    <3>1. e[2] # n + 1
      BY <1>4, <2>1, <2>3
    <3>2. e[2] <= n + 1 <=> e[2] <= n
      BY <1>1, <2>1, <3>1
    <3>3. e[2] <= n => e[2] \in 1 .. n
      BY <1>1, <2>1
    <3>4. QED
      BY <1>1, <2>1, <2>3, <3>2, <3>3 DEF References, n
  <2>4. QED
    BY <2>2, <2>3
<1>5. entry \in References(r)' /\ \A q \in Regions \ {r} : entry \notin References(q)'
  BY <1>1, <1>2 DEF References
<1>6. \A q : References(q) \subseteq Components \X (1 .. ListCapacity)
             /\ References(q)' \subseteq Components \X (1 .. ListCapacity)
  BY DEF References
<1>7. References(r)' = References(r) \cup {entry}
  BY <1>3, <1>4, <1>5, <1>6
<1>8. \A q \in Regions \ {r} : References(q)' = References(q)
  BY <1>3, <1>4, <1>5, <1>6
<1>9. QED
  BY <1>3, <1>7, <1>8

\* Of a region's entries, references and calls, nothing changes.
LEMMA CountedKept ==
    ASSUME NEW r \in Regions, Counted(r), References(r)' = References(r),
           region_state'[r] = region_state[r], frees'[r] = frees[r],
           reference_count'[r] = reference_count[r]
    PROVE  Counted(r)'
  BY DEF Counted

LEMMA AllocateCounts ==
    ASSUME MemoryTyped, \A r \in Regions : Counted(r),
           NEW c \in Components, NEW r \in Regions, NEW bytes, Allocate(c, r, bytes)
    PROVE  \A q \in Regions : Counted(q)'
<1>1. region_state[r] = "none" /\ frees' = frees
  BY DEF Allocate
<1>2. CASE UNCHANGED <<region, memory_regions>>
  <2>1. \A q : References(q)' = References(q)
    BY <1>2 DEF References
  <2>2. UNCHANGED <<region_state, reference_count>>
    BY <1>2 DEF region
  <2>3. QED
    BY <1>1, <2>1, <2>2, CountedKept
<1>3. CASE /\ Listed(c, r)
           /\ region_state' = [region_state EXCEPT ![r] = "live"]
           /\ reference_count' = [reference_count EXCEPT ![r] = 1]
  <2>1. PICK entry : /\ entry \notin References(r)
                     /\ References(r)' = References(r) \cup {entry}
                     /\ \A q \in Regions \ {r} : References(q)' = References(q)
    BY <1>3, ReferenceAdded
  <2>2. /\ region_state'[r] = "live" /\ reference_count'[r] = 1
        /\ \A q \in Regions \ {r} : /\ region_state'[q] = region_state[q]
                                    /\ reference_count'[q] = reference_count[q]
    BY <1>3 DEF MemoryTyped
  <2>3. References(r) = {} /\ frees[r] = 0
    BY <1>1 DEF Counted
  <2>4. References(r)' = {entry}
    BY <2>1, <2>3
  <2>5. IsFiniteSet({entry}) /\ Cardinality({entry}) = 1
    BY FS_Singleton
  <2>6. Counted(r)'
    BY <1>1, <2>2, <2>3, <2>4, <2>5 DEF Counted
  <2>7. \A q \in Regions \ {r} : Counted(q)'
    BY <1>1, <2>1, <2>2, CountedKept
  <2>8. QED
    BY <2>6, <2>7
<1>4. QED
  BY <1>2, <1>3, Zenon DEF Allocate

LEMMA ShareCounts ==
    ASSUME MemoryTyped, \A r \in Regions : Counted(r),
           NEW c \in Components, NEW r \in Regions, NEW target \in Components, Share(c, target, r)
    PROVE  \A q \in Regions : Counted(q)'
<1>1. region_state[r] = "live" /\ UNCHANGED <<region_state, frees>>
  BY DEF Share
<1>2. CASE UNCHANGED <<memory_regions, reference_count>>
  <2>1. \A q : References(q)' = References(q)
    BY <1>2 DEF References
  <2>2. QED
    BY <1>1, <1>2, <2>1, CountedKept
<1>3. CASE Listed(target, r) /\ reference_count' = [reference_count EXCEPT ![r] = @ + 1]
  <2>1. PICK entry : /\ entry \notin References(r)
                     /\ References(r)' = References(r) \cup {entry}
                     /\ \A q \in Regions \ {r} : References(q)' = References(q)
    BY <1>3, ReferenceAdded
  <2>2. /\ reference_count'[r] = reference_count[r] + 1
        /\ \A q \in Regions \ {r} : reference_count'[q] = reference_count[q]
    BY <1>3 DEF MemoryTyped
  <2>3. /\ IsFiniteSet(References(r)) /\ reference_count[r] > 0
        /\ frees[r] + reference_count[r] = Cardinality(References(r))
    BY <1>1 DEF Counted
  <2>4. /\ IsFiniteSet(References(r) \cup {entry})
        /\ Cardinality(References(r) \cup {entry}) = Cardinality(References(r)) + 1
    BY <2>1, <2>3, FS_AddElement
  <2>5. frees[r] \in Nat /\ reference_count[r] \in Nat
    BY DEF MemoryTyped
  <2>6. /\ IsFiniteSet(References(r)') /\ reference_count'[r] > 0
        /\ frees'[r] + reference_count'[r] = Cardinality(References(r)')
    BY <1>1, <2>1, <2>2, <2>3, <2>4, <2>5
  <2>7. Counted(r)'
    BY <1>1, <2>6 DEF Counted
  <2>8. \A q \in Regions \ {r} : Counted(q)'
    BY <1>1, <2>1, <2>2, CountedKept
  <2>9. QED
    BY <2>7, <2>8
<1>4. QED
  BY <1>2, <1>3, Zenon DEF Share

LEMMA FreeCounts ==
    ASSUME MemoryTyped, \A r \in Regions : Counted(r),
           NEW c \in Components, NEW r \in Regions, Free(c, r)
    PROVE  \A q \in Regions : Counted(q)'
<1>1. region_state[r] = "live" /\ memory_regions' = memory_regions
  BY DEF Free, lists
<1>2. /\ frees'[r] = frees[r] + 1 /\ \A q \in Regions \ {r} : frees'[q] = frees[q]
  BY DEF Free, MemoryTyped
<1>3. \A q : References(q)' = References(q)
  BY <1>1 DEF References
<1>4. /\ IsFiniteSet(References(r)) /\ reference_count[r] > 0
      /\ frees[r] + reference_count[r] = Cardinality(References(r))
  BY <1>1 DEF Counted
<1>5. frees[r] \in Nat /\ reference_count[r] \in Nat
  BY DEF MemoryTyped
<1>6. CASE /\ IsShared(r) /\ reference_count' = [reference_count EXCEPT ![r] = @ - 1]
           /\ UNCHANGED region_state
  <2>1. /\ reference_count[r] > 1 /\ reference_count'[r] = reference_count[r] - 1
        /\ \A q \in Regions \ {r} : reference_count'[q] = reference_count[q]
    BY <1>6 DEF IsShared, MemoryTyped
  <2>2. reference_count'[r] > 0 /\ frees'[r] + reference_count'[r] = Cardinality(References(r))
    BY <1>2, <1>4, <1>5, <2>1
  <2>3. Counted(r)'
    BY <1>1, <1>3, <1>4, <1>6, <2>2 DEF Counted
  <2>4. \A q \in Regions \ {r} : Counted(q)'
    BY <1>2, <1>3, <1>6, <2>1, CountedKept
  <2>5. QED
    BY <2>3, <2>4
<1>7. CASE /\ ~IsShared(r) /\ region_state' = [region_state EXCEPT ![r] = "freed"]
           /\ UNCHANGED reference_count
  <2>1. /\ reference_count[r] = 1 /\ region_state'[r] = "freed"
        /\ \A q \in Regions \ {r} : region_state'[q] = region_state[q]
    BY <1>4, <1>5, <1>7 DEF IsShared, MemoryTyped
  <2>2. frees'[r] = Cardinality(References(r))
    BY <1>2, <1>4, <2>1
  <2>3. Counted(r)'
    BY <1>3, <1>4, <2>1, <2>2 DEF Counted
  <2>4. \A q \in Regions \ {r} : Counted(q)'
    BY <1>2, <1>3, <1>7, <2>1, CountedKept
  <2>5. QED
    BY <2>3, <2>4
<1>8. QED
  BY <1>6, <1>7, Zenon DEF Free, Release

LEMMA ReferencesInductive == ReferencesInv /\ [MemoryNext]_memoryVars => ReferencesInv'
<1> SUFFICES ASSUME ReferencesInv, [MemoryNext]_memoryVars PROVE ReferencesInv'
  OBVIOUS
<1>0. MemoryTyped /\ MemoryTyped'
  BY MemoryTypedStep DEF ReferencesInv
<1> SUFFICES ASSUME registered' = Components, registered = Components => \A q \in Regions : Counted(q)
             PROVE  \A q \in Regions : Counted(q)'
  BY <1>0 DEF ReferencesInv
<1>1. ASSUME NEW c \in Components, NEW r \in Regions, NEW bytes \in 1 .. MaxSize, Allocate(c, r, bytes)
      PROVE  \A q \in Regions : Counted(q)'
  <2>1. registered' = registered
    BY <1>1 DEF Allocate
  <2>2. QED
    BY <1>0, <1>1, <2>1, AllocateCounts
<1>2. ASSUME NEW c \in Components, NEW r \in Regions, Free(c, r)
      PROVE  \A q \in Regions : Counted(q)'
  <2>1. registered' = registered
    BY <1>2 DEF Free, life
  <2>2. QED
    BY <1>0, <1>2, <2>1, FreeCounts
<1>3. ASSUME NEW c \in Components, NEW r \in Regions, NEW target \in Components, Share(c, target, r)
      PROVE  \A q \in Regions : Counted(q)'
  <2>1. registered' = registered
    BY <1>3 DEF Share, life
  <2>2. QED
    BY <1>0, <1>3, <2>1, ShareCounts
<1>4. ASSUME NEW c \in Components, UnregisterComponent(c) PROVE FALSE
  <2>1. registered' = registered \ {c}
    BY <1>4 DEF UnregisterComponent
  <2>2. QED
    BY <2>1
<1>5. CASE (\E c \in Components : InitializeComponent(c)) \/ UNCHANGED memoryVars
  <2>1. UNCHANGED <<region_state, reference_count, memory_regions, registered, frees>>
    BY <1>5 DEF InitializeComponent, memoryVars, region, lists, life
  <2>2. \A q : References(q)' = References(q)
    BY <2>1 DEF References
  <2>3. QED
    BY <2>1, <2>2, CountedKept
<1>6. QED
  BY <1>1, <1>2, <1>3, <1>4, <1>5 DEF MemoryNext

-----------------------------------------------------------------------------
(***************************************************************************)
(* polycall_dop_memory_allocate, free and share: what a component is       *)
(* charged is what its live regions take, and within its quota, for any    *)
(* components, regions and sizes; no sum wraps.                            *)
(***************************************************************************)
THEOREM QuotaHolds == MemorySpec => []QuotaIsExact
<1>1. QuotaInv => QuotaIsExact
  BY DEF QuotaInv
<1>2. QED
  BY MemoryInitially, QuotaInductive, <1>1, PTL DEF MemorySpec

(***************************************************************************)
(* polycall_dop_memory_free frees a region at the call that answers the    *)
(* last entry of a list that names it, for any number of components it is  *)
(* shared with.                                                            *)
(***************************************************************************)
THEOREM FreedWithTheLast == MemorySpec => []FreedAfterLastReference
<1>1. ReferencesInv => FreedAfterLastReference
  <2> SUFFICES ASSUME ReferencesInv, registered = Components, NEW r \in Regions
               PROVE  /\ region_state[r] = "live" => frees[r] < Cardinality(References(r))
                      /\ region_state[r] = "freed" => frees[r] = Cardinality(References(r))
    BY DEF FreedAfterLastReference
  <2>1. Counted(r) /\ frees[r] \in Nat /\ reference_count[r] \in Nat
    BY DEF ReferencesInv, MemoryTyped
  <2>2. QED
    BY <2>1 DEF Counted
<1>2. QED
  BY ReferencesInitially, ReferencesInductive, <1>1, PTL DEF MemorySpec
=============================================================================
