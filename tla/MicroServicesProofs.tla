------------------------ MODULE MicroServicesProofs ------------------------
(***************************************************************************)
(* Proofs about MicroServices, for tables, timeouts and words of any size. *)
(*                                                                         *)
(* There are two inductive invariants, one about the table and one about   *)
(* the queues, which rests on the first.  What a filter makes of a queue   *)
(* is a recursive function of how far it has read: the least-number        *)
(* principle, proved below, stands for the induction.                      *)
(***************************************************************************)
EXTENDS MicroServices, FiniteSetTheorems, WellFoundedInduction, TLAPS

TableOK ==
    /\ services \in [Slots -> Service]
    /\ active_mask \subseteq Slots
    /\ now \in 0 .. MaxTime
    /\ gc \in 0 .. MaxServices + 1

IdsDistinct == \A i, j \in active_mask : services[i].id = services[j].id => i = j

\* The inductive invariant.  The collector is right because what it finds by
\* an id is the slot it took the id from.
IInv ==
    /\ TableOK
    /\ CountIsOfMask
    /\ ~DuplicateIds => IdsDistinct /\ CollectorLeavesNoneExpired

-----------------------------------------------------------------------------
\* A slot is taken or given back: the mask and the count move together.
LEMMA MaskFinite == ASSUME TableOK PROVE IsFiniteSet(active_mask)
<1>1. IsFiniteSet(Slots)
  BY FS_Interval, SizesAssumption DEF Slots
<1>2. QED
  BY <1>1, FS_Subset DEF TableOK

LEMMA Taken ==
    ASSUME TableOK, NEW i \in Slots \ active_mask
    PROVE  Cardinality(active_mask \cup {i}) = Cardinality(active_mask) + 1
  BY MaskFinite, FS_AddElement

LEMMA GivenBack ==
    ASSUME TableOK, NEW i \in active_mask
    PROVE  Cardinality(active_mask \ {i}) = Cardinality(active_mask) - 1
  BY MaskFinite, FS_RemoveElement

\* As long as the clock is not behind the last use, nothing wraps.
LEMMA NoWrap == ASSUME NEW d \in Nat, d < Word PROVE d % Word = d
  BY WordAssumption

LEMMA Initially == Init => IInv
<1> SUFFICES ASSUME Init PROVE IInv
  OBVIOUS
<1>1. TableOK
  BY SizesAssumption, CallerAssumption DEF Init, TableOK, Service
<1>2. CountIsOfMask
  BY FS_EmptySet DEF Init, CountIsOfMask
<1>3. QED
  BY <1>1, <1>2 DEF IInv, Init, IdsDistinct, CollectorLeavesNoneExpired

\* A service is added while the collector does not run.
LEMMA CreateStep ==
    ASSUME IInv, NEW id \in ServiceIds, CreateService(id)
    PROVE  IInv'
<1>0. TableOK /\ CountIsOfMask /\ gc = 0 /\ gc' = 0
  BY DEF IInv, CreateService, Callable
<1>1. PICK i \in Slots :
        /\ i \notin active_mask
        /\ services' = [services EXCEPT ![i] = [id |-> id, last_update |-> now]]
        /\ active_mask' = active_mask \cup {i}
  BY DEF CreateService, IsLowestFree
<1>2. TableOK'
  BY <1>0, <1>1 DEF TableOK, Service, CreateService
<1>3. CountIsOfMask'
  BY <1>0, <1>1, Taken DEF CountIsOfMask, CreateService
<1>4. ASSUME ~DuplicateIds PROVE IdsDistinct' /\ CollectorLeavesNoneExpired'
  <2>1. \A j \in active_mask : j # i /\ services'[j] = services[j] /\ services[j].id # id
    BY <1>0, <1>1, <1>4 DEF CreateService, TableOK
  <2>2. services'[i].id = id
    BY <1>0, <1>1 DEF TableOK
  <2>3. IdsDistinct'
    BY <1>1, <1>4, <2>1, <2>2 DEF IInv, IdsDistinct
  <2>4. CollectorLeavesNoneExpired'
    BY <1>0, <1>2, SizesAssumption DEF CollectorLeavesNoneExpired, TableOK, Slots
  <2>5. QED
    BY <2>3, <2>4
<1>5. QED
  BY <1>2, <1>3, <1>4 DEF IInv

\* What destroying does to the table, whoever asks for it.
LEMMA DestroyedEffect ==
    ASSUME IInv, NEW id, Destroyed(id)
    PROVE  \E i \in active_mask :
             /\ IsFound(i, id)
             /\ active_mask' = active_mask \ {i}
             /\ \A j \in active_mask' : services'[j] = services[j]
             /\ services' \in [Slots -> Service]
             /\ CountIsOfMask'
             /\ now' = now
<1>0. TableOK /\ CountIsOfMask
  BY DEF IInv
<1>1. PICK i \in active_mask :
        /\ IsFound(i, id)
        /\ services' = [services EXCEPT ![i].last_update = 0]
        /\ active_mask' = active_mask \ {i}
  BY DEF Destroyed
<1>2. services' \in [Slots -> Service] /\ \A j \in active_mask' : services'[j] = services[j]
  BY <1>0, <1>1, SizesAssumption DEF TableOK, Service
<1>3. CountIsOfMask'
  BY <1>0, <1>1, GivenBack DEF CountIsOfMask, Destroyed
<1>4. QED
  BY <1>1, <1>2, <1>3 DEF Destroyed

LEMMA DestroyStep ==
    ASSUME IInv, NEW id \in ServiceIds, DestroyService(id)
    PROVE  IInv'
<1>0. TableOK /\ gc = 0 /\ gc' = 0 /\ Destroyed(id)
  BY DEF IInv, DestroyService, Callable
<1>1. PICK i \in active_mask :
        /\ active_mask' = active_mask \ {i}
        /\ \A j \in active_mask' : services'[j] = services[j]
        /\ services' \in [Slots -> Service]
        /\ CountIsOfMask'
        /\ now' = now
  BY <1>0, DestroyedEffect
<1>2. TableOK'
  BY <1>0, <1>1 DEF TableOK
<1>3. ~DuplicateIds => IdsDistinct'
  BY <1>1 DEF IInv, IdsDistinct
<1>4. CollectorLeavesNoneExpired'
  BY <1>0, <1>2, SizesAssumption DEF CollectorLeavesNoneExpired, TableOK, Slots
<1>5. QED
  BY <1>1, <1>2, <1>3, <1>4 DEF IInv

\* A step that leaves the mask, the count and every id alone, the collector
\* not running before or after it, or only starting.
LEMMA QuietStep ==
    ASSUME IInv,
           UNCHANGED <<active_mask, count>>,
           services' \in [Slots -> Service],
           \A i \in Slots : services'[i].id = services[i].id,
           now' \in 0 .. MaxTime,
           gc' \in {0, 1}
    PROVE  IInv'
<1>1. TableOK'
  BY SizesAssumption DEF IInv, TableOK
<1>2. CountIsOfMask'
  BY DEF IInv, CountIsOfMask
<1>3. ~DuplicateIds => IdsDistinct'
  BY DEF IInv, IdsDistinct, TableOK
<1>4. CollectorLeavesNoneExpired'
  BY <1>1, SizesAssumption DEF CollectorLeavesNoneExpired, TableOK, Slots
<1>5. QED
  BY <1>1, <1>2, <1>3, <1>4 DEF IInv

LEMMA Refreshed ==
    ASSUME IInv, NEW i \in Slots, services' = [services EXCEPT ![i].last_update = now]
    PROVE  services' \in [Slots -> Service] /\ \A j \in Slots : services'[j].id = services[j].id
  BY DEF IInv, TableOK, Service

\* The collector looks at one slot.  If it destroys a service and ids are
\* distinct, it is that slot's.
LEMMA CollectOneStep ==
    ASSUME IInv, CollectOne
    PROVE  IInv' /\ (~DuplicateIds => \A i \in active_mask \ active_mask' : i = gc /\ IsExpired(gc))
<1>0. TableOK /\ CountIsOfMask /\ gc \in Slots /\ gc' = gc + 1
  BY DEF IInv, CollectOne
<1>1. CASE gc \in active_mask /\ IsExpired(gc) /\ Destroyed(services[gc].id)
  <2>1. PICK i \in active_mask :
          /\ IsFound(i, services[gc].id)
          /\ active_mask' = active_mask \ {i}
          /\ \A j \in active_mask' : services'[j] = services[j]
          /\ services' \in [Slots -> Service]
          /\ CountIsOfMask'
          /\ now' = now
    BY <1>1, DestroyedEffect
  <2>2. TableOK'
    BY <1>0, <2>1, SizesAssumption DEF TableOK, Slots
  <2>3. ASSUME ~DuplicateIds
        PROVE  i = gc /\ IdsDistinct' /\ CollectorLeavesNoneExpired'
    <3>1. i = gc
      BY <1>1, <2>1, <2>3 DEF IInv, IdsDistinct, IsFound
    <3>2. IdsDistinct'
      BY <2>1, <2>3 DEF IInv, IdsDistinct
    <3>3. ASSUME NEW j \in active_mask', j < gc' PROVE ~IsExpired(j)'
      <4>1. j \in active_mask /\ j < gc
        BY <1>0, <2>1, <3>1, <3>3 DEF TableOK, Slots
      <4>2. ~IsExpired(j)
        BY <4>1, <2>3 DEF IInv, CollectorLeavesNoneExpired
      <4>3. QED
        BY <2>1, <3>3, <4>2 DEF IsExpired
    <3>4. QED
      BY <3>1, <3>2, <3>3 DEF CollectorLeavesNoneExpired
  <2>4. QED
    BY <1>1, <2>1, <2>2, <2>3 DEF IInv
<1>2. CASE /\ gc \notin active_mask \/ ~IsExpired(gc)
           /\ UNCHANGED <<services, active_mask, count, now>>
  <2>1. TableOK' /\ CountIsOfMask'
    BY <1>0, <1>2, SizesAssumption DEF TableOK, CountIsOfMask, Slots
  <2>2. ASSUME ~DuplicateIds PROVE IdsDistinct' /\ CollectorLeavesNoneExpired'
    <3>1. IdsDistinct'
      BY <1>2, <2>2 DEF IInv, IdsDistinct
    <3>2. ASSUME NEW j \in active_mask', j < gc' PROVE ~IsExpired(j)'
      <4>1. j \in active_mask /\ (j < gc \/ j = gc)
        BY <1>0, <1>2, <3>2 DEF TableOK, Slots
      <4>2. ~IsExpired(j)
        BY <1>2, <2>2, <4>1 DEF IInv, CollectorLeavesNoneExpired
      <4>3. QED
        BY <1>2, <4>2 DEF IsExpired
    <3>3. QED
      BY <3>1, <3>2 DEF CollectorLeavesNoneExpired
  <2>3. QED
    BY <1>2, <2>1, <2>2 DEF IInv
<1>3. QED
  BY <1>1, <1>2 DEF CollectOne

LEMMA CleanupStep == ASSUME IInv, Cleanup PROVE IInv'
<1>1. TableOK'
  <2>1. services' = [i \in Slots |-> [services[i] EXCEPT !.last_update = 0]]
    BY DEF Cleanup
  <2>2. active_mask' = {} /\ UNCHANGED <<now, gc>>
    BY DEF Cleanup
  <2>3. 0 \in 0 .. MaxTime
    BY SizesAssumption
  <2>4. ASSUME NEW i \in Slots PROVE [services[i] EXCEPT !.last_update = 0] \in Service
    <3>1. services[i] \in Service
      BY DEF IInv, TableOK
    <3> HIDE DEF IInv
    <3>2. QED
      BY <2>3, <3>1 DEF Service
  <2>5. services' \in [Slots -> Service]
    BY <2>1, <2>4
  <2>6. QED
    BY <2>2, <2>5 DEF IInv, TableOK
<1>2. CountIsOfMask'
  BY FS_EmptySet DEF Cleanup, CountIsOfMask
<1>3. QED
  BY <1>1, <1>2 DEF IInv, Cleanup, IdsDistinct, CollectorLeavesNoneExpired

-----------------------------------------------------------------------------
LEMMA InvariantStep == IInv /\ [Next]_vars => IInv'
<1> SUFFICES ASSUME IInv, [Next]_vars PROVE IInv'
  OBVIOUS
<1>0. TableOK
  BY DEF IInv
<1>1. CASE UNCHANGED vars
  BY <1>1 DEF vars, IInv, TableOK, CountIsOfMask, IdsDistinct, CollectorLeavesNoneExpired, IsExpired
<1>2. ASSUME NEW id \in ServiceIds, CreateService(id) PROVE IInv'
  BY <1>2, CreateStep
<1>3. ASSUME NEW id \in ServiceIds, DestroyService(id) PROVE IInv'
  BY <1>3, DestroyStep
<1>4. ASSUME NEW id \in ServiceIds, UpdateServiceState(id) PROVE IInv'
  <2>1. PICK i \in Slots : services' = [services EXCEPT ![i].last_update = now]
    BY <1>0, <1>4 DEF UpdateServiceState, TableOK
  <2>2. QED
    BY <1>0, <1>4, <2>1, Refreshed, QuietStep DEF UpdateServiceState, Callable, TableOK
<1>5. ASSUME NEW id \in ServiceIds, NEW fits, BatchProcess(id, fits) PROVE IInv'
  <2>1. PICK i \in Slots : services' = [services EXCEPT ![i].last_update = now]
    BY <1>0, <1>5 DEF BatchProcess, TableOK
  <2>2. UNCHANGED <<active_mask, count, now, gc>> /\ gc = 0
    BY <1>5 DEF BatchProcess, Callable
  <2>3. QED
    BY <1>0, <2>1, <2>2, Refreshed, QuietStep DEF TableOK
<1>6. ASSUME NEW i \in Slots, ProcessCommands(i) PROVE IInv'
  <2>1. UNCHANGED <<active_mask, count, now, gc>> /\ gc = 0
    BY <1>6 DEF ProcessCommands, Callable
  <2>2. services' = [services EXCEPT ![i].last_update = now]
    BY <1>6 DEF ProcessCommands
  <2>3. QED
    BY <1>0, <2>1, <2>2, Refreshed, QuietStep DEF TableOK
<1>7. ASSUME NEW i \in Slots, NEW predicate, FilterCommands(i, predicate) PROVE IInv'
  <2>1. UNCHANGED <<services, active_mask, count, now, gc>> /\ gc = 0
    BY <1>7 DEF FilterCommands, Callable
  <2>2. QED
    BY <1>0, <2>1, QuietStep DEF TableOK
<1>8. CASE CollectGarbage
  BY <1>0, <1>8, QuietStep DEF CollectGarbage, TableOK
<1>9. CASE CollectOne
  BY <1>9, CollectOneStep
<1>10. CASE EndCollect
  BY <1>0, <1>10, QuietStep DEF EndCollect, TableOK
<1>11. CASE Cleanup
  BY <1>11, CleanupStep
<1>12. CASE Tick
  <2>1. now' \in 0 .. MaxTime
    BY <1>0, <1>12, SizesAssumption DEF Tick, TableOK
  <2>2. QED
    BY <1>0, <1>12, <2>1, QuietStep DEF Tick, Callable, TableOK
<1>13. QED
  BY <1>1, <1>2, <1>3, <1>4, <1>5, <1>6, <1>7, <1>8, <1>9, <1>10, <1>11, <1>12 DEF Next

\* The inductive invariant holds in every state.
THEOREM InvariantHolds == Spec => []IInv
  BY Initially, InvariantStep, PTL DEF Spec

\* create_service's search for a free slot always ends: the count it has
\* checked is the number of bits that are set.
THEOREM CountsItsServices == Spec => []CountIsOfMask
<1>1. IInv => CountIsOfMask
  BY DEF IInv
<1>2. QED
  BY <1>1, InvariantHolds, PTL

\* A pass of the collector leaves no expired service behind it.
THEOREM CollectorComplete ==
    ASSUME ~DuplicateIds PROVE Spec => []CollectorLeavesNoneExpired
<1>1. IInv => CollectorLeavesNoneExpired
  BY DEF IInv
<1>2. QED
  BY <1>1, InvariantHolds, PTL

\* What the collector takes was expired, or the clock was set back behind it.
THEOREM CollectorSound == ASSUME ~DuplicateIds PROVE Spec => CollectsOnlyTheIdle
<1> DEFINE Takes == gc # 0 => \A i \in active_mask \ active_mask' : IdleTooLong(i)
<1>1. IInv /\ [Next]_vars => [Takes]_vars
  <2> SUFFICES ASSUME IInv, Next, gc # 0, NEW i \in active_mask \ active_mask'
               PROVE  IdleTooLong(i)
    BY DEF vars
  <2>1. TableOK
    BY DEF IInv
  <2>2. CollectOne
    BY DEF Next, CreateService, DestroyService, UpdateServiceState, BatchProcess, FilterCommands,
           ProcessCommands, CollectGarbage, EndCollect, Cleanup, Tick, Callable
  <2>3. IsExpired(i)
    BY <2>2, CollectOneStep
  <2>4. now \in Nat /\ services[i].last_update \in Nat /\ now <= MaxTime
    BY <2>1, SizesAssumption DEF TableOK, Service
  <2>5. CASE now >= services[i].last_update
    <3>1. now - services[i].last_update \in Nat /\ now - services[i].last_update < Word
      BY <2>4, <2>5, WordAssumption, SizesAssumption
    <3>2. now - services[i].last_update > Timeout
      BY <2>3, <3>1, NoWrap DEF IsExpired
    <3>3. QED
      BY <2>4, <3>2, SizesAssumption DEF IdleTooLong
  <2>6. QED
    BY <2>4, <2>5 DEF IdleTooLong
<1>2. QED
  BY <1>1, InvariantHolds, PTL DEF Spec, CollectsOnlyTheIdle
-----------------------------------------------------------------------------
\* Every set of numbers that is not empty has a least member.
LEMMA Least ==
    ASSUME NEW T \in SUBSET Nat, T # {}
    PROVE  \E n \in T : \A m \in T : n <= m
<1> DEFINE Below == {0 .. n : n \in T}
<1>1. \A n \in T : 0 .. n \in FiniteSubsetsOf(Nat)
  BY FS_Interval DEF FiniteSubsetsOf
<1>2. Below \subseteq FiniteSubsetsOf(Nat) /\ Below # {}
  BY <1>1
<1>3. IsWellFoundedOn(StrictSubsetOrdering(Nat), FiniteSubsetsOf(Nat))
  BY FS_StrictSubsetOrderingWellFounded
<1>4. PICK b \in Below : \A c \in Below : <<c, b>> \notin StrictSubsetOrdering(Nat)
  <2> HIDE DEF Below
  <2>1. QED
    BY <1>2, <1>3, WFMin
<1>5. PICK n \in T : b = 0 .. n
  OBVIOUS
<1>6. \A m \in T : n <= m
  <2> SUFFICES ASSUME NEW m \in T, m < n PROVE FALSE
    OBVIOUS
  <2>1. 0 .. m \subseteq 0 .. n /\ n \in 0 .. n /\ n \notin 0 .. m
    OBVIOUS
  <2>2. <<0 .. m, 0 .. n>> \in StrictSubsetOrdering(Nat)
    BY <2>1 DEF StrictSubsetOrdering
  <2>3. QED
    BY <2>2, <1>4, <1>5
<1>7. QED
  BY <1>6

\* A queue of commands submitted so far, in the order of their submission.
Ordered(queue, n) ==
    /\ queue \in Seq(1 .. n)
    /\ \A j, k \in 1 .. Len(queue) : j < k => queue[j] < queue[k]

\* One turn of the filter's loop.
Turn(written, read, queue, predicate) ==
    IF read = 0 THEN <<>>
    ELSE IF queue[read] \in predicate THEN Append(written[read - 1], queue[read])
    ELSE written[read - 1]

IsLoop(f, n, queue, predicate) == f = [read \in 0 .. n |-> Turn(f, read, queue, predicate)]

\* There is a function that is what the loop has written after each turn: the
\* least number of turns for which there were none would not be the least.
LEMMA LoopExists ==
    ASSUME NEW queue, NEW predicate
    PROVE  \A n \in Nat : \E f : IsLoop(f, n, queue, predicate)
<1> USE DEF IsLoop
<1> DEFINE Bad == {n \in Nat : ~ \E f : IsLoop(f, n, queue, predicate)}
<1> SUFFICES ASSUME Bad # {} PROVE FALSE
  OBVIOUS
<1>1. PICK n \in Bad : \A m \in Bad : n <= m
  <2>1. Bad \in SUBSET Nat
    OBVIOUS
  <2> HIDE DEF Bad
  <2>2. QED
    BY <2>1, Least
<1>2. CASE n = 0
  <2> DEFINE f == [read \in 0 .. 0 |-> <<>>]
  <2>1. f = [read \in 0 .. 0 |-> Turn(f, read, queue, predicate)]
    BY DEF Turn
  <2>2. QED
    BY <1>1, <1>2, <2>1
<1>3. CASE n # 0
  <2>1. n - 1 \in Nat /\ n - 1 \notin Bad
    BY <1>1, <1>3
  <2>2. PICK f : f = [read \in 0 .. n - 1 |-> Turn(f, read, queue, predicate)]
    BY <2>1
  <2> DEFINE g == [read \in 0 .. n |-> IF read = n THEN Turn(f, n, queue, predicate) ELSE f[read]]
  <2>3. \A read \in 0 .. n : g[read] = Turn(g, read, queue, predicate)
    <3> SUFFICES ASSUME NEW read \in 0 .. n PROVE g[read] = Turn(g, read, queue, predicate)
      OBVIOUS
    <3>1. read # 0 => read - 1 \in 0 .. n - 1 /\ g[read - 1] = f[read - 1]
      BY <1>1
    <3>2. Turn(g, read, queue, predicate) = Turn(f, read, queue, predicate)
      BY <3>1 DEF Turn
    <3>3. read # n => read \in 0 .. n - 1
      BY <1>1
    <3>4. \A k \in 0 .. n - 1 : f[k] = Turn(f, k, queue, predicate)
      BY <2>2, Zenon
    <3>5. read # n => f[read] = Turn(f, read, queue, predicate)
      BY <3>3, <3>4
    <3>6. QED
      BY <3>2, <3>5
  <2>4. g = [read \in 0 .. n |-> Turn(g, read, queue, predicate)]
    BY <2>3
  <2>5. QED
    BY <1>1, <2>4
<1>4. QED
  BY <1>2, <1>3

\* A filter keeps the order and adds nothing.
LEMMA FilterKeepsOrder ==
    ASSUME NEW n \in Nat, NEW queue, Ordered(queue, n), NEW predicate
    PROVE  /\ Ordered(Filtered(queue, predicate), n)
           /\ Len(Filtered(queue, predicate)) <= Len(queue)
           /\ \A k \in 1 .. Len(Filtered(queue, predicate)) :
                \E j \in 1 .. Len(queue) : Filtered(queue, predicate)[k] = queue[j]
<1> DEFINE written[read \in 0 .. Len(queue)] ==
             IF read = 0 THEN <<>>
             ELSE IF queue[read] \in predicate THEN Append(written[read - 1], queue[read])
             ELSE written[read - 1]
<1>1. Len(queue) \in Nat /\ queue \in Seq(1 .. n)
  BY DEF Ordered
<1>2. written = [read \in 0 .. Len(queue) |-> Turn(written, read, queue, predicate)]
  <2>1. \E f : IsLoop(f, Len(queue), queue, predicate)
    BY <1>1, LoopExists
  <2>2. QED
    BY <2>1, Zenon DEF IsLoop, Turn
<1>3. Filtered(queue, predicate) = written[Len(queue)]
  BY DEF Filtered
<1> HIDE DEF written
<1>4. \A read \in 0 .. Len(queue) : written[read] = Turn(written, read, queue, predicate)
  BY <1>2, Zenon
<1> DEFINE Fine(w, read) ==
             /\ Ordered(w, n) /\ Len(w) <= read
             /\ \A k \in 1 .. Len(w) : \E j \in 1 .. read : w[k] = queue[j]
           Bad == {read \in Nat : read <= Len(queue) /\ ~Fine(written[read], read)}
<1>5. Bad = {}
  <2> SUFFICES ASSUME Bad # {} PROVE FALSE
    OBVIOUS
  <2>1. PICK read \in Bad : \A m \in Bad : read <= m
    <3>1. Bad \in SUBSET Nat
      OBVIOUS
    <3> HIDE DEF Bad
    <3>2. QED
      BY <3>1, Least
  <2>2. read # 0
    <3>1. written[0] = <<>>
      <4>1. written[0] = Turn(written, 0, queue, predicate)
        BY <1>1, <1>4
      <4>2. QED
        BY <4>1 DEF Turn
    <3>2. Fine(written[0], 0)
      BY <3>1 DEF Ordered
    <3>3. QED
      BY <2>1, <3>2
  <2> DEFINE w == written[read - 1]
  <2>3. read - 1 \in Nat /\ read - 1 \notin Bad /\ read \in 1 .. Len(queue) /\ read - 1 <= Len(queue)
    BY <2>1, <2>2, <1>1
  <2>4. Fine(w, read - 1)
    BY <2>3
  <2>5. written[read] = IF queue[read] \in predicate THEN Append(w, queue[read]) ELSE w
    BY <1>4, <2>2, <2>3 DEF Turn
  <2> HIDE DEF w
  <2>6. w \in Seq(1 .. n) /\ Len(w) \in Nat /\ Len(w) <= read - 1 /\ queue[read] \in 1 .. n
    <3>1. w \in Seq(1 .. n) /\ Len(w) <= read - 1
      BY <2>4 DEF Ordered
    <3>2. Len(w) \in Nat
      BY <3>1
    <3>3. queue[read] \in 1 .. n
      <4>1. queue \in Seq(1 .. n) /\ read \in 1 .. Len(queue)
        BY <1>1, <2>3
      <4> HIDE DEF Bad
      <4>2. QED
        BY <4>1
    <3>4. QED
      BY <3>1, <3>2, <3>3
  <2>7. CASE written[read] = w
    <3>1. \A j \in 1 .. read - 1 : j \in 1 .. read
      BY <2>3
    <3>2. Fine(w, read)
      BY <2>3, <2>4, <2>6, <3>1
    <3>3. QED
      BY <2>1, <2>7, <3>2
  <2>8. CASE written[read] = Append(w, queue[read])
    <3> DEFINE v == Append(w, queue[read])
    <3>1. /\ v \in Seq(1 .. n) /\ Len(v) = Len(w) + 1 /\ v[Len(v)] = queue[read]
          /\ \A k \in 1 .. Len(w) : v[k] = w[k]
      BY <2>6
    <3> HIDE DEF v
    <3>2. ASSUME NEW k \in 1 .. Len(v) PROVE \E j \in 1 .. read : v[k] = queue[j]
      <4>1. CASE k = Len(v)
        <5>1. read \in 1 .. read
          BY <2>3
        <5>2. QED
          BY <3>1, <4>1, <5>1
      <4>2. CASE k # Len(v)
        <5>1. k \in 1 .. Len(w)
          BY <2>6, <3>1, <4>2
        <5>2. PICK j \in 1 .. read - 1 : w[k] = queue[j]
          BY <2>4, <5>1
        <5>3. j \in 1 .. read
          BY <2>3
        <5>4. QED
          BY <3>1, <5>1, <5>2, <5>3
      <4>3. QED
        BY <4>1, <4>2
    <3>3. ASSUME NEW j \in 1 .. Len(v), NEW k \in 1 .. Len(v), j < k PROVE v[j] < v[k]
      <4>1. j \in 1 .. Len(w)
        BY <2>6, <3>1, <3>3
      <4>2. CASE k = Len(v)
        <5>1. PICK i \in 1 .. read - 1 : w[j] = queue[i]
          BY <2>4, <4>1
        <5>2. i \in 1 .. Len(queue) /\ i < read
          BY <2>3, <1>1
        <5>3. queue[i] < queue[read]
          BY <2>3, <5>2 DEF Ordered
        <5>4. QED
          BY <3>1, <4>1, <4>2, <5>1, <5>3
      <4>3. CASE k # Len(v)
        <5>1. k \in 1 .. Len(w)
          BY <2>6, <3>1, <4>3
        <5>2. QED
          BY <2>4, <3>1, <3>3, <4>1, <5>1 DEF Ordered
      <4>4. QED
        BY <4>2, <4>3
    <3>4. Ordered(v, n) /\ Len(v) <= read
      BY <2>3, <2>6, <3>1, <3>3 DEF Ordered
    <3>5. Fine(v, read)
      BY <3>2, <3>4
    <3>6. QED
      BY <2>1, <2>8, <3>5 DEF v
  <2>9. QED
    BY <2>5, <2>7, <2>8
<1>6. Fine(written[Len(queue)], Len(queue))
  <2>1. Len(queue) \notin Bad
    BY <1>5
  <2>2. QED
    BY <1>1, <2>1
<1>7. QED
  BY <1>3, <1>6
LEMMA OrderedUpTo ==
    ASSUME NEW n \in Nat, NEW m \in Nat, n <= m, NEW queue, Ordered(queue, n)
    PROVE  Ordered(queue, m) /\ queue \in Seq(Nat)
<1>1. 1 .. n \subseteq 1 .. m /\ 1 .. n \subseteq Nat
  OBVIOUS
<1>2. queue \in Seq(1 .. n)
  BY DEF Ordered
<1>3. queue \in Seq(1 .. m) /\ queue \in Seq(Nat)
  BY <1>1, <1>2
<1>4. QED
  BY <1>3 DEF Ordered

\* Later commands go behind the earlier ones, as far as there is room.
LEMMA AppendKeepsOrder ==
    ASSUME NEW n \in Nat, NEW m \in Nat, n <= m, NEW queue, Ordered(queue, n),
           NEW commands, Ordered(commands, m), \A k \in 1 .. Len(commands) : commands[k] > n
    PROVE  /\ Ordered(Appended(queue, commands), m)
           /\ Len(Appended(queue, commands)) <= MaxCommands
<1> DEFINE all == queue \o commands
           room == IF Len(all) < MaxCommands THEN Len(all) ELSE MaxCommands
           q == Appended(queue, commands)
<1>1. queue \in Seq(1 .. m) /\ queue \in Seq(1 .. n) /\ commands \in Seq(1 .. m)
  BY OrderedUpTo DEF Ordered
<1>2. /\ all \in Seq(1 .. m) /\ Len(all) = Len(queue) + Len(commands)
      /\ \A k \in 1 .. Len(all) :
           all[k] = IF k <= Len(queue) THEN queue[k] ELSE commands[k - Len(queue)]
  BY <1>1
<1>3. \A j, k \in 1 .. Len(all) : j < k => all[j] < all[k]
  <2> SUFFICES ASSUME NEW j \in 1 .. Len(all), NEW k \in 1 .. Len(all), j < k PROVE all[j] < all[k]
    OBVIOUS
  <2> HIDE DEF all
  <2>1. Len(queue) \in Nat /\ Len(commands) \in Nat
    BY <1>1
  <2>2. CASE k <= Len(queue)
    <3>1. j \in 1 .. Len(queue) /\ k \in 1 .. Len(queue)
      BY <2>1, <2>2, <1>2
    <3>2. queue[j] < queue[k]
      BY <3>1 DEF Ordered
    <3>3. all[j] = queue[j] /\ all[k] = queue[k]
      BY <2>1, <2>2, <1>2, <3>1
    <3>4. QED
      BY <3>2, <3>3
  <2>3. CASE j <= Len(queue) /\ k > Len(queue)
    <3>1. j \in 1 .. Len(queue) /\ k - Len(queue) \in 1 .. Len(commands)
      BY <2>1, <2>3, <1>2
    <3>2. all[j] = queue[j] /\ all[k] = commands[k - Len(queue)]
      BY <2>1, <2>3, <1>2
    <3>3. queue[j] \in 1 .. n /\ commands[k - Len(queue)] \in 1 .. m
      <4>1. queue[j] \in 1 .. n
        BY <3>1, <1>1
      <4>2. commands[k - Len(queue)] \in 1 .. m
        BY <3>1, <1>1
      <4>3. QED
        BY <4>1, <4>2
    <3>4. commands[k - Len(queue)] > n
      BY <3>1
    <3>5. QED
      BY <3>2, <3>3, <3>4
  <2>4. CASE j > Len(queue)
    <3>1. j - Len(queue) \in 1 .. Len(commands) /\ k - Len(queue) \in 1 .. Len(commands)
      <4>1. /\ j \in Nat /\ k \in Nat /\ j < k /\ j > Len(queue)
            /\ k <= Len(queue) + Len(commands)
        BY <2>1, <2>4, <1>2
      <4>2. QED
        BY <2>1, <4>1
    <3>2. all[j] = commands[j - Len(queue)] /\ all[k] = commands[k - Len(queue)]
      BY <2>1, <2>4, <1>2
    <3>3. j - Len(queue) < k - Len(queue)
      BY <2>1
    <3>4. commands[j - Len(queue)] < commands[k - Len(queue)]
      BY <3>1, <3>3 DEF Ordered
    <3>5. QED
      BY <3>2, <3>4
  <2>5. QED
    BY <2>1, <2>2, <2>3, <2>4
<1> HIDE DEF all
<1>4. room \in Nat /\ room <= MaxCommands /\ room <= Len(all) /\ Len(all) \in Nat
  BY <1>2, SizesAssumption
<1>5. q = SubSeq(all, 1, room)
  BY DEF Appended, FirstOf, all
<1> HIDE DEF room, q
<1>6. q \in Seq(1 .. m) /\ Len(q) = room /\ \A k \in 1 .. room : q[k] = all[k]
  BY <1>2, <1>4, <1>5
<1>7. \A k \in 1 .. room : k \in 1 .. Len(all)
  BY <1>4
<1>8. Ordered(q, m) /\ Len(q) <= MaxCommands
  BY <1>3, <1>4, <1>6, <1>7 DEF Ordered
<1>9. QED
  BY <1>8 DEF q

-----------------------------------------------------------------------------
\* The inductive invariant of the queues, those of slots not in use included.
QueuesOK ==
    /\ submitted \in 0 .. MaxSubmitted /\ up \in BOOLEAN
    /\ command_queue \in [Slots -> Seq(Nat)]
    /\ \A i \in Slots : Ordered(command_queue[i], submitted) /\ Len(command_queue[i]) <= MaxCommands

Replaced(i, queue) == command_queue' = [command_queue EXCEPT ![i] = queue]

LEMMA ReplacedStep ==
    ASSUME QueuesOK, NEW i \in Slots, NEW queue, Replaced(i, queue),
           submitted' \in submitted .. MaxSubmitted, up' \in BOOLEAN,
           Ordered(queue, submitted'), Len(queue) <= MaxCommands
    PROVE  QueuesOK'
<1>1. submitted \in Nat /\ submitted' \in Nat /\ submitted <= submitted' /\ submitted' \in 0 .. MaxSubmitted
  BY SizesAssumption DEF QueuesOK
<1>2. queue \in Seq(Nat)
  BY <1>1, OrderedUpTo
<1>3. /\ command_queue' \in [Slots -> Seq(Nat)]
      /\ \A j \in Slots : command_queue'[j] = IF j = i THEN queue ELSE command_queue[j]
  BY <1>2 DEF QueuesOK, Replaced
<1>4. ASSUME NEW j \in Slots
      PROVE  Ordered(command_queue'[j], submitted') /\ Len(command_queue'[j]) <= MaxCommands
  <2>1. CASE j = i
    BY <1>3, <2>1
  <2>2. CASE j # i
    <3>1. Ordered(command_queue[j], submitted) /\ Len(command_queue[j]) <= MaxCommands
      BY DEF QueuesOK
    <3>2. Ordered(command_queue[j], submitted')
      BY <1>1, <3>1, OrderedUpTo
    <3>3. QED
      BY <1>3, <2>2, <3>1, <3>2
  <2>3. QED
    BY <2>1, <2>2
<1>5. QED
  BY <1>1, <1>3, <1>4 DEF QueuesOK

LEMMA EmptyQueue == ASSUME NEW n \in Nat PROVE Ordered(<<>>, n) /\ Len(<<>>) <= MaxCommands
  BY SizesAssumption DEF Ordered

LEMMA EmptiedStep ==
    ASSUME QueuesOK, NEW i \in Slots, Replaced(i, <<>>), UNCHANGED <<submitted, up>>
    PROVE  QueuesOK'
<1>1. submitted \in Nat /\ submitted' \in submitted .. MaxSubmitted /\ up' \in BOOLEAN
  BY SizesAssumption DEF QueuesOK
<1>2. QED
  BY <1>1, EmptyQueue, ReplacedStep

LEMMA FilterStep ==
    ASSUME QueuesOK, NEW i \in Slots, NEW predicate, FilterCommands(i, predicate)
    PROVE  QueuesOK'
<1> DEFINE q == Filtered(command_queue[i], predicate)
<1>1. submitted \in Nat /\ submitted' = submitted /\ submitted' \in submitted .. MaxSubmitted /\ up' \in BOOLEAN
  BY SizesAssumption DEF QueuesOK, FilterCommands
<1>2. Ordered(command_queue[i], submitted) /\ Len(command_queue[i]) <= MaxCommands
  BY DEF QueuesOK
<1>3. Ordered(q, submitted) /\ Len(q) <= Len(command_queue[i])
  BY <1>1, <1>2, FilterKeepsOrder
<1>4. Len(q) <= MaxCommands
  <2>1. Len(q) \in Int /\ Len(command_queue[i]) \in Int
    BY <1>2, <1>3 DEF Ordered
  <2> HIDE DEF q
  <2>2. QED
    BY <1>2, <1>3, <2>1, SizesAssumption
<1>5. Replaced(i, q)
  BY DEF FilterCommands, Replaced, QueuesOK
<1> HIDE DEF q
<1>6. QED
  BY <1>1, <1>3, <1>4, <1>5, ReplacedStep

LEMMA BatchStep ==
    ASSUME QueuesOK, active_mask \subseteq Slots, NEW id \in ServiceIds,
           NEW n \in Nat, NEW fits \in [1 .. n -> BOOLEAN], BatchProcess(id, fits)
    PROVE  QueuesOK'
<1> DEFINE commands == [k \in DOMAIN fits |-> submitted + k]
           fit == {submitted + k : k \in {m \in DOMAIN fits : fits[m]}}
           taken == Filtered(commands, fit)
<1>1. /\ submitted \in Nat /\ submitted' = submitted + n /\ submitted' <= MaxSubmitted
      /\ submitted' \in submitted .. MaxSubmitted /\ submitted' \in Nat /\ up' \in BOOLEAN
  <2>1. Len(fits) = n
    OBVIOUS
  <2>2. QED
    BY <2>1, SizesAssumption DEF QueuesOK, BatchProcess
<1>2. Ordered(commands, submitted') /\ Len(commands) = n /\ \A k \in 1 .. n : commands[k] = submitted + k
  <2>1. commands = [k \in 1 .. n |-> submitted + k]
    OBVIOUS
  <2>2. \A k \in 1 .. n : submitted + k \in 1 .. submitted'
    BY <1>1
  <2>3. commands \in Seq(1 .. submitted') /\ Len(commands) = n
    BY <2>1, <2>2
  <2>4. \A k \in 1 .. n : commands[k] = submitted + k
    BY <2>1
  <2> HIDE DEF commands
  <2>5. QED
    BY <1>1, <2>3, <2>4 DEF Ordered
<1>3. PICK i \in Slots : command_queue' = [command_queue EXCEPT ![i] = Appended(command_queue[i], taken)]
  BY DEF BatchProcess, QueuesOK
<1> HIDE DEF commands, fit
<1>4. /\ Ordered(taken, submitted')
      /\ \A k \in 1 .. Len(taken) : \E j \in 1 .. n : taken[k] = commands[j]
  BY <1>1, <1>2, FilterKeepsOrder
<1> DEFINE q == Appended(command_queue[i], taken)
<1>5. Replaced(i, q)
  BY <1>3 DEF Replaced
<1> HIDE DEF taken
<1>6. \A k \in 1 .. Len(taken) : taken[k] > submitted
  BY <1>1, <1>2, <1>4
<1>7. Ordered(q, submitted') /\ Len(q) <= MaxCommands
  <2>1. Ordered(command_queue[i], submitted) /\ submitted <= submitted'
    BY <1>1 DEF QueuesOK
  <2>2. QED
    BY <1>1, <1>4, <1>6, <2>1, AppendKeepsOrder
<1> HIDE DEF q
<1>8. QED
  BY <1>1, <1>5, <1>7, ReplacedStep
LEMMA QueuesStep == IInv /\ QueuesOK /\ [Next]_vars => QueuesOK'
<1> SUFFICES ASSUME IInv, QueuesOK, [Next]_vars PROVE QueuesOK'
  OBVIOUS
<1>0. TableOK /\ active_mask \subseteq Slots /\ submitted \in Nat
  BY SizesAssumption DEF IInv, TableOK, QueuesOK
<1>1. CASE UNCHANGED <<command_queue, submitted, up>>
  BY <1>1 DEF QueuesOK
<1>2. ASSUME NEW i \in Slots, command_queue' = [command_queue EXCEPT ![i] = <<>>],
             UNCHANGED <<submitted, up>>
      PROVE  QueuesOK'
  <2>1. Replaced(i, <<>>)
    BY <1>2 DEF Replaced
  <2>2. QED
    BY <1>2, <2>1, EmptiedStep
<1>3. ASSUME NEW id, Destroyed(id) PROVE QueuesOK'
  BY <1>0, <1>2, <1>3 DEF Destroyed
<1>4. ASSUME NEW id \in ServiceIds, CreateService(id) PROVE QueuesOK'
  BY <1>2, <1>4 DEF CreateService
<1>5. ASSUME NEW id \in ServiceIds, DestroyService(id) PROVE QueuesOK'
  BY <1>3, <1>5 DEF DestroyService
<1>6. ASSUME NEW id \in ServiceIds, UpdateServiceState(id) PROVE QueuesOK'
  BY <1>1, <1>6 DEF UpdateServiceState
<1>7. ASSUME NEW id \in ServiceIds, NEW n \in 1 .. MaxBatch, NEW fits \in [1 .. n -> BOOLEAN],
             BatchProcess(id, fits)
      PROVE  QueuesOK'
  BY <1>0, <1>7, BatchStep
<1>8. ASSUME NEW i \in Slots, ProcessCommands(i) PROVE QueuesOK'
  BY <1>2, <1>8 DEF ProcessCommands
<1>9. ASSUME NEW i \in Slots, NEW predicate, FilterCommands(i, predicate) PROVE QueuesOK'
  BY <1>9, FilterStep
<1>10. CASE CollectGarbage \/ EndCollect \/ Tick
  BY <1>1, <1>10 DEF CollectGarbage, EndCollect, Tick
<1>11. CASE CollectOne
  BY <1>1, <1>3, <1>11 DEF CollectOne
<1>12. CASE Cleanup
  <2>1. \A i \in Slots : command_queue'[i] = <<>>
    BY <1>12 DEF Cleanup
  <2>2. command_queue' \in [Slots -> Seq(Nat)]
    BY <1>12 DEF Cleanup
  <2>3. \A i \in Slots : Ordered(command_queue'[i], submitted') /\ Len(command_queue'[i]) <= MaxCommands
    BY <1>0, <1>12, <2>1, EmptyQueue DEF Cleanup
  <2>4. QED
    BY <1>12, <2>2, <2>3 DEF Cleanup, QueuesOK
<1>13. CASE UNCHANGED vars
  BY <1>1, <1>13 DEF vars
<1>14. QED
  BY <1>4, <1>5, <1>6, <1>7, <1>8, <1>9, <1>10, <1>11, <1>12, <1>13 DEF Next

LEMMA QueuesInitially == Init => QueuesOK
<1> SUFFICES ASSUME Init PROVE QueuesOK
  OBVIOUS
<1>1. \A i \in Slots : command_queue[i] = <<>>
  BY DEF Init
<1>2. command_queue \in [Slots -> Seq(Nat)]
  BY DEF Init
<1>3. submitted = 0 /\ up = TRUE
  BY DEF Init
<1>4. \A i \in Slots : Ordered(command_queue[i], submitted) /\ Len(command_queue[i]) <= MaxCommands
  BY <1>1, <1>3, EmptyQueue
<1>5. QED
  BY <1>2, <1>3, <1>4, SizesAssumption DEF QueuesOK

LEMMA QueuesHold == Spec => []QueuesOK
  BY QueuesInitially, QueuesStep, InvariantHolds, PTL DEF Spec

(***************************************************************************)
(* Each queue keeps its commands in the order of their submission, after   *)
(* any number of batches with rejected commands, of filters, and of        *)
(* commands dropped from a full queue.                                     *)
(***************************************************************************)
THEOREM QueuesKeepOrder == Spec => []QueuesInOrder
<1>1. IInv /\ QueuesOK => QueuesInOrder
  BY DEF IInv, TableOK, QueuesOK, Ordered, QueuesInOrder
<1>2. QED
  BY <1>1, QueuesHold, InvariantHolds, PTL

(***************************************************************************)
(* The table, its count and its queues stay within their sizes.            *)
(***************************************************************************)
THEOREM Typed == Spec => []TypeOK
<1>1. IInv /\ QueuesOK => TypeOK
  <2> SUFFICES ASSUME IInv, QueuesOK PROVE TypeOK
    OBVIOUS
  <2>1. TableOK /\ CountIsOfMask
    BY DEF IInv
  <2>2. count \in 0 .. MaxServices
    <3>1. IsFiniteSet(Slots) /\ Cardinality(Slots) = MaxServices
      BY FS_Interval, SizesAssumption DEF Slots
    <3>2. Cardinality(active_mask) \in Nat /\ Cardinality(active_mask) <= MaxServices
      BY <2>1, <3>1, FS_Subset, FS_CardinalityType DEF TableOK
    <3>3. QED
      BY <2>1, <3>2, SizesAssumption DEF CountIsOfMask
  <2>3. \A i \in Slots : command_queue[i] \in Seq(1 .. MaxSubmitted)
    <3>1. submitted \in Nat /\ MaxSubmitted \in Nat /\ submitted <= MaxSubmitted
      BY SizesAssumption DEF QueuesOK
    <3>2. \A i \in Slots : Ordered(command_queue[i], MaxSubmitted)
      BY <3>1, OrderedUpTo DEF QueuesOK
    <3>3. QED
      BY <3>2 DEF Ordered
  <2>4. command_queue \in [Slots -> Seq(1 .. MaxSubmitted)]
    BY <2>3 DEF QueuesOK
  <2>5. QED
    BY <2>1, <2>2, <2>4 DEF TypeOK, TableOK, QueuesOK
<1>2. QED
  BY <1>1, QueuesHold, InvariantHolds, PTL
=============================================================================
