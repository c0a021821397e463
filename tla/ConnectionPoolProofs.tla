------------------------ MODULE ConnectionPoolProofs ------------------------
(***************************************************************************)
(* Proofs about ConnectionPool, for any number of threads and connections, *)
(* any sizes and any configuration: its types, what active_count counts,   *)
(* that nothing leaks, that no wakeup is lost, and that a pool which keeps *)
(* its slots lends every connection to one thread.                         *)
(*                                                                         *)
(* Two of these count, and the loop of resize is a recursive function: the *)
(* first sections prove the least-number principle, by which the others    *)
(* reason about loops, and what one changed slot does to a count.          *)
(***************************************************************************)
EXTENDS ConnectionPool, FiniteSetTheorems, WellFoundedInduction, TLAPS

Fits == config.initial <= config.max

\* The types of a pool that fits into its array.
Within ==
    /\ config \in Configs
    /\ slots \in [Slots -> [ctx : Conns \cup {NoConn}, state : ConnStates]]
    /\ pool_size \in 0 .. config.max /\ active_count \in Nat
    /\ live \subseteq Conns
    /\ at \in [Threads -> {"out", "waiting", "woken", "expired", "using"}]
    /\ holds \in [Threads -> Conns \cup {NoConn}]
    /\ up \in BOOLEAN

\* One that does not stays as init has made it.
Untouched ==
    /\ config \in Configs /\ pool_size = config.initial
    /\ slots = [i \in Slots |-> Entry(NoConn, "IDLE")]
    /\ active_count = 0 /\ live = {} /\ ~up
    /\ at = [t \in Threads |-> "out"]
    /\ holds = [t \in Threads |-> NoConn]

-----------------------------------------------------------------------------
\* Every set of numbers that is not empty has a least member, and a greatest
\* one if it is bounded.
LEMMA Least ==
    ASSUME NEW T \in SUBSET Nat, T # {}
    PROVE  \E n \in T : \A m \in T : n <= m
<1> DEFINE Below == {0 .. n : n \in T}
<1>1. \A n \in T : 0 .. n \in FiniteSubsetsOf(Nat)
  BY FS_Interval DEF FiniteSubsetsOf
<1>2. Below \subseteq FiniteSubsetsOf(Nat) /\ Below # {}
  BY <1>1
<1>3. IsWellFoundedOn(StrictSubsetOrdering(Nat), FiniteSubsetsOf(Nat))
  BY FS_StrictSubsetOrderingWellFounded
<1>4. PICK b \in Below : \A c \in Below : <<c, b>> \notin StrictSubsetOrdering(Nat)
  <2> HIDE DEF Below
  <2>1. QED
    BY <1>2, <1>3, WFMin
<1>5. PICK n \in T : b = 0 .. n
  OBVIOUS
<1>6. \A m \in T : n <= m
  <2> SUFFICES ASSUME NEW m \in T, m < n PROVE FALSE
    OBVIOUS
  <2>1. 0 .. m \subseteq 0 .. n /\ n \in 0 .. n /\ n \notin 0 .. m
    OBVIOUS
  <2>2. <<0 .. m, 0 .. n>> \in StrictSubsetOrdering(Nat)
    BY <2>1 DEF StrictSubsetOrdering
  <2>3. QED
    BY <2>2, <1>4, <1>5
<1>7. QED
  BY <1>6

LEMMA Greatest ==
    ASSUME NEW n \in Nat, NEW T \in SUBSET (0 .. n), T # {}
    PROVE  \E i \in T : \A j \in T : j <= i
<1> DEFINE Distances == {n - i : i \in T}
<1>1. Distances \in SUBSET Nat /\ Distances # {}
  <2>1. \A i \in T : n - i \in Nat
    OBVIOUS
  <2>2. Distances \subseteq Nat
    BY <2>1
  <2>3. PICK i \in T : TRUE
    OBVIOUS
  <2>4. n - i \in Distances
    OBVIOUS
  <2>5. QED
    BY <2>2, <2>4
<1>2. PICK d \in Distances : \A e \in Distances : d <= e
  <2> HIDE DEF Distances
  <2>1. QED
    BY <1>1, Least
<1>3. PICK i \in T : d = n - i
  OBVIOUS
<1>4. \A j \in T : n - i <= n - j
  BY <1>2, <1>3
<1>5. QED
  BY <1>3, <1>4

-----------------------------------------------------------------------------
\* The entries below n in state s, and how their number follows the array.
EntryType == [ctx : Conns \cup {NoConn}, state : ConnStates]
InState(s, sl, n) == {i \in 0 .. n - 1 : sl[i].state = s}
One(b) == IF b THEN 1 ELSE 0

LEMMA CountType ==
    ASSUME NEW s, NEW sl, NEW n \in Nat
    PROVE  IsFiniteSet(InState(s, sl, n)) /\ Cardinality(InState(s, sl, n)) \in Nat
<1>1. IsFiniteSet(0 .. n - 1) /\ InState(s, sl, n) \in SUBSET (0 .. n - 1)
  BY FS_Interval DEF InState
<1>2. QED
  BY <1>1, FS_Subset, FS_CardinalityType

LEMMA CountNext ==
    ASSUME NEW s, NEW sl, NEW n \in Nat
    PROVE  Cardinality(InState(s, sl, n + 1)) =
             Cardinality(InState(s, sl, n)) + One(sl[n].state = s)
<1>1. CASE sl[n].state = s
  <2>1. InState(s, sl, n + 1) = InState(s, sl, n) \cup {n} /\ n \notin InState(s, sl, n)
    BY <1>1 DEF InState
  <2>2. Cardinality(InState(s, sl, n) \cup {n}) = Cardinality(InState(s, sl, n)) + 1
    BY <2>1, CountType, FS_AddElement
  <2>3. QED
    BY <1>1, <2>1, <2>2 DEF One
<1>2. CASE sl[n].state # s
  <2>1. InState(s, sl, n + 1) = InState(s, sl, n)
    BY <1>2 DEF InState
  <2>2. QED
    BY <1>2, <2>1, CountType DEF One
<1>3. QED
  BY <1>1, <1>2

LEMMA CountSame ==
    ASSUME NEW s, NEW sl, NEW tl, NEW n \in Nat,
           \A k \in 0 .. n - 1 : tl[k].state = sl[k].state
    PROVE  InState(s, tl, n) = InState(s, sl, n)
  BY DEF InState

LEMMA CountSet ==
    ASSUME NEW s, NEW sl, NEW tl, NEW n \in Nat, NEW i \in 0 .. n - 1,
           \A k \in 0 .. n - 1 : k # i => tl[k].state = sl[k].state
    PROVE  Cardinality(InState(s, tl, n)) =
             Cardinality(InState(s, sl, n)) - One(sl[i].state = s) + One(tl[i].state = s)
<1> DEFINE rest == InState(s, sl, n) \ {i}
<1>1. /\ IsFiniteSet(rest) /\ i \notin rest /\ Cardinality(rest) \in Int
      /\ Cardinality(rest) = Cardinality(InState(s, sl, n)) - One(sl[i].state = s)
  <2>1. /\ IsFiniteSet(rest)
        /\ Cardinality(rest) = IF i \in InState(s, sl, n)
                               THEN Cardinality(InState(s, sl, n)) - 1
                               ELSE Cardinality(InState(s, sl, n))
    BY CountType, FS_RemoveElement
  <2>2. i \in InState(s, sl, n) <=> sl[i].state = s
    BY DEF InState
  <2>3. QED
    BY <2>1, <2>2, CountType DEF One
<1>2. InState(s, tl, n) = IF tl[i].state = s THEN rest \cup {i} ELSE rest
  BY DEF InState
<1> HIDE DEF rest
<1>3. CASE tl[i].state = s
  <2>1. Cardinality(rest \cup {i}) = Cardinality(rest) + 1
    BY <1>1, FS_AddElement
  <2>2. Cardinality(InState(s, tl, n)) = Cardinality(rest) + 1 /\ One(tl[i].state = s) = 1
    BY <1>2, <1>3, <2>1 DEF One
  <2>3. QED
    BY <1>1, <2>2
<1>4. CASE tl[i].state # s
  BY <1>1, <1>2, <1>4 DEF One
<1>5. QED
  BY <1>3, <1>4

LEMMA CountGivenUp ==
    ASSUME NEW s, NEW sl, NEW tl, NEW n \in Nat \ {0}, NEW i \in 0 .. n - 1,
           tl[i] = sl[n - 1],
           \A k \in 0 .. n - 1 : k # i => tl[k] = sl[k]
    PROVE  Cardinality(InState(s, tl, n - 1)) = Cardinality(InState(s, sl, n)) - One(sl[i].state = s)
<1> DEFINE m == n - 1
<1>1. m \in Nat /\ n = m + 1
  OBVIOUS
<1>2. Cardinality(InState(s, sl, n)) = Cardinality(InState(s, sl, m)) + One(sl[m].state = s)
  BY <1>1, CountNext
<1>3. CASE i = m
  <2>1. InState(s, tl, m) = InState(s, sl, m)
    BY <1>1, <1>3, CountSame
  <2>2. QED
    BY <1>1, <1>2, <1>3, <2>1, CountType DEF One
<1>4. CASE i # m
  <2>1. i \in 0 .. m - 1
    BY <1>1, <1>4
  <2>2. Cardinality(InState(s, tl, m)) =
          Cardinality(InState(s, sl, m)) - One(sl[i].state = s) + One(tl[i].state = s)
    <3>1. \A k \in 0 .. m - 1 : k # i => tl[k].state = sl[k].state
      BY <1>1
    <3> HIDE DEF m
    <3>2. QED
      BY <1>1, <2>1, <3>1, CountSet
  <2>3. QED
    BY <1>1, <1>2, <2>1, <2>2, CountType DEF One
<1>5. QED
  BY <1>3, <1>4

-----------------------------------------------------------------------------
\* The operations on a pool as a value, field by field.
Shape(pool) == DOMAIN pool = {"slots", "size", "live", "sound"}

LEMMA FreedFields ==
    ASSUME NEW pool, NEW c, Shape(pool)
    PROVE  /\ Shape(Freeing(pool, c))
           /\ Freeing(pool, c).slots = pool.slots
           /\ Freeing(pool, c).size = pool.size
           /\ Freeing(pool, c).live = pool.live \ {c}
  BY DEF Shape, Freeing

LEMMA GivenUpFields ==
    ASSUME NEW pool, NEW i, Shape(pool)
    PROVE  /\ Shape(Without(pool, i))
           /\ Without(pool, i).slots = [pool.slots EXCEPT ![i] = pool.slots[pool.size - 1]]
           /\ Without(pool, i).size = pool.size - 1
           /\ Without(pool, i).live = pool.live \ {pool.slots[i].ctx}
<1> DEFINE c == pool.slots[i].ctx
           freed == Freeing(pool, c)
<1>1. /\ Shape(freed) /\ freed.slots = pool.slots /\ freed.size = pool.size
      /\ freed.live = pool.live \ {c}
  BY FreedFields
<1>2. Without(pool, i) = [freed EXCEPT !.slots[i] = pool.slots[pool.size - 1], !.size = pool.size - 1]
  BY DEF Without
<1> HIDE DEF freed, c
<1>3. QED
  BY <1>1, <1>2 DEF Shape, c

LEMMA NowFields == Shape(Now) /\ Now.slots = slots /\ Now.size = pool_size /\ Now.live = live
  BY DEF Now, Shape

-----------------------------------------------------------------------------
\* A pool as a value, and what giving up closable slots of p leaves in q.
IsPool(pool) ==
    /\ Shape(pool)
    /\ pool.slots \in [Slots -> EntryType]
    /\ pool.size \in 0 .. MaxPool /\ pool.live \subseteq Conns

Count(s, pool) == Cardinality(InState(s, pool.slots, pool.size))
Contexts(pool) == {pool.slots[i].ctx : i \in 0 .. pool.size - 1}
Uncooled(pool) == \A i \in Slots : pool.slots[i].state \notin Cooling

Reduces(p, q) ==
    /\ IsPool(q) /\ q.size <= p.size
    /\ Count("ACTIVE", q) = Count("ACTIVE", p)
    /\ p.live \subseteq Contexts(p) => q.live \subseteq Contexts(q)
    /\ Uncooled(p) => Uncooled(q) /\ Count("IDLE", q) - q.size = Count("IDLE", p) - p.size

LEMMA CountNat == ASSUME NEW s, NEW pool, IsPool(pool) PROVE Count(s, pool) \in Nat
  BY CountType, PoolAssumption DEF Count, IsPool

LEMMA ReducesRefl == ASSUME NEW p, IsPool(p) PROVE Reduces(p, p)
  BY PoolAssumption DEF Reduces, IsPool

LEMMA ReducesTrans ==
    ASSUME NEW p, NEW q, NEW r, Reduces(p, q), Reduces(q, r), IsPool(p)
    PROVE  Reduces(p, r)
<1>1. r.size <= p.size
  BY PoolAssumption DEF Reduces, IsPool
<1>2. QED
  BY <1>1 DEF Reduces

\* One slot is given up: the others keep their contexts and their states.
LEMMA GivesUp ==
    ASSUME NEW pool, IsPool(pool), NEW i \in 0 .. pool.size - 1, Closable(pool.slots[i])
    PROVE  Reduces(pool, Without(pool, i)) /\ Without(pool, i).size = pool.size - 1
<1> DEFINE w == Without(pool, i)
           n == pool.size
<1>1. /\ Shape(w) /\ w.size = n - 1 /\ w.live = pool.live \ {pool.slots[i].ctx}
      /\ w.slots = [pool.slots EXCEPT ![i] = pool.slots[n - 1]]
  BY GivenUpFields DEF IsPool
<1>2. n \in Nat \ {0} /\ n <= MaxPool /\ i \in Slots /\ n - 1 \in Slots /\ MaxPool \in Nat
  BY PoolAssumption DEF IsPool, Slots
<1>3. pool.slots \in [Slots -> EntryType]
  BY DEF IsPool
<1>4. \A k \in Slots : w.slots[k] = IF k = i THEN pool.slots[n - 1] ELSE pool.slots[k]
  BY <1>1, <1>3
<1>5. IsPool(w)
  <2>1. w.slots \in [Slots -> EntryType]
    BY <1>1, <1>2, <1>3
  <2>2. w.size \in 0 .. MaxPool /\ w.live \subseteq Conns
    BY <1>1, <1>2 DEF IsPool
  <2>3. QED
    BY <1>1, <2>1, <2>2 DEF IsPool
<1>6. 0 .. n - 1 \subseteq Slots
  BY <1>2 DEF Slots
<1>7. \A s : Count(s, w) = Count(s, pool) - One(pool.slots[i].state = s)
  <2> TAKE s
  <2>1. w.slots[i] = pool.slots[n - 1] /\ \A k \in 0 .. n - 1 : k # i => w.slots[k] = pool.slots[k]
    BY <1>2, <1>4, <1>6
  <2>2. Cardinality(InState(s, w.slots, n - 1)) =
          Cardinality(InState(s, pool.slots, n)) - One(pool.slots[i].state = s)
    <3> HIDE DEF w, n
    <3>1. n \in Nat \ {0} /\ i \in 0 .. n - 1
      BY <1>2 DEF n
    <3>2. QED
      BY <2>1, <3>1, CountGivenUp
  <2>3. QED
    BY <2>2, <1>1 DEF Count
<1>8. Count("ACTIVE", w) = Count("ACTIVE", pool)
  <2>1. pool.slots[i].state # "ACTIVE"
    BY DEF Closable, Cooling
  <2>2. QED
    BY <2>1, <1>7, CountNat DEF One
<1>9. pool.live \subseteq Contexts(pool) => w.live \subseteq Contexts(w)
  <2> SUFFICES ASSUME pool.live \subseteq Contexts(pool), NEW c \in w.live
               PROVE  \E k \in 0 .. w.size - 1 : c = w.slots[k].ctx
    BY DEF Contexts
  <2>1. PICK k \in 0 .. n - 1 : c = pool.slots[k].ctx /\ k # i
    BY <1>1 DEF Contexts
  <2>2. CASE k = n - 1
    <3>1. i \in 0 .. w.size - 1 /\ w.slots[i].ctx = c
      BY <1>1, <1>2, <1>4, <2>1, <2>2
    <3>2. QED
      BY <3>1
  <2>3. CASE k # n - 1
    <3>1. k \in 0 .. w.size - 1 /\ w.slots[k].ctx = c
      BY <1>1, <1>2, <1>4, <1>6, <2>1, <2>3
    <3>2. QED
      BY <3>1
  <2>4. QED
    BY <2>2, <2>3
<1>10. Uncooled(pool) => Uncooled(w) /\ Count("IDLE", w) - w.size = Count("IDLE", pool) - n
  <2> SUFFICES ASSUME Uncooled(pool)
               PROVE  Uncooled(w) /\ Count("IDLE", w) - w.size = Count("IDLE", pool) - n
    OBVIOUS
  <2>1. pool.slots[i].state = "IDLE"
    BY <1>2 DEF Closable, Uncooled
  <2>2. Count("IDLE", w) = Count("IDLE", pool) - 1
    BY <1>7, <2>1 DEF One
  <2>3. Uncooled(w)
    BY <1>2, <1>4 DEF Uncooled
  <2>4. QED
    BY <1>1, <1>2, <2>2, <2>3, CountNat
<1>11. w.size <= n
  BY <1>1, <1>2
<1>12. QED
  BY <1>1, <1>5, <1>8, <1>9, <1>10, <1>11 DEF Reduces
\* release gives up one slot or none.
LEMMA ScalesDown ==
    ASSUME NEW pool, IsPool(pool), NEW active
    PROVE  /\ Reduces(pool, ScaledDown(pool, active))
           /\ ~config.autoscale => ScaledDown(pool, active) = pool
<1> DEFINE closable == {i \in 0 .. pool.size - 1 : Closable(pool.slots[i])}
           top == CHOOSE i \in closable : \A j \in closable : j <= i
<1>1. CASE closable # {}
  <2>1. pool.size \in Nat /\ closable \in SUBSET (0 .. pool.size)
    BY PoolAssumption DEF IsPool
  <2>2. \E i \in closable : \A j \in closable : j <= i
    <3> HIDE DEF closable
    <3>1. QED
      BY <1>1, <2>1, Greatest
  <2>3. top \in closable
    BY <2>2
  <2>4. Reduces(pool, Without(pool, top))
    BY <2>3, GivesUp
  <2>5. ScaledDown(pool, active) \in {pool, Without(pool, top)}
    BY DEF ScaledDown
  <2>6. QED
    BY <2>4, <2>5, ReducesRefl DEF ScaledDown
<1>2. CASE closable = {}
  BY <1>2, ReducesRefl DEF ScaledDown
<1>3. QED
  BY <1>1, <1>2

(***************************************************************************)
(* The loop of resize.  It is a recursive function of the number of turns; *)
(* that there is such a function is proved first, for the least number of  *)
(* turns for which there would be none.                                    *)
(***************************************************************************)
Turn(after, turns, size) ==
    IF turns = 0 THEN Now ELSE LookedAt(after[turns - 1], pool_size - turns, size)

LEMMA LoopExists ==
    ASSUME NEW size
    PROVE  \A n \in Nat : \E f : f = [turns \in 0 .. n |-> Turn(f, turns, size)]
<1> DEFINE Runs(n) == \E f : f = [turns \in 0 .. n |-> Turn(f, turns, size)]
           Bad == {n \in Nat : ~Runs(n)}
<1> SUFFICES ASSUME Bad # {} PROVE FALSE
  OBVIOUS
<1>1. PICK n \in Bad : \A m \in Bad : n <= m
  <2>1. Bad \in SUBSET Nat
    OBVIOUS
  <2> HIDE DEF Bad
  <2>2. QED
    BY <2>1, Least
<1>2. CASE n = 0
  <2> DEFINE f == [turns \in 0 .. 0 |-> Now]
  <2>1. f = [turns \in 0 .. 0 |-> Turn(f, turns, size)]
    BY DEF Turn
  <2>2. QED
    BY <1>1, <1>2, <2>1
<1>3. CASE n # 0
  <2>1. n - 1 \in Nat /\ n - 1 \notin Bad
    BY <1>1, <1>3
  <2>2. PICK f : f = [turns \in 0 .. n - 1 |-> Turn(f, turns, size)]
    BY <2>1
  <2> DEFINE g == [turns \in 0 .. n |-> IF turns = n THEN Turn(f, n, size) ELSE f[turns]]
  <2>3. \A turns \in 0 .. n : g[turns] = Turn(g, turns, size)
    <3> SUFFICES ASSUME NEW turns \in 0 .. n PROVE g[turns] = Turn(g, turns, size)
      OBVIOUS
    <3>1. turns # 0 => turns - 1 \in 0 .. n - 1 /\ g[turns - 1] = f[turns - 1]
      BY <1>1
    <3>2. Turn(g, turns, size) = Turn(f, turns, size)
      BY <3>1 DEF Turn
    <3>3. turns # n => turns \in 0 .. n - 1
      BY <1>1
    <3>4. \A k \in 0 .. n - 1 : f[k] = Turn(f, k, size)
      BY <2>2, Zenon
    <3>5. turns # n => f[turns] = Turn(f, turns, size)
      BY <3>3, <3>4
    <3>6. QED
      BY <3>2, <3>5
  <2>4. g = [turns \in 0 .. n |-> Turn(g, turns, size)]
    BY <2>3
  <2>5. QED
    BY <1>1, <2>4
<1>4. QED
  BY <1>2, <1>3

LEMMA Shrinks ==
    ASSUME IsPool(Now), NEW size
    PROVE  Reduces(Now, Shrunk(size))
<1> DEFINE after[turns \in 0 .. pool_size] ==
             IF turns = 0 THEN Now ELSE LookedAt(after[turns - 1], pool_size - turns, size)
<1>1. pool_size \in Nat /\ Now.size = pool_size
  BY NowFields, PoolAssumption DEF IsPool
<1>2. after = [turns \in 0 .. pool_size |-> Turn(after, turns, size)]
  BY <1>1, LoopExists DEF Turn
<1>3. Shrunk(size) = after[pool_size]
  BY DEF Shrunk
<1> HIDE DEF after
<1>4. \A k \in 0 .. pool_size : after[k] = Turn(after, k, size)
  BY <1>2, Zenon
<1> DEFINE Fine(k) == Reduces(Now, after[k]) /\ after[k].size >= pool_size - k
           Bad == {k \in Nat : k <= pool_size /\ ~Fine(k)}
<1>5. Bad = {}
  <2> SUFFICES ASSUME Bad # {} PROVE FALSE
    OBVIOUS
  <2>1. PICK k \in Bad : \A m \in Bad : k <= m
    <3>1. Bad \in SUBSET Nat
      OBVIOUS
    <3> HIDE DEF Bad
    <3>2. QED
      BY <3>1, Least
  <2>2. k # 0
    <3>1. after[0] = Now
      BY <1>1, <1>4 DEF Turn
    <3>2. Fine(0)
      BY <1>1, <3>1, ReducesRefl
    <3>3. QED
      BY <2>1, <3>2
  <2> DEFINE pool == after[k - 1]
             i == pool_size - k
  <2>3. k - 1 \in Nat /\ k - 1 \notin Bad /\ k \in 0 .. pool_size /\ k - 1 <= pool_size
    BY <2>1, <2>2, <1>1
  <2>4. Reduces(Now, pool) /\ pool.size >= pool_size - (k - 1)
    BY <2>3
  <2>5. after[k] = LookedAt(pool, i, size)
    BY <1>4, <2>2, <2>3 DEF Turn
  <2>6. IsPool(pool) /\ pool.size \in Nat /\ i \in 0 .. pool.size - 1
    BY <1>1, <2>3, <2>4, PoolAssumption DEF Reduces, IsPool
  <2> HIDE DEF pool, i
  <2>7. after[k] = pool \/ (Closable(pool.slots[i]) /\ after[k] = Without(pool, i))
    BY <2>5 DEF LookedAt
  <2>8. Reduces(pool, after[k]) /\ after[k].size >= pool.size - 1
    BY <2>6, <2>7, ReducesRefl, GivesUp
  <2>9. Reduces(Now, after[k])
    BY <2>4, <2>8, ReducesTrans
  <2>10. after[k].size \in Nat
    BY <2>9, PoolAssumption DEF Reduces, IsPool
  <2>11. Fine(k)
    BY <1>1, <2>3, <2>4, <2>6, <2>8, <2>9, <2>10
  <2>12. QED
    BY <2>1, <2>11
<1>6. pool_size \notin Bad
  BY <1>5
<1>7. QED
  BY <1>1, <1>3, <1>6
-----------------------------------------------------------------------------
Users == {t \in Threads : at[t] = "using"}
Awake == {t \in Threads : at[t] \in {"woken", "expired"}}

\* A thread that uses no connection holds none, each that does was counted,
\* and nobody is inside a pool that is gone.
Base ==
    /\ Within
    /\ \A t \in Threads : at[t] # "using" => holds[t] = NoConn
    /\ ~up => \A t \in Threads : at[t] = "out"
    /\ Cardinality(Users) <= active_count
    /\ ~config.cools => Uncooled(Now)

\* In a pool that keeps its slots, those never used are empty, and what the
\* others hold is allocated.
Lent ==
    Steady =>
        /\ ConnectionsExclusive
        /\ \A i \in Slots \ Pooled : slots[i] = Entry(NoConn, "IDLE")
        /\ up => \A i \in Pooled : slots[i].ctx \in live \cup {NoConn}

\* While somebody sleeps, as many threads are awake in acquire as there are
\* connections to take, idle ones and those the pool may still grow by.
Owed ==
    (~config.cools /\ ~config.resizes /\ ~config.fails /\ \E t \in Threads : at[t] = "waiting")
    => Count("IDLE", Now) + config.max - pool_size <= Cardinality(Awake)

IInv == Base /\ ActiveCounted /\ NothingLeaks /\ Lent /\ Owed

\* Types that are used everywhere.
LEMMA Sizes ==
    ASSUME Within
    PROVE  /\ IsPool(Now) /\ Now.size = pool_size /\ Now.slots = slots /\ Now.live = live
           /\ config.max \in 1 .. MaxPool /\ config.max \in Nat /\ MaxPool \in Nat
           /\ pool_size \in Nat /\ pool_size <= config.max
           /\ Slots = 0 .. MaxPool - 1 /\ Pooled = 0 .. pool_size - 1 /\ Pooled \subseteq Slots
           /\ \A i \in Slots : slots[i] = Entry(slots[i].ctx, slots[i].state)
           /\ NoConn \notin Conns
<1>1. config.max \in 1 .. MaxPool /\ MaxPool \in Nat /\ NoConn \notin Conns
  BY PoolAssumption DEF Within, ConfigType
<1>2. pool_size \in Nat /\ pool_size <= config.max /\ config.max \in Nat /\ config.max <= MaxPool
  BY <1>1 DEF Within
<1>3. Pooled = 0 .. pool_size - 1 /\ Pooled \subseteq Slots
  BY <1>1, <1>2 DEF Pooled, Slots
<1>4. IsPool(Now)
  BY <1>1, <1>2, NowFields DEF Within, IsPool, EntryType
<1>5. \A i \in Slots : slots[i] = Entry(slots[i].ctx, slots[i].state)
  BY DEF Within, Entry
<1>6. QED
  BY <1>1, <1>2, <1>3, <1>4, <1>5, NowFields DEF Slots

\* The properties in the terms of the lemmas.
Terms ==
    /\ ActiveCounted <=> (~config.fails => active_count = Count("ACTIVE", Now))
    /\ NothingLeaks <=> IF up THEN live \subseteq Contexts(Now) ELSE live = {}
    /\ Pooled = 0 .. pool_size - 1

LEMMA Restated == Within => Terms
<1> SUFFICES ASSUME Within PROVE Terms
  OBVIOUS
<1>1. {i \in Pooled : slots[i].state = "ACTIVE"} = InState("ACTIVE", Now.slots, Now.size)
  BY Sizes DEF InState
<1>2. {slots[i].ctx : i \in Pooled} = Contexts(Now)
  BY Sizes DEF Contexts
<1>3. QED
  BY <1>1, <1>2, Sizes DEF Terms, ActiveCounted, NothingLeaks, Count

LEMMA RestatedNext == Within' => Terms'
  BY Restated, PTL

LEMMA NextFields ==
    Shape(Now') /\ Now'.slots = slots' /\ Now'.size = pool_size' /\ Now'.live = live'
  BY DEF Now, Shape

-----------------------------------------------------------------------------
\* What is live when slot i has c: what it had, or a context that was not.
Refilled(i, c, alive) ==
    \/ c = slots[i].ctx /\ alive = live
    \/ c \in Conns \ (live \ {slots[i].ctx}) /\ alive = (live \ {slots[i].ctx}) \cup {c}

Put(old, new, i, entry) == new = [old EXCEPT ![i] = entry]

\* A slot of the pool, or the first behind it, gets an entry.
LEMMA Refills ==
    ASSUME Within, NEW pool, NEW i \in Slots, NEW c \in Conns \cup {NoConn}, NEW s \in ConnStates,
           Shape(pool), Put(slots, pool.slots, i, Entry(c, s)), Refilled(i, c, pool.live),
           \/ i \in Pooled /\ pool.size = pool_size
           \/ i = pool_size /\ pool_size < config.max /\ pool.size = pool_size + 1
    PROVE  /\ IsPool(pool)
           /\ \A x : Count(x, pool) =
                Count(x, Now) + One(s = x) - (IF i \in Pooled THEN One(slots[i].state = x) ELSE 0)
           /\ live \subseteq Contexts(Now) => pool.live \subseteq Contexts(pool)
<1>1. Entry(c, s) \in EntryType /\ slots \in [Slots -> EntryType]
  BY DEF Entry, EntryType, Within
<1>2. \A k \in Slots : pool.slots[k] = IF k = i THEN Entry(c, s) ELSE slots[k]
  BY <1>1 DEF Put
<1>3. IsPool(pool)
  <2>1. pool.slots \in [Slots -> EntryType]
    BY <1>1 DEF Put
  <2>2. pool.size \in 0 .. MaxPool
    BY Sizes
  <2>3. pool.live \subseteq Conns
    BY DEF Refilled, Within
  <2>4. QED
    BY <2>1, <2>2, <2>3 DEF IsPool
<1>4. ASSUME NEW x
      PROVE  Count(x, pool) =
               Count(x, Now) + One(s = x) - (IF i \in Pooled THEN One(slots[i].state = x) ELSE 0)
  <2>1. Count(x, Now) = Cardinality(InState(x, slots, pool_size)) /\ Count(x, Now) \in Nat
    BY Sizes, CountNat DEF Count
  <2>2. pool.slots[i].state = s
    BY <1>2 DEF Entry
  <2>3. CASE i \in Pooled /\ pool.size = pool_size
    <3>4. pool_size \in Nat /\ i \in 0 .. pool_size - 1
      BY <2>3, Sizes
    <3>1. \A k \in 0 .. pool_size - 1 : k # i => pool.slots[k].state = slots[k].state
      BY <1>2, Sizes
    <3>2. Cardinality(InState(x, pool.slots, pool_size)) =
            Cardinality(InState(x, slots, pool_size)) - One(slots[i].state = x) + One(s = x)
      BY <2>2, <3>1, <3>4, CountSet
    <3>3. QED
      BY <2>1, <2>3, <3>2 DEF Count, One
  <2>4. CASE i = pool_size /\ pool.size = pool_size + 1
    <3>1. i \notin Pooled
      BY <2>4, Sizes
    <3>2. Cardinality(InState(x, pool.slots, pool_size + 1)) =
            Cardinality(InState(x, pool.slots, pool_size)) + One(s = x)
      <4>1. pool.slots[pool_size].state = s /\ pool_size \in Nat
        BY <2>2, <2>4, Sizes
      <4>2. QED
        BY <4>1, CountNext
    <3>3. \A k \in 0 .. pool_size - 1 : pool.slots[k].state = slots[k].state
      BY <1>2, <2>4, Sizes
    <3>4. InState(x, pool.slots, pool_size) = InState(x, slots, pool_size)
      <4>1. pool_size \in Nat
        BY Sizes
      <4>2. QED
        BY <3>3, <4>1, CountSame
    <3>5. QED
      BY <2>1, <2>4, <3>1, <3>2, <3>4 DEF Count, One
  <2>5. QED
    BY <2>3, <2>4
<1>5. live \subseteq Contexts(Now) => pool.live \subseteq Contexts(pool)
  <2> SUFFICES ASSUME live \subseteq Contexts(Now), NEW d \in pool.live
               PROVE  \E k \in 0 .. pool.size - 1 : d = pool.slots[k].ctx
    BY DEF Contexts
  <2>1. i \in 0 .. pool.size - 1 /\ pool.slots[i].ctx = c
    BY <1>2, Sizes DEF Entry
  <2>2. CASE d = c
    BY <2>1, <2>2
  <2>3. CASE d # c
    <3>1. d \in live /\ d # slots[i].ctx
      BY <2>3 DEF Refilled
    <3>2. PICK k \in 0 .. pool_size - 1 : d = slots[k].ctx
      BY <3>1, Sizes DEF Contexts
    <3>3. k \in 0 .. pool.size - 1 /\ k # i /\ pool.slots[k] = slots[k]
      BY <1>2, <3>1, <3>2, Sizes
    <3>4. QED
      BY <3>2, <3>3
  <2>4. QED
    BY <2>2, <2>3
<1>6. QED
  BY <1>3, <1>4, <1>5
\* create_new_connection, after the old context was freed.
LEMMA Renews ==
    ASSUME Within, NEW i \in Pooled, NEW pool \in Renewals(Freeing(Now, slots[i].ctx), i)
    PROVE  /\ Shape(pool) /\ pool.size = pool_size
           /\ \E c \in Conns : Put(slots, pool.slots, i, Entry(c, "IDLE")) /\ Refilled(i, c, pool.live)
<1> DEFINE closed == Freeing(Now, slots[i].ctx)
<1>1. /\ Shape(closed) /\ closed.slots = slots /\ closed.size = pool_size
      /\ closed.live = live \ {slots[i].ctx}
  BY NowFields, FreedFields
<1> HIDE DEF closed
<1>2. PICK c \in Conns \ closed.live :
         pool = [closed EXCEPT !.slots[i] = Entry(c, "IDLE"), !.live = @ \cup {c}]
  BY DEF Renewals, closed
<1>3. /\ Shape(pool) /\ pool.size = pool_size /\ pool.live = closed.live \cup {c}
      /\ pool.slots = [slots EXCEPT ![i] = Entry(c, "IDLE")]
  BY <1>1, <1>2 DEF Shape
<1>4. Put(slots, pool.slots, i, Entry(c, "IDLE"))
  BY <1>3 DEF Put
<1>5. Refilled(i, c, pool.live)
  BY <1>1, <1>2, <1>3 DEF Refilled
<1>6. QED
  BY <1>2, <1>3, <1>4, <1>5

LEMMA Closes ==
    ASSUME Within, NEW i \in Pooled, NEW pool, pool = Freeing(Now, slots[i].ctx)
    PROVE  /\ IsPool(pool)
           /\ pool.size = pool_size /\ pool.slots = slots /\ pool.live = live \ {slots[i].ctx}
  BY Sizes, FreedFields DEF IsPool

\* release makes slot i no longer active, unless no memory is left.
LEMMA Returning ==
    ASSUME Within, NEW i \in Pooled, NEW pool \in Returned(i)
    PROVE  /\ Shape(pool) /\ pool.size = pool_size
           /\ \/ \E c \in Conns \cup {NoConn}, s \in {"IDLE", "COOLING"} :
                    /\ Put(slots, pool.slots, i, Entry(c, s)) /\ Refilled(i, c, pool.live)
                    /\ ~config.cools => s = "IDLE"
              \/ config.fails /\ pool = Freeing(Now, slots[i].ctx)
<1> DEFINE s == IF config.cools THEN "COOLING" ELSE "IDLE"
<1>1. CASE pool = [Now EXCEPT !.slots[i].state = s]
  <2>1. Shape(pool) /\ pool.size = pool_size /\ pool.live = live
    BY <1>1, NowFields DEF Shape
  <2>2. pool.slots = [slots EXCEPT ![i].state = s]
    BY <1>1, NowFields DEF Shape
  <2>3. slots[i] = Entry(slots[i].ctx, slots[i].state) /\ slots[i].ctx \in Conns \cup {NoConn}
    BY Sizes DEF Within
  <2>4. pool.slots = [slots EXCEPT ![i] = Entry(slots[i].ctx, s)]
    BY <2>2, <2>3 DEF Entry
  <2>5. Put(slots, pool.slots, i, Entry(slots[i].ctx, s))
    BY <2>4 DEF Put
  <2>6. Refilled(i, slots[i].ctx, pool.live)
    BY <2>1 DEF Refilled
  <2>7. QED
    BY <2>1, <2>3, <2>5, <2>6
<1>2. CASE pool \in Renewals(Freeing(Now, slots[i].ctx), i)
  BY <1>2, Renews
<1>3. CASE config.fails /\ pool = Freeing(Now, slots[i].ctx)
  BY <1>3, Closes DEF IsPool
<1>4. QED
  BY <1>1, <1>2, <1>3 DEF Returned

\* acquire has a connection for t, or has failed to make one.
Taken(t, i, c) ==
    /\ MarkActive(t, i, c) /\ Refilled(i, c, live')
    /\ \/ i \in Pooled /\ slots[i].state \in {"IDLE", "COOLED"} /\ pool_size' = pool_size
       \/ i = pool_size /\ pool_size < config.max /\ pool_size' = pool_size + 1

GaveUp(t) ==
    /\ config.fails /\ GiveUp(t)
    /\ slots' = slots /\ live' \subseteq live /\ pool_size' \in pool_size .. config.max

LEMMA Takes ==
    ASSUME Within, NEW t \in Threads, TakeAvailable(t) \/ Grow(t)
    PROVE  (\E i \in Slots, c \in Conns : Taken(t, i, c)) \/ GaveUp(t)
<1> DEFINE Slot(i) ==
      \/ i \in Pooled /\ slots[i].state \in {"IDLE", "COOLED"} /\ pool_size' = pool_size
      \/ i = pool_size /\ pool_size < config.max /\ pool_size' = pool_size + 1
<1>1. PICK i : HandOut(t, i) /\ Slot(i)
  BY DEF TakeAvailable, Grow, Available, FirstCooled, IsIdle
<1>2. i \in Slots /\ slots[i].ctx \in Conns \cup {NoConn} /\ NoConn \notin live
  BY <1>1, Sizes DEF Within
<1>3. pool_size' \in pool_size .. config.max
  BY <1>1, Sizes
<1>4. \/ \E c \in Conns : MarkActive(t, i, c) /\ Refilled(i, c, live')
      \/ GaveUp(t)
  <2>1. CASE slots[i].ctx # NoConn /\ MarkActive(t, i, slots[i].ctx) /\ UNCHANGED live
    BY <2>1, <1>2 DEF Refilled
  <2>2. CASE /\ slots[i].ctx = NoConn
             /\ \E new \in Conns \ live : MarkActive(t, i, new) /\ live' = live \cup {new}
    BY <2>2, <1>2 DEF Refilled
  <2>3. CASE \E new \in Conns \ (live \ {slots[i].ctx}) :
                MarkActive(t, i, new) /\ live' = (live \ {slots[i].ctx}) \cup {new}
    BY <2>3 DEF Refilled
  <2>4. CASE config.fails /\ GiveUp(t) /\ slots' = slots /\ live' \in {live, live \ {slots[i].ctx}}
    BY <2>4, <1>3 DEF GaveUp
  <2>5. QED
    BY <1>1, <2>1, <2>2, <2>3, <2>4 DEF HandOut
<1>5. QED
  BY <1>1, <1>2, <1>4 DEF Taken
-----------------------------------------------------------------------------
\* How many use a connection or are awake in acquire, after one thread moves.
LEMMA Finite ==
    /\ IsFiniteSet(Users) /\ Cardinality(Users) \in Nat
    /\ IsFiniteSet(Awake) /\ Cardinality(Awake) \in Nat
<1>1. Users \in SUBSET Threads /\ Awake \in SUBSET Threads /\ IsFiniteSet(Threads)
  BY PoolAssumption DEF Users, Awake
<1>2. QED
  BY <1>1, FS_Subset, FS_CardinalityType

LEMMA Moved ==
    ASSUME Within, NEW t \in Threads, NEW x, Put(at, at', t, x)
    PROVE  /\ Cardinality(Users') =
                Cardinality(Users) - One(at[t] = "using") + One(x = "using")
           /\ Cardinality(Awake') =
                Cardinality(Awake) - One(at[t] \in {"woken", "expired"}) + One(x \in {"woken", "expired"})
<1>1. \A u \in Threads : at'[u] = IF u = t THEN x ELSE at[u]
  BY DEF Within, Put
<1>2. Cardinality(Users') = Cardinality(Users) - One(at[t] = "using") + One(x = "using")
  <2>1. Users' = IF x = "using" THEN (Users \ {t}) \cup {t} ELSE Users \ {t}
    BY <1>1 DEF Users
  <2>2. /\ IsFiniteSet(Users \ {t})
        /\ Cardinality(Users \ {t}) = Cardinality(Users) - One(at[t] = "using")
    <3>1. t \in Users <=> at[t] = "using"
      BY DEF Users
    <3>2. QED
      BY <3>1, Finite, FS_RemoveElement DEF One
  <2>3. Cardinality((Users \ {t}) \cup {t}) = Cardinality(Users \ {t}) + 1
    BY <2>2, FS_AddElement
  <2>4. QED
    BY <2>1, <2>2, <2>3, Finite DEF One
<1>3. Cardinality(Awake') =
        Cardinality(Awake) - One(at[t] \in {"woken", "expired"}) + One(x \in {"woken", "expired"})
  <2>1. Awake' = IF x \in {"woken", "expired"} THEN (Awake \ {t}) \cup {t} ELSE Awake \ {t}
    BY <1>1 DEF Awake
  <2>2. /\ IsFiniteSet(Awake \ {t})
        /\ Cardinality(Awake \ {t}) = Cardinality(Awake) - One(at[t] \in {"woken", "expired"})
    <3>1. t \in Awake <=> at[t] \in {"woken", "expired"}
      BY DEF Awake
    <3>2. QED
      BY <3>1, Finite, FS_RemoveElement DEF One
  <2>3. Cardinality((Awake \ {t}) \cup {t}) = Cardinality(Awake \ {t}) + 1
    BY <2>2, FS_AddElement
  <2>4. QED
    BY <2>1, <2>2, <2>3, Finite DEF One
<1>4. QED
  BY <1>2, <1>3

\* In a steady pool, what slot i gets is in no other slot and with no thread
\* but the one that uses slot i, and leaves the others what they have.
LEMMA KeepsApart ==
    ASSUME Within, Lent, Steady, up,
           NEW i \in Slots, i \in Pooled \/ i = pool_size,
           NEW c \in Conns \cup {NoConn}, NEW alive, Refilled(i, c, alive)
    PROVE  /\ c \in alive \cup {NoConn}
           /\ \A j \in Pooled : j # i =>
                slots[j].ctx \in alive \cup {NoConn} /\ (slots[j].ctx = c => c = NoConn)
           /\ \A u \in Threads :
                at[u] = "using" /\ ~(i \in Pooled /\ slots[i] = Entry(holds[u], "ACTIVE")) =>
                  holds[u] \in alive /\ holds[u] # c /\ holds[u] # NoConn
<1>1. /\ ConnectionsExclusive
      /\ i = pool_size => slots[i].ctx = NoConn
      /\ \A j \in Pooled : slots[j].ctx \in live \cup {NoConn}
  <2>1. i = pool_size => i \in Slots \ Pooled
    BY Sizes
  <2>2. QED
    BY <2>1 DEF Lent, Entry
<1>2. \A j \in Pooled : j # i /\ slots[j].ctx # NoConn => slots[j].ctx # slots[i].ctx
  BY <1>1 DEF ConnectionsExclusive
<1>3. c \in alive \cup {NoConn}
  BY <1>1 DEF Refilled
<1>4. \A j \in Pooled : j # i =>
         slots[j].ctx \in alive \cup {NoConn} /\ (slots[j].ctx = c => c = NoConn)
  BY <1>1, <1>2 DEF Refilled
<1>5. ASSUME NEW u \in Threads, at[u] = "using", ~(i \in Pooled /\ slots[i] = Entry(holds[u], "ACTIVE"))
      PROVE  holds[u] \in alive /\ holds[u] # c /\ holds[u] # NoConn
  <2>1. PICK j \in Pooled : slots[j] = Entry(holds[u], "ACTIVE")
    BY <1>1, <1>5 DEF ConnectionsExclusive
  <2>2. slots[j].ctx = holds[u] /\ j # i
    BY <2>1, <1>5 DEF Entry
  <2>3. holds[u] \in Conns /\ NoConn \notin Conns
    BY <1>1, <1>5, Sizes DEF ConnectionsExclusive, Within
  <2>4. QED
    BY <1>4, <2>2, <2>3
<1>6. QED
  BY <1>3, <1>4, <1>5
-----------------------------------------------------------------------------
\* Where a thread of acquire is when it looks for a connection.
Looking(t) == up /\ at[t] \in {"out", "woken", "expired"}

\* acquire returns a connection.
LEMMA ObtainsStep ==
    ASSUME IInv, UNCHANGED <<config, up>>, NEW t \in Threads, Looking(t),
           NEW i \in Slots, NEW c \in Conns, Taken(t, i, c)
    PROVE  IInv'
<1> USE DEF Looking
<1>1. Within /\ up /\ at[t] # "using"
  BY DEF IInv, Base
<1>2. /\ active_count' = active_count + 1
      /\ Put(at, at', t, "using") /\ Put(holds, holds', t, c)
      /\ Put(slots, slots', i, Entry(c, "ACTIVE")) /\ Refilled(i, c, live')
      /\ \/ i \in Pooled /\ slots[i].state \in {"IDLE", "COOLED"} /\ pool_size' = pool_size
         \/ i = pool_size /\ pool_size < config.max /\ pool_size' = pool_size + 1
  BY DEF Taken, MarkActive, Put
<1>3. /\ IsPool(Now')
      /\ \A x : Count(x, Now') =
           Count(x, Now) + One("ACTIVE" = x) - (IF i \in Pooled THEN One(slots[i].state = x) ELSE 0)
      /\ live \subseteq Contexts(Now) => live' \subseteq Contexts(Now')
  BY <1>1, <1>2, NextFields, Refills DEF ConnStates
<1>4. \A j \in Slots : slots'[j] = IF j = i THEN Entry(c, "ACTIVE") ELSE slots[j]
  BY <1>1, <1>2 DEF Put, Within
<1>5. \A u \in Threads : /\ at'[u] = IF u = t THEN "using" ELSE at[u]
                         /\ holds'[u] = IF u = t THEN c ELSE holds[u]
  BY <1>1, <1>2 DEF Within, Put
<1>6. Within'
  <2>1. slots' \in [Slots -> [ctx : Conns \cup {NoConn}, state : ConnStates]] /\ live' \subseteq Conns
    BY <1>3, NextFields DEF IsPool, EntryType
  <2>2. pool_size' \in 0 .. config.max /\ active_count' \in Nat
    BY <1>1, <1>2, Sizes DEF Within
  <2>3. /\ at' \in [Threads -> {"out", "waiting", "woken", "expired", "using"}]
        /\ holds' \in [Threads -> Conns \cup {NoConn}]
    BY <1>1, <1>2 DEF Within, Put
  <2>4. QED
    BY <1>1, <2>1, <2>2, <2>3 DEF Within
<1>7. Base'
  <2>1. \A u \in Threads : at'[u] # "using" => holds'[u] = NoConn
    BY <1>5 DEF IInv, Base
  <2>2. Cardinality(Users') <= active_count'
    <3>1. Cardinality(Users') = Cardinality(Users) + 1
      BY <1>1, <1>2, Moved, Finite DEF One
    <3>2. QED
      BY <1>1, <1>2, <3>1, Finite DEF IInv, Base, Within
  <2>3. ~config.cools => \A j \in Slots : slots'[j].state \notin Cooling
    BY <1>4, NowFields DEF IInv, Base, Uncooled, Cooling, Entry
  <2>4. QED
    BY <1>1, <1>6, <2>1, <2>2, <2>3, NextFields DEF Base, Uncooled
<1>8. ActiveCounted'
  <2>1. Count("ACTIVE", Now') = Count("ACTIVE", Now) + 1
    BY <1>1, <1>2, <1>3, Sizes, CountNat DEF One
  <2>2. QED
    BY <1>1, <1>2, <1>6, <2>1, Restated, RestatedNext DEF Terms, IInv
<1>9. NothingLeaks'
  BY <1>1, <1>3, <1>6, Restated, RestatedNext DEF Terms, IInv
<1>10. Lent'
  <2> SUFFICES ASSUME Steady PROVE Lent'
    BY DEF Lent, Steady
  <2>1. /\ c \in live'
        /\ \A j \in Pooled : j # i =>
             slots[j].ctx \in live' \cup {NoConn} /\ slots[j].ctx # c
        /\ \A u \in Threads : at[u] = "using" =>
             holds[u] \in live' /\ holds[u] # c /\ holds[u] # NoConn
    <3>1. i \in Pooled => slots[i].state # "ACTIVE"
      BY <1>1, <1>2, Sizes
    <3>2. \A u \in Threads : ~(i \in Pooled /\ slots[i] = Entry(holds[u], "ACTIVE"))
      BY <3>1 DEF Entry
    <3>3. c # NoConn
      BY <1>1, Sizes
    <3>4. QED
      BY <1>1, <1>2, <3>2, <3>3, KeepsApart DEF IInv
  <2>2. /\ i \in Pooled' /\ Pooled' \subseteq Slots
        /\ \A j \in Slots : j # i => (j \in Pooled' <=> j \in Pooled)
    BY <1>1, <1>2, <1>6, Sizes, RestatedNext DEF Terms
  <2>3. ConnectionsExclusive
    BY DEF IInv, Lent
  <2>4. \A u \in Threads : at'[u] = "using" =>
           /\ holds'[u] \in live'
           /\ \E j \in Pooled' : slots'[j] = Entry(holds'[u], "ACTIVE")
           /\ \A v \in Threads \ {u} : holds'[v] # holds'[u]
    <3> SUFFICES ASSUME NEW u \in Threads, at'[u] = "using"
                 PROVE  /\ holds'[u] \in live'
                        /\ \E j \in Pooled' : slots'[j] = Entry(holds'[u], "ACTIVE")
                        /\ \A v \in Threads \ {u} : holds'[v] # holds'[u]
      OBVIOUS
    <3>1. CASE u = t
      <4>1. \A v \in Threads \ {t} : holds'[v] # c
        BY <1>1, <1>5, <2>1, Sizes DEF IInv, Base
      <4>2. QED
        BY <3>1, <4>1, <1>4, <1>5, <2>1, <2>2
    <3>2. CASE u # t
      <4>1. at[u] = "using" /\ holds'[u] = holds[u]
        BY <3>2, <1>5
      <4>2. PICK j \in Pooled : slots[j] = Entry(holds[u], "ACTIVE")
        BY <4>1, <2>3 DEF ConnectionsExclusive
      <4>3. j # i
        BY <4>2, <1>2, <1>1, Sizes DEF Entry
      <4>4. j \in Pooled' /\ slots'[j] = Entry(holds'[u], "ACTIVE")
        BY <4>1, <4>2, <4>3, <1>1, <1>4, <2>2, Sizes
      <4>5. \A v \in Threads \ {u} : holds'[v] # holds'[u]
        BY <4>1, <1>5, <2>1, <2>3 DEF ConnectionsExclusive
      <4>6. QED
        BY <4>1, <4>4, <4>5, <2>1
    <3>3. QED
      BY <3>1, <3>2
  <2>5. \A j \in Pooled' : slots'[j].state = "ACTIVE" =>
           \E u \in Threads : at'[u] = "using" /\ holds'[u] = slots'[j].ctx
    <3> SUFFICES ASSUME NEW j \in Pooled', slots'[j].state = "ACTIVE"
                 PROVE  \E u \in Threads : at'[u] = "using" /\ holds'[u] = slots'[j].ctx
      OBVIOUS
    <3>1. CASE j = i
      BY <3>1, <1>4, <1>5, <2>2 DEF Entry
    <3>2. CASE j # i
      <4>1. j \in Pooled /\ slots'[j] = slots[j]
        BY <3>2, <1>4, <2>2
      <4>2. PICK u \in Threads : at[u] = "using" /\ holds[u] = slots[j].ctx
        BY <4>1, <2>3 DEF ConnectionsExclusive
      <4>3. QED
        BY <4>1, <4>2, <1>1, <1>5
    <3>3. QED
      BY <3>1, <3>2
  <2>6. \A j, k \in Pooled' : slots'[j].ctx = slots'[k].ctx /\ slots'[j].ctx # NoConn => j = k
    BY <1>4, <2>1, <2>2, <2>3 DEF ConnectionsExclusive, Entry
  <2>7. \A j \in Slots \ Pooled' : slots'[j] = Entry(NoConn, "IDLE")
    BY <1>4, <2>2 DEF IInv, Lent
  <2>8. \A j \in Pooled' : slots'[j].ctx \in live' \cup {NoConn}
    BY <1>4, <2>1, <2>2 DEF Entry
  <2>9. QED
    BY <2>4, <2>5, <2>6, <2>7, <2>8 DEF Lent, ConnectionsExclusive
<1>11. Owed'
  <2> SUFFICES ASSUME ~config.cools, ~config.resizes, ~config.fails, \E u \in Threads : at'[u] = "waiting"
               PROVE  Count("IDLE", Now') + config.max - pool_size' <= Cardinality(Awake')
    BY DEF Owed
  <2>1. \E u \in Threads : at[u] = "waiting"
    BY <1>5
  <2>2. Count("IDLE", Now) + config.max - pool_size <= Cardinality(Awake)
    BY <2>1 DEF IInv, Owed
  <2>3. Count("IDLE", Now') - pool_size' = Count("IDLE", Now) - pool_size - 1
    <3>1. i \in Pooled => slots[i].state = "IDLE"
      BY <1>1, <1>2, Sizes DEF IInv, Base, Uncooled, Cooling
    <3>2. i = pool_size => i \notin Pooled
      BY <1>1, Sizes
    <3>3. Count("IDLE", Now') = Count("IDLE", Now) - (IF i \in Pooled THEN 1 ELSE 0)
      BY <1>1, <1>3, <3>1, Sizes, CountNat DEF One
    <3>4. Count("IDLE", Now) \in Nat /\ pool_size \in Nat
      BY <1>1, Sizes, CountNat
    <3>5. QED
      BY <1>2, <3>2, <3>3, <3>4
  <2>4. Cardinality(Awake') >= Cardinality(Awake) - 1
    BY <1>1, <1>2, Moved, Finite DEF One
  <2>5. /\ Count("IDLE", Now') \in Nat /\ Count("IDLE", Now) \in Nat /\ config.max \in Nat
        /\ pool_size \in Nat /\ pool_size' \in Nat
    BY <1>1, <1>2, <1>3, CountNat, Sizes
  <2>6. Cardinality(Awake) \in Nat /\ Cardinality(Awake') \in Int
    BY <1>1, <1>2, Moved, Finite DEF One
  <2>7. QED
    BY <2>2, <2>3, <2>4, <2>5, <2>6
<1>12. QED
  BY <1>7, <1>8, <1>9, <1>10, <1>11 DEF IInv
\* acquire fails: a connection could not be made.
LEMMA GaveUpStep ==
    ASSUME IInv, UNCHANGED <<config, up>>, NEW t \in Threads, Looking(t), GaveUp(t)
    PROVE  IInv'
<1>1. Within /\ up /\ at[t] # "using" /\ config.fails
  BY DEF IInv, Base, Looking, GaveUp
<1>2. /\ slots' = slots /\ live' \subseteq live /\ pool_size' \in pool_size .. config.max
      /\ active_count' = active_count /\ holds' = holds /\ Put(at, at', t, "out")
  BY DEF GaveUp, GiveUp, Put
<1>3. Within'
  <2>1. pool_size' \in 0 .. config.max
    BY <1>1, <1>2, Sizes
  <2>2. at' \in [Threads -> {"out", "waiting", "woken", "expired", "using"}]
    BY <1>1, <1>2 DEF Within, Put
  <2>3. QED
    BY <1>1, <1>2, <2>1, <2>2 DEF Within
<1>4. Base'
  <2>1. \A u \in Threads : at'[u] # "using" => holds'[u] = NoConn
    BY <1>1, <1>2 DEF IInv, Base, Within, Put
  <2>2. Cardinality(Users') <= active_count'
    <3>1. Cardinality(Users') = Cardinality(Users)
      BY <1>1, <1>2, Moved, Finite DEF One
    <3>2. QED
      BY <1>2, <3>1 DEF IInv, Base
  <2>3. ~config.cools => Uncooled(Now')
    BY <1>2, NowFields, NextFields DEF IInv, Base, Uncooled
  <2>4. QED
    BY <1>1, <1>3, <2>1, <2>2, <2>3 DEF Base
<1>5. NothingLeaks'
  <2>1. live \subseteq Contexts(Now)
    BY <1>1, Restated DEF Terms, IInv
  <2>2. Contexts(Now) \subseteq Contexts(Now')
    <3>1. 0 .. pool_size - 1 \subseteq 0 .. pool_size' - 1
      BY <1>1, <1>2, Sizes
    <3>2. QED
      BY <1>2, <3>1, NowFields, NextFields DEF Contexts
  <2>3. QED
    BY <1>1, <1>2, <1>3, <2>1, <2>2, RestatedNext DEF Terms
<1>6. ActiveCounted' /\ Lent' /\ Owed'
  BY <1>1 DEF ActiveCounted, Lent, Steady, Owed
<1>7. QED
  BY <1>4, <1>5, <1>6 DEF IInv

\* acquire goes to sleep, wakes, or gives up when its time is over.
Idles(t, x) ==
    /\ up /\ at[t] # "using" /\ Put(at, at', t, x)
    /\ \/ x \in {"out", "waiting"} /\ NoneToTake
       \/ x \in {"woken", "expired"} /\ at[t] \in {"waiting", "woken"}
    /\ UNCHANGED <<config, slots, pool_size, active_count, live, holds, up>>

\* Who uses a connection, and the pool, are as before.
LEMMA LentKept ==
    ASSUME Lent, Within, UNCHANGED <<config, slots, pool_size, live, holds, up>>,
           \A t \in Threads : at'[t] = "using" <=> at[t] = "using"
    PROVE  Lent'
<1> SUFFICES ASSUME Steady PROVE Lent'
  BY DEF Lent, Steady
<1>1. Pooled' = Pooled
  BY DEF Pooled
<1>2. ConnectionsExclusive'
  BY <1>1 DEF Lent, ConnectionsExclusive
<1>3. QED
  BY <1>1, <1>2 DEF Lent

LEMMA IdlesStep ==
    ASSUME IInv, NEW t \in Threads,
           NEW x \in {"out", "waiting", "woken", "expired"}, Idles(t, x)
    PROVE  IInv'
<1>1. /\ Within /\ up /\ at[t] # "using" /\ Put(at, at', t, x)
      /\ UNCHANGED <<config, slots, pool_size, active_count, live, holds, up>>
  BY DEF IInv, Base, Idles
<1>2. \A u \in Threads : at'[u] = IF u = t THEN x ELSE at[u]
  BY <1>1 DEF Within, Put
<1>3. Now' = Now
  BY <1>1 DEF Now
<1>4. Within'
  <2>1. at' \in [Threads -> {"out", "waiting", "woken", "expired", "using"}]
    BY <1>1 DEF Within, Put
  <2>2. QED
    BY <1>1, <2>1 DEF Within
<1>5. Base'
  <2>1. Cardinality(Users') = Cardinality(Users)
    BY <1>1, Moved, Finite DEF One
  <2>2. \A u \in Threads : at'[u] # "using" => holds'[u] = NoConn
    BY <1>1, <1>2 DEF IInv, Base
  <2>3. QED
    BY <1>1, <1>3, <1>4, <2>1, <2>2 DEF IInv, Base
<1>6. ActiveCounted' /\ NothingLeaks'
  BY <1>1, <1>3, <1>4, Restated, RestatedNext DEF Terms, IInv
<1>7. Lent'
  BY <1>1, <1>2, LentKept DEF IInv
<1>8. Owed'
  <2> SUFFICES ASSUME ~config.cools, ~config.resizes, ~config.fails, \E u \in Threads : at'[u] = "waiting"
               PROVE  Count("IDLE", Now') + config.max - pool_size' <= Cardinality(Awake')
    BY <1>1 DEF Owed
  <2>1. /\ Cardinality(Awake) \in Nat /\ Count("IDLE", Now) \in Nat
        /\ pool_size \in Nat /\ config.max \in Nat /\ pool_size <= config.max
    BY <1>1, Finite, Sizes, CountNat
  <2>2. Cardinality(Awake') =
          Cardinality(Awake) - One(at[t] \in {"woken", "expired"}) + One(x \in {"woken", "expired"})
    BY <1>1, Moved
  <2>3. CASE NoneToTake
    <3>1. pool_size = config.max
      BY <2>1, <2>3 DEF NoneToTake
    <3>2. \A i \in Pooled : slots[i].state # "IDLE"
      BY <2>3 DEF NoneToTake, Available, IsIdle
    <3>3. Count("IDLE", Now) = 0
      <4>1. InState("IDLE", Now.slots, Now.size) = {}
        BY <1>1, <3>2, Sizes DEF InState
      <4>2. QED
        BY <4>1, FS_EmptySet DEF Count
    <3>4. IsFiniteSet(Awake') /\ Cardinality(Awake') \in Nat
      <4>1. Awake' \in SUBSET Threads /\ IsFiniteSet(Threads)
        BY PoolAssumption DEF Awake
      <4>2. QED
        BY <4>1, FS_Subset, FS_CardinalityType
    <3>5. QED
      BY <1>1, <1>3, <2>1, <3>1, <3>3, <3>4
  <2>4. CASE x \in {"woken", "expired"}
    <3>1. Cardinality(Awake') >= Cardinality(Awake) /\ Cardinality(Awake') \in Int
      BY <2>1, <2>2, <2>4 DEF One
    <3>2. \E u \in Threads : at[u] = "waiting"
      BY <1>2, <2>4
    <3>3. Count("IDLE", Now) + config.max - pool_size <= Cardinality(Awake)
      BY <3>2, <1>1 DEF IInv, Owed
    <3>4. QED
      BY <1>1, <1>3, <2>1, <3>1, <3>3
  <2>5. QED
    BY <2>3, <2>4 DEF Idles
<1>9. QED
  BY <1>5, <1>6, <1>7, <1>8 DEF IInv
-----------------------------------------------------------------------------
\* release of a connection that is not, or no longer, found active.
ReturnsNothing(t) ==
    /\ up /\ at[t] = "using"
    /\ Put(at, at', t, "out") /\ Put(holds, holds', t, NoConn)
    /\ \A i \in Pooled :
         slots[i].ctx = holds[t] /\ (\A j \in Pooled : slots[j].ctx = holds[t] => i <= j)
           => slots[i].state # "ACTIVE"
    /\ UNCHANGED <<config, slots, pool_size, active_count, live, up>>

LEMMA ReturnsNothingStep == ASSUME IInv, NEW t \in Threads, ReturnsNothing(t) PROVE IInv'
<1>1. /\ Within /\ up /\ at[t] = "using" /\ Put(at, at', t, "out") /\ Put(holds, holds', t, NoConn)
      /\ UNCHANGED <<config, slots, pool_size, active_count, live, up>>
  BY DEF IInv, Base, ReturnsNothing
<1>2. \A u \in Threads : /\ at'[u] = IF u = t THEN "out" ELSE at[u]
                         /\ holds'[u] = IF u = t THEN NoConn ELSE holds[u]
  BY <1>1 DEF Within, Put
<1>3. Now' = Now
  BY <1>1 DEF Now
<1>4. Within'
  <2>1. /\ at' \in [Threads -> {"out", "waiting", "woken", "expired", "using"}]
        /\ holds' \in [Threads -> Conns \cup {NoConn}]
    BY <1>1 DEF Within, Put
  <2>2. QED
    BY <1>1, <2>1 DEF Within
<1>5. /\ Cardinality(Users') = Cardinality(Users) - 1
      /\ Cardinality(Awake') = Cardinality(Awake)
  BY <1>1, Moved, Finite DEF One
<1>6. Base'
  <2>1. Cardinality(Users') <= active_count'
    BY <1>1, <1>5, Finite DEF IInv, Base, Within
  <2>2. \A u \in Threads : at'[u] # "using" => holds'[u] = NoConn
    BY <1>1, <1>2 DEF IInv, Base
  <2>3. QED
    BY <1>1, <1>3, <1>4, <2>1, <2>2 DEF IInv, Base
<1>7. ActiveCounted' /\ NothingLeaks'
  BY <1>1, <1>3, <1>4, Restated, RestatedNext DEF Terms, IInv
<1>8. Lent'
  <2> SUFFICES ASSUME Steady PROVE FALSE
    BY <1>1 DEF Lent, Steady
  <2>1. ConnectionsExclusive
    BY DEF IInv, Lent
  <2>2. PICK i \in Pooled : slots[i] = Entry(holds[t], "ACTIVE")
    BY <1>1, <2>1 DEF ConnectionsExclusive
  <2>3. slots[i].ctx = holds[t] /\ slots[i].state = "ACTIVE"
    BY <2>2 DEF Entry
  <2>4. holds[t] # NoConn
    BY <1>1, <2>1, Sizes DEF ConnectionsExclusive, Within
  <2>5. \A j \in Pooled : slots[j].ctx = holds[t] => i = j
    BY <2>1, <2>3, <2>4 DEF ConnectionsExclusive
  <2>6. i <= i
    BY <1>1, Sizes
  <2>7. QED
    BY <2>3, <2>5, <2>6 DEF ReturnsNothing
<1>9. Owed'
  BY <1>1, <1>2, <1>3, <1>5 DEF IInv, Owed
<1>10. QED
  BY <1>6, <1>7, <1>8, <1>9 DEF IInv

\* pthread_cond_signal: whoever still sleeps has one more awake before it.
LEMMA Signalled ==
    ASSUME Within, NEW t \in Threads, at[t] = "using", SignalFrom(t)
    PROVE  /\ at' \in [Threads -> {"out", "waiting", "woken", "expired", "using"}]
           /\ \A v \in Threads : at'[v] = "using" <=> at[v] = "using" /\ v # t
           /\ Cardinality(Users') = Cardinality(Users) - 1
           /\ (\E v \in Threads : at'[v] = "waiting") =>
                /\ \E v \in Threads : at[v] = "waiting"
                /\ Cardinality(Awake') = Cardinality(Awake) + 1
<1> DEFINE waiters == {u \in Threads : at[u] = "waiting"}
<1>1. CASE waiters = {} /\ at' = [at EXCEPT ![t] = "out"]
  <2>1. Put(at, at', t, "out")
    BY <1>1 DEF Put
  <2>2. \A v \in Threads : at'[v] = IF v = t THEN "out" ELSE at[v]
    BY <2>1 DEF Within, Put
  <2>3. Cardinality(Users') = Cardinality(Users) - 1
    BY <2>1, Moved, Finite DEF One
  <2>4. at' \in [Threads -> {"out", "waiting", "woken", "expired", "using"}]
    BY <2>1 DEF Within, Put
  <2>5. ~ \E v \in Threads : at'[v] = "waiting"
    BY <1>1, <2>2
  <2>6. QED
    BY <2>2, <2>3, <2>4, <2>5
<1>2. CASE \E u \in waiters : at' = [at EXCEPT ![t] = "out", ![u] = "woken"]
  <2>1. PICK u \in waiters : at' = [at EXCEPT ![t] = "out", ![u] = "woken"]
    BY <1>2
  <2>2. \A v \in Threads : at'[v] = IF v = u THEN "woken" ELSE IF v = t THEN "out" ELSE at[v]
    BY <2>1 DEF Within
  <2>3. at' \in [Threads -> {"out", "waiting", "woken", "expired", "using"}]
    BY <2>1 DEF Within
  <2>4. Users' = Users \ {t} /\ t \in Users
    BY <2>2 DEF Users
  <2>5. Awake' = Awake \cup {u} /\ u \notin Awake
    BY <2>2 DEF Awake
  <2>6. Cardinality(Users') = Cardinality(Users) - 1
    BY <2>4, Finite, FS_RemoveElement
  <2>7. Cardinality(Awake') = Cardinality(Awake) + 1
    BY <2>5, Finite, FS_AddElement
  <2>8. QED
    BY <2>2, <2>3, <2>6, <2>7
<1>3. QED
  BY <1>1, <1>2 DEF SignalFrom

\* What release makes of the pool, before it is scaled.
LEMMA ReturnedPool ==
    ASSUME Within, NEW i \in Pooled, slots[i].state = "ACTIVE", NEW pool \in Returned(i)
    PROVE  /\ IsPool(pool) /\ pool.size = pool_size
           /\ live \subseteq Contexts(Now) => pool.live \subseteq Contexts(pool)
           /\ ~config.fails => Count("ACTIVE", pool) = Count("ACTIVE", Now) - 1
           /\ ~config.cools /\ Uncooled(Now) =>
                /\ Uncooled(pool)
                /\ ~config.fails => Count("IDLE", pool) = Count("IDLE", Now) + 1
<1>1. i \in Slots
  BY Sizes
<1>2. CASE config.fails /\ pool = Freeing(Now, slots[i].ctx)
  <2>1. /\ IsPool(pool) /\ pool.size = pool_size /\ pool.slots = slots
        /\ pool.live = live \ {slots[i].ctx}
    BY <1>2, Closes
  <2>2. Contexts(pool) = Contexts(Now) /\ (Uncooled(pool) <=> Uncooled(Now))
    BY <2>1, NowFields DEF Contexts, Uncooled
  <2>3. QED
    BY <1>2, <2>1, <2>2
<1>3. CASE \E c \in Conns \cup {NoConn}, s \in {"IDLE", "COOLING"} :
              /\ Put(slots, pool.slots, i, Entry(c, s)) /\ Refilled(i, c, pool.live)
              /\ ~config.cools => s = "IDLE"
  <2>1. Shape(pool) /\ pool.size = pool_size
    BY Returning
  <2>2. PICK c \in Conns \cup {NoConn}, s \in {"IDLE", "COOLING"} :
           /\ Put(slots, pool.slots, i, Entry(c, s)) /\ Refilled(i, c, pool.live)
           /\ ~config.cools => s = "IDLE"
    BY <1>3
  <2>3. s \in ConnStates
    BY DEF ConnStates
  <2>4. /\ IsPool(pool)
        /\ \A x : Count(x, pool) = Count(x, Now) + One(s = x) - One("ACTIVE" = x)
        /\ live \subseteq Contexts(Now) => pool.live \subseteq Contexts(pool)
    BY <1>1, <2>1, <2>2, <2>3, Refills
  <2>5. Count("ACTIVE", pool) = Count("ACTIVE", Now) - 1
    BY <2>4, Sizes, CountNat DEF One
  <2>6. ~config.cools /\ Uncooled(Now) => Uncooled(pool)
    BY <2>2, NowFields DEF Uncooled, Put, Entry, Cooling, Within
  <2>7. s = "IDLE" => Count("IDLE", pool) = Count("IDLE", Now) + 1
    BY <2>4, Sizes, CountNat DEF One
  <2>8. QED
    BY <2>1, <2>2, <2>4, <2>5, <2>6, <2>7
<1>4. QED
  BY <1>2, <1>3, Returning
-----------------------------------------------------------------------------
\* release of slot i, which is active.
Returns(t, i) ==
    /\ up /\ at[t] = "using" /\ Put(holds, holds', t, NoConn)
    /\ i \in Pooled /\ slots[i].ctx = holds[t] /\ slots[i].state = "ACTIVE"
    /\ \E pool \in Returned(i) : Becomes(ScaledDown(pool, active_count - 1))
    /\ active_count' = active_count - 1 /\ SignalFrom(t)
    /\ UNCHANGED <<config, up>>

\* What a pool that keeps its slots has lent afterwards.
LEMMA ReturnsLent ==
    ASSUME IInv, NEW t \in Threads, NEW i \in Slots, Returns(t, i), Within', Steady,
           \A v \in Threads : at'[v] = "using" <=> at[v] = "using" /\ v # t
    PROVE  Lent'
<1>1. /\ Within /\ up /\ at[t] = "using" /\ i \in Pooled /\ UNCHANGED <<config, up>>
      /\ slots[i].ctx = holds[t] /\ slots[i].state = "ACTIVE"
      /\ ~config.fails /\ ~config.autoscale /\ ConnectionsExclusive
      /\ \A j \in Slots \ Pooled : slots[j] = Entry(NoConn, "IDLE")
  BY DEF IInv, Base, Lent, Steady, Returns
<1>2. \A u \in Threads : holds'[u] = IF u = t THEN NoConn ELSE holds[u]
  BY <1>1 DEF Returns, Put, Within
<1>3. PICK pool \in Returned(i) : Becomes(ScaledDown(pool, active_count - 1))
  BY DEF Returns
<1>4. slots' = pool.slots /\ pool_size' = pool.size /\ live' = pool.live
  BY <1>1, <1>3, ReturnedPool, ScalesDown DEF Becomes
<1>5. PICK c \in Conns \cup {NoConn}, s \in {"IDLE", "COOLING"} :
         Put(slots, pool.slots, i, Entry(c, s)) /\ Refilled(i, c, pool.live)
  BY <1>1, Returning
<1>6. pool_size' = pool_size /\ Pooled' = Pooled
  BY <1>1, <1>4, Returning DEF Pooled
<1>7. \A j \in Slots : slots'[j] = IF j = i THEN Entry(c, s) ELSE slots[j]
  BY <1>1, <1>4, <1>5 DEF Put, Within
<1>8. /\ c \in live' \cup {NoConn}
      /\ \A j \in Pooled : j # i =>
           slots[j].ctx \in live' \cup {NoConn} /\ (slots[j].ctx = c => c = NoConn)
      /\ \A u \in Threads : at[u] = "using" /\ slots[i] # Entry(holds[u], "ACTIVE") =>
           holds[u] \in live' /\ holds[u] # c /\ holds[u] # NoConn
  BY <1>1, <1>4, <1>5, KeepsApart DEF IInv
<1>9. /\ \A u \in Threads \ {t} : holds[u] # holds[t]
      /\ holds[t] # NoConn
  BY <1>1, Sizes DEF ConnectionsExclusive, Within
<1>10. Pooled \subseteq Slots
  BY <1>1, Sizes
<1>11. ASSUME NEW u \in Threads, at'[u] = "using"
       PROVE  /\ holds'[u] \in live'
              /\ \E j \in Pooled' : slots'[j] = Entry(holds'[u], "ACTIVE")
              /\ \A v \in Threads \ {u} : holds'[v] # holds'[u]
  <2>1. u # t /\ at[u] = "using" /\ holds'[u] = holds[u]
    BY <1>2, <1>11
  <2>2. slots[i] # Entry(holds[u], "ACTIVE")
    BY <1>1, <1>9, <2>1 DEF Entry
  <2>3. holds[u] \in live' /\ holds[u] # NoConn
    BY <1>8, <2>1, <2>2
  <2>4. PICK j \in Pooled : slots[j] = Entry(holds[u], "ACTIVE")
    BY <1>1, <2>1 DEF ConnectionsExclusive
  <2>5. slots'[j] = slots[j]
    BY <1>7, <1>10, <2>2, <2>4
  <2>6. \A v \in Threads \ {u} : holds'[v] # holds[u]
    BY <1>1, <1>2, <2>1, <2>3 DEF ConnectionsExclusive
  <2>7. QED
    BY <1>6, <2>1, <2>3, <2>4, <2>5, <2>6
<1>12. ASSUME NEW j \in Pooled, slots'[j].state = "ACTIVE"
       PROVE  \E u \in Threads : at'[u] = "using" /\ holds'[u] = slots'[j].ctx
  <2>1. j # i /\ slots'[j] = slots[j]
    BY <1>7, <1>10, <1>12 DEF Entry
  <2>2. PICK u \in Threads : at[u] = "using" /\ holds[u] = slots[j].ctx
    BY <1>1, <1>12, <2>1 DEF ConnectionsExclusive
  <2>3. u # t
    BY <1>1, <1>9, <2>1, <2>2 DEF ConnectionsExclusive
  <2>4. QED
    BY <1>2, <2>1, <2>2, <2>3
<1>13. \A j, k \in Pooled : slots'[j].ctx = slots'[k].ctx /\ slots'[j].ctx # NoConn => j = k
  BY <1>1, <1>7, <1>8, <1>10 DEF ConnectionsExclusive, Entry
<1>14. \A j \in Slots \ Pooled : slots'[j] = Entry(NoConn, "IDLE")
  BY <1>1, <1>7
<1>15. \A j \in Pooled : slots'[j].ctx \in live' \cup {NoConn}
  BY <1>7, <1>8, <1>10 DEF Entry
<1>16. ConnectionsExclusive'
  BY <1>6, <1>11, <1>12, <1>13 DEF ConnectionsExclusive
<1>17. QED
  BY <1>6, <1>14, <1>15, <1>16 DEF Lent

LEMMA ReturnsStep ==
    ASSUME IInv, NEW t \in Threads, NEW i \in Slots, Returns(t, i)
    PROVE  IInv'
<1>1. /\ Within /\ up /\ at[t] = "using" /\ i \in Pooled /\ slots[i].state = "ACTIVE"
      /\ UNCHANGED <<config, up>> /\ SignalFrom(t) /\ Put(holds, holds', t, NoConn)
      /\ active_count' = active_count - 1
  BY DEF IInv, Base, Returns
<1>2. PICK pool \in Returned(i) : Becomes(ScaledDown(pool, active_count - 1))
  BY DEF Returns
<1> DEFINE q == ScaledDown(pool, active_count - 1)
<1>3. /\ IsPool(pool) /\ pool.size = pool_size
      /\ live \subseteq Contexts(Now) => pool.live \subseteq Contexts(pool)
      /\ ~config.fails => Count("ACTIVE", pool) = Count("ACTIVE", Now) - 1
      /\ ~config.cools /\ Uncooled(Now) =>
           /\ Uncooled(pool)
           /\ ~config.fails => Count("IDLE", pool) = Count("IDLE", Now) + 1
  BY <1>1, ReturnedPool
<1>4. Reduces(pool, q)
  BY <1>3, ScalesDown
<1>5. slots' = q.slots /\ pool_size' = q.size /\ live' = q.live
  BY <1>2 DEF Becomes
<1> HIDE DEF q
<1>6. IsPool(q) /\ q.size <= pool_size
  BY <1>3, <1>4 DEF Reduces
<1>7. /\ \A x : Count(x, Now') = Count(x, q)
      /\ Contexts(Now') = Contexts(q)
      /\ Uncooled(Now') <=> Uncooled(q)
  BY <1>5, NextFields DEF Count, Contexts, Uncooled
<1>8. /\ at' \in [Threads -> {"out", "waiting", "woken", "expired", "using"}]
      /\ \A v \in Threads : at'[v] = "using" <=> at[v] = "using" /\ v # t
      /\ Cardinality(Users') = Cardinality(Users) - 1
      /\ (\E v \in Threads : at'[v] = "waiting") =>
           /\ \E v \in Threads : at[v] = "waiting"
           /\ Cardinality(Awake') = Cardinality(Awake) + 1
  BY <1>1, Signalled
<1>9. Cardinality(Users) <= active_count /\ Cardinality(Users) \in Nat \ {0} /\ active_count \in Nat
  <2>1. t \in Users
    BY <1>1 DEF Users
  <2>2. Cardinality(Users) # 0
    BY <2>1, Finite, FS_EmptySet
  <2>3. QED
    BY <1>1, <2>2, Finite DEF IInv, Base, Within
<1>10. Within'
  <2>1. slots' \in [Slots -> [ctx : Conns \cup {NoConn}, state : ConnStates]] /\ live' \subseteq Conns
    BY <1>5, <1>6 DEF IsPool, EntryType
  <2>2. pool_size' \in 0 .. config.max
    BY <1>1, <1>5, <1>6, Sizes DEF IsPool
  <2>3. active_count' \in Nat
    BY <1>1, <1>9
  <2>4. holds' \in [Threads -> Conns \cup {NoConn}]
    BY <1>1 DEF Within, Put
  <2>5. QED
    BY <1>1, <1>8, <2>1, <2>2, <2>3, <2>4 DEF Within
<1>11. Base'
  <2>1. \A u \in Threads : at'[u] # "using" => holds'[u] = NoConn
    BY <1>1, <1>8 DEF IInv, Base, Within, Put
  <2>2. Cardinality(Users') <= active_count'
    BY <1>1, <1>8, <1>9
  <2>3. ~config.cools => Uncooled(Now')
    BY <1>3, <1>4, <1>7 DEF IInv, Base, Reduces
  <2>4. QED
    BY <1>1, <1>10, <2>1, <2>2, <2>3 DEF Base
<1>12. ActiveCounted'
  <2>1. ~config.fails => active_count = Count("ACTIVE", Now)
    BY <1>1, Restated DEF Terms, IInv
  <2>2. ~config.fails => Count("ACTIVE", Now') = Count("ACTIVE", Now) - 1
    BY <1>3, <1>4, <1>7 DEF Reduces
  <2>3. QED
    BY <1>1, <1>10, <2>1, <2>2, RestatedNext DEF Terms
<1>13. NothingLeaks'
  <2>1. live \subseteq Contexts(Now)
    BY <1>1, Restated DEF Terms, IInv
  <2>2. live' \subseteq Contexts(Now')
    BY <2>1, <1>3, <1>4, <1>5, <1>7 DEF Reduces
  <2>3. QED
    BY <1>1, <1>10, <2>2, RestatedNext DEF Terms
<1>14. Lent'
  <2>1. Steady' <=> Steady
    BY <1>1 DEF Steady
  <2>2. CASE Steady
    BY <2>2, <1>8, <1>10, ReturnsLent
  <2>3. CASE ~Steady
    BY <2>1, <2>3 DEF Lent
  <2>4. QED
    BY <2>2, <2>3
<1>15. Owed'
  <2> SUFFICES ASSUME ~config.cools, ~config.resizes, ~config.fails, \E u \in Threads : at'[u] = "waiting"
               PROVE  Count("IDLE", Now') + config.max - pool_size' <= Cardinality(Awake')
    BY <1>1 DEF Owed
  <2>1. Count("IDLE", Now) + config.max - pool_size <= Cardinality(Awake)
    BY <1>8 DEF IInv, Owed
  <2>2. Cardinality(Awake') = Cardinality(Awake) + 1 /\ Cardinality(Awake) \in Nat
    BY <1>8, Finite
  <2>3. Uncooled(pool) /\ Count("IDLE", pool) = Count("IDLE", Now) + 1
    BY <1>3 DEF IInv, Base
  <2>4. /\ Count("IDLE", Now) \in Nat /\ Count("IDLE", q) \in Nat
        /\ q.size \in Int /\ pool_size \in Nat /\ config.max \in Nat
    <3>1. q.size \in Int
      BY <1>6, PoolAssumption DEF IsPool
    <3>2. QED
      BY <3>1, <1>1, <1>6, CountNat, Sizes
  <2>5. Count("IDLE", q) - q.size = Count("IDLE", Now) + 1 - pool_size
    <3>1. Count("IDLE", q) - q.size = Count("IDLE", pool) - pool.size
      BY <1>4, <2>3 DEF Reduces
    <3>2. pool.size = pool_size
      BY <1>3
    <3>3. QED
      BY <3>1, <3>2, <2>3, <2>4
  <2>6. QED
    BY <1>5, <1>7, <2>1, <2>2, <2>4, <2>5
<1>16. QED
  BY <1>11, <1>12, <1>13, <1>14, <1>15 DEF IInv
-----------------------------------------------------------------------------
\* A connection has cooled down.  Slots of no pool are looked at too: what a
\* slot that was given up holds cools as well, and counts for nothing.
LEMMA CoolDownStep == ASSUME IInv, NEW i \in Slots, CoolDown(i) PROVE IInv'
<1>1. /\ Within /\ slots[i].state = "COOLING"
      /\ UNCHANGED <<config, pool_size, active_count, live, at, holds, up>>
  BY DEF IInv, Base, CoolDown
<1>2. \A j \in Slots : /\ slots'[j].ctx = slots[j].ctx
                       /\ slots'[j].state = IF j = i THEN "COOLED" ELSE slots[j].state
  BY DEF IInv, Base, Within, CoolDown
<1>3. Within'
  <2>1. slots' = [slots EXCEPT ![i].state = "COOLED"] /\ "COOLED" \in ConnStates
    BY DEF CoolDown, ConnStates
  <2>2. slots' \in [Slots -> [ctx : Conns \cup {NoConn}, state : ConnStates]]
    BY <1>1, <2>1 DEF Within
  <2>3. QED
    BY <1>1, <2>2 DEF Within
<1>4. config.cools
  BY <1>1, NowFields DEF IInv, Base, Uncooled, Cooling
<1>5. Base'
  <2>1. Users' = Users
    BY <1>1 DEF Users
  <2>2. QED
    BY <1>1, <1>3, <1>4, <2>1 DEF IInv, Base
<1>6. Pooled' = Pooled /\ Pooled \subseteq Slots
  BY <1>1, Sizes DEF Pooled
<1>7. ActiveCounted'
  <2>1. {j \in Pooled : slots'[j].state = "ACTIVE"} = {j \in Pooled : slots[j].state = "ACTIVE"}
    BY <1>1, <1>2, <1>6
  <2>2. QED
    BY <1>1, <1>6, <2>1 DEF IInv, ActiveCounted
<1>8. NothingLeaks'
  <2>1. {slots'[j].ctx : j \in Pooled} = {slots[j].ctx : j \in Pooled}
    BY <1>2, <1>6
  <2>2. QED
    BY <1>1, <1>6, <2>1 DEF IInv, NothingLeaks
<1>9. Lent'
  <2> SUFFICES ASSUME Steady PROVE Lent'
    BY <1>1 DEF Lent, Steady
  <2>1. \A j \in Slots : slots'[j] = IF j = i THEN Entry(slots[i].ctx, "COOLED") ELSE slots[j]
    BY <1>1 DEF CoolDown, Within, Entry
  <2>2. \A j \in Slots \ Pooled : slots[j] = Entry(NoConn, "IDLE")
    BY DEF IInv, Lent
  <2>3. i \in Pooled
    BY <1>1, <2>2 DEF Entry
  <2>4. ConnectionsExclusive
    BY DEF IInv, Lent
  <2>5. ASSUME NEW u \in Threads, at[u] = "using"
        PROVE  \E j \in Pooled : slots'[j] = Entry(holds[u], "ACTIVE")
    <3>1. PICK j \in Pooled : slots[j] = Entry(holds[u], "ACTIVE")
      BY <2>4, <2>5 DEF ConnectionsExclusive
    <3>2. j # i
      BY <1>1, <3>1 DEF Entry
    <3>3. QED
      BY <1>6, <2>1, <3>1, <3>2
  <2>6. ConnectionsExclusive'
    BY <1>1, <1>2, <1>6, <2>4, <2>5 DEF ConnectionsExclusive
  <2>7. QED
    BY <1>1, <1>2, <1>6, <2>1, <2>2, <2>3, <2>6 DEF IInv, Lent
<1>10. Owed'
  BY <1>1, <1>4 DEF Owed
<1>11. QED
  BY <1>5, <1>7, <1>8, <1>9, <1>10 DEF IInv

\* resize to a smaller size: nothing is promised but what the lemma on its
\* loop says.
LEMMA ResizeDownStep == ASSUME IInv, NEW size, ResizeDown(size) PROVE IInv'
<1>1. /\ Within /\ up /\ config.resizes /\ Becomes(Shrunk(size))
      /\ UNCHANGED <<config, active_count, at, holds, up>>
  BY DEF IInv, Base, ResizeDown
<1> DEFINE q == Shrunk(size)
<1>2. Reduces(Now, q)
  BY <1>1, Sizes, Shrinks
<1>3. slots' = q.slots /\ pool_size' = q.size /\ live' = q.live
  BY <1>1 DEF Becomes
<1> HIDE DEF q
<1>4. IsPool(q) /\ q.size <= pool_size
  BY <1>1, <1>2, Sizes DEF Reduces
<1>5. /\ Count("ACTIVE", Now') = Count("ACTIVE", q)
      /\ Contexts(Now') = Contexts(q)
      /\ Uncooled(Now') <=> Uncooled(q)
  BY <1>3, NextFields DEF Count, Contexts, Uncooled
<1>6. Within'
  <2>1. slots' \in [Slots -> [ctx : Conns \cup {NoConn}, state : ConnStates]] /\ live' \subseteq Conns
    BY <1>3, <1>4 DEF IsPool, EntryType
  <2>2. pool_size' \in 0 .. config.max
    BY <1>1, <1>3, <1>4, Sizes DEF IsPool
  <2>3. QED
    BY <1>1, <2>1, <2>2 DEF Within
<1>7. Base'
  <2>1. Users' = Users
    BY <1>1 DEF Users
  <2>2. ~config.cools => Uncooled(Now')
    BY <1>2, <1>5 DEF IInv, Base, Reduces
  <2>3. QED
    BY <1>1, <1>6, <2>1, <2>2 DEF IInv, Base
<1>8. ActiveCounted'
  BY <1>1, <1>2, <1>5, <1>6, Restated, RestatedNext DEF Terms, IInv, Reduces
<1>9. NothingLeaks'
  <2>1. Now.live \subseteq Contexts(Now)
    BY <1>1, Restated, Sizes DEF Terms, IInv
  <2>2. QED
    BY <1>1, <1>2, <1>3, <1>5, <1>6, <2>1, RestatedNext DEF Terms, Reduces
<1>10. Lent' /\ Owed'
  BY <1>1 DEF Lent, Steady, Owed
<1>11. QED
  BY <1>7, <1>8, <1>9, <1>10 DEF IInv

\* cleanup frees all there is, for all there is was in the pool.
LEMMA CleanupStep == ASSUME IInv, Cleanup PROVE IInv'
<1>1. /\ Within /\ up /\ ~up' /\ \A t \in Threads : at[t] = "out"
      /\ live' = live \ {slots[i].ctx : i \in Pooled}
      /\ UNCHANGED <<config, slots, pool_size, active_count, at, holds>>
  BY DEF IInv, Base, Cleanup
<1>2. live' = {}
  BY <1>1 DEF IInv, NothingLeaks
<1>3. Within'
  BY <1>1, <1>2 DEF Within, Cleanup
<1>4. Users' = Users /\ Pooled' = Pooled
  BY <1>1 DEF Users, Pooled
<1>5. Base'
  BY <1>1, <1>3, <1>4, NowFields, NextFields DEF IInv, Base, Uncooled
<1>6. ActiveCounted' /\ NothingLeaks' /\ Owed'
  BY <1>1, <1>2, <1>4 DEF IInv, ActiveCounted, NothingLeaks, Owed
<1>7. Lent'
  BY <1>1, <1>4 DEF IInv, Lent, Steady, ConnectionsExclusive
<1>8. QED
  BY <1>5, <1>6, <1>7 DEF IInv
-----------------------------------------------------------------------------
\* validate closes the connection of a slot that is not active, and makes
\* another one if it can.
LEMMA RenewedLent ==
    ASSUME IInv, NEW i \in Slots, Validate(i), Within', Steady
    PROVE  Lent'
<1>1. /\ Within /\ up /\ i \in Pooled /\ slots[i].state # "ACTIVE" /\ ~config.fails
      /\ UNCHANGED <<config, active_count, at, holds, up>>
      /\ ConnectionsExclusive
      /\ \A j \in Slots \ Pooled : slots[j] = Entry(NoConn, "IDLE")
  BY DEF IInv, Base, Lent, Steady, Validate
<1>2. PICK pool \in Renewals(Freeing(Now, slots[i].ctx), i) : Becomes(pool)
  BY <1>1 DEF Validate
<1>3. slots' = pool.slots /\ pool_size' = pool_size /\ live' = pool.live /\ Pooled' = Pooled
  BY <1>1, <1>2, Renews DEF Becomes, Pooled
<1>4. PICK c \in Conns : Put(slots, pool.slots, i, Entry(c, "IDLE")) /\ Refilled(i, c, pool.live)
  BY <1>1, <1>2, Renews
<1>5. \A j \in Slots : slots'[j] = IF j = i THEN Entry(c, "IDLE") ELSE slots[j]
  BY <1>1, <1>3, <1>4 DEF Put, Within
<1>6. /\ c \in live' \cup {NoConn} /\ c # NoConn
      /\ \A j \in Pooled : j # i => slots[j].ctx \in live' \cup {NoConn} /\ slots[j].ctx # c
      /\ \A u \in Threads : at[u] = "using" => holds[u] \in live'
  <2>1. \A u \in Threads : slots[i] # Entry(holds[u], "ACTIVE")
    BY <1>1 DEF Entry
  <2>2. c # NoConn
    BY <1>1, Sizes
  <2>3. QED
    BY <1>1, <1>3, <1>4, <2>1, <2>2, KeepsApart DEF IInv
<1>7. Pooled \subseteq Slots
  BY <1>1, Sizes
<1>8. ASSUME NEW u \in Threads, at[u] = "using"
      PROVE  \E j \in Pooled : slots'[j] = Entry(holds[u], "ACTIVE")
  <2>1. PICK j \in Pooled : slots[j] = Entry(holds[u], "ACTIVE")
    BY <1>1, <1>8 DEF ConnectionsExclusive
  <2>2. j # i
    BY <1>1, <2>1 DEF Entry
  <2>3. QED
    BY <1>5, <1>7, <2>1, <2>2
<1>9. \A j \in Pooled : slots'[j].state = "ACTIVE" =>
         \E u \in Threads : at[u] = "using" /\ holds[u] = slots'[j].ctx
  BY <1>1, <1>5, <1>7 DEF ConnectionsExclusive, Entry
<1>10. \A j, k \in Pooled : slots'[j].ctx = slots'[k].ctx /\ slots'[j].ctx # NoConn => j = k
  BY <1>1, <1>5, <1>6, <1>7 DEF ConnectionsExclusive, Entry
<1>11. \A j \in Slots \ Pooled : slots'[j] = Entry(NoConn, "IDLE")
  BY <1>1, <1>5
<1>12. \A j \in Pooled : slots'[j].ctx \in live' \cup {NoConn}
  BY <1>5, <1>6, <1>7 DEF Entry
<1>13. ConnectionsExclusive'
  BY <1>1, <1>3, <1>6, <1>8, <1>9, <1>10 DEF ConnectionsExclusive
<1>14. QED
  BY <1>3, <1>11, <1>12, <1>13 DEF Lent

LEMMA ValidateStep == ASSUME IInv, NEW i \in Slots, Validate(i) PROVE IInv'
<1>1. /\ Within /\ up /\ i \in Pooled /\ slots[i].state # "ACTIVE"
      /\ UNCHANGED <<config, active_count, at, holds, up>>
  BY DEF IInv, Base, Validate
<1>2. PICK pool : /\ Becomes(pool)
                  /\ \/ pool \in Renewals(Freeing(Now, slots[i].ctx), i)
                     \/ config.fails /\ pool = Freeing(Now, slots[i].ctx)
  BY DEF Validate
<1>3. slots' = pool.slots /\ pool_size' = pool.size /\ live' = pool.live
  BY <1>2 DEF Becomes
<1>4. /\ IsPool(pool) /\ pool.size = pool_size
      /\ live \subseteq Contexts(Now) => pool.live \subseteq Contexts(pool)
      /\ Count("ACTIVE", pool) = Count("ACTIVE", Now)
      /\ Uncooled(Now) => Uncooled(pool)
      /\ Uncooled(Now) /\ ~config.fails => Count("IDLE", pool) = Count("IDLE", Now)
  <2>1. CASE config.fails /\ pool = Freeing(Now, slots[i].ctx)
    <3>1. /\ IsPool(pool) /\ pool.size = pool_size /\ pool.slots = slots
          /\ pool.live = live \ {slots[i].ctx}
      BY <1>1, <2>1, Closes
    <3>2. Contexts(pool) = Contexts(Now) /\ (Uncooled(pool) <=> Uncooled(Now))
      BY <3>1, NowFields DEF Contexts, Uncooled
    <3>3. Count("ACTIVE", pool) = Count("ACTIVE", Now)
      BY <3>1, NowFields DEF Count
    <3>4. QED
      BY <2>1, <3>1, <3>2, <3>3
  <2>2. CASE pool \in Renewals(Freeing(Now, slots[i].ctx), i)
    <3>1. Shape(pool) /\ pool.size = pool_size
      BY <1>1, <2>2, Renews
    <3>2. PICK c \in Conns : Put(slots, pool.slots, i, Entry(c, "IDLE")) /\ Refilled(i, c, pool.live)
      BY <1>1, <2>2, Renews
    <3>3. "IDLE" \in ConnStates
      BY DEF ConnStates
    <3>4. /\ IsPool(pool)
          /\ \A x : Count(x, pool) = Count(x, Now) + One("IDLE" = x) - One(slots[i].state = x)
          /\ live \subseteq Contexts(Now) => pool.live \subseteq Contexts(pool)
      BY <1>1, <3>1, <3>2, <3>3, Refills
    <3>5. Count("ACTIVE", pool) = Count("ACTIVE", Now)
      BY <1>1, <3>4, Sizes, CountNat DEF One
    <3>6. Uncooled(Now) => Uncooled(pool)
      BY <1>1, <3>2, NowFields DEF Uncooled, Put, Entry, Cooling, Within
    <3>7. ASSUME Uncooled(Now) PROVE Count("IDLE", pool) = Count("IDLE", Now)
      <4>1. slots[i].state = "IDLE"
        BY <1>1, <3>7, NowFields DEF Uncooled, Cooling, Within, ConnStates
      <4>2. QED
        BY <1>1, <4>1, <3>4, Sizes, CountNat DEF One
    <3>8. QED
      BY <3>1, <3>4, <3>5, <3>6, <3>7
  <2>3. QED
    BY <1>2, <2>1, <2>2
<1>5. /\ \A x : Count(x, Now') = Count(x, pool)
      /\ Contexts(Now') = Contexts(pool)
      /\ Uncooled(Now') <=> Uncooled(pool)
  BY <1>3, NextFields DEF Count, Contexts, Uncooled
<1>6. Within'
  <2>1. slots' \in [Slots -> [ctx : Conns \cup {NoConn}, state : ConnStates]] /\ live' \subseteq Conns
    BY <1>3, <1>4 DEF IsPool, EntryType
  <2>2. pool_size' = pool_size
    BY <1>3, <1>4
  <2>3. QED
    BY <1>1, <2>1, <2>2 DEF Within
<1>7. Base'
  <2>1. Users' = Users
    BY <1>1 DEF Users
  <2>2. QED
    BY <1>1, <1>4, <1>5, <1>6, <2>1 DEF IInv, Base
<1>8. ActiveCounted' /\ NothingLeaks'
  BY <1>1, <1>3, <1>4, <1>5, <1>6, Restated, RestatedNext DEF Terms, IInv
<1>9. Lent'
  BY <1>1, <1>6, RenewedLent DEF Lent, Steady
<1>10. Owed'
  <2>1. Awake' = Awake /\ pool_size' = pool_size
    BY <1>1, <1>3, <1>4 DEF Awake
  <2>2. ~config.cools /\ ~config.fails => Count("IDLE", Now') = Count("IDLE", Now)
    BY <1>4, <1>5 DEF IInv, Base
  <2>3. QED
    BY <1>1, <2>1, <2>2 DEF IInv, Owed
<1>11. QED
  BY <1>7, <1>8, <1>9, <1>10 DEF IInv
-----------------------------------------------------------------------------
\* The pool grows to a size: what was there stays, and each new slot that
\* gets a context gets one of its own.
Filled(made, new, size) ==
    /\ made \subseteq pool_size .. size - 1
    /\ config.fails \/ made = pool_size .. size - 1
    /\ \A i \in made : new[i] \in Conns \ live
    /\ \A i, j \in made : new[i] = new[j] => i = j
    /\ slots' \in [Slots -> EntryType]
    /\ \A i \in Slots : slots'[i] = IF i \in made THEN Entry(new[i], "IDLE") ELSE slots[i]
    /\ live' = live \cup {new[i] : i \in made}

LEMMA Creates ==
    ASSUME Within, NEW size \in 0 .. config.max, Created(pool_size .. size - 1)
    PROVE  \E made, new : Filled(made, new, size)
<1>1. PICK made \in SUBSET (pool_size .. size - 1) :
         /\ config.fails \/ made = pool_size .. size - 1
         /\ \E new \in [made -> Conns \ live] :
              /\ \A i, j \in made : new[i] = new[j] => i = j
              /\ slots' = [i \in Slots |-> IF i \in made THEN Entry(new[i], "IDLE") ELSE slots[i]]
              /\ live' = live \cup {new[i] : i \in made}
  BY DEF Created
<1>2. PICK new \in [made -> Conns \ live] :
         /\ \A i, j \in made : new[i] = new[j] => i = j
         /\ slots' = [i \in Slots |-> IF i \in made THEN Entry(new[i], "IDLE") ELSE slots[i]]
         /\ live' = live \cup {new[i] : i \in made}
  BY <1>1
<1>3. \A i \in made : new[i] \in Conns \ live
  BY <1>2
<1>4. \A i \in Slots : slots'[i] = IF i \in made THEN Entry(new[i], "IDLE") ELSE slots[i]
  BY <1>2
<1>5. slots' \in [Slots -> EntryType]
  <2>1. \A i \in Slots : (IF i \in made THEN Entry(new[i], "IDLE") ELSE slots[i]) \in EntryType
    BY <1>3 DEF Entry, EntryType, ConnStates, Within
  <2>2. QED
    BY <1>2, <2>1
<1>6. Filled(made, new, size)
  BY <1>1, <1>2, <1>3, <1>4, <1>5 DEF Filled
<1>7. QED
  BY <1>6

LEMMA GrowsPool ==
    ASSUME Within, NEW size \in 0 .. config.max, size > pool_size, pool_size' = size,
           NEW made, NEW new, Filled(made, new, size)
    PROVE  /\ IsPool(Now')
           /\ live \subseteq Contexts(Now) => live' \subseteq Contexts(Now')
           /\ Uncooled(Now) => Uncooled(Now')
           /\ ~config.fails => /\ Count("ACTIVE", Now') = Count("ACTIVE", Now)
                               /\ Count("IDLE", Now') - size = Count("IDLE", Now) - pool_size
<1>1. /\ made \subseteq pool_size .. size - 1
      /\ config.fails \/ made = pool_size .. size - 1
      /\ \A i \in made : new[i] \in Conns \ live
      /\ slots' \in [Slots -> EntryType]
      /\ \A i \in Slots : slots'[i] = IF i \in made THEN Entry(new[i], "IDLE") ELSE slots[i]
      /\ live' = live \cup {new[i] : i \in made}
  BY DEF Filled
<1>2. pool_size \in Nat /\ size \in Nat /\ 0 .. size - 1 \subseteq Slots
  BY Sizes
<1>3. \A i \in 0 .. pool_size - 1 : i \notin made /\ i \in 0 .. size - 1
  BY <1>1, <1>2
<1>4. \A i \in made : i \in 0 .. size - 1
  BY <1>1, <1>2
<1>5. IsPool(Now')
  <2>1. pool_size' \in 0 .. MaxPool
    BY Sizes
  <2>2. live' \subseteq Conns
    BY <1>1 DEF Within
  <2>3. QED
    BY <1>1, <2>1, <2>2, NextFields DEF IsPool
<1>6. live \subseteq Contexts(Now) => live' \subseteq Contexts(Now')
  <2> SUFFICES ASSUME live \subseteq Contexts(Now), NEW c \in live'
               PROVE  \E i \in 0 .. size - 1 : c = slots'[i].ctx
    BY NextFields DEF Contexts
  <2>1. CASE c \in live
    <3>1. PICK i \in 0 .. pool_size - 1 : c = slots[i].ctx
      BY <2>1, NowFields DEF Contexts
    <3>2. slots'[i] = slots[i]
      BY <1>1, <1>2, <1>3, <3>1
    <3>3. QED
      BY <1>3, <3>1, <3>2
  <2>2. CASE c \notin live
    <3>1. PICK i \in made : c = new[i]
      BY <1>1, <2>2
    <3>2. slots'[i].ctx = c
      BY <1>1, <1>2, <1>4, <3>1 DEF Entry
    <3>3. QED
      BY <1>4, <3>1, <3>2
  <2>3. QED
    BY <2>1, <2>2
<1>7. Uncooled(Now) => Uncooled(Now')
  <2>1. \A i \in Slots : slots'[i].state \in {"IDLE", slots[i].state}
    BY <1>1 DEF Entry
  <2>2. QED
    BY <2>1, NowFields, NextFields DEF Uncooled, Cooling
<1>8. ASSUME ~config.fails
      PROVE  /\ Count("ACTIVE", Now') = Count("ACTIVE", Now)
             /\ Count("IDLE", Now') - size = Count("IDLE", Now) - pool_size
  <2> DEFINE fresh == pool_size .. size - 1
             A == InState("ACTIVE", slots, pool_size)
             I == InState("IDLE", slots, pool_size)
  <2>1. \A i \in 0 .. size - 1 :
           slots'[i].state = IF i \in fresh THEN "IDLE" ELSE slots[i].state
    BY <1>1, <1>2, <1>8 DEF Entry
  <2>2. InState("ACTIVE", slots', size) = A
    <3>1. \A i \in 0 .. size - 1 : i \in fresh <=> i \notin 0 .. pool_size - 1
      BY <1>2
    <3>2. QED
      BY <1>3, <2>1, <3>1 DEF InState
  <2>3. InState("IDLE", slots', size) = I \cup fresh /\ I \cap fresh = {}
    <3>1. \A i \in 0 .. size - 1 : i \in fresh <=> i \notin 0 .. pool_size - 1
      BY <1>2
    <3>2. \A i \in fresh : i \in 0 .. size - 1 /\ i \notin 0 .. pool_size - 1
      BY <1>2
    <3>3. QED
      BY <1>3, <2>1, <3>1, <3>2 DEF InState
  <2>4. IsFiniteSet(fresh) /\ Cardinality(fresh) = size - pool_size
    BY <1>2, FS_Interval
  <2>5. IsFiniteSet(I) /\ Cardinality(I) \in Nat
    BY <1>2, CountType
  <2>6. Cardinality(I \cup fresh) = Cardinality(I) + Cardinality(fresh)
    <3> HIDE DEF I, fresh
    <3>1. Cardinality(I \cup fresh) = Cardinality(I) + Cardinality(fresh) - Cardinality(I \cap fresh)
      BY <2>4, <2>5, FS_Union
    <3>2. Cardinality(I \cap fresh) = 0
      BY <2>3, FS_EmptySet
    <3>3. QED
      BY <1>2, <2>4, <2>5, <3>1, <3>2
  <2>7. Count("ACTIVE", Now') = Count("ACTIVE", Now)
    BY <2>2, NowFields, NextFields DEF Count
  <2>8. Count("IDLE", Now') = Cardinality(I \cup fresh) /\ Count("IDLE", Now) = Cardinality(I)
    BY <2>3, NowFields, NextFields DEF Count
  <2> HIDE DEF I, fresh
  <2>9. QED
    BY <1>2, <2>4, <2>5, <2>6, <2>7, <2>8
<1>9. QED
  BY <1>5, <1>6, <1>7, <1>8

LEMMA GrowsLent ==
    ASSUME Within, Lent, Steady, up, NEW size \in 0 .. config.max, size > pool_size, pool_size' = size,
           NEW made, NEW new, Filled(made, new, size), UNCHANGED <<config, holds, up>>,
           \A t \in Threads : at'[t] = "using" <=> at[t] = "using", Pooled' = 0 .. size - 1
    PROVE  Lent'
<1>1. /\ made = Pooled' \ Pooled
      /\ \A i \in made : new[i] \in Conns \ live
      /\ \A i, j \in made : new[i] = new[j] => i = j
      /\ \A i \in Slots : slots'[i] = IF i \in made THEN Entry(new[i], "IDLE") ELSE slots[i]
      /\ live' = live \cup {new[i] : i \in made}
  BY Sizes DEF Filled, Steady
<1>2. Pooled \subseteq Pooled' /\ Pooled' \subseteq Slots
  BY Sizes
<1>3. /\ ConnectionsExclusive
      /\ \A i \in Slots \ Pooled : slots[i] = Entry(NoConn, "IDLE")
      /\ \A i \in Pooled : slots[i].ctx \in live \cup {NoConn}
  BY DEF Lent
<1>4. \A i \in Pooled : slots'[i] = slots[i]
  BY <1>1, <1>2
<1>5. ASSUME NEW i \in made
      PROVE  slots'[i].ctx = new[i] /\ slots'[i].state = "IDLE"
  <2>1. i \in Slots
    BY <1>1, <1>2
  <2>2. slots'[i] = Entry(new[i], "IDLE")
    BY <1>1, <2>1
  <2>3. QED
    BY <2>2 DEF Entry
<1>6. ASSUME NEW u \in Threads, at'[u] = "using"
      PROVE  /\ holds'[u] \in live'
             /\ \E j \in Pooled' : slots'[j] = Entry(holds'[u], "ACTIVE")
             /\ \A v \in Threads \ {u} : holds'[v] # holds'[u]
  BY <1>1, <1>2, <1>3, <1>4, <1>6 DEF ConnectionsExclusive
<1>7. ASSUME NEW j \in Pooled', slots'[j].state = "ACTIVE"
      PROVE  \E u \in Threads : at'[u] = "using" /\ holds'[u] = slots'[j].ctx
  BY <1>1, <1>3, <1>4, <1>5, <1>7 DEF ConnectionsExclusive
<1>8. ASSUME NEW i \in Pooled', NEW j \in Pooled', slots'[i].ctx = slots'[j].ctx, slots'[i].ctx # NoConn
      PROVE  i = j
  <2>1. CASE i \in made /\ j \in made
    BY <1>1, <1>5, <1>8, <2>1
  <2>2. CASE i \in Pooled /\ j \in Pooled
    BY <1>3, <1>4, <1>8, <2>2 DEF ConnectionsExclusive
  <2>3. CASE i \in made /\ j \in Pooled
    BY <1>1, <1>3, <1>4, <1>5, <1>8, <2>3
  <2>4. CASE i \in Pooled /\ j \in made
    BY <1>1, <1>3, <1>4, <1>5, <1>8, <2>4
  <2>5. QED
    BY <1>1, <2>1, <2>2, <2>3, <2>4
<1>9. \A i \in Slots \ Pooled' : slots'[i] = Entry(NoConn, "IDLE")
  BY <1>1, <1>2, <1>3
<1>10. \A i \in Pooled' : slots'[i].ctx \in live' \cup {NoConn}
  BY <1>1, <1>3, <1>4, <1>5
<1>11. ConnectionsExclusive'
  BY <1>6, <1>7, <1>8 DEF ConnectionsExclusive
<1>12. QED
  BY <1>9, <1>10, <1>11 DEF Lent

\* resize to a larger size wakes all who sleep, warm_up nobody.
LEMMA GrowStep ==
    ASSUME IInv, NEW size \in 0 .. config.max, ResizeUp(size) \/ WarmUp(size)
    PROVE  IInv'
<1>1. /\ Within /\ up /\ size > pool_size /\ pool_size' = size
      /\ Created(pool_size .. size - 1) /\ UNCHANGED <<config, active_count, holds, up>>
      /\ \/ at' = [t \in Threads |-> IF at[t] = "waiting" THEN "woken" ELSE at[t]]
         \/ at' = at
  BY DEF IInv, Base, ResizeUp, WarmUp
<1>2. PICK made, new : Filled(made, new, size)
  BY <1>1, Creates
<1>3. /\ IsPool(Now')
      /\ live \subseteq Contexts(Now) => live' \subseteq Contexts(Now')
      /\ Uncooled(Now) => Uncooled(Now')
      /\ ~config.fails => /\ Count("ACTIVE", Now') = Count("ACTIVE", Now)
                          /\ Count("IDLE", Now') - size = Count("IDLE", Now) - pool_size
  BY <1>1, <1>2, GrowsPool
<1>4. /\ at' \in [Threads -> {"out", "waiting", "woken", "expired", "using"}]
      /\ \A t \in Threads : at'[t] = "using" <=> at[t] = "using"
  BY <1>1 DEF Within
<1>5. Within'
  <2>1. slots' \in [Slots -> [ctx : Conns \cup {NoConn}, state : ConnStates]] /\ live' \subseteq Conns
    BY <1>3, NextFields DEF IsPool, EntryType
  <2>2. QED
    BY <1>1, <1>4, <2>1 DEF Within
<1>6. Base'
  <2>1. Users' = Users
    BY <1>4 DEF Users
  <2>2. QED
    BY <1>1, <1>3, <1>4, <1>5, <2>1 DEF IInv, Base
<1>7. ActiveCounted' /\ NothingLeaks'
  BY <1>1, <1>3, <1>5, Restated, RestatedNext DEF Terms, IInv
<1>8. Lent'
  <2>1. Pooled' = 0 .. size - 1
    BY <1>1, <1>5, RestatedNext DEF Terms
  <2>2. Steady => Lent'
    BY <1>1, <1>2, <1>4, <2>1, GrowsLent DEF IInv
  <2>3. QED
    BY <1>1, <2>2 DEF Lent, Steady
<1>9. Owed'
  <2>1. CASE at' = [t \in Threads |-> IF at[t] = "waiting" THEN "woken" ELSE at[t]]
    <3>1. \A t \in Threads : at'[t] # "waiting"
      BY <2>1
    <3>2. QED
      BY <3>1 DEF Owed
  <2>2. CASE at' = at
    <3> SUFFICES ASSUME ~config.cools, ~config.resizes, ~config.fails, \E u \in Threads : at'[u] = "waiting"
                 PROVE  Count("IDLE", Now') + config.max - pool_size' <= Cardinality(Awake')
      BY <1>1 DEF Owed
    <3>1. Count("IDLE", Now) + config.max - pool_size <= Cardinality(Awake)
      BY <2>2 DEF IInv, Owed
    <3>2. Awake' = Awake
      BY <2>2 DEF Awake
    <3>3. /\ Count("IDLE", Now) \in Nat /\ Count("IDLE", Now') \in Nat
          /\ pool_size \in Nat /\ size \in Nat /\ config.max \in Nat /\ Cardinality(Awake) \in Nat
      BY <1>1, <1>3, CountNat, Sizes, Finite
    <3>4. Count("IDLE", Now') - size = Count("IDLE", Now) - pool_size
      BY <1>3
    <3>5. QED
      BY <1>1, <3>1, <3>2, <3>3, <3>4
  <2>3. QED
    BY <1>1, <2>1, <2>2
<1>10. QED
  BY <1>6, <1>7, <1>8, <1>9 DEF IInv
-----------------------------------------------------------------------------
LEMMA Initially == Init /\ Fits => IInv
<1> SUFFICES ASSUME Init, Fits PROVE IInv
  OBVIOUS
<1>1. /\ config \in Configs /\ config \in ConfigType /\ pool_size = config.initial
      /\ config.initial \in Nat /\ config.initial <= config.max /\ NoConn \notin Conns /\ up = TRUE
  <2>1. config \in Configs /\ config \in ConfigType /\ pool_size = config.initial
    BY PoolAssumption DEF Init
  <2>2. config.initial \in Nat
    BY <2>1, PoolAssumption DEF ConfigType
  <2>3. config.initial <= config.max
    BY DEF Fits
  <2>4. up = TRUE
    BY <2>3 DEF Init
  <2>5. QED
    BY <2>1, <2>2, <2>3, <2>4, PoolAssumption
<1>2. \A i \in Slots : slots[i] = Entry(NoConn, "IDLE")
  BY DEF Init
<1>3. \A i \in Slots : slots[i].ctx = NoConn /\ slots[i].state = "IDLE"
  BY <1>2 DEF Entry
<1>4. Within
  <2>1. pool_size \in 0 .. config.max
    BY <1>1 DEF ConfigType
  <2>2. Entry(NoConn, "IDLE") \in [ctx : Conns \cup {NoConn}, state : ConnStates]
    BY DEF Entry, ConnStates
  <2>3. slots \in [Slots -> [ctx : Conns \cup {NoConn}, state : ConnStates]]
    BY <2>2 DEF Init
  <2>4. active_count \in Nat
    BY DEF Init
  <2>5. QED
    BY <1>1, <2>1, <2>3, <2>4 DEF Init, Within
<1>5. Pooled \subseteq Slots
  BY <1>4, Sizes
<1>6. Users = {} /\ Cardinality(Users) = 0
  BY FS_EmptySet DEF Users, Init
<1>7. Base
  <2>1. Uncooled(Now)
    BY <1>3, NowFields DEF Uncooled, Cooling
  <2>2. Cardinality(Users) <= active_count
    BY <1>6 DEF Init
  <2>3. QED
    BY <1>4, <2>1, <2>2 DEF Base, Init
<1>8. ActiveCounted
  <2>1. {i \in Pooled : slots[i].state = "ACTIVE"} = {}
    BY <1>3, <1>5
  <2>2. QED
    BY <2>1, FS_EmptySet DEF ActiveCounted, Init
<1>9. NothingLeaks
  BY DEF NothingLeaks, Init
<1>10. Lent
  <2>1. ConnectionsExclusive
    BY <1>3, <1>5 DEF ConnectionsExclusive, Init
  <2>2. QED
    BY <1>2, <1>3, <1>5, <2>1 DEF Lent
<1>11. Owed
  BY DEF Owed, Init
<1>12. QED
  BY <1>7, <1>8, <1>9, <1>10, <1>11 DEF IInv

\* The steps of acquire, whichever call of it makes them.
LEMMA LooksStep ==
    ASSUME IInv, NEW t \in Threads, Looking(t), UNCHANGED <<config, up>>,
           TakeAvailable(t) \/ Grow(t)
    PROVE  IInv'
<1>1. Within
  BY DEF IInv, Base
<1>2. CASE \E i \in Slots, c \in Conns : Taken(t, i, c)
  BY <1>2, ObtainsStep
<1>3. CASE GaveUp(t)
  BY <1>3, GaveUpStep
<1>4. QED
  BY <1>1, <1>2, <1>3, Takes

LEMMA Inductive == IInv /\ [Next]_vars => IInv'
<1> SUFFICES ASSUME IInv, [Next]_vars PROVE IInv'
  OBVIOUS
<1>1. \A t \in Threads : at[t] # "out" => up
  BY DEF IInv, Base
<1>2. ASSUME NEW t \in Threads, Acquire(t) PROVE IInv'
  <2>1. up /\ at[t] = "out" /\ UNCHANGED <<config, up>> /\ Looking(t)
    BY <1>2 DEF Acquire, Looking
  <2>2. CASE TakeAvailable(t) \/ Grow(t)
    BY <2>1, <2>2, LooksStep
  <2>3. CASE /\ NoneToTake /\ at' = [at EXCEPT ![t] = "waiting"]
             /\ UNCHANGED <<slots, pool_size, active_count, live, holds>>
    <3>1. Idles(t, "waiting")
      BY <2>1, <2>3 DEF Idles, Put
    <3>2. QED
      BY <3>1, IdlesStep
  <2>4. QED
    BY <1>2, <2>2, <2>3 DEF Acquire
<1>3. ASSUME NEW t \in Threads, Wake(t) PROVE IInv'
  <2>1. Idles(t, "woken")
    BY <1>1, <1>3 DEF Wake, Idles, Put
  <2>2. QED
    BY <2>1, IdlesStep
<1>4. ASSUME NEW t \in Threads, Expire(t) PROVE IInv'
  <2>1. Idles(t, "expired")
    BY <1>1, <1>4 DEF Expire, Idles, Put
  <2>2. QED
    BY <2>1, IdlesStep
<1>5. ASSUME NEW t \in Threads, Retry(t) PROVE IInv'
  <2>1. up /\ at[t] \in {"woken", "expired"} /\ UNCHANGED <<config, up>> /\ Looking(t)
    BY <1>1, <1>5 DEF Retry, Looking
  <2>2. CASE TakeAvailable(t) \/ Grow(t)
    BY <2>1, <2>2, LooksStep
  <2>3. CASE /\ NoneToTake
             /\ at' = [at EXCEPT ![t] = IF at[t] = "expired" THEN "out" ELSE "waiting"]
             /\ UNCHANGED <<slots, pool_size, active_count, live, holds>>
    <3>1. Idles(t, IF at[t] = "expired" THEN "out" ELSE "waiting")
      BY <2>1, <2>3 DEF Idles, Put
    <3>2. QED
      BY <3>1, IdlesStep
  <2>4. QED
    BY <1>5, <2>2, <2>3 DEF Retry
<1>6. ASSUME NEW t \in Threads, Release(t) PROVE IInv'
  <2> DEFINE found == {i \in Pooled : slots[i].ctx = holds[t]
                                      /\ \A j \in Pooled : slots[j].ctx = holds[t] => i <= j}
  <2>1. CASE /\ \A i \in found : slots[i].state # "ACTIVE"
             /\ at' = [at EXCEPT ![t] = "out"]
             /\ UNCHANGED <<slots, pool_size, active_count, live>>
    <3>1. ReturnsNothing(t)
      BY <1>6, <2>1 DEF Release, ReturnsNothing, Put
    <3>2. QED
      BY <3>1, ReturnsNothingStep
  <2>2. CASE \E i \in found :
               /\ slots[i].state = "ACTIVE"
               /\ \E pool \in Returned(i) : Becomes(ScaledDown(pool, active_count - 1))
               /\ active_count' = active_count - 1
               /\ SignalFrom(t)
    <3>1. PICK i \in found :
               /\ slots[i].state = "ACTIVE"
               /\ \E pool \in Returned(i) : Becomes(ScaledDown(pool, active_count - 1))
               /\ active_count' = active_count - 1
               /\ SignalFrom(t)
      BY <2>2
    <3>2. i \in Slots
      BY <3>1 DEF Pooled
    <3>3. Returns(t, i)
      BY <1>6, <3>1 DEF Release, Returns, Put
    <3>4. QED
      BY <3>2, <3>3, ReturnsStep
  <2>3. QED
    BY <1>6, <2>1, <2>2 DEF Release
<1>7. ASSUME NEW size \in 0 .. config.max, ResizeDown(size) \/ ResizeUp(size) \/ WarmUp(size)
      PROVE  IInv'
  BY <1>7, ResizeDownStep, GrowStep
<1>8. CASE UNCHANGED vars
  <2> USE <1>8 DEF vars
  <2>1. Within' /\ Base'
    BY DEF IInv, Base, Within, Users, Uncooled, Now
  <2>2. ActiveCounted' /\ NothingLeaks'
    BY DEF IInv, ActiveCounted, NothingLeaks, Pooled
  <2>3. Lent'
    BY LentKept DEF IInv, Base
  <2>4. Owed'
    BY DEF IInv, Owed, Now, Awake
  <2>5. QED
    BY <2>1, <2>2, <2>3, <2>4 DEF IInv
<1>9. QED
  BY <1>2, <1>3, <1>4, <1>5, <1>6, <1>7, <1>8, CoolDownStep, ValidateStep, CleanupStep DEF Next

\* init chooses the configuration, and nobody changes it.
LEMMA ConfigKept == [Next]_vars => config' = config
<1> SUFFICES ASSUME [Next]_vars PROVE config' = config
  OBVIOUS
<1>1. ASSUME NEW t \in Threads, Acquire(t) \/ Wake(t) \/ Expire(t) \/ Retry(t) \/ Release(t)
      PROVE  config' = config
  BY <1>1 DEF Acquire, Wake, Expire, Retry, Release
<1>2. ASSUME NEW i \in Slots, CoolDown(i) \/ Validate(i) PROVE config' = config
  BY <1>2 DEF CoolDown, Validate
<1>3. ASSUME NEW size, ResizeDown(size) \/ ResizeUp(size) \/ WarmUp(size) PROVE config' = config
  BY <1>3 DEF ResizeDown, ResizeUp, WarmUp
<1>4. QED
  BY <1>1, <1>2, <1>3 DEF Next, Cleanup, vars

LEMMA UntouchedStep == Untouched /\ [Next]_vars => Untouched'
<1> SUFFICES ASSUME Untouched, [Next]_vars PROVE Untouched'
  OBVIOUS
<1>1. /\ \A t \in Threads : at[t] = "out"
      /\ \A i \in Slots : slots[i].state = "IDLE"
      /\ ~up
  BY DEF Untouched, Entry
<1>2. ~ \E t \in Threads : Acquire(t) \/ Wake(t) \/ Expire(t) \/ Retry(t) \/ Release(t)
  BY <1>1 DEF Acquire, Wake, Expire, Retry, Release
<1>3. ~ \E i \in Slots : CoolDown(i) \/ Validate(i)
  BY <1>1 DEF CoolDown, Validate
<1>4. ~ \E size \in 0 .. config.max : ResizeDown(size) \/ ResizeUp(size) \/ WarmUp(size)
  BY <1>1 DEF ResizeDown, ResizeUp, WarmUp
<1>5. ~ Cleanup
  BY <1>1 DEF Cleanup
<1>6. UNCHANGED vars
  BY <1>2, <1>3, <1>4, <1>5 DEF Next
<1>7. QED
  BY <1>6 DEF Untouched, vars

\* A pool fits for its whole life, or never.
Whole == IF Fits THEN IInv ELSE Untouched

LEMMA Always == Spec => []Whole
<1>1. Init => Whole
  <2> SUFFICES ASSUME Init PROVE Whole
    OBVIOUS
  <2>1. CASE Fits
    BY <2>1, Initially DEF Whole
  <2>2. CASE ~Fits
    BY <2>2 DEF Init, Whole, Untouched, Fits
  <2>3. QED
    BY <2>1, <2>2
<1>2. Whole /\ [Next]_vars => Whole'
  BY Inductive, UntouchedStep, ConfigKept DEF Whole, Fits
<1>3. QED
  BY <1>1, <1>2, PTL DEF Spec

\* Nobody is anywhere in a pool that is not touched.
LEMMA UntouchedIsSound ==
    Untouched => SteadyPoolIsExclusive /\ ActiveCounted /\ NothingLeaks /\ NoLostWakeup
<1> SUFFICES ASSUME Untouched
             PROVE  SteadyPoolIsExclusive /\ ActiveCounted /\ NothingLeaks /\ NoLostWakeup
  OBVIOUS
<1>1. /\ \A t \in Threads : at[t] = "out"
      /\ \A i \in Pooled : slots[i].state = "IDLE" /\ slots[i].ctx = NoConn
      /\ ~up /\ live = {} /\ active_count = 0
  BY DEF Untouched, Entry, Pooled
<1>2. SteadyPoolIsExclusive /\ NothingLeaks /\ NoLostWakeup
  BY <1>1 DEF SteadyPoolIsExclusive, ConnectionsExclusive, NothingLeaks, NoLostWakeup
<1>3. {i \in Pooled : slots[i].state = "ACTIVE"} = {}
  BY <1>1
<1>4. ActiveCounted
  BY <1>1, <1>3, FS_EmptySet DEF ActiveCounted
<1>5. QED
  BY <1>2, <1>4

-----------------------------------------------------------------------------
(***************************************************************************)
(* A pool that init has made no larger than config.max_pool_size stays     *)
(* within its array, whatever order acquire, release, resize, warm_up,     *)
(* validate and cleanup come in; init accepts any other as well, and one   *)
(* is past its array exactly when it was made so.                          *)
(***************************************************************************)
THEOREM Typed == Spec => []TypeOK
<1>1. Whole => TypeOK
  <2> SUFFICES ASSUME Whole PROVE TypeOK
    OBVIOUS
  <2>1. config \in Configs /\ config.initial \in 0 .. MaxPool /\ config.max \in 1 .. MaxPool
    BY PoolAssumption DEF Whole, IInv, Base, Within, Untouched, ConfigType
  <2>2. CASE Fits
    <3>1. Within
      BY <2>2 DEF Whole, IInv, Base
    <3>2. pool_size \in 0 .. MaxPool /\ ~(pool_size > config.max) /\ ~(config.initial > config.max)
      BY <2>1, <2>2, <3>1, PoolAssumption DEF Within, Fits
    <3>3. QED
      BY <3>1, <3>2 DEF Within, TypeOK
  <2>3. CASE ~Fits
    <3>1. Untouched
      BY <2>3 DEF Whole
    <3>2. Entry(NoConn, "IDLE") \in [ctx : Conns \cup {NoConn}, state : ConnStates]
      BY DEF Entry, ConnStates
    <3>3. slots \in [Slots -> [ctx : Conns \cup {NoConn}, state : ConnStates]]
      BY <3>1, <3>2 DEF Untouched
    <3>4. pool_size \in 0 .. MaxPool /\ active_count \in Nat /\ up = FALSE
      BY <2>1, <3>1 DEF Untouched
    <3>5. pool_size > config.max <=> config.initial > config.max
      BY <3>1 DEF Untouched
    <3>6. /\ at \in [Threads -> {"out", "waiting", "woken", "expired", "using"}]
          /\ holds \in [Threads -> Conns \cup {NoConn}]
      BY <3>1 DEF Untouched
    <3>7. QED
      BY <2>1, <3>1, <3>3, <3>4, <3>5, <3>6 DEF Untouched, TypeOK
  <2>4. QED
    BY <2>2, <2>3
<1>2. QED
  BY <1>1, Always, PTL

(***************************************************************************)
(* A pool that keeps its slots and has memory lends every connection to    *)
(* one thread at a time, which has it in an active slot, and allocated.    *)
(***************************************************************************)
THEOREM LendsToOne == Spec => []SteadyPoolIsExclusive
<1>1. Whole => SteadyPoolIsExclusive
  BY UntouchedIsSound DEF Whole, IInv, Lent, SteadyPoolIsExclusive
<1>2. QED
  BY <1>1, Always, PTL

(***************************************************************************)
(* active_count is the number of active slots, through every release that  *)
(* gives up a slot and every resize, as long as malloc does not fail.      *)
(***************************************************************************)
THEOREM CountsItsActive == Spec => []ActiveCounted
<1>1. Whole => ActiveCounted
  BY UntouchedIsSound DEF Whole, IInv
<1>2. QED
  BY <1>1, Always, PTL

(***************************************************************************)
(* Every context that was made and not freed is in a slot of the pool, and *)
(* cleanup frees all, also when making a connection failed before.         *)
(***************************************************************************)
THEOREM LosesNone == Spec => []NothingLeaks
<1>1. Whole => NothingLeaks
  BY UntouchedIsSound DEF Whole, IInv
<1>2. QED
  BY <1>1, Always, PTL

(***************************************************************************)
(* While all that are in acquire wait, there is nothing for them: the      *)
(* signals of release and the broadcast of resize suffice, for any number  *)
(* of threads.                                                             *)
(***************************************************************************)
THEOREM WakesInTime == Spec => []NoLostWakeup
<1>1. IInv => NoLostWakeup
  <2> SUFFICES ASSUME IInv, ~config.cools, ~config.resizes, ~config.fails,
                      \E t \in Threads : at[t] = "waiting",
                      \A t \in Threads : at[t] \notin {"woken", "expired"}
               PROVE  pool_size = config.max /\ \A i \in Pooled : ~IsIdle(i)
    BY DEF NoLostWakeup
  <2>1. Within
    BY DEF IInv, Base
  <2>2. Cardinality(Awake) = 0
    <3>1. Awake = {}
      BY DEF Awake
    <3>2. QED
      BY <3>1, FS_EmptySet
  <2>3. Count("IDLE", Now) + config.max - pool_size <= 0
    BY <2>2 DEF IInv, Owed
  <2>4. /\ Count("IDLE", Now) \in Nat /\ config.max \in Nat
        /\ pool_size \in Nat /\ pool_size <= config.max
    BY <2>1, Sizes, CountNat
  <2>5. pool_size = config.max /\ Count("IDLE", Now) = 0
    BY <2>3, <2>4
  <2>6. InState("IDLE", slots, pool_size) = {}
    <3>1. IsFiniteSet(InState("IDLE", slots, pool_size))
      BY <2>4, CountType
    <3>2. Cardinality(InState("IDLE", slots, pool_size)) = 0
      BY <2>1, <2>5, Sizes DEF Count
    <3>3. QED
      BY <3>1, <3>2, FS_EmptySet
  <2>7. QED
    BY <2>1, <2>5, <2>6, Sizes DEF InState, IsIdle
<1>2. Whole => NoLostWakeup
  BY <1>1, UntouchedIsSound DEF Whole
<1>3. QED
  BY <1>2, Always, PTL
=============================================================================
