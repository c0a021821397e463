--------------------------- MODULE ConnectionPool ---------------------------
(***************************************************************************)
(* The connection pool of                                                  *)
(* contrib/unstable/libpolycall/src/core/network/connection_pool.c and the *)
(* threads that share it.                                                  *)
(*                                                                         *)
(* Every operation runs under pool_mutex from its first line to its last,  *)
(* except that acquire gives the mutex up in pthread_cond_timedwait: an    *)
(* operation is one action, and a call that waits is resumed by Retry.     *)
(*                                                                         *)
(* A protocol context is a member of Conns, a piece of memory: "live" are  *)
(* those allocated now, and malloc may return one that was freed before.   *)
(* Time is when a deadline passes (Expire) and when a connection has       *)
(* cooled down (CoolDown).  Which idle connection a strategy prefers, and  *)
(* whether a connection has served its requests, was idle for too long or  *)
(* is closed by its peer, is left open.  Of the statistics only            *)
(* active_count is used by the code and kept.                              *)
(***************************************************************************)
EXTENDS Integers, FiniteSets

CONSTANTS Threads,
          Conns,        \* the protocol contexts malloc can return
          NoConn,       \* the null proto_ctx
          MaxPool,      \* bound: POLYCALL_MAX_POOL_CONNECTIONS
          MinPool,      \* config.min_pool_size
          Configs       \* what differs from pool to pool, see below

(***************************************************************************)
(* initial, max: config.initial_pool_size, config.max_pool_size; init      *)
(* compares neither with the other.  autoscale: enable_auto_scaling.       *)
(* cools: connection_cooldown_ms is not 0.  resizes: somebody calls resize *)
(* with a smaller size.  fails: malloc may fail.                           *)
(***************************************************************************)
ConfigType == [initial : 0 .. MaxPool, max : 1 .. MaxPool,
               autoscale : BOOLEAN, cools : BOOLEAN, resizes : BOOLEAN, fails : BOOLEAN]

ASSUME PoolAssumption ==
    /\ MaxPool \in Nat /\ MinPool \in Nat
    /\ IsFiniteSet(Threads) /\ NoConn \notin Conns
    /\ Configs \subseteq ConfigType

VARIABLES config,
          slots,        \* connections[...]: proto_ctx and state
          pool_size,
          active_count,
          live,         \* the contexts that are allocated
          at,           \* where each thread is
          holds,        \* the connection each thread was given
          up            \* is the pool there, and within its array?

vars == <<config, slots, pool_size, active_count, live, at, holds, up>>

Slots == 0 .. MaxPool - 1     \* those from config.max on are not there

\* POLYCALL_CONN_STATE_*; COOLED is COOLING past its cooldown.
ConnStates == {"IDLE", "ACTIVE", "COOLING", "COOLED"}
Cooling == {"COOLING", "COOLED"}

Entry(c, s) == [ctx |-> c, state |-> s]

Pooled == {i \in Slots : i < pool_size}

IsIdle(i) == slots[i].state = "IDLE"

Closable(entry) == entry.state \in {"IDLE"} \cup Cooling

\* utilization_rate < scaling_threshold / 2, for the default of 0.75.
Underused(active, size) == 8 * active < 3 * size

Inside(t) == at[t] \in {"waiting", "woken", "expired"}

-----------------------------------------------------------------------------
\* Mistakes the code could have made; each violates a property below.
AvailableAny ==                      \* active entries not told apart by ROUND_ROBIN
    IF \E i \in Pooled : slots[i].ctx # NoConn
    THEN {i \in Pooled : slots[i].ctx # NoConn} ELSE Pooled

MarkActiveUncounted(t, i, c) ==      \* active_count++ forgotten
    /\ slots' = [slots EXCEPT ![i] = Entry(c, "ACTIVE")]
    /\ at' = [at EXCEPT ![t] = "using"] /\ holds' = [holds EXCEPT ![t] = c]
    /\ UNCHANGED active_count

WithoutFreeing(pool, i) ==           \* the context of the slot is not freed
    [pool EXCEPT !.slots[i] = pool.slots[pool.size - 1], !.size = pool.size - 1]

SignalNobody(t) == at' = [at EXCEPT ![t] = "out"]

GrowUnbounded(t) ==                  \* max_pool_size not looked at
    /\ \A i \in Pooled : slots[i].state = "ACTIVE"
    /\ pool_size' = pool_size + 1
    /\ UNCHANGED <<slots, live, active_count, at, holds>>

-----------------------------------------------------------------------------
(***************************************************************************)
(* find_available_connection: an idle one, by one strategy or another, and *)
(* if there is none the first that has cooled down.                        *)
(***************************************************************************)
FirstCooled ==
    {i \in Pooled : /\ slots[i].state = "COOLED"
                    /\ \A j \in Pooled : slots[j].state = "COOLED" => i <= j}

Available ==
    IF \E i \in Pooled : IsIdle(i) THEN {i \in Pooled : IsIdle(i)} ELSE FirstCooled

(***************************************************************************)
(* An operation on the pool as a value: its slots, size and live contexts, *)
(* and whether all it freed was live.  What follows the second release of  *)
(* a context is not defined; such a step is not followed.                  *)
(***************************************************************************)
Now == [slots |-> slots, size |-> pool_size, live |-> live, sound |-> TRUE]

Freeing(pool, c) ==
    [pool EXCEPT !.live = @ \ {c}, !.sound = @ /\ (c = NoConn \/ c \in pool.live)]

\* A slot is given up: the last entry moves into it, and what the last slot
\* holds stays there.
Without(pool, i) ==
    [Freeing(pool, pool.slots[i].ctx) EXCEPT !.slots[i] = pool.slots[pool.size - 1],
                                             !.size = pool.size - 1]

\* Slot i gets a new context.
Renewals(pool, i) ==
    {[pool EXCEPT !.slots[i] = Entry(new, "IDLE"), !.live = @ \cup {new}] : new \in Conns \ pool.live}

Becomes(pool) ==
    pool.sound /\ slots' = pool.slots /\ pool_size' = pool.size /\ live' = pool.live

\* pthread_cond_signal, after what the caller t itself does.
SignalFrom(t) ==
    LET waiters == {u \in Threads : at[u] = "waiting"}
    IN  IF waiters = {}
        THEN at' = [at EXCEPT ![t] = "out"]
        ELSE \E u \in waiters : at' = [at EXCEPT ![t] = "out", ![u] = "woken"]

-----------------------------------------------------------------------------
\* The array has config.max entries.  What an operation does on a pool that
\* is larger is not defined, and none is followed.
Init ==
    /\ config \in Configs
    /\ slots = [i \in Slots |-> Entry(NoConn, "IDLE")]
    /\ pool_size = config.initial /\ active_count = 0
    /\ live = {} /\ up = (config.initial <= config.max)
    /\ at = [t \in Threads |-> "out"]
    /\ holds = [t \in Threads |-> NoConn]

MarkActive(t, i, c) ==
    /\ slots' = [slots EXCEPT ![i] = Entry(c, "ACTIVE")]
    /\ active_count' = active_count + 1
    /\ at' = [at EXCEPT ![t] = "using"]
    /\ holds' = [holds EXCEPT ![t] = c]

GiveUp(t) ==
    /\ at' = [at EXCEPT ![t] = "out"]
    /\ UNCHANGED <<active_count, holds>>

\* acquire has settled on slot i, which is in the pool or just added to it.
HandOut(t, i) ==
    LET c == slots[i].ctx IN
    \/ /\ c # NoConn
       /\ MarkActive(t, i, c) /\ UNCHANGED live
    \/ /\ c = NoConn
       /\ \E new \in Conns \ live : MarkActive(t, i, new) /\ live' = live \cup {new}
    \/ /\ c = NoConn /\ config.fails
       /\ GiveUp(t) /\ UNCHANGED <<slots, live>>
    \/ /\ c \in live /\ slots[i].state \in Cooling      \* fails its validation
       /\ \/ \E new \in Conns \ (live \ {c}) :
                MarkActive(t, i, new) /\ live' = (live \ {c}) \cup {new}
          \/ /\ config.fails
             /\ live' = live \ {c} /\ GiveUp(t) /\ UNCHANGED slots

TakeAvailable(t) ==
    /\ \E i \in Available : HandOut(t, i)
    /\ UNCHANGED pool_size

Grow(t) ==
    /\ Available = {} /\ pool_size < config.max
    /\ pool_size' = pool_size + 1
    /\ HandOut(t, pool_size)

NoneToTake == Available = {} /\ pool_size >= config.max

\* With timeout_ms = 0 the call does not wait.
Acquire(t) ==
    /\ up /\ at[t] = "out"
    /\ \/ TakeAvailable(t) \/ Grow(t)
       \/ /\ NoneToTake
          /\ at' = [at EXCEPT ![t] = "waiting"]
          /\ UNCHANGED <<slots, pool_size, active_count, live, holds>>
    /\ UNCHANGED <<config, up>>

\* The end of pthread_cond_timedwait: signalled (or by chance), or expired.
Wake(t) ==
    /\ at[t] = "waiting"
    /\ at' = [at EXCEPT ![t] = "woken"]
    /\ UNCHANGED <<config, slots, pool_size, active_count, live, holds, up>>

Expire(t) ==
    /\ at[t] \in {"waiting", "woken"}
    /\ at' = [at EXCEPT ![t] = "expired"]
    /\ UNCHANGED <<config, slots, pool_size, active_count, live, holds, up>>

\* The loop goes on with the mutex.
Retry(t) ==
    /\ at[t] \in {"woken", "expired"}
    /\ \/ TakeAvailable(t) \/ Grow(t)
       \/ /\ NoneToTake
          /\ at' = [at EXCEPT ![t] = IF at[t] = "expired" THEN "out" ELSE "waiting"]
          /\ UNCHANGED <<slots, pool_size, active_count, live, holds>>
    /\ UNCHANGED <<config, up>>

-----------------------------------------------------------------------------
\* The highest closable slot of the pool is given up when it is used little.
ScaledDown(pool, active) ==
    LET closable == {i \in 0 .. pool.size - 1 : Closable(pool.slots[i])}
    IN  IF /\ config.autoscale /\ Underused(active, pool.size)
           /\ pool.size > MinPool /\ closable # {}
        THEN Without(pool, CHOOSE i \in closable : \A j \in closable : j <= i)
        ELSE pool

\* What release makes of slot i: the connection stays, or another takes its
\* place, or, when no other can be made, what was freed stays.
Returned(i) ==
    LET closed == Freeing(Now, slots[i].ctx)
    IN  {[Now EXCEPT !.slots[i].state = IF config.cools THEN "COOLING" ELSE "IDLE"]}
        \cup Renewals(closed, i)
        \cup (IF config.fails THEN {closed} ELSE {})

\* The first slot of the pool with the context, if it is active, is returned.
Release(t) ==
    LET found == {i \in Pooled : slots[i].ctx = holds[t]
                                 /\ \A j \in Pooled : slots[j].ctx = holds[t] => i <= j}
    IN  /\ up /\ at[t] = "using"
        /\ holds' = [holds EXCEPT ![t] = NoConn]
        /\ \/ /\ \A i \in found : slots[i].state # "ACTIVE"
              /\ at' = [at EXCEPT ![t] = "out"]
              /\ UNCHANGED <<slots, pool_size, active_count, live>>
           \/ \E i \in found :
                /\ slots[i].state = "ACTIVE"
                /\ \E pool \in Returned(i) : Becomes(ScaledDown(pool, active_count - 1))
                /\ active_count' = active_count - 1
                /\ SignalFrom(t)
        /\ UNCHANGED <<config, up>>

CoolDown(i) ==
    /\ slots[i].state = "COOLING"
    /\ slots' = [slots EXCEPT ![i].state = "COOLED"]
    /\ UNCHANGED <<config, pool_size, active_count, live, at, holds, up>>

-----------------------------------------------------------------------------
\* One turn of the loop that makes the pool smaller.
LookedAt(pool, i, size) ==
    IF pool.size > size /\ Closable(pool.slots[i]) THEN Without(pool, i) ELSE pool

\* From the last slot down, as many closable ones as there are too many.
Shrunk(size) ==
    LET after[turns \in 0 .. pool_size] ==
            IF turns = 0 THEN Now ELSE LookedAt(after[turns - 1], pool_size - turns, size)
    IN  after[pool_size]

ResizeDown(size) ==
    /\ up /\ config.resizes /\ size < pool_size
    /\ Becomes(Shrunk(size))
    /\ UNCHANGED <<config, active_count, at, holds, up>>

\* The slots in "to" get new contexts, as far as there is memory for them.
Created(to) ==
    \E made \in SUBSET to :
        /\ config.fails \/ made = to
        /\ \E new \in [made -> Conns \ live] :
             /\ \A i, j \in made : new[i] = new[j] => i = j
             /\ slots' = [i \in Slots |-> IF i \in made THEN Entry(new[i], "IDLE") ELSE slots[i]]
             /\ live' = live \cup {new[i] : i \in made}

\* resize to a larger size, which tells all waiters.
ResizeUp(size) ==
    /\ up /\ size > pool_size
    /\ Created(pool_size .. size - 1)
    /\ pool_size' = size
    /\ at' = [t \in Threads |-> IF at[t] = "waiting" THEN "woken" ELSE at[t]]
    /\ UNCHANGED <<config, active_count, holds, up>>

\* warm_up, which tells none.
WarmUp(count) ==
    /\ up /\ count > pool_size
    /\ Created(pool_size .. count - 1)
    /\ pool_size' = count
    /\ UNCHANGED <<config, active_count, at, holds, up>>

\* validate with close_invalid, for a connection that has been closed by its
\* peer or was never made.
Validate(i) ==
    LET closed == Freeing(Now, slots[i].ctx) IN
    /\ up /\ i \in Pooled /\ slots[i].state # "ACTIVE"
    /\ \E pool \in Renewals(closed, i) \cup (IF config.fails THEN {closed} ELSE {}) : Becomes(pool)
    /\ UNCHANGED <<config, active_count, at, holds, up>>

\* Nobody is in a call or has a connection any more.  Every context of the
\* pool is freed; a second time is not followed, as above.
Cleanup ==
    /\ up /\ \A t \in Threads : at[t] = "out"
    /\ \A i \in Pooled : slots[i].ctx \in live \cup {NoConn}
    /\ \A i, j \in Pooled : slots[i].ctx = slots[j].ctx => i = j \/ slots[i].ctx = NoConn
    /\ live' = live \ {slots[i].ctx : i \in Pooled}
    /\ up' = FALSE
    /\ UNCHANGED <<config, slots, pool_size, active_count, at, holds>>

Next ==
    \/ \E t \in Threads : Acquire(t) \/ Wake(t) \/ Expire(t) \/ Retry(t) \/ Release(t)
    \/ \E i \in Slots : CoolDown(i) \/ Validate(i)
    \/ \E size \in 0 .. config.max : ResizeDown(size) \/ ResizeUp(size) \/ WarmUp(size)
    \/ Cleanup

Spec == Init /\ [][Next]_vars

-----------------------------------------------------------------------------
\* No operation takes the pool past its array: it is larger only when it was
\* made larger.  And connections are where they can be.
TypeOK ==
    /\ config \in Configs
    /\ slots \in [Slots -> [ctx : Conns \cup {NoConn}, state : ConnStates]]
    /\ pool_size \in 0 .. MaxPool /\ active_count \in Nat
    /\ pool_size > config.max <=> config.initial > config.max
    /\ live \subseteq Conns
    /\ at \in [Threads -> {"out", "waiting", "woken", "expired", "using"}]
    /\ holds \in [Threads -> Conns \cup {NoConn}]
    /\ up \in BOOLEAN

(***************************************************************************)
(* Whoever was given a connection has it alone: it is allocated, in one    *)
(* slot of the pool, which is active, and no other thread has it; and no   *)
(* slot is active for nobody.                                              *)
(***************************************************************************)
ConnectionsExclusive ==
    /\ \A t \in Threads : at[t] = "using" =>
          /\ holds[t] \in live
          /\ \E i \in Pooled : slots[i] = Entry(holds[t], "ACTIVE")
          /\ \A u \in Threads \ {t} : holds[u] # holds[t]
    /\ \A i \in Pooled : slots[i].state = "ACTIVE" =>
          \E t \in Threads : at[t] = "using" /\ holds[t] = slots[i].ctx
    /\ \A i, j \in Pooled : slots[i].ctx = slots[j].ctx /\ slots[i].ctx # NoConn => i = j

\* A pool that gives up no slot and never runs out of memory.
Steady == ~config.autoscale /\ ~config.resizes /\ ~config.fails

(***************************************************************************)
(* Such a pool lends every connection to one thread at a time, whoever     *)
(* acquires, releases, validates and warms it up in whatever order.        *)
(***************************************************************************)
SteadyPoolIsExclusive == Steady => ConnectionsExclusive

(***************************************************************************)
(* active_count, which the scaling goes by, is the number of active slots, *)
(* while slots are given up, moved over others and reused.                 *)
(***************************************************************************)
ActiveCounted ==
    ~config.fails => active_count = Cardinality({i \in Pooled : slots[i].state = "ACTIVE"})

(***************************************************************************)
(* No connection is lost: one that was made and not freed is in a slot of  *)
(* the pool, and cleanup frees all, whatever failed before.                *)
(***************************************************************************)
NothingLeaks ==
    IF up THEN live \subseteq {slots[i].ctx : i \in Pooled} ELSE live = {}

(***************************************************************************)
(* A thread does not sleep over a connection it could have: while all that *)
(* are in acquire wait, none is idle and the pool is at its maximum.  (Not *)
(* with a cooldown, whose end is announced to nobody, nor with resize to a *)
(* smaller size or without memory.)                                        *)
(***************************************************************************)
NoLostWakeup ==
    (~config.cools /\ ~config.resizes /\ ~config.fails
     /\ (\E t \in Threads : at[t] = "waiting")
     /\ (\A t \in Threads : at[t] \notin {"woken", "expired"}))
    => pool_size = config.max /\ \A i \in Pooled : ~IsIdle(i)
=============================================================================
