--------------------------- MODULE MicroServices ---------------------------
(***************************************************************************)
(* The service table of core/src/micro/polycall_micro.c: up to             *)
(* MaxServices services, found by the id their creator chose, each with a  *)
(* queue of commands, and a collector that takes those not used for longer *)
(* than a timeout.                                                         *)
(*                                                                         *)
(* No function of the file calls back into the table, and none blocks: the *)
(* operations are atomic, except that the collector's loop is cut into one *)
(* step a slot, during which nothing else happens and time stands still    *)
(* (the code reads it once).  A command is the number under which it was   *)
(* submitted.  A service's state, flags and data are not read by the file. *)
(* The state machine and protocol contexts it creates are not used again,  *)
(* and the id of a slot that is not active is not read.                    *)
(***************************************************************************)
EXTENDS Integers, Sequences, FiniteSets

CONSTANTS ServiceIds,     \* the ids callers give services
          MaxServices,    \* POLYCALL_MICRO_MAX_SERVICES
          MaxCommands,    \* POLYCALL_MICRO_MAX_COMMANDS
          Timeout,        \* collect_garbage's hour
          Word,           \* timestamps are computed modulo this, 2^64
          DuplicateIds,   \* may a caller reuse the id of an active service?
          MaxTime,        \* bound: the clock stops there
          MaxSubmitted,   \* bound: commands ever submitted
          MaxBatch        \* bound: commands in one batch

ASSUME SizesAssumption ==
    /\ MaxServices \in Nat \ {0} /\ MaxCommands \in Nat /\ Timeout \in Nat
    /\ MaxTime \in Nat /\ MaxSubmitted \in Nat /\ MaxBatch \in Nat
ASSUME WordAssumption == Word \in Nat /\ Word > MaxTime + Timeout
ASSUME CallerAssumption == ServiceIds # {} /\ DuplicateIds \in BOOLEAN

VARIABLES services,       \* service_array.services: id and last_update
          command_queue,  \* and the queue of each
          active_mask,    \* the slots whose bit is set
          count,
          now,            \* time(NULL)
          submitted,      \* commands submitted so far
          gc,             \* the collector's slot, 0 when it does not run
          up              \* is the context initialized?

vars == <<services, command_queue, active_mask, count, now, submitted, gc, up>>

-----------------------------------------------------------------------------
Slots == 1 .. MaxServices

Service == [id : ServiceIds, last_update : 0 .. MaxTime]

\* What a caller can do: the collector is not running.
Callable == up /\ gc = 0

\* The search every operation by id makes: the first active slot of that id.
IsFound(i, id) ==
    /\ i \in active_mask /\ services[i].id = id
    /\ \A j \in active_mask : services[j].id = id => i <= j

IsLowestFree(i) == i \in Slots \ active_mask /\ 1 .. i - 1 \subseteq active_mask

\* filter_commands' loop: what the predicate holds of moves to the front.
Filtered(queue, predicate) ==
    LET written[read \in 0 .. Len(queue)] ==
            IF read = 0 THEN <<>>
            ELSE IF queue[read] \in predicate THEN Append(written[read - 1], queue[read])
            ELSE written[read - 1]
    IN  written[Len(queue)]

FirstOf(all) == SubSeq(all, 1, IF Len(all) < MaxCommands THEN Len(all) ELSE MaxCommands)

-----------------------------------------------------------------------------
\* Mistakes the code could have made; each violates a property below.
CreateUncounted(id) ==      \* the mask set, the count not raised
    /\ Callable /\ count < MaxServices
    /\ DuplicateIds \/ \A i \in active_mask : services[i].id # id
    /\ \E i \in Slots :
        /\ IsLowestFree(i)
        /\ services' = [services EXCEPT ![i] = [id |-> id, last_update |-> now]]
        /\ command_queue' = [command_queue EXCEPT ![i] = <<>>]
        /\ active_mask' = active_mask \cup {i}
    /\ UNCHANGED <<count, now, submitted, gc, up>>

IsExpiredEarly(i) ==        \* as soon as the timeout, not after it
    (now - services[i].last_update) % Word >= Timeout

AppendedInFront(queue, commands) == FirstOf(commands \o queue)

AppendedUnbounded(queue, commands) == queue \o commands

-----------------------------------------------------------------------------
\* The difference is unsigned.
IsExpired(i) == (now - services[i].last_update) % Word > Timeout

\* What is appended is cut where the queue is full.
Appended(queue, commands) == FirstOf(queue \o commands)

\* polycall_micro_init: every slot zeroed, at any time of the day.
Init ==
    /\ now \in 0 .. MaxTime
    /\ services = [i \in Slots |->
         [id |-> CHOOSE id \in ServiceIds : TRUE, last_update |-> 0]]
    /\ command_queue = [i \in Slots |-> <<>>]
    /\ active_mask = {} /\ count = 0
    /\ submitted = 0 /\ gc = 0 /\ up = TRUE

CreateService(id) ==
    /\ Callable /\ count < MaxServices
    /\ DuplicateIds \/ \A i \in active_mask : services[i].id # id
    /\ \E i \in Slots :
        /\ IsLowestFree(i)
        /\ services' = [services EXCEPT ![i] = [id |-> id, last_update |-> now]]
        /\ command_queue' = [command_queue EXCEPT ![i] = <<>>]
        /\ active_mask' = active_mask \cup {i}
    /\ count' = count + 1
    /\ UNCHANGED <<now, submitted, gc, up>>

\* The first active slot of that id; the slot's contents are zeroed.
Destroyed(id) ==
    /\ \E i \in active_mask :
        /\ IsFound(i, id)
        /\ services' = [services EXCEPT ![i].last_update = 0]
        /\ command_queue' = [command_queue EXCEPT ![i] = <<>>]
        /\ active_mask' = active_mask \ {i}
    /\ count' = count - 1
    /\ UNCHANGED <<now, submitted, up>>

DestroyService(id) == Callable /\ Destroyed(id) /\ UNCHANGED gc

UpdateServiceState(id) ==
    /\ Callable
    /\ \E i \in active_mask :
        /\ IsFound(i, id)
        /\ services' = [services EXCEPT ![i].last_update = now]
    /\ UNCHANGED <<command_queue, active_mask, count, now, submitted, gc, up>>

\* A batch of commands, each marked whether its payload fits the buffer.
BatchProcess(id, fits) ==
    /\ Callable
    /\ submitted + Len(fits) <= MaxSubmitted
    /\ LET taken == Filtered([n \in DOMAIN fits |-> submitted + n],
                             {submitted + n : n \in {m \in DOMAIN fits : fits[m]}})
       IN \E i \in active_mask :
            /\ IsFound(i, id)
            /\ services' = [services EXCEPT ![i].last_update = now]
            /\ command_queue' = [command_queue EXCEPT ![i] = Appended(@, taken)]
    /\ submitted' = submitted + Len(fits)
    /\ UNCHANGED <<active_mask, count, now, gc, up>>

\* A caller that has a pointer into the table filters a service's queue,
FilterCommands(i, predicate) ==
    /\ Callable /\ i \in active_mask
    /\ command_queue' = [command_queue EXCEPT ![i] = Filtered(@, predicate)]
    /\ UNCHANGED <<services, active_mask, count, now, submitted, gc, up>>

\* or has an operation of its own work the queue off.
ProcessCommands(i) ==
    /\ Callable /\ i \in active_mask
    /\ services' = [services EXCEPT ![i].last_update = now]
    /\ command_queue' = [command_queue EXCEPT ![i] = <<>>]
    /\ UNCHANGED <<active_mask, count, now, submitted, gc, up>>

CollectGarbage ==
    /\ Callable
    /\ gc' = 1
    /\ UNCHANGED <<services, command_queue, active_mask, count, now, submitted, up>>

\* A mistake the code could have made, as those above.
CollectOneSkipping ==       \* the slot behind a destroyed service not looked at
    /\ gc \in Slots
    /\ \/ /\ gc \in active_mask /\ IsExpired(gc)
          /\ Destroyed(services[gc].id)
          /\ gc' = gc + 2
       \/ /\ gc \notin active_mask \/ ~IsExpired(gc)
          /\ gc' = gc + 1
          /\ UNCHANGED <<services, command_queue, active_mask, count, now, submitted, up>>

\* One slot: if its service is expired, the service with that id goes.
CollectOne ==
    /\ gc \in Slots
    /\ \/ /\ gc \in active_mask /\ IsExpired(gc)
          /\ Destroyed(services[gc].id)
       \/ /\ gc \notin active_mask \/ ~IsExpired(gc)
          /\ UNCHANGED <<services, command_queue, active_mask, count, now, submitted, up>>
    /\ gc' = gc + 1

EndCollect ==
    /\ gc > MaxServices
    /\ gc' = 0
    /\ UNCHANGED <<services, command_queue, active_mask, count, now, submitted, up>>

\* Everything is zeroed in the end, whatever its loop has destroyed.
Cleanup ==
    /\ Callable
    /\ services' = [i \in Slots |-> [services[i] EXCEPT !.last_update = 0]]
    /\ command_queue' = [i \in Slots |-> <<>>]
    /\ active_mask' = {} /\ count' = 0
    /\ up' = FALSE
    /\ UNCHANGED <<now, submitted, gc>>

\* The wall clock advances, or is set back.
Tick ==
    /\ Callable
    /\ \/ now < MaxTime /\ now' = now + 1
       \/ now > 0 /\ now' = now - 1
    /\ UNCHANGED <<services, command_queue, active_mask, count, submitted, gc, up>>

Next ==
    \/ \E id \in ServiceIds :
          \/ CreateService(id) \/ DestroyService(id) \/ UpdateServiceState(id)
          \/ \E n \in 1 .. MaxBatch : \E fits \in [1 .. n -> BOOLEAN] : BatchProcess(id, fits)
    \/ \E i \in Slots :
          \/ ProcessCommands(i)
          \/ \E predicate \in SUBSET (1 .. MaxSubmitted) : FilterCommands(i, predicate)
    \/ CollectGarbage \/ CollectOne \/ EndCollect
    \/ Cleanup \/ Tick

Spec == Init /\ [][Next]_vars

-----------------------------------------------------------------------------
TypeOK ==
    /\ services \in [Slots -> Service]
    /\ command_queue \in [Slots -> Seq(1 .. MaxSubmitted)]
    /\ \A i \in Slots : Len(command_queue[i]) <= MaxCommands
    /\ active_mask \subseteq Slots
    /\ count \in 0 .. MaxServices
    /\ now \in 0 .. MaxTime /\ submitted \in 0 .. MaxSubmitted
    /\ gc \in 0 .. MaxServices + 1 /\ up \in BOOLEAN

(***************************************************************************)
(* The count is that of the mask's bits.  create_service checks the count  *)
(* and then shifts along the mask until it meets a bit that is not set:    *)
(* with 32 of them set the shift runs out of the word and never ends.      *)
(***************************************************************************)
CountIsOfMask == count = Cardinality(active_mask)

\* A service gets its commands in the order they were submitted, whatever was
\* rejected, dropped from a full queue or filtered out in between.
QueuesInOrder ==
    \A i \in active_mask : \A m, n \in 1 .. Len(command_queue[i]) :
        m < n => command_queue[i][m] < command_queue[i][n]

(***************************************************************************)
(* The collector is complete: behind its index no expired service is left, *)
(* although it destroys by id and not by slot.  True of distinct ids.      *)
(***************************************************************************)
CollectorLeavesNoneExpired == \A i \in active_mask : i < gc => ~IsExpired(i)

(***************************************************************************)
(* "Clean up inactive services", "1 hour timeout": what the collector      *)
(* destroys was last used longer ago than the timeout; or the clock has    *)
(* been set back behind that use, and the unsigned difference wrapped, but *)
(* nothing else ever costs a service its place.  True of distinct ids.     *)
(***************************************************************************)
IdleTooLong(i) ==
    LET last == services[i].last_update IN now > last + Timeout \/ now < last

CollectsOnlyTheIdle ==
    [][gc # 0 => \A i \in active_mask \ active_mask' : IdleTooLong(i)]_vars
=============================================================================
