----------------------------- MODULE DopMemory ------------------------------
(***************************************************************************)
(* The memory of components, polycall_dop_adapter_memory.c, with the two   *)
(* operations of the adapter that touch it: initialize, which clears the   *)
(* statistics after its callback, and unregister, which frees what the     *)
(* component's list names.                                                 *)
(*                                                                         *)
(* A region is what allocate returned.  Lists hold copies of it, made when *)
(* it was allocated or shared; of a copy only the address matters.  The    *)
(* adapter is called by one thread, with regions it returned and that were *)
(* not freed.  Permissions are granted: a call refused for want of one, or *)
(* of memory before a boundary was made, changes nothing.  Guard pages and *)
(* zeroing are off after initialization, the registry of the manager and   *)
(* its statistics are written and never read.                              *)
(* Where the code frees memory twice or writes past the end of a list      *)
(* there is no defined outcome, and the step is not followed.              *)
(***************************************************************************)
EXTENDS Integers, FiniteSets, SequencesExt

CONSTANTS Components, Regions,
          Paranoid,         \* components of the isolation level PARANOID
          MaxUsage,         \* max_memory_usage, the same for each
          MaxBoundaries,    \* POLYCALL_DOP_MAX_MEMORY_REGIONS
          ListCapacity,     \* entries of a list: 16
          MaxSize,          \* bound: of a region
          Word              \* 2^64: size_t

ASSUME MemoryAssumption ==
    /\ Paranoid \subseteq Components
    /\ {MaxUsage, MaxBoundaries, ListCapacity, MaxSize, Word} \subseteq Nat
    /\ MaxUsage + MaxSize < Word

VARIABLES region_state, owner, size, reference_count,   \* of each region
          memory_regions,           \* of each component: its list
          total_memory_allocated,   \* of each component
          boundary_count,
          registered, initialized,  \* components
          early,    \* components that allocated in their init callback
          lost,     \* regions freed because a component was unregistered
          frees     \* of each region: successful calls of memory_free

region == <<region_state, owner, size, reference_count>>
lists == <<memory_regions, boundary_count>>
life == <<registered, initialized, early, lost>>
memoryVars == <<region, lists, total_memory_allocated, life, frees>>

Owned(c) == {r \in Regions : region_state[r] = "live" /\ owner[r] = c}

IsShared(r) == reference_count[r] > 1

\* dop_memory_register_boundary.
BoundaryLeft == boundary_count < MaxBoundaries

\* The entry of a list; its first one allocates the list.
Listed(c, r) ==
    /\ Len(memory_regions[c]) < ListCapacity
    /\ memory_regions' = [memory_regions EXCEPT ![c] = Append(@, r)]

-----------------------------------------------------------------------------
\* Mistakes the code could have made; each violates a property below.
ShareOnce(c, target, r) ==      \* a region that is shared already not counted
    /\ c \in registered /\ target \in registered
    /\ region_state[r] = "live" /\ owner[r] = c
    /\ ~({c, target} \subseteq Paranoid)
    /\ BoundaryLeft /\ boundary_count' = boundary_count + 1
    /\ reference_count' = [reference_count EXCEPT ![r] = 2]
    /\ Listed(target, r)
    /\ UNCHANGED <<region_state, owner, size, total_memory_allocated, life, frees>>

ReleaseCharged(c, r) ==         \* what is only dereferenced given back, too
    /\ IsShared(r)
    /\ reference_count' = [reference_count EXCEPT ![r] = @ - 1]
    /\ total_memory_allocated' = [total_memory_allocated EXCEPT ![c] = (@ - size[r]) % Word]
    /\ UNCHANGED region_state

-----------------------------------------------------------------------------
MemoryInit ==
    /\ region_state = [r \in Regions |-> "none"]
    /\ owner \in [Regions -> {CHOOSE c \in Components : TRUE}]
    /\ size = [r \in Regions |-> 0]
    /\ reference_count = [r \in Regions |-> 0]
    /\ memory_regions = [c \in Components |-> <<>>]
    /\ total_memory_allocated = [c \in Components |-> 0]
    /\ boundary_count = 0
    /\ registered = Components /\ initialized = {}
    /\ early = {} /\ lost = {}
    /\ frees = [r \in Regions |-> 0]

Allocate(c, r, bytes) ==
    /\ c \in registered /\ region_state[r] = "none"
    /\ (total_memory_allocated[c] + bytes) % Word <= MaxUsage
    /\ BoundaryLeft /\ boundary_count' = boundary_count + 1
    /\ \/ /\ Listed(c, r)
          /\ region_state' = [region_state EXCEPT ![r] = "live"] /\ owner' = [owner EXCEPT ![r] = c]
          /\ size' = [size EXCEPT ![r] = bytes]
          /\ reference_count' = [reference_count EXCEPT ![r] = 1]
          /\ total_memory_allocated' =
                 [total_memory_allocated EXCEPT ![c] = (@ + bytes) % Word]
          /\ early' = IF c \in initialized THEN early ELSE early \cup {c}
       \/ /\ memory_regions[c] = <<>>        \* no memory for a list
          /\ UNCHANGED <<region, memory_regions, total_memory_allocated, early>>
    /\ UNCHANGED <<registered, initialized, lost, frees>>

\* A reference is dropped, or the memory of the last one freed.
Release(c, r) ==
    \/ /\ IsShared(r)
       /\ reference_count' = [reference_count EXCEPT ![r] = @ - 1]
       /\ UNCHANGED <<region_state, total_memory_allocated>>
    \/ /\ ~IsShared(r)
       /\ region_state' = [region_state EXCEPT ![r] = "freed"]
       /\ total_memory_allocated' =
              [total_memory_allocated EXCEPT ![c] = (@ - size[r]) % Word]
       /\ UNCHANGED reference_count

\* The entries of the lists stay, since none of them is at the address of the
\* region that allocate returned.
Free(c, r) ==
    /\ c \in registered
    /\ region_state[r] = "live" /\ owner[r] = c
    /\ Release(c, r)
    /\ frees' = [frees EXCEPT ![r] = @ + 1]
    /\ UNCHANGED <<owner, size, lists, life>>

\* One of the two must not be PARANOID.  Without a boundary or a list the
\* count is taken back.
Share(c, target, r) ==
    /\ c \in registered /\ target \in registered
    /\ region_state[r] = "live" /\ owner[r] = c
    /\ ~({c, target} \subseteq Paranoid)
    /\ BoundaryLeft /\ boundary_count' = boundary_count + 1
    /\ \/ /\ Listed(target, r)
          /\ reference_count' = [reference_count EXCEPT ![r] = @ + 1]
       \/ /\ memory_regions[target] = <<>>
          /\ UNCHANGED <<memory_regions, reference_count>>
    /\ UNCHANGED <<region_state, owner, size, total_memory_allocated, life, frees>>

\* polycall_dop_component_initialize has called init_callback, which may have
\* allocated, and clears the statistics.
InitializeComponent(c) ==
    /\ c \in registered \ initialized
    /\ initialized' = initialized \cup {c}
    /\ total_memory_allocated' = [total_memory_allocated EXCEPT ![c] = 0]
    /\ UNCHANGED <<region, lists, registered, early, lost, frees>>

\* polycall_dop_component_unregister.
UnregisterComponent(c) ==
    /\ c \in registered
    /\ IsInjective(memory_regions[c])
    /\ \A r \in ToSet(memory_regions[c]) : region_state[r] = "live"
    /\ region_state' = [r \in Regions |->
           IF r \in ToSet(memory_regions[c]) THEN "freed" ELSE region_state[r]]
    /\ lost' = lost \cup ToSet(memory_regions[c])
    /\ memory_regions' = [memory_regions EXCEPT ![c] = <<>>]
    /\ registered' = registered \ {c}
    /\ UNCHANGED <<owner, size, reference_count, total_memory_allocated, boundary_count,
                   initialized, early, frees>>

MemoryNext ==
    \/ \E c \in Components, r \in Regions :
         \/ \E bytes \in 1 .. MaxSize : Allocate(c, r, bytes)
         \/ Free(c, r)
         \/ \E target \in Components : Share(c, target, r)
    \/ \E c \in Components : InitializeComponent(c) \/ UnregisterComponent(c)

MemorySpec == MemoryInit /\ [][MemoryNext]_memoryVars

-----------------------------------------------------------------------------
(***************************************************************************)
(* The quota: a component's counter is the size of the live regions it     *)
(* owns, and they do not exceed max_memory_usage, whatever was shared,     *)
(* dropped, freed or refused half way.  (Not if it allocated before its    *)
(* initialization was over, which forgets what it has, nor if another one  *)
(* it shared with was unregistered, which frees without accounting.)       *)
(***************************************************************************)
QuotaIsExact ==
    \A c \in registered \ early :
        (\A r \in lost : owner[r] # c) =>
            /\ total_memory_allocated[c] = SumFunctionOnSet(size, Owned(c))
            /\ SumFunctionOnSet(size, Owned(c)) <= MaxUsage

\* The entries of the lists that name a region.
References(r) ==
    {entry \in Components \X (1 .. ListCapacity) :
        /\ entry[2] <= Len(memory_regions[entry[1]])
        /\ memory_regions[entry[1]][entry[2]] = r}

(***************************************************************************)
(* Memory outlives every reference to it: memory_free frees it at the call *)
(* that answers the last of the lists that name it, and not before, in     *)
(* whatever order sharing and freeing come and wherever sharing fails.     *)
(***************************************************************************)
FreedAfterLastReference ==
    registered = Components =>
        \A r \in Regions :
            /\ region_state[r] = "live" => frees[r] < Cardinality(References(r))
            /\ region_state[r] = "freed" => frees[r] = Cardinality(References(r))
=============================================================================
