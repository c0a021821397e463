# libpolycall: models, checks and proofs

TLA+ modules of libpolycall: of its core (`core/`), its daemon, the client of
its Node binding and the connection pool of its unfinished tree; the TLC
configurations that check them on small instances, and theorems about them that
TLAPS proves for every value of their constants. Paths are relative to the repository's root,
with the longest ones cut (`..._invoke.c` is
`core/src/adapter/polycall_dop_adapter_invoke.c`, `network.c` is
`core/src/socket/network.c`); `PROJECT.json` puts the tree under `src/`.

    tlc -config np_program.cfg MCNetProgram     # one run; the names are below
    tlapm DopAdapterProofs.tla                  # one module of proofs

## 1. The system

libpolycall is a C library and a command line (`polycall`) that let programs in
several languages call each other. Most of what is in the repository beside
`core/` is bindings, generated or superseded trees (`legacy/`,
`contrib/unstable`, `core/MVP`), documentation and assets.

| component | code | state | operations | modelled by |
|---|---|---|---|---|
| State machine | `core/src/core/state_machine.c` | table of states (id, version, checksum, lock), transitions, current state, caller's snapshots, counters | add, execute, lock, unlock, verify, snapshot, restore, destroy | `StateMachine` |
| Network program | `core/src/socket/network.c` | endpoint, client table, two kinds of mutex, handlers | init, run (one pass), add, remove, cleanup | `NetProgram` |
| Command line | `core/src/cli/polycall_cli.c` | `g_runtime`: mode, programs, history, port mappings | configuration loop, start/stop network, quit, signal handler, tables of commands | `NetProgram` (the loops, stop, quit and signals), the rest planned |
| DOP adapter: registry, lifecycle, invocation | `core/src/adapter/polycall_dop_adapter.c`, `..._lifecycle.c`, `..._invoke.c` | registry of components, a lifecycle state each, the C stack of open invocations | register, initialize, invoke, suspend, resume, reset, unregister, cleanup | `DopAdapter` |
| DOP adapter: memory | `..._memory.c`, with `polycall_dop_adapter.c:402-410`, `..._lifecycle.c:353` | regions, each component's list of copies, reference counts, quota, boundaries | allocate, free, share; initialize and unregister | `DopMemory` |
| DOP adapter: security, bridges, utilities | `..._security.c`, `polycall_dop_bridge_registry.c`, `..._utils.c` | policies, audit ring, table of bridges | check, log, look up | not modelled |
| Micro services | `core/src/micro/polycall_micro.c` | slots with a bit mask, a count, a command queue each, time of last use | create, destroy, update, batch, filter, process, collect | `MicroServices` |
| Connection pool | `contrib/unstable/.../network/connection_pool.c` | slots with a context and a state, size, count of active ones, a mutex and a condition | acquire, release, resize, warm up, validate, cleanup | `ConnectionPool` |
| Node client | `bindings/node/src/modules/{NetworkEndpoint,ProtocolHandler,PolyCallClient}.js` | sockets, pending requests, timers, queue of unsent data | connect, request, answer, time out, reconnect, disconnect | `NodeClient` |
| Pid manager | `core/src/cli/pid_manager.c` | the pid file, at one of two paths | start, refuse, take over, end | `PidManager` |
| Daemon | `daemon/src/polycalld.c`, `daemonize.c` | pid file, socket file, two flags set by signals | start, serve, stop | `Daemon` |
| Banking service | `core/src/micro/polycall_banking_service.c` | contracts, bridges | deploy, call, fail over | not modelled: mostly stubs |
| Socket API, frames | `core/src/socket/polycall_socket*.c` | contexts, connections, frame buffers | connect, send, receive, encode, decode | planned |
| Hotwire router | `core/src/hotwire/hotwire_router.c` | routes, bindings, statistics | add, route, fall back | planned |
| Node router, state machine | `bindings/node/src/modules/{Router,StateMachine,State}.js` | routes, states | route, transition | planned |
| Core context | `core/src/core/polycall.c` | one context | init, cleanup | not modelled |
| Parser, tokenizers | `core/src/core/*token*.c`, `polycall_parser.c`, `xml/` | none between calls | parse | not modelled: pure text |
| Telemetry, namespace | `core/src/telemetry`, `core/src/namespace` | files and tables | record, look up | not modelled: mostly I/O |
| Other bindings | Go, Java, Python, Rust | - | - | not modelled: thin clients |
| Version 1, MVP, the rest of `contrib/unstable` | `legacy/`, `core/MVP`, `contrib/` | - | - | not modelled: superseded or unfinished, not built by `core` |

How they interact. The command line owns at most a handful of network programs
on a global list; its main thread serves them by calling `net_run` in a loop, and
its signal handler cleans all of them up on that same thread. The network
program calls its user back (`on_connect`, `on_receive`, `on_disconnect`) with
and without its locks. The state machine, the DOP adapter and the services run on their
caller's thread and take no lock that lasts over a call; the first two call
their user back in the middle of an operation, and those callbacks may call the
library again. A micro service owns a state machine it never drives. The
memory of components is freed by the registry that unregisters them. The daemon
is a process of its own that does not use the library yet, and nobody calls the
pid manager; both share files with other processes of the same program. The
Node client speaks to a server over TCP. The connection pool is a library for
threads, and its protocol contexts are placeholders in the code.

What is hard in this code, and so what the properties are about:

* *Callbacks in the middle of an operation* (`state_machine.c:125-142`,
  `..._invoke.c:115-190`): what was checked before the callback is used after it.
* *Locks, a thread and a signal handler* (`network.c:346-492`,
  `polycall_cli.c:672-716`): a pass of `net_run` releases `clients_lock` twice,
  uses a `readfds` older than the lock it holds, and calls a function that takes
  a lock it holds. The handler cleans up wherever it comes, in the middle of
  another cleanup too, and the other signal may interrupt it.
* *Descriptors as names*: a number is reused as soon as it is closed.
* *Deciding by slot and acting by id* (`polycall_micro.c:279-287`).
* *Limits*: full tables and queues, a clock set back under unsigned arithmetic,
  a loop over a table it shortens, a pool that starts larger than its array.
* *Waiting under a mutex that is given up* (`connection_pool.c:395`), and slots
  that are given up, moved and taken back (541-571, 358-373).
* *Reference counts beside copies of what is counted* (`..._memory.c:199-318`).
* *Sockets that outlive their place*, retries on timers, answers after their
  timeout (`NetworkEndpoint.js:75-203`, `ProtocolHandler.js:181-231`).
* *Files that outlive their process*: crashes between any two steps, pids that
  are used again, numbers that could not be written (`pid_manager.c:26-140`, `polycalld.c:85-138`).

Only the pid and socket files are read by a later process, so recovery after a
crash is modelled in `PidManager` and `Daemon` and nowhere else.

## 2. What is modelled

### StateMachine, and the abstract LockableMachine

One machine, from `polycall_sm_create_with_integrity` to `polycall_sm_destroy`.
Every operation is atomic except `polycall_sm_execute_transition`, which calls
`on_exit`, the action and `on_enter`: it is cut into `BeginExecute` (the
checks), `MoveToNewState` (the writes after `on_exit` and the action) and
`EndExecute`, and an open call is a frame on `calls`. Between those steps every API
operation is enabled, but destroying, as it is in a callback, further calls of
`execute_transition` included. A stored checksum is represented by the version it was computed over: the name
and the id of a slot never change, so that is all it can tell apart.

`LockableMachine` is what the machine still promises when callbacks use it. A call
makes a pledge: its target, along an edge from the state that is current and
into one not locked *at that moment*. Later it redeems it, once, the deepest open call
first; in between others may pledge and move, and the target may get locked.
Nothing else changes the current state. That the target is unlocked and the machine still
at the edge's source *when it moves* would be a stronger promise, which the code breaks
(section 6). `StateMachine` implements the weaker one; `Pledged` are the calls
whose `on_exit` or action runs.

### NetProgram

One `NetworkProgram` with its client table, the thread that serves it, and
everybody who interferes. `host` says in which process it lives:

* `config`: the command line's loop that calls `net_run`;
* `interactive`: the command line reading commands; it opens the endpoint and
  never calls `net_run` (see section 6), and `stop_network` and `quit` clean up;
* `embedded`: a program linked with the library, where one thread loops over
  `net_run` and another calls `net_remove_client` and `net_cleanup_program`.

In the first two the handler of SIGINT and SIGTERM may interrupt the main thread between any
two steps, for good. Each of the two comes once: a signal waits while its own
handler runs, the other does not. `net_run` is cut where it takes or leaves `clients_lock`, blocks, or
calls a handler; `at` is the place it has reached:

| at | code | leaves it by |
|---|---|---|
| `idle` | the host's loop | `NetRun` |
| `checked` | `network.c:368`, before the lock | `LockForSetup` |
| `setup` | 382-394, locked | `Setup` |
| `select` | 396-408, unlocked | `Select` |
| `accept` | 410-424 | `Accept`, `NothingToAccept` |
| `add` | 420-436, an accepted socket in hand | `AddClient`, `DropAccepted` |
| `announce` | the slot is filled, `on_connect` not called yet | `Announce` |
| `handle`, `receive` | 443-490, one client a step, locked | `LockForClients`, `SkipClient`, `ReceiveData`, `Disconnect`, `EndOfClients` |
| `removing` | inside `net_remove_client`, called with the lock held | `RemoveClient("main", fd)`: never enabled |
| `stop`, `quit` | `polycall_cli.c:856-865`, 899: the commands that clean up | `EndCleanup` |
| `undefined` | a destroyed lock or a freed endpoint was used | nothing |

A cleanup, of a command or of the handler (`cleanup`, `signals`), takes one step each for what a signal
can come between: `BeginCleanup` is `net_cleanup_program` under its lock, and
three steps of `GoOnCleaning` are the end of the lock, `free`, and
`programs[i] = NULL`. `program` tells how far it is. A signal starts it anew (`Enter`):
if the program is gone from the list, there is nothing to do (`EndCleanup`); if it is
whole, it is cleaned up, if its lock can be had; if it was cleaned up or freed
and is still on the list, it is cleaned up again (`CleanupAgain`), and the
process is followed no further.

The kernel is external: a descriptor table that hands out the lowest free
number, a listen queue of `Backlog` peers, `select` as the set of readable
descriptors. A peer connects once, sends and hangs up whenever it likes; of its data
only "something is unread" matters.

### DopAdapter, and the abstract ComponentLife

The registry and the lifecycle state of every component that is ever allocated.
An invocation that passes its checks opens a frame (`BeginInvoke`) and the
component's callback runs until `EndInvoke`; everything else the adapter offers
is enabled meanwhile, because the callback may call it. `Reentered` are the
components whose callbacks may lead back to the component they belong to;
promises about `EXECUTING` are made to the others, the `Tame` ones. The
matrix is `Targets`; it is the same in `dop_component_validate_transition` and in
`LIFECYCLE_TRANSITION_MATRIX`. Cleanup is one component a step, its index
running over the registry that each step shortens, as in the code.

`ComponentLife` is the promise to a component's author: one invocation at a
time, and nothing happens to the component, its release least of all, until it
ends.

### MicroServices

The service table with its bit mask and count, each service's queue and time of last use,
and the collector, whose loop is cut into one step a slot. A command is the
number under which it was submitted, so order and loss can be seen. The clock
is the wall clock: it may be set back, and the idle time is an unsigned
difference (`% Word`).

### DopMemory

What `..._memory.c` keeps for a component: its list of regions (copies, of which only
the address matters), its counter of allocated bytes, and, in the region itself, the
reference count that sharing raises and freeing drops. An action is a call.
Allocation can fail between the boundary and the list, as in the code.
`POLYCALL_DOP_MAX_MEMORY_REGIONS` is a constant of the model, as the header that
should define it (`polycall_dop_adapter.h`) is not in the repository. Callers
free and share regions that `allocate` returned and that are not freed; a step
that would free an address twice or write past a list has no defined
outcome and is left out. Its initial predicate and next-state relation are
`MemoryInit` and `MemoryNext`, so that one module of proofs can extend it beside
`DopAdapter`; `InitializeComponent` and `UnregisterComponent` are what two
operations of the registry do to memory.

### ConnectionPool

Every operation holds `pool_mutex` from beginning to end, so an operation is one
action, except `acquire`, which gives the mutex up to wait: `Acquire` ends in
`waiting`, `Wake` and `Expire` end the wait, and `Retry` is the next turn of the
loop. A protocol context is a piece of memory; `live` are those allocated, and
a new one may be any that is not live, freed ones included, as `malloc` does.
What a slot outside the pool holds stays there, which is what finding 3 is about.
`Configs` is a set of configurations, of which a behaviour has one; the initial
and the maximal size are part of it, and `init` accepts any two. A pool with more
connections than entries in its array is not followed (`up` is false from the start).

### NodeClient

Node runs one handler at a time, so an action is one event with all handlers and
continuations it leads to: `Connected`, `Fail` (`'error'`), `CloseAfterError` and `PeerCloses`
(`'close'`, with and without an error before it) and `Ended` are
events of a socket, which may no longer be `this.socket`; `RetryConnect` and
`Timeout` are timers; `Connect`, `Disconnect` and `Request` calls of the
application; `Response`, `ErrorResponse` and `AuthMessage` messages, which the
server sends for a message it got, late, twice or never. `carried[s]` is what was
written to socket `s` while it lives, `writes[n]` how often request `n` was ever written
to any. The endpoint and the client each have a flag `connected`; `disconnect()`
without a socket clears only the client's (`clientConnected`).

### PidManager

Processes that call `pid_manager_init`, end, are signalled or killed. Each access
to a file and each `kill(pid, 0)` is a step; `at` is the place in the code.
`Pids` are numbers, so a later process may get the number of an earlier one, and so may
another program (`Stranger`). `root` may write everywhere; another user only
`PID_FILE_ALT`, and sees processes of root as dead (`EPERM`). Both files may fail
to open (`OpenFails`: the start is given up), and the write may fail
(`WriteFails`: nobody looks, and the file stays empty). Three flags
remember whether starts or an end have overlapped (`raced`), whether
anybody was killed and whether a number was not written (`unwritten`): the
properties say what holds until then.

### Daemon

`polycalld` processes with the same two paths. `at` is the next system call:

| at | code (`polycalld.c`) | leaves it by |
|---|---|---|
| `off` | not started | `Start`, `StartUnnamed`, `StartFails` (to the end of `daemonize` or `write_pid_file`) |
| `unlink`, `bind`, `listen` | 91, 93-103, 112 | `Unlink`, `Bind` or `BindFails`, `Listen` or `ListenFails` |
| `loop`, `select`, `accept` | 177, 190, 199 | `Loop`, `Select`, `Accept` |
| `read` | 150, in `handle_client` | `HandleClient`, once the client has sent or hung up |
| `close`, `unlinkSocket`, `unlinkPid` | 133, 136, 137 | `Close`, `UnlinkSocket`, `UnlinkPid` |

`write_pid_file` (121-128) tells nobody of a file it cannot open or write: the daemon goes
on without its name in it (`StartUnnamed`). `daemonize` gives up (`StartFails`), and may
leave the file empty. `named` are the daemons that wrote their number.

Signals arrive between any two steps. The kernel's listen queues, the clients
and `SIGKILL` are external. `g_reload`, which SIGHUP sets, leads to a line of log
and is left out.

## 3. What the runs check

| run | states | constants | what it shows |
|---|---|---|---|
| `sm_plain` | 187 980 | 2 states, 2 transitions, 1 snapshot, versions up to 3, depth 2 | indices are in range; a state verifies exactly until it is first entered; refinement of `LockableMachine`, with callbacks that call anything |
| `np_program` | 835 027 | 3 peers, 2 slots, 4 descriptors, backlog 2, all three hosts | table, descriptors and handlers agree; in the command line's process `net_run` never goes on with what was cleaned up, and a second cleanup needs a signal in the first; whoever waits is answered and whatever is sent is received until somebody hangs up |
| `np_hangup` | violated | 1 peer | finding 1 |
| `dop_registry` | 14 436 | 3 components, one of them reentered, 2 ids, depth 3 | registry and matrix survive any callback; nobody is left `EXECUTING`; `EXECUTING` protects the components that are not reentered; refinement of `ComponentLife` |
| `dop_twice` | violated | 2 components, one reentered | finding 2 |
| `dop_memory` | 881 156 | 3 components, two paranoid, 3 regions of up to 2, quota 3, 4 boundaries, lists of 3, `Word` 8 | the quota is exact; memory is freed with the last reference |
| `micro_unique` | 662 514 | 3 services, queues of 2, 3 commands, clock 0..3, timeout 1 | count and mask agree; queues stay in order; the collector is complete and takes only what is idle |
| `pool_any` | 29 383 | 3 threads, pools of 2 and 3 and one made larger than its array, 4 contexts, any mix of scaling, cooldown, resizing and failing `malloc` for 2 | a pool stays within its array if it started there; a steady pool lends a connection to one thread; the count of active ones; nothing leaks; no lost wakeup |
| `pool_auto` | violated | 2 threads, a pool of 3, default configuration | finding 3 |
| `node_client` | 855 285 | 2 sockets, 3 retries, connections beside at most 1 timer, 2 requests | promises and timers agree; nothing is sent twice or left behind; no session without a socket; it reconnects or gives up |
| `pid_manager` | 1 790 460 | 3 pids, root, another user, or both | one instance at a time; files name the living |
| `daemon` | 444 800 | 2 daemons, 2 clients, backlog 2 | files are the daemon's own, if it could write them; it stops on a signal; clients are answered |

Why the bounds are enough.

* `StateMachine`: two states already give self-loops, a move there and back, a
  locked target, and a snapshot taken before a move and restored after it. `MaxVersion` 3
  lets a state be entered twice, depth 2 a callback execute a transition.
* `NetProgram`: with 3 peers for 2 slots the table is full when the third is
  accepted; 4 descriptors are the endpoint, two clients and the one that has to be
  closed again, and leave one to be reused. There is no symmetry, as the run has
  liveness properties.
* `DopAdapter`: 3 components with 2 ids force a refused registration; depth 3
  lets the reentered component be called inside a call of itself, and another in
  between; cleanup of 3 components skips one.
* `DopMemory`: one component may share with two, those two not with each other;
  a quota of 3 with regions of 1 and 2 is met exactly, exceeded, and met again
  after a free; 3 regions and 4 boundaries reach the last boundary in the middle of
  allocating and of sharing; `Word` 8 is the least that holds a quota and a
  region and still wraps within a few frees.
* `MicroServices`: 3 slots for a hole in the middle of the mask; a queue of 2
  and batches of up to 2 for one that is cut; times up to 3 with a timeout of 1
  for idle, exactly at the limit, and set back. `Word` = 16 exceeds every sum of
  a time and the timeout, as 2^64 does.
* `ConnectionPool`: with a pool of 2 and 3 threads somebody waits; scaling needs a pool
  of 3, as one of two in use is more than 3/8; 4 contexts leave one to
  allocate when all slots have theirs.
* `NodeClient`: 2 sockets are one that is current and one that is not; 2 requests
  are one that waits and one that is out; 3 retries are the default. Closes and
  errors are never held back. What is bounded is the environment: nothing connects,
  and so resets `retryCount`, beside more than `MaxTimers` pending timers (attempts
  made then fail). So at most `MaxTimers + MaxRetries` are ever pending, 4
  here, where the code has no such limit.
* `PidManager`: a process that was killed, one that takes over, one that is refused.
* `Daemon`: a killed or stopping daemon and its successor; a client being handled and
  one in the queue.

The counters that are cut (`MaxVersion`, `MaxCount`, `MaxDepth`, `MaxSubmitted`,
`MaxTime`, `MaxRequests`, `MaxTimers`, `MaxSize`, `Backlog`) are guards of
actions, each marked "bound" where it is declared. All runs set
`CHECK_DEADLOCK FALSE`: a destroyed machine, a cleaned-up adapter, context or
pool, a client with its requests used up and an ended process stop for good.

Fairness.

* `np_program`, `np_hangup`: `WF_vars(MainThread)`, that is, the thread that loops
  over `net_run` is scheduled. `select` waits a second at most, `accept` and
  `recv` do not block, so a thread that runs takes its next step unless it waits
  for a lock. Nothing is assumed of peers, of signals or of other threads.
* `node_client`: the timers of reconnections go off, and a socket that is
  connecting gets `connect` or `error`, and an error is followed by its close; Node and TCP promise all three. Nothing is
  assumed of the server or the application.
* `daemon`: a process that was started goes on. `select` returns after a second;
  the blocking read is not enabled while its client is silent. Nobody has to start
  a daemon, no client has to do anything.

## 4. What is proved

All proofs are checked to the last leaf; none takes anything on trust beyond the named
assumptions on constants, which say what the code's sizes are.

**StateMachineProofs** (any table sizes, names, snapshots, nesting).
`VerifiesUntilFirstEntered` is not inductive: restoring needs the same of the
copy. The invariant is `TypeOK /\ IndicesAreOfAddedStates /\
ChecksumsAreOfVersionOne`: the checksum stored in every added slot *and in every
snapshot* is that of version 1. `TypeCorrect`, `IndicesInRange`,
`VerifiesOnlyUntilEntered` and `Refinement` hold for callbacks that call whatever
they like, nested to any depth. For `Refinement` a pledge is told from others by the depth of its
call: a new frame is deeper than all, `MoveToNewState` redeems the deepest, and
the rest of `calls` keeps its depths.

**DopAdapterProofs** (any components, ids, depth). The invariant is `TypeOK /\
RegistryOfLive /\ ExecutingWhileCalled`. `ExecutingWhileCalled` speaks of the
`Tame` components only, and holds whatever the reentered ones do, since a step
changes the state of one component. `Refinement` maps the running components to
the tame ones with an open frame; by `ExecutingWhileCalled` they are those in
state `EXECUTING` before and after a step, which is what makes every other
operation a step of a component that is not running. Of the reentered ones both
are false (finding 2).

What does hold of the reentered ones is `NobodyLeftExecuting`, which with the type is
inductive by itself (`NobodyStuck`): a call that was refused has written `ERROR`, a
reset `READY` and another call `EXECUTING` again, and still the last return
leaves the component in a state that reset and unregister accept. With
`RegistryOfLive`, and with `SweepsAlone` (no call is open while cleanup runs), it
gives `CleanupRefusedByNone`: the loop of cleanup is never refused, so that in the model `SweepOne` is
enabled wherever the loop goes on, and the components cleanup leaves are only
those it skips (section 6).

The same module proves DopMemory (any components, regions, sizes, lists), in two
invariants. `QuotaInv`, for `QuotaIsExact`: the regions used are finitely many, what was lost
is freed, and a component whose initialization is not over owns nothing unless
it is `early`, which is why clearing its counter forgets nothing. The sum is
`SumFunctionOnSet`, recursive over sets: that it exists, is a natural number and
splits at any member is shown of a smallest set for which it would not, by the
well-foundedness of strict inclusion. `ReferencesInv`, for
`FreedAfterLastReference`: while nobody was unregistered, the entries that name
a live region are its successful calls of `memory_free` and its references together.

**MicroServicesProofs** (any table, timeout, word, queues). Two invariants. That of the
table is `CountIsOfMask` and, for distinct ids, `IdsDistinct` and
`CollectorLeavesNoneExpired`: what the collector finds by an id is the slot it
took the id from. `CountsItsServices` holds with duplicate ids too.
`CollectorSound` is an action property; its proof splits on whether the clock
is behind the last use (the difference wraps) or not. That of the queues,
`QueuesOK`, rests on the first and gives `QueuesKeepOrder` and `Typed`. `Filtered`
is a recursive function of how far the queue was read; what it returns is shown
for the least number of elements read at which it would be false.

**NetProgramProofs** (any slots, peers, descriptors, backlog; `PeersAssumption`
keeps the marks of free and closed descriptors and of the endpoint apart from peers). The
parts of the invariant: `Held`, `Lifecycle`, `Slotted`, `InHand` tie `at` to the
lock, the endpoint, the slot and the socket in hand; on them rest `SocketsAccounted`
and `SlotsAreAnnounced`, which hold for embedded programs too. The others speak of
a program without other threads: `Current` says that what `select` reported stays true until
it is handled, since a peer that has gone does not come back and only this thread
receives; `Acceptable`, which holds for all, that a peer `select` has reported waits until it
is accepted. They give `DisconnectsOnlyTheGone`. `NoUseAfterCleanup` rests on `Endings`: while no cleanup is
entered the program of a command line is whole, or off the list, and no command cleans up;
a cleanup that meets a program half cleaned up was entered by a signal that interrupted
another cleanup. `ToldInOrderAlways` is
an action property; `ComesOnce` and `Unannounced` are what it needs.

**ConnectionPoolProofs** (finitely many threads, any number of contexts, any sizes and
configuration, `init`'s sizes in any relation). The invariant is `Base /\ ActiveCounted /\ NothingLeaks /\ Lent /\ Owed`. A pool
larger than its array is the initial one for ever (`Untouched`), and of any other the size fits
(`Fits`): `Typed` says that no operation takes a pool past its array. `Lent`: in a pool that
keeps its slots, beside `ConnectionsExclusive`, slots never used are empty and
what the others hold is allocated. `Owed` is what makes `NoLostWakeup`
inductive: while somebody waits, the idle slots and those the pool may still grow by are no more than the threads
that are awake, so each has somebody who will look at it. The loop of
resize is a recursive function and is handled as `Filtered` is. Threads are finite because
they are counted.

**PidManagerProofs** (any processes, users). `FilesNameTheLiving` needs `Removable`:
whom a file names, while nobody was killed, may remove it. `SingleInstance` needs,
of the instances of one user whose starts and ends did not overlap, what `Alone`
says: of those that start or end there is one at a time; beside one that runs, a
process has not passed its check; if it is at the check it has read the number
of the one that runs, because the file at `Place` names that one, every number having
been written. So it refuses.

**DaemonProofs** (any daemons, clients, backlog). With `~together`, one daemon is
there at a time; from its start the pid file names it if it is in `named`, from `bind` to
`unlinkSocket` the path leads to its socket, at `bind` and `unlinkPid` to none.
The type needs `Accepting`: between `select` and `accept` a queue only grows.

**NodeClientProofs** (any sockets, retries, timers, requests). `PendingIsOpen`,
`NoSessionWithoutSocket` and `QueueIsServed` are inductive with the type;
`NotSentTwice` needs `Unsent`: a sequence number that was not given yet neither
waits nor was ever written. The bound `MaxTimers` is in no theorem: `Typed` limits `retryCount`
and not the timers. `QueueServed` rests on what `handleDisconnect` leaves: a
timer, or no retries.

**Model-checked only.** Liveness: `ArrivalsAnswered`, `DataReceived`,
`ReconnectsOrGivesUp`, `StopsOnSignal`, `ClientsAnswered`. They rest on fairness
and on `ENABLED`, which the installed provers do not handle. Every invariant and every other
action property that a run checks is proved.

## 5. Findings

1. `np_hangup`: `net_run` calls `net_remove_client` while it holds
   `clients_lock` (`network.c:445`, `469`), which `net_remove_client` locks again
   (254). The first client that hangs up stops the server.
2. `dop_twice`: an invocation refused because the component is `EXECUTING` runs
   the common cleanup, which finds `EXECUTING`, the other invocation's, and
   turns it into `ERROR` (`..._invoke.c:184-189`). A reset then makes the
   component `READY` inside its running callback; it can be invoked again, or
   unregistered and freed under it.
3. `pool_auto`: a slot that scaling down gives up keeps a context, freed or moved
   to another slot (`connection_pool.c:552-563`), and `acquire`, growing again
   (360), creates a connection only where there is none (419). A thread gets a
   freed context, or two threads get one.

## 6. Seen while modelling, and not a run of their own

State machine and services:

* A state that was entered once never verifies again: `execute_transition`
  raises the version the checksum covers (`state_machine.c:141`) and nothing
  recomputes the checksum. `VerifiesUntilFirstEntered`, and the theorem
  `VerifiesOnlyUntilEntered`, say exactly this.
* A callback can lock the target of the transition that runs it, or execute another; the
  first one moves all the same (`state_machine.c:125`, 140). `LockableMachine`
  says what remains true.
* `restore_state_from_snapshot` compares the snapshot's id with
  `POLYCALL_MAX_STATES` only (229-239): a snapshot of a larger machine writes
  past `num_states`. Snapshots of other machines are not modelled.
* `create_service` accepts an id twice, and the collector, which finds an expired
  service by slot, destroys it by id (`polycall_micro.c:284`): the service in use
  goes and the expired one stays. `CollectsOnlyTheIdle` is stated, and proved,
  for distinct ids.
* If the wall clock is set back behind a service's last use, the unsigned idle
  time wraps and the collector takes a service in use. `IdleTooLong` names the
  case.

Network program:

* A signal that arrives while its thread holds `clients_lock`, in `net_run`, in a cleanup or in
  `list_clients` (which is not modelled), never ends the process: the handler waits for a lock its own thread holds. In the model
  `BeginCleanup` is not enabled at `holding`; it is why `NoUseAfterCleanup` is
  stated about the handler's not returning rather than about its ending.
* `stop_network`, `quit` and the handler leave a program on the list from the end of its lock
  until `programs[i] = NULL` (`polycall_cli.c:678-680`, 859-861). A signal in
  between cleans it up again, on a destroyed mutex or in freed memory. For the handler it takes the
  other signal, as its own is blocked. `NoUseAfterCleanup` excepts exactly
  these cases (`Interrupted`), and `CleanupAgain` shows them to happen.
* The handler calls `printf`, `free` and mutex functions, which are not safe in a
  handler; what becomes of an interrupted `malloc` is not modelled.
* In interactive mode the endpoint is opened and nobody calls `net_run`
  (`polycall_cli.c:841`): peers connect and wait. `ArrivalsAnswered` excludes that host.
* With a second thread, `readfds` can name a descriptor that was closed and
  reused between the `select` and the loop over the clients; `recv` then says
  EAGAIN, which the loop takes for a disconnection. `DisconnectsOnlyTheGone` and
  `NoUseAfterCleanup` are stated for the command line's process and are false of `embedded`.
* If `accept` runs out of descriptors, the endpoint stays readable and every
  `select` returns at once. `np_program` leaves the process a spare descriptor.

DOP adapter:

* `polycall_dop_adapter_cleanup` skips every second component
  (`polycall_dop_adapter.c:190-196`), and leaks those it skips. `SweepOne` does what the code does.
* `memory_free` looks for the region's own address among the list's copies
  (`..._memory.c:289`) and never finds it: the copy stays, and unregister
  (`polycall_dop_adapter.c:404-408`) frees the memory a second time. In the model
  `UnregisterComponent` is not enabled after such a free.
* unregister frees memory that is shared, under the component that owns or shares it.
* The list of 16 entries is not grown and its end not checked (`..._memory.c:216`, `406`).
* What an init callback allocates is forgotten by `total_memory_allocated = 0`
  (`..._lifecycle.c:353`); freeing it later wraps the counter, and every
  allocation that follows is refused.
* Boundaries are never given back, so that a component that allocates and frees
  long enough is refused for good.
* Sharing is refused only if *both* components are paranoid: the code takes the
  lower of the two levels (`..._memory.c:353-361`), the comment says that paranoid
  isolation doesn't allow sharing.

Connection pool:

* If the replacement of a connection cannot be allocated (`connection_pool.c:528`, `437`, `710`), the
  slot keeps the freed context, in release even as ACTIVE with `active_count`
  lowered. This is why most properties of the pool except `fails`.
* `init` compares `initial_pool_size` and `max_pool_size` each with
  `POLYCALL_MAX_POOL_CONNECTIONS` and not with each other (111-114): a pool with the first
  above the second has more connections than its array has entries (131-134,
  160), and every operation reads and writes past it. `TypeOK` says that this
  is the only way.
* Resizing to a smaller size gives slots up as scaling does.
* The end of a cooldown wakes nobody.
* The branch for an infinite wait (400) is never reached: a timeout is either 0 or
  more.

Node client:

* A retry whose timer is running when the application disconnects still
  connects, although `NetworkEndpoint.js:127` says "Prevent auto-reconnect".
* An error is followed by a close and both call `handleDisconnect`: two retries, two
  sockets, of which one is forgotten and goes on sending events. A connection resets
  `retryCount` (82) while older timers are pending, so there may be more of them
  than `maxRetries`.
* When a socket connects after `this.socket` became null, which `end()` of another did, the flush
  empties `pendingData` and every write throws (86-89, 153): what waited is
  lost, and its promise waits for its timer.
* The end of a socket that was replaced marks a connected client as disconnected; a
  late answer marks a disconnected one as authenticated. `NoSessionWithoutSocket`
  says what is left.

Pid manager and daemon:

* Two starts at a time both find no instance (`pid_manager.c:127-132`).
* The signal handler removes the file and then calls `exit`, whose handler
  removes it again (85-86, 96): the file of an instance that started in between
  is lost, and a third can start.
* `kill` failing with `EPERM` is read as dead (51): root and another user
  can have an instance each, and one removes the other's file from `/tmp` if it may.
* A file left by a killed process refuses starts as long as a stranger has its
  number.
* A second `polycalld` removes the socket of the first (`polycalld.c:90-91`) and
  overwrites its pid file; the first one, stopping, removes both of the second.
* A failed `bind` leaves the pid file (293-298), a failed `listen` the socket file too.
* In the foreground a pid file that cannot be opened or written is passed over
  (`polycalld.c:123-127`): the daemon listens, and the file is missing, empty or names a daemon
  that was killed. `FilesAreTheDaemons` claims the pid file for `named` daemons only.
* `daemonize` opens the pid file with `O_TRUNC`: if the write fails, it
  leaves an empty file (`daemonize.c:66-75`).
* An instance of the pid manager that could not write its number (`pid_manager.c:39-40`) runs beside an
  empty file, and the next start finds nobody. `SingleInstance` excepts it. That root can
  open one of the two files and not the other is left out.
* A client that connects and says nothing keeps the daemon in `read` (150), which
  `SA_RESTART` restarts after a signal: SIGTERM does not end it. `StopsOnSignal`
  and `ClientsAnswered` are stated up to that case.

## 7. What is not modelled, and the plan

Left out of the modules above: payload bytes, texts, timestamps and counters no
operation reads; `net_send` and the outgoing side of a client; each client's own
mutex, which is only taken inside `clients_lock`; what the checks of an
invocation look at (they pass or fail); the failure of allocations, except
where the code's own state differs after one; the two `unlink`s of
`remove_pid_file` are one step; the server side of `NetworkEndpoint.js`; a
chunk of TCP data that holds two messages, which the client discards, is an answer
that never comes.

Next, in this order:

1. `FrameProtocol`: encoding and decoding of frames as a pure algorithm against a
   reference, then the socket contexts that use it.
2. `HotwireRouter`, and the router and state machine of the Node binding.
3. `CliTables`: history ring, port mappings and the list of programs of
   `polycall_cli.c`, at their limits; the audit ring of the adapter, which
   wraps in two ways (`polycall_dop_adapter.c:586-615`, `..._security.c:230-263`).
