----------------------------- MODULE NetProgram -----------------------------
(***************************************************************************)
(* One NetworkProgram of core/src/socket/network.c: its client table, the  *)
(* thread that serves it and everybody who may interfere with that thread. *)
(*                                                                         *)
(* Its host is the command line of core/src/cli/polycall_cli.c, whose main *)
(* thread calls net_run in a loop ("config") or reads commands and never   *)
(* calls it ("interactive"); or a program linked with the library          *)
(* ("embedded"), of which one thread loops over net_run and another calls  *)
(* net_remove_client and net_cleanup_program, both exported.               *)
(*                                                                         *)
(* The command line cleans up on stop_network, at its end, and in the      *)
(* handler of SIGINT and SIGTERM, which runs on the same thread between    *)
(* any two of its steps, those of a cleanup included, and ends the         *)
(* process.  A signal waits while its own handler runs; the other does     *)
(* not.  What was interrupted never goes on.                               *)
(*                                                                         *)
(* A pass of net_run is cut where it takes or leaves clients_lock, blocks  *)
(* or calls a handler.  A client's own lock is only ever taken inside      *)
(* clients_lock, so it decides nothing and is left out.  So are the bytes: *)
(* a peer has something unread or it has not.  The kernel's part, the      *)
(* descriptor table and the listen queue, is external.                     *)
(***************************************************************************)
EXTENDS Integers, Sequences

CONSTANTS Peers,        \* remote hosts, each connects once
          NoPeer,
          NetMaxClients,
          MaxFd,        \* bound: the descriptors the process may have open
          Backlog,      \* listen(socket_fd, NET_MAX_CLIENTS)
          Hosts         \* the processes the program may live in

\* What a descriptor is, apart from a peer's connection.
Closed == "closed"
Listener == "listener"

ASSUME PeersAssumption == {NoPeer, Closed, Listener} \cap Peers = {}
ASSUME SizesAssumption == NetMaxClients \in Nat \ {0} /\ MaxFd \in Nat \ {0} /\ Backlog \in Nat
ASSUME HostsAssumption == Hosts \subseteq {"config", "interactive", "embedded"}

VARIABLES host,         \* the process it lives in
          program,      \* how far the NetworkProgram's life is, see Lives
          clients,      \* program->clients
          at,           \* where the serving thread is
          holding,      \* does it hold clients_lock?
          readfds,      \* net_run's local of that name
          new_socket,   \* the descriptor accept returned, 0 for none
          client_addr,  \* and the address it came from
          slot,         \* the index of the loop over the clients
          cleanup,      \* where the cleanup that was entered last is, see Cleanups
          signals,      \* those whose handler was entered
          fds,          \* who is behind each open descriptor
          queue,        \* peers connected, not accepted yet
          came,         \* peers that ever connected
          unread,       \* peers whose data waits to be received
          hungup,       \* peers that have closed their end
          told          \* what the program's handlers were told of a peer

serving == <<at, holding, readfds, new_socket, client_addr, slot>>
ending == <<cleanup, signals>>
kernel == <<fds, queue, came, unread, hungup>>
vars == <<host, program, clients, serving, ending, kernel, told>>

-----------------------------------------------------------------------------
Slots == 1 .. NetMaxClients     \* the client table

Fds == 1 .. MaxFd

Listening == 1      \* the first descriptor opened is the endpoint's

Client == [is_active : BOOLEAN, socket_fd : {0} \cup Fds, addr : Peers \cup {NoPeer}]

\* The addr of a client that is not active is never read.
Inactive == [is_active |-> FALSE, socket_fd |-> 0, addr |-> NoPeer]

Places == {"start", "idle", "checked", "setup", "select", "accept", "add", "announce",
           "handle", "receive", "removing", "stop", "quit", "off", "undefined"}

\* Not there, or no more; serving; being cleaned up, cleaned up and freed, with
\* the command line's pointer to it still set; and with the pointer NULL.
Lives == {"none", "up", "closing", "cleaned", "freed", "unlisted"}

\* None, before it looks at the list, at work on the program, at work on it
\* again, at the end of the process.
Cleanups == {"none", "entered", "inside", "twice", "exited"}

Signals == {"SIGINT", "SIGTERM"}

Active == {i \in Slots : clients[i].is_active}

LowestFree == {fd \in Fds : fds[fd] = Closed /\ \A lower \in 1 .. fd - 1 : fds[lower] # Closed}

FirstInactive == {i \in Slots \ Active : 1 .. i - 1 \subseteq Active}

\* A descriptor select reports: recv or accept on it would not block.
Readable(fd) ==
    \/ fds[fd] = Listener /\ queue # <<>>
    \/ fds[fd] \in unread \cup hungup

Opened(fd, peer) == [fds EXCEPT ![fd] = peer]
Closing(closed) == [fd \in Fds |-> IF fd \in closed THEN Closed ELSE fds[fd]]

Runs == cleanup = "none" /\ at # "undefined"
Alive == cleanup \notin {"twice", "exited"} /\ at # "undefined"

LockFree == ~holding

Shared == host = "embedded"

-----------------------------------------------------------------------------
\* Mistakes the code could have made; each violates a property below.
SetupClientsOnly ==         \* the endpoint left out of the fd_set
    /\ Runs /\ at = "setup"
    /\ readfds' = {clients[i].socket_fd : i \in Active}
    /\ holding' = FALSE
    /\ at' = "select"
    /\ UNCHANGED <<program, clients, new_socket, client_addr, slot, ending, kernel, told>>

AddClientLeaking ==         \* a refused connection not closed
    /\ Runs /\ at = "add" /\ program = "up"
    /\ LockFree
    /\ \/ \E i \in FirstInactive :
            /\ clients' = [clients EXCEPT ![i] =
                 [is_active |-> TRUE, socket_fd |-> new_socket, addr |-> client_addr]]
            /\ at' = "announce"
            /\ UNCHANGED <<new_socket, client_addr>>
       \/ /\ FirstInactive = {}
          /\ new_socket' = 0 /\ client_addr' = NoPeer
          /\ at' = "handle"
          /\ UNCHANGED clients
    /\ UNCHANGED <<program, holding, readfds, slot, ending, kernel, told>>

AnnounceNobody ==           \* on_connect not called
    /\ Runs /\ at = "announce"
    /\ new_socket' = 0 /\ client_addr' = NoPeer
    /\ at' = "handle"
    /\ UNCHANGED <<program, clients, holding, readfds, slot, ending, kernel, told>>

IsActive(i) == clients[i].is_active     \* every client received from, ready or not

ReceiveOncePerPass ==       \* the loop left after the first client with data
    /\ Runs /\ at = "receive" /\ slot \in Slots
    /\ IsActive(slot) /\ clients[slot].socket_fd \in readfds
    /\ fds[clients[slot].socket_fd] \in unread
    /\ unread' = unread \ {fds[clients[slot].socket_fd]}
    /\ slot' = NetMaxClients + 1
    /\ UNCHANGED <<program, clients, at, holding, readfds, new_socket, client_addr, ending,
                   fds, queue, came, hungup, told>>

RemoveClientTelling(thread, fd) == \* on_disconnect called by net_remove_client
    /\ Alive /\ program = "up" /\ thread = "other" /\ Shared
    /\ LockFree
    /\ \E i \in Active :
        /\ clients[i].socket_fd = fd
        /\ clients' = [clients EXCEPT ![i] = Inactive]
        /\ told' = [told EXCEPT ![clients[i].addr] = "disconnected"]
    /\ fds' = Closing({fd})
    /\ UNCHANGED <<program, serving, ending, queue, came, unread, hungup>>

CleanupAndReturn ==         \* the signal handler cleans up and does not exit
    /\ \/ cleanup = "entered" /\ program \in {"none", "unlisted"}
       \/ cleanup = "inside" /\ program = "unlisted"
    /\ cleanup' = "none"
    /\ UNCHANGED <<program, clients, serving, signals, kernel, told>>

-----------------------------------------------------------------------------
Init ==
    /\ host \in Hosts
    /\ program = "none"
    /\ clients = [i \in Slots |-> Inactive]
    /\ at = "start" /\ holding = FALSE /\ readfds = {} /\ slot = 0
    /\ new_socket = 0 /\ client_addr = NoPeer
    /\ cleanup = "none" /\ signals = {}
    /\ fds = [fd \in Fds |-> Closed]
    /\ queue = <<>> /\ came = {} /\ unread = {} /\ hungup = {}
    /\ told = [p \in Peers |-> "nothing"]

\* net_init_program: a port is found, bound and listened on, or none is.
InitProgram ==
    /\ Runs /\ at = "start"
    /\ \/ /\ program' = "up" /\ at' = "idle"
          /\ fds' = Opened(Listening, Listener)
       \/ /\ at' = "off"
          /\ UNCHANGED <<program, fds>>
    /\ UNCHANGED <<clients, holding, readfds, new_socket, client_addr, slot, ending,
                   queue, came, unread, hungup, told>>

\* The checks net_run starts with.  It returns if the program is not running.
NetRun ==
    /\ Runs /\ host # "interactive" /\ at = "idle"
    /\ program = "up"
    /\ at' = "checked"
    /\ UNCHANGED <<program, clients, holding, readfds, new_socket, client_addr, slot, ending, kernel, told>>

\* Taking a lock that is destroyed, or reading endpoints[0] after they were
\* freed, has no defined outcome: the process is not followed further.
UseAfterCleanup ==
    /\ Runs /\ program \notin {"none", "up"}
    /\ at \in {"checked", "select", "accept", "add", "handle"}
    /\ at' = "undefined"
    /\ UNCHANGED <<program, clients, holding, readfds, new_socket, client_addr, slot,
                   ending, kernel, told>>

\* A section of net_run under clients_lock begins.
Lock(from, to) ==
    /\ Runs /\ at = from /\ program = "up"
    /\ LockFree
    /\ holding' = TRUE
    /\ at' = to

LockForSetup ==
    /\ Lock("checked", "setup")
    /\ UNCHANGED <<program, clients, readfds, new_socket, client_addr, slot, ending, kernel, told>>

\* The fd_set: the endpoint and every active client.
Setup ==
    /\ Runs /\ at = "setup"
    /\ readfds' = {Listening} \cup {clients[i].socket_fd : i \in Active}
    /\ holding' = FALSE
    /\ at' = "select"
    /\ UNCHANGED <<program, clients, new_socket, client_addr, slot, ending, kernel, told>>

\* select leaves the readable ones, none of them after its second of waiting.
\* It fails with EBADF, and net_run returns, if one was closed meanwhile.
Select ==
    /\ Runs /\ at = "select" /\ program = "up"
    /\ \/ /\ readfds' = {fd \in readfds : Readable(fd)}
          /\ at' = "accept"
       \/ /\ \E fd \in readfds : fds[fd] = Closed
          /\ readfds' = {}
          /\ at' = "idle"
    /\ UNCHANGED <<program, clients, holding, new_socket, client_addr, slot, ending, kernel, told>>

NothingToAccept ==
    /\ Runs /\ at = "accept" /\ program = "up"
    /\ Listening \notin readfds \/ LowestFree = {}
    /\ at' = "handle"
    /\ UNCHANGED <<program, clients, holding, readfds, new_socket, client_addr, slot, ending, kernel, told>>

\* accept, then set_nonblocking.
Accept ==
    /\ Runs /\ at = "accept" /\ program = "up"
    /\ Listening \in readfds
    /\ \E fd \in LowestFree :
        /\ fds' = Opened(fd, Head(queue))
        /\ new_socket' = fd
    /\ client_addr' = Head(queue)
    /\ queue' = Tail(queue)
    /\ at' = "add"
    /\ UNCHANGED <<program, clients, holding, readfds, slot, ending, came, unread, hungup, told>>

\* fcntl has failed: the connection is closed and net_run returns.
DropAccepted ==
    /\ Runs /\ at = "add" /\ program = "up"
    /\ fds' = Closing({new_socket})
    /\ new_socket' = 0 /\ client_addr' = NoPeer
    /\ readfds' = {}
    /\ at' = "idle"
    /\ UNCHANGED <<program, clients, holding, slot, ending, queue, came, unread, hungup, told>>

\* net_add_client: the first inactive slot is taken; a full table refuses.
AddClient ==
    /\ Runs /\ at = "add" /\ program = "up"
    /\ LockFree
    /\ \/ \E i \in FirstInactive :
            /\ clients' = [clients EXCEPT ![i] =
                 [is_active |-> TRUE, socket_fd |-> new_socket, addr |-> client_addr]]
            /\ at' = "announce"
            /\ UNCHANGED <<fds, new_socket, client_addr>>
       \/ /\ FirstInactive = {}
          /\ fds' = Closing({new_socket})
          /\ new_socket' = 0 /\ client_addr' = NoPeer
          /\ at' = "handle"
          /\ UNCHANGED clients
    /\ UNCHANGED <<program, holding, readfds, slot, ending, queue, came, unread, hungup, told>>

\* on_connect is called, with no lock.
Announce ==
    /\ Runs /\ at = "announce"
    /\ told' = [told EXCEPT ![client_addr] = "connected"]
    /\ new_socket' = 0 /\ client_addr' = NoPeer
    /\ at' = "handle"
    /\ UNCHANGED <<program, clients, holding, readfds, slot, ending, kernel>>

LockForClients ==
    /\ Lock("handle", "receive")
    /\ slot' = 1
    /\ UNCHANGED <<program, clients, readfds, new_socket, client_addr, ending, kernel, told>>

\* The loop's test, on a readfds that is as old as the select.
FdIsSet(i) == clients[i].is_active /\ clients[i].socket_fd \in readfds

NextClient ==
    /\ slot' = slot + 1
    /\ UNCHANGED <<program, clients, at, holding, readfds, new_socket, client_addr, ending,
                   fds, queue, came, hungup, told>>

SkipClient ==
    /\ Runs /\ at = "receive" /\ slot \in Slots
    /\ ~FdIsSet(slot)
    /\ NextClient
    /\ UNCHANGED unread

\* recv returned bytes, and on_receive is called with both locks held.
ReceiveData ==
    /\ Runs /\ at = "receive" /\ slot \in Slots
    /\ FdIsSet(slot)
    /\ fds[clients[slot].socket_fd] \in unread
    /\ unread' = unread \ {fds[clients[slot].socket_fd]}
    /\ NextClient

\* recv returned 0, or -1 because there is nothing: either is a disconnection.
\* on_disconnect is called, then net_remove_client, with both locks held.
Disconnect ==
    /\ Runs /\ at = "receive" /\ slot \in Slots
    /\ FdIsSet(slot)
    /\ fds[clients[slot].socket_fd] \notin unread
    /\ told' = [told EXCEPT ![clients[slot].addr] = "disconnected"]
    /\ at' = "removing"
    /\ UNCHANGED <<program, clients, holding, readfds, new_socket, client_addr, slot,
                   ending, kernel>>

\* net_run returns.
EndOfClients ==
    /\ Runs /\ at = "receive" /\ slot \notin Slots
    /\ holding' = FALSE
    /\ readfds' = {} /\ slot' = 0
    /\ at' = "idle"
    /\ UNCHANGED <<program, clients, new_socket, client_addr, ending, kernel, told>>

\* net_remove_client takes clients_lock, whoever calls it.
RemoveClient(thread, fd) ==
    /\ Alive /\ program = "up"
    /\ \/ thread = "other" /\ Shared /\ at' = at
       \/ /\ thread = "main" /\ Runs /\ at = "removing"
          /\ fd = clients[slot].socket_fd
          /\ at' = "receive"
    /\ LockFree
    /\ fd \in {clients[i].socket_fd : i \in Active}
    /\ clients' = [i \in Slots |->
         IF clients[i].is_active /\ clients[i].socket_fd = fd THEN Inactive ELSE clients[i]]
    /\ fds' = Closing({fd})
    /\ UNCHANGED <<program, holding, readfds, new_socket, client_addr, slot, ending,
                   queue, came, unread, hungup, told>>

\* net_cleanup_program under clients_lock: the endpoint and every client are
\* closed; what waits in the listen queue is reset.
CleanupProgram(to) ==
    /\ program = "up"
    /\ LockFree
    /\ program' = to
    /\ clients' = [i \in Slots |-> Inactive]
    /\ fds' = Closing({Listening} \cup {clients[i].socket_fd : i \in Active})
    /\ queue' = <<>>
    /\ UNCHANGED <<at, readfds, new_socket, client_addr, slot, came, unread, hungup, told>>

\* All of it, up to the end of the locks.
CleanupByOther ==
    /\ Alive /\ Shared
    /\ CleanupProgram("cleaned")
    /\ UNCHANGED <<holding, ending>>

\* The commands stop_network and quit, and the handler: each goes through the
\* list of programs, which has this one on it, or not.
Enter(to) ==
    /\ at' = to /\ cleanup' = "entered"
    /\ UNCHANGED <<program, clients, holding, readfds, new_socket, client_addr, slot, kernel, told>>

StopNetwork ==
    /\ Runs /\ host = "interactive" /\ at = "idle"
    /\ Enter("stop") /\ UNCHANGED signals

Quit ==
    /\ Runs /\ host = "interactive" /\ at \in {"start", "idle", "off"}
    /\ Enter("quit") /\ UNCHANGED signals

Signal(signum) ==
    /\ Alive /\ ~Shared
    /\ signum \notin signals /\ signals' = signals \cup {signum}
    /\ Enter(at)

\* The program is on the list.  Its lock is never free again if it was held by
\* what the signal has interrupted.
BeginCleanup ==
    /\ cleanup = "entered" /\ cleanup' = "inside"
    /\ CleanupProgram("closing")
    /\ holding' = TRUE
    /\ UNCHANGED signals

\* The lock is left and destroyed, the program freed, its place on the list
\* set to NULL.
GoOnCleaning ==
    /\ cleanup = "inside"
    /\ \/ program = "closing" /\ program' = "cleaned" /\ holding' = FALSE
       \/ program = "cleaned" /\ program' = "freed" /\ UNCHANGED holding
       \/ program = "freed" /\ program' = "unlisted" /\ UNCHANGED holding
    /\ UNCHANGED <<clients, at, readfds, new_socket, client_addr, slot, ending, kernel, told>>

\* What was interrupted has destroyed the program or freed it, and not got to
\* its place on the list: the process is not followed further.
CleanupAgain ==
    /\ cleanup = "entered" /\ program \in {"cleaned", "freed"}
    /\ cleanup' = "twice"
    /\ UNCHANGED <<program, clients, serving, signals, kernel, told>>

\* Back to the commands, or the end of the process.
EndCleanup ==
    /\ \/ cleanup = "entered" /\ program \in {"none", "unlisted"}
       \/ cleanup = "inside" /\ program = "unlisted"
    /\ \/ /\ at = "stop" /\ signals = {}
          /\ cleanup' = "none" /\ at' = "off"
       \/ /\ at # "stop" \/ signals # {}
          /\ cleanup' = "exited" /\ UNCHANGED at
    /\ UNCHANGED <<program, clients, holding, readfds, new_socket, client_addr, slot, signals,
                   kernel, told>>

-----------------------------------------------------------------------------
IsQueued(p) == \E i \in 1 .. Len(queue) : queue[i] = p

HasSocket(p) == \E fd \in Fds : fds[fd] = p

Connect(p) ==
    /\ Alive /\ program = "up"
    /\ p \notin came /\ Len(queue) < Backlog
    /\ came' = came \cup {p}
    /\ queue' = Append(queue, p)
    /\ UNCHANGED <<program, clients, serving, ending, fds, unread, hungup, told>>

Send(p) ==
    /\ Alive
    /\ IsQueued(p) \/ HasSocket(p)
    /\ p \notin unread \cup hungup
    /\ unread' = unread \cup {p}
    /\ UNCHANGED <<program, clients, serving, ending, fds, queue, came, hungup, told>>

HangUp(p) ==
    /\ Alive
    /\ IsQueued(p) \/ HasSocket(p)
    /\ p \notin hungup
    /\ hungup' = hungup \cup {p}
    /\ UNCHANGED <<program, clients, serving, ending, fds, queue, came, unread, told>>

-----------------------------------------------------------------------------
MainThread ==
    /\ \/ InitProgram \/ NetRun \/ LockForSetup \/ Setup \/ Select
       \/ NothingToAccept \/ Accept \/ DropAccepted \/ AddClient \/ Announce
       \/ LockForClients \/ SkipClient \/ ReceiveData \/ Disconnect \/ EndOfClients
       \/ UseAfterCleanup
       \/ BeginCleanup \/ GoOnCleaning \/ CleanupAgain \/ EndCleanup
       \/ \E fd \in Fds : RemoveClient("main", fd)
    /\ UNCHANGED host

Others ==
    /\ \/ StopNetwork \/ Quit \/ CleanupByOther
       \/ \E signum \in Signals : Signal(signum)
       \/ \E fd \in Fds : RemoveClient("other", fd)
       \/ \E p \in Peers : Connect(p) \/ Send(p) \/ HangUp(p)
    /\ UNCHANGED host

Next == MainThread \/ Others

Spec == Init /\ [][Next]_vars

\* The main thread is given processor time.  Nobody else has to do anything.
FairSpec == Spec /\ WF_vars(MainThread)

-----------------------------------------------------------------------------
\* Every field is of its type; what the run's invariants rest on, proved only.
TypeOK ==
    /\ host \in Hosts
    /\ program \in Lives
    /\ clients \in [Slots -> Client]
    /\ at \in Places /\ holding \in BOOLEAN
    /\ readfds \subseteq Fds
    /\ new_socket \in {0} \cup Fds /\ client_addr \in Peers \cup {NoPeer}
    /\ slot \in 0 .. NetMaxClients + 1
    /\ cleanup \in Cleanups /\ signals \subseteq Signals
    /\ fds \in [Fds -> Peers \cup {Closed, Listener}]
    /\ queue \in Seq(Peers)
    /\ came \subseteq Peers /\ unread \subseteq Peers /\ hungup \subseteq Peers
    /\ told \in [Peers -> {"nothing", "connected", "disconnected"}]

(***************************************************************************)
(* The client table and the process's descriptors tell the same story: an  *)
(* active slot holds an open descriptor of the peer whose address it       *)
(* keeps, no two slots hold the same one, and every connection that was    *)
(* accepted is in a slot, or in the hands of net_run until it is added or  *)
(* refused.  The endpoint is open exactly until the program is cleaned up. *)
(* Nothing is leaked, closed twice or closed under its user.               *)
(***************************************************************************)
SocketsAccounted ==
    /\ \A i \in Active : fds[clients[i].socket_fd] = clients[i].addr
    /\ \A i, j \in Active : clients[i].socket_fd = clients[j].socket_fd => i = j
    /\ \A fd \in Fds : fds[fd] \in Peers =>
          \/ \E i \in Active : clients[i].socket_fd = fd
          \/ at \in {"add", "undefined"} /\ new_socket = fd
    /\ \A fd \in Fds : fds[fd] = Listener <=> program = "up" /\ fd = Listening

(***************************************************************************)
(* The table and the handlers agree: net_run tells on_connect of a client  *)
(* after adding it and before looking at its data, and on_disconnect just  *)
(* before removing it, so every other client of the table is a connected   *)
(* one as far as the handlers know.  Another thread's net_remove_client    *)
(* can take a client away in between, but never adds one.                  *)
(***************************************************************************)
SlotsAreAnnounced ==
    \A i \in Active :
        \/ told[clients[i].addr] = "connected"
        \/ at = "announce" /\ client_addr = clients[i].addr
        \/ at = "removing" /\ slot = i
        \/ at = "undefined"

\* No peer is announced twice, or gone before it came.
ToldInOrder ==
    \A p \in Peers :
        told'[p] # told[p] =>
            <<told[p], told'[p]>> \in {<<"nothing", "connected">>, <<"connected", "disconnected">>}

HandlersToldInOrder == [][ToldInOrder]_vars

(***************************************************************************)
(* on_disconnect and net_remove_client are for a peer that hung up and     *)
(* whose data has all been received.  recv also returns -1 when there is   *)
(* nothing to read on a live connection: in the CLI's process readfds is   *)
(* still true of the descriptors when the loop over the clients reads it.  *)
(* With another thread it need not be, and a live peer is disconnected.    *)
(***************************************************************************)
DisconnectsOnlyTheGone ==
    ~Shared => (at = "removing" => clients[slot].addr \in hungup \ unread)

\* A signal has come while another's handler ran, or stop_network or quit did.
Interrupted == signals = Signals \/ (signals # {} /\ at \in {"stop", "quit"})

(***************************************************************************)
(* In the CLI's process net_run never goes on with a program that is       *)
(* cleaned up, whenever signals come, because the handler does not return  *)
(* to it.  Nor is a program cleaned up again, on destroyed locks or freed  *)
(* memory, unless a signal interrupts a cleanup: this can happen, between  *)
(* the end of net_cleanup_program and programs[i] = NULL.                  *)
(***************************************************************************)
NoUseAfterCleanup ==
    ~Shared => at # "undefined" /\ (cleanup = "twice" => Interrupted)

\* The program no longer serves, or has been told to end.
Stopped == program # "up" \/ cleanup # "none" \/ at = "removing"

Waits(p) == IsQueued(p) \/ (client_addr = p /\ at \in {"add", "announce"})

Served(p) == \E i \in Active : clients[i].addr = p

\* A peer that connects is announced to on_connect, or turned away, while the
\* program serves: nothing starves the endpoint or a later pass of net_run.
ArrivalsAnswered == \A p \in Peers : (host # "interactive" /\ Waits(p)) ~> (~Waits(p) \/ Stopped)

\* What a client of the table has sent is handed to on_receive.
DataReceived == \A p \in Peers : (Served(p) /\ p \in unread) ~> (p \notin unread \/ ~Served(p) \/ Stopped)

\* "Handle disconnection", "Remove client from program": a peer that hung up
\* leaves the table, unless the whole program is stopped first.
HangupsAreRemoved ==
    \A p \in Peers : (Served(p) /\ p \in hungup) ~> (~Served(p) \/ cleanup # "none")
=============================================================================
