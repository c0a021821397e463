------------------------------- MODULE Daemon -------------------------------
(***************************************************************************)
(* The daemon polycalld (daemon/src/polycalld.c, daemonize.c): processes   *)
(* that were started with the same pid file and socket path, and their     *)
(* clients.                                                                *)
(*                                                                         *)
(* A step is what the program does from one system call that others notice *)
(* to the next.  Signals come between any two steps: SIGTERM and SIGINT    *)
(* clear g_running, SIGKILL ends the process and leaves its files.  A      *)
(* blocking read is restarted after a signal, select is not and waits for  *)
(* a second at most.  All that g_reload, set by SIGHUP, leads to is a line *)
(* of log: a SIGHUP is one of the signals select returns early for.        *)
(***************************************************************************)
EXTENDS Naturals, Sequences, SequencesExt

CONSTANTS Daemons, Clients,
          None,         \* no file at a path, no client accepted
          Empty,        \* a pid file without a number
          Backlog       \* bound: of the clients that wait to be accepted

ASSUME DaemonAssumption ==
    /\ None \notin Daemons \cup Clients /\ Empty \notin Daemons
    /\ Backlog \in Nat

VARIABLES at,           \* where each process is
          running,      \* g_running
          queue,        \* of each listening socket
          client_fd,    \* the client being handled
          pid_file,     \* the process the pid file names
          socket_path,  \* whose socket it leads to
          named,        \* processes that have written their pid file
          sent, hungup,     \* of the connected clients
          answered,         \* clients, until they come again
          together      \* were there ever two daemons at a time?

process == <<at, running, named>>
files == <<pid_file, socket_path>>
clients == <<sent, hungup, answered>>
vars == <<process, queue, client_fd, files, clients, together>>

Places == {"off", "unlink", "bind", "listen", "loop", "select", "accept", "read",
           "close", "unlinkSocket", "unlinkPid"}

\* Its end of the socket is open and known to clients.
Listens(d) == at[d] \in {"loop", "select", "accept", "read", "close"}

Off(d) == at[d] = "off"

Goes(d, to) == at' = [at EXCEPT ![d] = to]

\* The end of a process; its flags are set again when it starts.
Ends(d) ==
    /\ Goes(d, "off")
    /\ running' = [running EXCEPT ![d] = TRUE]
    /\ named' = named \ {d}

\* It has no connection.
Away(c) == \A d \in Daemons : c # client_fd[d] /\ ~Contains(queue[d], c)

-----------------------------------------------------------------------------
\* Mistakes the code could have made; each violates a property below.
UnlinkNothing(d) ==         \* a stale socket file is not removed
    /\ at[d] = "unlink" /\ Goes(d, "bind")
    /\ UNCHANGED <<running, named, queue, client_fd, files, clients, together>>

SelectForever(d) ==         \* no timeout: a signal just before select is missed
    /\ at[d] = "select"
    /\ queue[d] # <<>> /\ Goes(d, "accept")
    /\ UNCHANGED <<running, named, queue, client_fd, files, clients, together>>

HandleDataOnly(d) ==        \* read again when it returns 0
    /\ at[d] = "read" /\ client_fd[d] \in sent
    /\ answered' = answered \cup {client_fd[d]}
    /\ sent' = sent \ {client_fd[d]} /\ hungup' = hungup \ {client_fd[d]}
    /\ client_fd' = [client_fd EXCEPT ![d] = None]
    /\ Goes(d, "loop")
    /\ UNCHANGED <<running, named, queue, files, together>>

-----------------------------------------------------------------------------
Init ==
    /\ at = [d \in Daemons |-> "off"]
    /\ running = [d \in Daemons |-> TRUE]
    /\ queue = [d \in Daemons |-> <<>>] /\ client_fd = [d \in Daemons |-> None]
    /\ pid_file = None /\ socket_path = None /\ named = {}
    /\ sent = {} /\ hungup = {} /\ answered = {}
    /\ together = FALSE

\* Nobody has to be alone to start.
Joins(d) == together' = (together \/ \E e \in Daemons \ {d} : ~Off(e))

\* main until the pid file is written, by daemonize or by write_pid_file.
Start(d) ==
    /\ Off(d)
    /\ pid_file' = d /\ named' = named \cup {d}
    /\ Joins(d)
    /\ Goes(d, "unlink")
    /\ UNCHANGED <<running, queue, client_fd, socket_path, clients>>

\* write_pid_file, in the foreground, cannot open the file, or empties it and
\* cannot write; it tells nobody, and the daemon goes on without.
StartUnnamed(d) ==
    /\ Off(d)
    /\ pid_file' \in {pid_file, Empty}
    /\ Joins(d)
    /\ Goes(d, "unlink")
    /\ UNCHANGED <<running, named, queue, client_fd, socket_path, clients>>

\* daemonize has emptied the file and cannot write: main returns 1.  (One
\* that fails before leaves nothing.)
StartFails(d) ==
    /\ Off(d)
    /\ pid_file' = Empty
    /\ Joins(d)
    /\ UNCHANGED <<process, queue, client_fd, socket_path, clients>>

\* create_unix_socket.
Unlink(d) ==
    /\ at[d] = "unlink"
    /\ socket_path' = None
    /\ Goes(d, "bind")
    /\ UNCHANGED <<running, named, queue, client_fd, pid_file, clients, together>>

Bind(d) ==
    /\ at[d] = "bind" /\ socket_path = None
    /\ socket_path' = d
    /\ Goes(d, "listen")
    /\ UNCHANGED <<running, named, queue, client_fd, pid_file, clients, together>>

\* socket or bind fails, for EADDRINUSE or another reason: main returns 1.
BindFails(d) ==
    /\ at[d] = "bind"
    /\ Ends(d)
    /\ UNCHANGED <<queue, client_fd, files, clients, together>>

Listen(d) ==
    /\ at[d] = "listen"
    /\ Goes(d, "loop")
    /\ UNCHANGED <<running, named, queue, client_fd, files, clients, together>>

\* main returns 1, and leaves both files.
ListenFails(d) ==
    /\ at[d] = "listen"
    /\ Ends(d)
    /\ UNCHANGED <<queue, client_fd, files, clients, together>>

\* The head of the event loop.
Loop(d) ==
    /\ at[d] = "loop"
    /\ Goes(d, IF running[d] THEN "select" ELSE "close")
    /\ UNCHANGED <<running, named, queue, client_fd, files, clients, together>>

\* Somebody has connected; or the second is over, or a signal has come.
Select(d) ==
    /\ at[d] = "select"
    /\ Goes(d, IF queue[d] # <<>> THEN "accept" ELSE "loop")
    /\ UNCHANGED <<running, named, queue, client_fd, files, clients, together>>

Accept(d) ==
    /\ at[d] = "accept"
    /\ client_fd' = [client_fd EXCEPT ![d] = Head(queue[d])]
    /\ queue' = [queue EXCEPT ![d] = Tail(@)]
    /\ Goes(d, "read")
    /\ UNCHANGED <<running, named, files, clients, together>>

\* handle_client has read something, or that there is nothing more.
HandleClient(d) ==
    /\ at[d] = "read" /\ client_fd[d] \in sent \cup hungup
    /\ answered' = IF client_fd[d] \in sent THEN answered \cup {client_fd[d]} ELSE answered
    /\ client_fd' = [client_fd EXCEPT ![d] = None]
    /\ sent' = sent \ {client_fd[d]} /\ hungup' = hungup \ {client_fd[d]}
    /\ Goes(d, "loop")
    /\ UNCHANGED <<running, named, queue, files, together>>

\* cleanup: the listening socket, the socket file and the pid file.
Close(d) ==
    /\ at[d] = "close"
    /\ queue' = [queue EXCEPT ![d] = <<>>]
    /\ sent' = sent \ ToSet(queue[d]) /\ hungup' = hungup \ ToSet(queue[d])
    /\ Goes(d, "unlinkSocket")
    /\ UNCHANGED <<running, named, client_fd, files, answered, together>>

UnlinkSocket(d) ==
    /\ at[d] = "unlinkSocket"
    /\ socket_path' = None
    /\ Goes(d, "unlinkPid")
    /\ UNCHANGED <<running, named, queue, client_fd, pid_file, clients, together>>

UnlinkPid(d) ==
    /\ at[d] = "unlinkPid"
    /\ pid_file' = None
    /\ Ends(d)
    /\ UNCHANGED <<queue, client_fd, socket_path, clients, together>>

-----------------------------------------------------------------------------
\* SIGTERM or SIGINT, after setup_signals.
Terminate(d) ==
    /\ ~Off(d)
    /\ running' = [running EXCEPT ![d] = FALSE]
    /\ UNCHANGED <<at, named, queue, client_fd, files, clients, together>>

Kill(d) ==
    /\ ~Off(d)
    /\ Ends(d)
    /\ queue' = [queue EXCEPT ![d] = <<>>] /\ client_fd' = [client_fd EXCEPT ![d] = None]
    /\ sent' = sent \ (ToSet(queue[d]) \cup {client_fd[d]})
    /\ hungup' = hungup \ (ToSet(queue[d]) \cup {client_fd[d]})
    /\ UNCHANGED <<files, answered, together>>

\* connect: the path leads to a socket, and somebody listens on it.
Connect(c) ==
    /\ Away(c)
    /\ \E d \in Daemons :
        /\ d = socket_path /\ Listens(d) /\ Len(queue[d]) < Backlog
        /\ queue' = [queue EXCEPT ![d] = Append(@, c)]
    /\ answered' = answered \ {c}
    /\ UNCHANGED <<process, client_fd, files, sent, hungup, together>>

Send(c) ==
    /\ ~Away(c) /\ c \notin sent \cup hungup
    /\ sent' = sent \cup {c}
    /\ UNCHANGED <<process, queue, client_fd, files, hungup, answered, together>>

HangUp(c) ==
    /\ ~Away(c) /\ c \notin hungup
    /\ hungup' = hungup \cup {c}
    /\ UNCHANGED <<process, queue, client_fd, files, sent, answered, together>>

Main(d) ==
    \/ Start(d) \/ StartUnnamed(d) \/ StartFails(d)
    \/ Unlink(d) \/ Bind(d) \/ BindFails(d) \/ Listen(d) \/ ListenFails(d)
    \/ Loop(d) \/ Select(d) \/ Accept(d) \/ HandleClient(d)
    \/ Close(d) \/ UnlinkSocket(d) \/ UnlinkPid(d)

Next ==
    \/ \E d \in Daemons : Main(d) \/ Terminate(d) \/ Kill(d)
    \/ \E c \in Clients : Connect(c) \/ Send(c) \/ HangUp(c)

Spec == Init /\ [][Next]_vars

\* A process that was started goes on.  Nobody has to start one, and no
\* client has to do anything.
FairSpec == Spec /\ \A d \in Daemons : WF_vars(~Off(d) /\ Main(d))

-----------------------------------------------------------------------------
\* A client is accepted by the process that handles it, and files are named.
TypeOK ==
    /\ at \in [Daemons -> Places]
    /\ running \in [Daemons -> BOOLEAN]
    /\ queue \in [Daemons -> Seq(Clients)]
    /\ client_fd \in [Daemons -> Clients \cup {None}]
    /\ \A d \in Daemons : client_fd[d] # None <=> at[d] = "read"
    /\ named \subseteq Daemons
    /\ pid_file \in Daemons \cup {None, Empty} /\ socket_path \in Daemons \cup {None}
    /\ sent \subseteq Clients /\ hungup \subseteq Clients /\ answered \subseteq Clients
    /\ together \in BOOLEAN

(***************************************************************************)
(* Daemons that were never started beside one another: each finds the path *)
(* leading to its socket from the moment it listens to the moment it       *)
(* removes it, whatever a killed or failed one has left, and no stale      *)
(* socket when it binds; and the pid file names it, if it could write it.  *)
(* (One that could not listens beside a pid file that is missing, empty or *)
(* names a process that has ended.)                                        *)
(***************************************************************************)
FilesAreTheDaemons ==
    ~together =>
        \A d \in Daemons :
            /\ d \in named => pid_file = d
            /\ Listens(d) => socket_path = d
            /\ at[d] \in {"bind", "unlinkPid"} => socket_path = None

\* It sits in the read of a client that neither sends nor hangs up.
Stalled(d) == at[d] = "read" /\ client_fd[d] \notin sent \cup hungup

(***************************************************************************)
(* Signals: SIGTERM, at whatever moment it comes (before the loop, between *)
(* its test and select, in a read), ends the process, unless it sits       *)
(* with a silent client; a client that ends its silence lets it end.       *)
(***************************************************************************)
StopsOnSignal == \A d \in Daemons : (~Off(d) /\ ~running[d]) ~> (Off(d) \/ Stalled(d))

(***************************************************************************)
(* Whoever was connected and has sent is answered, even by a daemon whose  *)
(* path another one has taken, as long as it is not told to stop, killed   *)
(* or stalled.                                                             *)
(***************************************************************************)
ClientsAnswered ==
    \A d \in Daemons, c \in Clients :
        (Contains(queue[d], c) /\ c \in sent)
            ~> (c \in answered \/ Off(d) \/ ~running[d] \/ Stalled(d))
=============================================================================
