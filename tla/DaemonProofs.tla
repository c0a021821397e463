---------------------------- MODULE DaemonProofs ----------------------------
(***************************************************************************)
(* Proofs about Daemon, for any number of daemons and clients.             *)
(*                                                                         *)
(* That the files are the daemon's while it listens rests on what holds    *)
(* before and after: from its start on the pid file names it, if it could  *)
(* write it, and from bind to unlinkSocket the path leads to its socket.   *)
(***************************************************************************)
EXTENDS Daemon, TLAPS

\* Somebody has connected, and waits.
Accepting == \A d \in Daemons : at[d] = "accept" => queue[d] # <<>>

Bound(d) == at[d] = "listen" \/ Listens(d)

\* Of daemons of which no two have been there at a time.
Owned ==
    /\ \A d, e \in Daemons : ~Off(d) /\ ~Off(e) => d = e
    /\ \A d \in named : ~Off(d) /\ pid_file = d
    /\ \A d \in Daemons : Bound(d) => socket_path = d
    /\ \A d \in Daemons : at[d] \in {"bind", "unlinkPid"} => socket_path = None

IInv ==
    /\ TypeOK
    /\ Accepting
    /\ ~together => Owned

-----------------------------------------------------------------------------
LEMMA Initially == Init => IInv
<1> SUFFICES ASSUME Init PROVE IInv
  OBVIOUS
<1>1. queue \in [Daemons -> Seq(Clients)]
  <2>1. <<>> \in Seq(Clients)
    OBVIOUS
  <2>2. QED
    BY <2>1 DEF Init
<1>2. TypeOK
  BY <1>1, DaemonAssumption DEF Init, TypeOK, Places
<1>3. Accepting /\ Owned
  BY DEF Init, Accepting, Owned, Bound, Listens, Off
<1>4. QED
  BY <1>2, <1>3 DEF IInv

-----------------------------------------------------------------------------
(***************************************************************************)
(* The type, and with it that accept finds a client: the queue of a daemon *)
(* only grows between select and accept.                                   *)
(***************************************************************************)
LEMMA TypeStep == TypeOK /\ Accepting /\ [Next]_vars => (TypeOK /\ Accepting)'
<1> SUFFICES ASSUME TypeOK, Accepting, [Next]_vars PROVE (TypeOK /\ Accepting)'
  OBVIOUS
<1> DEFINE Typed == (TypeOK /\ Accepting)'
<1> USE DaemonAssumption DEF TypeOK, Accepting, Places, Goes, Ends, Off, files, clients, process
<1>1. ASSUME NEW d \in Daemons, Start(d) \/ StartUnnamed(d) \/ StartFails(d) PROVE Typed
  <2>1. together' \in BOOLEAN
    BY <1>1 DEF Start, StartUnnamed, StartFails, Joins
  <2>2. CASE Start(d)
    BY <2>1, <2>2 DEF Start
  <2>3. CASE StartUnnamed(d)
    BY <2>1, <2>3 DEF StartUnnamed
  <2>4. CASE StartFails(d)
    BY <2>1, <2>4 DEF StartFails
  <2>5. QED
    BY <1>1, <2>2, <2>3, <2>4
<1>2. ASSUME NEW d \in Daemons, Unlink(d) \/ Bind(d) \/ Listen(d) PROVE Typed
  <2>1. CASE Unlink(d)
    BY <2>1 DEF Unlink
  <2>2. CASE Bind(d)
    BY <2>2 DEF Bind
  <2>3. CASE Listen(d)
    BY <2>3 DEF Listen
  <2>4. QED
    BY <1>2, <2>1, <2>2, <2>3
<1>3. ASSUME NEW d \in Daemons,
             BindFails(d) \/ ListenFails(d) \/ UnlinkSocket(d) \/ UnlinkPid(d)
      PROVE  Typed
  <2>1. CASE BindFails(d)
    BY <2>1 DEF BindFails
  <2>2. CASE ListenFails(d)
    BY <2>2 DEF ListenFails
  <2>3. CASE UnlinkSocket(d)
    BY <2>3 DEF UnlinkSocket
  <2>4. CASE UnlinkPid(d)
    BY <2>4 DEF UnlinkPid
  <2>5. QED
    BY <1>3, <2>1, <2>2, <2>3, <2>4
<1>4. ASSUME NEW d \in Daemons, Loop(d) PROVE Typed
  BY <1>4 DEF Loop
<1>5. ASSUME NEW d \in Daemons, Select(d) PROVE Typed
  BY <1>5 DEF Select
<1>6. ASSUME NEW d \in Daemons, Accept(d) PROVE Typed
  BY <1>6 DEF Accept
<1>7. ASSUME NEW d \in Daemons, HandleClient(d) PROVE Typed
  BY <1>7 DEF HandleClient
<1>8. ASSUME NEW d \in Daemons, Close(d) PROVE Typed
  BY <1>8 DEF Close
<1>9. ASSUME NEW d \in Daemons, Terminate(d) PROVE Typed
  BY <1>9 DEF Terminate
<1>10. ASSUME NEW d \in Daemons, Kill(d) PROVE Typed
  BY <1>10 DEF Kill
<1>11. ASSUME NEW c \in Clients, Connect(c) PROVE Typed
  <2>1. PICK d \in Daemons : queue' = [queue EXCEPT ![d] = Append(@, c)]
    BY <1>11 DEF Connect
  <2>2. queue[d] \in Seq(Clients) /\ Append(queue[d], c) \in Seq(Clients)
    OBVIOUS
  <2>3. Append(queue[d], c) # <<>>
    <3> SUFFICES ASSUME NEW q \in Seq(Clients) PROVE Append(q, c) # <<>>
      BY <2>2
    <3>1. Len(Append(q, c)) = Len(q) + 1 /\ Len(q) \in Nat
      OBVIOUS
    <3>2. Len(<<>>) = 0
      OBVIOUS
    <3>3. Len(Append(q, c)) # 0
      BY <3>1
    <3>4. QED
      BY <3>2, <3>3, Zenon
  <2>4. queue' \in [Daemons -> Seq(Clients)] /\ Accepting'
    BY <1>11, <2>1, <2>2, <2>3 DEF Connect
  <2>5. QED
    BY <1>11, <2>4 DEF Connect
<1>12. ASSUME NEW c \in Clients, Send(c) \/ HangUp(c) PROVE Typed
  BY <1>12 DEF Send, HangUp
<1>13. CASE UNCHANGED vars
  BY <1>13 DEF vars
<1>14. QED
  BY <1>1, <1>2, <1>3, <1>4, <1>5, <1>6, <1>7, <1>8, <1>9, <1>10, <1>11, <1>12, <1>13
     DEF Next, Main

-----------------------------------------------------------------------------
(***************************************************************************)
(* The files: a daemon that starts with no other beside it takes both, and *)
(* until it has ended nobody else touches them.                            *)
(***************************************************************************)
LEMMA OwnedStep ==
    ASSUME TypeOK, Owned, ~together', [Next]_vars
    PROVE  Owned'
<1> USE DaemonAssumption DEF TypeOK, Owned, Bound, Listens, Off, Goes, Ends, files, clients, process
<1>1. ASSUME NEW d \in Daemons, Start(d) \/ StartUnnamed(d) \/ StartFails(d) PROVE Owned'
  <2>1. \A e \in Daemons \ {d} : Off(e)
    BY <1>1, Zenon DEF Start, StartUnnamed, StartFails, Joins
  <2>2. Off(d) /\ named = {}
    BY <1>1, <2>1 DEF Start, StartUnnamed, StartFails
  <2>3. CASE Start(d)
    BY <2>1, <2>2, <2>3 DEF Start
  <2>4. CASE StartUnnamed(d)
    BY <2>1, <2>2, <2>4 DEF StartUnnamed
  <2>5. CASE StartFails(d)
    BY <2>1, <2>2, <2>5 DEF StartFails
  <2>6. QED
    BY <1>1, <2>3, <2>4, <2>5
<1>2. ASSUME NEW d \in Daemons, Unlink(d) \/ Bind(d) \/ Listen(d) PROVE Owned'
  <2>1. CASE Unlink(d)
    BY <2>1 DEF Unlink
  <2>2. CASE Bind(d)
    BY <2>2 DEF Bind
  <2>3. CASE Listen(d)
    BY <2>3 DEF Listen
  <2>4. QED
    BY <1>2, <2>1, <2>2, <2>3
<1>3. ASSUME NEW d \in Daemons,
             BindFails(d) \/ ListenFails(d) \/ UnlinkSocket(d) \/ UnlinkPid(d)
      PROVE  Owned'
  <2>1. CASE BindFails(d)
    BY <2>1 DEF BindFails
  <2>2. CASE UnlinkSocket(d)
    BY <2>2 DEF UnlinkSocket
  <2>3. CASE UnlinkPid(d)
    BY <2>3 DEF UnlinkPid
  <2>4. CASE ListenFails(d)
    BY <2>4 DEF ListenFails
  <2>5. QED
    BY <1>3, <2>1, <2>2, <2>3, <2>4
<1>4. ASSUME NEW d \in Daemons, Loop(d) \/ Select(d) PROVE Owned'
  <2>1. at[d] \in {"loop", "select"} /\ UNCHANGED <<pid_file, socket_path, named>>
    BY <1>4 DEF Loop, Select
  <2>2. PICK to \in {"select", "close", "accept", "loop"} : at' = [at EXCEPT ![d] = to]
    BY <1>4 DEF Loop, Select
  <2>3. QED
    BY <2>1, <2>2
<1>5. ASSUME NEW d \in Daemons, Accept(d) \/ HandleClient(d) \/ Close(d) PROVE Owned'
  <2>1. at[d] \in {"accept", "read", "close"} /\ UNCHANGED <<pid_file, socket_path, named>>
    BY <1>5 DEF Accept, HandleClient, Close
  <2>2. \E to \in {"read", "loop", "unlinkSocket"} : at' = [at EXCEPT ![d] = to]
    BY <1>5 DEF Accept, HandleClient, Close
  <2>3. QED
    BY <2>1, <2>2
<1>6. ASSUME NEW d \in Daemons, Terminate(d) PROVE Owned'
  BY <1>6 DEF Terminate
<1>7. ASSUME NEW d \in Daemons, Kill(d) PROVE Owned'
  BY <1>7 DEF Kill
<1>8. ASSUME NEW c \in Clients, Connect(c) \/ Send(c) \/ HangUp(c) PROVE Owned'
  BY <1>8 DEF Connect, Send, HangUp
<1>9. CASE UNCHANGED vars
  BY <1>9 DEF vars
<1>10. QED
  BY <1>1, <1>2, <1>3, <1>4, <1>5, <1>6, <1>7, <1>8, <1>9 DEF Next, Main

\* Two daemons at a time are not forgotten.
LEMMA Remembered == [Next]_vars => (together => together')
<1> SUFFICES ASSUME [Next]_vars, together PROVE together'
  OBVIOUS
<1>1. ASSUME NEW d \in Daemons, Start(d) \/ StartUnnamed(d) \/ StartFails(d) PROVE together'
  BY <1>1, Zenon DEF Start, StartUnnamed, StartFails, Joins
<1>2. ASSUME NEW d \in Daemons,
             \/ Unlink(d) \/ Bind(d) \/ BindFails(d) \/ Listen(d) \/ ListenFails(d)
             \/ Loop(d) \/ Select(d) \/ Accept(d) \/ HandleClient(d)
             \/ Close(d) \/ UnlinkSocket(d) \/ UnlinkPid(d)
             \/ Terminate(d) \/ Kill(d)
      PROVE  UNCHANGED together
  BY <1>2 DEF Unlink, Bind, BindFails, Listen, ListenFails, Loop, Select, Accept, HandleClient,
        Close, UnlinkSocket, UnlinkPid, Terminate, Kill
<1>3. ASSUME NEW c \in Clients, Connect(c) \/ Send(c) \/ HangUp(c) PROVE UNCHANGED together
  BY <1>3 DEF Connect, Send, HangUp
<1>4. CASE UNCHANGED vars
  BY <1>4 DEF vars
<1>5. QED
  BY <1>1, <1>2, <1>3, <1>4 DEF Next, Main

LEMMA Inductive == IInv /\ [Next]_vars => IInv'
  BY TypeStep, OwnedStep, Remembered DEF IInv

-----------------------------------------------------------------------------
(***************************************************************************)
(* The event loop of polycalld.c: accept is called when a client waits,    *)
(* and a client is read from by the daemon that has accepted it.           *)
(***************************************************************************)
THEOREM Typed == Spec => [](TypeOK /\ Accepting)
<1>1. IInv => TypeOK /\ Accepting
  BY DEF IInv
<1>2. QED
  BY Initially, Inductive, <1>1, PTL DEF Spec

(***************************************************************************)
(* main of polycalld.c: of daemons that come one after the other, ended,   *)
(* failed or killed at any step, each has the socket path for itself while *)
(* it listens, and its number in the pid file if it could write it, for    *)
(* any number of them and of clients.                                      *)
(***************************************************************************)
THEOREM OwnFiles == Spec => []FilesAreTheDaemons
<1>1. IInv => FilesAreTheDaemons
  BY DEF IInv, Owned, Bound, Listens, Off, FilesAreTheDaemons
<1>2. QED
  BY Initially, Inductive, <1>1, PTL DEF Spec
=============================================================================
