-------------------------- MODULE NetProgramProofs --------------------------
(***************************************************************************)
(* Proofs about NetProgram, for any peers, table, descriptors and backlog, *)
(* and whatever process it lives in.                                       *)
(*                                                                         *)
(* The safety properties speak of places where two pieces of state must    *)
(* agree; the invariant says how they do at every place of net_run: who    *)
(* holds the lock, what is known of the connection in hand, what the       *)
(* readfds of a pass still say, and that a peer is in one place at a time. *)
(***************************************************************************)
EXTENDS NetProgram, SequenceTheorems, TLAPS

\* What the actions call what ends a process.
USE DEF ending

\* The sections of net_run under clients_lock; net_cleanup_program has one too.
Sections == {"setup", "receive", "removing"}

Held ==
    /\ holding <=> at \in Sections \/ program = "closing"
    /\ at \in Sections => program = "up"

\* A program that is not up has no clients.
Lifecycle ==
    /\ program = "none" =>
          /\ at \in {"start", "quit", "off"}
          /\ queue = <<>> /\ \A fd \in Fds : fds[fd] = Closed
    /\ at = "start" => program = "none"
    /\ program # "up" => Active = {}

\* The command line does not get back to net_run, and a cleanup that finds
\* what another one has left has interrupted it.
Endings ==
    /\ Shared => cleanup = "none" /\ program \in {"none", "up", "cleaned"}
    /\ ~Shared /\ program \in {"closing", "cleaned", "freed"} => cleanup # "none"
    /\ program = "unlisted" => cleanup # "none" \/ at = "off"
    /\ cleanup = "none" => signals = {} /\ at \notin {"stop", "quit"}
    /\ cleanup # "none" => signals # {} \/ at \in {"stop", "quit"}
    /\ cleanup = "entered" /\ program \in {"closing", "cleaned", "freed"} => Interrupted
    /\ cleanup = "inside" => program \in {"closing", "cleaned", "freed", "unlisted"}
    /\ cleanup = "twice" => Interrupted

Slotted == \A i \in Active : clients[i].socket_fd \in Fds /\ clients[i].addr \in Peers

\* Accepted, and in no slot yet.
InHand ==
    at = "add" =>
        /\ new_socket \in Fds /\ fds[new_socket] = client_addr
        /\ \A i \in Active : clients[i].socket_fd # new_socket

\* Nobody has heard of it.
Unannounced ==
    at \in {"add", "announce"} =>
        /\ client_addr \in Peers /\ client_addr \in came
        /\ ~IsQueued(client_addr) /\ told[client_addr] = "nothing"

\* A peer comes once: it is behind one descriptor, or once in the queue.
ComesOnce ==
    /\ \A fd, gd \in Fds : fds[fd] \in Peers /\ fds[fd] = fds[gd] => fd = gd
    /\ \A fd \in Fds : fds[fd] \in Peers => fds[fd] \in came /\ ~IsQueued(fds[fd])
    /\ \A i, j \in 1 .. Len(queue) : queue[i] = queue[j] => i = j
    /\ \A p \in Peers : IsQueued(p) => p \in came /\ told[p] = "nothing"
    /\ \A p \in Peers : p \notin came => told[p] = "nothing"

\* What select has reported.
Acceptable == at = "accept" /\ program = "up" /\ Listening \in readfds => queue # <<>>

\* With no other thread, what select has reported stays true until the loop
\* over the clients has come to it.
Current ==
    ~Shared /\ program = "up" =>
        /\ at \in {"accept", "add", "announce", "handle"} =>
              \A fd \in readfds : fds[fd] = Listener \/ fds[fd] \in unread \cup hungup
        /\ at = "add" => new_socket \notin readfds
        /\ at = "receive" =>
              \A i \in Active : i >= slot /\ clients[i].socket_fd \in readfds =>
                  clients[i].addr \in unread \cup hungup

IInv ==
    /\ TypeOK
    /\ Held /\ Lifecycle /\ Endings
    /\ Slotted /\ InHand /\ SocketsAccounted
    /\ ComesOnce /\ Unannounced /\ SlotsAreAnnounced
    /\ Acceptable /\ Current
    /\ DisconnectsOnlyTheGone /\ NoUseAfterCleanup

-----------------------------------------------------------------------------
LEMMA Places3 == Listening \in Fds /\ Closed # Listener /\ Closed \notin Peers /\ Listener \notin Peers
  BY PeersAssumption, SizesAssumption DEF Listening, Fds, Closed, Listener

LEMMA Initially == Init => IInv
<1> SUFFICES ASSUME Init PROVE IInv
  OBVIOUS
<1>1. queue \in Seq(Peers) /\ Len(queue) = 0
  BY DEF Init
<1>2. Active = {}
  BY DEF Init, Active, Inactive
<1>3. TypeOK
  <2>1. Inactive \in Client
    BY DEF Inactive, Client
  <2>2. clients \in [Slots -> Client] /\ fds \in [Fds -> Peers \cup {Closed, Listener}]
    BY <2>1 DEF Init
  <2>3. slot \in 0 .. NetMaxClients + 1
    BY SizesAssumption DEF Init
  <2>4. at \in Places
    BY DEF Init, Places
  <2>5. told \in [Peers -> {"nothing", "connected", "disconnected"}]
    BY DEF Init
  <2>6. QED
    BY <1>1, <2>2, <2>3, <2>4, <2>5 DEF Init, TypeOK, Lives, Cleanups
<1>4. Held /\ Lifecycle /\ Endings
  BY <1>2 DEF Init, Held, Sections, Lifecycle, Endings
<1>5. Slotted /\ InHand /\ SocketsAccounted
  BY <1>2, Places3 DEF Init, Slotted, InHand, SocketsAccounted
<1>6. ComesOnce /\ Unannounced /\ SlotsAreAnnounced
  BY <1>1, <1>2, Places3 DEF Init, ComesOnce, Unannounced, SlotsAreAnnounced, IsQueued
<1>7. Acceptable /\ Current /\ DisconnectsOnlyTheGone /\ NoUseAfterCleanup
  BY DEF Init, Acceptable, Current, DisconnectsOnlyTheGone, NoUseAfterCleanup
<1>8. QED
  BY <1>3, <1>4, <1>5, <1>6, <1>7 DEF IInv

\* Whatever runs is not being ended.
LEMMA RunsOn ==
    ASSUME IInv, Runs, UNCHANGED <<host, cleanup, signals>>,
           program' \in {program, "up"}, at # "off", at' \notin {"stop", "quit", "undefined"}
    PROVE  Endings' /\ NoUseAfterCleanup'
<1>1. cleanup = "none" /\ signals = {} /\ (~Shared => program \in {"none", "up"})
  BY DEF IInv, TypeOK, Lives, Endings, Runs
<1>2. Endings'
  BY <1>1 DEF IInv, Endings, Shared
<1>3. NoUseAfterCleanup'
  BY <1>1 DEF NoUseAfterCleanup
<1>4. QED
  BY <1>2, <1>3

-----------------------------------------------------------------------------
(***************************************************************************)
(* The steps of net_run that neither open nor close anything and tell      *)
(* nobody.                                                                 *)
(***************************************************************************)
Quiet ==
    \/ NetRun \/ UseAfterCleanup \/ LockForSetup \/ Setup \/ Select
    \/ NothingToAccept \/ LockForClients \/ SkipClient \/ EndOfClients

LEMMA QuietFrame ==
    ASSUME Quiet
    PROVE  /\ UNCHANGED <<program, clients, fds, queue, came, unread, hungup, told>>
           /\ UNCHANGED <<new_socket, client_addr, cleanup, signals>>
           /\ Runs
           /\ at \notin {"start", "announce", "removing"}
           /\ at' \notin {"start", "add", "announce", "removing", "off"}
           /\ at = "add" => at' = "undefined"
  BY DEF Quiet, NetRun, UseAfterCleanup, LockForSetup, Lock, Setup, Select, NothingToAccept,
        LockForClients, SkipClient, NextClient, EndOfClients, kernel, Runs

LEMMA QuietStep == ASSUME IInv, UNCHANGED host, Quiet PROVE IInv'
<1> USE QuietFrame
<1>1. TypeOK'
  <2>1. readfds' \subseteq Fds
    BY Places3 DEF IInv, TypeOK, Slotted, Quiet, NetRun, UseAfterCleanup, LockForSetup, Lock, Setup,
          Select, NothingToAccept, LockForClients, SkipClient, NextClient, EndOfClients
  <2>2. slot' \in 0 .. NetMaxClients + 1
    BY SizesAssumption DEF IInv, TypeOK, Slots, Quiet, NetRun, UseAfterCleanup, LockForSetup, Lock,
          Setup, Select, NothingToAccept, LockForClients, SkipClient, NextClient, EndOfClients
  <2>3. at' \in Places /\ holding' \in BOOLEAN
    BY DEF IInv, TypeOK, Places, Quiet, NetRun, UseAfterCleanup, LockForSetup, Lock, Setup, Select,
          NothingToAccept, LockForClients, SkipClient, NextClient, EndOfClients
  <2>4. QED
    BY <2>1, <2>2, <2>3 DEF IInv, TypeOK
<1>2. Held'
  BY DEF IInv, Held, Sections, Endings, Shared, Runs, Quiet, NetRun, UseAfterCleanup, LockForSetup, Lock, Setup, Select,
        NothingToAccept, LockForClients, SkipClient, NextClient, EndOfClients, TypeOK
<1>3. Lifecycle' /\ Endings'
  BY DEF IInv, Held, Sections, Lifecycle, Endings, Interrupted, Active, Shared, Runs, Quiet, NetRun,
        UseAfterCleanup, LockForSetup, Lock, Setup, Select, NothingToAccept, LockForClients, SkipClient,
        NextClient, EndOfClients
<1>4. Slotted' /\ InHand'
  BY DEF IInv, Slotted, InHand, Active
<1>5. SocketsAccounted'
  <2>1. at \in {"add", "undefined"} => at' = "undefined"
    BY DEF Runs
  <2>2. \A fd \in Fds : fds'[fd] \in Peers =>
           \/ \E i \in Active' : clients'[i].socket_fd = fd
           \/ at' \in {"add", "undefined"} /\ new_socket' = fd
    BY <2>1 DEF IInv, SocketsAccounted, Active
  <2>3. /\ \A i \in Active' : fds'[clients'[i].socket_fd] = clients'[i].addr
        /\ \A i, j \in Active' : clients'[i].socket_fd = clients'[j].socket_fd => i = j
        /\ \A fd \in Fds : fds'[fd] = Listener <=> program' = "up" /\ fd = Listening
    BY DEF IInv, SocketsAccounted, Active
  <2>4. QED
    BY <2>2, <2>3 DEF SocketsAccounted
<1>6. ComesOnce' /\ Unannounced'
  BY DEF IInv, ComesOnce, Unannounced, IsQueued
<1>7. SlotsAreAnnounced'
  BY DEF IInv, SlotsAreAnnounced, Active, Runs
<1>8. Acceptable'
  <2>1. CASE at' # "accept"
    BY <2>1 DEF Acceptable
  <2>2. CASE at' = "accept"
    <3>1. readfds' = {fd \in readfds : Readable(fd)} /\ program = "up"
      BY <2>2 DEF Quiet, NetRun, UseAfterCleanup, LockForSetup, Lock, Setup, Select, NothingToAccept,
            LockForClients, SkipClient, NextClient, EndOfClients, IInv, Runs
    <3>2. fds[Listening] = Listener /\ unread \subseteq Peers /\ hungup \subseteq Peers
      BY <3>1, Places3 DEF IInv, TypeOK, SocketsAccounted
    <3>3. Listening \in readfds' => queue # <<>>
      BY <3>1, <3>2, Places3 DEF Readable
    <3>4. QED
      BY <3>3 DEF Acceptable
  <2>3. QED
    BY <2>1, <2>2
<1>9. Current'
  <2>1. ASSUME ~Shared, program = "up"
        PROVE  at' = "undefined" => FALSE
    BY <2>1 DEF IInv, Lifecycle, Quiet, NetRun, UseAfterCleanup, LockForSetup, Lock, Setup, Select,
          NothingToAccept, LockForClients, SkipClient, NextClient, EndOfClients
  <2>2. CASE Select
    BY <2>2 DEF Select, Readable, Current, Shared
  <2>3. CASE NothingToAccept
    BY <2>3 DEF NothingToAccept, IInv, Current, Shared
  <2>4. CASE LockForClients
    <3>1. at = "handle" /\ at' = "receive" /\ readfds' = readfds /\ program = "up"
      BY <2>4 DEF LockForClients, Lock
    <3>2. \A i \in Active : /\ fds[clients[i].socket_fd] = clients[i].addr
                            /\ clients[i].addr # Listener
      BY Places3 DEF IInv, SocketsAccounted, Slotted
    <3>3. QED
      BY <3>1, <3>2 DEF IInv, Current, Shared, Active
  <2>5. CASE SkipClient
    BY <2>5, SizesAssumption DEF SkipClient, NextClient, FdIsSet, IInv, TypeOK, Slots, Current, Shared, Active
  <2>6. CASE NetRun \/ UseAfterCleanup \/ LockForSetup \/ Setup \/ EndOfClients
    BY <2>6 DEF NetRun, UseAfterCleanup, LockForSetup, Lock, Setup, EndOfClients, Current
  <2>7. QED
    BY <2>2, <2>3, <2>4, <2>5, <2>6 DEF Quiet
<1>10. DisconnectsOnlyTheGone'
  BY DEF DisconnectsOnlyTheGone
<1>11. NoUseAfterCleanup'
  <2>1. CASE ~UseAfterCleanup
    <3>1. at # "off" /\ at' # "undefined"
      BY <2>1 DEF Quiet, NetRun, LockForSetup, Lock, Setup, Select, NothingToAccept, LockForClients,
            SkipClient, NextClient, EndOfClients, Runs
    <3>2. at' \notin {"stop", "quit"}
      BY DEF Quiet, NetRun, UseAfterCleanup, LockForSetup, Lock, Setup, Select, NothingToAccept,
            LockForClients, SkipClient, NextClient, EndOfClients
    <3>3. QED
      BY <3>1, <3>2, RunsOn
  <2>2. CASE UseAfterCleanup
    <3>1. Shared
      BY <2>2 DEF UseAfterCleanup, Runs, IInv, Endings, TypeOK, Lives
    <3>2. QED
      BY <3>1 DEF NoUseAfterCleanup, Shared
  <2>3. QED
    BY <2>1, <2>2
<1>12. QED
  BY <1>1, <1>2, <1>3, <1>4, <1>5, <1>6, <1>7, <1>8, <1>9, <1>10, <1>11 DEF IInv
-----------------------------------------------------------------------------
\* What is behind the descriptors the program keeps.
LEMMA Behind ==
    ASSUME IInv
    PROVE  /\ \A i \in Active : /\ clients[i].socket_fd \in Fds
                                /\ fds[clients[i].socket_fd] = clients[i].addr
                                /\ clients[i].addr \in Peers
           /\ program = "up" => fds[Listening] = Listener
           /\ at = "add" => /\ new_socket \in Fds /\ fds[new_socket] = client_addr
                            /\ client_addr \in Peers
                            /\ \A i \in Active : clients[i].socket_fd # new_socket
  BY Places3 DEF IInv, Slotted, SocketsAccounted, InHand, Unannounced

\* net_init_program.
LEMMA InitProgramStep == ASSUME IInv, UNCHANGED host, InitProgram PROVE IInv'
<1>1. at = "start" /\ program = "none" /\ Active = {} /\ queue = <<>> /\ holding = FALSE
  BY DEF IInv, InitProgram, Lifecycle, Held, TypeOK
<1>2. \A fd \in Fds : fds[fd] = Closed
  BY <1>1 DEF IInv, Lifecycle
<1>3. Active' = {} /\ Len(queue) = 0
  BY <1>1 DEF InitProgram, Active
<1>4. at' \in {"idle", "off"}
  BY DEF InitProgram
<1>5. \A fd \in Fds : fds'[fd] = IF at' = "idle" /\ fd = Listening THEN Listener ELSE Closed
  BY <1>2 DEF InitProgram, Opened, IInv, TypeOK
<1>6. program' = IF at' = "idle" THEN "up" ELSE "none"
  BY <1>1 DEF InitProgram
<1>7. TypeOK'
  <2>1. fds' \in [Fds -> Peers \cup {Closed, Listener}]
    BY DEF InitProgram, Opened, IInv, TypeOK
  <2>2. QED
    BY <2>1, <1>4, <1>6 DEF InitProgram, IInv, TypeOK, Places, Lives
<1>8. Held' /\ Lifecycle'
  BY <1>1, <1>3, <1>4, <1>5, <1>6 DEF InitProgram, Held, Sections, Lifecycle
<1>9. Slotted' /\ InHand' /\ SocketsAccounted'
  BY <1>3, <1>4, <1>5, <1>6, Places3 DEF Slotted, InHand, SocketsAccounted
<1>10. ComesOnce'
  <2>1. \A fd \in Fds : fds'[fd] \notin Peers
    BY <1>5, Places3
  <2>2. QED
    BY <2>1, <1>3 DEF InitProgram, IInv, ComesOnce, IsQueued
<1>11. Unannounced' /\ SlotsAreAnnounced'
  BY <1>3, <1>4 DEF Unannounced, SlotsAreAnnounced
<1>12. Acceptable' /\ Current' /\ DisconnectsOnlyTheGone'
  BY <1>4 DEF Acceptable, Current, DisconnectsOnlyTheGone
<1>13. Endings' /\ NoUseAfterCleanup'
  BY <1>1, <1>4, <1>6, RunsOn DEF InitProgram
<1>14. QED
  BY <1>13, <1>7, <1>8, <1>9, <1>10, <1>11, <1>12 DEF IInv

\* accept takes the first peer of the queue, which then is in it no more.
LEMMA Dequeued ==
    ASSUME IInv, queue # <<>>, queue' = Tail(queue)
    PROVE  /\ Head(queue) \in Peers /\ IsQueued(Head(queue))
           /\ queue' \in Seq(Peers)
           /\ \A p \in Peers : IsQueued(p)' => IsQueued(p) /\ p # Head(queue)
           /\ \A i, j \in 1 .. Len(queue') : queue'[i] = queue'[j] => i = j
<1>1. queue \in Seq(Peers) /\ Len(queue) \in Nat \ {0}
  <2>1. queue \in Seq(Peers)
    BY DEF IInv, TypeOK
  <2>2. QED
    BY <2>1, EmptySeq
<1>2. /\ Head(queue) \in Peers /\ queue' \in Seq(Peers)
      /\ Len(queue') = Len(queue) - 1
      /\ \A i \in 1 .. Len(queue') : queue'[i] = queue[i + 1]
  BY <1>1, HeadTailProperties
<1>3. Head(queue) = queue[1]
  BY <1>1
<1>4. \A i, j \in 1 .. Len(queue) : queue[i] = queue[j] => i = j
  BY DEF IInv, ComesOnce
<1>5. \A i \in 1 .. Len(queue') : i + 1 \in 1 .. Len(queue) /\ i + 1 # 1
  BY <1>1, <1>2
<1>6. IsQueued(Head(queue))
  BY <1>1, <1>3 DEF IsQueued
<1>7. \A i \in 1 .. Len(queue') : queue'[i] # Head(queue)
  BY <1>1, <1>2, <1>3, <1>4, <1>5
<1>8. \A p \in Peers : IsQueued(p)' => IsQueued(p) /\ p # Head(queue)
  BY <1>2, <1>5, <1>7 DEF IsQueued
<1>9. \A i, j \in 1 .. Len(queue') : queue'[i] = queue'[j] => i = j
  <2> SUFFICES ASSUME NEW i \in 1 .. Len(queue'), NEW j \in 1 .. Len(queue'), queue'[i] = queue'[j]
               PROVE  i = j
    OBVIOUS
  <2>1. i + 1 = j + 1
    BY <1>2, <1>4, <1>5
  <2>2. QED
    BY <2>1, <1>1, <1>2
<1>10. QED
  BY <1>2, <1>6, <1>8, <1>9
\* accept: the connection is in nobody's hands but net_run's.
LEMMA AcceptStep == ASSUME IInv, UNCHANGED host, Accept PROVE IInv'
<1>1. at = "accept" /\ at' = "add" /\ program = "up" /\ Runs /\ client_addr' = Head(queue)
  BY DEF Accept
<1>2. queue # <<>> /\ queue' = Tail(queue)
  BY DEF Accept, IInv, Acceptable
<1>3. PICK fd \in Fds : fds[fd] = Closed /\ new_socket' = fd /\ fds' = Opened(fd, Head(queue))
  BY DEF Accept, LowestFree
<1> DEFINE p == Head(queue)
<1>4. /\ p \in Peers /\ p \in came /\ told[p] = "nothing" /\ IsQueued(p)
      /\ \A gd \in Fds : fds[gd] # p
  BY <1>2, Dequeued DEF IInv, ComesOnce
<1>5. \A gd \in Fds : fds'[gd] = IF gd = fd THEN p ELSE fds[gd]
  BY <1>3 DEF Opened, IInv, TypeOK
<1>6. Active' = Active /\ \A i \in Active : clients'[i] = clients[i] /\ clients[i].socket_fd # fd
  BY <1>3, Behind, Places3 DEF Accept, Active
<1>7. TypeOK'
  <2>1. fds' \in [Fds -> Peers \cup {Closed, Listener}]
    BY <1>3, <1>4 DEF Opened, IInv, TypeOK
  <2>2. QED
    BY <2>1, <1>1, <1>2, <1>3, <1>4, Dequeued DEF Accept, IInv, TypeOK, Places
<1>8. Held' /\ Lifecycle' /\ Endings'
  BY <1>1, <1>6 DEF Accept, IInv, Held, Sections, Lifecycle, Endings, Interrupted, Runs, Shared
<1>9. Slotted' /\ InHand'
  BY <1>1, <1>3, <1>5, <1>6 DEF IInv, Slotted, InHand
<1>10. SocketsAccounted'
  <2>1. \A i \in Active' : fds'[clients'[i].socket_fd] = clients'[i].addr
    BY <1>5, <1>6, Behind
  <2>2. \A i, j \in Active' : clients'[i].socket_fd = clients'[j].socket_fd => i = j
    BY <1>6 DEF IInv, SocketsAccounted
  <2>3. \A gd \in Fds : fds'[gd] \in Peers =>
           \/ \E i \in Active' : clients'[i].socket_fd = gd
           \/ at' \in {"add", "undefined"} /\ new_socket' = gd
    BY <1>1, <1>3, <1>5, <1>6 DEF IInv, SocketsAccounted
  <2>4. \A gd \in Fds : fds'[gd] = Listener <=> program' = "up" /\ gd = Listening
    BY <1>3, <1>4, <1>5, Places3 DEF Accept, IInv, SocketsAccounted
  <2>5. QED
    BY <2>1, <2>2, <2>3, <2>4 DEF SocketsAccounted
<1>11. ComesOnce'
  <2>1. \A gd, hd \in Fds : fds'[gd] \in Peers /\ fds'[gd] = fds'[hd] => gd = hd
    BY <1>4, <1>5 DEF IInv, ComesOnce
  <2>2. \A gd \in Fds : fds'[gd] \in Peers => fds'[gd] \in came
    BY <1>4, <1>5 DEF IInv, ComesOnce
  <2>3. \A gd \in Fds, q \in Peers : fds'[gd] = q => ~IsQueued(q)'
    BY <1>2, <1>5, Dequeued DEF IInv, ComesOnce
  <2>4. \A gd \in Fds : fds'[gd] \in Peers => ~(\E i \in 1 .. Len(queue') : queue'[i] = fds'[gd])
    BY <2>3 DEF IsQueued
  <2>5. QED
    BY <2>1, <2>2, <2>4, <1>2, Dequeued DEF Accept, IInv, ComesOnce, IsQueued
<1>12. Unannounced'
  <2>1. ~(\E i \in 1 .. Len(queue') : queue'[i] = client_addr')
    BY <1>1, <1>2, <1>4, Dequeued DEF IsQueued
  <2>2. QED
    BY <2>1, <1>1, <1>4 DEF Accept, Unannounced, IsQueued
<1>13. SlotsAreAnnounced'
  BY <1>1, <1>6 DEF Accept, IInv, SlotsAreAnnounced
<1>14. Current'
  <2>1. ASSUME ~Shared
        PROVE  fd \notin readfds /\ \A gd \in readfds : fds[gd] = Listener \/ fds[gd] \in unread \cup hungup
    BY <2>1, <1>1, <1>3, Places3 DEF IInv, TypeOK, Current
  <2>2. QED
    BY <2>1, <1>1, <1>3, <1>5 DEF Accept, IInv, TypeOK, Current, Shared
<1>15. Acceptable' /\ DisconnectsOnlyTheGone' /\ NoUseAfterCleanup'
  BY <1>1, RunsOn DEF Accept, Acceptable, DisconnectsOnlyTheGone
<1>16. QED
  BY <1>7, <1>8, <1>9, <1>10, <1>11, <1>12, <1>13, <1>14, <1>15 DEF IInv

\* The connection in hand is closed: fcntl has failed, or the table is full.
Refused ==
    /\ Runs /\ at = "add" /\ program = "up"
    /\ fds' = Closing({new_socket})
    /\ new_socket' = 0 /\ client_addr' = NoPeer
    /\ \/ at' = "idle" /\ readfds' = {}
       \/ at' = "handle" /\ UNCHANGED readfds
    /\ UNCHANGED <<program, clients, holding, slot, cleanup, signals, queue, came, unread, hungup, told>>

\* What keeps ComesOnce: no peer comes, sockets of peers are only closed, and who
\* is told something has left the queue.
LEMMA ComesOnceKept ==
    ASSUME ComesOnce, UNCHANGED <<queue, came>>,
           \A fd \in Fds : fds'[fd] \in Peers => fds'[fd] = fds[fd],
           \A p \in Peers : told'[p] = told[p] \/ (p \in came /\ ~IsQueued(p))
    PROVE  ComesOnce'
<1>1. \A p : IsQueued(p)' <=> IsQueued(p)
  BY DEF IsQueued
<1>2. \A fd, gd \in Fds : fds'[fd] \in Peers /\ fds'[fd] = fds'[gd] => fd = gd
  <2> SUFFICES ASSUME NEW fd \in Fds, NEW gd \in Fds, fds'[fd] \in Peers, fds'[fd] = fds'[gd]
               PROVE  fd = gd
    OBVIOUS
  <2>1. fds[fd] = fds'[fd] /\ fds[gd] = fds'[gd]
    OBVIOUS
  <2>2. QED
    BY <2>1 DEF ComesOnce
<1>3. \A fd \in Fds : fds'[fd] \in Peers => fds'[fd] \in came /\ ~IsQueued(fds'[fd])
  <2> SUFFICES ASSUME NEW fd \in Fds, fds'[fd] \in Peers
               PROVE  fds'[fd] \in came /\ ~IsQueued(fds'[fd])
    OBVIOUS
  <2>1. fds[fd] = fds'[fd]
    OBVIOUS
  <2>2. QED
    BY <2>1 DEF ComesOnce
<1>4. \A i, j \in 1 .. Len(queue) : queue[i] = queue[j] => i = j
  BY DEF ComesOnce
<1>5. \A p \in Peers : IsQueued(p) => p \in came /\ told'[p] = "nothing"
  BY DEF ComesOnce
<1>6. \A p \in Peers : p \notin came => told'[p] = "nothing"
  BY DEF ComesOnce
<1>7. QED
  <2>1. \A fd \in Fds : fds'[fd] \in Peers => fds'[fd] \in came' /\ ~(IsQueued(fds[fd])')
    BY <1>1, <1>3
  <2>2. \A p \in Peers : IsQueued(p)' => p \in came' /\ told'[p] = "nothing"
    BY <1>1, <1>5
  <2>3. QED
    BY <1>2, <1>4, <1>6, <2>1, <2>2 DEF ComesOnce

LEMMA RefusedStep == ASSUME IInv, UNCHANGED host, Refused PROVE IInv'
<1>1. at = "add" /\ at' \in {"idle", "handle"} /\ program = "up" /\ Runs
  BY DEF Refused
<1>2. \A fd \in Fds : fds'[fd] = IF fd = new_socket THEN Closed ELSE fds[fd]
  BY DEF Refused, Closing
<1>3. /\ Active' = Active
      /\ \A i \in Active : clients'[i] = clients[i] /\ fds'[clients[i].socket_fd] = clients[i].addr
  BY <1>1, <1>2, Behind DEF Refused, Active
<1>4. \A fd \in Fds : fds'[fd] \in Peers => fds'[fd] = fds[fd] /\ fd # new_socket
  BY <1>2, Places3
<1>5. TypeOK'
  <2>1. fds' \in [Fds -> Peers \cup {Closed, Listener}]
    BY DEF Refused, Closing, IInv, TypeOK
  <2>2. QED
    BY <2>1, <1>1, Places3 DEF Refused, IInv, TypeOK, Places
<1>6. Held' /\ Lifecycle' /\ Endings' /\ NoUseAfterCleanup'
  <2>1. Held' /\ Lifecycle'
    BY <1>1, <1>3 DEF Refused, IInv, Held, Sections, Lifecycle
  <2>2. QED
    BY <1>1, <2>1, RunsOn DEF Refused
<1>7. Slotted' /\ InHand'
  BY <1>1, <1>3 DEF IInv, Slotted, InHand
<1>8. SocketsAccounted'
  <2>1. \A i, j \in Active' : clients'[i].socket_fd = clients'[j].socket_fd => i = j
    BY <1>3 DEF IInv, SocketsAccounted
  <2>2. \A fd \in Fds : fds'[fd] \in Peers => \E i \in Active' : clients'[i].socket_fd = fd
    BY <1>1, <1>3, <1>4 DEF IInv, SocketsAccounted
  <2>3. new_socket # Listening
    BY <1>1, Behind, Places3
  <2>4. \A fd \in Fds : fds'[fd] = Listener <=> program' = "up" /\ fd = Listening
    BY <1>2, <2>3, Places3 DEF Refused, IInv, SocketsAccounted
  <2>5. QED
    BY <2>1, <2>2, <2>4, <1>3 DEF SocketsAccounted
<1>9. ComesOnce'
  <2>1. UNCHANGED <<queue, came, told>>
    BY DEF Refused
  <2>2. QED
    BY <2>1, <1>4, ComesOnceKept DEF IInv
<1>10. SlotsAreAnnounced'
  BY <1>1, <1>3 DEF Refused, IInv, SlotsAreAnnounced
<1>11. Current'
  <2>1. CASE at' = "idle"
    BY <2>1 DEF Current
  <2>2. CASE at' = "handle"
    <3>1. readfds' = readfds
      BY <2>2 DEF Refused
    <3>2. QED
      BY <2>2, <3>1, <1>1, <1>2 DEF Refused, IInv, TypeOK, Current, Shared
  <2>3. QED
    BY <2>1, <2>2, <1>1
<1>12. Unannounced' /\ Acceptable' /\ DisconnectsOnlyTheGone'
  BY <1>1 DEF Unannounced, Acceptable, DisconnectsOnlyTheGone
<1>13. QED
  BY <1>5, <1>6, <1>7, <1>8, <1>9, <1>10, <1>11, <1>12 DEF IInv

LEMMA DropAcceptedStep == ASSUME IInv, UNCHANGED host, DropAccepted PROVE IInv'
<1>1. Refused
  BY DEF DropAccepted, Refused
<1>2. QED
  BY <1>1, RefusedStep
\* net_add_client: the first slot that is free has the connection, or it is refused.
LEMMA AddClientStep == ASSUME IInv, UNCHANGED host, AddClient PROVE IInv'
<1>1. CASE Refused
  BY <1>1, RefusedStep
<1>2. CASE /\ \E i \in FirstInactive :
                 clients' = [clients EXCEPT ![i] =
                   [is_active |-> TRUE, socket_fd |-> new_socket, addr |-> client_addr]]
           /\ at' = "announce"
           /\ UNCHANGED <<fds, new_socket, client_addr, readfds>>
  <2>1. /\ at = "add" /\ program = "up" /\ Runs
        /\ UNCHANGED <<program, holding, slot, cleanup, signals, queue, came, unread, hungup, told>>
    BY DEF AddClient
  <2>2. PICK k \in Slots \ Active :
           clients' = [clients EXCEPT ![k] =
             [is_active |-> TRUE, socket_fd |-> new_socket, addr |-> client_addr]]
    BY <1>2 DEF FirstInactive
  <2>3. \A i \in Slots : clients'[i] =
           IF i = k THEN [is_active |-> TRUE, socket_fd |-> new_socket, addr |-> client_addr]
                    ELSE clients[i]
    BY <2>2 DEF IInv, TypeOK
  <2>4. Active' = Active \cup {k} /\ Active \subseteq Slots
    BY <2>2, <2>3 DEF Active
  <2>5. TypeOK'
    <3>1. [is_active |-> TRUE, socket_fd |-> new_socket, addr |-> client_addr] \in Client
      BY DEF Client, IInv, TypeOK
    <3>2. clients' \in [Slots -> Client]
      BY <2>2, <3>1 DEF IInv, TypeOK
    <3>3. QED
      BY <1>2, <2>1, <3>2 DEF IInv, TypeOK, Places
  <2>6. Held' /\ Lifecycle' /\ Endings' /\ NoUseAfterCleanup'
    <3>1. Held' /\ Lifecycle'
      BY <1>2, <2>1 DEF IInv, Held, Sections, Lifecycle
    <3>2. QED
      BY <1>2, <2>1, <3>1, RunsOn
  <2>7. Slotted'
    BY <2>1, <2>3, <2>4, Behind DEF Slotted
  <2>8. SocketsAccounted'
    <3>1. \A i \in Active' : fds'[clients'[i].socket_fd] = clients'[i].addr
      BY <1>2, <2>1, <2>3, <2>4, Behind
    <3>2. \A i, j \in Active' : clients'[i].socket_fd = clients'[j].socket_fd => i = j
      BY <2>1, <2>3, <2>4, Behind DEF IInv, SocketsAccounted
    <3>3. \A fd \in Fds : fds'[fd] \in Peers => \E i \in Active' : clients'[i].socket_fd = fd
      <4> SUFFICES ASSUME NEW fd \in Fds, fds[fd] \in Peers
                   PROVE  \E i \in Active' : clients'[i].socket_fd = fd
        BY <1>2
      <4>1. CASE new_socket = fd
        BY <4>1, <2>3, <2>4
      <4>2. CASE new_socket # fd
        <5>1. PICK i \in Active : clients[i].socket_fd = fd
          BY <4>2 DEF IInv, SocketsAccounted
        <5>2. QED
          BY <5>1, <2>2, <2>3, <2>4
      <4>3. QED
        BY <4>1, <4>2
    <3>4. \A fd \in Fds : fds'[fd] = Listener <=> program' = "up" /\ fd = Listening
      BY <1>2, <2>1 DEF IInv, SocketsAccounted
    <3>5. QED
      BY <3>1, <3>2, <3>3, <3>4 DEF SocketsAccounted
  <2>9. ComesOnce' /\ Unannounced' /\ InHand'
    BY <1>2, <2>1 DEF IInv, ComesOnce, Unannounced, InHand, IsQueued
  <2>10. SlotsAreAnnounced'
    BY <1>2, <2>1, <2>3, <2>4 DEF IInv, SlotsAreAnnounced
  <2>11. Acceptable' /\ Current' /\ DisconnectsOnlyTheGone'
    BY <1>2, <2>1 DEF IInv, Acceptable, Current, DisconnectsOnlyTheGone, Shared
  <2>12. QED
    BY <2>5, <2>6, <2>7, <2>8, <2>9, <2>10, <2>11 DEF IInv
<1>3. QED
  BY <1>1, <1>2 DEF AddClient, Refused

\* on_connect: the handlers hear of a peer for the first time.
LEMMA AnnounceStep == ASSUME IInv, UNCHANGED host, Announce PROVE IInv'
<1>1. /\ at = "announce" /\ at' = "handle" /\ Runs
      /\ UNCHANGED <<program, clients, holding, readfds, slot, cleanup, signals, fds, queue, came, unread, hungup>>
  BY DEF Announce, kernel
<1>2. client_addr \in Peers /\ client_addr \in came /\ ~IsQueued(client_addr)
  BY <1>1 DEF IInv, Unannounced
<1>3. \A p \in Peers : told'[p] = IF p = client_addr THEN "connected" ELSE told[p]
  BY DEF Announce, IInv, TypeOK
<1>4. Active' = Active
  BY <1>1 DEF Active
<1>5. TypeOK'
  <2>1. told' \in [Peers -> {"nothing", "connected", "disconnected"}]
    BY DEF Announce, IInv, TypeOK
  <2>2. QED
    BY <1>1, <2>1 DEF Announce, IInv, TypeOK, Places
<1>6. Held' /\ Lifecycle' /\ Endings' /\ Slotted' /\ InHand' /\ Unannounced'
  BY <1>1, <1>4 DEF IInv, Held, Sections, Lifecycle, Endings, Interrupted, Slotted, InHand, Unannounced, Shared
<1>7. SocketsAccounted'
  BY <1>1, <1>4 DEF IInv, SocketsAccounted
<1>8. ComesOnce'
  BY <1>1, <1>2, <1>3 DEF IInv, ComesOnce, IsQueued
<1>9. SlotsAreAnnounced'
  BY <1>1, <1>3, <1>4, Behind DEF IInv, SlotsAreAnnounced
<1>10. Acceptable' /\ Current' /\ DisconnectsOnlyTheGone' /\ NoUseAfterCleanup'
  BY <1>1 DEF IInv, Acceptable, Current, DisconnectsOnlyTheGone, NoUseAfterCleanup, Interrupted, Shared
<1>11. QED
  BY <1>5, <1>6, <1>7, <1>8, <1>9, <1>10 DEF IInv
-----------------------------------------------------------------------------
\* The loop over the clients has come to one with something to report.
LEMMA AtSlot ==
    ASSUME IInv, at = "receive", slot \in Slots, FdIsSet(slot)
    PROVE  /\ slot \in Active /\ program = "up" /\ holding = TRUE
           /\ clients[slot].addr \in Peers /\ fds[clients[slot].socket_fd] = clients[slot].addr
           /\ \A i \in Active : clients[i].addr = clients[slot].addr => i = slot
           /\ clients[slot].addr \in came /\ ~IsQueued(clients[slot].addr)
           /\ ~Shared => clients[slot].addr \in unread \cup hungup
<1>1. slot \in Active
  BY DEF Active, FdIsSet
<1>2. program = "up" /\ holding = TRUE
  BY <1>1 DEF IInv, Lifecycle, Held, Sections, TypeOK
<1>3. clients[slot].addr \in Peers /\ fds[clients[slot].socket_fd] = clients[slot].addr
  BY <1>1, Behind
<1>4. \A i \in Active : clients[i].addr = clients[slot].addr => i = slot
  BY <1>1, Behind DEF IInv, SocketsAccounted, ComesOnce
<1>5. clients[slot].addr \in came /\ ~IsQueued(clients[slot].addr)
  BY <1>1, Behind DEF IInv, ComesOnce
<1>6. ~Shared => clients[slot].addr \in unread \cup hungup
  BY <1>1, <1>2 DEF IInv, Current, FdIsSet, Slots
<1>7. QED
  BY <1>1, <1>2, <1>3, <1>4, <1>5, <1>6

\* recv returned bytes.
LEMMA ReceiveDataStep == ASSUME IInv, UNCHANGED host, ReceiveData PROVE IInv'
<1>1. /\ at = "receive" /\ slot \in Slots /\ FdIsSet(slot) /\ Runs
      /\ unread' = unread \ {fds[clients[slot].socket_fd]}
      /\ slot' = slot + 1
      /\ UNCHANGED <<program, clients, at, holding, readfds, new_socket, client_addr, cleanup, signals>>
      /\ UNCHANGED <<fds, queue, came, hungup, told>>
  BY DEF ReceiveData, NextClient
<1>2. Active' = Active
  BY <1>1 DEF Active
<1>3. TypeOK'
  BY <1>1, SizesAssumption DEF IInv, TypeOK, Slots
<1>4. Held' /\ Lifecycle' /\ Endings' /\ Slotted' /\ InHand'
  BY <1>1, <1>2 DEF IInv, Held, Sections, Lifecycle, Endings, Interrupted, Slotted, InHand, Shared
<1>5. SocketsAccounted'
  BY <1>1, <1>2 DEF IInv, SocketsAccounted
<1>6. ComesOnce' /\ Unannounced'
  BY <1>1 DEF IInv, ComesOnce, Unannounced, IsQueued
<1>7. SlotsAreAnnounced'
  BY <1>1, <1>2 DEF IInv, SlotsAreAnnounced
<1>8. Current'
  <2> SUFFICES ASSUME ~Shared, NEW i \in Active, i >= slot + 1, clients[i].socket_fd \in readfds
               PROVE  clients[i].addr \in unread' \cup hungup
    BY <1>1, <1>2 DEF Current, Shared
  <2>1. i # slot /\ i >= slot
    BY <1>1 DEF Active, Slots
  <2>2. clients[i].addr # clients[slot].addr
    BY <2>1, <1>1, AtSlot
  <2>3. clients[i].addr \in unread \cup hungup
    BY <2>1, <1>1, AtSlot DEF IInv, Current
  <2>4. QED
    BY <2>2, <2>3, <1>1, AtSlot
<1>9. Acceptable' /\ DisconnectsOnlyTheGone' /\ NoUseAfterCleanup'
  BY <1>1 DEF IInv, Acceptable, DisconnectsOnlyTheGone, NoUseAfterCleanup, Interrupted, Shared
<1>10. QED
  BY <1>3, <1>4, <1>5, <1>6, <1>7, <1>8, <1>9 DEF IInv

\* recv returned 0 or -1: on_disconnect is told.
LEMMA DisconnectStep == ASSUME IInv, UNCHANGED host, Disconnect PROVE IInv'
<1>1. /\ at = "receive" /\ at' = "removing" /\ slot \in Slots /\ FdIsSet(slot) /\ Runs
      /\ fds[clients[slot].socket_fd] \notin unread
      /\ UNCHANGED <<program, clients, holding, readfds, new_socket, client_addr, slot, cleanup, signals>>
      /\ UNCHANGED <<fds, queue, came, unread, hungup>>
  BY DEF Disconnect, kernel
<1>2. Active' = Active
  BY <1>1 DEF Active
<1>3. \A p \in Peers : told'[p] = IF p = clients[slot].addr THEN "disconnected" ELSE told[p]
  BY DEF Disconnect, IInv, TypeOK
<1>4. TypeOK'
  <2>1. told' \in [Peers -> {"nothing", "connected", "disconnected"}]
    BY DEF Disconnect, IInv, TypeOK
  <2>2. QED
    BY <1>1, <2>1 DEF IInv, TypeOK, Places
<1>5. Held' /\ Lifecycle' /\ Endings' /\ Slotted' /\ InHand' /\ Unannounced'
  BY <1>1, <1>2 DEF IInv, Held, Sections, Lifecycle, Endings, Interrupted, Slotted, InHand, Unannounced, Shared
<1>6. SocketsAccounted'
  BY <1>1, <1>2 DEF IInv, SocketsAccounted
<1>7. ComesOnce'
  <2>1. clients[slot].addr \in came /\ ~IsQueued(clients[slot].addr)
    BY <1>1, AtSlot
  <2>2. \A p \in Peers : told'[p] = told[p] \/ (p \in came /\ ~IsQueued(p))
    BY <1>3, <2>1
  <2>3. QED
    BY <1>1, <2>2, ComesOnceKept DEF IInv
<1>8. SlotsAreAnnounced'
  <2> SUFFICES ASSUME NEW i \in Active, i # slot
               PROVE  told'[clients[i].addr] = "connected"
    BY <1>1, <1>2 DEF SlotsAreAnnounced
  <2>1. clients[i].addr # clients[slot].addr /\ clients[i].addr \in Peers
    BY <1>1, AtSlot, Behind
  <2>2. QED
    BY <2>1, <1>1, <1>3 DEF IInv, SlotsAreAnnounced
<1>9. DisconnectsOnlyTheGone'
  BY <1>1, AtSlot DEF DisconnectsOnlyTheGone, Shared
<1>10. Acceptable' /\ Current' /\ NoUseAfterCleanup'
  BY <1>1, RunsOn DEF Acceptable, Current
<1>11. QED
  BY <1>4, <1>5, <1>6, <1>7, <1>8, <1>9, <1>10 DEF IInv

(***************************************************************************)
(* net_remove_client.  The serving thread never gets into it: it holds the *)
(* lock that the call takes.  Another thread takes a client away while     *)
(* net_run is outside the lock.                                            *)
(***************************************************************************)
LEMMA RemoveClientStep ==
    ASSUME IInv, UNCHANGED host, NEW thread, NEW fd \in Fds, RemoveClient(thread, fd)
    PROVE  IInv'
<1>1. /\ Shared /\ Alive /\ program = "up" /\ ~holding
      /\ UNCHANGED <<program, at, holding, readfds, new_socket, client_addr, slot, cleanup, signals>>
      /\ UNCHANGED <<queue, came, unread, hungup, told>>
  BY DEF RemoveClient, LockFree, IInv, Held, Sections
<1>2. \A i \in Slots : clients'[i] =
         IF clients[i].is_active /\ clients[i].socket_fd = fd THEN Inactive ELSE clients[i]
  BY DEF RemoveClient
<1>3. /\ \A i \in Active' : i \in Active /\ clients'[i] = clients[i] /\ clients[i].socket_fd # fd
      /\ \A i \in Active : clients[i].socket_fd # fd => i \in Active' /\ clients'[i] = clients[i]
  BY <1>2 DEF Active, Inactive
<1>4. \A gd \in Fds : fds'[gd] = IF gd = fd THEN Closed ELSE fds[gd]
  BY DEF RemoveClient, Closing
<1>5. fds[fd] \in Peers /\ (at = "add" => new_socket # fd)
  <2>1. PICK i \in Active : clients[i].socket_fd = fd
    BY DEF RemoveClient
  <2>2. QED
    BY <2>1, Behind
<1>6. TypeOK'
  <2>1. clients' \in [Slots -> Client]
    <3>1. Inactive \in Client
      BY DEF Inactive, Client
    <3>2. QED
      BY <3>1 DEF RemoveClient, IInv, TypeOK
  <2>2. fds' \in [Fds -> Peers \cup {Closed, Listener}]
    BY DEF RemoveClient, Closing, IInv, TypeOK
  <2>3. QED
    BY <1>1, <2>1, <2>2 DEF IInv, TypeOK
<1>7. Held' /\ Lifecycle' /\ Endings'
  BY <1>1 DEF IInv, Held, Sections, Lifecycle, Endings, Interrupted, Shared
<1>8. Slotted' /\ InHand'
  BY <1>1, <1>3, <1>4, <1>5, Behind DEF Slotted, InHand
<1>9. SocketsAccounted'
  <2>1. \A i \in Active' : fds'[clients'[i].socket_fd] = clients'[i].addr
    BY <1>3, <1>4, Behind
  <2>2. \A i, j \in Active' : clients'[i].socket_fd = clients'[j].socket_fd => i = j
    BY <1>3 DEF IInv, SocketsAccounted
  <2>3. \A gd \in Fds : fds'[gd] \in Peers =>
           \/ \E i \in Active' : clients'[i].socket_fd = gd
           \/ at' \in {"add", "undefined"} /\ new_socket' = gd
    <3> SUFFICES ASSUME NEW gd \in Fds, fds'[gd] \in Peers
                 PROVE  \/ \E i \in Active' : clients'[i].socket_fd = gd
                        \/ at' \in {"add", "undefined"} /\ new_socket' = gd
      OBVIOUS
    <3>1. gd # fd /\ fds[gd] \in Peers
      BY <1>4, Places3
    <3>2. \/ \E i \in Active : clients[i].socket_fd = gd
          \/ at \in {"add", "undefined"} /\ new_socket = gd
      BY <3>1 DEF IInv, SocketsAccounted
    <3>3. QED
      BY <3>1, <3>2, <1>1, <1>3
  <2>4. \A gd \in Fds : fds'[gd] = Listener <=> program' = "up" /\ gd = Listening
    BY <1>1, <1>4, <1>5, Places3 DEF IInv, SocketsAccounted
  <2>5. QED
    BY <2>1, <2>2, <2>3, <2>4 DEF SocketsAccounted
<1>10. ComesOnce'
  BY <1>1, <1>4, Places3 DEF IInv, ComesOnce, IsQueued
<1>11. Unannounced' /\ SlotsAreAnnounced'
  BY <1>1, <1>3 DEF IInv, Unannounced, SlotsAreAnnounced, IsQueued
<1>12. Acceptable' /\ Current' /\ DisconnectsOnlyTheGone' /\ NoUseAfterCleanup'
  BY <1>1 DEF IInv, Acceptable, Current, DisconnectsOnlyTheGone, NoUseAfterCleanup, Interrupted, Shared
<1>13. QED
  BY <1>6, <1>7, <1>8, <1>9, <1>10, <1>11, <1>12 DEF IInv
(***************************************************************************)
(* net_cleanup_program, whoever calls it.  Nothing it closes is closed a   *)
(* second time, and nothing stays open but the connection in hand.         *)
(***************************************************************************)
LEMMA CleanupStep ==
    ASSUME IInv, UNCHANGED host, NEW to, CleanupProgram(to),
           \/ /\ Shared /\ to = "cleaned" /\ UNCHANGED <<holding, cleanup, signals>>
           \/ /\ cleanup = "entered" /\ to = "closing"
              /\ cleanup' = "inside" /\ holding' = TRUE /\ UNCHANGED signals
    PROVE  IInv'
<1>1. /\ program = "up" /\ program' = to /\ ~holding /\ queue' = <<>>
      /\ to \in {"closing", "cleaned"} /\ program' # "up"
      /\ UNCHANGED <<at, readfds, new_socket, client_addr, slot, came, unread, hungup, told>>
  BY DEF CleanupProgram, LockFree
<1>2. at \notin {"setup", "receive", "removing"} /\ at # "start"
  BY <1>1 DEF IInv, Held, Sections, Lifecycle, Endings, Interrupted
<1>3. Active' = {}
  BY DEF CleanupProgram, Active, Inactive
<1>4. \A fd \in Fds : fds'[fd] =
         IF fd = Listening \/ \E i \in Active : clients[i].socket_fd = fd THEN Closed ELSE fds[fd]
  BY DEF CleanupProgram, Closing
<1>5. \A fd \in Fds : fds'[fd] # Listener
  BY <1>1, <1>4, Places3 DEF IInv, SocketsAccounted
<1>6. queue' \in Seq(Peers) /\ Len(queue') = 0
  BY <1>1
<1>7. TypeOK'
  <2>1. clients' \in [Slots -> Client]
    <3>1. Inactive \in Client
      BY DEF Inactive, Client
    <3>2. QED
      BY <3>1 DEF CleanupProgram
  <2>2. fds' \in [Fds -> Peers \cup {Closed, Listener}]
    BY DEF CleanupProgram, Closing, IInv, TypeOK
  <2>3. program' \in Lives /\ cleanup' \in Cleanups /\ holding' \in BOOLEAN
    BY <1>1 DEF IInv, TypeOK, Lives, Cleanups
  <2>4. QED
    BY <1>1, <1>6, <2>1, <2>2, <2>3 DEF IInv, TypeOK
<1>8. Held' /\ Lifecycle' /\ Endings'
  BY <1>1, <1>2, <1>3 DEF IInv, Held, Sections, Lifecycle, Endings, Interrupted, Shared
<1>9. Slotted' /\ SlotsAreAnnounced'
  BY <1>3 DEF Slotted, SlotsAreAnnounced
<1>10. InHand' /\ Unannounced'
  <2>1. at' = at
    BY <1>1
  <2>2. InHand'
    BY <2>1, <1>1, <1>3, <1>4, Behind, Places3 DEF InHand
  <2>3. Unannounced'
    BY <2>1, <1>1, <1>6 DEF IInv, Unannounced, IsQueued
  <2>4. QED
    BY <2>2, <2>3
<1>11. SocketsAccounted'
  <2>1. \A fd \in Fds : fds'[fd] \in Peers => at' \in {"add", "undefined"} /\ new_socket' = fd
    <3> SUFFICES ASSUME NEW fd \in Fds, fds'[fd] \in Peers
                 PROVE  at' \in {"add", "undefined"} /\ new_socket' = fd
      OBVIOUS
    <3>1. fds[fd] \in Peers /\ ~ \E i \in Active : clients[i].socket_fd = fd
      BY <1>4, Places3
    <3>2. at \in {"add", "undefined"} /\ new_socket = fd
      BY <3>1 DEF IInv, SocketsAccounted
    <3>3. QED
      BY <3>2, <1>1
  <2>2. QED
    BY <2>1, <1>1, <1>3, <1>5 DEF SocketsAccounted
<1>12. ComesOnce'
  <2>1. \A fd \in Fds : fds'[fd] \in Peers => fds'[fd] = fds[fd]
    BY <1>4, Places3
  <2>2. QED
    BY <2>1, <1>1, <1>6 DEF IInv, ComesOnce, IsQueued
<1>13. Acceptable' /\ Current'
  BY <1>1 DEF Acceptable, Current
<1>14. DisconnectsOnlyTheGone' /\ NoUseAfterCleanup'
  BY <1>1, <1>2 DEF IInv, DisconnectsOnlyTheGone, NoUseAfterCleanup, Shared
<1>15. QED
  BY <1>7, <1>8, <1>9, <1>10, <1>11, <1>12, <1>13, <1>14 DEF IInv

\* Another thread of the embedding program, and a cleanup of the command line
\* that finds the program up.
LEMMA BeginCleanupStep ==
    ASSUME IInv, UNCHANGED host, CleanupByOther \/ BeginCleanup
    PROVE  IInv'
<1>1. CASE CleanupByOther
  BY <1>1, CleanupStep DEF CleanupByOther
<1>2. CASE BeginCleanup
  BY <1>2, CleanupStep DEF BeginCleanup
<1>3. QED
  BY <1>1, <1>2

\* Before and after that it is only seen in where its process is.
EndsAt ==
    \/ at' = at
    \/ at \in {"start", "idle", "off"} /\ at' \in {"stop", "quit"}
    \/ at = "stop" /\ at' = "off"

LEMMA EndingFrame ==
    ASSUME IInv, UNCHANGED <<host, clients, readfds, new_socket, client_addr, slot, kernel, told>>,
           program' = "up" <=> program = "up", EndsAt
    PROVE  /\ Slotted' /\ InHand' /\ SocketsAccounted'
           /\ ComesOnce' /\ Unannounced' /\ SlotsAreAnnounced'
           /\ Acceptable' /\ Current' /\ DisconnectsOnlyTheGone'
<1> USE DEF EndsAt, kernel
<1>1. Active' = Active /\ \A p : IsQueued(p)' <=> IsQueued(p)
  BY DEF Active, IsQueued
<1>2. Slotted' /\ InHand' /\ SocketsAccounted'
  BY <1>1 DEF IInv, Slotted, InHand, SocketsAccounted
<1>3. ComesOnce' /\ Unannounced' /\ SlotsAreAnnounced'
  BY <1>1 DEF IInv, ComesOnce, Unannounced, SlotsAreAnnounced, IsQueued
<1>4. Acceptable' /\ Current' /\ DisconnectsOnlyTheGone'
  BY <1>1 DEF IInv, Acceptable, Current, DisconnectsOnlyTheGone, Shared
<1>5. QED
  BY <1>2, <1>3, <1>4

\* A command or a signal leads to a cleanup, whatever it interrupts.
LEMMA EnterStep ==
    ASSUME IInv, UNCHANGED host, StopNetwork \/ Quit \/ \E signum \in Signals : Signal(signum)
    PROVE  IInv'
<1>1. /\ UNCHANGED <<program, clients, holding, readfds, new_socket, client_addr, slot, kernel, told>>
      /\ cleanup' = "entered"
  BY DEF StopNetwork, Quit, Signal, Enter
<1>2. EndsAt
  BY DEF StopNetwork, Quit, Signal, Enter, EndsAt
<1>3. host # "embedded" /\ at # "undefined" /\ at' \in Places
  BY DEF StopNetwork, Quit, Signal, Enter, Runs, Alive, Shared, IInv, TypeOK, Places
<1>4. signals' \subseteq Signals /\ signals \subseteq signals'
  BY DEF StopNetwork, Quit, Signal, IInv, TypeOK
<1>5. TypeOK'
  BY <1>1, <1>3, <1>4 DEF IInv, TypeOK, Cleanups, kernel
<1>6. Held' /\ Lifecycle'
  <2>1. at \in Sections <=> at' \in Sections
    BY <1>2 DEF EndsAt, Sections
  <2>2. Active' = Active
    BY <1>1 DEF Active
  <2>3. program = "none" => at' \in {"start", "quit", "off"}
    BY DEF StopNetwork, Quit, Signal, Enter, IInv, Lifecycle
  <2>4. at' = "start" => at = "start"
    BY <1>2 DEF EndsAt
  <2>5. QED
    BY <1>1, <2>1, <2>2, <2>3, <2>4 DEF IInv, Held, Lifecycle, kernel
<1>7. signals' # {} \/ at' \in {"stop", "quit"}
  BY DEF StopNetwork, Quit, Signal, Enter
<1>8. program \in {"closing", "cleaned", "freed"} => Interrupted'
  <2> SUFFICES ASSUME program \in {"closing", "cleaned", "freed"} PROVE Interrupted'
    OBVIOUS
  <2>1. cleanup # "none" /\ (signals # {} \/ at \in {"stop", "quit"})
    BY <1>3 DEF IInv, Endings, Shared
  <2>2. PICK signum \in Signals : Signal(signum)
    BY <2>1 DEF StopNetwork, Quit, Runs
  <2>3. at' = at /\ signum \notin signals /\ signals' = signals \cup {signum}
    BY <2>2 DEF Signal, Enter
  <2>4. CASE signals = {}
    BY <2>1, <2>3, <2>4 DEF Interrupted
  <2>5. CASE signals # {}
    BY <2>3, <2>5 DEF Interrupted, IInv, TypeOK, Signals
  <2>6. QED
    BY <2>4, <2>5
<1>9. Endings' /\ NoUseAfterCleanup'
  <2>1. at' # "undefined"
    BY <1>2, <1>3 DEF EndsAt
  <2>2. QED
    BY <1>1, <1>3, <1>7, <1>8, <2>1 DEF Endings, NoUseAfterCleanup, Shared
<1>10. QED
  BY <1>1, <1>2, <1>5, <1>6, <1>9, EndingFrame DEF IInv

\* A cleanup destroys and frees the program, finds it destroyed, or ends.
LEMMA EndStep ==
    ASSUME IInv, UNCHANGED host, GoOnCleaning \/ CleanupAgain \/ EndCleanup
    PROVE  IInv'
<1>1. /\ UNCHANGED <<clients, readfds, new_socket, client_addr, slot, signals, kernel, told>>
      /\ program' = "up" <=> program = "up"
      /\ EndsAt /\ cleanup # "none"
  BY DEF GoOnCleaning, CleanupAgain, EndCleanup, EndsAt, serving
<1>2. ~Shared
  BY <1>1 DEF IInv, Endings
<1>3. Active' = Active
  BY <1>1 DEF Active
<1>4. CASE GoOnCleaning
  <2> USE <1>4 DEF GoOnCleaning
  <2>1. program \in {"closing", "cleaned", "freed"} /\ program' \in {"cleaned", "freed", "unlisted"}
    OBVIOUS
  <2>2. TypeOK'
    BY <2>1 DEF IInv, TypeOK, Lives, kernel
  <2>3. at \notin Sections
    BY <2>1 DEF IInv, Held
  <2>4. Held' /\ Lifecycle'
    BY <1>3, <2>1, <2>3 DEF IInv, Held, Lifecycle, TypeOK
  <2>5. Endings' /\ NoUseAfterCleanup'
    BY <1>2, <2>1 DEF IInv, Endings, NoUseAfterCleanup, Shared
  <2>6. QED
    BY <1>1, <2>2, <2>4, <2>5, EndingFrame DEF IInv
<1>5. CASE CleanupAgain
  <2> USE <1>5 DEF CleanupAgain, serving, kernel
  <2>1. TypeOK' /\ Held' /\ Lifecycle'
    BY <1>3 DEF IInv, TypeOK, Cleanups, Held, Lifecycle
  <2>2. Interrupted'
    BY DEF IInv, Endings, Interrupted
  <2>3. Endings' /\ NoUseAfterCleanup'
    BY <1>2, <2>2 DEF IInv, Endings, NoUseAfterCleanup, Shared
  <2>4. QED
    BY <1>1, <2>1, <2>3, EndingFrame DEF IInv
<1>6. CASE EndCleanup
  <2> USE <1>6 DEF EndCleanup
  <2>1. UNCHANGED <<program, holding>> /\ program \in {"none", "unlisted"}
    OBVIOUS
  <2>2. TypeOK'
    BY DEF IInv, TypeOK, Cleanups, Places, kernel
  <2>3. Held' /\ Lifecycle'
    <3>1. at' \in Sections <=> at \in Sections
      BY DEF Sections
    <3>2. QED
      BY <1>3, <2>1, <3>1 DEF IInv, Held, Lifecycle, kernel
  <2>4. Endings' /\ NoUseAfterCleanup'
    BY <1>1, <1>2, <2>1 DEF IInv, Endings, NoUseAfterCleanup, Shared
  <2>5. QED
    BY <1>1, <2>2, <2>3, <2>4, EndingFrame DEF IInv
<1>7. QED
  BY <1>4, <1>5, <1>6

-----------------------------------------------------------------------------
\* A peer comes, once, and is queued behind the others.
LEMMA ConnectStep == ASSUME IInv, UNCHANGED host, NEW p \in Peers, Connect(p) PROVE IInv'
<1>1. /\ program = "up" /\ p \notin came /\ came' = came \cup {p} /\ queue' = Append(queue, p)
      /\ UNCHANGED <<program, clients, at, holding, readfds, new_socket, client_addr, slot>>
      /\ UNCHANGED <<cleanup, signals, fds, unread, hungup, told>>
  BY DEF Connect, serving
<1>2. queue \in Seq(Peers) /\ Len(queue) \in Nat
  BY DEF IInv, TypeOK
<1>3. /\ queue' \in Seq(Peers) /\ queue' # <<>> /\ Len(queue') = Len(queue) + 1
      /\ \A i \in 1 .. Len(queue) : queue'[i] = queue[i]
      /\ queue'[Len(queue) + 1] = p
  BY <1>1, <1>2, AppendProperties
<1>4. /\ ~IsQueued(p) /\ told[p] = "nothing"
      /\ \A fd \in Fds : fds[fd] # p
  BY <1>1 DEF IInv, ComesOnce
<1>5. \A q \in Peers : IsQueued(q)' => IsQueued(q) \/ q = p
  BY <1>2, <1>3 DEF IsQueued
<1>6. Active' = Active
  BY <1>1 DEF Active
<1>7. TypeOK'
  BY <1>1, <1>3 DEF IInv, TypeOK
<1>8. Held' /\ Lifecycle' /\ Endings' /\ Slotted' /\ InHand'
  BY <1>1, <1>6 DEF IInv, Held, Sections, Lifecycle, Endings, Interrupted, Slotted, InHand, Shared
<1>9. SocketsAccounted'
  BY <1>1, <1>6 DEF IInv, SocketsAccounted
<1>10. ComesOnce'
  <2>1. \A fd \in Fds : fds'[fd] \in Peers => fds'[fd] \in came' /\ ~(IsQueued(fds[fd]) \/ fds[fd] = p)
    BY <1>1, <1>4 DEF IInv, ComesOnce
  <2>2. \A fd \in Fds, q \in Peers : fds'[fd] = q => ~IsQueued(q)'
    BY <2>1, <1>1, <1>5
  <2>3. \A fd \in Fds : fds'[fd] \in Peers => ~(\E i \in 1 .. Len(queue') : queue'[i] = fds'[fd])
    BY <2>2 DEF IsQueued
  <2>4. \A i, j \in 1 .. Len(queue') : queue'[i] = queue'[j] => i = j
    <3>1. \A i \in 1 .. Len(queue) : queue[i] # p
      BY <1>4 DEF IsQueued
    <3>2. \A i, j \in 1 .. Len(queue) : queue[i] = queue[j] => i = j
      BY DEF IInv, ComesOnce
    <3>3. \A i \in 1 .. Len(queue') : i \in 1 .. Len(queue) \/ i = Len(queue) + 1
      BY <1>2, <1>3
    <3>4. QED
      BY <1>3, <3>1, <3>2, <3>3
  <2>5. \A q \in Peers : IsQueued(q)' => q \in came' /\ told'[q] = "nothing"
    BY <1>1, <1>4, <1>5 DEF IInv, ComesOnce
  <2>6. /\ \A fd, gd \in Fds : fds'[fd] \in Peers /\ fds'[fd] = fds'[gd] => fd = gd
        /\ \A q \in Peers : q \notin came' => told'[q] = "nothing"
    BY <1>1 DEF IInv, ComesOnce
  <2>7. QED
    BY <2>1, <2>3, <2>4, <2>5, <2>6 DEF ComesOnce, IsQueued
<1>11. Unannounced'
  <2>1. at \in {"add", "announce"} =>
           client_addr \in Peers /\ client_addr # p /\ ~IsQueued(client_addr)
    BY <1>1 DEF IInv, Unannounced
  <2>2. at \in {"add", "announce"} => ~(\E i \in 1 .. Len(queue') : queue'[i] = client_addr)
    BY <2>1, <1>5 DEF IsQueued
  <2>3. QED
    BY <2>2, <1>1 DEF IInv, Unannounced, IsQueued
<1>12. SlotsAreAnnounced'
  BY <1>1, <1>6 DEF IInv, SlotsAreAnnounced
<1>13. Acceptable' /\ Current' /\ DisconnectsOnlyTheGone' /\ NoUseAfterCleanup'
  BY <1>1, <1>3, <1>6 DEF IInv, Acceptable, Current, DisconnectsOnlyTheGone, NoUseAfterCleanup, Interrupted, Shared
<1>14. QED
  BY <1>7, <1>8, <1>9, <1>10, <1>11, <1>12, <1>13 DEF IInv

\* A peer sends or hangs up: what select has reported is still true.
LEMMA PeerStep ==
    ASSUME IInv, UNCHANGED host, NEW p \in Peers, Send(p) \/ HangUp(p)
    PROVE  IInv'
<1>1. /\ UNCHANGED <<program, clients, at, holding, readfds, new_socket, client_addr, slot>>
      /\ UNCHANGED <<cleanup, signals, fds, queue, came, told>>
      /\ unread \subseteq unread' /\ unread' \subseteq unread \cup {p}
      /\ hungup \subseteq hungup' /\ hungup' \subseteq hungup \cup {p}
      /\ unread' # unread => p \notin hungup
  BY DEF Send, HangUp, serving
<1>2. Active' = Active
  BY <1>1 DEF Active
<1>3. TypeOK'
  BY <1>1 DEF IInv, TypeOK
<1>4. Held' /\ Lifecycle' /\ Endings' /\ Slotted' /\ InHand'
  BY <1>1, <1>2 DEF IInv, Held, Sections, Lifecycle, Endings, Interrupted, Slotted, InHand, Shared
<1>5. SocketsAccounted'
  BY <1>1, <1>2 DEF IInv, SocketsAccounted
<1>6. ComesOnce' /\ Unannounced' /\ SlotsAreAnnounced'
  BY <1>1, <1>2 DEF IInv, ComesOnce, Unannounced, SlotsAreAnnounced, IsQueued
<1>7. Current'
  BY <1>1, <1>2 DEF IInv, Current, Shared
<1>8. DisconnectsOnlyTheGone'
  BY <1>1 DEF IInv, DisconnectsOnlyTheGone, Shared
<1>9. Acceptable' /\ NoUseAfterCleanup'
  BY <1>1 DEF IInv, Acceptable, NoUseAfterCleanup, Interrupted, Shared
<1>10. QED
  BY <1>3, <1>4, <1>5, <1>6, <1>7, <1>8, <1>9 DEF IInv
-----------------------------------------------------------------------------
LEMMA Inductive == IInv /\ [Next]_vars => IInv'
<1> SUFFICES ASSUME IInv, [Next]_vars PROVE IInv'
  OBVIOUS
<1>1. CASE MainThread
  <2> USE <1>1 DEF MainThread
  <2>1. CASE Quiet
    BY <2>1, QuietStep
  <2>2. CASE InitProgram
    BY <2>2, InitProgramStep
  <2>3. CASE Accept
    BY <2>3, AcceptStep
  <2>4. CASE DropAccepted
    BY <2>4, DropAcceptedStep
  <2>5. CASE AddClient
    BY <2>5, AddClientStep
  <2>6. CASE Announce
    BY <2>6, AnnounceStep
  <2>7. CASE ReceiveData
    BY <2>7, ReceiveDataStep
  <2>8. CASE Disconnect
    BY <2>8, DisconnectStep
  <2>9. CASE BeginCleanup
    BY <2>9, BeginCleanupStep
  <2>10. CASE \E fd \in Fds : RemoveClient("main", fd)
    BY <2>10, RemoveClientStep
  <2>11. CASE GoOnCleaning \/ CleanupAgain \/ EndCleanup
    BY <2>11, EndStep
  <2>12. QED
    BY <2>11, <2>1, <2>2, <2>3, <2>4, <2>5, <2>6, <2>7, <2>8, <2>9, <2>10 DEF Quiet
<1>2. CASE Others
  <2> USE <1>2 DEF Others
  <2>1. CASE CleanupByOther
    BY <2>1, BeginCleanupStep
  <2>2. CASE StopNetwork \/ Quit \/ \E signum \in Signals : Signal(signum)
    BY <2>2, EnterStep
  <2>3. CASE \E fd \in Fds : RemoveClient("other", fd)
    BY <2>3, RemoveClientStep
  <2>4. CASE \E p \in Peers : Connect(p) \/ Send(p) \/ HangUp(p)
    BY <2>4, ConnectStep, PeerStep
  <2>5. QED
    BY <2>1, <2>2, <2>3, <2>4
<1>3. CASE UNCHANGED vars
  <2> USE <1>3 DEF vars, serving, kernel
  <2>1. TypeOK' /\ Held' /\ Lifecycle' /\ Endings' /\ Slotted' /\ InHand'
    BY DEF IInv, TypeOK, Held, Lifecycle, Endings, Interrupted, Slotted, InHand, Shared, Active
  <2>2. SocketsAccounted'
    BY DEF IInv, SocketsAccounted, Active
  <2>3. ComesOnce' /\ Unannounced' /\ SlotsAreAnnounced'
    BY DEF IInv, ComesOnce, Unannounced, SlotsAreAnnounced, IsQueued, Active
  <2>4. Acceptable' /\ Current' /\ DisconnectsOnlyTheGone' /\ NoUseAfterCleanup'
    BY DEF IInv, Acceptable, Current, DisconnectsOnlyTheGone, NoUseAfterCleanup, Interrupted, Shared, Active
  <2>5. QED
    BY <2>1, <2>2, <2>3, <2>4 DEF IInv
<1>4. QED
  BY <1>1, <1>2, <1>3 DEF Next

LEMMA Always == Spec => []IInv
  BY Initially, Inductive, PTL DEF Spec

-----------------------------------------------------------------------------
\* The table, the descriptors, the queue and the loop's variables keep their
\* types: the loop's index never passes the end of the table by more than one.
THEOREM Typed == Spec => []TypeOK
<1>1. IInv => TypeOK
  BY DEF IInv
<1>2. QED
  BY Always, <1>1, PTL

(***************************************************************************)
(* network.c, all of it: whatever order clients come, are refused, are     *)
(* removed or hang up in, and whoever removes them or cleans up, a slot of *)
(* the table and an open descriptor are of the same peer, and no accepted  *)
(* connection is without its owner.                                        *)
(***************************************************************************)
THEOREM NoSocketIsLost == Spec => []SocketsAccounted
<1>1. IInv => SocketsAccounted
  BY DEF IInv
<1>2. QED
  BY Always, <1>1, PTL

(***************************************************************************)
(* net_run and net_add_client: who is in the table has been announced to   *)
(* on_connect, except between the two calls.                               *)
(***************************************************************************)
THEOREM TableAnnounced == Spec => []SlotsAreAnnounced
<1>1. IInv => SlotsAreAnnounced
  BY DEF IInv
<1>2. QED
  BY Always, <1>1, PTL

(***************************************************************************)
(* The loop over the clients in net_run: in the command line's process,    *)
(* who is disconnected has hung up and left nothing unread, although what  *)
(* the loop reads was reported by a select two unlocks ago.                *)
(***************************************************************************)
THEOREM OnlyTheGone == Spec => []DisconnectsOnlyTheGone
<1>1. IInv => DisconnectsOnlyTheGone
  BY DEF IInv
<1>2. QED
  BY Always, <1>1, PTL

(***************************************************************************)
(* cleanup_runtime and stop_network of polycall_cli.c: wherever SIGINT and *)
(* SIGTERM come, net_run never goes on with what net_cleanup_program has   *)
(* destroyed, and no other cleanup does but one that has interrupted it.   *)
(***************************************************************************)
THEOREM NothingUsedAfterCleanup == Spec => []NoUseAfterCleanup
<1>1. IInv => NoUseAfterCleanup
  BY DEF IInv
<1>2. QED
  BY Always, <1>1, PTL

\* Every step but on_connect's and on_disconnect's leaves "told" alone.
LEMMA ToldStep == IInv /\ [Next]_vars => [ToldInOrder]_vars
<1> SUFFICES ASSUME IInv, [Next]_vars PROVE ToldInOrder
  OBVIOUS
<1>1. CASE Announce
  <2>1. told[client_addr] = "nothing"
    BY <1>1 DEF Announce, IInv, Unannounced
  <2>2. \A p \in Peers : told'[p] = IF p = client_addr THEN "connected" ELSE told[p]
    BY <1>1 DEF Announce, IInv, TypeOK
  <2>3. QED
    BY <2>1, <2>2 DEF ToldInOrder
<1>2. CASE Disconnect
  <2>1. at = "receive" /\ slot \in Slots /\ FdIsSet(slot)
    BY <1>2 DEF Disconnect
  <2>2. told[clients[slot].addr] = "connected"
    BY <2>1, AtSlot DEF IInv, SlotsAreAnnounced
  <2>3. \A p \in Peers : told'[p] = IF p = clients[slot].addr THEN "disconnected" ELSE told[p]
    BY <1>2 DEF Disconnect, IInv, TypeOK
  <2>4. QED
    BY <2>2, <2>3 DEF ToldInOrder
<1>3. CASE told' = told
  BY <1>3 DEF ToldInOrder
<1>4. [Next]_vars => Announce \/ Disconnect \/ told' = told
  <2> USE DEF kernel
  <2>1. CASE Quiet
    BY <2>1, QuietFrame
  <2>2. CASE InitProgram \/ Accept \/ DropAccepted \/ AddClient \/ ReceiveData
    BY <2>2 DEF InitProgram, Accept, DropAccepted, AddClient, ReceiveData, NextClient
  <2>3. CASE \/ StopNetwork \/ Quit \/ CleanupByOther \/ BeginCleanup \/ GoOnCleaning
             \/ CleanupAgain \/ EndCleanup \/ \E signum \in Signals : Signal(signum)
    BY <2>3 DEF StopNetwork, Quit, CleanupByOther, BeginCleanup, CleanupProgram, GoOnCleaning,
          CleanupAgain, EndCleanup, Signal, Enter
  <2>4. CASE \E thread \in {"main", "other"}, fd \in Fds : RemoveClient(thread, fd)
    BY <2>4 DEF RemoveClient
  <2>5. CASE \E p \in Peers : Connect(p) \/ Send(p) \/ HangUp(p)
    BY <2>5 DEF Connect, Send, HangUp
  <2>6. CASE UNCHANGED vars
    BY <2>6 DEF vars
  <2>7. QED
    BY <2>1, <2>2, <2>3, <2>4, <2>5, <2>6 DEF Next, MainThread, Others, Quiet
<1>5. QED
  BY <1>1, <1>2, <1>3, <1>4

(***************************************************************************)
(* net_run's handlers: on_connect comes once for a peer and on_disconnect  *)
(* once and after it, even while another thread removes clients.           *)
(***************************************************************************)
THEOREM ToldInOrderAlways == Spec => HandlersToldInOrder
  BY Always, ToldStep, PTL DEF Spec, HandlersToldInOrder
=============================================================================
