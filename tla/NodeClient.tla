----------------------------- MODULE NodeClient -----------------------------
(***************************************************************************)
(* The client of the Node binding (bindings/node/src/modules/): its        *)
(* connection (NetworkEndpoint.js), its requests (ProtocolHandler.js) and  *)
(* what the application sees of both (PolyCallClient.js).                  *)
(*                                                                         *)
(* Node runs one handler at a time and, before the next, the continuations *)
(* of the promises it settled: an action is one event (an event of a       *)
(* socket, a timer, a call of the application) with all handlers and       *)
(* continuations it leads to.  Sockets outlive their place in this.socket, *)
(* and their events keep coming.  Endpoint and client each have a flag     *)
(* "connected": clientConnected follows the events of the endpoint.        *)
(*                                                                         *)
(* A request is the sequence number of its message.  The server is the     *)
(* environment: it may answer what it was sent, twice, late or never, over *)
(* the socket the message came by; a chunk that processMessage rejects is  *)
(* an answer that never comes.  A socket that is gone may serve as another *)
(* one.  The router answers sendRequest without the network.               *)
(***************************************************************************)
EXTENDS Integers, Sequences, FiniteSets, SequencesExt

CONSTANTS Sockets, NoSocket,
          MaxRetries,       \* options.maxRetries
          MaxTimers,        \* bound: nothing connects while more retries are pending
          MaxRequests       \* bound: messages with a sequence number

ASSUME ClientAssumption ==
    MaxRetries \in Nat /\ MaxTimers \in Nat /\ MaxRequests \in Nat /\ NoSocket \notin Sockets

VARIABLES status,           \* of each socket
          ending,           \* sockets on which end() was called, its callback not yet
          awaited,          \* sockets client.connect() waits for
          socket,           \* this.socket
          connected, retryCount,
          clientConnected,  \* PolyCallClient's own flag
          retries,          \* pending setTimeout(connect)
          reconnect,        \* options.reconnect
          pendingData,
          authenticated,
          sequence,         \* the next sequence number
          kind,             \* of each request
          pendingMessages,
          deadlines,        \* requests whose timer is running
          outcome,          \* of the promise of each request
          carried,          \* socket -> the requests written to it
          writes            \* history: how often each request was written at all

connection == <<status, ending, awaited, socket, connected, clientConnected, retryCount,
                retries, reconnect>>
wire == <<carried, writes>>
requests == <<sequence, kind, pendingMessages, deadlines, outcome>>
vars == <<connection, requests, pendingData, authenticated, wire>>

Requests == 1 .. MaxRequests
Kinds == {"HANDSHAKE", "AUTH", "COMMAND"}

\* half: the client has ended its side; failed: 'error' was told, 'close' not.
Statuses == {"gone", "connecting", "open", "half", "failed"}

Is(st) == {s \in Sockets : status[s] = st}

\* Where socket.write reaches the peer now or once connected.
Writable(s) == s # NoSocket /\ status[s] \in {"connecting", "open"} /\ s \notin ending

-----------------------------------------------------------------------------
\* A mistake, as those below: "<=" for "<" in the check of maxRetries.
RetryOnceMore ==
    LET more == IF reconnect /\ retryCount <= MaxRetries THEN 1 ELSE 0
    IN  retryCount' = retryCount + more /\ retries' = retries + more

\* setTimeout(connect): nothing stops those that are pending already.
Retry ==
    LET more == IF reconnect /\ retryCount < MaxRetries THEN 1 ELSE 0
    IN  retryCount' = retryCount + more /\ retries' = retries + more

\* 'disconnected' of the endpoint, heard by the client.
Disconnected == connected' = FALSE /\ clientConnected' = FALSE /\ authenticated' = FALSE

\* connect() of the endpoint, on a new socket.
Connecting(s) == status' = [status EXCEPT ![s] = "connecting"] /\ socket' = s

\* The messages are written to what is this.socket by then.
Written(s, messages) ==
    IF Writable(s)
    THEN /\ carried' = [carried EXCEPT ![s] = @ \cup messages]
         /\ writes' = [n \in Requests |-> writes[n] + IF n \in messages THEN 1 ELSE 0]
    ELSE UNCHANGED wire

\* sendMessage: a sequence number, a promise and its timer.
Sent(k) ==
    /\ sequence' = sequence + 1
    /\ kind' = [kind EXCEPT ![sequence] = k]
    /\ pendingMessages' = pendingMessages \cup {sequence}
    /\ deadlines' = deadlines \cup {sequence}
    /\ outcome' = [outcome EXCEPT ![sequence] = "open"]

\* A promise is settled by whoever is first.
Settled(n, as) == outcome' = IF outcome[n] = "open" THEN [outcome EXCEPT ![n] = as] ELSE outcome

-----------------------------------------------------------------------------
\* Mistakes the code could have made; each violates a property below.
OverWhenCurrent(s, to) ==       \* only the end of this.socket disconnects
    /\ status' = [status EXCEPT ![s] = to] /\ carried' = [carried EXCEPT ![s] = {}]
    /\ ending' = ending \ {s} /\ awaited' = awaited \ {s}
    /\ socket' = IF s \in ending THEN NoSocket ELSE socket
    /\ IF s = socket
       THEN Disconnected /\ Retry
       ELSE UNCHANGED <<connected, clientConnected, authenticated, retryCount, retries>>
    /\ UNCHANGED <<requests, reconnect, pendingData, writes>>

ConnectedUnflushed(s) ==        \* what was waiting goes on waiting
    /\ status[s] = "connecting" /\ retries <= MaxTimers
    /\ status' = [status EXCEPT ![s] = "open"] /\ connected' = TRUE /\ clientConnected' = TRUE
    /\ retryCount' = 0 /\ awaited' = awaited \ {s}
    /\ UNCHANGED <<requests, ending, socket, retries, reconnect, pendingData, authenticated, wire>>

ConnectedResending(s) ==        \* what is not answered is written once more
    /\ status[s] = "connecting" /\ retries <= MaxTimers
    /\ status' = [status EXCEPT ![s] = "open"] /\ connected' = TRUE /\ clientConnected' = TRUE
    /\ retryCount' = 0 /\ pendingData' = <<>> /\ awaited' = awaited \ {s}
    /\ Written(socket, ToSet(pendingData) \cup pendingMessages)
    /\ UNCHANGED <<requests, ending, socket, retries, reconnect, authenticated>>

RetryConnectUnlessThere ==      \* the timer tests this.socket and not its state
    /\ retries > 0
    /\ retries' = retries - 1
    /\ IF socket = NoSocket THEN \E s \in Is("gone") : Connecting(s)
       ELSE UNCHANGED <<status, socket>>
    /\ UNCHANGED <<requests, ending, awaited, connected, clientConnected, retryCount, reconnect,
                   pendingData, authenticated, wire>>

TimeoutForgetful(n) ==          \* the timer does not delete the entry
    /\ n \in deadlines
    /\ deadlines' = deadlines \ {n} /\ Settled(n, "rejected")
    /\ UNCHANGED <<connection, sequence, kind, pendingMessages, pendingData, authenticated, wire>>

-----------------------------------------------------------------------------
Init ==
    /\ status = [s \in Sockets |-> "gone"] /\ ending = {} /\ awaited = {}
    /\ socket = NoSocket /\ connected = FALSE /\ clientConnected = FALSE
    /\ retryCount = 0 /\ retries = 0 /\ reconnect = TRUE
    /\ pendingData = <<>> /\ authenticated = FALSE
    /\ sequence = 1 /\ kind = [n \in Requests |-> "HANDSHAKE"]
    /\ pendingMessages = {} /\ deadlines = {}
    /\ outcome = [n \in Requests |-> "none"]
    /\ carried = [s \in Sockets |-> {}] /\ writes = [n \in Requests |-> 0]

\* client.connect(), by an application that has no connection under way.
Connect ==
    /\ \A s \in Sockets : status[s] = "gone"
    /\ \E s \in Sockets : Connecting(s) /\ awaited' = awaited \cup {s}
    /\ UNCHANGED <<requests, ending, connected, clientConnected, retryCount, retries, reconnect,
                   pendingData, authenticated, wire>>

\* The timer of handleDisconnect: it asks for nothing.
RetryConnect ==
    /\ retries > 0
    /\ \E s \in Is("gone") : Connecting(s)
    /\ retries' = retries - 1
    /\ UNCHANGED <<requests, ending, awaited, connected, clientConnected, retryCount, reconnect,
                   pendingData, authenticated, wire>>

\* 'connect' of s: what was waiting is written, to this.socket; then the
\* application's connect() goes on and shakes hands.
Connected(s) ==
    /\ status[s] = "connecting" /\ retries <= MaxTimers
    /\ status' = [status EXCEPT ![s] = "open"]
    /\ connected' = TRUE /\ clientConnected' = TRUE /\ retryCount' = 0
    /\ pendingData' = <<>> /\ awaited' = awaited \ {s}
    /\ IF s \in awaited /\ sequence <= MaxRequests
       THEN Sent("HANDSHAKE") /\ Written(socket, ToSet(pendingData) \cup {sequence})
       ELSE UNCHANGED requests /\ Written(socket, ToSet(pendingData))
    /\ UNCHANGED <<ending, socket, retries, reconnect, authenticated>>

\* An event that ends s: the callback of end(), where one was waiting, then
\* handleDisconnect, whether s still is this.socket or not.
Over(s, to) ==
    /\ status' = [status EXCEPT ![s] = to]
    /\ carried' = [carried EXCEPT ![s] = {}]
    /\ ending' = ending \ {s} /\ awaited' = awaited \ {s}
    /\ socket' = IF s \in ending THEN NoSocket ELSE socket
    /\ Disconnected
    /\ Retry
    /\ UNCHANGED <<requests, reconnect, pendingData, writes>>

\* 'error': the socket is destroyed, its 'close' comes later.
Fail(s) == status[s] \in {"connecting", "open", "half"} /\ Over(s, "failed")

\* 'close' after an 'error'.
CloseAfterError(s) == status[s] = "failed" /\ Over(s, "gone")

\* 'close' without an error: the peer has ended its side.
PeerCloses(s) == status[s] \in {"open", "half"} /\ Over(s, "gone")

\* client.disconnect().  end() on a socket that is destroyed calls back at
\* once; without this.socket only the client's own flags are cleared.
Disconnect ==
    /\ IF socket = NoSocket
       THEN /\ clientConnected' = FALSE /\ authenticated' = FALSE
            /\ UNCHANGED <<reconnect, socket, connected, ending>>
       ELSE /\ reconnect' = FALSE
            /\ IF status[socket] \in {"gone", "failed"}
               THEN socket' = NoSocket /\ Disconnected /\ UNCHANGED ending
               ELSE /\ ending' = ending \cup {socket}
                    /\ UNCHANGED <<socket, connected, clientConnected, authenticated>>
    /\ UNCHANGED <<requests, status, awaited, retryCount, retries, pendingData, wire>>

\* The callback of end(), for the socket that is this.socket or for another.
Ended(s) ==
    /\ s \in ending /\ status[s] = "open"
    /\ status' = [status EXCEPT ![s] = "half"]
    /\ ending' = ending \ {s}
    /\ socket' = NoSocket /\ Disconnected
    /\ UNCHANGED <<requests, awaited, retryCount, retries, reconnect, pendingData, wire>>

-----------------------------------------------------------------------------
\* send() of the endpoint: a message of a client that is not connected waits,
\* and opens a socket of its own.
Transmit(messages) ==
    \/ /\ connected
       /\ Written(socket, messages)
       /\ UNCHANGED <<status, socket, pendingData>>
    \/ /\ ~connected /\ reconnect
       /\ pendingData' = pendingData \o SetToSeq(messages)
       /\ \E s \in Is("gone") : Connecting(s)
       /\ UNCHANGED wire
    \/ /\ ~connected /\ ~reconnect
       /\ UNCHANGED <<status, socket, pendingData, wire>>

\* authenticate() and executeCommand().
Request(k) ==
    /\ sequence <= MaxRequests
    /\ k = "COMMAND" => authenticated
    /\ Sent(k)
    /\ Transmit({sequence})
    /\ UNCHANGED <<ending, awaited, connected, clientConnected, retryCount, retries, reconnect,
                   authenticated>>

\* A RESPONSE to request n.
Response(s, n) ==
    /\ status[s] \in {"open", "half"} /\ n \in carried[s]
    /\ pendingMessages' = pendingMessages \ {n}
    /\ IF n \in pendingMessages
       THEN /\ Settled(n, "resolved")
            /\ authenticated' = (authenticated \/ kind[n] = "AUTH")
       ELSE UNCHANGED <<outcome, authenticated>>
    /\ UNCHANGED <<connection, sequence, kind, deadlines, pendingData, wire>>

\* An ERROR.
ErrorResponse(s, n) ==
    /\ status[s] \in {"open", "half"} /\ n \in carried[s]
    /\ n \in pendingMessages
    /\ pendingMessages' = pendingMessages \ {n} /\ Settled(n, "rejected")
    /\ UNCHANGED <<connection, sequence, kind, deadlines, pendingData, authenticated, wire>>

\* An AUTH message, with which the server may answer another.
AuthMessage(s, n) ==
    /\ status[s] \in {"open", "half"} /\ n \in carried[s] /\ kind[n] = "AUTH"
    /\ authenticated' = TRUE
    /\ UNCHANGED <<connection, requests, pendingData, wire>>

\* The timer of request n, which nobody stops.
Timeout(n) ==
    /\ n \in deadlines
    /\ deadlines' = deadlines \ {n}
    /\ pendingMessages' = pendingMessages \ {n} /\ Settled(n, "rejected")
    /\ UNCHANGED <<connection, sequence, kind, pendingData, authenticated, wire>>

Next ==
    \/ Connect \/ RetryConnect \/ Disconnect
    \/ \E s \in Sockets : Connected(s) \/ Fail(s) \/ CloseAfterError(s) \/ PeerCloses(s) \/ Ended(s)
    \/ \E k \in {"AUTH", "COMMAND"} : Request(k)
    \/ \E s \in Sockets, n \in Requests :
          Response(s, n) \/ ErrorResponse(s, n) \/ AuthMessage(s, n)
    \/ \E n \in Requests : Timeout(n)

Spec == Init /\ [][Next]_vars

\* The timers of reconnections go off, an attempt to connect ends one way or
\* the other, and an error is followed by its close.
Fairness ==
    /\ WF_vars(RetryConnect)
    /\ \A s \in Sockets : WF_vars(CloseAfterError(s))
    /\ \A s \in Sockets : WF_vars(Connected(s) \/ (status[s] = "connecting" /\ Fail(s)))

FairSpec == Spec /\ Fairness

-----------------------------------------------------------------------------
\* Retries are counted up to maxRetries; their timers are not.
TypeOK ==
    /\ status \in [Sockets -> Statuses]
    /\ ending \subseteq Sockets /\ awaited \subseteq Sockets
    /\ socket \in Sockets \cup {NoSocket}
    /\ connected \in BOOLEAN /\ clientConnected \in BOOLEAN
    /\ reconnect \in BOOLEAN /\ authenticated \in BOOLEAN
    /\ retryCount \in 0 .. MaxRetries /\ retries \in Nat
    /\ pendingData \in Seq(Requests)
    /\ sequence \in 1 .. MaxRequests + 1 /\ kind \in [Requests -> Kinds]
    /\ pendingMessages \subseteq Requests /\ deadlines \subseteq Requests
    /\ outcome \in [Requests -> {"none", "open", "resolved", "rejected"}]
    /\ carried \in [Sockets -> SUBSET Requests] /\ writes \in [Requests -> Nat]

(***************************************************************************)
(* The table of pending messages is that of the promises still open, and   *)
(* each of them has a timer that will settle it, whatever becomes of the   *)
(* connection and in whatever order answers and timers come.               *)
(***************************************************************************)
PendingIsOpen ==
    /\ \A n \in Requests : n \in pendingMessages <=> outcome[n] = "open"
    /\ pendingMessages \subseteq deadlines

(***************************************************************************)
(* No request goes out twice, however often the connection is lost and     *)
(* made again: it waits, once, and was not written, or it was written, to  *)
(* one socket, and is not written again when that one is lost.             *)
(***************************************************************************)
NotSentTwice ==
    /\ IsInjective(pendingData)
    /\ \A n \in Requests : writes[n] <= 1 /\ (n \in ToSet(pendingData) => writes[n] = 0)

(***************************************************************************)
(* With all its sockets over the client says neither connected nor         *)
(* authenticated, and it never says connected when its endpoint does not.  *)
(* (While a socket is left, a late answer may authenticate a client that   *)
(* has disconnected, and the end of an older socket disconnect one that is *)
(* connected.)                                                             *)
(***************************************************************************)
NoSessionWithoutSocket ==
    /\ (\A s \in Sockets : status[s] \in {"gone", "failed"}) => ~connected /\ ~authenticated
    /\ clientConnected => connected

(***************************************************************************)
(* What waits to be sent does not wait beside a connection, and does not   *)
(* wait for one that nobody tries to make until the retries are used up.   *)
(***************************************************************************)
QueueIsServed ==
    pendingData # <<>> =>
        /\ ~connected
        /\ reconnect => Is("connecting") # {} \/ retries > 0 \/ retryCount = MaxRetries

(***************************************************************************)
(* A client that waits to reconnect is connected again, or told to         *)
(* disconnect, or it has tried as often as maxRetries says and no timer is *)
(* left; it does not stop half way.                                        *)
(***************************************************************************)
ReconnectsOrGivesUp ==
    (retries > 0) ~> (connected \/ ~reconnect \/ (retries = 0 /\ retryCount = MaxRetries))
=============================================================================
