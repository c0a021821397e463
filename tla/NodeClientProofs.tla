-------------------------- MODULE NodeClientProofs --------------------------
(***************************************************************************)
(* Proofs about NodeClient, for any number of sockets, retries, timers and *)
(* requests.  PendingIsOpen, NoSessionWithoutSocket and QueueIsServed are  *)
(* inductive with the type; NotSentTwice rests on sequence numbers that    *)
(* nobody has seen before they are given.                                  *)
(***************************************************************************)
EXTENDS NodeClient, FiniteSetTheorems, SequenceTheorems, TLAPS

\* A number that was not given yet does not wait and was never written.
Unsent ==
    \A n \in Requests : n >= sequence => n \notin ToSet(pendingData) /\ writes[n] = 0

IInv ==
    /\ TypeOK
    /\ Unsent /\ NotSentTwice
    /\ PendingIsOpen
    /\ NoSessionWithoutSocket
    /\ QueueIsServed

-----------------------------------------------------------------------------
\* SetToSeq of the one message that send() is given.
LEMMA OneMessage == ASSUME NEW n PROVE SetToSeq({n}) = <<n>>
<1>1. Cardinality({n}) = 1
  BY FS_Singleton
<1>2. \A f \in [1 .. 1 -> {n}] : IsInjective(f)
  BY DEF IsInjective
<1>3. [i \in 1 .. 1 |-> n] \in [1 .. 1 -> {n}]
  OBVIOUS
<1>4. SetToSeq({n}) \in [1 .. 1 -> {n}]
  BY <1>1, <1>2, <1>3 DEF SetToSeq
<1>5. \A f \in [1 .. 1 -> {n}] : f = <<n>>
  OBVIOUS
<1>6. QED
  BY <1>4, <1>5

\* A message put behind those that wait.
LEMMA Queued ==
    ASSUME NEW q \in Seq(Requests), NEW n \in Requests, NEW r, r = q \o SetToSeq({n})
    PROVE  /\ r \in Seq(Requests) /\ r # <<>>
           /\ ToSet(r) = ToSet(q) \cup {n}
           /\ IsInjective(q) /\ n \notin ToSet(q) => IsInjective(r)
<1>1. r = Append(q, n)
  BY OneMessage, AppendIsConcat
<1>2. /\ r \in Seq(Requests) /\ r # <<>> /\ Len(r) = Len(q) + 1 /\ Len(q) \in Nat
      /\ \A i \in 1 .. Len(q) : r[i] = q[i]
      /\ r[Len(q) + 1] = n
  <2>1. Len(q) \in Nat
    OBVIOUS
  <2>2. /\ Append(q, n) \in Seq(Requests) /\ Append(q, n) # <<>> /\ Len(Append(q, n)) = Len(q) + 1
        /\ \A i \in 1 .. Len(q) : Append(q, n)[i] = q[i]
        /\ Append(q, n)[Len(q) + 1] = n
    BY AppendProperties
  <2>3. QED
    BY <1>1, <2>1, <2>2, Zenon
<1>3. DOMAIN q = 1 .. Len(q) /\ DOMAIN r = 1 .. Len(q) + 1
  BY <1>2
<1>4. ToSet(r) = ToSet(q) \cup {n}
  <2>1. \A i \in 1 .. Len(q) : r[i] \in ToSet(q)
    BY <1>2, <1>3 DEF ToSet
  <2>2. \A i \in 1 .. Len(q) : q[i] \in ToSet(r)
    BY <1>2, <1>3 DEF ToSet
  <2>3. n \in ToSet(r)
    <3>1. Len(q) + 1 \in DOMAIN r
      BY <1>2, <1>3
    <3>2. QED
      BY <1>2, <3>1, Zenon DEF ToSet
  <2>4. ASSUME NEW i \in 1 .. Len(q) + 1 PROVE r[i] \in ToSet(q) \cup {n}
    <3>1. i \in 1 .. Len(q) \/ i = Len(q) + 1
      BY <1>2
    <3>2. QED
      BY <1>2, <2>1, <3>1, Zenon
  <2>5. ToSet(r) \subseteq ToSet(q) \cup {n}
    BY <1>3, <2>4 DEF ToSet
  <2>6. ToSet(q) \subseteq ToSet(r)
    BY <1>3, <2>2 DEF ToSet
  <2>7. QED
    BY <2>3, <2>5, <2>6
<1>5. IsInjective(q) /\ n \notin ToSet(q) => IsInjective(r)
  BY <1>2, <1>3 DEF ToSet, IsInjective
<1>6. QED
  BY <1>2, <1>4, <1>5

LEMMA NothingWaits ==
    ASSUME NEW S
    PROVE  <<>> \in Seq(S) /\ ToSet(<<>>) = {} /\ IsInjective(<<>>)
  BY DEF ToSet, IsInjective

-----------------------------------------------------------------------------
LEMMA Initially == Init => IInv
<1> SUFFICES ASSUME Init PROVE IInv
  OBVIOUS
<1>1. pendingData \in Seq(Requests) /\ ToSet(pendingData) = {} /\ IsInjective(pendingData)
  BY NothingWaits DEF Init
<1>2. TypeOK
  <2>1. sequence \in 1 .. MaxRequests + 1 /\ retryCount \in 0 .. MaxRetries /\ retries \in Nat
    BY ClientAssumption DEF Init
  <2>2. QED
    BY <1>1, <2>1 DEF Init, TypeOK, Statuses, Kinds
<1>3. Unsent /\ NotSentTwice
  BY <1>1 DEF Init, Unsent, NotSentTwice
<1>4. PendingIsOpen /\ NoSessionWithoutSocket /\ QueueIsServed
  BY DEF Init, PendingIsOpen, NoSessionWithoutSocket, QueueIsServed
<1>5. QED
  BY <1>2, <1>3, <1>4 DEF IInv

-----------------------------------------------------------------------------
(***************************************************************************)
(* Retries: counted no further than maxRetries, with one more timer unless *)
(* they are used up or the application has disconnected.                   *)
(***************************************************************************)
LEMMA RetryBounded ==
    ASSUME TypeOK, Retry
    PROVE  /\ retryCount' \in 0 .. MaxRetries /\ retries' \in Nat
           /\ reconnect => retries' > 0 \/ retryCount' = MaxRetries
<1> DEFINE more == IF reconnect /\ retryCount < MaxRetries THEN 1 ELSE 0
<1>1. retryCount' = retryCount + more /\ retries' = retries + more
  BY DEF Retry
<1>2. retryCount \in 0 .. MaxRetries /\ retries \in Nat /\ MaxRetries \in Nat
  BY ClientAssumption DEF TypeOK
<1>3. QED
  BY <1>1, <1>2

\* The three events that end a socket are Over.
LEMMA IsOver ==
    ASSUME NEW s, Fail(s) \/ CloseAfterError(s) \/ PeerCloses(s)
    PROVE  \E to \in {"gone", "failed"} : Over(s, to)
BY DEF Fail, CloseAfterError, PeerCloses

-----------------------------------------------------------------------------
(***************************************************************************)
(* The type.                                                               *)
(***************************************************************************)
LEMMA SentType ==
    ASSUME TypeOK, sequence <= MaxRequests, NEW k \in Kinds, Sent(k)
    PROVE  /\ sequence \in Requests
           /\ sequence' \in 1 .. MaxRequests + 1 /\ kind' \in [Requests -> Kinds]
           /\ pendingMessages' \subseteq Requests /\ deadlines' \subseteq Requests
           /\ outcome' \in [Requests -> {"none", "open", "resolved", "rejected"}]
<1>1. sequence \in Requests /\ sequence' \in 1 .. MaxRequests + 1
  BY ClientAssumption DEF TypeOK, Requests, Sent
<1>2. QED
  BY <1>1 DEF TypeOK, Sent

LEMMA WrittenType ==
    ASSUME TypeOK, NEW M \in SUBSET Requests, NEW s, Written(s, M)
    PROVE  carried' \in [Sockets -> SUBSET Requests] /\ writes' \in [Requests -> Nat]
<1>1. carried' \in [Sockets -> SUBSET Requests]
  <2>1. CASE carried' = [carried EXCEPT ![s] = @ \cup M]
    BY <2>1 DEF TypeOK
  <2>2. CASE UNCHANGED carried
    BY <2>2 DEF TypeOK
  <2>3. QED
    BY <2>1, <2>2 DEF Written, wire
<1>2. CASE writes' = [n \in Requests |-> writes[n] + IF n \in M THEN 1 ELSE 0]
  <2>1. \A n \in Requests : writes[n] + (IF n \in M THEN 1 ELSE 0) \in Nat
    BY DEF TypeOK
  <2>2. QED
    BY <1>1, <1>2, <2>1
<1>3. CASE UNCHANGED writes
  BY <1>1, <1>3 DEF TypeOK
<1>4. QED
  BY <1>1, <1>2, <1>3 DEF Written, wire

LEMMA TypeStep == TypeOK /\ [Next]_vars => TypeOK'
<1> SUFFICES ASSUME TypeOK, [Next]_vars PROVE TypeOK'
  OBVIOUS
<1> USE ClientAssumption DEF connection, requests, wire, Disconnected
<1>1. CASE Connect
  BY <1>1 DEF Connect, Connecting, TypeOK, Statuses
<1>2. CASE RetryConnect
  BY <1>2 DEF RetryConnect, Connecting, Is, TypeOK, Statuses
<1>3. CASE Disconnect
  <2>1. /\ ending' \subseteq Sockets /\ socket' \in Sockets \cup {NoSocket}
        /\ connected' \in BOOLEAN /\ clientConnected' \in BOOLEAN
        /\ reconnect' \in BOOLEAN /\ authenticated' \in BOOLEAN
    <3>1. CASE socket = NoSocket
      BY <1>3, <3>1 DEF Disconnect, TypeOK
    <3>2. CASE socket # NoSocket /\ status[socket] \in {"gone", "failed"}
      BY <1>3, <3>2 DEF Disconnect, TypeOK
    <3>3. CASE socket # NoSocket /\ status[socket] \notin {"gone", "failed"}
      <4>1. /\ ending' = ending \cup {socket} /\ reconnect' = FALSE
            /\ UNCHANGED <<socket, connected, clientConnected, authenticated>>
        BY <1>3, <3>3, Zenon DEF Disconnect
      <4>2. socket \in Sockets
        BY <3>3 DEF TypeOK
      <4>3. QED
        BY <4>1, <4>2 DEF TypeOK
    <3>4. QED
      BY <3>1, <3>2, <3>3
  <2>2. UNCHANGED <<requests, status, awaited, retryCount, retries, pendingData, wire>>
    BY <1>3 DEF Disconnect
  <2>3. QED
    BY <2>1, <2>2 DEF TypeOK
<1>4. ASSUME NEW s \in Sockets, Connected(s) PROVE TypeOK'
  <2>1. status' \in [Sockets -> Statuses] /\ retryCount' \in 0 .. MaxRetries
    BY <1>4 DEF Connected, TypeOK, Statuses
  <2>2. pendingData' \in Seq(Requests) /\ ToSet(pendingData) \subseteq Requests
    BY <1>4, NothingWaits DEF Connected, TypeOK, ToSet
  <2>3. CASE s \in awaited /\ sequence <= MaxRequests
    <3>1. Sent("HANDSHAKE") /\ Written(socket, ToSet(pendingData) \cup {sequence})
      BY <1>4, <2>3 DEF Connected
    <3>2. "HANDSHAKE" \in Kinds
      BY DEF Kinds
    <3>3. sequence \in Requests
      BY <2>3, <3>1, <3>2, SentType
    <3>4. carried' \in [Sockets -> SUBSET Requests] /\ writes' \in [Requests -> Nat]
      BY <2>2, <3>1, <3>3, WrittenType
    <3>5. /\ sequence' \in 1 .. MaxRequests + 1 /\ kind' \in [Requests -> Kinds]
          /\ pendingMessages' \subseteq Requests /\ deadlines' \subseteq Requests
          /\ outcome' \in [Requests -> {"none", "open", "resolved", "rejected"}]
      BY <2>3, <3>1, <3>2, SentType
    <3>6. QED
      BY <1>4, <2>1, <2>2, <3>4, <3>5 DEF Connected, TypeOK
  <2>4. CASE ~(s \in awaited /\ sequence <= MaxRequests)
    <3>1. UNCHANGED requests /\ Written(socket, ToSet(pendingData))
      BY <1>4, <2>4 DEF Connected
    <3>2. carried' \in [Sockets -> SUBSET Requests] /\ writes' \in [Requests -> Nat]
      BY <2>2, <3>1, WrittenType
    <3>3. QED
      BY <1>4, <2>1, <2>2, <3>1, <3>2 DEF Connected, TypeOK
  <2>5. QED
    BY <2>3, <2>4
<1>5. ASSUME NEW s \in Sockets, Fail(s) \/ CloseAfterError(s) \/ PeerCloses(s) PROVE TypeOK'
  <2>1. PICK to \in {"gone", "failed"} : Over(s, to)
    BY <1>5, IsOver
  <2>2. retryCount' \in 0 .. MaxRetries /\ retries' \in Nat
    BY <2>1, RetryBounded DEF Over
  <2>3. QED
    BY <2>1, <2>2 DEF Over, TypeOK, Statuses
<1>6. ASSUME NEW s \in Sockets, Ended(s) PROVE TypeOK'
  BY <1>6 DEF Ended, TypeOK, Statuses
<1>7. ASSUME NEW k \in {"AUTH", "COMMAND"}, Request(k) PROVE TypeOK'
  <2>1. sequence <= MaxRequests /\ k \in Kinds /\ Sent(k) /\ Transmit({sequence})
    BY <1>7 DEF Request, Kinds
  <2>2. /\ sequence \in Requests
        /\ sequence' \in 1 .. MaxRequests + 1 /\ kind' \in [Requests -> Kinds]
        /\ pendingMessages' \subseteq Requests /\ deadlines' \subseteq Requests
        /\ outcome' \in [Requests -> {"none", "open", "resolved", "rejected"}]
    BY <2>1, SentType
  <2>3. pendingData' \in Seq(Requests)
    <3>1. pendingData \in Seq(Requests)
      BY DEF TypeOK
    <3>2. CASE pendingData' = pendingData \o SetToSeq({sequence})
      BY <2>2, <3>1, <3>2, Queued
    <3>3. QED
      BY <2>1, <3>1, <3>2 DEF Transmit
  <2>4. carried' \in [Sockets -> SUBSET Requests] /\ writes' \in [Requests -> Nat]
    BY <2>1, <2>2, WrittenType DEF Transmit, TypeOK
  <2>5. status' \in [Sockets -> Statuses] /\ socket' \in Sockets \cup {NoSocket}
    BY <2>1 DEF Transmit, Connecting, Is, TypeOK, Statuses
  <2>6. QED
    BY <1>7, <2>2, <2>3, <2>4, <2>5 DEF Request, TypeOK
<1>8. ASSUME NEW s \in Sockets, NEW n \in Requests, Response(s, n) PROVE TypeOK'
  BY <1>8, Zenon DEF Response, Settled, TypeOK
<1>9. ASSUME NEW s \in Sockets, NEW n \in Requests, ErrorResponse(s, n) \/ AuthMessage(s, n)
      PROVE  TypeOK'
  BY <1>9 DEF ErrorResponse, AuthMessage, Settled, TypeOK
<1>10. ASSUME NEW n \in Requests, Timeout(n) PROVE TypeOK'
  BY <1>10 DEF Timeout, Settled, TypeOK
<1>11. CASE UNCHANGED vars
  BY <1>11 DEF vars, TypeOK
<1>12. QED
  BY <1>1, <1>2, <1>3, <1>4, <1>5, <1>6, <1>7, <1>8, <1>9, <1>10, <1>11 DEF Next

-----------------------------------------------------------------------------
(***************************************************************************)
(* Requests: a promise is opened with its entry and its timer, and settled *)
(* by whoever takes the entry away.                                        *)
(***************************************************************************)
LEMMA PendingStep == TypeOK /\ PendingIsOpen /\ [Next]_vars => PendingIsOpen'
<1> SUFFICES ASSUME TypeOK, PendingIsOpen, [Next]_vars PROVE PendingIsOpen'
  OBVIOUS
<1> USE DEF TypeOK, PendingIsOpen
<1>1. CASE UNCHANGED requests
  BY <1>1 DEF requests
<1>2. ASSUME NEW k, Sent(k) PROVE PendingIsOpen'
  BY <1>2 DEF Sent
<1>3. ASSUME NEW s \in Sockets, NEW n \in Requests, Response(s, n) \/ ErrorResponse(s, n)
      PROVE  PendingIsOpen'
  BY <1>3 DEF Response, ErrorResponse, Settled
<1>4. ASSUME NEW n \in Requests, Timeout(n) PROVE PendingIsOpen'
  BY <1>4 DEF Timeout, Settled
<1>5. ASSUME NEW s \in Sockets, Connected(s) PROVE PendingIsOpen'
  BY <1>1, <1>2, <1>5 DEF Connected
<1>6. ASSUME NEW k, Request(k) PROVE PendingIsOpen'
  BY <1>2, <1>6 DEF Request
<1>7. ASSUME NEW s \in Sockets, NEW n \in Requests, AuthMessage(s, n)
      PROVE  PendingIsOpen'
  BY <1>1, <1>7 DEF AuthMessage
<1>8. CASE UNCHANGED vars
  BY <1>1, <1>8 DEF vars
<1>9. ASSUME NEW s \in Sockets,
             Fail(s) \/ CloseAfterError(s) \/ PeerCloses(s) \/ Ended(s)
      PROVE  PendingIsOpen'
  BY <1>1, <1>9, IsOver DEF Over, Ended
<1>10. CASE Connect \/ RetryConnect \/ Disconnect
  BY <1>1, <1>10 DEF Connect, RetryConnect, Disconnect
<1>11. QED
  BY <1>1, <1>3, <1>4, <1>5, <1>6, <1>7, <1>8, <1>9, <1>10 DEF Next

-----------------------------------------------------------------------------
(***************************************************************************)
(* The session: whatever ends a socket ends the session, whichever socket  *)
(* it is, and only an open one begins it.                                  *)
(***************************************************************************)
LEMMA SessionStep == TypeOK /\ NoSessionWithoutSocket /\ [Next]_vars => NoSessionWithoutSocket'
<1> SUFFICES ASSUME TypeOK, NoSessionWithoutSocket, [Next]_vars PROVE NoSessionWithoutSocket'
  OBVIOUS
<1> USE DEF TypeOK, NoSessionWithoutSocket, Disconnected
<1>1. ASSUME NEW s \in Sockets, Connecting(s), UNCHANGED <<connected, clientConnected>>
      PROVE  NoSessionWithoutSocket'
  BY <1>1 DEF Connecting
<1>2. CASE Connect \/ RetryConnect
  BY <1>1, <1>2 DEF Connect, RetryConnect, Is
<1>3. CASE Disconnect
  BY <1>3 DEF Disconnect
<1>4. ASSUME NEW s \in Sockets, Connected(s) PROVE NoSessionWithoutSocket'
  BY <1>4 DEF Connected
<1>5. ASSUME NEW s \in Sockets,
             Fail(s) \/ CloseAfterError(s) \/ PeerCloses(s) \/ Ended(s)
      PROVE  NoSessionWithoutSocket'
  BY <1>5, IsOver DEF Over, Ended
<1>6. ASSUME NEW k, Request(k) PROVE NoSessionWithoutSocket'
  BY <1>1, <1>6 DEF Request, Transmit, Is
<1>7. ASSUME NEW s \in Sockets, NEW n \in Requests,
             Response(s, n) \/ ErrorResponse(s, n) \/ AuthMessage(s, n)
      PROVE  NoSessionWithoutSocket'
  <2>1. status[s] \notin {"gone", "failed"} /\ UNCHANGED <<status, connected, clientConnected>>
    BY <1>7 DEF Response, ErrorResponse, AuthMessage, connection
  <2>2. QED
    BY <2>1
<1>8. ASSUME NEW n \in Requests, Timeout(n) PROVE NoSessionWithoutSocket'
  BY <1>8 DEF Timeout, connection
<1>9. CASE UNCHANGED vars
  BY <1>9 DEF vars, connection
<1>10. QED
  BY <1>2, <1>3, <1>4, <1>5, <1>6, <1>7, <1>8, <1>9 DEF Next

-----------------------------------------------------------------------------
(***************************************************************************)
(* The queue: what waits keeps its attempt to connect, until the attempt   *)
(* succeeds and takes all of it, or fails and leaves a timer.              *)
(***************************************************************************)
LEMMA QueueStep == TypeOK /\ QueueIsServed /\ [Next]_vars => QueueIsServed'
<1> SUFFICES ASSUME TypeOK, QueueIsServed, [Next]_vars PROVE QueueIsServed'
  OBVIOUS
<1> USE ClientAssumption DEF TypeOK, QueueIsServed, Is, Disconnected
<1>1. ASSUME NEW s \in Sockets, Connecting(s), connected' = FALSE PROVE QueueIsServed'
  BY <1>1 DEF Connecting
<1>2. CASE Connect
  BY <1>2 DEF Connect, Connecting
<1>3. CASE RetryConnect
  <2>1. PICK s \in Sockets : Connecting(s)
    BY <1>3 DEF RetryConnect
  <2>2. UNCHANGED <<pendingData, connected>>
    BY <1>3 DEF RetryConnect
  <2>3. QED
    BY <2>1, <2>2 DEF Connecting
<1>4. CASE Disconnect
  BY <1>4 DEF Disconnect
<1>5. ASSUME NEW s \in Sockets, Connected(s) PROVE QueueIsServed'
  BY <1>5 DEF Connected
<1>6. ASSUME NEW s \in Sockets, Fail(s) \/ CloseAfterError(s) \/ PeerCloses(s)
      PROVE  QueueIsServed'
  <2>1. PICK to \in {"gone", "failed"} : Over(s, to)
    BY <1>6, IsOver
  <2>2. connected' = FALSE /\ reconnect' = reconnect
    BY <2>1 DEF Over
  <2>3. reconnect => retries' > 0 \/ retryCount' = MaxRetries
    BY <2>1, RetryBounded DEF Over
  <2>4. QED
    BY <2>2, <2>3
<1>7. ASSUME NEW s \in Sockets, Ended(s) PROVE QueueIsServed'
  BY <1>7 DEF Ended
<1>8. ASSUME NEW k, Request(k) PROVE QueueIsServed'
  <2>1. Transmit({sequence}) /\ UNCHANGED <<connected, retryCount, retries, reconnect>>
    BY <1>8 DEF Request
  <2>2. CASE ~connected /\ \E s \in Sockets : Connecting(s)
    BY <1>1, <2>1, <2>2
  <2>3. CASE UNCHANGED <<pendingData, status>>
    BY <2>1, <2>3
  <2>4. QED
    BY <2>1, <2>2, <2>3 DEF Transmit
<1>9. ASSUME NEW s \in Sockets, NEW n \in Requests,
             Response(s, n) \/ ErrorResponse(s, n) \/ AuthMessage(s, n) \/ Timeout(n)
      PROVE  QueueIsServed'
  <2>1. UNCHANGED <<connection, pendingData>>
    BY <1>9 DEF Response, ErrorResponse, AuthMessage, Timeout
  <2>2. QED
    BY <2>1 DEF connection
<1>10. ASSUME NEW n \in Requests, Timeout(n) PROVE QueueIsServed'
  BY <1>10 DEF Timeout, connection
<1>11. CASE UNCHANGED vars
  BY <1>11 DEF vars, connection
<1>12. QED
  BY <1>2, <1>3, <1>4, <1>5, <1>6, <1>7, <1>8, <1>9, <1>10, <1>11 DEF Next

-----------------------------------------------------------------------------
(***************************************************************************)
(* Sent once.  A step writes what waited, which then waits no more, or     *)
(* gives a new number, which is written or waits.                          *)
(***************************************************************************)
Once == Unsent /\ NotSentTwice

\* What a write adds to the history, whether it reaches a socket or not.
LEMMA WrittenOnce ==
    ASSUME TypeOK, NEW s, NEW M \in SUBSET Requests, Written(s, M),
           \A n \in M : writes[n] = 0
    PROVE  /\ \A n \in M : writes'[n] <= 1
           /\ \A n \in Requests \ M : writes'[n] = writes[n]
<1>1. CASE writes' = [n \in Requests |-> writes[n] + IF n \in M THEN 1 ELSE 0]
  BY <1>1 DEF TypeOK
<1>2. CASE UNCHANGED writes
  BY <1>2
<1>3. QED
  BY <1>1, <1>2 DEF Written, wire

\* What waited, and perhaps a new number, is written.
LEMMA Flushed ==
    ASSUME TypeOK, Once, pendingData' = <<>>,
           \/ Written(socket, ToSet(pendingData)) /\ sequence' = sequence
           \/ Written(socket, ToSet(pendingData) \cup {sequence}) /\ sequence' = sequence + 1,
           sequence' > sequence => sequence \in Requests
    PROVE  Once'
<1> DEFINE M == IF sequence' = sequence THEN ToSet(pendingData) ELSE ToSet(pendingData) \cup {sequence}
<1>1. sequence \in Int /\ sequence' \in {sequence, sequence + 1}
  BY ClientAssumption DEF TypeOK
<1>2. Written(socket, M)
  BY <1>1
<1>3. M \in SUBSET Requests
  BY <1>1 DEF TypeOK, ToSet
<1>4. \A n \in M : writes[n] = 0
  BY <1>1, <1>3 DEF Once, Unsent, NotSentTwice
<1>5. \A n \in M : n < sequence'
  BY <1>1, <1>3, ClientAssumption DEF Once, Unsent, Requests
<1> HIDE DEF M
<1>6. ToSet(pendingData') = {} /\ IsInjective(pendingData')
  BY NothingWaits
<1>7. /\ \A n \in M : writes'[n] <= 1
      /\ \A n \in Requests \ M : writes'[n] = writes[n]
  BY <1>2, <1>3, <1>4, WrittenOnce
<1>8. Unsent'
  <2>1. ASSUME NEW n \in Requests, n >= sequence' PROVE writes'[n] = 0
    <3>1. n \notin M /\ n >= sequence
      BY <2>1, <1>1, <1>5, ClientAssumption DEF Requests
    <3>2. QED
      BY <3>1, <1>7 DEF Once, Unsent
  <2>2. QED
    BY <2>1, <1>6 DEF Unsent
<1>9. NotSentTwice'
  BY <1>6, <1>7 DEF Once, NotSentTwice
<1>10. QED
  BY <1>8, <1>9 DEF Once

\* A new number is written, or waits, or is dropped.
LEMMA Given ==
    ASSUME TypeOK, Once, sequence \in Requests, sequence' = sequence + 1, Transmit({sequence})
    PROVE  Once'
<1>1. sequence \in Int /\ pendingData \in Seq(Requests)
  BY ClientAssumption DEF TypeOK
<1>2. writes[sequence] = 0 /\ sequence \notin ToSet(pendingData)
  BY <1>1 DEF Once, Unsent
<1>3. \A m \in Requests : m >= sequence' => m >= sequence /\ m # sequence
  BY <1>1 DEF Requests
<1>4. CASE Written(socket, {sequence}) /\ UNCHANGED pendingData
  <2>1. /\ writes'[sequence] <= 1
        /\ \A n \in Requests \ {sequence} : writes'[n] = writes[n]
    BY <1>2, <1>4, WrittenOnce
  <2>2. Unsent'
    BY <1>3, <1>4, <2>1 DEF Once, Unsent
  <2>3. NotSentTwice'
    BY <1>2, <1>4, <2>1 DEF Once, NotSentTwice
  <2>4. QED
    BY <2>2, <2>3 DEF Once
<1>5. CASE pendingData' = pendingData \o SetToSeq({sequence}) /\ UNCHANGED writes
  <2>1. ToSet(pendingData') = ToSet(pendingData) \cup {sequence}
    BY <1>1, <1>5, Queued, Zenon
  <2>2. IsInjective(pendingData')
    BY <1>1, <1>2, <1>5, Queued DEF Once, NotSentTwice
  <2>3. Unsent'
    BY <1>3, <1>5, <2>1, Zenon DEF Once, Unsent
  <2>4. NotSentTwice'
    BY <1>2, <1>5, <2>1, <2>2, Zenon DEF Once, NotSentTwice
  <2>5. QED
    BY <2>3, <2>4 DEF Once
<1>6. CASE UNCHANGED <<pendingData, writes>>
  BY <1>3, <1>6 DEF Once, Unsent, NotSentTwice
<1>7. QED
  BY <1>4, <1>5, <1>6 DEF Transmit, wire

LEMMA OnceStep == TypeOK /\ Once /\ [Next]_vars => Once'
<1> SUFFICES ASSUME TypeOK, Once, [Next]_vars PROVE Once'
  OBVIOUS
<1> USE DEF requests, wire
<1>1. CASE UNCHANGED <<sequence, pendingData, writes>>
  BY <1>1 DEF Once, Unsent, NotSentTwice
<1>2. ASSUME NEW s \in Sockets, Fail(s) \/ CloseAfterError(s) \/ PeerCloses(s) PROVE Once'
  BY <1>1, <1>2, IsOver DEF Over
<1>3. ASSUME NEW s \in Sockets, Connected(s) PROVE Once'
  <2>1. sequence \in 1 .. MaxRequests + 1
    BY DEF TypeOK
  <2>2. QED
    BY <1>3, <2>1, ClientAssumption, Flushed DEF Connected, Sent, Requests
<1>4. ASSUME NEW k, Request(k) PROVE Once'
  <2>1. sequence \in Requests
    BY <1>4, ClientAssumption DEF Request, Requests, TypeOK
  <2>2. QED
    BY <1>4, <2>1, Given DEF Request, Sent
<1>5. CASE Connect \/ RetryConnect \/ Disconnect
  BY <1>1, <1>5 DEF Connect, RetryConnect, Disconnect
<1>6. ASSUME NEW s \in Sockets, Ended(s) PROVE Once'
  BY <1>1, <1>6 DEF Ended
<1>7. ASSUME NEW s \in Sockets, NEW n \in Requests,
             Response(s, n) \/ ErrorResponse(s, n) \/ AuthMessage(s, n)
      PROVE  Once'
  BY <1>1, <1>7 DEF Response, ErrorResponse, AuthMessage
<1>8. ASSUME NEW n \in Requests, Timeout(n) PROVE Once'
  BY <1>1, <1>8 DEF Timeout
<1>9. CASE UNCHANGED vars
  BY <1>1, <1>9 DEF vars
<1>10. QED
  BY <1>2, <1>3, <1>4, <1>5, <1>6, <1>7, <1>8, <1>9 DEF Next

-----------------------------------------------------------------------------
LEMMA Inductive == IInv /\ [Next]_vars => IInv'
  BY TypeStep, OnceStep, PendingStep, SessionStep, QueueStep DEF IInv, Once

(***************************************************************************)
(* The type, and with it that retries are never counted above maxRetries,  *)
(* however many of their timers are pending (NetworkEndpoint.js:192-194).  *)
(***************************************************************************)
THEOREM Typed == Spec => []TypeOK
<1>1. IInv => TypeOK
  BY DEF IInv
<1>2. QED
  BY Initially, Inductive, <1>1, PTL DEF Spec

(***************************************************************************)
(* ProtocolHandler.js: pendingMessages is the table of the promises that   *)
(* are open, each with its timer, for any number of requests and sockets.  *)
(***************************************************************************)
THEOREM TableIsOfOpenPromises == Spec => []PendingIsOpen
<1>1. IInv => PendingIsOpen
  BY DEF IInv
<1>2. QED
  BY Initially, Inductive, <1>1, PTL DEF Spec

(***************************************************************************)
(* NetworkEndpoint.js: over the whole life of the client a request is      *)
(* written at most once, to one socket, and not while it still waits in    *)
(* pendingData, however often connections are lost and made.               *)
(***************************************************************************)
THEOREM SentOnce == Spec => []NotSentTwice
<1>1. IInv => NotSentTwice
  BY DEF IInv
<1>2. QED
  BY Initially, Inductive, <1>1, PTL DEF Spec

(***************************************************************************)
(* PolyCallClient.js: without a socket the client says neither connected   *)
(* nor authenticated, and it does not say connected where its endpoint     *)
(* says that it is not.                                                    *)
(***************************************************************************)
THEOREM SessionNeedsSocket == Spec => []NoSessionWithoutSocket
<1>1. IInv => NoSessionWithoutSocket
  BY DEF IInv
<1>2. QED
  BY Initially, Inductive, <1>1, PTL DEF Spec

(***************************************************************************)
(* NetworkEndpoint.js: pendingData waits only with an attempt or a timer   *)
(* to come, until the retries are used up, for any number of them.         *)
(***************************************************************************)
THEOREM QueueServed == Spec => []QueueIsServed
<1>1. IInv => QueueIsServed
  BY DEF IInv
<1>2. QED
  BY Initially, Inductive, <1>1, PTL DEF Spec
=============================================================================
