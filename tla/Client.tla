------------------------------- MODULE Client -------------------------------
(***************************************************************************)
(* The client's end of the wire: LSClient (initialize, request, notify,    *)
(* changeTransport) over LSWebSocketTransport (connect, the buffers, the   *)
(* listeners of the WebSocket, dispose).                                   *)
(*                                                                         *)
(* An action is an event of the browser, with the promise continuations    *)
(* that follow it, or a call the application makes. A WebSocket that fails *)
(* emits "error" and then "close"; the continuations of the first run, and *)
(* may call the transport, before the second.                              *)
(***************************************************************************)
EXTENDS Naturals, Sequences

CONSTANTS
    Transports,  \* LSWebSocketTransport objects
    First,       \* the transport the client is created with
    None,        \* null, for transports and sockets
    Requests,    \* requests of the application, other than initialize
    MaxNotes,    \* bound: notifications of the application
    MaxInits,    \* bound: calls of initialize()
    MaxSockets   \* bound: WebSockets

ASSUME TransportAssumption == First \in Transports /\ None \notin Transports
ASSUME BoundAssumption == MaxNotes \in Nat /\ MaxInits \in Nat \ {0} /\ MaxSockets \in Nat

Sockets == 1 .. MaxSockets
NoSocket == 0
Message == [kind : {"request"}, of : Requests]
           \cup [kind : {"initialize", "initialized"}, of : 1 .. MaxInits]
           \cup [kind : {"note"}, of : 1 .. MaxNotes]
Msg(kind, of) == [kind |-> kind, of |-> of]
IsRequest(m) == m.kind \in {"request", "initialize"}
Calls == {m \in Message : IsRequest(m)}
Notes == Message \ Calls

VARIABLES
    ready, transport, \* LSClient's
    gate,     \* requests that await initializePromise, in order
    outcome,  \* of each request
    inits,    \* calls of initialize() so far
    noted,    \* notifications of the application so far
    told,     \* what the client has given to each transport, in order
    tr,       \* connection, #messageConnection (its socket), #connectingPromise
              \* (its socket), #disposed and the buffers of each transport
    socket,   \* each WebSocket; "failing": its close event is about to come
    maker,    \* the transport that made it
    outq,     \* messages given to its message connection and not yet written
    wire      \* messages sent over it

clientVars == <<ready, transport, gate, inits, noted, told>>
vars == <<clientVars, outcome, tr, socket, maker, outq, wire>>

SomeSocket == Sockets \cup {NoSocket}
TransportState ==
    [connection : SomeSocket, messages : SomeSocket, connecting : SomeSocket,
     disposed : BOOLEAN, notes : Seq(Message), requests : Seq(Message)]

\* Types; the promises of gated requests are pending, and only those of
\* requests that were made are settled.
TypeOK ==
    /\ ready \in BOOLEAN
    /\ transport \in Transports
    /\ gate \in Seq(Calls)
    /\ \A i \in DOMAIN gate : outcome[gate[i]] = "pending"
    /\ outcome \in [Calls -> {"none", "pending", "resolved", "rejected"}]
    /\ inits \in 1 .. MaxInits /\ noted \in 0 .. MaxNotes
    /\ told \in [Transports -> Seq(Message)]
    /\ tr \in [Transports -> TransportState]
    /\ socket \in [Sockets -> {"unused", "connecting", "open", "closing", "failing", "closed"}]
    /\ maker \in [Sockets -> Transports \cup {None}]
    /\ outq \in [Sockets -> Seq(Message)]
    /\ wire \in [Sockets -> Seq(Message)]

\* The client has been created, with a transport that is not connected yet.
Init ==
    LET first == Msg("initialize", 1)
    IN /\ ready = FALSE
       /\ transport = First
       /\ gate = << >>
       /\ outcome = [c \in Calls |-> IF c = first THEN "pending" ELSE "none"]
       /\ inits = 1 /\ noted = 0
       /\ told = [t \in Transports |-> IF t = First THEN <<first>> ELSE << >>]
       /\ tr = [t \in Transports |->
                  [connection |-> NoSocket, messages |-> NoSocket,
                   connecting |-> NoSocket, disposed |-> FALSE, notes |-> << >>,
                   requests |-> told[t]]]
       /\ socket = [k \in Sockets |-> "unused"]
       /\ maker = [k \in Sockets |-> None]
       /\ outq = [k \in Sockets |-> << >>]
       /\ wire = [k \in Sockets |-> << >>]

\* No close event is due: the browser may deliver another event.
Quiet == \A k \in Sockets : socket[k] # "failing"

-----------------------------------------------------------------------------
(* sendRequest and sendNotification *)

\* Transport t, which is not disposed, is given notifications and then requests.
Give(t, ns, rs) ==
    /\ told' = [told EXCEPT ![t] = @ \o ns \o rs]
    /\ IF tr[t].messages # NoSocket
       THEN /\ outq' = [outq EXCEPT ![tr[t].messages] = @ \o ns \o rs]
            /\ UNCHANGED tr
       ELSE /\ tr' = [tr EXCEPT ![t].notes = @ \o ns, ![t].requests = @ \o rs]
            /\ UNCHANGED outq

\* A call of sendRequest that may throw because the transport is disposed.
Send(c) ==
    \/ /\ tr[transport'].disposed
       /\ outcome' = [outcome EXCEPT ![c] = "rejected"]
       /\ UNCHANGED <<told, tr, outq>>
    \/ /\ ~tr[transport'].disposed
       /\ outcome' = [outcome EXCEPT ![c] = "pending"]
       /\ Give(transport', << >>, <<c>>)

-----------------------------------------------------------------------------
(* The application's calls of LSClient *)

GatedUnlessConnected == ~ready /\ tr[transport].messages = NoSocket
Gated == ~ready

Request(r) ==
    LET c == Msg("request", r)
    IN /\ outcome[c] = "none"
       /\ UNCHANGED transport
       /\ \/ /\ Gated
             /\ gate' = Append(gate, c)
             /\ outcome' = [outcome EXCEPT ![c] = "pending"]
             /\ UNCHANGED <<told, tr, outq>>
          \/ /\ ~Gated
             /\ Send(c)
             /\ UNCHANGED gate
       /\ UNCHANGED <<ready, inits, noted, socket, maker, wire>>

\* Whether the client is ready does not matter: an editor that is destroyed, say,
\* notifies of didClose at any time. A disposed transport throws.
Notify ==
    /\ noted < MaxNotes
    /\ noted' = noted + 1
    /\ \/ /\ tr[transport].disposed
          /\ UNCHANGED <<told, tr, outq>>
       \/ /\ ~tr[transport].disposed
          /\ Give(transport, <<Msg("note", noted')>>, << >>)
    /\ UNCHANGED <<ready, transport, gate, inits, outcome, socket, maker, wire>>

\* changeTransport, to a new transport, and initialize() at once, as is asked
\* for when it leads to another process.
Change(t) ==
    /\ inits < MaxInits
    /\ told[t] = << >> /\ ~tr[t].disposed
    /\ transport' = t
    /\ inits' = inits + 1
    /\ Send(Msg("initialize", inits'))
    /\ UNCHANGED <<ready, gate, noted, socket, maker, wire>>

-----------------------------------------------------------------------------
(* connect and dispose *)

NextSocket(k) ==
    k \in Sockets /\ socket[k] = "unused" /\ \A j \in 1 .. (k - 1) : socket[j] # "unused"

IsOpen(k) == k # NoSocket /\ socket[k] = "open"

\* connect() makes a WebSocket, unless one is being connected or is open.
MayMakeWhenNotOpen(t) == ~IsOpen(tr[t].connection)
MayMake(t) == tr[t].connecting = NoSocket /\ ~IsOpen(tr[t].connection)

Connect(t) ==
    /\ ~tr[t].disposed
    /\ MayMake(t)
    /\ \E k \in Sockets :
        /\ NextSocket(k)
        /\ socket' = [socket EXCEPT ![k] = "connecting"]
        /\ maker' = [maker EXCEPT ![k] = t]
        /\ tr' = [tr EXCEPT ![t].connection = k, ![t].connecting = k]
    /\ UNCHANGED <<clientVars, outcome, outq, wire>>

\* connection?.close(): no message gets through any more.
CloseConnection(t, sockets) ==
    [k \in Sockets |-> IF k = tr[t].connection /\ sockets[k] \in {"connecting", "open"}
                       THEN "closing" ELSE sockets[k]]

Dispose(t) ==
    /\ ~tr[t].disposed
    /\ tr' = [tr EXCEPT ![t].disposed = TRUE]
    /\ socket' = CloseConnection(t, socket)
    /\ UNCHANGED <<clientVars, outcome, maker, outq, wire>>

-----------------------------------------------------------------------------
(* The events of a WebSocket *)

\* onOpenCb: #setupMessageConnection sends what is buffered.
FlushKeepingNotes(t) == [tr[t] EXCEPT !.requests = << >>]
Flushed(t) == [tr[t] EXCEPT !.notes = << >>, !.requests = << >>]

Opened(k) ==
    /\ Quiet
    /\ socket[k] = "connecting"
    /\ socket' = [socket EXCEPT ![k] = "open"]
    /\ LET t == maker[k]
       IN /\ outq' = [outq EXCEPT ![k] = tr[t].notes \o tr[t].requests]
          /\ tr' = [tr EXCEPT ![t] = [Flushed(t) EXCEPT !.messages = k,
                                                        !.connecting = NoSocket]]
    /\ UNCHANGED <<clientVars, outcome, maker, wire>>

\* onErrorCb: connect() rejects.
Failed(k) ==
    /\ Quiet
    /\ socket[k] = "connecting"
    /\ socket' = [socket EXCEPT ![k] = "failing"]
    /\ tr' = [tr EXCEPT ![maker[k]].connecting = NoSocket]
    /\ UNCHANGED <<clientVars, outcome, maker, outq, wire>>

\* The other side closes the connection, or it is lost.
Lost(k) ==
    /\ Quiet
    /\ socket[k] = "open"
    /\ socket' = [socket EXCEPT ![k] = "closing"]
    /\ UNCHANGED <<clientVars, outcome, tr, maker, outq, wire>>

\* The socket of the message connection that the transport of k has.
MessagesOf(k) == IF maker[k] = None THEN NoSocket ELSE tr[maker[k]].messages

InFlight(k, c) == \E q \in {outq[k], wire[k]} : \E i \in DOMAIN q : q[i] = c

\* #messageConnection?.dispose() rejects what it has not had an answer to.
NotRejected(k) == outcome
DisposeMessages(k) ==
    [c \in Calls |-> IF k # NoSocket /\ InFlight(k, c) /\ outcome[c] = "pending"
                     THEN "rejected" ELSE outcome[c]]

\* onCloseCb, which throws if the transport is disposed. It disposes of the
\* transport's connection, which may be a later one.
Closed(k) ==
    /\ socket[k] = "failing" \/ (socket[k] = "closing" /\ Quiet)
    /\ LET t == maker[k]
           closed == [socket EXCEPT ![k] = "closed"]
       IN \/ /\ tr[t].disposed
             /\ socket' = closed
             /\ UNCHANGED <<outcome, tr>>
          \/ /\ ~tr[t].disposed
             /\ outcome' = DisposeMessages(tr[t].messages)
             /\ tr' = [tr EXCEPT ![t].messages = NoSocket, ![t].disposed = TRUE]
             /\ socket' = CloseConnection(t, closed)
    /\ UNCHANGED <<clientVars, maker, outq, wire>>

\* The message writer gets to the next message: header and body are written one
\* after the other, in one piece; a request that cannot be written is rejected.
Write(k) ==
    /\ Quiet
    /\ outq[k] # << >>
    /\ outq' = [outq EXCEPT ![k] = Tail(@)]
    /\ LET m == Head(outq[k])
       IN \/ /\ socket[k] = "open"
             /\ wire' = [wire EXCEPT ![k] = Append(@, m)]
             /\ UNCHANGED outcome
          \/ /\ socket[k] # "open"
             /\ outcome' = IF IsRequest(m) /\ outcome[m] = "pending"
                           THEN [outcome EXCEPT ![m] = "rejected"] ELSE outcome
             /\ UNCHANGED wire
    /\ UNCHANGED <<clientVars, tr, socket, maker>>

\* initialize() goes on: the client is ready and lets the gated requests go. It
\* throws, and is not ready, if the transport it has by now is disposed.
Initialized(c) ==
    \/ /\ tr[transport].disposed
       /\ outcome' = [outcome EXCEPT ![c] = "resolved"]
       /\ UNCHANGED <<ready, gate, told, tr, outq>>
    \/ /\ ~tr[transport].disposed
       /\ ready' = TRUE
       /\ gate' = << >>
       /\ outcome' = [outcome EXCEPT ![c] = "resolved"]
       /\ Give(transport, <<Msg("initialized", c.of)>>, gate)

\* An answer arrives: a result, or an error (for initialize, also null).
Answer(k, c) ==
    /\ Quiet
    /\ socket[k] = "open" /\ MessagesOf(k) = k
    /\ \E i \in DOMAIN wire[k] : wire[k][i] = c
    /\ outcome[c] = "pending"
    /\ \/ /\ c.kind = "initialize"
          /\ Initialized(c)
       \/ /\ outcome' \in {[outcome EXCEPT ![c] = "rejected"]}
                          \cup (IF c.kind = "initialize" THEN {}
                                ELSE {[outcome EXCEPT ![c] = "resolved"]})
          /\ UNCHANGED <<ready, gate, told, tr, outq>>
    /\ UNCHANGED <<transport, inits, noted, socket, maker, wire>>

-----------------------------------------------------------------------------
Next ==
    \/ \E r \in Requests : Request(r)
    \/ Notify
    \/ \E t \in Transports : Change(t) \/ Connect(t) \/ Dispose(t)
    \/ \E k \in Sockets : \/ Opened(k) \/ Failed(k) \/ Lost(k) \/ Closed(k) \/ Write(k)
                          \/ \E c \in Calls : Answer(k, c)

Spec == Init /\ [][Next]_vars

\* Writes and events that are due happen, and the server answers every request
\* or closes the connection. Nothing is assumed of the application.
Fairness ==
    \A k \in Sockets :
        /\ WF_vars(Write(k)) /\ WF_vars(Closed(k))
        /\ \A c \in Calls : WF_vars(Answer(k, c))

FairSpec == Spec /\ Fairness

-----------------------------------------------------------------------------
(* Properties *)

JustNotes(q) == \A i \in DOMAIN q : q[i].kind = "note"

\* But for the application's notifications, which nothing keeps back, what goes
\* over connection k before the language server there has answered initialize is
\* initialize.
AskedWhenInitialized(k) ==
    \A i \in DOMAIN wire[k] :
        \/ wire[k][i].kind \in {"initialize", "note"}
        \/ \E j \in 1 .. (i - 1) : wire[k][j].kind = "initialize"
                                  /\ outcome[wire[k][j]] = "resolved"

\* The gate of request() and the buffers of the transport keep every request, and
\* initialized, back until the first language server, the one that gets the first
\* request of the client's first transport, has answered initialize
\* (LSClient.ts:230-232, LSWebSocketTransport.ts:102-133, 258-275).
FirstAskedWhenInitialized ==
    \A k \in Sockets :
        /\ maker[k] = First
        /\ \A j \in 1 .. (k - 1) : maker[j] = First => JustNotes(wire[j])
        => AskedWhenInitialized(k)

\* k was open and is about to close, and its transport has connected again: it
\* has forgotten the message connection of k.
Replaced(k) == MessagesOf(k) \notin {k, NoSocket}

\* SelectSeq for the messages in set, as a function that one can prove about.
Only(q, set) ==
    LET upTo[n \in 0 .. Len(q)] ==
            IF n = 0 THEN << >>
            ELSE IF q[n] \in set THEN Append(upTo[n - 1], q[n]) ELSE upTo[n - 1]
    IN upTo[Len(q)]

\* While a transport is not disposed and not losing its connection, the
\* notifications it was given are on the wire, in the writer or in the buffer,
\* once and in order, and so are the requests (LSWebSocketTransport.ts:102-133,
\* 258-275).
NothingLost ==
    \A t \in Transports :
        LET k == tr[t].messages
            sent == IF k = NoSocket THEN << >> ELSE wire[k] \o outq[k]
        IN /\ ~tr[t].disposed
           /\ k = NoSocket \/ socket[k] = "open"
           /\ \A j \in Sockets : maker[j] = t => ~Replaced(j)
           => /\ Only(told[t], Notes) = Only(sent, Notes) \o tr[t].notes
              /\ Only(told[t], Calls) = Only(sent, Calls) \o tr[t].requests

\* A transport knows the one WebSocket it has alive, and has none when it is
\* disposed, whatever connect() calls race with errors and closings
\* (LSWebSocketTransport.ts:147-153, 164-218).
NoSocketLeak ==
    \A k \in Sockets : socket[k] \in {"connecting", "open"} =>
        tr[maker[k]].connection = k /\ ~tr[maker[k]].disposed

\* A request that reached a message connection settles, also when the connection
\* is lost, unless the application disposes of the transport or the transport
\* connects again before the close event (LSWebSocketTransport.ts:191-202).
RequestsSettle ==
    \A c \in Calls, k \in Sockets :
        (outcome[c] = "pending" /\ InFlight(k, c) /\ MessagesOf(k) = k) ~>
            \/ outcome[c] # "pending"
            \/ MessagesOf(k) = k /\ tr[maker[k]].disposed
            \/ Replaced(k)
=============================================================================
