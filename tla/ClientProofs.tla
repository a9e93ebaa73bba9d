---------------------------- MODULE ClientProofs ----------------------------
(***************************************************************************)
(* Theorems about Client, for every number of transports, WebSockets,      *)
(* requests and calls.                                                     *)
(*                                                                         *)
(* A transport never leaks a WebSocket: the guard of connect() looks at    *)
(* #connectingPromise and at the connection, and never at the WebSockets   *)
(* made before; IInv says that one of the two stands for each that is      *)
(* alive. And the first language server is initialized before it is asked  *)
(* anything: FirstInv follows the first initialize through the buffer, the *)
(* writer and the wire, where only notifications are with it until it has  *)
(* been answered. And nothing that a transport is given is lost on its     *)
(* way, repeated or put out of order: DeliveryInv compares it with the     *)
(* buffers and the wire.                                                   *)
(***************************************************************************)
EXTENDS Client, SequenceTheorems, WellFoundedInduction, TLAPS

\* What the steps need of the types.
Types ==
    /\ transport \in Transports
    /\ gate \in Seq(Message)
    /\ inits \in 1 .. MaxInits /\ noted \in 0 .. MaxNotes
    /\ tr \in [Transports -> TransportState]
    /\ socket \in [Sockets -> {"unused", "connecting", "open", "closing", "failing", "closed"}]
    /\ maker \in [Sockets -> Transports \cup {None}]

\* A WebSocket in use has a maker; one that is being connected is the one that
\* #connectingPromise stands for.
Known ==
    \A k \in Sockets :
        /\ socket[k] # "unused" => maker[k] \in Transports
        /\ socket[k] = "connecting" => tr[maker[k]].connecting = k
        /\ socket[k] \in {"connecting", "open"} =>
                tr[maker[k]].connection = k /\ ~tr[maker[k]].disposed

IInv == Types /\ Known

\* None of a transport's fields that Known is about differ in x and y.
SameSockets(x, y) ==
    /\ y.connection = x.connection
    /\ y.connecting = x.connecting
    /\ y.disposed = x.disposed

-----------------------------------------------------------------------------
LEMMA NumbersOfMessages ==
    /\ \A r \in Requests : Msg("request", r) \in Message
    /\ \A i \in 1 .. MaxInits : Msg("initialize", i) \in Message /\ Msg("initialized", i) \in Message
    /\ \A n \in 1 .. MaxNotes : Msg("note", n) \in Message
BY DEF Msg, Message

\* A step that changes no socket and of the transports no more than buffers
\* keeps Known.
LEMMA KnownKept ==
    ASSUME IInv, tr' \in [Transports -> TransportState],
           \A t \in Transports : SameSockets(tr[t], tr'[t]),
           UNCHANGED <<socket, maker>>
    PROVE  Known'
BY DEF IInv, Types, Known, SameSockets

\* Give changes no more than the buffers of one transport.
LEMMA GiveKeeps ==
    ASSUME IInv, NEW t \in Transports, NEW ns \in Seq(Message), NEW rs \in Seq(Message),
           Give(t, ns, rs)
    PROVE  /\ tr' \in [Transports -> TransportState]
           /\ \A u \in Transports : SameSockets(tr[u], tr'[u])
<1>1. CASE tr' = tr
  BY <1>1 DEF IInv, Types, SameSockets
<1>2. CASE tr' = [tr EXCEPT ![t].notes = @ \o ns, ![t].requests = @ \o rs]
  <2>1. tr[t] \in TransportState
    BY DEF IInv, Types
  <2>2. tr[t].notes \o ns \in Seq(Message) /\ tr[t].requests \o rs \in Seq(Message)
    BY <2>1, ConcatProperties DEF TransportState
  <2> DEFINE new == [tr[t] EXCEPT !.notes = @ \o ns, !.requests = @ \o rs]
  <2>3. new \in TransportState /\ SameSockets(tr[t], new)
    BY <2>1, <2>2 DEF TransportState, SameSockets
  <2>4. tr' = [u \in Transports |-> IF u = t THEN new ELSE tr[u]]
    BY <1>2 DEF IInv, Types
  <2> QED BY <2>3, <2>4 DEF IInv, Types, SameSockets
<1> QED BY <1>1, <1>2 DEF Give

-----------------------------------------------------------------------------
(* One lemma per action *)

LEMMA InitEstablishes == Init => IInv
<1> SUFFICES ASSUME Init PROVE IInv
  OBVIOUS
<1> DEFINE first == Msg("initialize", 1)
<1>1. first \in Message
  BY NumbersOfMessages, BoundAssumption
<1>2. <<first>> \in Seq(Message) /\ << >> \in Seq(Message)
  BY <1>1
<1>3. \A t \in Transports : told[t] \in Seq(Message)
  BY <1>2 DEF Init
<1>4. tr \in [Transports -> TransportState]
  BY <1>2, <1>3 DEF Init, TransportState, SomeSocket
<1>5. /\ transport \in Transports
      /\ gate \in Seq(Message)
      /\ inits \in 1 .. MaxInits /\ noted \in 0 .. MaxNotes
  BY TransportAssumption, BoundAssumption DEF Init
<1>6. /\ socket \in [Sockets -> {"unused", "connecting", "open", "closing", "failing", "closed"}]
      /\ maker \in [Sockets -> Transports \cup {None}]
      /\ \A k \in Sockets : socket[k] = "unused"
  BY DEF Init
<1> QED BY <1>4, <1>5, <1>6 DEF IInv, Types, Known

LEMMA RequestKeeps ==
    ASSUME IInv, NEW r \in Requests, Request(r) PROVE IInv'
<1> DEFINE c == Msg("request", r)
<1>1. c \in Message /\ <<c>> \in Seq(Message) /\ << >> \in Seq(Message)
  BY NumbersOfMessages
<1>2. UNCHANGED <<transport, inits, noted, socket, maker>>
  BY DEF Request
<1>3. gate' \in Seq(Message)
  BY <1>1 DEF Request, IInv, Types
<1>4. /\ tr' \in [Transports -> TransportState]
      /\ \A u \in Transports : SameSockets(tr[u], tr'[u])
  <2>1. CASE UNCHANGED tr
    BY <2>1 DEF IInv, Types, SameSockets
  <2>2. CASE Give(transport, << >>, <<c>>)
    BY <2>2, <1>1, GiveKeeps DEF IInv, Types
  <2> QED BY <2>1, <2>2, <1>2 DEF Request, Send
<1>5. Known'
  BY <1>2, <1>4, KnownKept
<1> QED BY <1>2, <1>3, <1>4, <1>5 DEF IInv, Types

LEMMA NotifyKeeps ==
    ASSUME IInv, Notify PROVE IInv'
<1> DEFINE m == Msg("note", noted')
<1>1. noted' \in 1 .. MaxNotes
  BY BoundAssumption DEF Notify, IInv, Types
<1>2. m \in Message /\ <<m>> \in Seq(Message) /\ << >> \in Seq(Message)
  BY <1>1, NumbersOfMessages
<1>3. UNCHANGED <<transport, gate, inits, socket, maker>>
  BY DEF Notify
<1>4. /\ tr' \in [Transports -> TransportState]
      /\ \A u \in Transports : SameSockets(tr[u], tr'[u])
  <2>1. CASE UNCHANGED tr
    BY <2>1 DEF IInv, Types, SameSockets
  <2>2. CASE Give(transport, <<m>>, << >>)
    BY <2>2, <1>2, GiveKeeps DEF IInv, Types
  <2> QED BY <2>1, <2>2 DEF Notify
<1>5. Known'
  BY <1>3, <1>4, KnownKept
<1> QED BY <1>1, <1>3, <1>4, <1>5 DEF IInv, Types

LEMMA ChangeKeeps ==
    ASSUME IInv, NEW t \in Transports, Change(t) PROVE IInv'
<1> DEFINE c == Msg("initialize", inits')
<1>1. inits' \in 1 .. MaxInits
  BY BoundAssumption DEF Change, IInv, Types
<1>2. c \in Message /\ <<c>> \in Seq(Message) /\ << >> \in Seq(Message)
  BY <1>1, NumbersOfMessages
<1>3. transport' \in Transports /\ UNCHANGED <<gate, noted, socket, maker>>
  BY DEF Change
<1>4. /\ tr' \in [Transports -> TransportState]
      /\ \A u \in Transports : SameSockets(tr[u], tr'[u])
  <2>1. CASE UNCHANGED tr
    BY <2>1 DEF IInv, Types, SameSockets
  <2>2. CASE Give(t, << >>, <<c>>)
    BY <2>2, <1>2, GiveKeeps
  <2> QED BY <2>1, <2>2 DEF Change, Send
<1>5. Known'
  BY <1>3, <1>4, KnownKept
<1> QED BY <1>1, <1>3, <1>4, <1>5 DEF IInv, Types

\* connect() makes a WebSocket only when none that is alive is known.
LEMMA ConnectKeeps ==
    ASSUME IInv, NEW t \in Transports, Connect(t) PROVE IInv'
<1>1. PICK k \in Sockets :
        /\ NextSocket(k)
        /\ socket' = [socket EXCEPT ![k] = "connecting"]
        /\ maker' = [maker EXCEPT ![k] = t]
        /\ tr' = [tr EXCEPT ![t].connection = k, ![t].connecting = k]
  BY DEF Connect
<1>2. /\ \A u \in Transports \ {t} : tr'[u] = tr[u]
      /\ tr'[t].connection = k /\ tr'[t].connecting = k
      /\ tr'[t].disposed = tr[t].disposed
      /\ tr' \in [Transports -> TransportState]
  <2> DEFINE new == [tr[t] EXCEPT !.connection = k, !.connecting = k]
  <2>1. tr[t] \in TransportState
    BY DEF IInv, Types
  <2>2. /\ new \in TransportState
        /\ new.connection = k /\ new.connecting = k /\ new.disposed = tr[t].disposed
    BY <2>1 DEF TransportState, SomeSocket
  <2>3. tr' = [u \in Transports |-> IF u = t THEN new ELSE tr[u]]
    BY <1>1 DEF IInv, Types
  <2> QED BY <2>2, <2>3 DEF IInv, Types
<1>3. /\ \A j \in Sockets \ {k} : socket'[j] = socket[j] /\ maker'[j] = maker[j]
      /\ socket'[k] = "connecting" /\ maker'[k] = t
      /\ Types'
  BY <1>1, <1>2 DEF Connect, clientVars, IInv, Types
<1>4. ~tr[t].disposed
  BY DEF Connect
<1>5. \A j \in Sockets : maker[j] = t => socket[j] \notin {"connecting", "open"}
  BY DEF Connect, MayMake, IsOpen, IInv, Known, Sockets, NoSocket
<1>6. Known'
  <2> SUFFICES ASSUME NEW j \in Sockets
               PROVE  /\ socket'[j] # "unused" => maker'[j] \in Transports
                      /\ socket'[j] = "connecting" => tr'[maker'[j]].connecting = j
                      /\ socket'[j] \in {"connecting", "open"} =>
                            tr'[maker'[j]].connection = j /\ ~tr'[maker'[j]].disposed
    BY DEF Known
  <2>1. CASE j = k
    BY <2>1, <1>2, <1>3, <1>4
  <2>2. CASE j # k
    BY <2>2, <1>2, <1>3, <1>5 DEF IInv, Known
  <2> QED BY <2>1, <2>2
<1> QED BY <1>3, <1>6 DEF IInv

\* What dispose() leaves: no WebSocket of the transport is alive.
LEMMA DisposeKeeps ==
    ASSUME IInv, NEW t \in Transports, Dispose(t) PROVE IInv'
<1>1. /\ \A u \in Transports \ {t} : tr'[u] = tr[u]
      /\ tr' \in [Transports -> TransportState]
  BY DEF Dispose, IInv, Types, TransportState
<1>2. /\ maker' = maker
      /\ socket' = [k \in Sockets |->
                      IF k = tr[t].connection /\ socket[k] \in {"connecting", "open"}
                      THEN "closing" ELSE socket[k]]
  BY DEF Dispose, CloseConnection
<1>3. Types'
  BY <1>1, <1>2 DEF Dispose, clientVars, IInv, Types
<1>4. \A k \in Sockets : socket'[k] \in {"connecting", "open"} =>
          maker[k] # t /\ socket'[k] = socket[k]
  BY <1>2 DEF IInv, Known
<1>5. Known'
  BY <1>1, <1>2, <1>4 DEF IInv, Known, Types
<1> QED BY <1>3, <1>5 DEF IInv

LEMMA OpenedKeeps ==
    ASSUME IInv, NEW k \in Sockets, Opened(k) PROVE IInv'
<1> DEFINE t == maker[k]
<1>1. socket[k] = "connecting" /\ t \in Transports
  BY DEF Opened, IInv, Known
<1>2. tr' = [tr EXCEPT ![t] = [Flushed(t) EXCEPT !.messages = k, !.connecting = NoSocket]]
  BY DEF Opened
<1>3. tr[t] \in TransportState
  BY <1>1 DEF IInv, Types
<1>4. /\ tr'[t] \in TransportState
      /\ tr'[t].connection = tr[t].connection /\ tr'[t].disposed = tr[t].disposed
  <2> DEFINE new == [Flushed(t) EXCEPT !.messages = k, !.connecting = NoSocket]
  <2>1. Flushed(t) \in TransportState
    <3>1. << >> \in Seq(Message)
      OBVIOUS
    <3> QED BY <1>3, <3>1 DEF Flushed, TransportState
  <2>2. Flushed(t).connection = tr[t].connection /\ Flushed(t).disposed = tr[t].disposed
    BY <1>3 DEF Flushed, TransportState
  <2>3. /\ new \in TransportState
        /\ new.connection = Flushed(t).connection /\ new.disposed = Flushed(t).disposed
    BY <2>1 DEF TransportState, SomeSocket
  <2>4. tr'[t] = new
    BY <1>1, <1>2 DEF IInv, Types
  <2> QED BY <2>2, <2>3, <2>4
<1>5. \A u \in Transports \ {t} : tr'[u] = tr[u]
  BY <1>1, <1>2 DEF IInv, Types
<1>6. tr' \in [Transports -> TransportState]
  BY <1>1, <1>2, <1>4, <1>5 DEF IInv, Types
<1>7. /\ maker' = maker
      /\ socket' = [socket EXCEPT ![k] = "open"]
      /\ Types'
  BY <1>6 DEF Opened, clientVars, IInv, Types
<1>8. \A j \in Sockets : socket[j] = "connecting" /\ maker[j] = t => j = k
  BY <1>1 DEF IInv, Known
<1>9. Known'
  BY <1>1, <1>4, <1>5, <1>7, <1>8 DEF IInv, Known, Types
<1> QED BY <1>7, <1>9 DEF IInv

LEMMA FailedKeeps ==
    ASSUME IInv, NEW k \in Sockets, Failed(k) PROVE IInv'
<1> DEFINE t == maker[k]
<1>1. socket[k] = "connecting" /\ t \in Transports
  BY DEF Failed, IInv, Known
<1>2. /\ \A u \in Transports \ {t} : tr'[u] = tr[u]
      /\ tr'[t].connection = tr[t].connection /\ tr'[t].disposed = tr[t].disposed
      /\ tr' \in [Transports -> TransportState]
  BY <1>1, ZenonT(60) DEF Failed, IInv, Types, TransportState, SomeSocket
<1>3. /\ maker' = maker
      /\ socket' = [socket EXCEPT ![k] = "failing"]
      /\ Types'
  BY <1>2 DEF Failed, clientVars, IInv, Types
<1>4. \A j \in Sockets : socket[j] = "connecting" /\ maker[j] = t => j = k
  BY <1>1 DEF IInv, Known
<1>5. Known'
  BY <1>1, <1>2, <1>3, <1>4 DEF IInv, Known, Types
<1> QED BY <1>3, <1>5 DEF IInv

LEMMA LostKeeps ==
    ASSUME IInv, NEW k \in Sockets, Lost(k) PROVE IInv'
<1>1. socket' = [socket EXCEPT ![k] = "closing"] /\ UNCHANGED <<tr, maker>>
  BY DEF Lost
<1>2. Types'
  BY <1>1 DEF Lost, clientVars, IInv, Types
<1>3. socket[k] # "unused"
  BY DEF Lost
<1>4. Known'
  BY <1>1, <1>3 DEF IInv, Known, Types
<1> QED BY <1>2, <1>4 DEF IInv

\* onCloseCb disposes of the transport: it also closes a later connection.
LEMMA ClosedKeeps ==
    ASSUME IInv, NEW k \in Sockets, Closed(k) PROVE IInv'
<1> DEFINE t == maker[k]
           closed == [socket EXCEPT ![k] = "closed"]
<1>1. socket[k] \in {"failing", "closing"} /\ t \in Transports /\ maker' = maker
  BY DEF Closed, IInv, Known
<1>2. CASE tr' = tr /\ socket' = closed
  <2>1. Types'
    BY <1>1, <1>2 DEF Closed, clientVars, IInv, Types
  <2>2. Known'
    BY <1>1, <1>2 DEF IInv, Known, Types
  <2> QED BY <2>1, <2>2 DEF IInv
<1>3. CASE /\ tr' = [tr EXCEPT ![t].messages = NoSocket, ![t].disposed = TRUE]
           /\ socket' = CloseConnection(t, closed)
  <2>1. /\ \A u \in Transports \ {t} : tr'[u] = tr[u]
        /\ tr' \in [Transports -> TransportState]
    BY <1>1, <1>3, ZenonT(60) DEF IInv, Types, TransportState, SomeSocket
  <2>2. socket' = [j \in Sockets |->
                     IF j = tr[t].connection /\ closed[j] \in {"connecting", "open"}
                     THEN "closing" ELSE closed[j]]
    BY <1>3 DEF CloseConnection
  <2>3. /\ closed[k] = "closed"
        /\ \A j \in Sockets \ {k} : closed[j] = socket[j]
    BY DEF IInv, Types
  <2>4. Types'
    BY <1>1, <2>1, <2>2, <2>3 DEF Closed, clientVars, IInv, Types
  <2>5. \A j \in Sockets : socket'[j] \in {"connecting", "open"} =>
            maker[j] # t /\ socket'[j] = socket[j]
    BY <2>2, <2>3 DEF IInv, Known
  <2>6. \A j \in Sockets : socket'[j] # "unused" => socket[j] # "unused"
    BY <1>1, <2>2, <2>3
  <2>7. Known'
    BY <1>1, <2>1, <2>5, <2>6 DEF IInv, Known, Types
  <2> QED BY <2>4, <2>7 DEF IInv
<1> QED BY <1>2, <1>3 DEF Closed

LEMMA WriteKeeps ==
    ASSUME IInv, NEW k \in Sockets, Write(k) PROVE IInv'
<1>1. UNCHANGED <<clientVars, tr, socket, maker>>
  BY DEF Write
<1> QED BY <1>1 DEF IInv, Types, Known, clientVars

LEMMA AnswerKeeps ==
    ASSUME IInv, NEW k \in Sockets, NEW c \in Calls, Answer(k, c) PROVE IInv'
<1>1. UNCHANGED <<transport, inits, noted, socket, maker>>
  BY DEF Answer
<1>2. CASE UNCHANGED <<gate, tr>>
  <2>1. \A u \in Transports : SameSockets(tr[u], tr'[u])
    BY <1>2 DEF SameSockets
  <2>2. Known'
    BY <1>1, <1>2, <2>1, KnownKept DEF IInv, Types
  <2> QED BY <1>1, <1>2, <2>2 DEF IInv, Types
<1>3. CASE /\ c.kind = "initialize" /\ gate' = << >>
           /\ Give(transport, <<Msg("initialized", c.of)>>, gate)
  <2>1. c.of \in 1 .. MaxInits
    BY <1>3 DEF Calls, Message
  <2>2. <<Msg("initialized", c.of)>> \in Seq(Message)
    BY <2>1, NumbersOfMessages
  <2>3. /\ tr' \in [Transports -> TransportState]
        /\ \A u \in Transports : SameSockets(tr[u], tr'[u])
    BY <1>3, <2>2, GiveKeeps DEF IInv, Types
  <2>4. Known'
    BY <1>1, <2>3, KnownKept
  <2>5. gate' \in Seq(Message)
    BY <1>3
  <2> QED BY <1>1, <2>3, <2>4, <2>5 DEF IInv, Types
<1> QED BY <1>2, <1>3 DEF Answer, Initialized

-----------------------------------------------------------------------------
LEMMA StepKeeps == IInv /\ [Next]_vars => IInv'
<1> SUFFICES ASSUME IInv, [Next]_vars PROVE IInv'
  OBVIOUS
<1>1. CASE UNCHANGED vars
  BY <1>1 DEF vars, clientVars, IInv, Types, Known
<1>2. ASSUME NEW r \in Requests, Request(r) PROVE IInv'
  BY <1>2, RequestKeeps
<1>3. CASE Notify
  BY <1>3, NotifyKeeps
<1>4. ASSUME NEW t \in Transports, Change(t) \/ Connect(t) \/ Dispose(t) PROVE IInv'
  BY <1>4, ChangeKeeps, ConnectKeeps, DisposeKeeps
<1>5. ASSUME NEW k \in Sockets, Opened(k) \/ Failed(k) \/ Lost(k) PROVE IInv'
  BY <1>5, OpenedKeeps, FailedKeeps, LostKeeps
<1>6. ASSUME NEW k \in Sockets, Closed(k) \/ Write(k) PROVE IInv'
  BY <1>6, ClosedKeeps, WriteKeeps
<1>7. ASSUME NEW k \in Sockets, NEW c \in Calls, Answer(k, c) PROVE IInv'
  BY <1>7, AnswerKeeps
<1> QED BY <1>1, <1>2, <1>3, <1>4, <1>5, <1>6, <1>7 DEF Next

\* A WebSocket that is alive is its transport's connection, and a disposed
\* transport has none, whatever connect(), dispose(), errors and closings
\* interleave (LSWebSocketTransport.ts:147-153, 164-218).
THEOREM NoSocketLeaks == Spec => []NoSocketLeak
<1>1. IInv => NoSocketLeak
  BY DEF IInv, Known, NoSocketLeak
<1> QED BY InitEstablishes, StepKeeps, <1>1, PTL DEF Spec

-----------------------------------------------------------------------------
(* The first language server is initialized first *)

FirstCall == Msg("initialize", 1)
Without(q) == \A i \in DOMAIN q : q[i] # FirstCall

QueueTypes ==
    /\ outcome \in [Calls -> {"none", "pending", "resolved", "rejected"}]
    /\ told \in [Transports -> Seq(Message)]
    /\ outq \in [Sockets -> Seq(Message)]
    /\ wire \in [Sockets -> Seq(Message)]

\* The first initialize is given to the first transport and to no other.
ThereInv ==
    /\ \A k \in Sockets : maker[k] # First => Without(outq[k]) /\ Without(wire[k])
    /\ \A t \in Transports : t # First => Without(tr[t].notes) /\ Without(tr[t].requests)
    /\ Without(gate)

\* While the client has its first transport, only the answer to the first
\* initialize makes it ready.
CallInv ==
    /\ transport = First => inits = 1
    /\ told[First] # << >>
    /\ \A n \in 1 .. MaxInits : outcome[Msg("initialize", n)] # "none" => n <= inits
    /\ ready /\ transport = First => outcome[FirstCall] = "resolved"

\* The latest WebSocket of a transport is its connection.
SocketInv ==
    /\ \A j, k \in Sockets : j < k /\ socket[k] # "unused" => socket[j] # "unused"
    /\ \A k \in Sockets : socket[k] # "unused" => k <= tr[maker[k]].connection
    /\ \A k \in Sockets : socket[k] = "unused" => outq[k] = << >> /\ wire[k] = << >>
    /\ \A t \in Transports, k \in Sockets :
         tr[t].messages = k => maker[k] = t /\ socket[k] # "unused"

\* Before it is answered, nothing but notifications is with the first initialize
\* in the first transport's buffers, writers and wires, and it is in the buffer
\* or in one connection at most.
Early(q) == \A i \in DOMAIN q : q[i] = FirstCall \/ q[i].kind = "note"
Holds(k) == ~Without(outq[k]) \/ ~Without(wire[k])
Alone ==
    /\ Early(tr[First].notes) /\ Without(tr[First].notes) /\ Early(tr[First].requests)
    /\ \A k \in Sockets : maker[k] = First => Early(outq[k]) /\ Early(wire[k])
    /\ \A k \in Sockets : maker[k] = First /\ Holds(k) =>
         /\ Without(tr[First].requests)
         /\ \A j \in Sockets : maker[j] = First /\ Holds(j) => j = k

\* Afterwards it is what the first of these wires that has more than notifications
\* had first, but for notifications.
LedBy(q) == \E i \in DOMAIN q :
    q[i] = FirstCall /\ \A h \in 1 .. (i - 1) : q[h] = FirstCall \/ q[h].kind = "note"
Leads(k) ==
    /\ maker[k] = First /\ LedBy(wire[k])
    /\ \A j \in Sockets : j < k /\ maker[j] = First => JustNotes(wire[j])

PhaseInv == IF outcome[FirstCall] = "resolved" THEN \E k \in Sockets : Leads(k) ELSE Alone

FirstInv == QueueTypes /\ ThereInv /\ CallInv /\ SocketInv /\ PhaseInv

LEMMA CallShapes ==
    /\ FirstCall \in Calls
    /\ \A n \in 1 .. MaxInits : Msg("initialize", n) \in Calls
    /\ \A n \in Nat : Msg("initialize", n) = FirstCall => n = 1
    /\ \A r \in Requests : Msg("request", r) \in Calls /\ Msg("request", r) # FirstCall
    /\ \A r \in Requests, n \in Nat : Msg("request", r) # Msg("initialize", n)
    /\ \A n \in Nat : Msg("note", n) # FirstCall /\ Msg("initialized", n) # FirstCall
    /\ \A c \in Calls : c.kind = "initialize" =>
          c.of \in 1 .. MaxInits /\ c = Msg("initialize", c.of)
<1>1. 1 \in 1 .. MaxInits
  BY BoundAssumption
<1>2. \A c \in Calls : c.kind = "initialize" =>
          c.of \in 1 .. MaxInits /\ c = Msg("initialize", c.of)
  BY DEF Calls, Message, IsRequest, Msg
<1>3. /\ \A n \in 1 .. MaxInits : Msg("initialize", n) \in Calls
      /\ \A r \in Requests : Msg("request", r) \in Calls
  BY NumbersOfMessages DEF Calls, IsRequest, Msg
<1>4. /\ \A n \in Nat : Msg("initialize", n) = FirstCall => n = 1
      /\ \A r \in Requests, n \in Nat : Msg("request", r) # Msg("initialize", n)
      /\ \A r \in Requests : Msg("request", r) # FirstCall
      /\ \A n \in Nat : Msg("note", n) # FirstCall /\ Msg("initialized", n) # FirstCall
  BY DEF FirstCall, Msg
<1>5. FirstCall \in Calls
  BY <1>1, <1>3 DEF FirstCall
<1> QED BY <1>2, <1>3, <1>4, <1>5

LEMMA WithoutConcat ==
    ASSUME NEW p \in Seq(Message), NEW q \in Seq(Message), Without(p), Without(q)
    PROVE  Without(p \o q)
<1>1. PICK r : r = p \o q
  OBVIOUS
<1>2. /\ DOMAIN r = 1 .. Len(p) + Len(q) /\ Len(p) \in Nat /\ Len(q) \in Nat
      /\ \A i \in 1 .. Len(p) + Len(q) : r[i] = IF i <= Len(p) THEN p[i] ELSE q[i - Len(p)]
  BY <1>1, ConcatProperties
<1>3. DOMAIN p = 1 .. Len(p) /\ DOMAIN q = 1 .. Len(q)
  OBVIOUS
<1>4. ASSUME NEW i \in DOMAIN r PROVE r[i] # FirstCall
  <2>1. CASE i <= Len(p)
    BY <1>2, <1>3, <2>1 DEF Without
  <2>2. CASE i > Len(p)
    <3>1. i - Len(p) \in DOMAIN q /\ r[i] = q[i - Len(p)]
      BY <1>2, <1>3, <2>2
    <3> QED BY <3>1 DEF Without
  <2> QED BY <1>2, <2>1, <2>2
<1> QED BY <1>1, <1>4 DEF Without

LEMMA EarlyConcat ==
    ASSUME NEW p \in Seq(Message), NEW q \in Seq(Message), Early(p), Early(q)
    PROVE  Early(p \o q)
<1>1. PICK r : r = p \o q
  OBVIOUS
<1>2. /\ DOMAIN r = 1 .. Len(p) + Len(q) /\ Len(p) \in Nat /\ Len(q) \in Nat
      /\ \A i \in 1 .. Len(p) + Len(q) : r[i] = IF i <= Len(p) THEN p[i] ELSE q[i - Len(p)]
  BY <1>1, ConcatProperties
<1>3. DOMAIN p = 1 .. Len(p) /\ DOMAIN q = 1 .. Len(q)
  OBVIOUS
<1>4. ASSUME NEW i \in DOMAIN r PROVE r[i] = FirstCall \/ r[i].kind = "note"
  <2>1. CASE i <= Len(p)
    BY <1>2, <1>3, <2>1 DEF Early
  <2>2. CASE i > Len(p)
    <3>1. i - Len(p) \in DOMAIN q /\ r[i] = q[i - Len(p)]
      BY <1>2, <1>3, <2>2
    <3> QED BY <3>1 DEF Early
  <2> QED BY <1>2, <2>1, <2>2
<1> QED BY <1>1, <1>4 DEF Early

\* One more message: what q holds stays where it is.
LEMMA AppendKeeps ==
    ASSUME NEW q \in Seq(Message), NEW m \in Message
    PROVE  /\ LedBy(q) => LedBy(Append(q, m))
           /\ Without(q) /\ m # FirstCall => Without(Append(q, m))
           /\ ~Without(Append(q, m)) => ~Without(q) \/ m = FirstCall
           /\ Early(q) /\ (m = FirstCall \/ m.kind = "note") => Early(Append(q, m))
<1>1. PICK r : r = Append(q, m)
  OBVIOUS
<1>2. /\ Len(q) \in Nat /\ DOMAIN q = 1 .. Len(q) /\ DOMAIN r = 1 .. Len(q) + 1
      /\ \A i \in 1 .. Len(q) : r[i] = q[i]
      /\ r[Len(q) + 1] = m
  BY <1>1
<1>3. \A i \in DOMAIN r : i \in DOMAIN q \/ r[i] = m
  BY <1>2
<1>4. LedBy(q) => LedBy(r)
  <2>1. SUFFICES ASSUME NEW i \in DOMAIN q, q[i] = FirstCall,
                        \A h \in 1 .. (i - 1) : q[h] = FirstCall \/ q[h].kind = "note"
                 PROVE  LedBy(r)
    BY DEF LedBy
  <2>2. /\ i \in DOMAIN r /\ r[i] = q[i]
        /\ \A h \in 1 .. (i - 1) : r[h] = q[h]
    BY <1>2
  <2> QED BY <2>1, <2>2 DEF LedBy
<1>5. /\ Without(q) /\ m # FirstCall => Without(r)
      /\ ~Without(r) => ~Without(q) \/ m = FirstCall
  BY <1>2, <1>3 DEF Without
<1>6. Early(q) /\ (m = FirstCall \/ m.kind = "note") => Early(r)
  BY <1>2, <1>3 DEF Early
<1> QED BY <1>1, <1>4, <1>5, <1>6

\* What is early and is not the first initialize is a notification.
LEMMA EarlyNotes ==
    ASSUME NEW q PROVE JustNotes(q) <=> Early(q) /\ Without(q)
<1>1. FirstCall.kind # "note"
  BY DEF FirstCall, Msg
<1> QED BY <1>1 DEF JustNotes, Early, Without

\* A transport is given messages other than the first initialize.
LEMMA GiveAdds ==
    ASSUME IInv, FirstInv, NEW t \in Transports, NEW ns \in Seq(Message), NEW rs \in Seq(Message),
           Without(ns), Without(rs), Give(t, ns, rs), UNCHANGED <<socket, maker, wire>>
    PROVE  /\ outq' \in [Sockets -> Seq(Message)] /\ told' \in [Transports -> Seq(Message)]
           /\ told'[First] # << >>
           /\ \A k \in Sockets : maker[k] # First => Without(outq'[k])
           /\ \A u \in Transports : u # First => Without(tr'[u].notes) /\ Without(tr'[u].requests)
           /\ \A u \in Transports : /\ tr'[u].connection = tr[u].connection
                                    /\ tr'[u].messages = tr[u].messages
           /\ \A k \in Sockets : socket[k] = "unused" => outq'[k] = << >>
           /\ t # First => /\ tr'[First] = tr[First]
                           /\ \A k \in Sockets : maker[k] = First => outq'[k] = outq[k]
<1>1. /\ tr \in [Transports -> TransportState] /\ tr[t] \in TransportState
      /\ outq \in [Sockets -> Seq(Message)] /\ told \in [Transports -> Seq(Message)]
      /\ tr[t].messages \in Sockets \cup {NoSocket}
  BY DEF IInv, Types, FirstInv, QueueTypes, TransportState, SomeSocket
<1>2. told' \in [Transports -> Seq(Message)] /\ told'[First] # << >>
  <2>1. told' = [told EXCEPT ![t] = (@ \o ns) \o rs]
    BY DEF Give
  <2>2. PICK q : q = (told[t] \o ns) \o rs
    OBVIOUS
  <2>3. PICK h : h = told[t] \o ns
    OBVIOUS
  <2>4. h \in Seq(Message) /\ Len(h) = Len(told[t]) + Len(ns)
    BY <1>1, <2>3, ConcatProperties
  <2>5. q \in Seq(Message) /\ Len(q) = Len(h) + Len(rs)
    BY <2>2, <2>3, <2>4, ConcatProperties
  <2>6. told[t] # << >> => q # << >>
    <3>1. told[t] \in Seq(Message) /\ (told[t] # << >> => Len(told[t]) > 0)
      BY <1>1
    <3>2. Len(told[t]) \in Nat /\ Len(ns) \in Nat /\ Len(rs) \in Nat
      BY <1>1
    <3>3. told[t] # << >> => Len(q) > 0
      BY <2>4, <2>5, <3>1, <3>2
    <3> QED BY <3>3
  <2>7. told' = [told EXCEPT ![t] = q]
    BY <2>1, <2>2
  <2> QED BY <1>1, <2>5, <2>6, <2>7, TransportAssumption DEF FirstInv, CallInv
<1>3. CASE tr[t].messages # NoSocket
  <2>1. PICK k \in Sockets : k = tr[t].messages
    BY <1>1, <1>3
  <2>2. maker[k] = t /\ socket[k] # "unused"
    BY <2>1 DEF FirstInv, SocketInv
  <2>3. PICK h : h = outq[k] \o ns
    OBVIOUS
  <2>4. PICK q : q = h \o rs
    OBVIOUS
  <2>5. tr' = tr /\ outq' = [outq EXCEPT ![k] = q]
    BY <1>3, <2>1, <2>3, <2>4 DEF Give
  <2>6. q \in Seq(Message) /\ h \in Seq(Message)
    BY <1>1, <2>3, <2>4
  <2>7. t # First => Without(q)
    <3>1. t # First => Without(outq[k])
      BY <2>2 DEF FirstInv, ThereInv
    <3>2. t # First => Without(h)
      BY <1>1, <2>3, <3>1, WithoutConcat
    <3> QED BY <2>4, <2>6, <3>2, WithoutConcat
  <2>8. \A j \in Sockets : outq'[j] = IF j = k THEN q ELSE outq[j]
    BY <1>1, <2>5
  <2>9. outq' \in [Sockets -> Seq(Message)]
    BY <1>1, <2>5, <2>6
  <2> QED BY <1>2, <2>2, <2>5, <2>7, <2>8, <2>9 DEF FirstInv, ThereInv, SocketInv
<1>4. CASE tr[t].messages = NoSocket
  <2>1. PICK n, r : n = tr[t].notes \o ns /\ r = tr[t].requests \o rs
    OBVIOUS
  <2>2. outq' = outq /\ tr' = [tr EXCEPT ![t].notes = n, ![t].requests = r]
    BY <1>4, <2>1 DEF Give
  <2>3. t # First => Without(n) /\ Without(r)
    <3>1. tr[t].notes \in Seq(Message) /\ tr[t].requests \in Seq(Message)
      BY <1>1 DEF TransportState
    <3> QED BY <2>1, <3>1, WithoutConcat DEF FirstInv, ThereInv
  <2>4. /\ tr'[t].notes = n /\ tr'[t].requests = r
        /\ tr'[t].connection = tr[t].connection /\ tr'[t].messages = tr[t].messages
        /\ \A u \in Transports : u # t => tr'[u] = tr[u]
    BY <1>1, <2>2 DEF TransportState
  <2> QED BY <1>1, <1>2, <2>2, <2>3, <2>4, TransportAssumption DEF FirstInv, ThereInv, SocketInv
<1> QED BY <1>3, <1>4

\* A step that leaves the first transport alone, or comes after the answer.
LEMMA PhaseKept ==
    ASSUME FirstInv, outcome'[FirstCall] = "resolved" <=> outcome[FirstCall] = "resolved",
           UNCHANGED <<maker, wire>>,
           outcome[FirstCall] # "resolved" =>
               /\ tr'[First].notes = tr[First].notes /\ tr'[First].requests = tr[First].requests
               /\ \A k \in Sockets : maker[k] = First => outq'[k] = outq[k]
    PROVE  PhaseInv'
<1>1. CASE outcome[FirstCall] = "resolved"
  <2>1. PICK k \in Sockets : Leads(k)
    BY <1>1 DEF FirstInv, PhaseInv
  <2>2. Leads(k)'
    BY <2>1 DEF Leads, LedBy, JustNotes
  <2> QED BY <1>1, <2>2 DEF PhaseInv
<1>2. CASE outcome[FirstCall] # "resolved"
  <2>1. Alone
    BY <1>2 DEF FirstInv, PhaseInv
  <2>2. \A k \in Sockets : maker[k] = First =>
           /\ (Early(outq[k]) => Early(outq[k])') /\ (Early(wire[k]) => Early(wire[k])')
           /\ (Holds(k)' => Holds(k))
    BY <1>2 DEF Early, Holds, Without
  <2>3. /\ Early(tr[First].notes)' /\ Without(tr[First].notes)' /\ Early(tr[First].requests)'
        /\ Without(tr[First].requests) => Without(tr[First].requests)'
    BY <1>2, <2>1 DEF Alone, Early, Without
  <2>4. Alone'
    BY <2>1, <2>2, <2>3 DEF Alone
  <2> QED BY <1>2, <2>4 DEF PhaseInv
<1> QED BY <1>1, <1>2

\* The first transport is given notifications before the answer.
LEMMA NotesKeepPhase ==
    ASSUME IInv, FirstInv, outcome[FirstCall] # "resolved", outcome'[FirstCall] # "resolved",
           NEW ns \in Seq(Message), NEW rs \in Seq(Message), Without(ns), Early(ns), rs = << >>,
           Give(First, ns, rs), UNCHANGED <<maker, wire>>
    PROVE  PhaseInv'
<1>1. /\ tr \in [Transports -> TransportState] /\ tr[First] \in TransportState
      /\ outq \in [Sockets -> Seq(Message)] /\ tr[First].messages \in Sockets \cup {NoSocket}
      /\ First \in Transports
  BY TransportAssumption DEF IInv, Types, FirstInv, QueueTypes, TransportState, SomeSocket
<1>2. Alone
  BY DEF FirstInv, PhaseInv
<1>3. CASE tr[First].messages # NoSocket
  <2>1. PICK k \in Sockets : k = tr[First].messages
    BY <1>1, <1>3
  <2>2. PICK q : q = outq[k] \o ns
    OBVIOUS
  <2>3. maker[k] = First /\ outq[k] \in Seq(Message) /\ q \in Seq(Message)
    BY <1>1, <2>1, <2>2 DEF FirstInv, SocketInv
  <2>4. q \o rs = q
    BY <2>3
  <2>5. tr' = tr /\ \A j \in Sockets : outq'[j] = IF j = k THEN q ELSE outq[j]
    BY <1>1, <1>3, <2>1, <2>2, <2>4 DEF Give
  <2>6. Early(q)
    BY <1>2, <2>2, <2>3, EarlyConcat DEF Alone
  <2>7. ~Without(q) => ~Without(outq[k])
    BY <2>2, <2>3, WithoutConcat
  <2>8. \A j \in Sockets : maker[j] = First =>
           /\ Early(outq[j])' /\ Early(wire[j])' /\ (Holds(j)' => Holds(j))
    <3>1. SUFFICES ASSUME NEW j \in Sockets, maker[j] = First
                   PROVE  /\ Early(outq'[j]) /\ Early(wire'[j])
                          /\ (~Without(outq'[j]) \/ ~Without(wire'[j]) => Holds(j))
      BY DEF Early, Holds, Without
    <3>2. wire'[j] = wire[j] /\ Early(wire[j]) /\ Early(outq[j])
      BY <1>2, <3>1 DEF Alone
    <3>3. CASE j = k
      BY <2>5, <2>6, <2>7, <3>2, <3>3 DEF Holds
    <3>4. CASE j # k
      BY <2>5, <3>2, <3>4 DEF Holds
    <3> QED BY <3>3, <3>4
  <2>9. /\ Early(tr[First].notes)' /\ Without(tr[First].notes)' /\ Early(tr[First].requests)'
        /\ Without(tr[First].requests) => Without(tr[First].requests)'
    BY <1>2, <2>5 DEF Alone, Early, Without
  <2>10. Alone'
    BY <1>2, <2>8, <2>9 DEF Alone
  <2> QED BY <2>10 DEF PhaseInv
<1>4. CASE tr[First].messages = NoSocket
  <2>1. PICK n : n = tr[First].notes \o ns
    OBVIOUS
  <2>2. tr[First].notes \in Seq(Message) /\ tr[First].requests \in Seq(Message)
    BY <1>1 DEF TransportState
  <2>3. tr[First].requests \o rs = tr[First].requests
    BY <2>2
  <2>4. outq' = outq /\ tr' = [tr EXCEPT ![First].notes = n, ![First].requests = @ \o rs]
    BY <1>4, <2>1 DEF Give
  <2>5. tr'[First].notes = n /\ tr'[First].requests = tr[First].requests
    BY <1>1, <2>3, <2>4 DEF TransportState
  <2>6. Early(n) /\ Without(n)
    BY <1>2, <2>1, <2>2, EarlyConcat, WithoutConcat DEF Alone
  <2>7. /\ Early(tr[First].notes)' /\ Without(tr[First].notes)' /\ Early(tr[First].requests)'
        /\ Without(tr[First].requests) => Without(tr[First].requests)'
    BY <1>2, <2>5, <2>6 DEF Alone, Early, Without
  <2>8. \A j \in Sockets : maker[j] = First =>
           /\ Early(outq[j])' /\ Early(wire[j])' /\ (Holds(j)' => Holds(j))
    BY <1>2, <2>4 DEF Alone, Early, Holds, Without
  <2>9. Alone'
    BY <1>2, <2>7, <2>8 DEF Alone
  <2> QED BY <2>9 DEF PhaseInv
<1> QED BY <1>3, <1>4

\* What is left of FirstInv when a transport is given messages.
LEMMA GiveKeepsFirst ==
    ASSUME IInv, FirstInv, NEW t \in Transports, NEW ns \in Seq(Message), NEW rs \in Seq(Message),
           Without(ns), Without(rs), Give(t, ns, rs), UNCHANGED <<socket, maker, wire>>,
           outcome' \in [Calls -> {"none", "pending", "resolved", "rejected"}], Without(gate)',
           \/ outcome'[FirstCall] = outcome[FirstCall]
           \/ outcome'[FirstCall] = "resolved" /\ \E k \in Sockets : Leads(k),
           t = First => outcome'[FirstCall] = "resolved" \/ (Early(ns) /\ rs = << >>)
    PROVE  QueueTypes' /\ ThereInv' /\ SocketInv' /\ PhaseInv' /\ told'[First] # << >>
<1>1. /\ outq' \in [Sockets -> Seq(Message)] /\ told' \in [Transports -> Seq(Message)]
      /\ told'[First] # << >>
      /\ \A k \in Sockets : maker[k] # First => Without(outq'[k])
      /\ \A u \in Transports : u # First => Without(tr'[u].notes) /\ Without(tr'[u].requests)
      /\ \A u \in Transports : /\ tr'[u].connection = tr[u].connection
                               /\ tr'[u].messages = tr[u].messages
      /\ \A k \in Sockets : socket[k] = "unused" => outq'[k] = << >>
      /\ t # First => /\ tr'[First] = tr[First]
                      /\ \A k \in Sockets : maker[k] = First => outq'[k] = outq[k]
  BY GiveAdds
<1>2. QueueTypes'
  BY <1>1 DEF FirstInv, QueueTypes
<1>3. ThereInv'
  <2>1. \A k \in Sockets : maker[k] # First => Without(wire[k])
    BY DEF FirstInv, ThereInv
  <2> QED BY <1>1, <2>1 DEF ThereInv, Without
<1>4. SocketInv'
  <2>1. \A k \in Sockets : socket[k] # "unused" => maker[k] \in Transports
    BY DEF IInv, Known
  <2>2. SocketInv /\ socket' = socket /\ maker' = maker /\ wire' = wire
    BY DEF FirstInv
  <2>3. /\ \A k \in Sockets : socket[k] # "unused" => k <= tr'[maker[k]].connection
        /\ \A k \in Sockets : socket[k] = "unused" => outq'[k] = << >> /\ wire[k] = << >>
    BY <1>1, <2>1, <2>2 DEF SocketInv
  <2>4. ASSUME NEW u \in Transports, NEW k \in Sockets, tr'[u].messages = k
        PROVE  maker[k] = u /\ socket[k] # "unused"
    <3>1. tr[u].messages = k
      BY <1>1, <2>4
    <3> QED BY <2>2, <3>1 DEF SocketInv
  <2> QED BY <2>2, <2>3, <2>4 DEF SocketInv
<1>5. PhaseInv'
  <2>1. ASSUME NEW k \in Sockets, Leads(k), outcome'[FirstCall] = "resolved" PROVE PhaseInv'
    <3>1. Leads(k)'
      BY <2>1 DEF Leads, LedBy, JustNotes
    <3> QED BY <2>1, <3>1 DEF PhaseInv
  <2>2. CASE outcome'[FirstCall] = outcome[FirstCall] /\ (t # First \/ outcome[FirstCall] = "resolved")
    BY <1>1, <2>2, PhaseKept
  <2>3. CASE /\ outcome'[FirstCall] = outcome[FirstCall] /\ outcome[FirstCall] # "resolved"
             /\ t = First
    BY <2>3, NotesKeepPhase
  <2> QED BY <2>1, <2>2, <2>3
<1> QED BY <1>1, <1>2, <1>3, <1>4, <1>5

OnlyRejected(c) ==
    \/ outcome'[c] = outcome[c]
    \/ outcome[c] = "pending" /\ outcome'[c] = "rejected"

SameBuffers(x, y) ==
    /\ y.notes = x.notes /\ y.requests = x.requests /\ y.connection = x.connection
    /\ y.messages \in {x.messages, NoSocket}

\* Promises are rejected, connections end and WebSockets close.
LEMMA EndingKeepsFirst ==
    ASSUME IInv, FirstInv, UNCHANGED <<clientVars, maker, outq, wire>>,
           outcome' \in [Calls -> {"none", "pending", "resolved", "rejected"}],
           \A c \in Calls : OnlyRejected(c),
           \A t \in Transports : SameBuffers(tr[t], tr'[t]),
           \A k \in Sockets : socket'[k] = "unused" <=> socket[k] = "unused"
    PROVE  FirstInv'
<1>1. QueueTypes'
  BY DEF FirstInv, QueueTypes, clientVars
<1>2. ThereInv'
  <2>1. gate' = gate /\ maker' = maker /\ outq' = outq /\ wire' = wire
    BY DEF clientVars
  <2> QED BY <2>1 DEF FirstInv, ThereInv, Without, SameBuffers
<1>3. CallInv'
  <2>1. /\ ready' = ready /\ transport' = transport /\ inits' = inits /\ told' = told
        /\ CallInv
    BY DEF clientVars, FirstInv
  <2>2. \A n \in 1 .. MaxInits : outcome'[Msg("initialize", n)] # "none" => n <= inits
    BY <2>1, CallShapes DEF CallInv, OnlyRejected
  <2>3. outcome[FirstCall] = "resolved" => outcome'[FirstCall] = "resolved"
    BY CallShapes DEF OnlyRejected
  <2> QED BY <2>1, <2>2, <2>3 DEF CallInv
<1>4. SocketInv'
  <2>1. SocketInv /\ maker' = maker /\ outq' = outq /\ wire' = wire
    BY DEF FirstInv
  <2>2. \A k \in Sockets : socket[k] # "unused" => maker[k] \in Transports
    BY DEF IInv, Known
  <2>3. /\ \A k \in Sockets : socket'[k] # "unused" => k <= tr'[maker[k]].connection
        /\ \A j, k \in Sockets : j < k /\ socket'[k] # "unused" => socket'[j] # "unused"
        /\ \A k \in Sockets : socket'[k] = "unused" => outq[k] = << >> /\ wire[k] = << >>
    BY <2>1, <2>2 DEF SocketInv, SameBuffers
  <2>4. ASSUME NEW u \in Transports, NEW k \in Sockets, tr'[u].messages = k
        PROVE  maker[k] = u /\ socket'[k] # "unused"
    <3>1. tr[u].messages = k
      BY <2>4 DEF Sockets, NoSocket, SameBuffers
    <3> QED BY <2>1, <3>1 DEF SocketInv
  <2> QED BY <2>1, <2>3, <2>4 DEF SocketInv
<1>5. PhaseInv'
  <2>1. outcome'[FirstCall] = "resolved" <=> outcome[FirstCall] = "resolved"
    BY CallShapes DEF OnlyRejected
  <2> QED BY <2>1, PhaseKept, TransportAssumption DEF SameBuffers
<1> QED BY <1>1, <1>2, <1>3, <1>4, <1>5 DEF FirstInv

LEMMA EndingsKeepFirst ==
    ASSUME IInv, FirstInv,
           \/ \E t \in Transports : Dispose(t)
           \/ \E k \in Sockets : Failed(k) \/ Lost(k) \/ Closed(k)
    PROVE  FirstInv'
<1>1. /\ tr \in [Transports -> TransportState]
      /\ outcome \in [Calls -> {"none", "pending", "resolved", "rejected"}]
      /\ socket \in [Sockets -> {"unused", "connecting", "open", "closing", "failing", "closed"}]
  BY DEF IInv, Types, FirstInv, QueueTypes
<1>2. UNCHANGED <<clientVars, maker, outq, wire>>
  BY DEF Dispose, Failed, Lost, Closed
<1>3. /\ outcome' \in [Calls -> {"none", "pending", "resolved", "rejected"}]
      /\ \A c \in Calls : OnlyRejected(c)
  <2>1. CASE outcome' = outcome
    BY <1>1, <2>1 DEF OnlyRejected
  <2>2. ASSUME NEW k, outcome' = DisposeMessages(k)
        PROVE  /\ outcome' \in [Calls -> {"none", "pending", "resolved", "rejected"}]
               /\ \A c \in Calls : OnlyRejected(c)
    BY <1>1, <2>2 DEF DisposeMessages, OnlyRejected
  <2> QED BY <2>1, <2>2 DEF Dispose, Failed, Lost, Closed
<1>4. \A u \in Transports : SameBuffers(tr[u], tr'[u])
  <2>1. CASE tr' = tr
    BY <2>1 DEF SameBuffers
  <2>2. ASSUME NEW t \in Transports, tr' = [tr EXCEPT ![t].disposed = TRUE]
        PROVE  \A u \in Transports : SameBuffers(tr[u], tr'[u])
    BY <1>1, <2>2 DEF SameBuffers, TransportState
  <2>3. ASSUME NEW t \in Transports, tr' = [tr EXCEPT ![t].connecting = NoSocket]
        PROVE  \A u \in Transports : SameBuffers(tr[u], tr'[u])
    BY <1>1, <2>3 DEF SameBuffers, TransportState
  <2>4. ASSUME NEW t \in Transports,
               tr' = [tr EXCEPT ![t].messages = NoSocket, ![t].disposed = TRUE]
        PROVE  \A u \in Transports : SameBuffers(tr[u], tr'[u])
    BY <1>1, <2>4 DEF SameBuffers, TransportState
  <2>5. \A k \in Sockets : socket[k] # "unused" => maker[k] \in Transports
    BY DEF IInv, Known
  <2> QED BY <2>1, <2>2, <2>3, <2>4, <2>5 DEF Dispose, Failed, Lost, Closed
<1>5. \A k \in Sockets : socket'[k] = "unused" <=> socket[k] = "unused"
  BY <1>1 DEF Dispose, Failed, Lost, Closed, CloseConnection
<1> QED BY <1>2, <1>3, <1>4, <1>5, EndingKeepsFirst

\* The newest WebSocket becomes the connection; nothing is written to it yet.
LEMMA ConnectKeepsFirst ==
    ASSUME IInv, FirstInv, NEW t \in Transports, Connect(t) PROVE FirstInv'
<1>1. PICK k \in Sockets :
        /\ NextSocket(k)
        /\ socket' = [socket EXCEPT ![k] = "connecting"]
        /\ maker' = [maker EXCEPT ![k] = t]
        /\ tr' = [tr EXCEPT ![t].connection = k, ![t].connecting = k]
  BY DEF Connect
<1>2. /\ tr \in [Transports -> TransportState]
      /\ maker \in [Sockets -> Transports \cup {None}]
      /\ socket \in [Sockets -> {"unused", "connecting", "open", "closing", "failing", "closed"}]
      /\ UNCHANGED <<clientVars, outcome, outq, wire>>
  BY DEF IInv, Types, Connect
<1>3. /\ socket[k] = "unused" /\ outq[k] = << >> /\ wire[k] = << >>
      /\ \A j \in Sockets : j < k => socket[j] # "unused"
  BY <1>1 DEF NextSocket, FirstInv, SocketInv, Sockets
<1>4. /\ socket'[k] # "unused" /\ maker'[k] = t
      /\ \A j \in Sockets : j # k => socket'[j] = socket[j] /\ maker'[j] = maker[j]
  BY <1>1, <1>2
<1>5. /\ tr'[t].connection = k
      /\ \A u \in Transports : u # t => tr'[u].connection = tr[u].connection
      /\ \A u \in Transports : /\ tr'[u].notes = tr[u].notes /\ tr'[u].requests = tr[u].requests
                               /\ tr'[u].messages = tr[u].messages
  BY <1>1, <1>2 DEF TransportState
<1>6. QueueTypes' /\ CallInv'
  BY <1>2 DEF FirstInv, QueueTypes, CallInv, clientVars
<1>7. ThereInv'
  <2>1. ThereInv /\ gate' = gate /\ outq' = outq /\ wire' = wire
    BY <1>2 DEF FirstInv, clientVars
  <2>2. \A j \in Sockets : maker'[j] # First => Without(outq[j]) /\ Without(wire[j])
    <3>1. Without(<< >>)
      BY DEF Without
    <3> QED BY <1>3, <1>4, <2>1, <3>1 DEF ThereInv
  <2> QED BY <1>5, <2>1, <2>2 DEF ThereInv, Without
<1>8. SocketInv'
  <2>1. SocketInv /\ outq' = outq /\ wire' = wire
    BY <1>2 DEF FirstInv
  <2>2. \A i, j \in Sockets : i < j /\ socket'[j] # "unused" => socket'[i] # "unused"
    BY <1>3, <1>4, <2>1 DEF SocketInv
  <2>3. ASSUME NEW j \in Sockets, socket'[j] # "unused"
        PROVE  j <= tr'[maker'[j]].connection
    <3>1. CASE j = k
      BY <1>4, <1>5, <3>1 DEF Sockets
    <3>2. CASE j # k
      <4>1. socket[j] # "unused" /\ maker'[j] = maker[j] /\ maker[j] \in Transports
        BY <1>4, <2>3, <3>2 DEF IInv, Known
      <4>2. j <= tr[maker[j]].connection /\ ~(k < j)
        BY <1>3, <2>1, <4>1 DEF SocketInv
      <4>3. j <= k
        BY <4>2 DEF Sockets
      <4> QED BY <1>5, <4>1, <4>2, <4>3
    <3> QED BY <3>1, <3>2
  <2>4. \A j \in Sockets : socket'[j] = "unused" => outq[j] = << >> /\ wire[j] = << >>
    BY <1>4, <2>1 DEF SocketInv
  <2>5. ASSUME NEW u \in Transports, NEW j \in Sockets, tr'[u].messages = j
        PROVE  maker'[j] = u /\ socket'[j] # "unused"
    <3>1. tr[u].messages = j
      BY <1>5, <2>5
    <3>2. maker[j] = u /\ socket[j] # "unused"
      BY <2>1, <3>1 DEF SocketInv
    <3> QED BY <1>3, <1>4, <3>2
  <2> QED BY <2>1, <2>2, <2>3, <2>4, <2>5 DEF SocketInv
<1>9. PhaseInv'
  <2>1. CASE outcome[FirstCall] = "resolved"
    <3>1. PICK j \in Sockets : Leads(j)
      BY <2>1 DEF FirstInv, PhaseInv
    <3>2. j # k /\ JustNotes(wire[k])
      BY <1>3, <3>1 DEF Leads, LedBy, JustNotes
    <3>3. /\ maker'[j] = First /\ LedBy(wire'[j])
          /\ \A i \in Sockets : i < j /\ maker'[i] = First => JustNotes(wire'[i])
      BY <1>2, <1>4, <3>1, <3>2 DEF Leads
    <3>4. Leads(j)'
      BY <3>3 DEF Leads, LedBy, JustNotes
    <3> QED BY <1>2, <2>1, <3>4 DEF PhaseInv
  <2>2. CASE outcome[FirstCall] # "resolved"
    <3>1. Alone
      BY <2>2 DEF FirstInv, PhaseInv
    <3>2. \A j \in Sockets : maker'[j] = First =>
             maker[j] = First \/ (outq[j] = << >> /\ wire[j] = << >>)
      BY <1>3, <1>4
    <3>3. Early(<< >>) /\ Without(<< >>)
      BY DEF Early, Without
    <3>4. \A j \in Sockets : maker'[j] = First =>
             Early(outq[j]) /\ Early(wire[j]) /\ (Holds(j) => maker[j] = First)
      BY <3>1, <3>2, <3>3 DEF Alone, Holds
    <3>5. \A j \in Sockets : maker'[j] = First =>
             /\ Early(outq[j])' /\ Early(wire[j])'
             /\ (Holds(j)' => Holds(j) /\ maker[j] = First)
      BY <1>2, <3>4 DEF Early, Holds, Without
    <3>6. tr'[First].notes = tr[First].notes /\ tr'[First].requests = tr[First].requests
      BY <1>5, TransportAssumption
    <3>7. /\ Early(tr[First].notes)' /\ Without(tr[First].notes)' /\ Early(tr[First].requests)'
          /\ Without(tr[First].requests) => Without(tr[First].requests)'
      BY <3>1, <3>6 DEF Alone, Early, Without
    <3>8. Alone'
      BY <3>1, <3>5, <3>7 DEF Alone
    <3> QED BY <1>2, <2>2, <3>8 DEF PhaseInv
  <2> QED BY <2>1, <2>2
<1> QED BY <1>6, <1>7, <1>8, <1>9 DEF FirstInv

\* What was buffered is given to the writer.
LEMMA OpenedKeepsFirst ==
    ASSUME IInv, FirstInv, NEW k \in Sockets, Opened(k) PROVE FirstInv'
<1>1. PICK t \in Transports : t = maker[k] /\ socket[k] = "connecting"
  BY DEF Opened, IInv, Known
<1>2. /\ tr \in [Transports -> TransportState] /\ tr[t] \in TransportState
      /\ outq \in [Sockets -> Seq(Message)]
      /\ socket \in [Sockets -> {"unused", "connecting", "open", "closing", "failing", "closed"}]
  BY <1>1 DEF IInv, Types, FirstInv, QueueTypes
<1>3. PICK q : q = tr[t].notes \o tr[t].requests
  OBVIOUS
<1>4. /\ outq' = [outq EXCEPT ![k] = q] /\ socket' = [socket EXCEPT ![k] = "open"]
      /\ tr' = [tr EXCEPT ![t] = [Flushed(t) EXCEPT !.messages = k, !.connecting = NoSocket]]
      /\ UNCHANGED <<clientVars, outcome, maker, wire>>
  BY <1>1, <1>3 DEF Opened
<1>5. /\ tr'[t].notes = << >> /\ tr'[t].requests = << >> /\ tr'[t].messages = k
      /\ tr'[t].connection = tr[t].connection
      /\ \A u \in Transports : u # t => tr'[u] = tr[u]
  <2>1. PICK new : new = [Flushed(t) EXCEPT !.messages = k, !.connecting = NoSocket]
    OBVIOUS
  <2>2. /\ new.notes = << >> /\ new.requests = << >> /\ new.messages = k
        /\ new.connection = tr[t].connection
    BY <1>2, <2>1 DEF Flushed, TransportState
  <2> QED BY <1>2, <1>4, <2>1, <2>2
<1>6. /\ \A j \in Sockets : outq'[j] = IF j = k THEN q ELSE outq[j]
      /\ \A j \in Sockets : socket'[j] = "unused" <=> socket[j] = "unused"
  BY <1>1, <1>2, <1>4
<1>7. tr[t].notes \in Seq(Message) /\ tr[t].requests \in Seq(Message) /\ q \in Seq(Message)
  BY <1>2, <1>3 DEF TransportState
<1>8. QueueTypes' /\ CallInv'
  BY <1>2, <1>4, <1>7 DEF FirstInv, QueueTypes, CallInv, clientVars
<1>9. ThereInv'
  <2>1. t # First => Without(q)
    BY <1>3, <1>7, WithoutConcat DEF FirstInv, ThereInv
  <2>2. ThereInv /\ gate' = gate /\ maker' = maker /\ wire' = wire
    BY <1>4 DEF FirstInv, clientVars
  <2>3. \A j \in Sockets : maker[j] # First => Without(outq'[j]) /\ Without(wire[j])
    BY <1>1, <1>6, <2>1, <2>2 DEF ThereInv
  <2>4. \A u \in Transports : u # First => Without(tr'[u].notes) /\ Without(tr'[u].requests)
    <3>1. Without(<< >>)
      BY DEF Without
    <3> QED BY <1>5, <2>2, <3>1 DEF ThereInv
  <2> QED BY <2>2, <2>3, <2>4 DEF ThereInv, Without
<1>10. SocketInv'
  <2>1. SocketInv /\ maker' = maker /\ wire' = wire
    BY <1>4 DEF FirstInv
  <2>2. \A j \in Sockets : socket[j] # "unused" => maker[j] \in Transports
    BY DEF IInv, Known
  <2>3. /\ \A i, j \in Sockets : i < j /\ socket'[j] # "unused" => socket'[i] # "unused"
        /\ \A j \in Sockets : socket'[j] = "unused" => outq'[j] = << >> /\ wire[j] = << >>
    BY <1>1, <1>6, <2>1 DEF SocketInv
  <2>4. ASSUME NEW j \in Sockets, socket'[j] # "unused"
        PROVE  j <= tr'[maker[j]].connection
    BY <1>5, <1>6, <2>1, <2>2, <2>4 DEF SocketInv
  <2>5. ASSUME NEW u \in Transports, NEW j \in Sockets, tr'[u].messages = j
        PROVE  maker[j] = u /\ socket'[j] # "unused"
    <3>1. CASE u = t
      BY <1>1, <1>5, <1>6, <2>5, <3>1
    <3>2. CASE u # t
      <4>1. tr[u].messages = j
        BY <1>5, <2>5, <3>2
      <4> QED BY <1>6, <2>1, <4>1 DEF SocketInv
    <3> QED BY <3>1, <3>2
  <2> QED BY <2>1, <2>3, <2>4, <2>5 DEF SocketInv
<1>11. PhaseInv'
  <2>1. CASE outcome[FirstCall] = "resolved" \/ t # First
    <3>1. t # First => /\ tr'[First] = tr[First]
                       /\ \A j \in Sockets : maker[j] = First => outq'[j] = outq[j]
      BY <1>1, <1>5, <1>6, TransportAssumption
    <3> QED BY <1>4, <2>1, <3>1, PhaseKept
  <2>2. CASE outcome[FirstCall] # "resolved" /\ t = First
    <3>1. Alone
      BY <2>2 DEF FirstInv, PhaseInv
    <3>2. Early(q) /\ (~Without(q) => ~Without(tr[First].requests))
      BY <1>3, <1>7, <2>2, <3>1, EarlyConcat, WithoutConcat DEF Alone
    <3>3. /\ tr'[First].notes = << >> /\ tr'[First].requests = << >>
          /\ maker' = maker /\ wire' = wire
      BY <1>4, <1>5, <2>2
    <3>4. /\ Early(tr[First].notes)' /\ Without(tr[First].notes)'
          /\ Early(tr[First].requests)' /\ Without(tr[First].requests)'
      BY <3>3 DEF Early, Without
    <3>5. ASSUME NEW j \in Sockets, maker[j] = First
          PROVE  /\ Early(outq'[j]) /\ Early(wire'[j])
                 /\ ~Without(outq'[j]) \/ ~Without(wire'[j]) =>
                      Holds(j) \/ (j = k /\ ~Without(tr[First].requests))
      BY <1>6, <3>1, <3>2, <3>3, <3>5 DEF Alone, Holds
    <3>6. \A j \in Sockets : maker[j] = First =>
             /\ Early(outq[j])' /\ Early(wire[j])'
             /\ (Holds(j)' => Holds(j) \/ (j = k /\ ~Without(tr[First].requests)))
      BY <3>5 DEF Early, Holds, Without
    <3>7. Alone'
      BY <3>1, <3>3, <3>4, <3>6 DEF Alone
    <3> QED BY <1>4, <2>2, <3>7 DEF PhaseInv
  <2> QED BY <2>1, <2>2
<1> QED BY <1>8, <1>9, <1>10, <1>11 DEF FirstInv

\* The writer gets to the next message. Only the latest WebSocket of the first
\* transport may be open: nothing is written to an earlier one than Leads names.
LEMMA WriteKeepsFirst ==
    ASSUME IInv, FirstInv, NEW k \in Sockets, Write(k) PROVE FirstInv'
<1>1. PICK q : q = outq[k]
  OBVIOUS
<1>2. PICK m : m = Head(q)
  OBVIOUS
<1>3. PICK rest : rest = Tail(q)
  OBVIOUS
<1>4. q \in Seq(Message) /\ q # << >> /\ outq \in [Sockets -> Seq(Message)]
  BY <1>1 DEF Write, FirstInv, QueueTypes
<1>5. /\ rest \in Seq(Message) /\ m \in Message /\ 1 \in DOMAIN q /\ m = q[1]
      /\ \A i \in DOMAIN rest : i + 1 \in DOMAIN q /\ rest[i] = q[i + 1]
  BY <1>2, <1>3, <1>4
<1>6. /\ Without(q) => Without(rest) /\ m # FirstCall
      /\ Early(q) => Early(rest) /\ (m = FirstCall \/ m.kind = "note")
  BY <1>4, <1>5 DEF Without, Early
<1>7. socket[k] # "unused"
  BY <1>1, <1>4 DEF FirstInv, SocketInv
<1>8. /\ \A j \in Sockets : outq'[j] = IF j = k THEN rest ELSE outq[j]
      /\ UNCHANGED <<clientVars, tr, socket, maker>>
      /\ outq' \in [Sockets -> Seq(Message)]
  BY <1>1, <1>3, <1>4, <1>5 DEF Write
<1>9. /\ outcome' \in [Calls -> {"none", "pending", "resolved", "rejected"}]
      /\ \A c \in Calls : OnlyRejected(c)
  <2>1. outcome \in [Calls -> {"none", "pending", "resolved", "rejected"}]
    BY DEF FirstInv, QueueTypes
  <2>2. \/ outcome' = outcome
        \/ outcome[m] = "pending" /\ outcome' = [outcome EXCEPT ![m] = "rejected"]
    BY <1>1, <1>2 DEF Write
  <2> QED BY <2>1, <2>2 DEF OnlyRejected
<1>10. /\ wire \in [Sockets -> Seq(Message)] /\ wire' \in [Sockets -> Seq(Message)]
       /\ \/ wire' = wire
          \/ socket[k] = "open" /\ wire' = [wire EXCEPT ![k] = Append(@, m)]
  <2>1. wire \in [Sockets -> Seq(Message)]
    BY DEF FirstInv, QueueTypes
  <2>2. \/ wire' = wire
        \/ socket[k] = "open" /\ wire' = [wire EXCEPT ![k] = Append(@, m)]
    BY <1>1, <1>2 DEF Write
  <2>3. Append(wire[k], m) \in Seq(Message)
    BY <1>5, <2>1
  <2> QED BY <2>1, <2>2, <2>3
<1>11. QueueTypes'
  BY <1>8, <1>9, <1>10 DEF FirstInv, QueueTypes, clientVars
<1>12. ThereInv'
  <2>1. ThereInv /\ gate' = gate /\ tr' = tr /\ maker' = maker
    BY <1>8 DEF FirstInv, clientVars
  <2>2. ASSUME NEW j \in Sockets, maker[j] # First
        PROVE  Without(outq'[j]) /\ Without(wire'[j])
    <3>1. Without(outq[j]) /\ Without(wire[j])
      BY <2>1, <2>2 DEF ThereInv
    <3>2. Without(outq'[j])
      BY <1>1, <1>6, <1>8, <3>1
    <3>3. CASE j # k \/ wire' = wire
      BY <1>10, <3>1, <3>2, <3>3
    <3>4. CASE j = k /\ wire' # wire
      <4>1. wire'[j] = Append(wire[j], m) /\ m # FirstCall
        BY <1>1, <1>6, <1>10, <3>1, <3>4
      <4>2. Without(Append(wire[j], m))
        BY <1>5, <1>10, <3>1, <4>1 DEF Without
      <4> QED BY <3>2, <4>1, <4>2
    <3> QED BY <3>3, <3>4
  <2> QED BY <2>1, <2>2 DEF ThereInv, Without
<1>13. CallInv'
  <2>1. /\ ready' = ready /\ transport' = transport /\ inits' = inits /\ told' = told
        /\ CallInv
    BY <1>8 DEF clientVars, FirstInv
  <2> QED BY <1>9, <2>1, CallShapes DEF CallInv, OnlyRejected
<1>14. SocketInv'
  <2>1. SocketInv /\ maker' = maker /\ tr' = tr /\ socket' = socket
    BY <1>8 DEF FirstInv
  <2>2. \A j \in Sockets : socket[j] = "unused" => outq'[j] = << >> /\ wire'[j] = << >>
    BY <1>7, <1>8, <1>10, <2>1 DEF SocketInv
  <2> QED BY <2>1, <2>2 DEF SocketInv
<1>15. PhaseInv'
  <2>1. outcome'[FirstCall] = "resolved" <=> outcome[FirstCall] = "resolved"
    BY <1>9, CallShapes DEF OnlyRejected
  <2>2. CASE outcome[FirstCall] = "resolved"
    <3>1. PICK j \in Sockets : Leads(j)
      BY <2>2 DEF FirstInv, PhaseInv
    <3>2. LedBy(wire'[j])
      <4>1. LedBy(wire[j]) /\ wire[j] \in Seq(Message)
        BY <1>10, <3>1 DEF Leads
      <4>2. LedBy(Append(wire[j], m))
        BY <1>5, <4>1, AppendKeeps
      <4> QED BY <1>10, <4>1, <4>2
    <3>3. ASSUME NEW i \in Sockets, i < j, maker[i] = First PROVE JustNotes(wire'[i])
      <4>1. JustNotes(wire[i])
        BY <3>1, <3>3 DEF Leads
      <4>2. CASE i # k \/ wire' = wire
        BY <1>10, <4>1, <4>2
      <4>3. CASE i = k /\ socket[k] = "open"
        <5>1. tr[First].connection = k
          BY <3>3, <4>3 DEF IInv, Known
        <5>2. j <= tr[First].connection
          <6>1. socket[j] # "unused" /\ maker[j] = First
            BY <3>1 DEF Leads, LedBy, FirstInv, SocketInv
          <6> QED BY <6>1 DEF FirstInv, SocketInv
        <5> QED BY <3>3, <4>3, <5>1, <5>2 DEF Sockets
      <4> QED BY <1>10, <4>2, <4>3
    <3>4. /\ maker'[j] = First
          /\ \A i \in Sockets : i < j /\ maker'[i] = First => JustNotes(wire'[i])
      BY <1>8, <3>1, <3>3 DEF Leads
    <3>5. Leads(j)'
      BY <3>2, <3>4 DEF Leads, LedBy, JustNotes
    <3> QED BY <2>1, <2>2, <3>5 DEF PhaseInv
  <2>3. CASE outcome[FirstCall] # "resolved"
    <3>1. Alone
      BY <2>3 DEF FirstInv, PhaseInv
    <3>2. ASSUME NEW j \in Sockets, maker[j] = First
          PROVE  /\ Early(outq'[j]) /\ Early(wire'[j])
                 /\ ~Without(outq'[j]) \/ ~Without(wire'[j]) => Holds(j)
      <4>1. Early(outq[j]) /\ Early(wire[j]) /\ wire[j] \in Seq(Message)
        BY <1>10, <3>1, <3>2 DEF Alone
      <4>2. CASE j # k
        BY <1>8, <1>10, <4>1, <4>2 DEF Holds
      <4>3. CASE j = k
        <5>1. Early(rest) /\ (m = FirstCall \/ m.kind = "note")
          BY <1>1, <1>6, <4>1, <4>3
        <5>2. ~Without(rest) => Holds(j)
          BY <1>1, <1>6, <4>3 DEF Holds
        <5>3. m = FirstCall => Holds(j)
          BY <1>1, <1>5, <4>3 DEF Holds, Without
        <5>4. /\ Early(Append(wire[j], m))
              /\ ~Without(Append(wire[j], m)) => Holds(j)
          BY <1>5, <4>1, <5>1, <5>3, AppendKeeps DEF Holds
        <5>5. /\ outq'[j] = rest
              /\ wire'[j] = wire[j] \/ wire'[j] = Append(wire[j], m)
          BY <1>8, <1>10, <4>3
        <5> QED BY <4>1, <5>1, <5>2, <5>4, <5>5 DEF Holds
      <4> QED BY <4>2, <4>3
    <3>3. \A j \in Sockets : maker[j] = First =>
             Early(outq[j])' /\ Early(wire[j])' /\ (Holds(j)' => Holds(j))
      BY <3>2 DEF Early, Holds, Without
    <3>4. /\ Early(tr[First].notes)' /\ Without(tr[First].notes)' /\ Early(tr[First].requests)'
          /\ Without(tr[First].requests) => Without(tr[First].requests)'
      BY <1>8, <3>1 DEF Alone, Early, Without
    <3>5. Alone'
      BY <1>8, <3>1, <3>3, <3>4 DEF Alone
    <3> QED BY <2>1, <2>3, <3>5 DEF PhaseInv
  <2> QED BY <2>2, <2>3
<1> QED BY <1>11, <1>12, <1>13, <1>14, <1>15 DEF FirstInv

\* What is left of FirstInv when promises settle or the gate changes.
LEMMA SettlingKeepsFirst ==
    ASSUME FirstInv, UNCHANGED <<told, tr, outq, socket, maker, wire>>,
           outcome' \in [Calls -> {"none", "pending", "resolved", "rejected"}], Without(gate)',
           \/ outcome'[FirstCall] = outcome[FirstCall]
           \/ outcome'[FirstCall] # "resolved" /\ outcome[FirstCall] # "resolved"
           \/ outcome'[FirstCall] = "resolved" /\ \E k \in Sockets : Leads(k)
    PROVE  QueueTypes' /\ ThereInv' /\ SocketInv' /\ PhaseInv' /\ told'[First] # << >>
<1>1. QueueTypes' /\ ThereInv' /\ SocketInv' /\ told'[First] # << >>
  BY DEF FirstInv, QueueTypes, ThereInv, SocketInv, CallInv, Without
<1>2. PhaseInv'
  <2>1. ASSUME NEW k \in Sockets, Leads(k), outcome'[FirstCall] = "resolved" PROVE PhaseInv'
    <3>1. Leads(k)'
      BY <2>1 DEF Leads, LedBy, JustNotes
    <3> QED BY <2>1, <3>1 DEF PhaseInv
  <2>2. CASE outcome'[FirstCall] = "resolved" <=> outcome[FirstCall] = "resolved"
    BY <2>2, PhaseKept
  <2> QED BY <2>1, <2>2
<1> QED BY <1>1, <1>2

\* While the client has its first transport, the only initialize that may be
\* answered is the first, and it is then what the first wire began with.
LEMMA AnswerKeepsFirst ==
    ASSUME IInv, FirstInv, NEW k \in Sockets, NEW c \in Calls, Answer(k, c) PROVE FirstInv'
<1>1. /\ outcome[c] = "pending" /\ \E i \in DOMAIN wire[k] : wire[k][i] = c
      /\ UNCHANGED <<transport, inits, noted, socket, maker, wire>>
  BY DEF Answer
<1>2. c = FirstCall => Leads(k)
  <2>1. SUFFICES ASSUME c = FirstCall PROVE Leads(k)
    OBVIOUS
  <2>2. maker[k] = First
    BY <1>1, <2>1 DEF FirstInv, ThereInv, Without
  <2>3. Alone
    BY <1>1, <2>1 DEF FirstInv, PhaseInv
  <2>4. Holds(k) /\ Early(wire[k]) /\ wire[k] \in Seq(Message)
    BY <1>1, <2>1, <2>2, <2>3 DEF Alone, Holds, Without, FirstInv, QueueTypes
  <2>5. LedBy(wire[k])
    <3>1. PICK i \in DOMAIN wire[k] : wire[k][i] = FirstCall
      BY <1>1, <2>1
    <3>2. 1 .. (i - 1) \subseteq DOMAIN wire[k]
      BY <2>4, <3>1
    <3> QED BY <2>4, <3>1, <3>2 DEF LedBy, Early
  <2>6. ASSUME NEW j \in Sockets, j < k, maker[j] = First PROVE JustNotes(wire[j])
    <3>1. j # k
      BY <2>6 DEF Sockets
    <3>2. Without(wire[j]) /\ Early(wire[j])
      BY <2>2, <2>3, <2>4, <2>6, <3>1 DEF Alone, Holds
    <3> QED BY <3>2, EarlyNotes
  <2> QED BY <2>2, <2>5, <2>6 DEF Leads
<1>3. c # FirstCall /\ c.kind = "initialize" => transport # First
  <2>1. SUFFICES ASSUME c # FirstCall, c.kind = "initialize" PROVE transport # First
    OBVIOUS
  <2>2. c.of \in 1 .. MaxInits /\ c = Msg("initialize", c.of)
    BY <2>1, CallShapes
  <2>3. c.of <= inits /\ c.of # 1
    BY <1>1, <2>1, <2>2 DEF FirstInv, CallInv, FirstCall
  <2> QED BY <2>2, <2>3 DEF FirstInv, CallInv
<1>4. /\ outcome \in [Calls -> {"none", "pending", "resolved", "rejected"}]
      /\ FirstCall \in Calls
      /\ \A n \in 1 .. MaxInits : Msg("initialize", n) \in Calls
  BY CallShapes DEF FirstInv, QueueTypes
<1>5. /\ \/ outcome' = [outcome EXCEPT ![c] = "resolved"]
         \/ outcome' = [outcome EXCEPT ![c] = "rejected"]
  BY DEF Answer, Initialized
<1>6. /\ outcome' \in [Calls -> {"none", "pending", "resolved", "rejected"}]
      /\ \/ outcome'[FirstCall] = outcome[FirstCall]
         \/ outcome'[FirstCall] # "resolved" /\ outcome[FirstCall] # "resolved"
         \/ outcome'[FirstCall] = "resolved" /\ \E j \in Sockets : Leads(j)
      /\ \A n \in 1 .. MaxInits : outcome'[Msg("initialize", n)] # "none" =>
            outcome[Msg("initialize", n)] # "none"
      /\ outcome[FirstCall] = "resolved" => outcome'[FirstCall] = "resolved"
  BY <1>1, <1>2, <1>4, <1>5
<1>7. /\ transport = First => inits = 1
      /\ \A n \in 1 .. MaxInits : outcome'[Msg("initialize", n)] # "none" => n <= inits
  BY <1>6 DEF FirstInv, CallInv
<1>8. CASE UNCHANGED <<ready, gate, told, tr, outq>>
  <2>1. Without(gate)'
    BY <1>8 DEF FirstInv, ThereInv, Without
  <2>2. QueueTypes' /\ ThereInv' /\ SocketInv' /\ PhaseInv' /\ told'[First] # << >>
    BY <1>1, <1>6, <1>8, <2>1, SettlingKeepsFirst
  <2>3. ready /\ transport = First => outcome'[FirstCall] = "resolved"
    BY <1>6 DEF FirstInv, CallInv
  <2>4. CallInv'
    BY <1>1, <1>7, <1>8, <2>2, <2>3 DEF CallInv
  <2> QED BY <2>2, <2>4 DEF FirstInv
<1>9. CASE /\ c.kind = "initialize" /\ gate' = << >>
           /\ outcome' = [outcome EXCEPT ![c] = "resolved"]
           /\ Give(transport, <<Msg("initialized", c.of)>>, gate)
  <2>1. PICK ns : ns = <<Msg("initialized", c.of)>>
    OBVIOUS
  <2>2. c.of \in 1 .. MaxInits
    BY <1>9, CallShapes
  <2>3. ns \in Seq(Message) /\ Without(ns)
    <3>1. Msg("initialized", c.of) \in Message /\ Msg("initialized", c.of) # FirstCall
      BY <2>2, NumbersOfMessages, CallShapes
    <3> QED BY <2>1, <3>1 DEF Without
  <2>4. /\ gate \in Seq(Message) /\ transport \in Transports /\ Without(gate)
        /\ Without(gate)'
    BY <1>9 DEF IInv, Types, FirstInv, ThereInv, Without
  <2>5. transport = First => outcome'[FirstCall] = "resolved"
    BY <1>3, <1>4, <1>9
  <2>6. \/ outcome'[FirstCall] = outcome[FirstCall]
        \/ outcome'[FirstCall] = "resolved" /\ \E j \in Sockets : Leads(j)
    BY <1>2, <1>4, <1>9
  <2>7. QueueTypes' /\ ThereInv' /\ SocketInv' /\ PhaseInv' /\ told'[First] # << >>
    BY <1>1, <1>6, <1>9, <2>1, <2>3, <2>4, <2>5, <2>6, GiveKeepsFirst
  <2>8. CallInv'
    BY <1>1, <1>7, <2>5, <2>7 DEF CallInv
  <2> QED BY <2>7, <2>8 DEF FirstInv
<1> QED BY <1>8, <1>9 DEF Answer, Initialized

\* A call of sendRequest, with another request than the first, on the transport
\* that the client has then.
LEMMA SendKeepsFirst ==
    ASSUME IInv, FirstInv, NEW c \in Calls, c # FirstCall, Send(c), transport' \in Transports,
           UNCHANGED <<gate, socket, maker, wire>>,
           transport' = First => outcome[FirstCall] = "resolved"
    PROVE  QueueTypes' /\ ThereInv' /\ SocketInv' /\ PhaseInv' /\ told'[First] # << >>
<1>1. /\ outcome' \in [Calls -> {"none", "pending", "resolved", "rejected"}]
      /\ outcome'[FirstCall] = outcome[FirstCall]
  BY CallShapes DEF Send, FirstInv, QueueTypes
<1>2. Without(gate)'
  BY DEF FirstInv, ThereInv, Without
<1>3. CASE UNCHANGED <<told, tr, outq>>
  BY <1>1, <1>2, <1>3, SettlingKeepsFirst
<1>4. CASE Give(transport', << >>, <<c>>)
  <2>1. PICK none : none = << >>
    OBVIOUS
  <2>2. PICK one : one = <<c>>
    OBVIOUS
  <2>3. none \in Seq(Message) /\ one \in Seq(Message) /\ Without(none) /\ Without(one)
    BY <2>1, <2>2 DEF Without, Calls
  <2>4. Give(transport', none, one)
    BY <1>4, <2>1, <2>2
  <2> QED BY <1>1, <1>2, <2>3, <2>4, GiveKeepsFirst
<1> QED BY <1>3, <1>4 DEF Send

LEMMA RequestKeepsFirst ==
    ASSUME IInv, FirstInv, NEW r \in Requests, Request(r) PROVE FirstInv'
<1>1. PICK c \in Calls : c = Msg("request", r) /\ c # FirstCall
  BY CallShapes
<1>2. /\ UNCHANGED <<transport, ready, inits, noted, socket, maker, wire>>
      /\ outcome[c] = "none"
  BY <1>1 DEF Request
<1>3. CASE /\ gate' = Append(gate, c) /\ outcome' = [outcome EXCEPT ![c] = "pending"]
           /\ UNCHANGED <<told, tr, outq>>
  <2>1. Without(gate)'
    <3>1. gate \in Seq(Message) /\ Without(gate)
      BY DEF IInv, Types, FirstInv, ThereInv
    <3>2. c \in Message
      BY DEF Calls
    <3>3. Without(Append(gate, c))
      BY <1>1, <3>1, <3>2 DEF Without
    <3> QED BY <1>3, <3>3 DEF Without
  <2>2. /\ outcome' \in [Calls -> {"none", "pending", "resolved", "rejected"}]
        /\ outcome'[FirstCall] = outcome[FirstCall]
        /\ \A n \in 1 .. MaxInits : outcome'[Msg("initialize", n)] = outcome[Msg("initialize", n)]
    BY <1>1, <1>3, CallShapes DEF FirstInv, QueueTypes
  <2>3. QueueTypes' /\ ThereInv' /\ SocketInv' /\ PhaseInv' /\ told'[First] # << >>
    BY <1>2, <1>3, <2>1, <2>2, SettlingKeepsFirst
  <2>4. CallInv'
    BY <1>2, <2>2, <2>3 DEF FirstInv, CallInv
  <2> QED BY <2>3, <2>4 DEF FirstInv
<1>4. CASE ready /\ Send(c) /\ gate' = gate
  <2>1. transport' \in Transports /\ (transport' = First => outcome[FirstCall] = "resolved")
    BY <1>2, <1>4 DEF IInv, Types, FirstInv, CallInv
  <2>2. /\ outcome'[FirstCall] = outcome[FirstCall]
        /\ \A n \in 1 .. MaxInits : outcome'[Msg("initialize", n)] = outcome[Msg("initialize", n)]
    BY <1>1, <1>4, CallShapes DEF Send, FirstInv, QueueTypes
  <2>3. QueueTypes' /\ ThereInv' /\ SocketInv' /\ PhaseInv' /\ told'[First] # << >>
    BY <1>1, <1>2, <1>4, <2>1, SendKeepsFirst
  <2>4. CallInv'
    BY <1>2, <2>2, <2>3 DEF FirstInv, CallInv
  <2> QED BY <2>3, <2>4 DEF FirstInv
<1> QED BY <1>1, <1>3, <1>4 DEF Request, Gated

LEMMA NotifyKeepsFirst == ASSUME IInv, FirstInv, Notify PROVE FirstInv'
<1>1. /\ UNCHANGED <<ready, transport, gate, inits, outcome, socket, maker, wire>>
      /\ noted' \in 1 .. MaxNotes /\ noted' \in Nat
  BY BoundAssumption DEF Notify, IInv, Types
<1>2. /\ transport \in Transports /\ Without(gate)' /\ FirstCall \in Calls
      /\ outcome' \in [Calls -> {"none", "pending", "resolved", "rejected"}]
  BY <1>1, CallShapes DEF IInv, Types, FirstInv, ThereInv, CallInv, QueueTypes, Without
<1>3. QueueTypes' /\ ThereInv' /\ SocketInv' /\ PhaseInv' /\ told'[First] # << >>
  <2>1. CASE UNCHANGED <<told, tr, outq>>
    BY <1>1, <1>2, <2>1, SettlingKeepsFirst
  <2>2. CASE Give(transport, <<Msg("note", noted')>>, << >>)
    <3>1. PICK none : none = << >>
      OBVIOUS
    <3>2. PICK one : one = <<Msg("note", noted')>>
      OBVIOUS
    <3>3. /\ none \in Seq(Message) /\ one \in Seq(Message) /\ Without(none) /\ Without(one)
          /\ Early(one)
      <4>1. /\ Msg("note", noted') \in Message /\ Msg("note", noted') # FirstCall
            /\ Msg("note", noted').kind = "note"
        BY <1>1, NumbersOfMessages, CallShapes DEF Msg
      <4> QED BY <3>1, <3>2, <4>1 DEF Without, Early
    <3>4. Give(transport, one, none)
      BY <2>2, <3>1, <3>2
    <3> QED BY <1>1, <1>2, <3>1, <3>3, <3>4, GiveKeepsFirst
  <2> QED BY <2>1, <2>2 DEF Notify
<1>4. CallInv'
  BY <1>1, <1>3 DEF FirstInv, CallInv
<1> QED BY <1>3, <1>4 DEF FirstInv

\* The client goes to another transport than the first, and does not come back.
LEMMA ChangeKeepsFirst ==
    ASSUME IInv, FirstInv, NEW t \in Transports, Change(t) PROVE FirstInv'
<1>1. /\ transport' = t /\ t # First /\ inits' = inits + 1 /\ inits' \in 1 .. MaxInits
      /\ UNCHANGED <<ready, gate, noted, socket, maker, wire>>
  BY BoundAssumption DEF Change, FirstInv, CallInv, IInv, Types
<1>2. PICK c \in Calls : c = Msg("initialize", inits')
  BY <1>1, CallShapes
<1>3. c # FirstCall
  <2>1. inits' \in Nat /\ inits' # 1
    BY <1>1 DEF IInv, Types
  <2> QED BY <1>2, <2>1, CallShapes
<1>4. Send(c)
  BY <1>2 DEF Change
<1>5. QueueTypes' /\ ThereInv' /\ SocketInv' /\ PhaseInv' /\ told'[First] # << >>
  BY <1>1, <1>3, <1>4, SendKeepsFirst
<1>6. \A n \in 1 .. MaxInits : outcome'[Msg("initialize", n)] # "none" => n <= inits'
  <2>1. SUFFICES ASSUME NEW n \in 1 .. MaxInits, outcome'[Msg("initialize", n)] # "none"
                 PROVE  n <= inits'
    OBVIOUS
  <2>2. CASE Msg("initialize", n) = c
    <3>1. n = inits'
      BY <1>2, <2>2 DEF Msg
    <3> QED BY <1>1, <3>1
  <2>3. CASE Msg("initialize", n) # c
    <3>1. outcome'[Msg("initialize", n)] = outcome[Msg("initialize", n)]
      BY <1>4, <2>3, CallShapes DEF Send, FirstInv, QueueTypes
    <3>2. n <= inits /\ inits \in Nat
      BY <2>1, <3>1 DEF FirstInv, CallInv, IInv, Types
    <3> QED BY <1>1, <3>2
  <2> QED BY <2>2, <2>3
<1>7. CallInv'
  BY <1>1, <1>5, <1>6 DEF CallInv
<1> QED BY <1>5, <1>7 DEF FirstInv

-----------------------------------------------------------------------------
LEMMA StepKeepsFirst == IInv /\ FirstInv /\ [Next]_vars => FirstInv'
<1> SUFFICES ASSUME IInv, FirstInv, [Next]_vars PROVE FirstInv'
  OBVIOUS
<1>1. CASE UNCHANGED vars
  <2>1. QueueTypes' /\ ThereInv' /\ CallInv' /\ SocketInv'
    BY <1>1 DEF vars, clientVars, FirstInv, QueueTypes, ThereInv, CallInv, SocketInv, Without
  <2>2. PhaseInv'
    BY <1>1, PhaseKept DEF vars, clientVars
  <2> QED BY <2>1, <2>2 DEF FirstInv
<1>2. ASSUME NEW r \in Requests, Request(r) PROVE FirstInv'
  BY <1>2, RequestKeepsFirst
<1>3. CASE Notify
  BY <1>3, NotifyKeepsFirst
<1>4. ASSUME NEW t \in Transports, Change(t) \/ Connect(t) \/ Dispose(t) PROVE FirstInv'
  BY <1>4, ChangeKeepsFirst, ConnectKeepsFirst, EndingsKeepFirst
<1>5. ASSUME NEW k \in Sockets, Opened(k) \/ Write(k) PROVE FirstInv'
  BY <1>5, OpenedKeepsFirst, WriteKeepsFirst
<1>6. ASSUME NEW k \in Sockets, Failed(k) \/ Lost(k) \/ Closed(k) PROVE FirstInv'
  BY <1>6, EndingsKeepFirst
<1>7. ASSUME NEW k \in Sockets, NEW c \in Calls, Answer(k, c) PROVE FirstInv'
  BY <1>7, AnswerKeepsFirst
<1> QED BY <1>1, <1>2, <1>3, <1>4, <1>5, <1>6, <1>7 DEF Next

LEMMA InitEstablishesFirst == Init => FirstInv
<1> SUFFICES ASSUME Init PROVE FirstInv
  OBVIOUS
<1>1. PICK one : one = <<FirstCall>>
  OBVIOUS
<1>2. /\ FirstCall \in Calls /\ FirstCall \in Message
      /\ one \in Seq(Message) /\ << >> \in Seq(Message) /\ one # << >>
  BY <1>1, CallShapes DEF Calls
<1>3. /\ ready = FALSE /\ gate = << >> /\ inits = 1
      /\ outcome = [c \in Calls |-> IF c = FirstCall THEN "pending" ELSE "none"]
      /\ told = [t \in Transports |-> IF t = First THEN one ELSE << >>]
      /\ tr = [t \in Transports |->
                 [connection |-> NoSocket, messages |-> NoSocket, connecting |-> NoSocket,
                  disposed |-> FALSE, notes |-> << >>, requests |-> told[t]]]
      /\ socket = [k \in Sockets |-> "unused"] /\ maker = [k \in Sockets |-> None]
      /\ outq = [k \in Sockets |-> << >>] /\ wire = [k \in Sockets |-> << >>]
  BY <1>1 DEF Init, FirstCall
<1>4. QueueTypes
  BY <1>2, <1>3 DEF QueueTypes
<1>5. ThereInv
  BY <1>3 DEF ThereInv, Without
<1>6. CallInv
  <2>1. \A n \in 1 .. MaxInits : outcome[Msg("initialize", n)] # "none" => n <= inits
    <3>1. SUFFICES ASSUME NEW n \in 1 .. MaxInits, n # 1
                   PROVE  outcome[Msg("initialize", n)] = "none"
      BY <1>3
    <3>2. Msg("initialize", n) \in Calls /\ Msg("initialize", n) # FirstCall
      BY <3>1, CallShapes
    <3> QED BY <1>3, <3>2
  <2> QED BY <1>2, <1>3, <2>1, TransportAssumption DEF CallInv
<1>7. SocketInv
  BY <1>3 DEF SocketInv, Sockets, NoSocket
<1>8. PhaseInv
  <2>1. tr[First].notes = << >> /\ tr[First].requests = one
    BY <1>3, TransportAssumption
  <2>2. Alone
    BY <1>1, <1>3, <2>1, TransportAssumption DEF Alone, Early, Holds, Without
  <2> QED BY <1>2, <1>3, <2>2 DEF PhaseInv
<1> QED BY <1>4, <1>5, <1>6, <1>7, <1>8 DEF FirstInv

LEMMA FirstOnTheWire == FirstInv => FirstAskedWhenInitialized
<1> SUFFICES ASSUME FirstInv, NEW k \in Sockets, maker[k] = First,
                    \A j \in 1 .. (k - 1) : maker[j] = First => JustNotes(wire[j]),
                    NEW i \in DOMAIN wire[k], wire[k][i].kind \notin {"initialize", "note"}
             PROVE  \E j \in 1 .. (i - 1) : wire[k][j].kind = "initialize"
                                           /\ outcome[wire[k][j]] = "resolved"
  BY DEF FirstAskedWhenInitialized, AskedWhenInitialized
<1>1. FirstCall.kind = "initialize" /\ wire[k] \in Seq(Message) /\ ~JustNotes(wire[k])
  BY DEF FirstCall, Msg, FirstInv, QueueTypes, JustNotes
<1>2. outcome[FirstCall] = "resolved"
  BY <1>1 DEF FirstInv, PhaseInv, Alone, Early
<1>3. PICK h \in Sockets : Leads(h)
  BY <1>2 DEF FirstInv, PhaseInv
<1>4. ~(k < h) /\ ~(h < k)
  <2>1. ~JustNotes(wire[h])
    BY <1>1, <1>3 DEF Leads, LedBy, JustNotes
  <2> QED BY <1>1, <1>3, <2>1 DEF Leads, Sockets
<1>5. h = k
  BY <1>4 DEF Sockets
<1>6. PICK j \in DOMAIN wire[k] :
        /\ wire[k][j] = FirstCall
        /\ \A g \in 1 .. (j - 1) : wire[k][g] = FirstCall \/ wire[k][g].kind = "note"
  BY <1>3, <1>5 DEF Leads, LedBy
<1>7. i \in Nat \ {0} /\ j \in Nat \ {0} /\ i # j /\ i \notin 1 .. (j - 1)
  BY <1>1, <1>6
<1> QED BY <1>1, <1>2, <1>6, <1>7

\* Nothing but initialize, and notifications of the application, goes over the
\* wire of the first language server before it has answered initialize, however
\* connections fail, are lost and are made again, requests wait at the gate and
\* the client changes transports meanwhile (LSClient.ts:230-232,
\* LSWebSocketTransport.ts:102-133, 258-275).
THEOREM FirstServerAskedWhenInitialized == Spec => []FirstAskedWhenInitialized
<1> DEFINE Both == IInv /\ FirstInv
<1>1. Init => Both
  BY InitEstablishes, InitEstablishesFirst
<1>2. Both /\ [Next]_vars => Both'
  BY StepKeeps, StepKeepsFirst
<1>3. Both => FirstAskedWhenInitialized
  BY FirstOnTheWire
<1> QED BY <1>1, <1>2, <1>3, PTL DEF Spec

-----------------------------------------------------------------------------
(* Only, and induction with sets for operators *)

LEMMA NatSetInduction ==
    ASSUME NEW T, 0 \in T, \A n \in Nat : n \in T => n + 1 \in T PROVE Nat \subseteq T
<1> DEFINE U == Nat \ T
<1> SUFFICES ASSUME U # {} PROVE FALSE
  OBVIOUS
<1>1. \E n \in U : \A k \in U : <<k, n>> \notin OpToRel(<, Nat)
  BY NatLessThanWellFounded, WFMin
<1>2. \A k, n \in Nat : k < n => <<k, n>> \in OpToRel(<, Nat)
  BY DEF OpToRel
<1>3. PICK n \in U : \A k \in U : ~(k < n)
  BY <1>1, <1>2
<1>4. n - 1 \in Nat /\ n - 1 < n /\ (n - 1) + 1 = n
  BY <1>3
<1>5. n - 1 \in T
  BY <1>3, <1>4
<1> QED
  BY <1>3, <1>4, <1>5

With(s, m, set) == IF m \in set THEN Append(s, m) ELSE s

\* f tells what Only keeps of the first messages of q, up to n of them.
Keeps(f, q, set, n) ==
    /\ f \in [0 .. n -> Seq(Message)]
    /\ f[0] = << >>
    /\ \A i \in 1 .. n : f[i] = With(f[i - 1], q[i], set)

LEMMA WithType ==
    ASSUME NEW s \in Seq(Message), NEW m \in Message, NEW set
    PROVE  With(s, m, set) \in Seq(Message)
BY DEF With

LEMMA KeepsExists ==
    ASSUME NEW q \in Seq(Message), NEW set PROVE \E f : Keeps(f, q, set, Len(q))
<1> DEFINE T == {n \in Nat : n <= Len(q) => \E f : Keeps(f, q, set, n)}
<1>1. 0 \in T
  <2>1. Keeps([i \in 0 .. 0 |-> << >>], q, set, 0)
    BY DEF Keeps
  <2> QED BY <2>1
<1>2. ASSUME NEW n \in Nat, n \in T PROVE n + 1 \in T
  <2> SUFFICES ASSUME n + 1 <= Len(q) PROVE \E f : Keeps(f, q, set, n + 1)
    OBVIOUS
  <2>1. PICK f : Keeps(f, q, set, n)
    BY <1>2
  <2>2. PICK last : last = With(f[n], q[n + 1], set)
    OBVIOUS
  <2>3. last \in Seq(Message)
    <3>1. f[n] \in Seq(Message) /\ q[n + 1] \in Message
      BY <2>1 DEF Keeps
    <3> QED BY <2>2, <3>1, WithType
  <2>4. PICK g : g = [i \in 0 .. (n + 1) |-> IF i = n + 1 THEN last ELSE f[i]]
    OBVIOUS
  <2>5. /\ g \in [0 .. (n + 1) -> Seq(Message)] /\ g[n + 1] = last
        /\ \A i \in 0 .. n : g[i] = f[i]
    BY <2>1, <2>3, <2>4 DEF Keeps
  <2>6. ASSUME NEW i \in 1 .. (n + 1) PROVE g[i] = With(g[i - 1], q[i], set)
    <3>1. i - 1 \in 0 .. n /\ g[i - 1] = f[i - 1]
      BY <2>5
    <3>2. CASE i = n + 1
      BY <2>2, <2>5, <3>1, <3>2
    <3>3. CASE i # n + 1
      BY <2>1, <2>5, <3>1, <3>3 DEF Keeps
    <3> QED BY <3>2, <3>3
  <2>7. g[0] = << >>
    BY <2>1, <2>5 DEF Keeps
  <2>8. Keeps(g, q, set, n + 1)
    BY <2>5, <2>6, <2>7 DEF Keeps
  <2> QED BY <2>8
<1>3. Nat \subseteq T
  <2> HIDE DEF T
  <2> QED BY <1>1, <1>2, NatSetInduction
<1> QED BY <1>3

LEMMA OnlyKeeps ==
    ASSUME NEW q \in Seq(Message), NEW set
    PROVE  \E f : Keeps(f, q, set, Len(q)) /\ Only(q, set) = f[Len(q)]
<1> DEFINE Define(f) == [n \in 0 .. Len(q) |->
                           IF n = 0 THEN << >>
                           ELSE IF q[n] \in set THEN Append(f[n - 1], q[n]) ELSE f[n - 1]]
<1>1. PICK f : Keeps(f, q, set, Len(q))
  BY KeepsExists
<1>2. Len(q) \in Nat
  OBVIOUS
<1>3. f = Define(f)
  <2>1. f \in [0 .. Len(q) -> Seq(Message)] /\ f[0] = << >>
    BY <1>1 DEF Keeps
  <2>2. ASSUME NEW n \in 0 .. Len(q) PROVE f[n] = Define(f)[n]
    <3>1. CASE n = 0
      BY <2>1, <3>1
    <3>2. CASE n # 0
      <4>1. n \in 1 .. Len(q)
        BY <3>2
      <4>2. f[n] = With(f[n - 1], q[n], set)
        BY <1>1, <4>1 DEF Keeps
      <4> QED BY <3>2, <4>2 DEF With
    <3> QED BY <3>1, <3>2
  <2>3. DOMAIN f = 0 .. Len(q) /\ f = [n \in 0 .. Len(q) |-> f[n]]
    BY <2>1
  <2> QED BY <2>2, <2>3
<1>4. Only(q, set) = (CHOOSE g : g = Define(g))[Len(q)]
  BY DEF Only
<1>5. PICK g : g = (CHOOSE h : h = Define(h))
  OBVIOUS
<1>6. g = Define(g)
  <2> HIDE DEF Define
  <2> QED BY <1>3, <1>5
<1>7. \A i \in 0 .. Len(q) : g[i] = Define(g)[i]
  BY <1>6
<1>8. DOMAIN g = 0 .. Len(q) /\ g[0] = << >>
  BY <1>2, <1>6
<1>9. ASSUME NEW n \in 1 .. Len(q) PROVE g[n] = With(g[n - 1], q[n], set)
  BY <1>7 DEF With
<1> DEFINE T == {n \in Nat : n <= Len(q) => g[n] \in Seq(Message)}
<1>10. 0 \in T
  BY <1>8
<1>11. ASSUME NEW n \in Nat, n \in T PROVE n + 1 \in T
  <2> SUFFICES ASSUME n + 1 <= Len(q) PROVE g[n + 1] \in Seq(Message)
    OBVIOUS
  <2>1. g[n] \in Seq(Message) /\ q[n + 1] \in Message
    BY <1>2, <1>11
  <2>2. n + 1 \in 1 .. Len(q) /\ (n + 1) - 1 = n
    BY <1>2
  <2>3. g[n + 1] = With(g[n], q[n + 1], set)
    BY <1>9, <2>2
  <2> QED BY <2>1, <2>3, WithType
<1>12. Nat \subseteq T
  <2> HIDE DEF T
  <2> QED BY <1>10, <1>11, NatSetInduction
<1>13. g \in [0 .. Len(q) -> Seq(Message)]
  <2>1. \A n \in 0 .. Len(q) : g[n] \in Seq(Message)
    BY <1>12
  <2>2. g = [n \in 0 .. Len(q) |-> g[n]]
    BY <1>6
  <2> QED BY <2>1, <2>2
<1>14. Keeps(g, q, set, Len(q))
  BY <1>8, <1>9, <1>13 DEF Keeps
<1> QED BY <1>4, <1>5, <1>14

\* Only goes through a sequence and then through the next.
LEMMA OnlyConcat ==
    ASSUME NEW p \in Seq(Message), NEW q \in Seq(Message), NEW set
    PROVE  Only(p \o q, set) = Only(p, set) \o Only(q, set)
<1>1. PICK r : r = p \o q
  OBVIOUS
<1>1a. PICK l, m : l = Len(p) /\ m = Len(q)
  OBVIOUS
<1>2. /\ r \in Seq(Message) /\ Len(r) = l + m /\ l \in Nat /\ m \in Nat
      /\ \A i \in 1 .. l : r[i] = p[i]
      /\ \A i \in 1 .. m : r[l + i] = q[i] /\ q[i] \in Message
  <2>1. /\ r \in Seq(Message) /\ Len(r) = l + m /\ l \in Nat /\ m \in Nat
        /\ \A i \in 1 .. l + m : r[i] = IF i <= l THEN p[i] ELSE q[i - l]
    BY <1>1, <1>1a, ConcatProperties
  <2>2. \A i \in 1 .. l : r[i] = p[i]
    BY <2>1
  <2>3. ASSUME NEW i \in 1 .. m PROVE r[l + i] = q[i] /\ q[i] \in Message
    <3>1. PICK j : j = l + i
      OBVIOUS
    <3>2. j \in 1 .. l + m /\ ~(j <= l) /\ j - l = i
      BY <2>1, <3>1
    <3>3. r[j] = q[i]
      BY <2>1, <3>2
    <3>4. q[i] \in Message
      BY <1>1a
    <3> QED BY <3>1, <3>3, <3>4
  <2> QED BY <2>1, <2>2, <2>3
<1>3. PICK f : Keeps(f, p, set, l) /\ Only(p, set) = f[l]
  BY <1>1a, OnlyKeeps
<1>4. PICK g : Keeps(g, q, set, m) /\ Only(q, set) = g[m]
  BY <1>1a, OnlyKeeps
<1>5. PICK h : Keeps(h, r, set, l + m) /\ Only(r, set) = h[l + m]
  BY <1>2, OnlyKeeps
<1>6. \A n \in Nat : n <= l => h[n] = f[n]
  <2> DEFINE T == {n \in Nat : n <= l => h[n] = f[n]}
  <2>1. 0 \in T
    BY <1>3, <1>5 DEF Keeps
  <2>2. ASSUME NEW n \in Nat, n \in T PROVE n + 1 \in T
    <3> SUFFICES ASSUME n + 1 <= l PROVE h[n + 1] = f[n + 1]
      OBVIOUS
    <3>1. n + 1 \in 1 .. l /\ n + 1 \in 1 .. (l + m) /\ (n + 1) - 1 = n /\ n <= l
      BY <1>2
    <3>2. r[n + 1] = p[n + 1] /\ h[n] = f[n]
      BY <1>2, <2>2, <3>1
    <3> QED BY <1>3, <1>5, <3>1, <3>2 DEF Keeps
  <2>3. Nat \subseteq T
    <3> HIDE DEF T
    <3> QED BY <2>1, <2>2, NatSetInduction
  <2> QED BY <2>3
<1>7. PICK s : s = f[l] /\ s \in Seq(Message) /\ h[l] = s
  BY <1>2, <1>3, <1>6 DEF Keeps
<1>8. PICK J : J = [n \in Nat |-> s \o g[n]]
  OBVIOUS
<1>9. h[l] = J[0]
  BY <1>4, <1>7, <1>8, ConcatEmptySeq DEF Keeps
<1>10. ASSUME NEW n \in Nat, n + 1 <= m, h[l + n] = J[n] PROVE h[l + (n + 1)] = J[n + 1]
  <2>1. PICK j : j = l + (n + 1)
    OBVIOUS
  <2>2. /\ n + 1 \in 1 .. m /\ n \in 0 .. m /\ j \in 1 .. (l + m) /\ (n + 1) - 1 = n
        /\ j - 1 = l + n /\ r[j] = q[n + 1] /\ q[n + 1] \in Message
    BY <1>2, <1>10, <2>1
  <2>3. h[j] = With(h[j - 1], r[j], set) /\ g[n + 1] = With(g[n], q[n + 1], set)
    BY <1>4, <1>5, <2>2 DEF Keeps
  <2>4. PICK t, e : t = g[n] /\ e = q[n + 1]
    OBVIOUS
  <2>5. t \in Seq(Message) /\ e \in Message /\ h[j] = With(s \o t, e, set)
    <3>1. t \in Seq(Message)
      BY <1>4, <2>2, <2>4 DEF Keeps
    <3>2. h[j - 1] = s \o t
      BY <1>8, <1>10, <2>2, <2>4
    <3> QED BY <2>2, <2>3, <2>4, <3>1, <3>2
  <2>6. J[n + 1] = s \o With(t, e, set)
    BY <1>8, <2>3, <2>4, SMTT(30)
  <2>7. With(s \o t, e, set) = s \o With(t, e, set)
    <3>1. PICK u : u = s \o t
      OBVIOUS
    <3>2. u \in Seq(Message) /\ <<e>> \in Seq(Message)
      BY <1>7, <2>5, <3>1
    <3>3. Append(u, e) = u \o <<e>> /\ Append(t, e) = t \o <<e>>
      BY <2>5, <3>2, AppendIsConcat
    <3>4. (s \o t) \o <<e>> = s \o (t \o <<e>>)
      <4>1. PICK v : v = <<e>>
        OBVIOUS
      <4>2. s \in Seq(Message) /\ t \in Seq(Message) /\ v \in Seq(Message)
        BY <1>7, <2>5, <3>2, <4>1
      <4>3. (s \o t) \o v = s \o (t \o v)
        BY <4>2, ConcatAssociative, SMTT(30)
      <4> QED BY <4>1, <4>3
    <3> QED BY <3>1, <3>3, <3>4 DEF With
  <2> QED BY <2>1, <2>5, <2>6, <2>7
<1>11. \A n \in Nat : n <= m => h[l + n] = J[n]
  <2> DEFINE T == {n \in Nat : n <= m => h[l + n] = J[n]}
  <2>1. 0 \in T
    BY <1>2, <1>9
  <2>2. ASSUME NEW n \in Nat, n \in T PROVE n + 1 \in T
    BY <1>2, <1>10, <2>2
  <2>3. Nat \subseteq T
    <3> HIDE DEF T
    <3> QED BY <2>1, <2>2, NatSetInduction
  <2> QED BY <2>3
<1>12. h[l + m] = s \o g[m]
  <2>1. h[l + m] = J[m]
    BY <1>2, <1>11
  <2> QED BY <1>2, <1>8, <2>1
<1> QED BY <1>1, <1>3, <1>4, <1>5, <1>7, <1>12

\* What Only keeps all or none of.
LEMMA OnlyAll ==
    ASSUME NEW q \in Seq(Message), NEW set, \A i \in DOMAIN q : q[i] \in set
    PROVE  Only(q, set) = q
<1>1. PICK f : Keeps(f, q, set, Len(q)) /\ Only(q, set) = f[Len(q)]
  BY OnlyKeeps
<1> DEFINE T == {n \in Nat : n <= Len(q) => f[n] = SubSeq(q, 1, n)}
<1>2. 0 \in T
  BY <1>1, SubSeqEmpty DEF Keeps
<1>3. ASSUME NEW n \in Nat, n \in T PROVE n + 1 \in T
  <2> SUFFICES ASSUME n + 1 <= Len(q) PROVE f[n + 1] = SubSeq(q, 1, n + 1)
    OBVIOUS
  <2>1. n + 1 \in 1 .. Len(q) /\ (n + 1) - 1 = n /\ f[n] = SubSeq(q, 1, n) /\ q[n + 1] \in set
    BY <1>3
  <2>2. f[n + 1] = Append(SubSeq(q, 1, n), q[n + 1])
    BY <1>1, <2>1 DEF Keeps, With
  <2>3. PICK k : k = n + 1
    OBVIOUS
  <2>4. 1 \in 1 .. Len(q) /\ k \in 1 .. Len(q) /\ k - 1 = n
    BY <2>1, <2>3
  <2>5. SubSeq(q, 1, k) = SubSeq(q, 1, k - 1) \o <<q[k]>>
    BY <2>4, SubSeqRecursiveSecond
  <2>6. SubSeq(q, 1, n) \in Seq(Message) /\ q[k] \in Message
    BY <2>4
  <2>7. Append(SubSeq(q, 1, n), q[k]) = SubSeq(q, 1, n) \o <<q[k]>>
    BY <2>6, AppendIsConcat
  <2> QED BY <2>2, <2>3, <2>4, <2>5, <2>7
<1>4. Nat \subseteq T
  <2> HIDE DEF T
  <2> QED BY <1>2, <1>3, NatSetInduction
<1> QED BY <1>1, <1>4, SubSeqFull

LEMMA OnlyNone ==
    ASSUME NEW q \in Seq(Message), NEW set, \A i \in DOMAIN q : q[i] \notin set
    PROVE  Only(q, set) = << >>
<1>1. PICK f : Keeps(f, q, set, Len(q)) /\ Only(q, set) = f[Len(q)]
  BY OnlyKeeps
<1> DEFINE T == {n \in Nat : n <= Len(q) => f[n] = << >>}
<1>2. 0 \in T
  BY <1>1 DEF Keeps
<1>3. ASSUME NEW n \in Nat, n \in T PROVE n + 1 \in T
  <2> SUFFICES ASSUME n + 1 <= Len(q) PROVE f[n + 1] = << >>
    OBVIOUS
  <2>1. n + 1 \in 1 .. Len(q) /\ (n + 1) - 1 = n /\ f[n] = << >> /\ q[n + 1] \notin set
    BY <1>3
  <2> QED BY <1>1, <2>1 DEF Keeps, With
<1>4. Nat \subseteq T
  <2> HIDE DEF T
  <2> QED BY <1>2, <1>3, NatSetInduction
<1> QED BY <1>1, <1>4

LEMMA OnlyType ==
    ASSUME NEW q \in Seq(Message), NEW set PROVE Only(q, set) \in Seq(Message)
<1>1. PICK f : Keeps(f, q, set, Len(q)) /\ Only(q, set) = f[Len(q)]
  BY OnlyKeeps
<1>2. Len(q) \in 0 .. Len(q)
  OBVIOUS
<1> QED BY <1>1, <1>2 DEF Keeps

\* Notifications, requests, and the two after one another.
LEMMA OnlyOne ==
    ASSUME NEW ns \in Seq(Notes), NEW rs \in Seq(Calls)
    PROVE  /\ ns \in Seq(Message) /\ rs \in Seq(Message)
           /\ Only(ns, Notes) = ns /\ Only(rs, Notes) = << >>
           /\ Only(ns, Calls) = << >> /\ Only(rs, Calls) = rs
<1>1. Notes \subseteq Message /\ Calls \subseteq Message /\ Notes \cap Calls = {}
  BY DEF Notes, Calls
<1>2. /\ ns \in Seq(Message) /\ rs \in Seq(Message)
      /\ \A i \in DOMAIN ns : ns[i] \in Notes /\ ns[i] \notin Calls
      /\ \A i \in DOMAIN rs : rs[i] \in Calls /\ rs[i] \notin Notes
  BY <1>1
<1> QED BY <1>2, OnlyAll, OnlyNone

-----------------------------------------------------------------------------
(* What a transport is given stays with it, in order *)

\* NothingLost is about transport t.
Attached(t) ==
    LET k == tr[t].messages
    IN /\ ~tr[t].disposed
       /\ \/ k = NoSocket
          \/ socket[k] = "open" /\ \A j \in Sockets : maker[j] = t => j = k

Sent(t) ==
    LET k == tr[t].messages IN IF k = NoSocket THEN << >> ELSE wire[k] \o outq[k]

Delivered(t) ==
    /\ Only(told[t], Notes) = Only(Sent(t), Notes) \o tr[t].notes
    /\ Only(told[t], Calls) = Only(Sent(t), Calls) \o tr[t].requests

\* Nothing is written before the WebSocket is open, and the buffers are empty
\* once there is a message connection.
BufferInv ==
    /\ gate \in Seq(Calls)
    /\ \A k \in Sockets : socket[k] = "unused" => maker[k] = None
    /\ \A t \in Transports : tr[t].notes \in Seq(Notes) /\ tr[t].requests \in Seq(Calls)
    /\ \A k \in Sockets :
         socket[k] \in {"unused", "connecting"} => outq[k] = << >> /\ wire[k] = << >>
    /\ \A t \in Transports, k \in Sockets :
         tr[t].messages = k => maker[k] = t /\ socket[k] \notin {"unused", "connecting"}
    /\ \A t \in Transports :
         tr[t].messages # NoSocket => tr[t].notes = << >> /\ tr[t].requests = << >>

DeliveryInv == BufferInv /\ \A t \in Transports : Attached(t) => Delivered(t)

\* All invariants of this module.
AllInv == IInv /\ FirstInv /\ DeliveryInv

LEMMA MessagesType ==
    ASSUME IInv, NEW t \in Transports
    PROVE  tr[t] \in TransportState /\ tr[t].messages \in Sockets \cup {NoSocket}
           /\ NoSocket \notin Sockets
BY DEF IInv, Types, TransportState, SomeSocket, NoSocket, Sockets

LEMMA Concats == \A p, q, r \in Seq(Message) : (p \o q) \o r = p \o (q \o r)
BY ConcatAssociative

LEMMA OnlyConcats ==
    ASSUME NEW p \in Seq(Message), NEW q \in Seq(Message), NEW r, r = p \o q
    PROVE  /\ r \in Seq(Message)
           /\ Only(r, Notes) = Only(p, Notes) \o Only(q, Notes)
           /\ Only(r, Calls) = Only(p, Calls) \o Only(q, Calls)
<1>1. Only(p \o q, Notes) = Only(p, Notes) \o Only(q, Notes)
  BY OnlyConcat
<1>2. Only(p \o q, Calls) = Only(p, Calls) \o Only(q, Calls)
  BY OnlyConcat
<1>3. p \o q \in Seq(Message)
  BY ConcatProperties
<1> QED BY <1>1, <1>2, <1>3

SameDelivery(t) ==
    /\ Attached(t)' => Attached(t)
    /\ told'[t] = told[t]
    /\ tr'[t].messages = tr[t].messages
    /\ tr'[t].notes = tr[t].notes /\ tr'[t].requests = tr[t].requests
    /\ tr[t].messages # NoSocket =>
         wire'[tr[t].messages] \o outq'[tr[t].messages]
            = wire[tr[t].messages] \o outq[tr[t].messages]

LEMMA DeliveryKept ==
    ASSUME NEW t \in Transports, Attached(t) => Delivered(t), SameDelivery(t)
    PROVE  Attached(t)' => Delivered(t)'
<1>1. CASE tr[t].messages = NoSocket
  BY <1>1 DEF SameDelivery, Delivered, Sent
<1>2. CASE tr[t].messages # NoSocket
  <2>1. Sent(t)' = Sent(t)
    BY <1>2 DEF SameDelivery, Sent
  <2> QED BY <2>1 DEF SameDelivery, Delivered
<1> QED BY <1>1, <1>2

\* Transport t is given notifications and requests.
LEMMA GiveDelivers ==
    ASSUME AllInv, NEW t \in Transports, NEW ns \in Seq(Notes), NEW rs \in Seq(Calls),
           Give(t, ns, rs), ~tr[t].disposed, UNCHANGED <<socket, maker, wire>>,
           gate' \in Seq(Calls)
    PROVE  DeliveryInv'
<1>1. /\ ns \in Seq(Message) /\ rs \in Seq(Message)
      /\ Only(ns, Notes) = ns /\ Only(rs, Notes) = << >>
      /\ Only(ns, Calls) = << >> /\ Only(rs, Calls) = rs
  BY OnlyOne
<1>2. PICK a : a = ns \o rs
  OBVIOUS
<1>3. /\ a \in Seq(Message)
      /\ Only(a, Notes) = ns /\ Only(a, Calls) = rs
  <2>1. a \in Seq(Message)
    BY <1>1, <1>2
  <2>2. Only(a, Notes) = ns \o << >> /\ Only(a, Calls) = << >> \o rs
    <3>1. Only(a, Notes) = Only(ns, Notes) \o Only(rs, Notes)
      BY <1>1, <1>2, OnlyConcats
    <3>2. Only(a, Calls) = Only(ns, Calls) \o Only(rs, Calls)
      BY <1>1, <1>2, OnlyConcats
    <3> QED BY <1>1, <3>1, <3>2
  <2> QED BY <1>1, <2>1, <2>2, ConcatEmptySeq
<1>4. /\ told \in [Transports -> Seq(Message)] /\ outq \in [Sockets -> Seq(Message)]
      /\ wire \in [Sockets -> Seq(Message)]
      /\ tr \in [Transports -> TransportState] /\ tr[t] \in TransportState
      /\ tr[t].messages \in Sockets \cup {NoSocket} /\ NoSocket \notin Sockets
  BY MessagesType DEF AllInv, IInv, Types, FirstInv, QueueTypes
<1>5. told' = [told EXCEPT ![t] = @ \o a]
  <2>1. told' = [told EXCEPT ![t] = (told[t] \o ns) \o rs]
    BY DEF Give
  <2>2. (told[t] \o ns) \o rs = told[t] \o a
    BY <1>1, <1>2, <1>4, Concats
  <2> QED BY <2>1, <2>2
<1>6. /\ told'[t] = told[t] \o a
      /\ \A u \in Transports : u # t => told'[u] = told[u]
  BY <1>4, <1>5
<1>7. /\ Only(told'[t], Notes) = Only(told[t], Notes) \o ns
      /\ Only(told'[t], Calls) = Only(told[t], Calls) \o rs
  <2>1. PICK h, h2 : h = told[t] /\ h2 = told'[t]
    OBVIOUS
  <2>2. h \in Seq(Message) /\ h2 = h \o a
    BY <1>4, <1>6, <2>1
  <2>3. Only(h2, Notes) = Only(h, Notes) \o ns /\ Only(h2, Calls) = Only(h, Calls) \o rs
    BY <1>3, <2>2, OnlyConcats
  <2> QED BY <2>1, <2>3
<1>8. \A u \in Transports : Attached(u) => Delivered(u)
  BY DEF AllInv, DeliveryInv
<1>9. BufferInv
  BY DEF AllInv, DeliveryInv
<1>10. CASE tr[t].messages # NoSocket
  <2>1. PICK k \in Sockets : k = tr[t].messages
    BY <1>4, <1>10
  <2>2. tr' = tr /\ outq' = [outq EXCEPT ![k] = outq[k] \o a]
    <3>1. tr' = tr /\ outq' = [outq EXCEPT ![k] = (outq[k] \o ns) \o rs]
      BY <1>10, <2>1 DEF Give
    <3>2. (outq[k] \o ns) \o rs = outq[k] \o a
      <4>1. outq[k] \in Seq(Message)
        BY <1>4
      <4> QED BY <1>1, <1>2, <4>1, Concats
    <3> QED BY <3>1, <3>2
  <2>3. maker[k] = t /\ socket[k] \notin {"unused", "connecting"}
        /\ tr[t].notes = << >> /\ tr[t].requests = << >>
    BY <1>9, <1>10, <2>1 DEF BufferInv
  <2>4. outq'[k] = outq[k] \o a /\ \A j \in Sockets : j # k => outq'[j] = outq[j]
    BY <1>4, <2>2
  <2>5. BufferInv'
    BY <1>9, <2>2, <2>3, <2>4 DEF BufferInv
  <2>6. ASSUME NEW u \in Transports, u # t PROVE Attached(u)' => Delivered(u)'
    <3>1. tr[u].messages # k
      BY <1>9, <2>3, <2>6 DEF BufferInv
    <3>2. tr[u].messages \in Sockets \cup {NoSocket}
      BY MessagesType DEF AllInv
    <3>3. SameDelivery(u)
      BY <1>6, <2>2, <2>4, <2>6, <3>1, <3>2 DEF SameDelivery, Attached
    <3> QED BY <1>8, <3>3, DeliveryKept
  <2>7. ASSUME Attached(t)' PROVE Delivered(t)'
    <3>1. Delivered(t)
      BY <1>8, <2>2, <2>7 DEF Attached
    <3>2. PICK s : s = wire[k] \o outq[k]
      OBVIOUS
    <3>3. s \in Seq(Message) /\ Sent(t) = s
      BY <1>4, <1>10, <2>1, <3>2, SMTT(30) DEF Sent
    <3>4. Sent(t)' = s \o a
      <4>1. Sent(t)' = wire[k] \o (outq[k] \o a)
        BY <1>10, <2>1, <2>2, <2>4 DEF Sent
      <4>2. wire[k] \o (outq[k] \o a) = (wire[k] \o outq[k]) \o a
        <5>1. outq[k] \in Seq(Message) /\ wire[k] \in Seq(Message)
          BY <1>4
        <5> QED BY <1>3, <5>1, Concats
      <4> QED BY <3>2, <4>1, <4>2
    <3>5. /\ Only(Sent(t)', Notes) = Only(s, Notes) \o ns
          /\ Only(Sent(t)', Calls) = Only(s, Calls) \o rs
      <4>1. PICK s2 : s2 = Sent(t)'
        OBVIOUS
      <4>2. Only(s2, Notes) = Only(s, Notes) \o ns /\ Only(s2, Calls) = Only(s, Calls) \o rs
        BY <1>3, <3>3, <3>4, <4>1, OnlyConcats
      <4> QED BY <4>1, <4>2
    <3>6. /\ Only(told[t], Notes) = Only(s, Notes)
          /\ Only(told[t], Calls) = Only(s, Calls)
      BY <2>3, <3>1, <3>3, OnlyType, ConcatEmptySeq DEF Delivered
    <3>7. /\ Only(s, Notes) \o ns \in Seq(Message)
          /\ Only(s, Calls) \o rs \in Seq(Message)
      BY <1>1, <3>3, OnlyType
    <3>8. /\ Only(told'[t], Notes) = Only(Sent(t)', Notes) \o << >>
          /\ Only(told'[t], Calls) = Only(Sent(t)', Calls) \o << >>
      BY <1>7, <3>5, <3>6, <3>7, ConcatEmptySeq
    <3> QED BY <2>2, <2>3, <3>8 DEF Delivered
  <2> QED BY <2>5, <2>6, <2>7 DEF DeliveryInv
<1>11. CASE tr[t].messages = NoSocket
  <2>1. PICK n, r : n = tr[t].notes \o ns /\ r = tr[t].requests \o rs
    OBVIOUS
  <2>2. outq' = outq /\ tr' = [tr EXCEPT ![t].notes = n, ![t].requests = r]
    BY <1>11, <2>1 DEF Give
  <2>3. tr[t].notes \in Seq(Notes) /\ tr[t].requests \in Seq(Calls)
    BY <1>9 DEF BufferInv
  <2>4. n \in Seq(Notes) /\ r \in Seq(Calls)
    BY <2>1, <2>3
  <2>5. /\ tr'[t].notes = n /\ tr'[t].requests = r
        /\ tr'[t].messages = tr[t].messages /\ tr'[t].disposed = tr[t].disposed
        /\ \A u \in Transports : u # t => tr'[u] = tr[u]
    BY <1>4, <2>2 DEF TransportState
  <2>6. BufferInv'
    <3>1. \A u \in Transports : tr'[u].notes \in Seq(Notes) /\ tr'[u].requests \in Seq(Calls)
      BY <1>9, <2>4, <2>5 DEF BufferInv
    <3>2. \A u \in Transports : tr'[u].messages = tr[u].messages
      BY <2>5
    <3>3. \A u \in Transports :
            tr'[u].messages # NoSocket => tr'[u].notes = << >> /\ tr'[u].requests = << >>
      BY <1>9, <1>11, <2>5 DEF BufferInv
    <3> QED BY <1>9, <2>2, <3>1, <3>2, <3>3 DEF BufferInv
  <2>7. ASSUME NEW u \in Transports, u # t PROVE Attached(u)' => Delivered(u)'
    <3>1. SameDelivery(u)
      BY <1>6, <2>2, <2>5, <2>7 DEF SameDelivery, Attached
    <3> QED BY <1>8, <3>1, DeliveryKept
  <2>8. ASSUME Attached(t)' PROVE Delivered(t)'
    <3>1. Delivered(t) /\ Sent(t) = << >> /\ Sent(t)' = << >>
      BY <1>8, <1>11, <2>5, <2>8 DEF Attached, Sent
    <3>2. PICK d, e : d = Only(<< >>, Notes) /\ e = Only(<< >>, Calls)
      OBVIOUS
    <3>3. d \in Seq(Message) /\ e \in Seq(Message)
      <4>1. << >> \in Seq(Message)
        OBVIOUS
      <4> QED BY <3>2, <4>1, OnlyType
    <3>4. tr[t].notes \in Seq(Message) /\ tr[t].requests \in Seq(Message)
      BY <2>3, OnlyOne
    <3>5. (d \o tr[t].notes) \o ns = d \o n /\ (e \o tr[t].requests) \o rs = e \o r
      BY <1>1, <2>1, <3>3, <3>4, Concats, ZenonT(60)
    <3>6. /\ Only(told[t], Notes) = d \o tr[t].notes
          /\ Only(told[t], Calls) = e \o tr[t].requests
      BY <3>1, <3>2 DEF Delivered
    <3>7. Only(told'[t], Notes) = d \o n /\ Only(told'[t], Calls) = e \o r
      BY <1>7, <3>5, <3>6
    <3> QED BY <2>5, <3>1, <3>2, <3>7 DEF Delivered
  <2> QED BY <2>6, <2>7, <2>8 DEF DeliveryInv
<1> QED BY <1>10, <1>11

LEMMA OthersDeliver ==
    ASSUME AllInv, BufferInv', \A t \in Transports : SameDelivery(t) \/ ~Attached(t)'
    PROVE  DeliveryInv'
BY DeliveryKept DEF AllInv, DeliveryInv

LEMMA InitDelivers == Init => DeliveryInv
<1> SUFFICES ASSUME Init PROVE DeliveryInv
  OBVIOUS
<1> DEFINE first == Msg("initialize", 1)
<1>1. first \in Calls
  BY CallShapes DEF FirstCall
<1>2. \A t \in Transports : told[t] \in Seq(Calls)
  <2>1. <<first>> \in Seq(Calls) /\ << >> \in Seq(Calls)
    BY <1>1
  <2>2. \A t \in Transports : told[t] = IF t = First THEN <<first>> ELSE << >>
    BY DEF Init
  <2> QED BY <2>1, <2>2
<1>3. \A t \in Transports : /\ tr[t].notes = << >> /\ tr[t].requests = told[t]
                            /\ tr[t].messages = NoSocket
  BY DEF Init
<1>4. BufferInv
  <2>1. << >> \in Seq(Notes) /\ << >> \in Seq(Calls)
    OBVIOUS
  <2>2. \A k \in Sockets : k # NoSocket
    BY DEF Sockets, NoSocket
  <2>3. /\ gate = << >>
        /\ \A k \in Sockets : maker[k] = None /\ outq[k] = << >> /\ wire[k] = << >>
    BY DEF Init
  <2> QED BY <1>2, <1>3, <2>1, <2>2, <2>3 DEF BufferInv
<1>5. ASSUME NEW t \in Transports PROVE Delivered(t)
  <2>1. PICK ns, rs : ns = << >> /\ rs = told[t]
    OBVIOUS
  <2>2. ns \in Seq(Notes) /\ rs \in Seq(Calls) /\ ns \in Seq(Calls)
    BY <1>2, <2>1
  <2>3. /\ rs \in Seq(Message)
        /\ Only(ns, Notes) = ns /\ Only(rs, Notes) = << >>
        /\ Only(ns, Calls) = << >> /\ Only(rs, Calls) = rs
    BY <2>2, OnlyOne
  <2>4. << >> \o << >> = << >> /\ << >> \o rs = rs
    <3>1. << >> \in Seq(Message)
      OBVIOUS
    <3> QED BY <2>3, <3>1, ConcatEmptySeq
  <2>5. Sent(t) = << >>
    BY <1>3 DEF Sent
  <2> QED BY <1>3, <2>1, <2>3, <2>4, <2>5 DEF Delivered
<1> QED BY <1>4, <1>5 DEF DeliveryInv

LEMMA ConnectDelivers ==
    ASSUME AllInv, NEW t \in Transports, Connect(t) PROVE DeliveryInv'
<1>1. PICK k \in Sockets :
        /\ NextSocket(k)
        /\ socket' = [socket EXCEPT ![k] = "connecting"]
        /\ maker' = [maker EXCEPT ![k] = t]
        /\ tr' = [tr EXCEPT ![t].connection = k, ![t].connecting = k]
  BY DEF Connect
<1>2. UNCHANGED <<gate, told, outq, wire>>
  BY DEF Connect, clientVars
<1>3. \A u \in Transports :
        /\ tr'[u].messages = tr[u].messages /\ tr'[u].disposed = tr[u].disposed
        /\ tr'[u].notes = tr[u].notes /\ tr'[u].requests = tr[u].requests
  <2>1. tr[t] \in TransportState /\ tr \in [Transports -> TransportState]
    BY DEF AllInv, IInv, Types
  <2> QED BY <1>1, <2>1 DEF TransportState
<1>4. /\ socket[k] = "unused" /\ socket'[k] = "connecting" /\ maker'[k] = t
      /\ \A j \in Sockets : j # k => socket'[j] = socket[j] /\ maker'[j] = maker[j]
  BY <1>1 DEF NextSocket, AllInv, IInv, Types
<1>5. BufferInv
  BY DEF AllInv, DeliveryInv
<1>6. maker[k] = None /\ None \notin Transports
  BY <1>4, <1>5, TransportAssumption DEF BufferInv
<1>7. BufferInv'
  BY <1>2, <1>3, <1>4, <1>5, SMTT(30) DEF BufferInv
<1>8. ASSUME NEW u \in Transports PROVE SameDelivery(u)
  <2>1. tr[u].messages \in Sockets \cup {NoSocket}
    BY MessagesType DEF AllInv
  <2>2. Attached(u)' => Attached(u)
    BY <1>3, <1>4, <1>6, <2>1 DEF Attached
  <2> QED BY <1>2, <1>3, <2>2 DEF SameDelivery
<1> QED BY <1>7, <1>8, OthersDeliver

LEMMA DisposeDelivers ==
    ASSUME AllInv, NEW t \in Transports, Dispose(t) PROVE DeliveryInv'
<1>1. UNCHANGED <<gate, told, maker, outq, wire>>
  BY DEF Dispose, clientVars
<1>2. /\ \A u \in Transports : u # t => tr'[u] = tr[u]
      /\ tr'[t].disposed
      /\ tr'[t].messages = tr[t].messages
      /\ tr'[t].notes = tr[t].notes /\ tr'[t].requests = tr[t].requests
  BY DEF Dispose, AllInv, IInv, Types, TransportState
<1>3. \A k \in Sockets :
        \/ socket'[k] = socket[k]
        \/ /\ socket[k] \in {"connecting", "open"}
           /\ socket'[k] = "closing"
  <2>1. socket' = [k \in Sockets |-> IF k = tr[t].connection /\ socket[k] \in {"connecting", "open"}
                                     THEN "closing" ELSE socket[k]]
    BY DEF Dispose, CloseConnection
  <2> QED BY <2>1
<1>4. BufferInv
  BY DEF AllInv, DeliveryInv
<1>5. BufferInv'
  BY <1>1, <1>2, <1>3, <1>4 DEF BufferInv
<1>6. ~Attached(t)'
  BY <1>2 DEF Attached
<1>7. ASSUME NEW u \in Transports, u # t PROVE SameDelivery(u)
  <2>1. tr[u].messages \in Sockets \cup {NoSocket}
    BY MessagesType DEF AllInv
  <2>2. Attached(u)' => Attached(u)
    BY <1>1, <1>2, <1>3, <1>7, <2>1 DEF Attached
  <2> QED BY <1>1, <1>2, <1>7, <2>2 DEF SameDelivery
<1> QED BY <1>5, <1>6, <1>7, OthersDeliver

LEMMA EndingDelivers ==
    ASSUME AllInv, NEW k \in Sockets, Failed(k) \/ Lost(k) PROVE DeliveryInv'
<1>1. UNCHANGED <<gate, told, maker, outq, wire>>
  BY DEF Failed, Lost, clientVars
<1>2. socket[k] # "unused" /\ maker[k] \in Transports
  BY DEF Failed, Lost, AllInv, IInv, Known
<1>3. \A u \in Transports :
        /\ tr'[u].messages = tr[u].messages /\ tr'[u].disposed = tr[u].disposed
        /\ tr'[u].notes = tr[u].notes /\ tr'[u].requests = tr[u].requests
  <2>1. tr[maker[k]] \in TransportState /\ tr \in [Transports -> TransportState]
    BY <1>2 DEF AllInv, IInv, Types
  <2>2. tr' = tr \/ tr' = [tr EXCEPT ![maker[k]].connecting = NoSocket]
    BY DEF Failed, Lost
  <2>3. CASE tr' = [tr EXCEPT ![maker[k]].connecting = NoSocket]
    <3>1. PICK t \in Transports : t = maker[k]
      BY <1>2
    <3>2. tr' = [tr EXCEPT ![t].connecting = NoSocket]
      BY <2>3, <3>1
    <3> QED BY <2>1, <3>1, <3>2 DEF TransportState
  <2> QED BY <2>2, <2>3
<1>4. /\ socket'[k] \in {"failing", "closing"}
      /\ \A j \in Sockets : j # k => socket'[j] = socket[j]
  BY DEF Failed, Lost, AllInv, IInv, Types
<1>5. BufferInv
  BY DEF AllInv, DeliveryInv
<1>6. BufferInv'
  BY <1>1, <1>2, <1>3, <1>4, <1>5, SMTT(30) DEF BufferInv
<1>7. ASSUME NEW u \in Transports PROVE SameDelivery(u)
  <2>1. tr[u].messages \in Sockets \cup {NoSocket}
    BY MessagesType DEF AllInv
  <2>2. Attached(u)' => Attached(u)
    BY <1>1, <1>3, <1>4, <2>1 DEF Attached
  <2> QED BY <1>1, <1>3, <2>2 DEF SameDelivery
<1> QED BY <1>6, <1>7, OthersDeliver

LEMMA ClosedDelivers ==
    ASSUME AllInv, NEW k \in Sockets, Closed(k) PROVE DeliveryInv'
<1> DEFINE t == maker[k]
<1>1. UNCHANGED <<gate, told, maker, outq, wire>>
  BY DEF Closed, clientVars
<1>2. socket[k] \in {"failing", "closing"} /\ t \in Transports
  BY DEF Closed, AllInv, IInv, Known
<1>3. tr[t] \in TransportState /\ tr \in [Transports -> TransportState]
  BY <1>2 DEF AllInv, IInv, Types
<1>4. \A j \in Sockets :
        \/ socket'[j] = socket[j]
        \/ /\ socket'[j] \in {"closing", "closed"}
           /\ socket[j] # "unused"
  <2> DEFINE closed == [socket EXCEPT ![k] = "closed"]
  <2>1. /\ closed[k] = "closed" /\ socket[k] # "unused"
        /\ \A j \in Sockets : j # k => closed[j] = socket[j]
    BY <1>2 DEF AllInv, IInv, Types
  <2>2. \/ socket' = closed
        \/ socket' = [j \in Sockets |->
                        IF j = tr[t].connection /\ closed[j] \in {"connecting", "open"}
                        THEN "closing" ELSE closed[j]]
    BY DEF Closed, CloseConnection
  <2> HIDE DEF closed
  <2>3. CASE socket' = closed
    BY <2>1, <2>3
  <2>4. CASE socket' # closed
    BY <2>1, <2>2, <2>4
  <2> QED BY <2>3, <2>4
<1>5. /\ \A u \in Transports : u # t => tr'[u] = tr[u]
      /\ tr'[t].notes = tr[t].notes /\ tr'[t].requests = tr[t].requests
      /\ \/ tr'[t] = tr[t]
         \/ tr'[t].disposed /\ tr'[t].messages = NoSocket
  BY <1>2, <1>3 DEF Closed, TransportState
<1>6. BufferInv
  BY DEF AllInv, DeliveryInv
<1>7. BufferInv'
  <2>1. \A u \in Transports : /\ tr'[u].notes = tr[u].notes /\ tr'[u].requests = tr[u].requests
                              /\ tr'[u].messages \in {tr[u].messages, NoSocket}
    BY <1>5
  <2>2. \A j \in Sockets : j # NoSocket
    BY DEF Sockets, NoSocket
  <2>3. \A j \in Sockets : /\ socket'[j] \in {"unused", "connecting"} => socket'[j] = socket[j]
                           /\ socket'[j] = "unused" => socket[j] = "unused"
    BY <1>4
  <2>4. \A u \in Transports, j \in Sockets :
          tr'[u].messages = j => maker[j] = u /\ socket'[j] \notin {"unused", "connecting"}
    BY <1>4, <1>6, <2>1, <2>2 DEF BufferInv
  <2>5. \A u \in Transports :
          tr'[u].messages # NoSocket => tr'[u].notes = << >> /\ tr'[u].requests = << >>
    BY <1>6, <2>1 DEF BufferInv
  <2> QED BY <1>1, <1>6, <2>1, <2>3, <2>4, <2>5 DEF BufferInv
<1>8. ASSUME NEW u \in Transports PROVE SameDelivery(u) \/ ~Attached(u)'
  <2>1. tr[u].messages \in Sockets \cup {NoSocket}
    BY MessagesType DEF AllInv
  <2>2. CASE tr'[u] = tr[u]
    <3>1. Attached(u)' => Attached(u)
      BY <1>1, <1>4, <2>1, <2>2 DEF Attached
    <3> QED BY <1>1, <2>2, <3>1 DEF SameDelivery
  <2>3. CASE tr'[u].disposed
    BY <2>3 DEF Attached
  <2> QED BY <1>5, <2>2, <2>3
<1> QED BY <1>7, <1>8, OthersDeliver

LEMMA OpenedDelivers ==
    ASSUME AllInv, NEW k \in Sockets, Opened(k) PROVE DeliveryInv'
<1>1. /\ UNCHANGED <<gate, told, maker, wire>>
      /\ socket[k] = "connecting" /\ socket' = [socket EXCEPT ![k] = "open"]
  BY DEF Opened, clientVars
<1>2. PICK t \in Transports : t = maker[k]
  BY <1>1 DEF AllInv, IInv, Known
<1>3. /\ tr[t] \in TransportState /\ tr \in [Transports -> TransportState]
      /\ outq \in [Sockets -> Seq(Message)] /\ k # NoSocket
      /\ socket'[k] = "open" /\ \A j \in Sockets : j # k => socket'[j] = socket[j]
  BY <1>1, MessagesType DEF AllInv, IInv, Types, FirstInv, QueueTypes
<1>4. PICK a : a = tr[t].notes \o tr[t].requests
  OBVIOUS
<1>5. outq'[k] = a /\ \A j \in Sockets : j # k => outq'[j] = outq[j]
  <2>1. outq' = [outq EXCEPT ![k] = a]
    BY <1>2, <1>4 DEF Opened
  <2> QED BY <1>3, <2>1
<1>6. /\ tr'[t].notes = << >> /\ tr'[t].requests = << >> /\ tr'[t].messages = k
      /\ tr'[t].disposed = tr[t].disposed
      /\ \A u \in Transports : u # t => tr'[u] = tr[u]
  <2>1. PICK d : d = Flushed(t)
    OBVIOUS
  <2>2. /\ d.notes = << >> /\ d.requests = << >> /\ d.disposed = tr[t].disposed
        /\ d = [connection |-> tr[t].connection, messages |-> tr[t].messages,
                connecting |-> tr[t].connecting, disposed |-> tr[t].disposed,
                notes |-> << >>, requests |-> << >>]
    BY <1>3, <2>1 DEF Flushed, TransportState
  <2>3. tr' = [tr EXCEPT ![t] = [d EXCEPT !.messages = k, !.connecting = NoSocket]]
    BY <1>2, <2>1 DEF Opened
  <2> QED BY <1>3, <2>2, <2>3
<1>7. BufferInv
  BY DEF AllInv, DeliveryInv
<1>8. tr[t].messages = NoSocket \/ \E j \in Sockets : maker[j] = t /\ j # k
  BY <1>1, MessagesType, <1>7 DEF AllInv, BufferInv
<1>9. BufferInv'
  <2>1. << >> \in Seq(Notes) /\ << >> \in Seq(Calls)
    OBVIOUS
  <2>2. \A u \in Transports : tr'[u].notes \in Seq(Notes) /\ tr'[u].requests \in Seq(Calls)
    BY <1>6, <1>7, <2>1 DEF BufferInv
  <2>3. \A u \in Transports, j \in Sockets :
          tr'[u].messages = j => maker[j] = u /\ socket'[j] \notin {"unused", "connecting"}
    <3> SUFFICES ASSUME NEW u \in Transports, NEW j \in Sockets, tr'[u].messages = j
                 PROVE  maker[j] = u /\ socket'[j] \notin {"unused", "connecting"}
      OBVIOUS
    <3>1. CASE u = t
      BY <1>2, <1>3, <1>6, <3>1
    <3>2. CASE u # t
      <4>1. tr[u].messages = j
        BY <1>6, <3>2
      <4>2. maker[j] = u /\ socket[j] \notin {"unused", "connecting"}
        BY <1>7, <4>1 DEF BufferInv
      <4> QED BY <1>2, <1>3, <3>2, <4>2
    <3> QED BY <3>1, <3>2
  <2>4. \A u \in Transports :
          tr'[u].messages # NoSocket => tr'[u].notes = << >> /\ tr'[u].requests = << >>
    BY <1>6, <1>7 DEF BufferInv
  <2>5. \A j \in Sockets :
          socket'[j] \in {"unused", "connecting"} => outq'[j] = << >> /\ wire[j] = << >>
    BY <1>3, <1>5, <1>7 DEF BufferInv
  <2>6. \A j \in Sockets : socket'[j] = "unused" => maker[j] = None
    BY <1>3, <1>7 DEF BufferInv
  <2> QED BY <1>1, <1>7, <2>2, <2>3, <2>4, <2>5, <2>6 DEF BufferInv
<1>10. \A u \in Transports : Attached(u) => Delivered(u)
  BY DEF AllInv, DeliveryInv
<1>11. ASSUME NEW u \in Transports, u # t PROVE Attached(u)' => Delivered(u)'
  <2>1. tr[u].messages \in Sockets \cup {NoSocket} /\ tr[u].messages # k
    BY <1>2, <1>7, <1>11, MessagesType DEF AllInv, BufferInv
  <2>2. Attached(u)' => Attached(u)
    BY <1>1, <1>3, <1>6, <1>11, <2>1 DEF Attached
  <2>3. SameDelivery(u)
    BY <1>1, <1>5, <1>6, <1>11, <2>1, <2>2 DEF SameDelivery
  <2> QED BY <1>10, <2>3, DeliveryKept
<1>12. ASSUME Attached(t)' PROVE Delivered(t)'
  <2>1. tr[t].messages = NoSocket
    BY <1>1, <1>3, <1>6, <1>8, <1>12 DEF Attached
  <2>2. Delivered(t)
    BY <1>6, <1>10, <1>12, <2>1 DEF Attached
  <2>3. PICK ns, rs, none : ns = tr[t].notes /\ rs = tr[t].requests /\ none = << >>
    OBVIOUS
  <2>4. /\ ns \in Seq(Notes) /\ rs \in Seq(Calls) /\ none \in Seq(Notes) /\ none \in Seq(Calls)
        /\ wire[k] = none
    BY <1>1, <1>7, <2>3 DEF BufferInv
  <2>5. /\ ns \in Seq(Message) /\ rs \in Seq(Message) /\ none \in Seq(Message)
        /\ Only(ns, Notes) = ns /\ Only(rs, Notes) = none
        /\ Only(ns, Calls) = none /\ Only(rs, Calls) = rs
        /\ Only(none, Notes) = none /\ Only(none, Calls) = none
    BY <2>3, <2>4, OnlyOne
  <2>6. \A q \in Seq(Message) : none \o q = q /\ q \o none = q
    BY <2>3, ConcatEmptySeq
  <2>7. a \in Seq(Message) /\ Only(a, Notes) = ns \o none /\ Only(a, Calls) = none \o rs
    <3>1. a = ns \o rs
      BY <1>4, <2>3
    <3>2. /\ a \in Seq(Message)
          /\ Only(a, Notes) = Only(ns, Notes) \o Only(rs, Notes)
          /\ Only(a, Calls) = Only(ns, Calls) \o Only(rs, Calls)
      BY <2>5, <3>1, OnlyConcats, ZenonT(60)
    <3> QED BY <2>5, <3>2
  <2>8. Sent(t)' = a
    BY <1>1, <1>3, <1>5, <1>6, <2>4, <2>6, <2>7 DEF Sent
  <2>9. Only(told[t], Notes) = ns /\ Only(told[t], Calls) = rs
    BY <2>1, <2>2, <2>3, <2>5, <2>6 DEF Delivered, Sent
  <2>10. Only(told'[t], Notes) = Only(a, Notes) \o none /\ Only(told'[t], Calls) = Only(a, Calls) \o none
    BY <1>1, <2>5, <2>6, <2>7, <2>9
  <2> QED BY <1>6, <2>3, <2>8, <2>10 DEF Delivered
<1> QED BY <1>9, <1>11, <1>12 DEF DeliveryInv

LEMMA WriteDelivers ==
    ASSUME AllInv, NEW k \in Sockets, Write(k) PROVE DeliveryInv'
<1>1. UNCHANGED <<gate, told, tr, socket, maker>>
  BY DEF Write, clientVars
<1>2. outq \in [Sockets -> Seq(Message)] /\ wire \in [Sockets -> Seq(Message)]
  BY DEF AllInv, FirstInv, QueueTypes
<1>3. PICK q, w, m, rest : q = outq[k] /\ w = wire[k] /\ m = Head(q) /\ rest = Tail(q)
  OBVIOUS
<1>4. /\ q \in Seq(Message) /\ w \in Seq(Message) /\ q # << >>
      /\ m \in Message /\ rest \in Seq(Message) /\ q = <<m>> \o rest
  <2>1. q \in Seq(Message) /\ w \in Seq(Message) /\ q # << >>
    BY <1>2, <1>3 DEF Write
  <2> QED BY <1>3, <2>1
<1>5. outq'[k] = rest /\ \A j \in Sockets : j # k => outq'[j] = outq[j] /\ wire'[j] = wire[j]
  BY <1>2, <1>3 DEF Write
<1>6. socket[k] = "open" => wire'[k] \o outq'[k] = wire[k] \o outq[k]
  <2> SUFFICES ASSUME socket[k] = "open" PROVE wire'[k] \o outq'[k] = wire[k] \o outq[k]
    OBVIOUS
  <2>1. wire'[k] = Append(w, m)
    BY <1>2, <1>3 DEF Write
  <2>2. PICK one : one = <<m>>
    OBVIOUS
  <2>3. one \in Seq(Message) /\ Append(w, m) = w \o one
    BY <1>4, <2>2, AppendIsConcat
  <2>4. (w \o one) \o rest = w \o (one \o rest)
    BY <1>4, <2>3, Concats
  <2> QED BY <1>3, <1>4, <1>5, <2>1, <2>2, <2>3, <2>4
<1>7. BufferInv
  BY DEF AllInv, DeliveryInv
<1>8. socket[k] \notin {"unused", "connecting"}
  BY <1>3, <1>4, <1>7 DEF BufferInv
<1>9. BufferInv'
  BY <1>1, <1>5, <1>7, <1>8 DEF BufferInv
<1>10. ASSUME NEW u \in Transports PROVE SameDelivery(u) \/ ~Attached(u)'
  <2>1. tr[u].messages \in Sockets \cup {NoSocket} /\ k # NoSocket
    BY MessagesType DEF AllInv
  <2>2. CASE tr[u].messages = k /\ socket[k] # "open"
    BY <1>1, <2>1, <2>2 DEF Attached
  <2>3. CASE tr[u].messages = k /\ socket[k] = "open"
    BY <1>1, <1>6, <2>1, <2>3 DEF SameDelivery, Attached
  <2>4. CASE tr[u].messages # k
    BY <1>1, <1>5, <2>1, <2>4 DEF SameDelivery, Attached
  <2> QED BY <2>2, <2>3, <2>4
<1> QED BY <1>9, <1>10, OthersDeliver

\* A step that gives nothing to a transport.
LEMMA GateDelivers ==
    ASSUME AllInv, UNCHANGED <<told, tr, socket, maker, outq, wire>>, gate' \in Seq(Calls)
    PROVE  DeliveryInv'
<1>1. BufferInv'
  BY DEF AllInv, DeliveryInv, BufferInv
<1>2. \A u \in Transports : SameDelivery(u)
  BY DEF SameDelivery, Attached
<1> QED BY <1>1, <1>2, OthersDeliver

LEMMA SendDelivers ==
    ASSUME AllInv, NEW c \in Calls, Send(c), transport' \in Transports,
           UNCHANGED <<gate, socket, maker, wire>>
    PROVE  DeliveryInv'
<1>1. gate' \in Seq(Calls)
  BY DEF AllInv, DeliveryInv, BufferInv
<1>2. CASE UNCHANGED <<told, tr, outq>>
  BY <1>1, <1>2, GateDelivers
<1>3. CASE ~tr[transport'].disposed /\ Give(transport', << >>, <<c>>)
  <2>1. << >> \in Seq(Notes) /\ <<c>> \in Seq(Calls)
    OBVIOUS
  <2> QED BY <1>1, <1>3, <2>1, GiveDelivers
<1> QED BY <1>2, <1>3 DEF Send

LEMMA RequestDelivers ==
    ASSUME AllInv, NEW r \in Requests, Request(r) PROVE DeliveryInv'
<1>1. PICK c \in Calls : c = Msg("request", r)
  BY CallShapes
<1>2. /\ UNCHANGED <<socket, maker, wire>> /\ transport' \in Transports
      /\ gate \in Seq(Calls)
  BY DEF Request, AllInv, IInv, Types, DeliveryInv, BufferInv
<1>3. CASE gate' = Append(gate, c) /\ UNCHANGED <<told, tr, outq>>
  <2>1. gate' \in Seq(Calls)
    BY <1>1, <1>2, <1>3
  <2> QED BY <1>2, <1>3, <2>1, GateDelivers
<1>4. CASE Send(c) /\ UNCHANGED gate
  BY <1>2, <1>4, SendDelivers
<1> QED BY <1>1, <1>3, <1>4 DEF Request

LEMMA NotifyDelivers == ASSUME AllInv, Notify PROVE DeliveryInv'
<1>1. noted' \in 1 .. MaxNotes
  BY BoundAssumption DEF Notify, AllInv, IInv, Types
<1>2. PICK m : m = Msg("note", noted')
  OBVIOUS
<1>3. m \in Notes
  BY <1>1, <1>2, NumbersOfMessages DEF Notes, Calls, IsRequest, Msg
<1>4. <<m>> \in Seq(Notes) /\ << >> \in Seq(Calls)
  BY <1>3
<1>5. UNCHANGED <<gate, socket, maker, wire>> /\ transport \in Transports /\ gate' \in Seq(Calls)
  BY DEF Notify, AllInv, IInv, Types, DeliveryInv, BufferInv
<1>6. CASE UNCHANGED <<told, tr, outq>>
  BY <1>5, <1>6, GateDelivers
<1>7. CASE ~tr[transport].disposed /\ Give(transport, <<m>>, << >>)
  BY <1>4, <1>5, <1>7, GiveDelivers
<1> QED BY <1>2, <1>6, <1>7 DEF Notify

LEMMA ChangeDelivers ==
    ASSUME AllInv, NEW t \in Transports, Change(t) PROVE DeliveryInv'
<1>1. inits' \in 1 .. MaxInits
  BY BoundAssumption DEF Change, AllInv, IInv, Types
<1>2. Msg("initialize", inits') \in Calls
  BY <1>1, CallShapes
<1>3. UNCHANGED <<gate, socket, maker, wire>> /\ transport' \in Transports
  BY DEF Change
<1> QED BY <1>2, <1>3, SendDelivers DEF Change

LEMMA AnswerDelivers ==
    ASSUME AllInv, NEW k \in Sockets, NEW c \in Calls, Answer(k, c) PROVE DeliveryInv'
<1>1. UNCHANGED <<socket, maker, wire>> /\ transport \in Transports /\ gate \in Seq(Calls)
  BY DEF Answer, AllInv, IInv, Types, DeliveryInv, BufferInv
<1>2. CASE UNCHANGED <<gate, told, tr, outq>>
  BY <1>1, <1>2, GateDelivers
<1>3. CASE /\ c.kind = "initialize" /\ gate' = << >> /\ ~tr[transport].disposed
           /\ Give(transport, <<Msg("initialized", c.of)>>, gate)
  <2>1. c.of \in 1 .. MaxInits
    BY <1>3, CallShapes
  <2>2. PICK m : m = Msg("initialized", c.of)
    OBVIOUS
  <2>3. m \in Notes
    BY <2>1, <2>2, NumbersOfMessages DEF Notes, Calls, IsRequest, Msg
  <2>4. <<m>> \in Seq(Notes) /\ << >> \in Seq(Calls)
    BY <2>3
  <2> QED BY <1>1, <1>3, <2>2, <2>4, GiveDelivers
<1> QED BY <1>2, <1>3 DEF Answer, Initialized

LEMMA StepDelivers == AllInv /\ [Next]_vars => AllInv'
<1> SUFFICES ASSUME AllInv, [Next]_vars PROVE AllInv'
  OBVIOUS
<1>1. IInv' /\ FirstInv'
  BY StepKeeps, StepKeepsFirst DEF AllInv
<1>2. DeliveryInv'
  <2>1. CASE UNCHANGED vars
    <3>1. UNCHANGED <<gate, told, tr, socket, maker, outq, wire>> /\ gate' \in Seq(Calls)
      BY <2>1 DEF vars, clientVars, AllInv, DeliveryInv, BufferInv
    <3> QED BY <3>1, GateDelivers
  <2>2. ASSUME NEW r \in Requests, Request(r) PROVE DeliveryInv'
    BY <2>2, RequestDelivers
  <2>3. CASE Notify
    BY <2>3, NotifyDelivers
  <2>4. ASSUME NEW t \in Transports, Change(t) \/ Connect(t) \/ Dispose(t) PROVE DeliveryInv'
    BY <2>4, ChangeDelivers, ConnectDelivers, DisposeDelivers
  <2>5. ASSUME NEW k \in Sockets, Opened(k) \/ Failed(k) \/ Lost(k) PROVE DeliveryInv'
    BY <2>5, OpenedDelivers, EndingDelivers
  <2>6. ASSUME NEW k \in Sockets, Closed(k) \/ Write(k) PROVE DeliveryInv'
    BY <2>6, ClosedDelivers, WriteDelivers
  <2>7. ASSUME NEW k \in Sockets, NEW c \in Calls, Answer(k, c) PROVE DeliveryInv'
    BY <2>7, AnswerDelivers
  <2> QED BY <2>1, <2>2, <2>3, <2>4, <2>5, <2>6, <2>7 DEF Next
<1> QED BY <1>1, <1>2 DEF AllInv

\* What a transport is given waits in its buffers, is in the writer or is on the
\* wire, once and in order, notifications and requests each for themselves,
\* unless the transport is disposed of, loses its connection or replaces it
\* (LSWebSocketTransport.ts:102-133, 258-275).
THEOREM EverythingGoesOut == Spec => []NothingLost
<1>1. Init => AllInv
  BY InitEstablishes, InitEstablishesFirst, InitDelivers DEF AllInv
<1>2. AllInv => NothingLost
  <2> SUFFICES ASSUME AllInv, NEW t \in Transports, ~tr[t].disposed,
                      tr[t].messages = NoSocket \/ socket[tr[t].messages] = "open",
                      \A j \in Sockets : maker[j] = t => ~Replaced(j)
               PROVE  Delivered(t)
    BY DEF NothingLost, Delivered, Sent
  <2>1. t # None
    BY TransportAssumption
  <2>2. Attached(t)
    BY <2>1 DEF Replaced, MessagesOf, Attached
  <2> QED BY <2>2 DEF AllInv, DeliveryInv
<1> QED BY <1>1, StepDelivers, <1>2, PTL DEF Spec
=============================================================================
