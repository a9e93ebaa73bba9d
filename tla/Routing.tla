------------------------------ MODULE Routing ------------------------------
(***************************************************************************)
(* How the messages of one session travel between its WebSockets and its   *)
(* language server (LSWSServer.ts:300-420, 494-672): the inbound           *)
(* middleware gives numeric request ids a UUID, the process's output is    *)
(* multicast to a consumer per connection in the chunks it is written in,  *)
(* and the middleware of each connection keeps the responses to its own    *)
(* requests and restores their ids.                                        *)
(*                                                                         *)
(* Here a chunk is a whole message or one of its two parts; module Framing *)
(* has the bytes. Sessions and processes are in module LSWSServer.         *)
(***************************************************************************)
EXTENDS Naturals, Sequences

CONSTANTS
    Conns,     \* WebSocket connections; a client that reconnects is a new one
    NumIds,    \* numeric request ids: every connection uses the same
    StrIds,    \* string request ids
    Uuids,     \* what crypto.randomUUID may return
    Pushes,    \* notifications and requests of the language server's own
    NoId, NoMessage,
    Splits,    \* the process's output may be cut inside a message
    Workloads  \* bound: each is a set of requests that may be sent in a behaviour

ASSUME IdAssumption == /\ NumIds \cap StrIds = {}
                       /\ (NumIds \cup StrIds) \cap Uuids = {}
                       /\ NoId \notin NumIds \cup StrIds \cup Uuids
ASSUME SwitchAssumption == Splits \in BOOLEAN

Ids == NumIds \cup StrIds
WireIds == Ids \cup Uuids \cup {NoId}
Requests == Conns \X Ids

ASSUME WorkloadAssumption == \A W \in Workloads : W \subseteq Requests

\* of names what the message is about: the request for a request or a
\* response, the push for a notification, a call or a reply.
Message == [kind : {"request", "response", "notification", "call", "reply"},
            id : WireIds, of : Requests \cup Pushes]
ASSUME MessageAssumption == NoMessage \notin Message

Chunk == [part : {"whole", "head", "tail"}, message : Message]

VARIABLES
    socket,    \* "new", "open" or "closed", for each connection
    late,      \* history: connections made between the two parts of a message
    idMap,     \* requestIDTranslationMap; NoId where it has no entry
    used,      \* the UUIDs given out
    asked,     \* requests sent by clients
    inbox,     \* messages a connection has sent, before the middleware
    stdin,     \* messages written to the language server
    pending,   \* requests the language server has read and not answered
    made,      \* requests it has answered
    pushed,    \* the pushes it has made, with the ids they are sent under
    unwritten, \* the message whose second part is still to be written
    consumer,  \* chunks in the PassThrough of each connection
    framer,    \* "boundary", "inside" a message, or "failed"
    answers,   \* the responses each client has received, in order
    heard      \* the pushes it has received

socketVars == <<socket, late>>
gotVars == <<answers, heard>>
clientVars == <<socketVars, asked, inbox, gotVars>>
serverVars == <<stdin, pending, made, pushed, unwritten>>
vars == <<socketVars, idMap, used, asked, inbox, stdin, pending, made, pushed, unwritten,
          consumer, framer, answers, heard>>

TypeOK ==
    /\ socket \in [Conns -> {"new", "open", "closed"}]
    /\ late \subseteq Conns
    /\ idMap \in [Conns -> [Uuids -> NumIds \cup {NoId}]]
    /\ used \subseteq Uuids
    /\ asked \subseteq Requests
    /\ inbox \in [Conns -> Seq(Message)]
    /\ stdin \in Seq(Message)
    /\ pending \subseteq Message
    /\ made \subseteq Requests
    /\ pushed \subseteq Pushes \X (Ids \cup {NoId})
    /\ unwritten \in Message \cup {NoMessage}
    /\ consumer \in [Conns -> Seq(Chunk)]
    /\ framer \in [Conns -> {"boundary", "inside", "failed"}]
    /\ answers \in [Conns -> Seq([of : Requests, id : Ids])]
    /\ heard \in [Conns -> SUBSET Pushes]

Init ==
    /\ socket = [c \in Conns |-> "new"]
    /\ idMap = [c \in Conns |-> [u \in Uuids |-> NoId]]
    /\ late = {} /\ used = {} /\ asked = {} /\ pending = {} /\ made = {} /\ pushed = {}
    /\ inbox = [c \in Conns |-> << >>]
    /\ stdin = << >>
    /\ unwritten = NoMessage
    /\ consumer = [c \in Conns |-> << >>]
    /\ framer = [c \in Conns |-> "boundary"]
    /\ answers = [c \in Conns |-> << >>]
    /\ heard = [c \in Conns |-> {}]

IsString(id) == id \in StrIds \cup Uuids

\* The server process is there. A transform of pipeLsInToLsOut that fails emits
\* "error" with nobody listening, and Node ends the process: no stream of any
\* connection moves after that.
Up == \A c \in Conns : framer[c] # "failed"

-----------------------------------------------------------------------------
(* Clients *)

\* handleNewWebsocket: a consumer of the output from now on, an empty map.
Join(c) ==
    /\ Up
    /\ socket[c] = "new"
    /\ socket' = [socket EXCEPT ![c] = "open"]
    /\ late' = IF unwritten = NoMessage THEN late ELSE late \cup {c}
    /\ UNCHANGED <<idMap, used, asked, inbox, serverVars, consumer, framer, gotVars>>

Ask(c, i) ==
    /\ Up
    /\ socket[c] = "open"
    /\ <<c, i>> \notin asked
    /\ \E W \in Workloads : asked \cup {<<c, i>>} \subseteq W
    /\ asked' = asked \cup {<<c, i>>}
    /\ inbox' = [inbox EXCEPT ![c] =
                    Append(@, [kind |-> "request", id |-> i, of |-> <<c, i>>])]
    /\ UNCHANGED <<socketVars, idMap, used, serverVars, consumer, framer, gotVars>>

\* onclose: the connection leaves conns and its consumer is destroyed. What it
\* sent last may not have arrived.
Close(c) ==
    /\ Up
    /\ socket[c] = "open"
    /\ socket' = [socket EXCEPT ![c] = "closed"]
    /\ UNCHANGED late
    /\ consumer' = [consumer EXCEPT ![c] = << >>]
    /\ \E n \in 0 .. Len(inbox[c]) : inbox' = [inbox EXCEPT ![c] = SubSeq(@, 1, n)]
    /\ UNCHANGED <<idMap, used, asked, serverVars, framer, gotVars>>

-----------------------------------------------------------------------------
(* The inbound middleware *)

\* Requests under a numeric id get a UUID; all the rest goes through as it is.
RenamesReplies(m) == m.id \in NumIds
Renames(m) == m.kind = "request" /\ m.id \in NumIds

\* randomUUID returns a value it has not returned before.
Uuid(u) == u \in Uuids \ used

Inbound(c) ==
    /\ Up
    /\ inbox[c] # << >>
    /\ inbox' = [inbox EXCEPT ![c] = Tail(@)]
    /\ LET m == Head(inbox[c])
       IN \/ /\ ~Renames(m)
             /\ stdin' = Append(stdin, m)
             /\ UNCHANGED <<idMap, used>>
          \/ /\ Renames(m)
             /\ \E u \in Uuids :
                  /\ Uuid(u)
                  /\ used' = used \cup {u}
                  /\ idMap' = [idMap EXCEPT ![c][u] = m.id]
                  /\ stdin' = Append(stdin, [m EXCEPT !.id = u])
    /\ UNCHANGED <<socketVars, asked, pending, made, pushed, unwritten, consumer, framer,
                   gotVars>>

-----------------------------------------------------------------------------
(* The language server *)

Read ==
    /\ Up
    /\ stdin # << >>
    /\ stdin' = Tail(stdin)
    /\ pending' = IF Head(stdin).kind = "request" THEN pending \cup {Head(stdin)}
                  ELSE pending
    /\ UNCHANGED <<clientVars, idMap, used, made, pushed, unwritten, consumer, framer>>

AttachedWhileAsking(c) == socket[c] = "open" /\ \E u \in Uuids : idMap[c][u] # NoId
Attached(c) == socket[c] = "open"

\* A chunk of the process's output is written to every consumer.
Multicast(chunk) ==
    consumer' = [c \in Conns |-> IF Attached(c) THEN Append(consumer[c], chunk)
                              ELSE consumer[c]]

Write(m) ==
    /\ unwritten = NoMessage
    /\ \/ /\ Multicast([part |-> "whole", message |-> m])
          /\ UNCHANGED unwritten
       \/ /\ Splits
          /\ Multicast([part |-> "head", message |-> m])
          /\ unwritten' = m

Respond(m) ==
    /\ Up
    /\ m \in pending
    /\ pending' = pending \ {m}
    /\ made' = made \cup {m.of}
    /\ Write([m EXCEPT !.kind = "response"])
    /\ UNCHANGED <<clientVars, idMap, used, stdin, pushed, framer>>

\* A notification, or a request under an id that clients may be using too.
Push(p) ==
    /\ Up
    /\ \A q \in pushed : q[1] # p
    /\ \E i \in Ids \cup {NoId} :
         /\ pushed' = pushed \cup {<<p, i>>}
         /\ Write([kind |-> IF i = NoId THEN "notification" ELSE "call",
                   id |-> i, of |-> p])
    /\ UNCHANGED <<clientVars, idMap, used, stdin, pending, made, framer>>

WriteRest ==
    /\ Up
    /\ unwritten # NoMessage
    /\ Multicast([part |-> "tail", message |-> unwritten])
    /\ unwritten' = NoMessage
    /\ UNCHANGED <<clientVars, idMap, used, stdin, pending, made, pushed, framer>>

-----------------------------------------------------------------------------
(* The outbound framing and middleware of a connection *)

\* A response under a string id is for this connection if the map has its id.
IsTranslated(m) == m.kind = "response" /\ IsString(m.id)

OriginalOfAny(c, m) ==
    IF \E d \in Conns : m.id \in Uuids /\ idMap[d][m.id] # NoId
    THEN idMap[CHOOSE d \in Conns : idMap[d][m.id] # NoId][m.id] ELSE NoId
Original(c, m) == IF m.id \in Uuids THEN idMap[c][m.id] ELSE NoId

ForgetNothing(c, id) == idMap
ForgetAll(c, id) == [d \in Conns |-> [u \in Uuids |-> NoId]]
Forget(c, id) == [idMap EXCEPT ![c][id] = NoId]

\* The client gets a response under that id, or a push; it replies to a call.
Receive(c, m, id) ==
    IF m.kind = "response"
    THEN /\ answers' = [answers EXCEPT ![c] = Append(@, [of |-> m.of, id |-> id])]
         /\ UNCHANGED <<heard, inbox>>
    ELSE /\ heard' = [heard EXCEPT ![c] = @ \cup {m.of}]
         /\ inbox' = IF m.kind = "call"
                     THEN [inbox EXCEPT ![c] = Append(@, [m EXCEPT !.kind = "reply"])]
                     ELSE inbox
         /\ UNCHANGED answers

Outbound(c, m) ==
    \/ /\ ~IsTranslated(m)
       /\ Receive(c, m, m.id)
       /\ UNCHANGED idMap
    \/ /\ IsTranslated(m) /\ Original(c, m) = NoId
       /\ UNCHANGED <<idMap, gotVars, inbox>>
    \/ /\ IsTranslated(m) /\ Original(c, m) # NoId
       /\ Receive(c, m, Original(c, m))
       /\ idMap' = Forget(c, m.id)

\* A second part where a header is expected is a bad header: the transform fails.
Forward(c) ==
    /\ Up
    /\ consumer[c] # << >>
    /\ consumer' = [consumer EXCEPT ![c] = Tail(@)]
    /\ LET chunk == Head(consumer[c])
       IN \/ /\ chunk.part = "head"
             /\ framer' = [framer EXCEPT ![c] = "inside"]
             /\ UNCHANGED <<idMap, gotVars, inbox>>
          \/ /\ chunk.part = "tail" /\ framer[c] = "boundary"
             /\ framer' = [framer EXCEPT ![c] = "failed"]
             /\ UNCHANGED <<idMap, gotVars, inbox>>
          \/ /\ chunk.part = "whole" \/ framer[c] = "inside"
             /\ framer' = [framer EXCEPT ![c] = "boundary"]
             /\ Outbound(c, chunk.message)
    /\ UNCHANGED <<socketVars, used, asked, serverVars>>

-----------------------------------------------------------------------------
Next == \/ \E c \in Conns : \/ Join(c) \/ Close(c)
                            \/ \E i \in Ids : Ask(c, i)
                            \/ Inbound(c) \/ Forward(c)
        \/ Read \/ WriteRest
        \/ \E m \in pending : Respond(m)
        \/ \E p \in Pushes : Push(p)

Spec == Init /\ [][Next]_vars

\* Streams flow, and the language server reads its input, finishes what it
\* writes and answers every request. Clients are free to do nothing.
Fairness == /\ \A c \in Conns : WF_vars(Inbound(c)) /\ WF_vars(Forward(c))
            /\ WF_vars(Read) /\ WF_vars(WriteRest)
            /\ \A r \in Requests : WF_vars(\E m \in pending : m.of = r /\ Respond(m))

FairSpec == Spec /\ Fairness

-----------------------------------------------------------------------------
(* Properties *)

\* Answers reach the connection that asked, once, under the id it chose, and
\* no other connection (LSWSServer.ts:84-86), whatever ids connections share.
Reply == INSTANCE DirectReply WITH received <- answers
AnswersAskers == Reply!Spec

\* requestIDTranslationMap does not grow for ever: it has no entry for what has
\* been answered (LSWSServer.ts:541).
NoStaleEntry ==
    \A c \in Conns, u \in Uuids : idMap[c][u] # NoId =>
        \A k \in DOMAIN answers[c] : answers[c][k].id # idMap[c][u]

\* The language server gets replies to its own requests under the ids it gave
\* them, though clients use the same ids for theirs (LSWSServer.ts:500).
RepliesMatch ==
    \A k \in DOMAIN stdin :
        stdin[k].kind = "reply" => <<stdin[k].of, stdin[k].id>> \in pushed

\* "multiple consumers [...] read the same data from the source stream"
\* (LSWSServer.ts:557-558): a consumer's data begin where a message does, unless
\* it was attached while a message was half written.
NoBadHeader == \A c \in Conns : framer[c] = "failed" => c \in late

\* c has the answer to its request i, or the push p, or has gone.
Answered(c, i) ==
    socket[c] = "closed" \/ \E k \in DOMAIN answers[c] : answers[c][k].of = <<c, i>>
Heard(c, p) == socket[c] = "closed" \/ p \in heard[c]

Made(p) == \E q \in pushed : q[1] = p

\* "responses for requests that some specific WebSocket sent will be responded
\* to directly. Notifications from the language server will be broadcast to all"
\* (LSWSServer.ts:85-86): nothing that is meant for an open connection stays away
\* while the server is there, neither the answers to its requests under numeric
\* ids, whatever ids other connections use, nor the pushes made after it connected.
\* The server does not stay there: whoever connects in the middle of a message
\* ends it, and nobody else does (NoBadHeader).
EverythingArrives ==
    /\ \A c \in Conns, i \in NumIds : <<c, i>> \in asked ~> Answered(c, i) \/ ~Up
    /\ \A c \in Conns, p \in Pushes :
          (socket[c] = "open" /\ ~Made(p)) ~> Heard(c, p) \/ ~Up \/ [](~Made(p))
=============================================================================
