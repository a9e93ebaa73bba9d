------------------------------ MODULE LSProxy ------------------------------
(***************************************************************************)
(* LSProxy: a language server that passes the messages of its client to    *)
(* another one, through handlers and middlewares that may answer, change   *)
(* or cancel them (LSProxy.ts).                                            *)
(*                                                                         *)
(* A message that has arrived is an activation of the proxy; it is         *)
(* suspended at the callbacks it awaits and, if it is a request, at the    *)
(* answer. A callback takes any time; what follows it happens at once. It  *)
(* does not throw, and keeps URIs in the form it is given them.            *)
(***************************************************************************)
EXTENDS Naturals, Sequences

CONSTANTS
    Requests, Notes,  \* requests and notifications of the client
    Calls, Pushes,    \* requests and notifications of the language server
    Handlers,         \* the levels at which a message has a handler
    Middlewares,      \* the levels at which its parameters have a middleware
    ResultMiddlewares,  \* the levels at which the result of a request has one
    PostSpawn         \* the callback postSpawn is given

Messages == Requests \cup Notes \cup Calls \cup Pushes
Asking == Requests \cup Calls
FromClient == Requests \cup Notes

\* Callbacks for the method, for "request/*" or "notification/*", and for "*".
Levels == {"method", "kind", "any"}
InOrder(levels) ==
    SelectSeq(<<"method", "kind", "any">>, LAMBDA l : l \in levels)

ASSUME KindAssumption ==
    /\ Requests \cap (Notes \cup Calls \cup Pushes) = {}
    /\ Notes \cap (Calls \cup Pushes) = {} /\ Calls \cap Pushes = {}
ASSUME CallbackAssumption ==
    /\ Handlers \in [Messages -> SUBSET Levels]
    /\ Middlewares \in [Messages -> SUBSET Levels]
    /\ ResultMiddlewares \in [Requests -> SUBSET Levels]
    /\ PostSpawn \in BOOLEAN

VARIABLES
    boot,      \* how far listen() has got
    os,        \* the language server's process
    procConn,  \* "null", "open", or "closed": of a process that has exited
    stage,     \* what the activation of a message awaits
    todo,      \* levels whose callbacks have still to run
    value,     \* the parameters or the result they work on
    got,       \* the form in which the other side has got a message
    reply,     \* what has been returned for a request
    cancelled  \* messages one of whose callbacks returned cancel_response

bootVars == <<boot, os, procConn>>
vars == <<bootVars, stage, todo, value, got, reply, cancelled>>

\* The format of the URIs in a message: the client's, the language server's, or
\* neither.
Forms == {"client", "proc", "garbled"}
Value == [is : {"params", "result", "null", "code"}, form : Forms]
NoReply == [kind |-> "none"]
Error == [kind |-> "error"]
Reply == [kind : {"reply"}, value : Value]

\* Types; only what awaits callbacks has callbacks to run.
TypeOK ==
    /\ boot \in {"no", "spawned", "listening"}
    /\ os \in {"unborn", "running", "exited"}
    /\ procConn \in {"null", "open", "closed"}
    /\ stage \in [Messages -> {"new", "handler", "middleware", "sent", "answered",
                               "result", "over", "lost"}]
    /\ todo \in [Messages -> Seq(Levels)]
    /\ value \in [Messages -> Value]
    /\ got \in [Messages -> {"nothing"} \cup Forms]
    /\ reply \in [Asking -> Reply \cup {NoReply, Error}]
    /\ cancelled \subseteq Messages
    /\ \A m \in Messages : todo[m] # << >> <=> stage[m] \in {"handler", "middleware", "result"}

OwnForm(m) == IF m \in FromClient THEN "client" ELSE "proc"
Params(m, form) == [is |-> "params", form |-> form]

Init ==
    /\ boot = "no" /\ os = "unborn" /\ procConn = "null"
    /\ stage = [m \in Messages |-> "new"]
    /\ todo = [m \in Messages |-> << >>]
    /\ value = [m \in Messages |-> Params(m, OwnForm(m))]
    /\ got = [m \in Messages |-> "nothing"]
    /\ reply = [m \in Asking |-> NoReply]
    /\ cancelled = {}

-----------------------------------------------------------------------------
(* The process *)

\* The connection of a process that has exited before its listeners were added
\* is made all the same.
Connected == IF os' = "running" THEN "open" ELSE "closed"

Spawn ==
    /\ boot = "no"
    /\ os' = "running"
    /\ IF PostSpawn THEN boot' = "spawned" /\ UNCHANGED procConn
                    ELSE boot' = "listening" /\ procConn' = Connected
    /\ UNCHANGED <<stage, todo, value, got, reply, cancelled>>

\* postSpawn has returned.
Spawned ==
    /\ boot = "spawned"
    /\ boot' = "listening"
    /\ UNCHANGED os
    /\ procConn' = Connected
    /\ UNCHANGED <<stage, todo, value, got, reply, cancelled>>

\* The "exit" and "close" listeners, if there are any yet. The requests that the
\* process has answered in time are, the others never will be.
ConnectionKept == procConn
ConnectionLeft == IF boot = "listening" THEN "null" ELSE procConn
ProcExit ==
    /\ os = "running"
    /\ os' = "exited"
    /\ procConn' = ConnectionLeft
    /\ \E lost \in SUBSET {r \in Requests : stage[r] = "sent"} :
         stage' = [m \in Messages |->
                      CASE m \in lost -> "lost"
                        [] m \in Requests \ lost /\ stage[m] = "sent" -> "answered"
                        [] OTHER -> stage[m]]
    /\ UNCHANGED <<boot, todo, value, got, reply, cancelled>>

-----------------------------------------------------------------------------
(* The way of a message *)

\* Whether there is a callback to wait for.
Registered(levels) == levels # {}

Await(m, at, levels) ==
    /\ stage' = [stage EXCEPT ![m] = at]
    /\ todo' = [todo EXCEPT ![m] = InOrder(levels)]

\* The activation is over; the sender of a request gets what it returns.
Over(m, with) ==
    /\ stage' = [stage EXCEPT ![m] = "over"]
    /\ todo' = [todo EXCEPT ![m] = << >>]
    /\ reply' = IF m \in Asking THEN [reply EXCEPT ![m] = with] ELSE reply

Return(v) == [kind |-> "reply", value |-> v]
NullOf(m) == Return([is |-> "null", form |-> OwnForm(m)])

Sendable == procConn = "open"

\* The converters the application gives, which are for URIs of the other format.
ToProcUri(form) == IF form = "client" THEN "proc" ELSE "garbled"
FromProcUri(form) == IF form = "proc" THEN "client" ELSE "garbled"

\* replaceFileUris, for requests after the middlewares, otherwise on arrival.
ToProcAgain(m, v) == IF m \in FromClient THEN [v EXCEPT !.form = ToProcUri(@)] ELSE v
ToProc(m, v) == IF m \in Requests THEN [v EXCEPT !.form = ToProcUri(@)] ELSE v
OnArrival(m) ==
    [value[m] EXCEPT !.form = CASE m \in Notes -> ToProcUri(@)
                                [] m \in Calls \cup Pushes -> FromProcUri(@)
                                [] OTHER -> @]

\* To the other side, if there is one: a request is refused, a notification lost.
Forward(m, v) ==
    \/ /\ m \in FromClient /\ ~Sendable
       /\ Over(m, Error)
       /\ UNCHANGED got
    \/ /\ m \in FromClient => Sendable
       /\ got' = [got EXCEPT ![m] = ToProc(m, v).form]
       /\ IF m \in Asking
          THEN /\ stage' = [stage EXCEPT ![m] = "sent"]
               /\ todo' = [todo EXCEPT ![m] = << >>]
               /\ UNCHANGED reply
          ELSE Over(m, NoReply)

\* applyMiddleware
Change(m, v) ==
    \/ /\ Registered(Middlewares[m])
       /\ Await(m, "middleware", Middlewares[m])
       /\ UNCHANGED <<got, reply>>
    \/ /\ ~Registered(Middlewares[m])
       /\ Forward(m, v)

Arrive(m) ==
    /\ boot = "listening"
    /\ stage[m] = "new"
    /\ value' = [value EXCEPT ![m] = OnArrival(m)]
    /\ \/ /\ Registered(Handlers[m])
          /\ Await(m, "handler", Handlers[m])
          /\ UNCHANGED <<got, reply>>
       \/ /\ ~Registered(Handlers[m])
          /\ Change(m, value'[m])
    /\ UNCHANGED <<bootVars, cancelled>>

-----------------------------------------------------------------------------
(* Callbacks *)

\* cancel_response ends applyHandler and applyMiddleware at any level.
EndsIfLast(m) == Tail(todo[m]) = << >>
Ends(m) == TRUE

NextLevel(m) ==
    /\ todo' = [todo EXCEPT ![m] = Tail(@)]
    /\ UNCHANGED <<stage, got, reply>>

\* A handler returns null, a value or cancel_response; the last level decides.
\* The language server is given cancel_response itself.
Handled(m, outcome) ==
    IF outcome = "cancel" /\ Ends(m)
    THEN /\ Over(m, IF m \in Calls THEN Return([is |-> "code", form |-> "client"])
                    ELSE NullOf(m))
         /\ UNCHANGED got
    ELSE \/ /\ Len(todo[m]) > 1
            /\ NextLevel(m)
         \/ /\ Len(todo[m]) = 1
            /\ IF outcome = "null" THEN Change(m, value[m])
               ELSE Over(m, Return([value[m] EXCEPT !.is = "result"])) /\ UNCHANGED got

RunHandler(m) ==
    /\ stage[m] = "handler"
    /\ \E outcome \in {"null", "value", "cancel"} :
         /\ Handled(m, outcome)
         /\ cancelled' = IF outcome = "cancel" THEN cancelled \cup {m} ELSE cancelled
    /\ UNCHANGED <<bootVars, value>>

RunMiddleware(m) ==
    /\ stage[m] = "middleware"
    /\ \/ /\ cancelled' = cancelled \cup {m}
          /\ IF Ends(m) THEN Over(m, NullOf(m)) /\ UNCHANGED got
             ELSE NextLevel(m)
       \/ /\ UNCHANGED cancelled
          /\ \/ Len(todo[m]) > 1 /\ NextLevel(m)
             \/ Len(todo[m]) = 1 /\ Forward(m, value[m])
    /\ UNCHANGED <<bootVars, value>>

\* The middleware of a result: that of the method is given the parameters if the
\* result is null, and null itself has no ls_proxy_code.
ResultGiven(m) ==
    IF Head(todo[m]) = "method" /\ value[m].is = "null" THEN Params(m, "client")
    ELSE value[m]

RunResultMiddleware(m) ==
    /\ stage[m] = "result"
    /\ LET v == ResultGiven(m)
       IN \/ /\ cancelled' = cancelled \cup {m}
             /\ Over(m, NullOf(m))
          \/ /\ UNCHANGED cancelled
             /\ \/ v.is = "null" /\ Over(m, Error)
                \/ v.is # "null" /\ Len(todo[m]) > 1 /\ NextLevel(m)
                \/ v.is # "null" /\ Len(todo[m]) = 1 /\ Over(m, Return(v))
    /\ UNCHANGED <<bootVars, value, got>>

-----------------------------------------------------------------------------
(* Answers *)

\* The language server answers: an error, or what is no answer of the protocol,
\* is passed on as an error.
Answer(r) ==
    /\ stage[r] = "answered" \/ (stage[r] = "sent" /\ os = "running")
    /\ UNCHANGED <<bootVars, got, cancelled>>
    /\ \/ /\ Over(r, Error)
          /\ UNCHANGED value
       \/ \E is \in {"result", "null"} :
            /\ value' = [value EXCEPT ![r] = [is |-> is, form |-> FromProcUri("proc")]]
            /\ \/ /\ "method" \in ResultMiddlewares[r]
                  /\ Await(r, "result", ResultMiddlewares[r])
                  /\ UNCHANGED reply
               \/ /\ "method" \notin ResultMiddlewares[r]
                  /\ Over(r, Return(value'[r]))

\* The client answers, and its answer is returned as it is.
ClientAnswer(c) ==
    /\ stage[c] = "sent"
    /\ value' = [value EXCEPT ![c] = [is |-> "result", form |-> "client"]]
    /\ Over(c, Return(value'[c]))
    /\ UNCHANGED <<bootVars, got, cancelled>>

-----------------------------------------------------------------------------
Next ==
    \/ Spawn \/ Spawned \/ ProcExit
    \/ \E m \in Messages : Arrive(m) \/ RunHandler(m) \/ RunMiddleware(m)
    \/ \E r \in Requests : RunResultMiddleware(r) \/ Answer(r)
    \/ \E c \in Calls : ClientAnswer(c)

Spec == Init /\ [][Next]_vars

\* Callbacks return, and the language server answers what it can.
Fairness ==
    /\ \A m \in Messages : WF_vars(RunHandler(m)) /\ WF_vars(RunMiddleware(m))
    /\ \A r \in Requests : WF_vars(RunResultMiddleware(r)) /\ WF_vars(Answer(r))

FairSpec == Spec /\ Fairness

-----------------------------------------------------------------------------
(* Properties *)

\* What is passed on is converted, and converted once, whatever handlers and
\* middlewares there are, before or after the conversion: requests and
\* notifications reach the other side in its own format, and so do the results a
\* client gets (LSProxy.ts:272, 312, 349, 441, 459). The results the language server
\* gets are the exception: nobody converts what clients and handlers return
\* (326, 338), although types.ts:94 has functions for both directions.
PassedOnConverted ==
    /\ \A m \in FromClient : got[m] \in {"nothing", "proc"}
    /\ \A m \in Calls \cup Pushes : got[m] \in {"nothing", "client"}
    /\ \A r \in Requests : reply[r].kind = "reply" => reply[r].value.form = "client"
    /\ \A c \in Calls : (reply[c].kind = "reply" /\ reply[c].value.is = "result")
                          => reply[c].value.form = "client"

\* cancel_response, "which tells the proxy to cancel the response to the client
\* (or process)" (types.ts:11-13), does so at whatever level a callback returns
\* it: nothing is passed on after it, and no later callback is asked.
CancelIsFinal ==
    \A m \in cancelled :
        /\ stage[m] = "over"
        /\ got[m] # "nothing" => m \in Requests /\ reply[m] = NullOf(m)

\* A request of the client is answered, if only by an error, whether or not the
\* process is there, at whatever callback it waits when the process exits
\* (LSProxy.ts:392-494). "Requests get exactly one reply" (ls-ws-server/README.md:
\* 117) has one exception: the "exit" listener (225-251) gives up the connection
\* without rejecting what awaits an answer on it, so a request that the process had
\* got and not answered when it exited is "lost" and never answered.
RequestsAnswered ==
    \A r \in Requests : (stage[r] # "new") ~> (stage[r] \in {"over", "lost"})
=============================================================================
