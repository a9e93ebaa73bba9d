--------------------------- MODULE LSProxyProofs ---------------------------
(***************************************************************************)
(* Theorems about LSProxy, for any messages and any callbacks: what is     *)
(* passed on has its URIs converted once, and cancel_response is final.    *)
(* The steps of a message change nothing of the others, so the invariant   *)
(* is about one message at a time.                                         *)
(***************************************************************************)
EXTENDS LSProxy, TLAPS

Stages == {"new", "handler", "middleware", "sent", "answered", "result", "over", "lost"}

Types ==
    /\ stage \in [Messages -> Stages]
    /\ value \in [Messages -> Value]
    /\ got \in [Messages -> {"nothing"} \cup Forms]
    /\ reply \in [Asking -> Reply \cup {NoReply, Error}]
    /\ cancelled \subseteq Messages

\* The form in which the callbacks of m are given its parameters.
Given(m) == IF m \in Notes THEN "proc" ELSE "client"

\* The result in a reply, if there is one, has the client's form.
Unconverted(with) ==
    (with.kind = "reply" /\ with.value.is = "result") => with.value.form = "client"

\* What holds of each message: the form of what its callbacks are given, which
\* is the form its receiver wants but for the parameters of the client's
\* requests; it has not been passed on while they run.
Right(m) ==
    /\ stage[m] = "new" => value[m].form = OwnForm(m)
    /\ stage[m] \in {"handler", "middleware"} => value[m].form = Given(m)
    /\ stage[m] = "result" => value[m].form = "client"
    /\ stage[m] \in {"new", "handler", "middleware"} => got[m] = "nothing"
    /\ m \in FromClient => got[m] \in {"nothing", "proc"}
    /\ m \in Calls \cup Pushes => got[m] \in {"nothing", "client"}
    /\ m \in Requests => (reply[m].kind = "reply" => reply[m].value.form = "client")
    /\ m \in Calls => Unconverted(reply[m])
    /\ m \in cancelled => /\ stage[m] = "over"
                          /\ got[m] # "nothing" => m \in Requests /\ reply[m] = NullOf(m)

IInv == Types /\ \A m \in Messages : Right(m)

-----------------------------------------------------------------------------
LEMMA Kinds ==
    /\ Asking \subseteq Messages /\ FromClient \subseteq Messages
    /\ \A m \in Messages : /\ m \in Requests => m \in Asking /\ m \in FromClient
                           /\ m \in Calls => m \in Asking /\ m \notin FromClient
                           /\ m \in Notes => m \notin Asking /\ m \notin Requests
                           /\ m \in Pushes => m \notin FromClient /\ m \notin Asking
BY KindAssumption DEF Asking, FromClient, Messages

\* A step that changes nothing of other messages need only be right for its own.
LEMMA OneMessage ==
    ASSUME IInv, Types', NEW m \in Messages, Right(m)',
           \A n \in Messages \ {m} : /\ stage'[n] = stage[n]
                                     /\ value'[n] = value[n]
                                     /\ got'[n] = got[n],
           \A n \in Asking \ {m} : reply'[n] = reply[n],
           cancelled' \subseteq cancelled \cup {m}
    PROVE  IInv'
<1>1. ASSUME NEW n \in Messages \ {m}
      PROVE  Right(n)'
  <2>1. Right(n)
    BY DEF IInv
  <2>2. n \in cancelled' => n \in cancelled
    OBVIOUS
  <2>3. n \in Requests \cup Calls => reply'[n] = reply[n]
    BY DEF Asking
  <2> QED
    BY <2>1, <2>2, <2>3, <1>1 DEF Right, NullOf, Return, OwnForm, Given
<1> QED
  BY <1>1 DEF IInv

\* The activation of m ends.
LEMMA OverIsTyped ==
    ASSUME IInv, NEW m \in Messages, NEW with \in Reply \cup {NoReply, Error}, Over(m, with)
    PROVE  /\ stage' \in [Messages -> Stages] /\ reply' \in [Asking -> Reply \cup {NoReply, Error}]
           /\ stage'[m] = "over" /\ (m \in Asking => reply'[m] = with)
           /\ \A n \in Messages \ {m} : stage'[n] = stage[n]
           /\ \A n \in Asking \ {m} : reply'[n] = reply[n]
<1>1. stage \in [Messages -> Stages] /\ reply \in [Asking -> Reply \cup {NoReply, Error}]
  BY DEF IInv, Types
<1>2. CASE m \in Asking
  BY <1>1, <1>2 DEF Over, Stages
<1>3. CASE m \notin Asking
  BY <1>1, <1>3 DEF Over, Stages
<1> QED
  BY <1>2, <1>3

LEMMA Replies ==
    ASSUME NEW m \in Messages
    PROVE  /\ NullOf(m) \in Reply
           /\ m \in Requests => NullOf(m).value.form = "client"
           /\ Unconverted(NullOf(m)) /\ Unconverted(NoReply) /\ Unconverted(Error)
           /\ NoReply.kind # "reply" /\ Error.kind # "reply"
           /\ NoReply \in Reply \cup {NoReply, Error} /\ Error \in Reply \cup {NoReply, Error}
BY DEF NullOf, Return, OwnForm, Reply, Value, Forms, NoReply, Error, FromClient, Unconverted

LEMMA InitIsRight == Init => IInv
<1> SUFFICES ASSUME Init PROVE IInv
  OBVIOUS
<1>1. Types
  BY Kinds DEF Init, Types, Stages, Params, OwnForm, Value, Forms
<1>2. ASSUME NEW m \in Messages PROVE Right(m)
  BY Kinds DEF Init, Right, Params, NoReply, Forms, Unconverted
<1> QED
  BY <1>1, <1>2 DEF IInv

-----------------------------------------------------------------------------
(* The ways an activation goes on *)

\* m is passed on, or its activation ends.
LEMMA ForwardIsRight ==
    ASSUME IInv, NEW m \in Messages, NEW v \in Value, v.form = Given(m), Forward(m, v),
           got[m] = "nothing", m \notin cancelled, UNCHANGED cancelled,
           value' \in [Messages -> Value],
           \A n \in Messages \ {m} : value'[n] = value[n]
    PROVE  IInv'
<1> USE Kinds DEF IInv
<1>1. /\ stage \in [Messages -> Stages] /\ got \in [Messages -> {"nothing"} \cup Forms]
      /\ reply \in [Asking -> Reply \cup {NoReply, Error}] /\ cancelled \subseteq Messages
      /\ Right(m)
  BY DEF Types
<1>2. CASE m \in FromClient /\ Over(m, Error) /\ UNCHANGED got
  <2>1. /\ stage' \in [Messages -> Stages] /\ reply' \in [Asking -> Reply \cup {NoReply, Error}]
        /\ stage'[m] = "over" /\ (m \in Asking => reply'[m] = Error)
        /\ \A n \in Messages \ {m} : stage'[n] = stage[n]
        /\ \A n \in Asking \ {m} : reply'[n] = reply[n]
    BY <1>2, Replies, OverIsTyped
  <2>2. Types'
    BY <1>1, <1>2, <2>1 DEF Types
  <2>3. Right(m)'
    BY <1>1, <1>2, <2>1, Replies DEF Right
  <2> QED
    BY <1>2, <2>1, <2>2, <2>3, OneMessage
<1>3. CASE /\ got' = [got EXCEPT ![m] = ToProc(m, v).form]
           /\ IF m \in Asking
              THEN stage' = [stage EXCEPT ![m] = "sent"] /\ UNCHANGED reply
              ELSE Over(m, NoReply)
  <2>1. /\ ToProc(m, v).form \in Forms
        /\ m \in FromClient => ToProc(m, v).form = "proc"
        /\ m \in Calls \cup Pushes => ToProc(m, v).form = "client"
    BY KindAssumption DEF ToProc, ToProcUri, Value, Forms, Given, Messages, FromClient
  <2>2. /\ got' \in [Messages -> {"nothing"} \cup Forms]
        /\ m \in FromClient => got'[m] \in {"nothing", "proc"}
        /\ m \in Calls \cup Pushes => got'[m] \in {"nothing", "client"}
        /\ \A n \in Messages \ {m} : got'[n] = got[n]
    BY <1>1, <1>3, <2>1
  <2>3. CASE m \in Asking /\ stage' = [stage EXCEPT ![m] = "sent"] /\ UNCHANGED reply
    <3>1. Types'
      BY <1>1, <2>2, <2>3 DEF Types, Stages
    <3>2. Right(m)'
      BY <1>1, <2>2, <2>3 DEF Right
    <3> QED
      BY <2>2, <2>3, <3>1, <3>2, <1>1, OneMessage
  <2>4. CASE m \notin Asking /\ Over(m, NoReply)
    <3>1. /\ stage' \in [Messages -> Stages] /\ reply' \in [Asking -> Reply \cup {NoReply, Error}]
          /\ stage'[m] = "over"
          /\ \A n \in Messages \ {m} : stage'[n] = stage[n]
          /\ \A n \in Asking \ {m} : reply'[n] = reply[n]
      BY <2>4, Replies, OverIsTyped
    <3>2. Types'
      BY <1>1, <2>2, <3>1 DEF Types
    <3>3. Right(m)'
      BY <1>1, <2>2, <2>4, <3>1 DEF Right
    <3> QED
      BY <2>2, <3>1, <3>2, <3>3, OneMessage
  <2> QED
    BY <1>3, <2>3, <2>4
<1> QED
  BY <1>2, <1>3 DEF Forward

\* m awaits callbacks that are given v.
LEMMA AwaitIsRight ==
    ASSUME IInv, NEW m \in Messages, NEW at \in {"handler", "middleware"}, NEW levels,
           Await(m, at, levels), value'[m].form = Given(m),
           got[m] = "nothing", m \notin cancelled, UNCHANGED <<got, reply, cancelled>>,
           value' \in [Messages -> Value],
           \A n \in Messages \ {m} : value'[n] = value[n]
    PROVE  IInv'
<1> USE Kinds DEF IInv
<1>1. Types'
  BY DEF Types, Await, Stages
<1>2. /\ stage'[m] = at /\ Right(m)
      /\ \A n \in Messages \ {m} : stage'[n] = stage[n]
  BY DEF Types, Await
<1>3. Right(m)'
  BY <1>2 DEF Right
<1> QED
  BY <1>1, <1>2, <1>3, OneMessage

LEMMA ChangeIsRight ==
    ASSUME IInv, NEW m \in Messages, Change(m, value'[m]), value'[m].form = Given(m),
           got[m] = "nothing", m \notin cancelled, UNCHANGED cancelled,
           value' \in [Messages -> Value],
           \A n \in Messages \ {m} : value'[n] = value[n]
    PROVE  IInv'
<1>1. value'[m] \in Value
  OBVIOUS
<1>2. CASE Await(m, "middleware", Middlewares[m]) /\ UNCHANGED <<got, reply>>
  BY <1>2, AwaitIsRight
<1>3. CASE Forward(m, value'[m])
  BY <1>1, <1>3, ForwardIsRight
<1> QED
  BY <1>2, <1>3 DEF Change

\* The activation ends: with a null, an error, or a value in the form it should have.
LEMMA OverIsRight ==
    ASSUME IInv, NEW m \in Messages, NEW with \in Reply \cup {NoReply, Error}, Over(m, with),
           m \in Requests => (with.kind = "reply" => with.value.form = "client"),
           m \in Calls => Unconverted(with),
           UNCHANGED got, value' \in [Messages -> Value],
           \A n \in Messages \ {m} : value'[n] = value[n],
           m \notin cancelled,
           \/ UNCHANGED cancelled
           \/ /\ cancelled' = cancelled \cup {m}
              /\ got[m] # "nothing" => m \in Requests /\ with = NullOf(m)
    PROVE  IInv'
<1> USE Kinds DEF IInv
<1>1. /\ stage' \in [Messages -> Stages] /\ reply' \in [Asking -> Reply \cup {NoReply, Error}]
      /\ stage'[m] = "over" /\ (m \in Asking => reply'[m] = with)
      /\ \A n \in Messages \ {m} : stage'[n] = stage[n]
      /\ \A n \in Asking \ {m} : reply'[n] = reply[n]
  BY OverIsTyped
<1>2. Types'
  BY <1>1 DEF Types
<1>3. Right(m)
  OBVIOUS
<1>4. Right(m)'
  BY <1>1, <1>3 DEF Right, NullOf, OwnForm, Return
<1> QED
  BY <1>1, <1>2, <1>4, OneMessage

-----------------------------------------------------------------------------
(* The steps *)

\* The callback that has returned is not the last one.
LEMMA NextLevelIsRight ==
    ASSUME IInv, NEW m \in Messages, NextLevel(m), UNCHANGED <<value, cancelled>>
    PROVE  IInv'
<1>1. UNCHANGED <<stage, value, got, reply, cancelled>>
  BY DEF NextLevel
<1> QED
  BY <1>1 DEF IInv, Types, Right

LEMMA ArriveIsRight ==
    ASSUME IInv, NEW m \in Messages, Arrive(m)
    PROVE  IInv'
<1>1. /\ value' = [value EXCEPT ![m] = OnArrival(m)] /\ UNCHANGED cancelled
      /\ stage[m] = "new"
  BY DEF Arrive
<1>2. OnArrival(m) \in Value /\ OnArrival(m).form = Given(m)
  <2>1. value[m] \in Value /\ value[m].form = OwnForm(m)
    BY <1>1 DEF IInv, Types, Right
  <2>2. CASE m \in Notes
    BY <2>1, <2>2, KindAssumption
       DEF OnArrival, ToProcUri, OwnForm, FromClient, Given, Value, Forms
  <2>3. CASE m \in Calls \cup Pushes
    BY <2>1, <2>3, KindAssumption
       DEF OnArrival, FromProcUri, OwnForm, FromClient, Given, Value, Forms
  <2>4. CASE m \in Requests
    BY <2>1, <2>4, KindAssumption
       DEF OnArrival, OwnForm, FromClient, Given, Value, Forms
  <2> QED
    BY <2>2, <2>3, <2>4 DEF Messages
<1>3. /\ value' \in [Messages -> Value] /\ value'[m].form = Given(m)
      /\ \A n \in Messages \ {m} : value'[n] = value[n]
  BY <1>1, <1>2 DEF IInv, Types
<1>4. got[m] = "nothing" /\ m \notin cancelled
  BY <1>1 DEF IInv, Right
<1>5. CASE Await(m, "handler", Handlers[m]) /\ UNCHANGED <<got, reply>>
  BY <1>1, <1>3, <1>4, <1>5, AwaitIsRight
<1>6. CASE Change(m, value'[m])
  BY <1>1, <1>3, <1>4, <1>6, ChangeIsRight
<1> QED
  BY <1>5, <1>6 DEF Arrive

LEMMA RunHandlerIsRight ==
    ASSUME IInv, NEW m \in Messages, RunHandler(m)
    PROVE  IInv'
<1>1. PICK outcome \in {"null", "value", "cancel"} :
        /\ Handled(m, outcome)
        /\ cancelled' = IF outcome = "cancel" THEN cancelled \cup {m} ELSE cancelled
  BY DEF RunHandler
<1>2. stage[m] = "handler" /\ UNCHANGED value
  BY DEF RunHandler
<1>3. /\ value[m] \in Value /\ value[m].form = Given(m) /\ got[m] = "nothing"
      /\ m \notin cancelled /\ value' \in [Messages -> Value]
  BY <1>2 DEF IInv, Types, Right
<1>4. CASE outcome = "cancel"
  <2> DEFINE with == IF m \in Calls THEN Return([is |-> "code", form |-> "client"]) ELSE NullOf(m)
  <2>1. /\ with \in Reply
        /\ m \in Requests => with.value.form = "client"
        /\ m \in Calls => Unconverted(with)
    BY Replies, KindAssumption DEF Return, Reply, Value, Forms, Unconverted
  <2>2. Over(m, with) /\ UNCHANGED got
    BY <1>1, <1>4 DEF Handled, Ends
  <2> HIDE DEF with
  <2> QED
    BY <1>1, <1>2, <1>3, <1>4, <2>1, <2>2, OverIsRight
<1>5. CASE outcome # "cancel"
  <2>1. UNCHANGED cancelled
    BY <1>1, <1>5
  <2>2. CASE NextLevel(m)
    BY <1>2, <2>1, <2>2, NextLevelIsRight
  <2>3. CASE Change(m, value[m])
    BY <1>2, <1>3, <2>1, <2>3, ChangeIsRight
  <2>4. CASE Over(m, Return([value[m] EXCEPT !.is = "result"])) /\ UNCHANGED got
    <3> DEFINE with == Return([value[m] EXCEPT !.is = "result"])
    <3>1. /\ with \in Reply
          /\ m \in Requests => with.value.form = "client"
          /\ m \in Calls => Unconverted(with)
      BY <1>3, KindAssumption DEF Return, Reply, Value, Given, Unconverted
    <3> HIDE DEF with
    <3>2. Over(m, with)
      BY <2>4 DEF with
    <3> QED
      BY <1>2, <1>3, <2>1, <2>4, <3>1, <3>2, OverIsRight
  <2> QED
    BY <1>1, <1>5, <2>2, <2>3, <2>4 DEF Handled
<1> QED
  BY <1>4, <1>5

LEMMA RunMiddlewareIsRight ==
    ASSUME IInv, NEW m \in Messages, RunMiddleware(m)
    PROVE  IInv'
<1>1. stage[m] = "middleware" /\ UNCHANGED value
  BY DEF RunMiddleware
<1>2. /\ value[m] \in Value /\ value[m].form = Given(m) /\ got[m] = "nothing"
      /\ m \notin cancelled /\ value' \in [Messages -> Value]
  BY <1>1 DEF IInv, Types, Right
<1>3. CASE cancelled' = cancelled \cup {m} /\ Over(m, NullOf(m)) /\ UNCHANGED got
  BY <1>1, <1>2, <1>3, Replies, OverIsRight
<1>4. CASE UNCHANGED cancelled /\ NextLevel(m)
  BY <1>1, <1>4, NextLevelIsRight
<1>5. CASE UNCHANGED cancelled /\ Forward(m, value[m])
  BY <1>1, <1>2, <1>5, ForwardIsRight
<1> QED
  BY <1>3, <1>4, <1>5 DEF RunMiddleware, Ends

LEMMA RunResultMiddlewareIsRight ==
    ASSUME IInv, NEW r \in Requests, RunResultMiddleware(r)
    PROVE  IInv'
<1> DEFINE v == ResultGiven(r)
<1>1. r \in Messages /\ stage[r] = "result" /\ UNCHANGED <<value, got>>
  BY DEF RunResultMiddleware, Messages
<1>2. /\ value[r] \in Value /\ value[r].form = "client" /\ r \notin cancelled
      /\ value' \in [Messages -> Value]
  BY <1>1 DEF IInv, Types, Right
<1>3. Return(v) \in Reply /\ Return(v).value.form = "client"
  BY <1>2 DEF ResultGiven, Params, Return, Reply, Value, Forms
<1> HIDE DEF v
<1>4. CASE cancelled' = cancelled \cup {r} /\ Over(r, NullOf(r))
  BY <1>1, <1>2, <1>4, Replies, OverIsRight
<1>5. CASE UNCHANGED cancelled /\ Over(r, Error)
  BY <1>1, <1>2, <1>5, Replies, OverIsRight
<1>6. CASE UNCHANGED cancelled /\ NextLevel(r)
  BY <1>1, <1>6, NextLevelIsRight
<1>7. CASE UNCHANGED cancelled /\ Over(r, Return(v))
  BY <1>1, <1>2, <1>3, <1>7, OverIsRight DEF Unconverted
<1> QED
  BY <1>4, <1>5, <1>6, <1>7 DEF RunResultMiddleware, v

LEMMA AnswerIsRight ==
    ASSUME IInv, NEW r \in Requests, Answer(r)
    PROVE  IInv'
<1>1. /\ r \in Messages /\ r \in Asking /\ stage[r] \in {"sent", "answered"}
      /\ UNCHANGED <<got, cancelled>>
  BY DEF Answer, Messages, Asking
<1>2. r \notin cancelled
  BY <1>1 DEF IInv, Right
<1>3. CASE Over(r, Error) /\ UNCHANGED value
  BY <1>1, <1>2, <1>3, Replies, OverIsRight DEF IInv, Types
<1>4. CASE \E is \in {"result", "null"} :
             /\ value' = [value EXCEPT ![r] = [is |-> is, form |-> FromProcUri("proc")]]
             /\ \/ Await(r, "result", ResultMiddlewares[r]) /\ UNCHANGED reply
                \/ Over(r, Return(value'[r]))
  <2>1. /\ value' \in [Messages -> Value] /\ value'[r].form = "client" /\ value'[r] \in Value
        /\ \A n \in Messages \ {r} : value'[n] = value[n]
    BY <1>1, <1>4 DEF IInv, Types, Value, Forms, FromProcUri
  <2>2. CASE Over(r, Return(value'[r]))
    <3>1. Return(value'[r]) \in Reply /\ Return(value'[r]).value.form = "client"
      BY <2>1 DEF Return, Reply
    <3> QED
      BY <1>1, <1>2, <2>1, <2>2, <3>1, OverIsRight DEF Unconverted
  <2>3. CASE Await(r, "result", ResultMiddlewares[r]) /\ UNCHANGED reply
    <3>1. /\ Types' /\ stage'[r] = "result"
          /\ \A n \in Messages \ {r} : stage'[n] = stage[n]
      BY <1>1, <2>1, <2>3 DEF IInv, Types, Await, Stages
    <3>2. Right(r)'
      BY <1>1, <1>2, <2>1, <2>3, <3>1 DEF IInv, Right
    <3> QED
      BY <1>1, <2>1, <2>3, <3>1, <3>2, OneMessage
  <2> QED
    BY <1>4, <2>2, <2>3
<1> QED
  BY <1>3, <1>4 DEF Answer

LEMMA ClientAnswerIsRight ==
    ASSUME IInv, NEW c \in Calls, ClientAnswer(c)
    PROVE  IInv'
<1>1. /\ c \in Messages /\ c \in Asking /\ stage[c] = "sent" /\ UNCHANGED <<got, cancelled>>
      /\ value' = [value EXCEPT ![c] = [is |-> "result", form |-> "client"]]
      /\ Over(c, Return(value'[c]))
  BY DEF ClientAnswer, Messages, Asking
<1>2. /\ value' \in [Messages -> Value] /\ value'[c] \in Value /\ value'[c].form = "client"
      /\ \A n \in Messages \ {c} : value'[n] = value[n]
      /\ c \notin cancelled
  BY <1>1 DEF IInv, Types, Right, Value, Forms
<1>3. Return(value'[c]) \in Reply /\ Return(value'[c]).value.form = "client"
  BY <1>2 DEF Return, Reply
<1> QED
  BY <1>1, <1>2, <1>3, OverIsRight DEF Unconverted

\* The requests at the process are answered or lost: that changes no message.
LEMMA ProcExitIsRight ==
    ASSUME IInv, ProcExit
    PROVE  IInv'
<1>1. UNCHANGED <<value, got, reply, cancelled>>
  BY DEF ProcExit
<1>2. PICK lost \in SUBSET {r \in Requests : stage[r] = "sent"} :
        stage' = [m \in Messages |->
                    CASE m \in lost -> "lost"
                      [] m \in Requests \ lost /\ stage[m] = "sent" -> "answered"
                      [] OTHER -> stage[m]]
  BY DEF ProcExit
<1>3. Types'
  BY <1>1, <1>2 DEF IInv, Types, Stages
<1>4. ASSUME NEW m \in Messages
      PROVE  Right(m)'
  <2>1. Right(m) /\ (stage'[m] = stage[m] \/ (stage[m] = "sent" /\ stage'[m] \in {"lost", "answered"}))
    BY <1>2 DEF IInv
  <2> QED
    BY <1>1, <2>1 DEF Right
<1> QED
  BY <1>3, <1>4 DEF IInv

LEMMA StepIsRight == IInv /\ [Next]_vars => IInv'
<1> SUFFICES ASSUME IInv, [Next]_vars PROVE IInv'
  OBVIOUS
<1>1. CASE Spawn \/ Spawned \/ UNCHANGED vars
  <2>1. UNCHANGED <<stage, value, got, reply, cancelled>>
    BY <1>1 DEF Spawn, Spawned, vars
  <2> QED
    BY <2>1 DEF IInv, Types, Right
<1>2. CASE ProcExit
  BY <1>2, ProcExitIsRight
<1>3. CASE \E m \in Messages : Arrive(m) \/ RunHandler(m) \/ RunMiddleware(m)
  BY <1>3, ArriveIsRight, RunHandlerIsRight, RunMiddlewareIsRight
<1>4. CASE \E r \in Requests : RunResultMiddleware(r) \/ Answer(r)
  BY <1>4, RunResultMiddlewareIsRight, AnswerIsRight
<1>5. CASE \E c \in Calls : ClientAnswer(c)
  BY <1>5, ClientAnswerIsRight
<1> QED
  BY <1>1, <1>2, <1>3, <1>4, <1>5 DEF Next

-----------------------------------------------------------------------------
(* Theorems *)

\* IInv is an invariant.
LEMMA Invariance == Spec => []IInv
BY InitIsRight, StepIsRight, PTL DEF Spec

\* Whatever callbacks there are, each side gets the requests and notifications
\* of the other in its own format, and the client the results of its requests,
\* converted once (LSProxy.ts:272, 312, 349, 441, 459). The results of the language
\* server's own requests stay in the client's format (326, 338).
THEOREM MessagesAreConverted == Spec => []PassedOnConverted
<1>1. IInv => PassedOnConverted
  BY Kinds DEF IInv, Right, Unconverted, PassedOnConverted, FromClient, Messages
<1> QED
  BY <1>1, Invariance, PTL

\* A message one of whose callbacks returned cancel_response is over, and has
\* been passed on only if it is a request whose result was cancelled
\* (types.ts:11-13; LSProxy.ts:497-675).
THEOREM CancelledIsFinal == Spec => []CancelIsFinal
<1>1. IInv => CancelIsFinal
  BY DEF IInv, Types, Right, CancelIsFinal
<1> QED
  BY <1>1, Invariance, PTL
=============================================================================
