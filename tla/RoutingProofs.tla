--------------------------- MODULE RoutingProofs ---------------------------
(***************************************************************************)
(* Theorems about Routing, for any number of connections, ids, UUIDs and   *)
(* pushes.  A request is in one place at a time on its way to the language *)
(* server, and an answer is of the request that the maps have under its    *)
(* id, if any has it still: so that answers reach their askers, once.      *)
(***************************************************************************)
EXTENDS Routing, SequenceTheorems, TLAPS

\* What messages between the inbound and the outbound middleware say of maps:
\* under a UUID, that whoever has an entry for it asked the request.
Owned(m) ==
    /\ m.of \in asked
    /\ IsString(m.id)
    /\ m.id \in Uuids =>
          /\ m.id \in used
          /\ \A d \in Conns : idMap[d][m.id] # NoId => m.of = <<d, idMap[d][m.id]>>

\* A message of the language server: a response is of a request that it has answered.
Written(m) ==
    /\ m.kind \in {"response", "notification", "call"}
    /\ m.kind = "response" => Owned(m) /\ m.of \in made
    /\ m.kind = "call" => <<m.of, m.id>> \in pushed
    /\ m.kind # "response" => m.of \in Pushes

\* A request in an inbox is nowhere else, and has no entry and no answer yet.
Waiting(c, m) ==
    /\ m.id \in Ids
    /\ m.of = <<c, m.id>>
    /\ m.of \in asked \ made
    /\ \A j \in DOMAIN stdin : stdin[j].kind = "request" => stdin[j].of # m.of
    /\ \A n \in pending : n.of # m.of
    /\ \A u \in Uuids : idMap[c][u] # m.id
    /\ \A j \in DOMAIN answers[c] : answers[c][j].id # m.id

Replied(m) == <<m.of, m.id>> \in pushed

InboxInv ==
    \A c \in Conns : \A k \in DOMAIN inbox[c] :
        /\ inbox[c][k].kind \in {"request", "reply"}
        /\ inbox[c][k].kind = "reply" => Replied(inbox[c][k])
        /\ inbox[c][k].kind = "request" =>
              /\ Waiting(c, inbox[c][k])
              /\ \A j \in DOMAIN inbox[c] :
                    inbox[c][j].kind = "request" /\ inbox[c][j].of = inbox[c][k].of => j = k

StdinInv ==
    \A k \in DOMAIN stdin :
        /\ stdin[k].kind \in {"request", "reply"}
        /\ stdin[k].kind = "reply" => Replied(stdin[k])
        /\ stdin[k].kind = "request" =>
              /\ Owned(stdin[k]) /\ stdin[k].of \notin made
              /\ \A m \in pending : m.of # stdin[k].of
              /\ \A j \in DOMAIN stdin :
                    stdin[j].kind = "request" /\ stdin[j].of = stdin[k].of => j = k

PendingInv ==
    \A m \in pending : /\ m.kind = "request" /\ Owned(m) /\ m.of \notin made
                       /\ \A n \in pending : n.of = m.of => n = m

OutputInv ==
    /\ unwritten # NoMessage => Written(unwritten)
    /\ \A c \in Conns : \A k \in DOMAIN consumer[c] : Written(consumer[c][k].message)

\* An entry stands for a request that has no answer yet, and for no other.
MapInv ==
    \A c \in Conns, u \in Uuids : idMap[c][u] # NoId =>
        /\ u \in used
        /\ <<c, idMap[c][u]>> \in asked
        /\ \A v \in Uuids : idMap[c][v] = idMap[c][u] => v = u
        /\ \A k \in DOMAIN answers[c] : answers[c][k].id # idMap[c][u]

AnswersInv ==
    /\ made \subseteq asked
    /\ \A c \in Conns : \A k \in DOMAIN answers[c] : <<c, answers[c][k].id>> \in asked

IInv == /\ TypeOK
        /\ InboxInv /\ StdinInv /\ PendingInv /\ OutputInv /\ MapInv /\ AnswersInv

\* A step of what is promised, or none.
Promised == [Reply!Next]_Reply!vars

-----------------------------------------------------------------------------
(* Sequences *)

LEMMA TailOf ==
    ASSUME NEW S, NEW s \in Seq(S), s # << >>
    PROVE  /\ Tail(s) \in Seq(S)
           /\ 1 \in DOMAIN s /\ Head(s) = s[1] /\ Head(s) \in S
           /\ \A k \in DOMAIN Tail(s) : k \in Nat /\ k + 1 \in DOMAIN s /\ k + 1 # 1
                                        /\ Tail(s)[k] = s[k + 1]
<1>1. Len(s) \in Nat \ {0} /\ DOMAIN s = 1 .. Len(s)
  BY EmptySeq, LenProperties
<1>2. /\ Tail(s) \in Seq(S) /\ Len(Tail(s)) = Len(s) - 1 /\ Head(s) \in S
      /\ \A k \in 1 .. Len(Tail(s)) : Tail(s)[k] = s[k + 1]
  BY HeadTailProperties
<1>3. DOMAIN Tail(s) = 1 .. Len(Tail(s))
  BY <1>2, LenProperties
<1> QED
  BY <1>1, <1>2, <1>3

LEMMA AppendOf ==
    ASSUME NEW S, NEW s \in Seq(S), NEW e \in S
    PROVE  /\ Append(s, e) \in Seq(S)
           /\ Len(s) \in Nat
           /\ DOMAIN Append(s, e) = 1 .. Len(s) + 1 /\ DOMAIN s = 1 .. Len(s)
           /\ \A k \in DOMAIN s : k \in DOMAIN Append(s, e) /\ Append(s, e)[k] = s[k]
           /\ Append(s, e)[Len(s) + 1] = e
           /\ \A k \in DOMAIN Append(s, e) :
                \/ k \in DOMAIN s /\ Append(s, e)[k] = s[k] /\ k # Len(s) + 1
                \/ k = Len(s) + 1 /\ Append(s, e)[k] = e
<1>1. Len(s) \in Nat /\ DOMAIN s = 1 .. Len(s)
  BY LenProperties
<1>2. /\ Append(s, e) \in Seq(S) /\ Len(Append(s, e)) = Len(s) + 1
      /\ \A k \in 1 .. Len(s) : Append(s, e)[k] = s[k]
      /\ Append(s, e)[Len(s) + 1] = e
  BY AppendProperties
<1>3. DOMAIN Append(s, e) = 1 .. Len(s) + 1
  BY <1>2, LenProperties
<1> QED
  BY <1>1, <1>2, <1>3

LEMMA PrefixOf ==
    ASSUME NEW S, NEW s \in Seq(S), NEW n \in 0 .. Len(s)
    PROVE  /\ SubSeq(s, 1, n) \in Seq(S)
           /\ \A k \in DOMAIN SubSeq(s, 1, n) : k \in DOMAIN s /\ SubSeq(s, 1, n)[k] = s[k]
<1>1. Len(s) \in Nat /\ DOMAIN s = 1 .. Len(s)
  BY LenProperties
<1>2. \A i \in 1 .. n : s[i] \in S
  BY <1>1, ElementOfSeq
<1>3. /\ SubSeq(s, 1, n) \in Seq(S)
      /\ Len(SubSeq(s, 1, n)) = IF 1 <= n THEN n - 1 + 1 ELSE 0
      /\ \A i \in 1 .. n - 1 + 1 : SubSeq(s, 1, n)[i] = s[1 + i - 1]
  BY <1>1, <1>2, SubSeqProperties
<1> QED
  BY <1>1, <1>3, LenProperties

-----------------------------------------------------------------------------
(* What most steps keep *)

\* Maps lose entries, and get them under UUIDs that are new.
LEMMA OwnedKept ==
    ASSUME asked \subseteq asked', used \subseteq used',
           \A d \in Conns, u \in used : idMap'[d][u] \in {idMap[d][u], NoId}
    PROVE  \A m : Owned(m) => Owned(m)'
BY DEF Owned

LEMMA WrittenKept ==
    ASSUME asked \subseteq asked', used \subseteq used', made \subseteq made', pushed \subseteq pushed',
           \A d \in Conns, u \in used : idMap'[d][u] \in {idMap[d][u], NoId}
    PROVE  \A m : Written(m) => Written(m)'
BY OwnedKept DEF Written

-----------------------------------------------------------------------------
LEMMA InitIsRight == Init => IInv /\ Reply!Init
<1> SUFFICES ASSUME Init PROVE IInv /\ Reply!Init
  OBVIOUS
<1>1. TypeOK
  BY EmptySeq DEF Init, TypeOK
<1>2. InboxInv /\ StdinInv /\ PendingInv /\ OutputInv /\ MapInv /\ AnswersInv
  BY DEF Init, InboxInv, StdinInv, PendingInv, OutputInv, MapInv, AnswersInv
<1> QED
  BY <1>1, <1>2 DEF IInv, Init, Reply!Init

LEMMA JoinIsRight ==
    ASSUME IInv, NEW c \in Conns, Join(c) PROVE IInv' /\ Promised
<1>1. UNCHANGED <<idMap, used, asked, inbox, stdin, pending, made, pushed, unwritten,
                  consumer, framer, answers, heard>>
  BY DEF Join, serverVars, gotVars
<1>2. TypeOK'
  BY <1>1 DEF IInv, TypeOK, Join
<1>3. InboxInv' /\ StdinInv' /\ PendingInv' /\ OutputInv' /\ MapInv' /\ AnswersInv'
  <2>1. InboxInv' /\ MapInv'
    BY <1>1, SMTT(30) DEF IInv, InboxInv, MapInv, Waiting, Replied
  <2>2. StdinInv' /\ PendingInv'
    BY <1>1, SMTT(30) DEF IInv, StdinInv, PendingInv, Waiting, Owned, Written, Replied
  <2>3. OutputInv' /\ AnswersInv'
    <3>1. OutputInv'
      BY <1>1, SMTT(30) DEF IInv, OutputInv, Written, Owned
    <3>2. AnswersInv'
      BY <1>1 DEF IInv, AnswersInv
    <3> QED
      BY <3>1, <3>2
  <2> QED
    BY <2>1, <2>2, <2>3
<1> QED
  BY <1>1, <1>2, <1>3 DEF IInv, Promised, Reply!vars

LEMMA AskIsRight ==
    ASSUME IInv, NEW c \in Conns, NEW i \in Ids, Ask(c, i) PROVE IInv' /\ Promised
<1> DEFINE r == <<c, i>>
           q == [kind |-> "request", id |-> i, of |-> r]
<1>1. /\ UNCHANGED <<socket, late, idMap, used, stdin, pending, made, pushed, unwritten,
                     consumer, framer, answers, heard>>
      /\ r \in Requests \ asked /\ asked' = asked \cup {r}
      /\ inbox' = [inbox EXCEPT ![c] = Append(@, q)]
  BY DEF Ask, serverVars, gotVars, socketVars, Requests
<1>2. q \in Message /\ inbox[c] \in Seq(Message)
  BY <1>1 DEF IInv, TypeOK, Message, WireIds
<1>3. TypeOK'
  <2>1. inbox' \in [Conns -> Seq(Message)]
    BY <1>1, <1>2, AppendOf DEF IInv, TypeOK
  <2> QED
    BY <1>1, <2>1 DEF IInv, TypeOK
<1>4. \A m : (Owned(m) => Owned(m)') /\ (Written(m) => Written(m)')
  BY <1>1, OwnedKept, WrittenKept DEF IInv, TypeOK
<1>5. StdinInv' /\ PendingInv' /\ OutputInv' /\ MapInv' /\ AnswersInv'
  <2>1. StdinInv'
    BY <1>1, <1>4 DEF IInv, StdinInv, Replied
  <2>2. PendingInv'
    BY <1>1, <1>4 DEF IInv, PendingInv
  <2>3. OutputInv'
    BY <1>1, <1>4 DEF IInv, OutputInv
  <2>4. MapInv' /\ AnswersInv'
    BY <1>1 DEF IInv, MapInv, AnswersInv
  <2> QED
    BY <2>1, <2>2, <2>3, <2>4
<1>6. \A d \in Conns : \A m : Waiting(d, m) => Waiting(d, m)' /\ m.of # r
  BY <1>1 DEF Waiting
<1>7. Waiting(c, q)'
  <2>1. q.id = i /\ q.of = r /\ r \notin made
    BY <1>1 DEF IInv, AnswersInv
  <2>2. \A j \in DOMAIN stdin : stdin[j].kind = "request" => stdin[j].of # r
    BY <1>1 DEF IInv, StdinInv, Owned
  <2>3. \A n \in pending : n.of # r
    BY <1>1 DEF IInv, PendingInv, Owned
  <2>4. \A u \in Uuids : idMap[c][u] # i
    BY <1>1, IdAssumption DEF IInv, MapInv, Ids
  <2>5. \A j \in DOMAIN answers[c] : answers[c][j].id # i
    BY <1>1 DEF IInv, AnswersInv
  <2> QED
    BY <1>1, <2>1, <2>2, <2>3, <2>4, <2>5 DEF Waiting
<1>8. InboxInv'
  <2> SUFFICES ASSUME NEW d \in Conns, NEW k \in DOMAIN inbox'[d]
               PROVE  /\ inbox'[d][k].kind \in {"request", "reply"}
                      /\ inbox'[d][k].kind = "reply" => <<inbox'[d][k].of, inbox'[d][k].id>> \in pushed'
                      /\ inbox'[d][k].kind = "request" =>
                            /\ Waiting(d, inbox[d][k])'
                            /\ \A j \in DOMAIN inbox'[d] :
                                  inbox'[d][j].kind = "request" /\ inbox'[d][j].of = inbox'[d][k].of => j = k
    BY DEF InboxInv, Replied
  <2>1. CASE d # c
    BY <1>1, <1>6, <2>1 DEF IInv, InboxInv, Replied, TypeOK
  <2>2. CASE d = c
    <3>1. inbox'[c] = Append(inbox[c], q)
      BY <1>1 DEF IInv, TypeOK
    <3>2. \A j \in DOMAIN inbox'[c] :
            \/ j \in DOMAIN inbox[c] /\ inbox'[c][j] = inbox[c][j] /\ j # Len(inbox[c]) + 1
            \/ j = Len(inbox[c]) + 1 /\ inbox'[c][j] = q
      BY <1>2, <3>1, AppendOf
    <3>3. CASE k \in DOMAIN inbox[c] /\ inbox'[c][k] = inbox[c][k]
      BY <1>1, <1>6, <2>2, <3>2, <3>3, SMTT(30) DEF IInv, InboxInv, Replied
    <3>4. CASE k = Len(inbox[c]) + 1 /\ inbox'[c][k] = q
      BY <1>1, <1>6, <1>7, <2>2, <3>2, <3>4 DEF IInv, InboxInv
    <3> QED
      BY <2>2, <3>2, <3>3, <3>4
  <2> QED
    BY <2>1, <2>2
<1>9. Reply!Ask(r)
  BY <1>1 DEF Reply!Ask, Reply!Requests, Requests
<1> QED
  BY <1>1, <1>3, <1>5, <1>8, <1>9 DEF IInv, Promised, Reply!Next, Reply!Requests, Requests

\* A step that changes nothing but sockets, consumers and inboxes, of which it keeps parts.
LEMMA CloseIsRight ==
    ASSUME IInv, NEW c \in Conns, Close(c) PROVE IInv' /\ Promised
<1>1. /\ UNCHANGED <<late, idMap, used, asked, stdin, pending, made, pushed, unwritten,
                     framer, answers, heard>>
      /\ socket' = [socket EXCEPT ![c] = "closed"]
      /\ consumer' = [consumer EXCEPT ![c] = << >>]
  BY DEF Close, serverVars, gotVars
<1>2. PICK n \in 0 .. Len(inbox[c]) : inbox' = [inbox EXCEPT ![c] = SubSeq(@, 1, n)]
  BY DEF Close
<1>3. /\ inbox[c] \in Seq(Message) /\ inbox'[c] = SubSeq(inbox[c], 1, n)
      /\ \A d \in Conns : d # c => inbox'[d] = inbox[d]
  BY <1>2 DEF IInv, TypeOK
<1>4. /\ inbox'[c] \in Seq(Message)
      /\ \A k \in DOMAIN inbox'[c] : k \in DOMAIN inbox[c] /\ inbox'[c][k] = inbox[c][k]
  BY <1>3, PrefixOf
<1>5. TypeOK'
  <2>1. inbox' \in [Conns -> Seq(Message)]
    BY <1>2, <1>3, <1>4 DEF IInv, TypeOK
  <2>2. consumer' \in [Conns -> Seq(Chunk)]
    BY <1>1, EmptySeq DEF IInv, TypeOK
  <2> QED
    BY <1>1, <2>1, <2>2 DEF IInv, TypeOK
<1>6. \A m : (Owned(m) => Owned(m)') /\ (Written(m) => Written(m)')
  BY <1>1 DEF Written, Owned
<1>7. \A d \in Conns : \A m : Waiting(d, m) => Waiting(d, m)'
  BY <1>1 DEF Waiting
<1>8. StdinInv' /\ PendingInv' /\ MapInv' /\ AnswersInv'
  <2>1. StdinInv'
    BY <1>1, <1>6 DEF IInv, StdinInv, Replied
  <2>2. PendingInv'
    BY <1>1, <1>6 DEF IInv, PendingInv
  <2>3. MapInv' /\ AnswersInv'
    BY <1>1 DEF IInv, MapInv, AnswersInv
  <2> QED
    BY <2>1, <2>2, <2>3
<1>9. InboxInv'
  <2> SUFFICES ASSUME NEW d \in Conns, NEW k \in DOMAIN inbox'[d]
               PROVE  /\ inbox'[d][k].kind \in {"request", "reply"}
                      /\ inbox'[d][k].kind = "reply" => <<inbox'[d][k].of, inbox'[d][k].id>> \in pushed'
                      /\ inbox'[d][k].kind = "request" =>
                            /\ Waiting(d, inbox[d][k])'
                            /\ \A j \in DOMAIN inbox'[d] :
                                  inbox'[d][j].kind = "request" /\ inbox'[d][j].of = inbox'[d][k].of => j = k
    BY DEF InboxInv, Replied
  <2>1. \A j \in DOMAIN inbox'[d] : j \in DOMAIN inbox[d] /\ inbox'[d][j] = inbox[d][j]
    BY <1>3, <1>4
  <2> QED
    BY <1>1, <1>7, <2>1 DEF IInv, InboxInv, Replied
<1>10. OutputInv'
  <2>1. \A d \in Conns : consumer'[d] = consumer[d] \/ consumer'[d] = << >>
    BY <1>1 DEF IInv, TypeOK
  <2> QED
    BY <1>1, <1>6, <2>1 DEF IInv, OutputInv
<1> QED
  BY <1>1, <1>5, <1>8, <1>9, <1>10 DEF IInv, Promised, Reply!vars

-----------------------------------------------------------------------------
(* The inbound middleware and the language server *)

\* What is left of an inbox when its first message is gone.
LEMMA InboxTail ==
    ASSUME IInv, NEW c \in Conns, inbox[c] # << >>, inbox' = [inbox EXCEPT ![c] = Tail(@)]
    PROVE  /\ inbox' \in [Conns -> Seq(Message)]
           /\ 1 \in DOMAIN inbox[c] /\ Head(inbox[c]) = inbox[c][1] /\ inbox[c][1] \in Message
           /\ \A d \in Conns : d # c => inbox'[d] = inbox[d]
           /\ \A k \in DOMAIN inbox'[c] :
                 k \in Nat /\ k + 1 \in DOMAIN inbox[c] /\ k + 1 # 1 /\ inbox'[c][k] = inbox[c][k + 1]
<1>1. inbox[c] \in Seq(Message) /\ inbox'[c] = Tail(inbox[c])
  BY DEF IInv, TypeOK
<1>2. inbox' \in [Conns -> Seq(Message)]
  BY <1>1, TailOf DEF IInv, TypeOK
<1> QED
  BY <1>1, <1>2, TailOf DEF IInv, TypeOK

\* InboxInv of what is left, if it still waits.
LEMMA InboxTailIsRight ==
    ASSUME IInv, NEW c \in Conns, inbox[c] # << >>, inbox' = [inbox EXCEPT ![c] = Tail(@)],
           UNCHANGED pushed,
           \A d \in Conns : \A k, m :
                /\ k \in DOMAIN inbox[d] /\ m = inbox[d][k] /\ m.kind = "request"
                /\ ~(d = c /\ k = 1)
                => Waiting(d, m)'
    PROVE  InboxInv'
<1> SUFFICES ASSUME NEW d \in Conns, NEW k \in DOMAIN inbox'[d]
             PROVE  /\ inbox'[d][k].kind \in {"request", "reply"}
                    /\ inbox'[d][k].kind = "reply" => <<inbox'[d][k].of, inbox'[d][k].id>> \in pushed'
                    /\ inbox'[d][k].kind = "request" =>
                          /\ Waiting(d, inbox[d][k])'
                          /\ \A j \in DOMAIN inbox'[d] :
                                inbox'[d][j].kind = "request" /\ inbox'[d][j].of = inbox'[d][k].of => j = k
  BY DEF InboxInv, Replied
<1>1. CASE d # c
  BY <1>1, InboxTail DEF IInv, InboxInv, Replied
<1>2. CASE d = c
  <2>1. \A j \in DOMAIN inbox'[c] : 
          j \in Nat /\ j + 1 \in DOMAIN inbox[c] /\ j + 1 # 1 /\ inbox'[c][j] = inbox[c][j + 1]
    BY InboxTail
  <2>2. k + 1 \in DOMAIN inbox[c] /\ k + 1 # 1 /\ inbox'[c][k] = inbox[c][k + 1]
    BY <1>2, <2>1
  <2>3. ASSUME inbox'[c][k].kind = "request" PROVE Waiting(c, inbox[c][k])'
    BY <2>2, <2>3
  <2>4. ASSUME NEW j \in DOMAIN inbox'[c], inbox'[c][k].kind = "request",
               inbox'[c][j].kind = "request", inbox'[c][j].of = inbox'[c][k].of
        PROVE  j = k
    <3>1. j + 1 = k + 1
      BY <2>1, <2>2, <2>4, ZenonT(60) DEF IInv, InboxInv
    <3> QED
      BY <1>2, <2>1, <3>1
  <2> QED
    BY <1>2, <2>2, <2>3, <2>4 DEF IInv, InboxInv, Replied
<1> QED
  BY <1>1, <1>2

\* A message that the language server is given.
LEMMA StdinAppend ==
    ASSUME IInv, NEW q \in Message, stdin' = Append(stdin, q),
           UNCHANGED <<pending, made, pushed>>,
           \A m : Owned(m) => Owned(m)',
           q.kind \in {"request", "reply"},
           q.kind = "reply" => Replied(q),
           q.kind = "request" =>
               /\ Owned(q)' /\ q.of \notin made
               /\ \A n \in pending : n.of # q.of
               /\ \A j \in DOMAIN stdin : stdin[j].kind = "request" => stdin[j].of # q.of
    PROVE  /\ StdinInv'
           /\ stdin' \in Seq(Message)
           /\ \A j \in DOMAIN stdin' :
                 stdin'[j] = q \/ (j \in DOMAIN stdin /\ stdin'[j] = stdin[j])
<1>1. /\ stdin' \in Seq(Message)
      /\ \A j \in DOMAIN stdin' :
            \/ j \in DOMAIN stdin /\ stdin'[j] = stdin[j] /\ j # Len(stdin) + 1
            \/ j = Len(stdin) + 1 /\ stdin'[j] = q
  BY AppendOf DEF IInv, TypeOK
<1>2. StdinInv'
  <2> SUFFICES ASSUME NEW k \in DOMAIN stdin'
               PROVE  /\ stdin'[k].kind \in {"request", "reply"}
                      /\ stdin'[k].kind = "reply" => <<stdin'[k].of, stdin'[k].id>> \in pushed
                      /\ stdin'[k].kind = "request" =>
                            /\ Owned(stdin[k])' /\ stdin'[k].of \notin made
                            /\ \A m \in pending : m.of # stdin'[k].of
                            /\ \A j \in DOMAIN stdin' :
                                  stdin'[j].kind = "request" /\ stdin'[j].of = stdin'[k].of => j = k
    BY DEF StdinInv, Replied
  <2>1. CASE k \in DOMAIN stdin /\ stdin'[k] = stdin[k] /\ k # Len(stdin) + 1
    BY <1>1, <2>1 DEF IInv, StdinInv, Replied
  <2>2. CASE k = Len(stdin) + 1 /\ stdin'[k] = q
    BY <1>1, <2>2 DEF Replied
  <2> QED
    BY <1>1, <2>1, <2>2
<1> QED
  BY <1>1, <1>2

LEMMA InboundIsRight ==
    ASSUME IInv, NEW c \in Conns, Inbound(c) PROVE IInv' /\ Promised
<1>0. PICK h : h = inbox[c][1]
  OBVIOUS
<1>1. /\ UNCHANGED <<socket, late, asked, pending, made, pushed, unwritten, consumer, framer,
                     answers, heard>>
      /\ inbox[c] # << >> /\ inbox' = [inbox EXCEPT ![c] = Tail(@)]
  BY DEF Inbound, socketVars, gotVars
<1>2. /\ inbox' \in [Conns -> Seq(Message)]
      /\ 1 \in DOMAIN inbox[c] /\ Head(inbox[c]) = h /\ h \in Message
  BY <1>0, <1>1, InboxTail
<1>3. /\ h.kind \in {"request", "reply"}
      /\ h.kind = "reply" => Replied(h)
      /\ h.kind = "request" => Waiting(c, h)
  BY <1>0, <1>2 DEF IInv, InboxInv
<1>4. ASSUME NEW d \in Conns, NEW k \in DOMAIN inbox[d], NEW m, m = inbox[d][k],
             m.kind = "request", h.kind = "request", ~(d = c /\ k = 1)
      PROVE  /\ Waiting(d, m) /\ h.of # m.of /\ (d = c => h.id # m.id)
  <2>1. Waiting(d, m) /\ Waiting(c, h)
    BY <1>3, <1>4 DEF IInv, InboxInv
  <2>2. CASE d = c
    <3>1. h.of # m.of
      BY <1>0, <1>2, <1>4, <2>2 DEF IInv, InboxInv
    <3> QED
      BY <2>1, <2>2, <3>1 DEF Waiting
  <2>3. CASE d # c
    BY <2>1, <2>3 DEF Waiting
  <2> QED
    BY <2>1, <2>2, <2>3
<1>5. AnswersInv'
  BY <1>1 DEF IInv, AnswersInv
<1>6. ASSUME ~Renames(h), stdin' = Append(stdin, h), UNCHANGED <<idMap, used>>
      PROVE  IInv'
  <2>1. \A m : (Owned(m) => Owned(m)') /\ (Written(m) => Written(m)')
    BY <1>1, <1>6 DEF Written, Owned
  <2>2. h.kind = "request" =>
            /\ Owned(h)' /\ h.of \notin made
            /\ \A n \in pending : n.of # h.of
            /\ \A j \in DOMAIN stdin : stdin[j].kind = "request" => stdin[j].of # h.of
    BY <1>1, <1>3, <1>6, IdAssumption DEF Waiting, Renames, Owned, IsString, Ids
  <2>3. /\ StdinInv' /\ stdin' \in Seq(Message)
        /\ \A j \in DOMAIN stdin' :
              stdin'[j] = h \/ (j \in DOMAIN stdin /\ stdin'[j] = stdin[j])
    BY <1>1, <1>2, <1>3, <1>6, <2>1, <2>2, StdinAppend
  <2>4. ASSUME NEW d \in Conns, NEW k \in DOMAIN inbox[d], NEW m, m = inbox[d][k],
               m.kind = "request", ~(d = c /\ k = 1)
        PROVE  Waiting(d, m)'
    <3>1. Waiting(d, m)
      BY <2>4 DEF IInv, InboxInv
    <3> QED
      BY <1>1, <1>4, <1>6, <2>3, <2>4, <3>1, SMTT(30) DEF Waiting
  <2>5. InboxInv'
    BY <1>1, <2>4, InboxTailIsRight
  <2>6. PendingInv' /\ OutputInv' /\ MapInv'
    <3>1. PendingInv'
      BY <1>1, <2>1 DEF IInv, PendingInv
    <3>2. OutputInv'
      BY <1>1, <2>1 DEF IInv, OutputInv
    <3>3. MapInv'
      BY <1>1, <1>6 DEF IInv, MapInv
    <3> QED
      BY <3>1, <3>2, <3>3
  <2>7. TypeOK'
    BY <1>1, <1>2, <1>6, <2>3 DEF IInv, TypeOK
  <2> QED
    BY <1>5, <2>3, <2>5, <2>6, <2>7 DEF IInv
<1>7. ASSUME NEW u \in Uuids, Renames(h), Uuid(u), used' = used \cup {u},
             idMap' = [idMap EXCEPT ![c][u] = h.id],
             stdin' = Append(stdin, [h EXCEPT !.id = u])
      PROVE  IInv'
  <2> DEFINE q == [h EXCEPT !.id = u]
  <2>1. /\ h.kind = "request" /\ h.id \in NumIds /\ u \notin used
        /\ q \in Message /\ q.kind = "request" /\ q.of = h.of /\ q.id = u
        /\ Waiting(c, h) /\ h.id # NoId
    BY <1>2, <1>3, <1>7, IdAssumption DEF Renames, Uuid, Message, WireIds
  <2>2. /\ \A d \in Conns, v \in Uuids :
              idMap'[d][v] = IF d = c /\ v = u THEN h.id ELSE idMap[d][v]
        /\ idMap' \in [Conns -> [Uuids -> NumIds \cup {NoId}]]
        /\ used \subseteq Uuids /\ used' \subseteq Uuids
    BY <1>7, <2>1 DEF IInv, TypeOK
  <2>3. \A d \in Conns : idMap[d][u] = NoId
    BY <2>1 DEF IInv, MapInv
  <2>4. \A m : (Owned(m) => Owned(m)') /\ (Written(m) => Written(m)')
    <3>1. \A d \in Conns, v \in used : idMap'[d][v] \in {idMap[d][v], NoId}
      BY <2>1, <2>2
    <3> QED
      BY <1>1, <1>7, <3>1, OwnedKept, WrittenKept
  <2>5. Owned(q)'
    <3>1. \A d \in Conns : idMap'[d][u] # NoId => q.of = <<d, idMap'[d][u]>>
      BY <2>1, <2>2, <2>3 DEF Waiting
    <3>2. q.of \in asked' /\ u \in used' /\ IsString(u)
      BY <1>1, <1>7, <2>1 DEF Waiting, IsString
    <3> QED
      BY <2>1, <3>1, <3>2 DEF Owned, IsString
  <2>6. /\ StdinInv' /\ stdin' \in Seq(Message)
        /\ \A j \in DOMAIN stdin' :
              stdin'[j] = q \/ (j \in DOMAIN stdin /\ stdin'[j] = stdin[j])
    <3>1. /\ q.of \notin made /\ \A n \in pending : n.of # q.of
          /\ \A j \in DOMAIN stdin : stdin[j].kind = "request" => stdin[j].of # q.of
      BY <2>1 DEF Waiting
    <3> QED
      BY <1>1, <1>7, <2>1, <2>4, <2>5, <3>1, StdinAppend
  <2>7. ASSUME NEW d \in Conns, NEW k \in DOMAIN inbox[d], NEW m, m = inbox[d][k],
               m.kind = "request", ~(d = c /\ k = 1)
        PROVE  Waiting(d, m)'
    <3>1. /\ Waiting(d, m) /\ h.of # m.of /\ (d = c => h.id # m.id)
      BY <1>4, <2>1, <2>7
    <3> QED
      BY <1>1, <2>1, <2>2, <2>6, <3>1 DEF Waiting
  <2>8. InboxInv'
    BY <1>1, <2>7, InboxTailIsRight
  <2>9. PendingInv'
    BY <1>1, <2>4 DEF IInv, PendingInv
  <2>10. OutputInv'
    BY <1>1, <2>4 DEF IInv, OutputInv
  <2>11. MapInv'
    <3> SUFFICES ASSUME NEW d \in Conns, NEW v \in Uuids, idMap'[d][v] # NoId
                 PROVE  /\ v \in used'
                        /\ <<d, idMap'[d][v]>> \in asked
                        /\ \A w \in Uuids : idMap'[d][w] = idMap'[d][v] => w = v
                        /\ \A k \in DOMAIN answers[d] : answers[d][k].id # idMap'[d][v]
      BY <1>1 DEF MapInv
    <3>1. CASE d = c /\ v = u
      BY <1>7, <2>1, <2>2, <3>1 DEF Waiting
    <3>2. CASE ~(d = c /\ v = u)
      BY <1>7, <2>1, <2>2, <3>2 DEF Waiting, IInv, MapInv
    <3> QED
      BY <3>1, <3>2
  <2>12. TypeOK'
    BY <1>1, <1>2, <2>2, <2>6 DEF IInv, TypeOK
  <2> QED
    BY <1>5, <2>6, <2>8, <2>9, <2>10, <2>11, <2>12 DEF IInv
<1>8. IInv'
  BY <1>2, <1>6, <1>7 DEF Inbound
<1> QED
  BY <1>1, <1>8 DEF Promised, Reply!vars

LEMMA ReadIsRight ==
    ASSUME IInv, Read PROVE IInv' /\ Promised
<1>0. PICK h : h = Head(stdin)
  OBVIOUS
<1>1. /\ UNCHANGED <<socket, late, asked, inbox, idMap, used, made, pushed, unwritten, consumer,
                     framer, answers, heard>>
      /\ stdin # << >> /\ stdin' = Tail(stdin)
      /\ pending' = IF h.kind = "request" THEN pending \cup {h} ELSE pending
  BY <1>0 DEF Read, clientVars, socketVars, gotVars
<1>2. /\ stdin' \in Seq(Message) /\ 1 \in DOMAIN stdin /\ h = stdin[1] /\ h \in Message
      /\ \A k \in DOMAIN stdin' :
            k \in Nat /\ k + 1 \in DOMAIN stdin /\ k + 1 # 1 /\ stdin'[k] = stdin[k + 1]
  BY <1>0, <1>1, TailOf DEF IInv, TypeOK
<1>3. \A m : (Owned(m) => Owned(m)') /\ (Written(m) => Written(m)')
  BY <1>1 DEF Written, Owned
<1>4. h.kind = "request" => Owned(h) /\ h.of \notin made /\ \A n \in pending : n.of # h.of
  BY <1>2 DEF IInv, StdinInv
<1>5. StdinInv'
  <2> SUFFICES ASSUME NEW k \in DOMAIN stdin'
               PROVE  /\ stdin'[k].kind \in {"request", "reply"}
                      /\ stdin'[k].kind = "reply" => <<stdin'[k].of, stdin'[k].id>> \in pushed
                      /\ stdin'[k].kind = "request" =>
                            /\ Owned(stdin[k])' /\ stdin'[k].of \notin made
                            /\ \A m \in pending' : m.of # stdin'[k].of
                            /\ \A j \in DOMAIN stdin' :
                                  stdin'[j].kind = "request" /\ stdin'[j].of = stdin'[k].of => j = k
    BY <1>1 DEF StdinInv, Replied
  <2>1. k \in Nat /\ k + 1 \in DOMAIN stdin /\ k + 1 # 1 /\ stdin'[k] = stdin[k + 1]
    BY <1>2
  <2>2. ASSUME stdin'[k].kind = "request"
        PROVE  /\ Owned(stdin[k])' /\ stdin'[k].of \notin made
               /\ \A m \in pending' : m.of # stdin'[k].of
    <3>1. /\ Owned(stdin[k + 1]) /\ stdin[k + 1].of \notin made
          /\ \A m \in pending : m.of # stdin[k + 1].of
      BY <2>1, <2>2 DEF IInv, StdinInv
    <3>2. h.kind = "request" => h.of # stdin[k + 1].of
      BY <1>2, <2>1, <2>2 DEF IInv, StdinInv
    <3> QED
      BY <1>1, <1>3, <2>1, <3>1, <3>2
  <2>3. ASSUME NEW j \in DOMAIN stdin', stdin'[k].kind = "request",
               stdin'[j].kind = "request", stdin'[j].of = stdin'[k].of
        PROVE  j = k
    <3>1. j \in Nat /\ j + 1 \in DOMAIN stdin /\ stdin'[j] = stdin[j + 1]
      BY <1>2
    <3>2. j + 1 = k + 1
      BY <2>1, <2>3, <3>1 DEF IInv, StdinInv
    <3> QED
      BY <2>1, <3>1, <3>2
  <2>4. /\ stdin'[k].kind \in {"request", "reply"}
        /\ stdin'[k].kind = "reply" => <<stdin'[k].of, stdin'[k].id>> \in pushed
    BY <2>1 DEF IInv, StdinInv, Replied
  <2> QED
    BY <2>2, <2>3, <2>4
<1>6. PendingInv'
  <2>1. \A m \in pending' : m.kind = "request" /\ Owned(m)' /\ m.of \notin made
    BY <1>1, <1>3, <1>4 DEF IInv, PendingInv
  <2>2. \A m, n \in pending' : n.of = m.of => n = m
    BY <1>1, <1>4 DEF IInv, PendingInv
  <2> QED
    BY <1>1, <2>1, <2>2 DEF PendingInv
<1>7. InboxInv'
  <2>1. ASSUME NEW d \in Conns, NEW m, Waiting(d, m) PROVE Waiting(d, m)'
    <3>1. \A j \in DOMAIN stdin' : stdin'[j].kind = "request" => stdin'[j].of # m.of
      BY <1>2, <2>1 DEF Waiting
    <3>2. \A n \in pending' : n.of # m.of
      BY <1>1, <1>2, <2>1 DEF Waiting
    <3> QED
      BY <1>1, <2>1, <3>1, <3>2 DEF Waiting
  <2> QED
    BY <1>1, <2>1 DEF IInv, InboxInv, Replied
<1>8. OutputInv'
  BY <1>1, <1>3 DEF IInv, OutputInv
<1>9. MapInv' /\ AnswersInv'
  BY <1>1 DEF IInv, MapInv, AnswersInv
<1>10. TypeOK'
  BY <1>1, <1>2 DEF IInv, TypeOK
<1> QED
  BY <1>1, <1>5, <1>6, <1>7, <1>8, <1>9, <1>10 DEF IInv, Promised, Reply!vars

-----------------------------------------------------------------------------
(* Writing *)

LEMMA MulticastIsRight ==
    ASSUME IInv, NEW p \in {"whole", "head", "tail"}, NEW m \in Message,
           Multicast([part |-> p, message |-> m])
    PROVE  /\ consumer' \in [Conns -> Seq(Chunk)]
           /\ \A d \in Conns : \A k \in DOMAIN consumer'[d] :
                 \/ consumer'[d][k].message = m
                 \/ k \in DOMAIN consumer[d] /\ consumer'[d][k] = consumer[d][k]
<1> DEFINE chunk == [part |-> p, message |-> m]
<1>1. chunk \in Chunk /\ chunk.message = m
  BY DEF Chunk
<1>2. ASSUME NEW d \in Conns
      PROVE  /\ consumer'[d] \in Seq(Chunk)
             /\ \A k \in DOMAIN consumer'[d] :
                 \/ consumer'[d][k].message = m
                 \/ k \in DOMAIN consumer[d] /\ consumer'[d][k] = consumer[d][k]
  <2>1. consumer[d] \in Seq(Chunk)
    BY DEF IInv, TypeOK
  <2>2. consumer'[d] = IF Attached(d) THEN Append(consumer[d], chunk) ELSE consumer[d]
    BY DEF Multicast
  <2>3. CASE consumer'[d] = consumer[d]
    BY <2>1, <2>3
  <2>4. CASE consumer'[d] = Append(consumer[d], chunk)
    BY <1>1, <2>1, <2>4, AppendOf
  <2> QED
    BY <2>2, <2>3, <2>4
<1>3. consumer' = [d \in Conns |-> consumer'[d]]
  BY DEF Multicast
<1> QED
  BY <1>2, <1>3

LEMMA WriteIsRight ==
    ASSUME IInv, NEW m \in Message, Write(m), Written(m)', \A n : Written(n) => Written(n)'
    PROVE  /\ OutputInv'
           /\ consumer' \in [Conns -> Seq(Chunk)]
           /\ unwritten' \in Message \cup {NoMessage}
<1>1. \/ Multicast([part |-> "whole", message |-> m]) /\ unwritten' = unwritten
      \/ Multicast([part |-> "head", message |-> m]) /\ unwritten' = m
  BY DEF Write
<1>2. /\ consumer' \in [Conns -> Seq(Chunk)]
      /\ \A d \in Conns : \A k \in DOMAIN consumer'[d] :
            \/ consumer'[d][k].message = m
            \/ k \in DOMAIN consumer[d] /\ consumer'[d][k] = consumer[d][k]
  BY <1>1, MulticastIsRight
<1>3. \A d \in Conns : \A k \in DOMAIN consumer'[d] : Written(consumer[d][k].message)'
  <2> SUFFICES ASSUME NEW d \in Conns, NEW k \in DOMAIN consumer'[d]
               PROVE  Written(consumer[d][k].message)'
    OBVIOUS
  <2>1. CASE consumer'[d][k].message = m
    BY <2>1
  <2>2. CASE k \in DOMAIN consumer[d] /\ consumer'[d][k] = consumer[d][k]
    <3>1. Written(consumer[d][k].message)
      BY <2>2 DEF IInv, OutputInv
    <3> QED
      BY <2>2, <3>1
  <2> QED
    BY <1>2, <2>1, <2>2
<1>4. unwritten' # NoMessage => Written(unwritten)'
  BY <1>1 DEF IInv, OutputInv
<1>5. unwritten' \in Message \cup {NoMessage}
  BY <1>1 DEF IInv, TypeOK
<1> QED
  BY <1>2, <1>3, <1>4, <1>5 DEF OutputInv

LEMMA RespondIsRight ==
    ASSUME IInv, NEW m \in pending, Respond(m) PROVE IInv' /\ Promised
<1>0. PICK q : q = [m EXCEPT !.kind = "response"]
  OBVIOUS
<1>1. /\ UNCHANGED <<socket, late, asked, inbox, idMap, used, stdin, pushed, framer, answers, heard>>
      /\ pending' = pending \ {m} /\ made' = made \cup {m.of} /\ Write(q)
  BY <1>0 DEF Respond, clientVars, socketVars, gotVars
<1>2. /\ m \in Message /\ q \in Message /\ q.kind = "response" /\ q.of = m.of /\ q.id = m.id
      /\ Owned(m) /\ m.of \in asked \ made
  BY <1>0 DEF IInv, TypeOK, PendingInv, Message, Owned
<1>3. \A n : (Owned(n) => Owned(n)') /\ (Written(n) => Written(n)')
  BY <1>1 DEF Written, Owned
<1>4. Written(q)'
  <2>1. Owned(q)'
    BY <1>1, <1>2 DEF Owned
  <2> QED
    BY <1>1, <1>2, <2>1 DEF Written
<1>5. OutputInv' /\ consumer' \in [Conns -> Seq(Chunk)] /\ unwritten' \in Message \cup {NoMessage}
  BY <1>1, <1>2, <1>3, <1>4, WriteIsRight
<1>6. StdinInv'
  <2>1. \A k \in DOMAIN stdin : stdin[k].kind = "request" => stdin[k].of # m.of
    BY DEF IInv, StdinInv
  <2> QED
    BY <1>1, <1>3, <2>1 DEF IInv, StdinInv, Replied
<1>7. PendingInv'
  <2>1. \A n \in pending' : n.kind = "request" /\ Owned(n)' /\ n.of \notin made'
    BY <1>1, <1>3 DEF IInv, PendingInv
  <2> QED
    BY <1>1, <2>1 DEF IInv, PendingInv
<1>8. InboxInv'
  <2>1. \A d \in Conns : \A n : Waiting(d, n) => Waiting(d, n)'
    BY <1>1 DEF Waiting
  <2> QED
    BY <1>1, <2>1 DEF IInv, InboxInv, Replied
<1>9. MapInv' /\ AnswersInv'
  BY <1>1, <1>2 DEF IInv, MapInv, AnswersInv
<1>10. TypeOK'
  BY <1>1, <1>2, <1>5 DEF IInv, TypeOK
<1>11. Reply!Make(m.of) /\ m.of \in Reply!Requests
  BY <1>1, <1>2 DEF Reply!Make, Reply!Requests, Requests, IInv, TypeOK
<1> QED
  BY <1>5, <1>6, <1>7, <1>8, <1>9, <1>10, <1>11 DEF IInv, Promised, Reply!Next

LEMMA PushIsRight ==
    ASSUME IInv, NEW p \in Pushes, Push(p) PROVE IInv' /\ Promised
<1>0. PICK i \in Ids \cup {NoId} :
         /\ pushed' = pushed \cup {<<p, i>>}
         /\ Write([kind |-> IF i = NoId THEN "notification" ELSE "call", id |-> i, of |-> p])
  BY DEF Push
<1>q. PICK q : q = [kind |-> IF i = NoId THEN "notification" ELSE "call", id |-> i, of |-> p]
  OBVIOUS
<1>1. /\ UNCHANGED <<socket, late, asked, inbox, idMap, used, stdin, pending, made, framer,
                     answers, heard>>
      /\ pushed' = pushed \cup {<<p, i>>} /\ Write(q)
  BY <1>0, <1>q DEF Push, clientVars, socketVars, gotVars
<1>2. q \in Message
  BY <1>q DEF Message, WireIds
<1>3. \A n : (Owned(n) => Owned(n)') /\ (Written(n) => Written(n)')
  BY <1>1 DEF Written, Owned
<1>4. Written(q)'
  BY <1>1, <1>q DEF Written
<1>5. OutputInv' /\ consumer' \in [Conns -> Seq(Chunk)] /\ unwritten' \in Message \cup {NoMessage}
  BY <1>1, <1>2, <1>3, <1>4, WriteIsRight
<1>6. StdinInv'
  BY <1>1, <1>3 DEF IInv, StdinInv, Replied
<1>7. PendingInv'
  BY <1>1, <1>3 DEF IInv, PendingInv
<1>8. InboxInv'
  <2>1. \A d \in Conns : \A n : Waiting(d, n) => Waiting(d, n)'
    BY <1>1 DEF Waiting
  <2> QED
    BY <1>1, <2>1 DEF IInv, InboxInv, Replied
<1>9. MapInv' /\ AnswersInv'
  BY <1>1 DEF IInv, MapInv, AnswersInv
<1>10. TypeOK'
  <2>1. <<p, i>> \in Pushes \X (Ids \cup {NoId})
    OBVIOUS
  <2>2. pushed' \subseteq Pushes \X (Ids \cup {NoId})
    BY <1>1, <2>1 DEF IInv, TypeOK
  <2> QED
    BY <1>1, <1>5, <2>2 DEF IInv, TypeOK
<1> QED
  BY <1>1, <1>5, <1>6, <1>7, <1>8, <1>9, <1>10 DEF IInv, Promised, Reply!vars

LEMMA WriteRestIsRight ==
    ASSUME IInv, WriteRest PROVE IInv' /\ Promised
<1>0. PICK q : q = unwritten
  OBVIOUS
<1>1. /\ UNCHANGED <<socket, late, asked, inbox, idMap, used, stdin, pending, made, pushed, framer,
                     answers, heard>>
      /\ unwritten' = NoMessage /\ q # NoMessage
      /\ Multicast([part |-> "tail", message |-> q])
  BY <1>0 DEF WriteRest, clientVars, socketVars, gotVars
<1>2. q \in Message /\ Written(q)
  BY <1>0, <1>1 DEF IInv, TypeOK, OutputInv
<1>3. \A n : (Owned(n) => Owned(n)') /\ (Written(n) => Written(n)')
  BY <1>1 DEF Written, Owned
<1>4. /\ consumer' \in [Conns -> Seq(Chunk)]
      /\ \A d \in Conns : \A k \in DOMAIN consumer'[d] :
            \/ consumer'[d][k].message = q
            \/ k \in DOMAIN consumer[d] /\ consumer'[d][k] = consumer[d][k]
  BY <1>1, <1>2, MulticastIsRight
<1>5. OutputInv'
  <2> SUFFICES ASSUME NEW d \in Conns, NEW k \in DOMAIN consumer'[d]
               PROVE  Written(consumer[d][k].message)'
    BY <1>1 DEF OutputInv
  <2>1. CASE consumer'[d][k].message = q
    BY <1>2, <1>3, <2>1
  <2>2. CASE k \in DOMAIN consumer[d] /\ consumer'[d][k] = consumer[d][k]
    <3>1. Written(consumer[d][k].message)
      BY <2>2 DEF IInv, OutputInv
    <3> QED
      BY <1>3, <2>2, <3>1
  <2> QED
    BY <1>4, <2>1, <2>2
<1>6. StdinInv'
  BY <1>1, <1>3 DEF IInv, StdinInv, Replied
<1>7. PendingInv'
  BY <1>1, <1>3 DEF IInv, PendingInv
<1>8. InboxInv'
  <2>1. \A d \in Conns : \A n : Waiting(d, n) => Waiting(d, n)'
    BY <1>1 DEF Waiting
  <2> QED
    BY <1>1, <2>1 DEF IInv, InboxInv, Replied
<1>9. MapInv' /\ AnswersInv'
  BY <1>1 DEF IInv, MapInv, AnswersInv
<1>10. TypeOK'
  BY <1>1, <1>4 DEF IInv, TypeOK
<1> QED
  BY <1>1, <1>5, <1>6, <1>7, <1>8, <1>9, <1>10 DEF IInv, Promised, Reply!vars

-----------------------------------------------------------------------------
(* Receiving *)

\* A push is received, and replied to if it is a call.
LEMMA PushReceived ==
    ASSUME IInv, NEW c \in Conns, NEW m \in Message, Written(m), m.kind # "response",
           Receive(c, m, m.id), UNCHANGED <<asked, stdin, pending, made, pushed, idMap>>
    PROVE  InboxInv' /\ inbox' \in [Conns -> Seq(Message)] /\ heard' \in [Conns -> SUBSET Pushes]
           /\ answers' = answers
<1>1. /\ heard' = [heard EXCEPT ![c] = @ \cup {m.of}] /\ answers' = answers
      /\ \/ m.kind = "call" /\ inbox' = [inbox EXCEPT ![c] = Append(@, [m EXCEPT !.kind = "reply"])]
         \/ inbox' = inbox
  BY DEF Receive
<1>2. heard' \in [Conns -> SUBSET Pushes]
  BY <1>1 DEF IInv, TypeOK, Written
<1>3. \A d \in Conns : \A n : Waiting(d, n) => Waiting(d, n)'
  BY <1>1 DEF Waiting
<1>4. CASE inbox' = inbox
  BY <1>1, <1>2, <1>3, <1>4 DEF IInv, TypeOK, InboxInv, Replied
<1>5. ASSUME m.kind = "call", inbox' = [inbox EXCEPT ![c] = Append(@, [m EXCEPT !.kind = "reply"])]
      PROVE  InboxInv' /\ inbox' \in [Conns -> Seq(Message)]
  <2>0. PICK q : q = [m EXCEPT !.kind = "reply"]
    OBVIOUS
  <2>1. q \in Message /\ q.kind = "reply" /\ Replied(q)
    BY <1>5, <2>0 DEF Message, Written, Replied
  <2>2. /\ inbox[c] \in Seq(Message) /\ inbox'[c] = Append(inbox[c], q)
        /\ \A d \in Conns : d # c => inbox'[d] = inbox[d]
    BY <1>5, <2>0 DEF IInv, TypeOK
  <2>3. /\ inbox'[c] \in Seq(Message)
        /\ \A j \in DOMAIN inbox'[c] :
              \/ j \in DOMAIN inbox[c] /\ inbox'[c][j] = inbox[c][j]
              \/ inbox'[c][j] = q
    BY <2>1, <2>2, AppendOf
  <2>4. inbox' \in [Conns -> Seq(Message)]
    BY <1>5, <2>2, <2>3 DEF IInv, TypeOK
  <2>5. ASSUME NEW d \in Conns, NEW k \in DOMAIN inbox'[d]
        PROVE  /\ inbox'[d][k].kind \in {"request", "reply"}
               /\ inbox'[d][k].kind = "reply" => <<inbox'[d][k].of, inbox'[d][k].id>> \in pushed'
               /\ inbox'[d][k].kind = "request" =>
                     /\ Waiting(d, inbox[d][k])'
                     /\ \A j \in DOMAIN inbox'[d] :
                           inbox'[d][j].kind = "request" /\ inbox'[d][j].of = inbox'[d][k].of => j = k
    <3>1. CASE d # c
      BY <1>3, <2>2, <3>1 DEF IInv, InboxInv, Replied
    <3>2. CASE d = c /\ inbox'[c][k] = q
      BY <2>1, <3>2 DEF Replied
    <3>3. CASE d = c /\ k \in DOMAIN inbox[c] /\ inbox'[c][k] = inbox[c][k]
      BY <1>3, <2>1, <2>3, <3>3 DEF IInv, InboxInv, Replied
    <3> QED
      BY <2>3, <3>1, <3>2, <3>3
  <2> QED
    BY <2>4, <2>5 DEF InboxInv, Replied
<1> QED
  BY <1>1, <1>2, <1>4, <1>5

\* A response is received by whoever has an entry for it, who asked the request.
LEMMA ResponseReceived ==
    ASSUME IInv, NEW c \in Conns, NEW m \in Message, Written(m), m.kind = "response",
           Original(c, m) # NoId, Receive(c, m, Original(c, m)), idMap' = Forget(c, m.id),
           UNCHANGED <<asked, used, stdin, pending, made, pushed>>
    PROVE  /\ InboxInv' /\ MapInv' /\ AnswersInv' /\ inbox' = inbox /\ heard' = heard
           /\ answers' \in [Conns -> Seq([of : Requests, id : Ids])]
           /\ idMap' \in [Conns -> [Uuids -> NumIds \cup {NoId}]]
           /\ \A d \in Conns, v \in Uuids : idMap'[d][v] \in {idMap[d][v], NoId}
           /\ Promised
<1> DEFINE u == m.id
<1>0. PICK i : i = idMap[c][u]
  OBVIOUS
<1>1. PICK a : a = [of |-> <<c, i>>, id |-> i]
  OBVIOUS
<1>2. /\ u \in Uuids /\ i # NoId /\ i \in NumIds /\ m.of = <<c, i>> /\ m.of \in made
      /\ Original(c, m) = i
  BY <1>0 DEF Original, Written, Owned, IInv, TypeOK
<1>3. /\ inbox' = inbox /\ heard' = heard /\ answers' = [answers EXCEPT ![c] = Append(@, a)]
  BY <1>1, <1>2 DEF Receive
<1>4. /\ a \in [of : Requests, id : Ids] /\ a.id = i
      /\ answers[c] \in Seq([of : Requests, id : Ids])
      /\ answers'[c] = Append(answers[c], a)
      /\ \A d \in Conns : d # c => answers'[d] = answers[d]
  BY <1>1, <1>2, <1>3 DEF IInv, TypeOK, Requests, Ids
<1>5. /\ answers'[c] \in Seq([of : Requests, id : Ids])
      /\ \A j \in DOMAIN answers'[c] :
            \/ j \in DOMAIN answers[c] /\ answers'[c][j] = answers[c][j]
            \/ answers'[c][j] = a
  BY <1>4, AppendOf
<1>6. answers' \in [Conns -> Seq([of : Requests, id : Ids])]
  BY <1>3, <1>4, <1>5 DEF IInv, TypeOK
<1>7. /\ \A d \in Conns, v \in Uuids :
            idMap'[d][v] = IF d = c /\ v = u THEN NoId ELSE idMap[d][v]
      /\ idMap' \in [Conns -> [Uuids -> NumIds \cup {NoId}]]
  BY <1>2 DEF IInv, TypeOK, Forget
<1>8. MapInv'
  <2> SUFFICES ASSUME NEW d \in Conns, NEW v \in Uuids, idMap'[d][v] # NoId
               PROVE  /\ v \in used
                      /\ <<d, idMap'[d][v]>> \in asked
                      /\ \A w \in Uuids : idMap'[d][w] = idMap'[d][v] => w = v
                      /\ \A k \in DOMAIN answers'[d] : answers'[d][k].id # idMap'[d][v]
    BY DEF MapInv
  <2>1. idMap'[d][v] = idMap[d][v] /\ ~(d = c /\ v = u)
    BY <1>7
  <2>2. d = c => idMap[d][v] # i
    BY <1>0, <1>2, <2>1 DEF IInv, MapInv
  <2>3. /\ v \in used /\ <<d, idMap[d][v]>> \in asked
        /\ \A w \in Uuids : idMap[d][w] = idMap[d][v] => w = v
        /\ \A k \in DOMAIN answers[d] : answers[d][k].id # idMap[d][v]
    BY <2>1 DEF IInv, MapInv
  <2>4. \A w \in Uuids : idMap'[d][w] = idMap'[d][v] => w = v
    BY <1>7, <2>1, <2>3
  <2>5. \A k \in DOMAIN answers'[d] : answers'[d][k].id # idMap[d][v]
    <3>1. CASE d # c
      BY <1>4, <2>3, <3>1
    <3>2. CASE d = c
      BY <1>4, <1>5, <2>2, <2>3, <3>2
    <3> QED
      BY <3>1, <3>2
  <2> QED
    BY <2>1, <2>3, <2>4, <2>5
<1>9. AnswersInv'
  <2>1. <<c, i>> \in asked
    BY <1>2 DEF IInv, AnswersInv
  <2> QED
    BY <1>4, <1>5, <2>1 DEF IInv, AnswersInv
<1>10. InboxInv'
  <2>1. ASSUME NEW d \in Conns, NEW n, Waiting(d, n) PROVE Waiting(d, n)'
    <3>1. \A v \in Uuids : idMap'[d][v] # n.id
      BY <1>7, <2>1, IdAssumption DEF Waiting, Ids
    <3>2. \A j \in DOMAIN answers'[d] : answers'[d][j].id # n.id
      <4>1. \A j \in DOMAIN answers[d] : answers[d][j].id # n.id
        BY <2>1 DEF Waiting
      <4>2. d = c => i # n.id
        BY <1>0, <1>2, <2>1 DEF Waiting
      <4>3. CASE d # c
        BY <1>4, <4>1, <4>3
      <4>4. CASE d = c
        BY <1>4, <1>5, <4>1, <4>2, <4>4
      <4> QED
        BY <4>3, <4>4
    <3> QED
      BY <2>1, <3>1, <3>2 DEF Waiting
  <2> QED
    BY <1>3, <2>1 DEF IInv, InboxInv, Replied
<1>11. Reply!Deliver(c, i)
  <2>1. \A k \in DOMAIN answers[c] : answers[c][k] # a
    BY <1>0, <1>2, <1>4 DEF IInv, MapInv
  <2> QED
    BY <1>1, <1>2, <1>3, <2>1 DEF Reply!Deliver, Reply!Answer
<1>12. Promised
  BY <1>2, <1>11 DEF Promised, Reply!Next, Ids
<1> QED
  BY <1>3, <1>6, <1>7, <1>8, <1>9, <1>10, <1>12

LEMMA ForwardIsRight ==
    ASSUME IInv, NEW c \in Conns, Forward(c) PROVE IInv' /\ Promised
<1>0. PICK chunk : chunk = Head(consumer[c])
  OBVIOUS
<1>m. PICK m : m = chunk.message
  OBVIOUS
<1>1. /\ UNCHANGED <<socket, late, asked, used, stdin, pending, made, pushed, unwritten>>
      /\ consumer[c] # << >> /\ consumer' = [consumer EXCEPT ![c] = Tail(@)]
      /\ \E state \in {"boundary", "inside", "failed"} : framer' = [framer EXCEPT ![c] = state]
      /\ Outbound(c, m) \/ UNCHANGED <<idMap, answers, heard, inbox>>
  BY <1>0, <1>m DEF Forward, socketVars, serverVars, gotVars
<1>2. /\ chunk \in Chunk /\ m \in Message /\ Written(m)
      /\ consumer' \in [Conns -> Seq(Chunk)]
      /\ \A d \in Conns : \A k \in DOMAIN consumer'[d] :
            \E j \in DOMAIN consumer[d] : consumer'[d][k] = consumer[d][j]
  <2>1. /\ consumer[c] \in Seq(Chunk) /\ consumer'[c] = Tail(consumer[c])
        /\ \A d \in Conns : d # c => consumer'[d] = consumer[d]
    BY <1>1 DEF IInv, TypeOK
  <2>2. /\ consumer'[c] \in Seq(Chunk)
        /\ 1 \in DOMAIN consumer[c] /\ chunk = consumer[c][1] /\ chunk \in Chunk
        /\ \A k \in DOMAIN consumer'[c] :
              k + 1 \in DOMAIN consumer[c] /\ consumer'[c][k] = consumer[c][k + 1]
    <3>1. /\ Tail(consumer[c]) \in Seq(Chunk)
          /\ 1 \in DOMAIN consumer[c] /\ Head(consumer[c]) = consumer[c][1]
          /\ Head(consumer[c]) \in Chunk
          /\ \A k \in DOMAIN Tail(consumer[c]) :
                k + 1 \in DOMAIN consumer[c] /\ Tail(consumer[c])[k] = consumer[c][k + 1]
      BY <1>1, <2>1, TailOf
    <3> QED
      BY <1>0, <2>1, <3>1
  <2>3. m \in Message /\ Written(m)
    BY <1>m, <2>2 DEF Chunk, IInv, OutputInv
  <2>4. consumer' \in [Conns -> Seq(Chunk)]
    BY <1>1, <2>1, <2>2 DEF IInv, TypeOK
  <2> QED
    BY <2>1, <2>2, <2>3, <2>4
<1>3. framer' \in [Conns -> {"boundary", "inside", "failed"}]
  BY <1>1 DEF IInv, TypeOK
<1>4. ASSUME \A d \in Conns, v \in Uuids : idMap'[d][v] \in {idMap[d][v], NoId},
             InboxInv', MapInv', AnswersInv',
             inbox' \in [Conns -> Seq(Message)], heard' \in [Conns -> SUBSET Pushes],
             answers' \in [Conns -> Seq([of : Requests, id : Ids])],
             idMap' \in [Conns -> [Uuids -> NumIds \cup {NoId}]]
      PROVE  IInv'
  <2>1. used \subseteq Uuids
    BY DEF IInv, TypeOK
  <2>2. \A n : (Owned(n) => Owned(n)') /\ (Written(n) => Written(n)')
    BY <1>1, <1>4, <2>1, OwnedKept, WrittenKept
  <2>3. StdinInv'
    BY <1>1, <2>2 DEF IInv, StdinInv, Replied
  <2>4. PendingInv'
    BY <1>1, <2>2 DEF IInv, PendingInv
  <2>5. OutputInv'
    <3>1. ASSUME NEW d \in Conns, NEW k \in DOMAIN consumer'[d]
          PROVE  Written(consumer[d][k].message)'
      <4>1. PICK j \in DOMAIN consumer[d] : consumer'[d][k] = consumer[d][j]
        BY <1>2
      <4>2. Written(consumer[d][j].message)
        BY DEF IInv, OutputInv
      <4> QED
        BY <2>2, <4>1, <4>2
    <3>2. unwritten' # NoMessage => Written(unwritten)'
      BY <1>1, <2>2 DEF IInv, OutputInv
    <3> QED
      BY <3>1, <3>2 DEF OutputInv
  <2>6. TypeOK'
    BY <1>1, <1>2, <1>3, <1>4 DEF IInv, TypeOK
  <2> QED
    BY <1>4, <2>3, <2>4, <2>5, <2>6 DEF IInv
<1>5. CASE UNCHANGED <<idMap, answers, heard, inbox>>
  <2>1. \A d \in Conns : \A n : Waiting(d, n) => Waiting(d, n)'
    BY <1>1, <1>5 DEF Waiting
  <2>2. InboxInv'
    BY <1>1, <1>5, <2>1 DEF IInv, InboxInv, Replied
  <2>3. MapInv' /\ AnswersInv'
    BY <1>1, <1>5 DEF IInv, MapInv, AnswersInv
  <2>4. IInv'
    BY <1>4, <1>5, <2>2, <2>3 DEF IInv, TypeOK
  <2> QED
    BY <1>1, <1>5, <2>4 DEF Promised, Reply!vars
<1>6. CASE ~IsTranslated(m) /\ Receive(c, m, m.id) /\ UNCHANGED idMap
  <2>1. m.kind # "response"
    BY <1>2, <1>6 DEF IsTranslated, Written, Owned
  <2>2. /\ InboxInv' /\ inbox' \in [Conns -> Seq(Message)] /\ heard' \in [Conns -> SUBSET Pushes]
        /\ answers' = answers
    BY <1>1, <1>2, <1>6, <2>1, PushReceived
  <2>3. MapInv' /\ AnswersInv'
    BY <1>1, <1>6, <2>2 DEF IInv, MapInv, AnswersInv
  <2>4. IInv'
    BY <1>4, <1>6, <2>2, <2>3 DEF IInv, TypeOK
  <2> QED
    BY <1>1, <2>2, <2>4 DEF Promised, Reply!vars
<1>7. CASE /\ IsTranslated(m) /\ Original(c, m) # NoId
           /\ Receive(c, m, Original(c, m)) /\ idMap' = Forget(c, m.id)
  <2>1. m.kind = "response"
    BY <1>7 DEF IsTranslated
  <2>2. /\ InboxInv' /\ MapInv' /\ AnswersInv' /\ inbox' = inbox /\ heard' = heard
        /\ answers' \in [Conns -> Seq([of : Requests, id : Ids])]
        /\ idMap' \in [Conns -> [Uuids -> NumIds \cup {NoId}]]
        /\ \A d \in Conns, v \in Uuids : idMap'[d][v] \in {idMap[d][v], NoId}
        /\ Promised
    BY <1>1, <1>2, <1>7, <2>1, ResponseReceived
  <2> QED
    BY <1>4, <2>2 DEF IInv, TypeOK
<1> QED
  BY <1>1, <1>5, <1>6, <1>7 DEF Outbound, gotVars

LEMMA StepIsRight == IInv /\ [Next]_vars => IInv' /\ Promised
<1> SUFFICES ASSUME IInv, [Next]_vars PROVE IInv' /\ Promised
  OBVIOUS
<1>1. CASE UNCHANGED vars
  <2>1. UNCHANGED <<socket, late, idMap, used, asked, inbox, stdin, pending, made, pushed,
                    unwritten, consumer, framer, answers, heard>>
    BY <1>1 DEF vars, socketVars
  <2>2. \A m : (Owned(m) => Owned(m)') /\ (Written(m) => Written(m)')
    BY <2>1 DEF Written, Owned
  <2>3. \A d \in Conns : \A n : Waiting(d, n) => Waiting(d, n)'
    BY <2>1 DEF Waiting
  <2>4. InboxInv' /\ StdinInv'
    BY <2>1, <2>2, <2>3 DEF IInv, InboxInv, StdinInv, Replied
  <2>5. PendingInv' /\ OutputInv'
    BY <2>1, <2>2 DEF IInv, PendingInv, OutputInv
  <2>6. MapInv' /\ AnswersInv' /\ TypeOK'
    BY <2>1, ZenonT(60) DEF IInv, MapInv, AnswersInv, TypeOK
  <2> QED
    BY <2>1, <2>4, <2>5, <2>6 DEF IInv, Promised, Reply!vars
<1>2. ASSUME NEW c \in Conns,
             Join(c) \/ Close(c) \/ (\E i \in Ids : Ask(c, i)) \/ Inbound(c) \/ Forward(c)
      PROVE  IInv' /\ Promised
  BY <1>2, JoinIsRight, CloseIsRight, AskIsRight, InboundIsRight, ForwardIsRight
<1>3. CASE Read \/ WriteRest
  BY <1>3, ReadIsRight, WriteRestIsRight
<1>4. CASE \E m \in pending : Respond(m)
  BY <1>4, RespondIsRight
<1>5. CASE \E p \in Pushes : Push(p)
  BY <1>5, PushIsRight
<1> QED
  BY <1>1, <1>2, <1>3, <1>4, <1>5 DEF Next

-----------------------------------------------------------------------------
(* Theorems *)

\* What the other theorems rest on: every request is in one place on its way, and
\* whoever has an entry for an answer is who asked (LSWSServer.ts:494-545).
THEOREM InductiveInvariant == Spec => []IInv
BY InitIsRight, StepIsRight, PTL DEF Spec

\* Every variable keeps its type, ids included: what clients are given is under
\* ids of theirs, and maps have numeric ids only (LSWSServer.ts:494-545).
THEOREM TypeCorrect == Spec => []TypeOK
<1>1. IInv => TypeOK
  BY DEF IInv
<1> QED
  BY <1>1, InductiveInvariant, PTL

\* Routing implements DirectReply: whatever ids connections share, wherever chunks
\* are cut and whoever comes and goes, an answer reaches the connection that asked,
\* once, under its own id (LSWSServer.ts:84-86).
THEOREM AnswersReachAskers == Spec => AnswersAskers
<1>1. IInv /\ [Next]_vars => [Reply!Next]_Reply!vars
  BY StepIsRight DEF Promised
<1> QED
  BY <1>1, InitIsRight, InductiveInvariant, PTL DEF Spec, AnswersAskers, Reply!Spec

\* The maps have no entry for what has been answered (LSWSServer.ts:541).
THEOREM MapsDoNotGrow == Spec => []NoStaleEntry
<1>1. IInv => NoStaleEntry
  BY DEF IInv, MapInv, NoStaleEntry
<1> QED
  BY <1>1, InductiveInvariant, PTL

\* Replies get to the language server under the ids of its own requests
\* (LSWSServer.ts:500).
THEOREM RepliesKeepIds == Spec => []RepliesMatch
<1>1. IInv => RepliesMatch
  BY DEF IInv, StdinInv, Replied, RepliesMatch
<1> QED
  BY <1>1, InductiveInvariant, PTL

-----------------------------------------------------------------------------
(* Headers *)

\* A stream that has been whole since its connection was made: a second part is
\* where a first one has been, and is still to come if that is the last chunk.
HeadsOf(c) ==
    /\ framer[c] \in {"boundary", "inside"}
    /\ \A k \in DOMAIN consumer[c] :
          consumer[c][k].part = "tail" <=>
              IF k = 1 THEN framer[c] = "inside" ELSE consumer[c][k - 1].part = "head"
    /\ socket[c] = "new" => framer[c] = "boundary" /\ consumer[c] = << >>
    /\ socket[c] = "open" =>
          (unwritten # NoMessage <=>
              IF consumer[c] = << >> THEN framer[c] = "inside"
              ELSE consumer[c][Len(consumer[c])].part = "head")

Heads == \A c \in Conns : c \in late \/ HeadsOf(c)

LEMMA HeadsAppended ==
    ASSUME TypeOK, NEW c \in Conns, HeadsOf(c), NEW chunk \in Chunk, UNCHANGED <<socket, framer>>,
           consumer'[c] = IF Attached(c) THEN Append(consumer[c], chunk) ELSE consumer[c],
           chunk.part = "tail" <=> unwritten # NoMessage,
           chunk.part = "head" <=> unwritten' # NoMessage
    PROVE  HeadsOf(c)'
<1>1. CASE socket[c] # "open"
  BY <1>1 DEF HeadsOf, Attached
<1>2. CASE socket[c] = "open"
  <2> DEFINE s == consumer[c]
             n == Len(s)
  <2>1. s \in Seq(Chunk) /\ n \in Nat /\ DOMAIN s = 1 .. n
    BY LenProperties DEF TypeOK
  <2>2. /\ DOMAIN consumer'[c] = 1 .. n + 1
        /\ \A k \in 1 .. n : consumer'[c][k] = s[k]
        /\ consumer'[c][n + 1] = chunk
        /\ consumer'[c] # << >> /\ Len(consumer'[c]) = n + 1
    BY <1>2, <2>1, AppendProperties, LenProperties DEF Attached
  <2>3. s = << >> <=> n = 0
    BY <2>1, EmptySeq
  <2>4. chunk.part = "tail" <=> IF n = 0 THEN framer[c] = "inside" ELSE s[n].part = "head"
    BY <1>2, <2>3 DEF HeadsOf
  <2>5. \A k \in 1 .. n + 1 :
          consumer'[c][k].part = "tail" <=>
              IF k = 1 THEN framer'[c] = "inside" ELSE consumer'[c][k - 1].part = "head"
    <3> SUFFICES ASSUME NEW k \in 1 .. n + 1
                 PROVE  consumer'[c][k].part = "tail" <=>
                            IF k = 1 THEN framer'[c] = "inside" ELSE consumer'[c][k - 1].part = "head"
      OBVIOUS
    <3>1. CASE k = n + 1
      BY <2>1, <2>2, <2>4, <3>1
    <3>2. CASE k \in 1 .. n
      BY <2>1, <2>2, <3>2, SMTT(30) DEF HeadsOf
    <3> QED
      BY <2>1, <3>1, <3>2
  <2> QED
    BY <1>2, <2>2, <2>5 DEF HeadsOf
<1> QED
  BY <1>1, <1>2

LEMMA HeadsForwarded ==
    ASSUME TypeOK, NEW c \in Conns, HeadsOf(c), Forward(c) PROVE HeadsOf(c)'
<1> DEFINE s == consumer[c]
           n == Len(s)
<1>1. /\ UNCHANGED <<socket, unwritten>> /\ s # << >> /\ consumer'[c] = Tail(s)
      /\ \/ s[1].part = "head" /\ framer'[c] = "inside"
         \/ s[1].part = "tail" /\ framer[c] = "boundary"
         \/ (s[1].part = "whole" \/ framer[c] = "inside") /\ framer'[c] = "boundary"
  <2>1. s \in Seq(Chunk) /\ s # << >>
    BY DEF TypeOK, Forward
  <2>2. Head(s) = s[1]
    BY <2>1, TailOf
  <2> QED
    BY <2>1, <2>2 DEF Forward, TypeOK, socketVars, serverVars
<1>2. /\ s \in Seq(Chunk) /\ n \in Nat \ {0} /\ DOMAIN s = 1 .. n
      /\ DOMAIN consumer'[c] = 1 .. n - 1 /\ Len(consumer'[c]) = n - 1
      /\ \A k \in 1 .. n - 1 : consumer'[c][k] = s[k + 1]
      /\ consumer'[c] = << >> <=> n = 1
      /\ s[1].part \in {"whole", "head", "tail"}
  <2>1. s \in Seq(Chunk)
    BY DEF TypeOK
  <2>2. n \in Nat \ {0} /\ DOMAIN s = 1 .. n
    BY <1>1, <2>1, EmptySeq, LenProperties
  <2>3. /\ consumer'[c] \in Seq(Chunk) /\ Len(consumer'[c]) = n - 1
        /\ \A k \in 1 .. Len(consumer'[c]) : consumer'[c][k] = s[k + 1]
    BY <1>1, <2>1, HeadTailProperties
  <2>4. DOMAIN consumer'[c] = 1 .. n - 1 /\ (consumer'[c] = << >> <=> n = 1)
    <3>1. DOMAIN consumer'[c] = 1 .. n - 1
      BY <2>3, LenProperties
    <3>2. consumer'[c] = << >> => n - 1 = 0
      BY <2>3
    <3>3. consumer'[c] # << >> => n - 1 # 0
      BY <2>3, EmptySeq
    <3> QED
      BY <2>2, <3>1, <3>2, <3>3
  <2>5. s[1] \in Chunk
    BY <2>1, <2>2
  <2> QED
    BY <2>1, <2>2, <2>3, <2>4, <2>5 DEF Chunk
<1>3. s[1].part = "tail" <=> framer[c] = "inside"
  <2>1. 1 \in DOMAIN s
    BY <1>2
  <2> QED
    BY <2>1 DEF HeadsOf
<1>4. /\ framer[c] \in {"boundary", "inside"} /\ framer'[c] \in {"boundary", "inside"}
      /\ framer'[c] = "inside" <=> s[1].part = "head"
  <2>1. framer[c] \in {"boundary", "inside"}
    BY DEF HeadsOf
  <2> QED
    BY <1>1, <1>2, <1>3, <2>1
<1>5. ASSUME NEW k \in 1 .. n - 1
      PROVE  consumer'[c][k].part = "tail" <=>
                 IF k = 1 THEN framer'[c] = "inside" ELSE consumer'[c][k - 1].part = "head"
  <2>1. /\ k + 1 \in 1 .. n /\ k + 1 # 1 /\ (k + 1) - 1 = k /\ consumer'[c][k] = s[k + 1]
        /\ k # 1 => k - 1 \in 1 .. n - 1 /\ consumer'[c][k - 1] = s[k]
    <3> HIDE DEF n, s
    <3>1. k + 1 \in 1 .. n /\ k + 1 # 1 /\ (k + 1) - 1 = k /\ consumer'[c][k] = s[k + 1]
      BY <1>2
    <3>2. ASSUME k # 1 PROVE k - 1 \in 1 .. n - 1 /\ consumer'[c][k - 1] = s[k]
      <4>1. k - 1 \in 1 .. n - 1 /\ (k - 1) + 1 = k
        BY <1>2, <3>2
      <4>2. consumer'[c][k - 1] = s[(k - 1) + 1]
        BY <1>2, <4>1
      <4> QED
        BY <4>1, <4>2
    <3> QED
      BY <3>1, <3>2
  <2>2. s[k + 1].part = "tail" <=> s[k].part = "head"
    BY <1>2, <2>1, ZenonT(60) DEF HeadsOf
  <2> QED
    BY <1>4, <2>1, <2>2
<1>6. socket[c] # "new"
  BY <1>1 DEF HeadsOf
<1>7. ASSUME socket[c] = "open"
      PROVE  unwritten # NoMessage <=>
                IF consumer'[c] = << >> THEN framer'[c] = "inside"
                ELSE consumer'[c][Len(consumer'[c])].part = "head"
  <2>1. unwritten # NoMessage <=> s[n].part = "head"
    BY <1>1, <1>7 DEF HeadsOf
  <2>2. CASE n = 1
    BY <1>2, <1>4, <2>1, <2>2
  <2>3. CASE n # 1
    BY <1>2, <2>1, <2>3
  <2> QED
    BY <2>2, <2>3
<1> QED
  BY <1>1, <1>2, <1>4, <1>5, <1>6, <1>7 DEF HeadsOf

\* Writing m adds a whole message, or its first part, to every open stream.
LEMMA HeadsWritten ==
    ASSUME TypeOK, NEW m \in Message, Write(m), UNCHANGED <<socket, framer>>, NEW c \in Conns, HeadsOf(c)
    PROVE  HeadsOf(c)'
<1>1. PICK p \in {"whole", "head"} :
         /\ Multicast([part |-> p, message |-> m])
         /\ unwritten = NoMessage
         /\ unwritten' = IF p = "head" THEN m ELSE NoMessage
  BY DEF Write
<1>2. [part |-> p, message |-> m] \in Chunk
  BY DEF Chunk
<1>3. consumer'[c] = IF Attached(c) THEN Append(consumer[c], [part |-> p, message |-> m])
                     ELSE consumer[c]
  BY <1>1 DEF Multicast
<1> QED
  BY <1>1, <1>2, <1>3, HeadsAppended, MessageAssumption

LEMMA HeadsKept == TypeOK /\ Heads /\ [Next]_vars => Heads'
<1> SUFFICES ASSUME TypeOK, Heads, [Next]_vars PROVE Heads'
  OBVIOUS
<1> SUFFICES ASSUME NEW c \in Conns, c \notin late' PROVE HeadsOf(c)'
  BY DEF Heads
<1>1. c \notin late /\ HeadsOf(c)
  BY DEF Heads, Next, vars, socketVars, serverVars, clientVars, Join, Ask, Close, Inbound, Forward,
         Read, WriteRest, Respond, Push
<1>2. ASSUME UNCHANGED <<socket, consumer, framer, unwritten>> PROVE HeadsOf(c)'
  BY <1>1, <1>2 DEF HeadsOf
<1>3. CASE UNCHANGED vars \/ Read \/ \E d \in Conns : Inbound(d) \/ \E i \in Ids : Ask(d, i)
  BY <1>2, <1>3 DEF vars, socketVars, serverVars, clientVars, Read, Inbound, Ask
<1>4. ASSUME NEW d \in Conns, Join(d) PROVE HeadsOf(c)'
  BY <1>1, <1>4 DEF Join, HeadsOf, serverVars, TypeOK
<1>5. ASSUME NEW d \in Conns, Close(d) PROVE HeadsOf(c)'
  <2>1. /\ UNCHANGED <<framer, unwritten>>
        /\ socket' = [socket EXCEPT ![d] = "closed"] /\ consumer' = [consumer EXCEPT ![d] = << >>]
    BY <1>5 DEF Close, serverVars
  <2>2. CASE c # d
    <3>1. socket'[c] = socket[c] /\ consumer'[c] = consumer[c]
      BY <2>1, <2>2 DEF TypeOK
    <3> QED
      BY <1>1, <2>1, <3>1 DEF HeadsOf
  <2>3. CASE c = d
    <3>1. socket'[c] = "closed" /\ consumer'[c] = << >> /\ DOMAIN << >> = {}
      BY <2>1, <2>3 DEF TypeOK
    <3> QED
      BY <1>1, <2>1, <3>1 DEF HeadsOf
  <2> QED
    BY <2>2, <2>3
<1>6. ASSUME NEW d \in Conns, Forward(d) PROVE HeadsOf(c)'
  <2>1. CASE d = c
    BY <1>1, <1>6, <2>1, HeadsForwarded
  <2>2. CASE d # c
    <3>1. /\ UNCHANGED <<socket, unwritten>>
          /\ consumer'[c] = consumer[c] /\ framer'[c] = framer[c]
      BY <1>6, <2>2 DEF Forward, TypeOK, socketVars, serverVars
    <3> QED
      BY <1>1, <3>1 DEF HeadsOf
  <2> QED
    BY <2>1, <2>2
<1>7. CASE WriteRest
  <2>0. PICK chunk : chunk = [part |-> "tail", message |-> unwritten]
    OBVIOUS
  <2>1. /\ UNCHANGED <<socket, framer>> /\ unwritten # NoMessage /\ unwritten' = NoMessage
        /\ consumer'[c] = IF Attached(c) THEN Append(consumer[c], chunk) ELSE consumer[c]
    BY <1>7, <2>0 DEF WriteRest, Multicast, clientVars, socketVars
  <2>2. chunk \in Chunk /\ chunk.part = "tail"
    BY <2>0, <2>1 DEF TypeOK, Chunk
  <2> QED
    BY <1>1, <2>1, <2>2, HeadsAppended
<1>8. ASSUME NEW m \in pending, Respond(m) PROVE HeadsOf(c)'
  <2>1. [m EXCEPT !.kind = "response"] \in Message
    BY ZenonT(60) DEF TypeOK, Message
  <2> QED
    BY <1>1, <1>8, <2>1, HeadsWritten DEF Respond, clientVars, socketVars
<1>9. ASSUME NEW p \in Pushes, Push(p) PROVE HeadsOf(c)'
  <2>1. PICK i \in Ids \cup {NoId} :
           Write([kind |-> IF i = NoId THEN "notification" ELSE "call", id |-> i, of |-> p])
    BY <1>9 DEF Push
  <2>2. [kind |-> IF i = NoId THEN "notification" ELSE "call", id |-> i, of |-> p] \in Message
    BY DEF Message, WireIds
  <2> QED
    BY <1>1, <1>9, <2>1, <2>2, HeadsWritten DEF Push, clientVars, socketVars
<1> QED
  BY <1>3, <1>4, <1>5, <1>6, <1>7, <1>8, <1>9 DEF Next

\* A consumer reads its connection's data from the beginning of a message on, unless
\* it was attached inside one (LSWSServer.ts:557-567).
THEOREM HeadersAreHeaders == Spec => []NoBadHeader
<1>1. Init => Heads
  <2> SUFFICES ASSUME Init, NEW c \in Conns PROVE HeadsOf(c)
    BY DEF Heads
  <2>1. /\ socket[c] = "new" /\ consumer[c] = << >> /\ DOMAIN << >> = {} /\ framer[c] = "boundary"
    BY DEF Init
  <2> QED
    BY <2>1 DEF HeadsOf
<1>2. Heads => NoBadHeader
  BY DEF Heads, HeadsOf, NoBadHeader
<1> QED
  BY <1>1, <1>2, TypeCorrect, HeadsKept, PTL DEF Spec
=============================================================================
