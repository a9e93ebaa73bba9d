---------------------------- MODULE DirectReply ----------------------------
(***************************************************************************)
(* What LSWSServer promises to the connections of one session: "responses  *)
(* for requests that some specific WebSocket sent will be responded to     *)
(* directly" (LSWSServer.ts:85). Each request is answered at most once, by *)
(* an answer that the language server made for it, under the id that the   *)
(* connection chose, and nobody else receives that answer.                 *)
(***************************************************************************)
EXTENDS Sequences

CONSTANTS Conns, Ids  \* connections, and the request ids each may use

VARIABLES
    asked,    \* requests that connections have sent
    made,     \* requests the language server has answered
    received  \* the answers each connection has received, in order

vars == <<asked, made, received>>

Requests == Conns \X Ids

Init ==
    /\ asked = {}
    /\ made = {}
    /\ received = [c \in Conns |-> << >>]

Ask(r) ==
    /\ r \in Requests \ asked
    /\ asked' = asked \cup {r}
    /\ UNCHANGED <<made, received>>

Make(r) ==
    /\ r \in asked \ made
    /\ made' = made \cup {r}
    /\ UNCHANGED <<asked, received>>

Answer(c, i) == [of |-> <<c, i>>, id |-> i]

Deliver(c, i) ==
    /\ <<c, i>> \in made
    /\ \A k \in DOMAIN received[c] : received[c][k] # Answer(c, i)
    /\ received' = [received EXCEPT ![c] = Append(@, Answer(c, i))]
    /\ UNCHANGED <<asked, made>>

Next == \/ \E r \in Requests : Ask(r) \/ Make(r)
        \/ \E c \in Conns, i \in Ids : Deliver(c, i)

Spec == Init /\ [][Next]_vars
=============================================================================
