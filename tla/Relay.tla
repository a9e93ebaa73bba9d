------------------------------- MODULE Relay -------------------------------
(***************************************************************************)
(* What the streams between a source of LSP messages and a WebSocket       *)
(* promise: messages are taken whole and in order, the middleware sees     *)
(* them one after another, and those that it keeps come out of the         *)
(* WebSocket whole, in order and once, with all that had to wait for it to *)
(* open. Either end may break; then no message gets past it any more.      *)
(***************************************************************************)
EXTENDS Naturals

CONSTANTS
    Count,   \* messages of the source, 1 .. Count
    Dropped  \* those for which the middleware returns nothing

VARIABLES
    taken,   \* messages taken from the source
    broken,  \* no more will be
    passed,  \* how many the middleware has seen
    sent,    \* messages that have come out whole
    link     \* the WebSocket: connecting, open or closed

vars == <<taken, broken, passed, sent, link>>

Init ==
    /\ taken = {} /\ broken = FALSE
    /\ passed = 0
    /\ sent = {}
    /\ link \in {"connecting", "open"}

Take ==
    /\ ~broken
    /\ \E n \in 0 .. Count : taken' = 1 .. n
    /\ taken \subseteq taken'
    /\ broken' \in BOOLEAN
    /\ UNCHANGED <<passed, sent, link>>

Kept(n) == (1 .. n) \ Dropped

Pass ==
    /\ passed' = passed + 1
    /\ passed' \in taken
    /\ sent' = IF link = "open" /\ passed' \notin Dropped THEN Kept(passed') ELSE sent
    /\ UNCHANGED <<taken, broken, link>>

\* What had to wait is sent without another message, at the end.
Flush ==
    /\ link = "open"
    /\ sent' = Kept(passed)
    /\ UNCHANGED <<taken, broken, passed, link>>

Connect ==
    /\ link = "connecting" /\ link' = "open"
    /\ UNCHANGED <<taken, broken, passed, sent>>

Disconnect ==
    /\ link # "closed" /\ link' = "closed"
    /\ UNCHANGED <<taken, broken, passed, sent>>

Next == Take \/ Pass \/ Flush \/ Connect \/ Disconnect

Spec == Init /\ [][Next]_vars
=============================================================================
