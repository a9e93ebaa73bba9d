------------------------------- MODULE Mirror -------------------------------
(***************************************************************************)
(* What the editor's plugin promises of the document that the language     *)
(* server has: it is always a copy of the text of one moment, newer copies *)
(* have newer versions, changes wait while an edit of the server is being  *)
(* applied, and whenever the plugin has settled the copy is up to date.    *)
(***************************************************************************)
EXTENDS Naturals

CONSTANTS
    Texts,
    First,  \* the text in the beginning
    None    \* what the server has before it is sent anything

VARIABLES
    text,    \* in the editor
    version, \* the last version used
    copy,    \* the server's text, and its version
    opens,   \* how often the document was opened
    held,    \* changes have to wait
    settled  \* the plugin has nothing more to do

vars == <<text, version, copy, opens, held, settled>>

Init ==
    /\ text = First
    /\ version = 0
    /\ copy = [text |-> None, version |-> 0]
    /\ opens = 0
    /\ held = FALSE
    /\ settled = FALSE

\* Of every step.
Truthful == settled' \in BOOLEAN /\ (settled' => copy'.text = text')

Write ==
    /\ text' \in Texts \ {text}
    /\ UNCHANGED <<version, copy, opens, held>>

\* A version may be used up without being sent.
Copy ==
    /\ version' \in Nat
    /\ copy' \in {[text |-> text, version |-> n] : n \in version + 1 .. version'}
    /\ UNCHANGED text

\* A didChange, which may be the first one after the waiting.
Change ==
    /\ Copy
    /\ held' \in BOOLEAN /\ ~(held /\ held')
    /\ UNCHANGED opens

\* A didOpen, which does not wait.
Open ==
    /\ Copy
    /\ opens' \in Nat /\ opens' > opens
    /\ UNCHANGED held

\* A notification that throws.
Fail ==
    /\ version' \in Nat /\ version' > version
    /\ held' \in BOOLEAN
    /\ UNCHANGED <<text, copy, opens>>

HoldOrSettle == held' \in BOOLEAN /\ UNCHANGED <<text, version, copy, opens>>

Next == (Write \/ Change \/ Open \/ Fail \/ HoldOrSettle) /\ Truthful

Spec == Init /\ [][Next]_vars
=============================================================================
