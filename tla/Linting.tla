------------------------------ MODULE Linting ------------------------------
(***************************************************************************)
(* The diagnostics of an editor and their code actions (linting.ts).       *)
(*                                                                         *)
(* A publishDiagnostics notification shows its diagnostics at once, and    *)
(* asks for their code actions when no others have come for a while; they  *)
(* are shown again, with their actions, when all answers are there. One    *)
(* debounce timeout serves all diagnostics of the plugin.                  *)
(***************************************************************************)
EXTENDS Naturals, TLAPS

CONSTANTS
    Sizes,              \* how many diagnostics a notification may have
    EnableCodeActions,  \* the option
    MaxNotifications,   \* bound: publishDiagnostics notifications
    MaxVersion          \* bound: versions of the document

ASSUME SizeAssumption == Sizes \subseteq Nat
ASSUME SwitchAssumption == EnableCodeActions \in BOOLEAN
ASSUME BoundAssumption == MaxNotifications \in Nat /\ MaxVersion \in Nat

Notifications == 1 .. MaxNotifications

VARIABLES
    version,     \* documentVersion of the plugin
    received,    \* notifications so far
    controller,  \* the one that made #codeActionQueryAbortController
    of,          \* the version each is about
    promise,     \* for each, the promises of its diagnostics with actions
    timer,       \* the diagnostic the pending debounce timeout is for
    shown        \* the notification in the editor, and whether with actions

vars == <<version, received, controller, of, promise, timer, shown>>

None == <<0, 0>>
Diagnostics == Notifications \X UNION {1 .. size : size \in Sizes}

\* A promise is "waiting" for the timeout, "requesting" the actions, "cleared"
\* with its timeout, settled as "plain" or with "actions", or its request "failed".
Promises == {"waiting", "requesting", "cleared", "plain", "actions", "failed"}

\* Types; each promise that waits is the one that the pending timeout settles.
TypeOK ==
    /\ version \in 0 .. MaxVersion
    /\ received \in 0 .. MaxNotifications
    /\ controller \in 0 .. received
    /\ of \in [Notifications -> 0 .. MaxVersion]
    /\ \A n \in Notifications :
         \E size \in Sizes \cup {0} : promise[n] \in [1 .. size -> Promises]
    /\ timer \in Diagnostics \cup {None}
    /\ shown \in [of : 0 .. received, actions : BOOLEAN]
    /\ \A n \in Notifications : \A i \in DOMAIN promise[n] :
         promise[n][i] = "waiting" <=> timer = <<n, i>>

NoPromises == [i \in 1 .. 0 |-> "plain"]

Init ==
    /\ version = 0
    /\ received = 0
    /\ controller = 0
    /\ of = [n \in Notifications |-> 0]
    /\ promise = [n \in Notifications |-> NoPromises]
    /\ timer = None
    /\ shown = [of |-> 0, actions |-> FALSE]

\* A didOpen or didChange takes the next version.
Edit ==
    /\ version < MaxVersion
    /\ version' = version + 1
    /\ UNCHANGED <<received, controller, of, promise, timer, shown>>

-----------------------------------------------------------------------------
(* A notification *)

\* The promises of m, when the timeout is cleared.
Cleared(m) ==
    [i \in DOMAIN promise[m] |-> IF timer = <<m, i>> THEN "cleared" ELSE promise[m][i]]

\* Of size diagnostics, the last one sets the timeout that remains.
TimeoutIfNone(n, size) == IF timer = None THEN <<n, size>> ELSE timer
LastTimeout(n, size) == <<n, size>>

\* lazyLoadCodemirrorDiagnostic for each of size diagnostics: each sets the
\* timeout and clears that of the one before it.
Lazily(n, size) ==
    IF ~EnableCodeActions \/ size = 0
    THEN /\ promise' = [promise EXCEPT ![n] = [i \in 1 .. size |-> "plain"]]
         /\ UNCHANGED timer
    ELSE /\ timer' = LastTimeout(n, size)
         /\ promise' = [m \in Notifications |->
                           IF m # n THEN Cleared(m)
                           ELSE [i \in 1 .. size |->
                                    IF timer' = <<n, i>> THEN "waiting" ELSE "cleared"]]

\* processDiagnostics up to its await, for v of this document or, if other,
\* for another one or without a version.
Notify(v, other, size) ==
    /\ received < MaxNotifications
    /\ received' = received + 1
    /\ controller' = received'
    /\ UNCHANGED version
    /\ \/ /\ other \/ v # version
          /\ UNCHANGED <<of, promise, timer, shown>>
       \/ /\ ~other /\ v = version
          /\ of' = [of EXCEPT ![received'] = v]
          /\ Lazily(received', size)
          /\ shown' = [of |-> received', actions |-> FALSE]

-----------------------------------------------------------------------------
(* Its code actions *)

Aborted(n) == controller # n

\* Whether diagnostics with actions may still be shown.
WantedAtVersion(n) == of[n] = version
Wanted(n) == of[n] = version /\ ~Aborted(n)

\* The promise of diagnostic i settles; processDiagnostics goes on if it is the last.
Settle(n, i, as) ==
    /\ promise' = [promise EXCEPT ![n][i] = as]
    /\ LET settled == \A j \in DOMAIN promise[n] : promise'[n][j] \in {"plain", "actions"}
           enhanced == \E j \in DOMAIN promise[n] : promise'[n][j] = "actions"
       IN shown' = IF settled /\ enhanced /\ Wanted(n) THEN [of |-> n, actions |-> TRUE]
                   ELSE shown

\* The timeout: the query is aborted, there is nothing to ask, or it is asked.
Timeout ==
    /\ timer # None
    /\ timer' = None
    /\ LET n == timer[1]  i == timer[2]
       IN \/ Settle(n, i, "plain")
          \/ /\ ~Aborted(n)
             /\ promise' = [promise EXCEPT ![n][i] = "requesting"]
             /\ UNCHANGED shown
    /\ UNCHANGED <<version, received, controller, of>>

\* requestWithLock returns no actions or some, or throws.
Answer(n, i) ==
    /\ i \in DOMAIN promise[n]
    /\ promise[n][i] = "requesting"
    /\ \/ \E as \in {"plain", "actions"} : Settle(n, i, as)
       \/ /\ promise' = [promise EXCEPT ![n][i] = "failed"]
          /\ UNCHANGED shown
    /\ UNCHANGED <<version, received, controller, of, timer>>

-----------------------------------------------------------------------------
Next ==
    \/ Edit
    \/ \E v \in 1 .. version, other \in BOOLEAN, size \in Sizes : Notify(v, other, size)
    \/ Timeout
    \/ \E d \in Diagnostics : Answer(d[1], d[2])

Spec == Init /\ [][Next]_vars

\* Timeouts fire and requests return or throw (DocSync, LocksSettle, while nobody
\* else takes the lock). Nothing is assumed of the user and of the notifications.
Fairness == /\ WF_vars(Timeout)
            /\ \A d \in Diagnostics : WF_vars(Answer(d[1], d[2]))

FairSpec == Spec /\ Fairness

-----------------------------------------------------------------------------
(* Properties *)

\* "the language server may send many diagnostics for the same document version
\* and it is critical that we respect the **LAST** one" (linting.ts:96-97): what is
\* shown is always of the version of the document, and never of a notification
\* before the one shown, however late code actions arrive.
ShownIsCurrent ==
    [][shown' # shown => of'[shown'.of] = version /\ shown'.of >= shown.of]_vars

\* "After a diagnostic comes in, if no new diagnostics arrive for this period, we
\* enhance the current diagnostics with code actions" (linting.ts:33-34): its
\* diagnostics are shown with their actions, unless there are none, a
\* request fails or the document has another version by then.
ActionsAppear ==
    \A n \in Notifications :
        (shown.of = n /\ DOMAIN promise[n] # {}) ~>
            \/ controller # n \/ version # of[n]
            \/ shown = [of |-> n, actions |-> TRUE]
            \/ \A i \in DOMAIN promise[n] : promise[n][i] = "plain"
            \/ \E i \in DOMAIN promise[n] : promise[n][i] = "failed"

-----------------------------------------------------------------------------
(* A theorem, for any number of notifications, versions and diagnostics:   *)
(* late code actions never bring back diagnostics of the past. Whatever    *)
(* becomes of the promises, only those of the last notification, whose     *)
(* controller it is, can be shown anew.                                    *)

\* Every notification, also one that is ignored, takes the controller, so that
\* none later than the controller's is shown.
IInv ==
    /\ version \in 0 .. MaxVersion
    /\ received \in 0 .. MaxNotifications
    /\ controller = received
    /\ of \in [Notifications -> 0 .. MaxVersion]
    /\ shown \in [of : 0 .. received, actions : BOOLEAN]
    /\ timer \in Diagnostics \cup {None}

\* What is shown by a step.
Current == shown' # shown => of'[shown'.of] = version /\ shown'.of >= shown.of

LEMMA InitIsRight == Init => IInv
BY BoundAssumption DEF Init, IInv, None

LEMMA NotifyIsRight ==
    ASSUME IInv, NEW v \in 1 .. version, NEW other \in BOOLEAN, NEW size \in Sizes,
           Notify(v, other, size)
    PROVE  IInv' /\ Current
<1> DEFINE n == received + 1
<1>1. /\ received' = n /\ controller' = n /\ version' = version /\ n \in Notifications
      /\ received \in Nat
  BY BoundAssumption DEF IInv, Notify, Notifications
<1>2. timer' \in Diagnostics \cup {None}
  <2>1. size # 0 => <<n, size>> \in Diagnostics
    BY <1>1, SizeAssumption DEF Diagnostics
  <2>2. timer' = timer \/ (size # 0 /\ timer' = <<n, size>>)
    BY <1>1 DEF Notify, Lazily, LastTimeout
  <2> QED
    BY <2>1, <2>2 DEF IInv
<1>3. CASE UNCHANGED <<of, promise, timer, shown>>
  BY <1>1, <1>2, <1>3, BoundAssumption DEF IInv, Current, Notifications
<1>4. CASE v = version /\ of' = [of EXCEPT ![n] = v] /\ shown' = [of |-> n, actions |-> FALSE]
  BY <1>1, <1>2, <1>4, BoundAssumption DEF IInv, Current, Notifications
<1> QED
  BY <1>1, <1>3, <1>4 DEF Notify

\* Only the promises of the controller's notification lead to something new.
LEMMA SettleShowsCurrent ==
    ASSUME IInv, NEW n \in Notifications, NEW i, NEW as, Settle(n, i, as), UNCHANGED of
    PROVE  shown' \in [of : 0 .. received, actions : BOOLEAN] /\ Current
<1>1. CASE shown' = shown
  BY <1>1 DEF IInv, Current
<1>2. CASE shown' = [of |-> n, actions |-> TRUE] /\ Wanted(n)
  <2>1. n = received /\ of[n] = version
    BY <1>2 DEF IInv, Wanted, Aborted
  <2> QED
    BY <1>2, <2>1, BoundAssumption DEF IInv, Current
<1> QED
  BY <1>1, <1>2 DEF Settle

LEMMA StepIsRight == IInv /\ [Next]_vars => IInv' /\ Current
<1> SUFFICES ASSUME IInv, [Next]_vars PROVE IInv' /\ Current
  OBVIOUS
<1>1. CASE Edit \/ UNCHANGED vars
  BY <1>1, BoundAssumption DEF IInv, Current, Edit, vars
<1>2. CASE \E v \in 1 .. version, other \in BOOLEAN, size \in Sizes : Notify(v, other, size)
  BY <1>2, NotifyIsRight
<1>3. ASSUME NEW n \in Notifications, NEW i, UNCHANGED <<version, received, controller, of>>,
             timer' \in {timer, None}, UNCHANGED shown \/ \E as : Settle(n, i, as)
      PROVE  IInv' /\ Current
  BY <1>3, SettleShowsCurrent DEF IInv, Current
<1>4. CASE Timeout
  <2>1. timer[1] \in Notifications
    BY <1>4 DEF IInv, Timeout, Diagnostics
  <2> QED
    BY <1>3, <1>4, <2>1 DEF Timeout
<1>5. CASE \E d \in Diagnostics : Answer(d[1], d[2])
  BY <1>3, <1>5 DEF Answer, Diagnostics
<1> QED
  BY <1>1, <1>2, <1>4, <1>5 DEF Next

\* What is shown is of the document's version and not of a notification before
\* the one shown: "it is critical that we respect the **LAST** one"
\* (linting.ts:96-97).
THEOREM LastDiagnosticsShown == Spec => ShownIsCurrent
<1>1. IInv /\ [Next]_vars => [shown' # shown => of'[shown'.of] = version /\ shown'.of >= shown.of]_vars
  BY StepIsRight DEF Current
<1> QED
  BY <1>1, InitIsRight, StepIsRight, PTL DEF Spec, ShownIsCurrent
=============================================================================
