------------------------------ MODULE DocSync ------------------------------
(***************************************************************************)
(* The document synchronisation of the editor's language server plugin:    *)
(* LSCoreBase.syncChanges, doWithLock and sendDidOpen, and the p-queue     *)
(* they share (#sendChangesDispatchQueue, concurrency 1).                  *)
(*                                                                         *)
(* A call of syncChanges or doWithLock is suspended at one of its awaits.  *)
(* Continuations of settled promises run, in any order, before the next    *)
(* event; events are guarded by Quiescent. What the plugin keeps is the    *)
(* record core, so that a handler that calls several operations of the     *)
(* queue is a composition of operators on core.                            *)
(***************************************************************************)
EXTENDS Naturals, Sequences, FiniteSets

CONSTANTS
    Locks,       \* calls of doWithLock
    SendDidOpen, \* the option sendDidOpen
    Undo,        \* an edit may bring back an earlier text
    Emptying,    \* an edit may delete the whole text
    MaxEdits,    \* bound: edits in a behaviour
    MaxInits     \* bound: initializations of the client in a behaviour

ASSUME SwitchAssumption == {SendDidOpen, Undo, Emptying} \subseteq BOOLEAN
ASSUME BoundAssumption == MaxEdits \in Nat /\ MaxInits \in Nat

\* Text n is new at the n-th edit; 0 is the text the plugin starts with.
Empty == MaxEdits + 1
Texts == (0 .. MaxEdits) \cup {Empty}

\* The calls of syncChanges: by the n-th update, by doWithLock before and after
\* it holds the lock, and by the lock's timeout.
OnEdit(n) == <<"edit", n>>
Before(l) == <<"before", l>>
After(l) == <<"after", l>>
OnTimeout(l) == <<"timeout", l>>
Calls == {OnEdit(n) : n \in 1 .. MaxEdits}
         \cup UNION {{Before(l), After(l), OnTimeout(l)} : l \in Locks}
NoCall == <<"none", 0>>

ASSUME LockAssumption == Locks \cap Calls = {}

VARIABLES
    doc,     \* the text in the editor
    edits,   \* edits made so far
    inits,   \* initializations of the client so far
    opens,   \* didOpen notifications sent
    core,    \* the state of the plugin, and what it sent last
    timers,  \* locks whose timeout is pending; it is never cleared
    orphans, \* didChange notifications in flight whose job was aborted
    lost,    \* the client's transport is disposed: whatever is sent throws
    closed   \* destroy has sent didClose

connection == <<lost, closed>>
vars == <<doc, edits, inits, opens, core, timers, orphans, connection>>

NoJob == [call |-> NoCall, mode |-> "none"]

CoreType ==
    [queue    : Seq(Calls),              \* jobs added and not started
     running  : [call : Calls \cup {NoCall},
                 mode : {"none", "notify", "stale", "aborted", "failed"}],
     paused   : BOOLEAN,
     version  : Nat,                     \* documentVersion
     lastSent : Texts,                   \* #lastSentChanges
     current  : Calls \cup {NoCall},     \* whose AbortController is current
     aborted  : SUBSET Calls,
     at       : [Calls -> Nat],          \* calledAtVersion
     priority : [Calls -> Nat],
     call     : [Calls -> {"free", "waiting", "resumed", "job", "over"}],
     lock     : [Locks -> {"free", "syncing", "synced", "waiting", "resumed",
                           "locked", "leaving", "resyncing", "over", "failed"}],
     waiters  : Seq(Calls \cup Locks),   \* listeners of the queue's idle event
     woken    : Seq(Calls \cup Locks),   \* those it has told, in that order
     sent     : [text : Texts, version : Nat],
     failed   : BOOLEAN]                 \* history: the last didChange threw, and
                                         \* no initialization has made up for it

\* Types; a call has one job, queued or running, exactly when it awaits one.
TypeOK ==
    /\ doc \in Texts
    /\ edits \in 0 .. MaxEdits /\ inits \in 0 .. MaxInits /\ opens \in Nat
    /\ core \in CoreType
    /\ timers \subseteq Locks
    /\ orphans \in Nat
    /\ lost \in BOOLEAN /\ closed \in BOOLEAN
    /\ \A a \in Calls : core.call[a] = "job" <=>
            \/ core.running.call = a
            \/ \E i \in DOMAIN core.queue : core.queue[i] = a

Init ==
    /\ doc = 0
    /\ edits = 0 /\ inits = 0 /\ opens = 0
    /\ core = [queue |-> << >>, running |-> NoJob, paused |-> FALSE, version |-> 0,
               lastSent |-> Empty, current |-> NoCall, aborted |-> {},
               at |-> [a \in Calls |-> 0], priority |-> [a \in Calls |-> 0],
               call |-> [a \in Calls |-> "free"], lock |-> [l \in Locks |-> "free"],
               waiters |-> << >>, woken |-> << >>,
               sent |-> [text |-> Empty, version |-> 0], failed |-> FALSE]
    /\ timers = {}
    /\ orphans = 0
    /\ lost = FALSE /\ closed = FALSE

Ready == inits > 0  \* client.ready

-----------------------------------------------------------------------------
(* The promises that activations wait for *)

\* The calls of A return; a doWithLock that awaits one of them goes on.
Fulfilled(c, A) ==
    [c EXCEPT !.call = [a \in Calls |-> IF a \in A THEN "over" ELSE @[a]],
              !.lock = [l \in Locks |-> CASE Before(l) \in A -> "synced"
                                          [] After(l) \in A -> "over"
                                          [] OTHER -> @[l]]]

\* The calls of A throw, and so does a doWithLock that awaits one of them.
Rejected(c, A) ==
    [c EXCEPT !.call = [a \in Calls |-> IF a \in A THEN "over" ELSE @[a]],
              !.lock = [l \in Locks |-> IF {Before(l), After(l)} \cap A # {}
                                        THEN "failed" ELSE @[l]]]

\* The queue emits "idle": the listeners go on in the order they came.
Idle(c) ==
    [c EXCEPT !.call = [a \in Calls |-> IF @[a] = "waiting" THEN "resumed" ELSE @[a]],
              !.lock = [l \in Locks |-> IF @[l] = "waiting" THEN "resumed" ELSE @[l]],
              !.woken = @ \o c.waiters,
              !.waiters = << >>]

IsIdle(c) == c.running = NoJob /\ c.queue = << >>

-----------------------------------------------------------------------------
(* p-queue *)

\* The job syncChanges adds, up to its first await. The version counts as used
\* although notify throws.
VersionReused(c) == c.version
NextVersion(c) == c.version + 1
Run(c, a) ==
    IF c.at[a] # c.version
    THEN [c EXCEPT !.running = [call |-> a, mode |-> "stale"]]
    ELSE [c EXCEPT !.running = [call |-> a, mode |-> IF lost THEN "failed" ELSE "notify"],
                   !.version = NextVersion(c),
                   !.sent = IF lost THEN @ ELSE [text |-> doc, version |-> NextVersion(c)],
                   !.failed = lost]

\* concurrency: 1
MayStart(c) == c.running = NoJob

\* #tryToStartAnother. A job whose signal is aborted throws as it is started.
TryToStartAnother(c) ==
    LET front == CHOOSE n \in 0 .. Len(c.queue) :
                    /\ \A i \in 1 .. n : c.queue[i] \in c.aborted
                    /\ n = Len(c.queue) \/ c.queue[n + 1] \notin c.aborted
        thrown == {c.queue[i] : i \in 1 .. front}
        rest == SubSeq(c.queue, front + 1, Len(c.queue))
        left == Rejected([c EXCEPT !.queue = rest, !.aborted = @ \ thrown], thrown)
    IN CASE ~MayStart(c) \/ (c.queue # << >> /\ c.paused) -> c
         [] c.queue = << >> -> IF IsIdle(c) THEN Idle(c) ELSE c
         [] OTHER -> IF rest = << >> THEN Idle(left)
                     ELSE Run([left EXCEPT !.queue = Tail(rest)], Head(rest))

\* #next, when the job that was running has settled.
NextJob(c) == TryToStartAnother([c EXCEPT !.running = NoJob])

Start(c) == IF c.paused THEN TryToStartAnother([c EXCEPT !.paused = FALSE]) ELSE c

\* clear(): the promises of the jobs that were waiting never settle.
Clear(c) ==
    [c EXCEPT !.queue = << >>, !.aborted = {},
              !.call = [a \in Calls |->
                          IF \E i \in DOMAIN c.queue : c.queue[i] = a THEN "over" ELSE @[a]]]

\* add(job, {priority: version}): after those of the same priority.
Add(c, a) ==
    LET ahead == Cardinality({i \in DOMAIN c.queue : c.priority[c.queue[i]] >= c.version})
    IN TryToStartAnother(
        [c EXCEPT !.priority[a] = c.version, !.call[a] = "job",
                  !.queue = SubSeq(@, 1, ahead) \o <<a>> \o SubSeq(@, ahead + 1, Len(@))])

\* abort() of the controller of call b.
Abort(c, b) ==
    [c EXCEPT !.aborted = @ \cup {a \in {b} : \E i \in DOMAIN c.queue : c.queue[i] = a},
              !.running.mode = IF c.running.call = b /\ b # NoCall THEN "aborted" ELSE @]

-----------------------------------------------------------------------------
(* syncChanges *)

UnsentAndIdle(c, text) == c.lastSent # text /\ Ready /\ IsIdle(c)
Unsent(c, text) == c.lastSent # text /\ Ready

\* Up to the await of onIdle; a returns at once if there is nothing to send.
SyncIfUnsent(c, a, text) ==
    IF ~Unsent(c, text) THEN Fulfilled(c, {a})
    ELSE LET d == Clear([c EXCEPT !.at[a] = c.version])
         IN IF IsIdle(d) THEN [d EXCEPT !.call[a] = "resumed"]
            ELSE [d EXCEPT !.call[a] = "waiting", !.waiters = Append(@, a)]
Sync(c, a) == SyncIfUnsent(c, a, doc)

Quiescent ==
    /\ \A a \in Calls : core.call[a] # "resumed"
    /\ \A l \in Locks : core.lock[l] \notin {"synced", "resumed", "leaving"}
    /\ core.running.mode \notin {"stale", "aborted", "failed"}

\* x does not go on before the listeners that were told before it.
InTurn(x) == (\E i \in DOMAIN core.woken : core.woken[i] = x) => Head(core.woken) = x
WentOn(c, x) == [c EXCEPT !.woken = IF @ # << >> /\ Head(@) = x THEN Tail(@) ELSE @]

\* The queue was idle: a aborts the previous controller and adds its job.
AddJob(a) ==
    /\ core.call[a] = "resumed"
    /\ InTurn(a)
    /\ core' = Add([Abort(WentOn(core, a), core.current) EXCEPT !.current = a], a)
    /\ orphans' = IF core.running.mode = "notify" /\ core.running.call = core.current
                  THEN orphans + 1 ELSE orphans
    /\ UNCHANGED <<doc, edits, inits, opens, timers, connection>>

\* A job that was late, whose signal was aborted or whose notify has thrown is over.
JobOver ==
    /\ core.running.mode \in {"stale", "aborted", "failed"}
    /\ core' = NextJob(IF core.running.mode = "stale"
                       THEN Fulfilled(core, {core.running.call})
                       ELSE Rejected(core, {core.running.call}))
    /\ UNCHANGED <<doc, edits, inits, opens, timers, orphans, connection>>

\* notify has resolved. The text of this moment is taken for the one sent.
Notified ==
    /\ Quiescent
    /\ core.running.mode = "notify"
    /\ core' = NextJob(Fulfilled([core EXCEPT !.lastSent = doc], {core.running.call}))
    /\ UNCHANGED <<doc, edits, inits, opens, timers, orphans, connection>>

\* The same, for a job that goes on although its promise was rejected.
OrphanNotified ==
    /\ Quiescent
    /\ orphans > 0
    /\ orphans' = orphans - 1
    /\ core' = [core EXCEPT !.lastSent = doc]
    /\ UNCHANGED <<doc, edits, inits, opens, timers, connection>>

-----------------------------------------------------------------------------
(* The editor and the client *)

\* A transaction changes the document: LSCore.update.
Edit ==
    /\ Quiescent
    /\ ~closed
    /\ edits < MaxEdits
    /\ edits' = edits + 1
    /\ doc' \in ({edits'} \cup (IF Undo THEN 0 .. edits ELSE {})
                          \cup (IF Emptying THEN {Empty} ELSE {})) \ {doc}
    /\ core' = SyncIfUnsent(core, OnEdit(edits'), doc')
    /\ UNCHANGED <<inits, opens, timers, orphans, connection>>

OpensOnce == IF ~SendDidOpen \/ Ready THEN 0 ELSE 2
Opens == IF ~SendDidOpen THEN 0 ELSE IF Ready THEN 1 ELSE 2

\* The client is initialized: onInitialize's handler sends didOpen and, the
\* first time, the plugin's own initialize() sends another.
Initialize ==
    /\ Quiescent
    /\ ~lost
    /\ inits < MaxInits
    /\ inits' = inits + 1
    /\ opens' = opens + Opens
    /\ core' = [core EXCEPT !.version = @ + Opens,
                            !.sent = IF Opens = 0 THEN @
                                     ELSE [text |-> doc, version |-> core.version + Opens],
                            !.failed = @ /\ ~SendDidOpen]
    /\ UNCHANGED <<doc, edits, timers, orphans, connection>>

\* The transport's connection closes, which disposes of it; changeTransport gives
\* the client another, for the same process or one to initialize.
Disconnect ==
    /\ Quiescent
    /\ ~lost
    /\ lost' = TRUE
    /\ UNCHANGED <<doc, edits, inits, opens, core, timers, orphans, closed>>

ChangeTransport ==
    /\ Quiescent
    /\ lost
    /\ lost' = FALSE
    /\ UNCHANGED <<doc, edits, inits, opens, core, timers, orphans, closed>>

\* destroy: the editor is gone; what waits goes on, and so does the handler of
\* onInitialize.
Destroy ==
    /\ Quiescent
    /\ ~closed
    /\ closed' = TRUE
    /\ UNCHANGED <<doc, edits, inits, opens, core, timers, orphans, lost>>

-----------------------------------------------------------------------------
(* doWithLock *)

BeginLock(l) ==
    /\ Quiescent
    /\ core.lock[l] = "free"
    /\ core' = Sync([core EXCEPT !.lock[l] = "syncing"], Before(l))
    /\ UNCHANGED <<doc, edits, inits, opens, timers, orphans, connection>>

\* The first syncChanges has returned: await onIdle().
AwaitIdle(l) ==
    /\ core.lock[l] = "synced"
    /\ core' = IF IsIdle(core) THEN [core EXCEPT !.lock[l] = "resumed"]
               ELSE [core EXCEPT !.lock[l] = "waiting", !.waiters = Append(@, l)]
    /\ UNCHANGED <<doc, edits, inits, opens, timers, orphans, connection>>

PauseForgotten(c) == c
Pause(c) == [c EXCEPT !.paused = TRUE]

\* pause(), the call of callback and the timeout that races with it.
TakeLock(l) ==
    /\ core.lock[l] = "resumed"
    /\ InTurn(l)
    /\ core' = [Pause(WentOn(core, l)) EXCEPT !.lock[l] = "locked"]
    /\ timers' = timers \cup {l}
    /\ UNCHANGED <<doc, edits, inits, opens, orphans, connection>>

\* The finally clause, up to its await.
LeaveUnstarted(c, l) == Sync([c EXCEPT !.lock[l] = "resyncing"], After(l))
Leave(c, l) == Sync([Start(c) EXCEPT !.lock[l] = "resyncing"], After(l))

\* The callback returns or throws.
CallbackSettles(l) ==
    /\ Quiescent
    /\ core.lock[l] = "locked"
    /\ core' = Leave(core, l)
    /\ UNCHANGED <<doc, edits, inits, opens, timers, orphans, connection>>

\* The timeout rejects, which matters if the race is not decided yet.
NotRejected(c, l) == c
RejectRace(c, l) == [c EXCEPT !.lock[l] = IF @ = "locked" THEN "leaving" ELSE @]

\* The lock's timeout, which also fires when the lock was left long ago.
LockTimeout(l) ==
    /\ Quiescent
    /\ l \in timers
    /\ timers' = timers \ {l}
    /\ core' = RejectRace(Sync(Start(core), OnTimeout(l)), l)
    /\ UNCHANGED <<doc, edits, inits, opens, orphans, connection>>

LeaveLock(l) ==
    /\ core.lock[l] = "leaving"
    /\ core' = Leave(core, l)
    /\ UNCHANGED <<doc, edits, inits, opens, timers, orphans, connection>>

-----------------------------------------------------------------------------
Microtask == \/ \E a \in Calls : AddJob(a)
             \/ JobOver
             \/ \E l \in Locks : AwaitIdle(l) \/ TakeLock(l) \/ LeaveLock(l)

Next == \/ Microtask
        \/ Notified \/ OrphanNotified
        \/ Edit \/ Initialize \/ Disconnect \/ ChangeTransport \/ Destroy
        \/ \E l \in Locks : BeginLock(l) \/ CallbackSettles(l) \/ LockTimeout(l)

Spec == Init /\ [][Next]_vars

\* Microtasks run, notifications are written and timeouts fire. Nothing is
\* assumed of the user, of the client's initialization or of the callbacks.
Fairness == /\ WF_vars(Microtask)
            /\ WF_vars(Notified) /\ WF_vars(OrphanNotified)
            /\ \A l \in Locks : WF_vars(LockTimeout(l))

FairSpec == Spec /\ Fairness

-----------------------------------------------------------------------------
(* Properties *)

\* Somebody runs its callback; nothing is left to do for a document that is open.
Held == \E l \in Locks : core.lock[l] = "locked"
AtRest == Quiescent /\ Ready /\ ~core.failed /\ IsIdle(core)

\* Nothing is lost: when no job is left, the server has the editor's text,
\* although calls of syncChanges clear and abort each other's jobs and take for
\* sent a text that was typed after the notification (LSPlugin.ts:167-199). A
\* didChange that threw is made up for by the next one, or by the didOpen of an
\* initialization (185, 78-82).
SyncedWhenIdle == AtRest => core.sent.text = doc

\* The queue is paused only while some doWithLock runs its callback, in
\* whatever order calls, timeouts and finally clauses pause and start it
\* (LSPlugin.ts:132, 138, 150).
PausedIsLocked == core.paused => Held

\* The versions the server is sent increase, over edits, locks and
\* re-initializations (LSPlugin.ts:188, 206).
VersionsIncrease ==
    [][core'.sent # core.sent => core'.sent.version > core.sent.version]_vars

\* "Changes will continue to be queued, but none will be sent to the LSP"
\* (LSPlugin.ts:121) while a doWithLock runs its callback. A didOpen is none.
NoChangeDuringLock ==
    [][(\E l \in Locks : core.lock[l] = "locked" /\ core'.lock[l] = "locked")
            /\ opens' = opens => core'.sent = core.sent]_vars

\* All of this together: what the server has is a copy of the editor's text of one
\* moment, with a later version than the copy before; it stays as it is, but for a
\* didOpen, while the only doWithLock runs its callback; and it is the editor's text
\* when no job is left (LSPlugin.ts:77-83, 118-199).
Document ==
    INSTANCE Mirror WITH First <- 0, None <- Empty, text <- doc, version <- core.version,
                         copy <- core.sent, held <- Held, settled <- AtRest
Mirrored == Document!Spec

\* The job l waits for was cleared: its promise never settles.
Dropped(l) == \/ core.lock[l] = "syncing" /\ core.call[Before(l)] = "over"
              \/ core.lock[l] = "resyncing" /\ core.call[After(l)] = "over"

\* "@returns The result of the callback." (LSPlugin.ts:124): when nothing happens by
\* itself any more, neither a job nor a timeout, every doWithLock has returned or
\* thrown, whatever was typed, timed out or lost. The exception is one whose job
\* was dropped by somebody else's syncChanges while another doWithLock had the queue
\* paused: it is left there for ever (LSPlugin.ts:126-153, 175-177).
LocksSettle ==
    Quiescent /\ core.running = NoJob /\ timers = {} =>
        \A l \in Locks : \/ core.lock[l] \in {"free", "over", "failed"}
                         \/ Dropped(l) /\ \E m \in Locks \ {l} : core.lock[m] # "free"

\* When the user stops typing and the locks are left, the server ends up with
\* the editor's text for good (LSPlugin.ts:148-152, 167-199), although the editor
\* is destroyed before it is sent (235-243), unless the last attempt threw.
EventuallySynced == <>[](Ready /\ ~core.failed => core.sent.text = doc)
=============================================================================
