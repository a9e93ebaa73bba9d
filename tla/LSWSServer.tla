----------------------------- MODULE LSWSServer -----------------------------
(***************************************************************************)
(* The session and process lifecycle of the language-server WebSocket      *)
(* server: LSWSServer (sessionMap, sockets, closeSession, shutdown),       *)
(* LSProcManager (procs, eviction) and LSProc (spawn, kill, exit           *)
(* listeners), as they run on one JavaScript event loop.                   *)
(*                                                                         *)
(* An asynchronous activation that is suspended at an await is a task.     *)
(* Continuations of settled promises (phases "ready", "resumed", "loop")   *)
(* run to exhaustion before the loop takes its next event, so every event  *)
(* is guarded by Quiescent.                                                *)
(***************************************************************************)
EXTENDS Naturals, FiniteSets

CONSTANTS
    Sessions,         \* session ids
    NoSession,        \* not a session id
    MaxProcs,         \* LSProcManager.maxProcs; 0 is "unlimited"
    MaxSessionConns,  \* LSWSServer.maxSessionConns; 0 is "undefined"
    KeepLogs,         \* log paths are given: getLogTail runs `tail` and waits for it
    ExitOnBadExit,    \* EXIT_ON_LS_BAD_EXIT = "1"
    IdleShutdown,     \* shutdownAfter is given
    Crashes,          \* a language server may exit without having been signalled
    MaxSpawns,        \* bound: processes spawned in a behaviour
    MaxSockets,       \* bound: WebSockets accepted in a behaviour
    MaxCalls          \* bound: kill, closeSession and shutdown activations alive at once

ASSUME SessionAssumption == NoSession \notin Sessions
ASSUME LimitAssumption == MaxProcs \in Nat /\ MaxSessionConns \in Nat
ASSUME SwitchAssumption ==
    {KeepLogs, ExitOnBadExit, IdleShutdown, Crashes} \subseteq BOOLEAN
ASSUME BoundAssumption ==
    MaxSpawns \in Nat /\ MaxSockets \in Nat /\ MaxCalls \in Nat

\* Processes and sockets are numbered in the order they are created: a smaller
\* process has an earlier spawnedAt, a smaller socket comes first in conns.
Procs == 1 .. MaxSpawns
Conns == 1 .. MaxSockets
NoProc == 0
\* Task p is the "exit" listener of process p; the others are calls.
Calls == (MaxSpawns + 1) .. (MaxSpawns + MaxCalls)
Tasks == Procs \cup Calls
NoTask == 0

VARIABLES
    status,      \* "up", or why process.exit was called: "idle", "bad"
    acceptingConnections,
    timer,       \* the inactivity timeout is pending
    sessionMap,  \* session id -> its process and its registered sockets
    detached,    \* sockets registered in a session object that left sessionMap
    procs,       \* LSProcManager.procs
    os,          \* state of the operating system process
    signalled,   \* processes that were sent SIGTERM while running
    badExit,     \* processes that exited with a non-zero code
    handle,      \* LSProc.proc # null
    owner,       \* the sessionId the process was spawned for
    socket,      \* readyState of each WebSocket
    consumers,   \* process -> sockets whose procOutConsumer still reads it
    task,        \* the suspended or runnable activations
    reports,     \* process -> calls of the user's onProcExit
    shutdownDone \* a call of shutdown() has resolved

envVars  == <<status, acceptingConnections, timer, shutdownDone>>
procVars == <<os, badExit, owner>>
connVars == <<socket, detached, consumers>>
vars == <<envVars, sessionMap, procs, procVars, signalled, handle, connVars,
          task, reports>>

NoSessionData == [proc |-> NoProc, conns |-> {}]
NoTaskData == [kind |-> "none", proc |-> NoProc, sid |-> NoSession,
               phase |-> "free", awaits |-> NoTask]

SessionData == [proc : Procs \cup {NoProc}, conns : SUBSET Conns]
TaskData ==
    [kind   : {"none", "exit", "kill", "close", "shutdown", "idle"},
     proc   : Procs \cup {NoProc},
     sid    : Sessions \cup {NoSession},
     phase  : {"free", "armed", "tail", "ready", "releasing", "resumed", "loop"},
     awaits : Tasks \cup {NoTask}]

\* Every variable has its type, in particular LSProcManager.procs maps a
\* session id to a process and tasks refer to sessions, processes and tasks.
TypeOK ==
    /\ status \in {"up", "idle", "bad"}
    /\ acceptingConnections \in BOOLEAN
    /\ timer \in BOOLEAN
    /\ sessionMap \in [Sessions -> SessionData]
    /\ detached \subseteq Conns
    /\ procs \in [Sessions -> Procs \cup {NoProc}]
    /\ os \in [Procs -> {"unborn", "running", "exited"}]
    /\ signalled \subseteq Procs
    /\ badExit \subseteq Procs
    /\ handle \in [Procs -> BOOLEAN]
    /\ owner \in [Procs -> Sessions \cup {NoSession}]
    /\ socket \in [Conns -> {"unused", "open", "closing", "closed"}]
    /\ consumers \in [Procs -> SUBSET Conns]
    /\ task \in [Tasks -> TaskData]
    /\ reports \in [Procs -> Nat]
    /\ shutdownDone \in BOOLEAN

Init ==
    /\ status = "up"
    /\ acceptingConnections = TRUE
    /\ timer = FALSE
    /\ sessionMap = [s \in Sessions |-> NoSessionData]
    /\ detached = {}
    /\ procs = [s \in Sessions |-> NoProc]
    /\ os = [p \in Procs |-> "unborn"]
    /\ signalled = {}
    /\ badExit = {}
    /\ handle = [p \in Procs |-> FALSE]
    /\ owner = [p \in Procs |-> NoSession]
    /\ socket = [c \in Conns |-> "unused"]
    /\ consumers = [p \in Procs |-> {}]
    /\ task = [t \in Tasks |-> NoTaskData]
    /\ reports = [p \in Procs |-> 0]
    /\ shutdownDone = FALSE

-----------------------------------------------------------------------------
(* The event loop, and the pool of activations *)

Runnable(t) == task[t].phase \in {"ready", "resumed", "loop"}

\* The microtask queue is empty: the loop may take its next event.
Quiescent == status = "up" /\ \A t \in Tasks : ~Runnable(t)

MayConnectAnyTime == Quiescent
MayConnect == Quiescent /\ acceptingConnections

HasSession(s) == sessionMap[s].proc # NoProc
LiveSessions == {s \in Sessions : HasSession(s)}

FreeCalls == {k \in Calls : task[k].phase = "free"}
NextCall(k) == k \in FreeCalls /\ \A j \in FreeCalls : k <= j

\* Bound: an event that needs n calls leaves one more for each live session.
Room(n) == Cardinality(FreeCalls) >= Cardinality(LiveSessions) + n

NextSocket(c) ==
    c \in Conns /\ socket[c] = "unused" /\ \A d \in 1 .. (c - 1) : socket[d] # "unused"

NextProc(p) ==
    p \in Procs /\ os[p] = "unborn" /\ \A q \in 1 .. (p - 1) : os[q] # "unborn"

\* The listener LSProc.kill adds: armed until the process emits "exit", for
\* ever if it has already done so.
KillTask(p) == [kind |-> "kill", proc |-> p, sid |-> owner[p],
                phase |-> "armed", awaits |-> NoTask]

SigtermLost(p) == UNCHANGED signalled
Sigterm(p) == signalled' = signalled \cup {q \in {p} : os[q] = "running"}

\* t ends: the activation that awaits it, if any, becomes runnable.
EndTaskUnresolved(t) == [task EXCEPT ![t] = NoTaskData]
EndTask(t) ==
    [u \in Tasks |->
        CASE u = t -> NoTaskData
          [] u # t /\ task[u].phase = "releasing" /\ task[u].awaits = t ->
                [task[u] EXCEPT !.phase = "resumed", !.awaits = NoTask]
          [] OTHER -> task[u]]

-----------------------------------------------------------------------------
(* handleNewWebsocket: one action for each process it may end up with *)

\* The connections #enforceMaxConnsPerSession closes and forgets: the first
\* ones, until the new one fits.
Excess(s) ==
    IF MaxSessionConns = 0 THEN {}
    ELSE {c \in sessionMap[s].conns :
            Cardinality({d \in sessionMap[s].conns : d > c}) >= MaxSessionConns - 1}

\* #closeWebSocket on each socket of cs.
ClosingSkipped(cs) == socket
Closing(cs) == [c \in Conns |-> IF c \in cs /\ socket[c] = "open"
                                THEN "closing" ELSE socket[c]]

AcceptSocket(c, cs) == socket' = [Closing(cs) EXCEPT ![c] = "open"]

\* procOutConsumer.destroy() for each socket of cs.
ConsumersKept(cs) == consumers
ConsumersWithout(cs) == [p \in Procs |-> consumers[p] \ cs]

\* sessionData?.proc.pid
HasRunningProc(s) == HasSession(s) /\ os[sessionMap[s].proc] = "running"
HasLiveProc(s) == HasSession(s) /\ handle[sessionMap[s].proc]

ConnectJoin(s) ==
    /\ MayConnect
    /\ HasLiveProc(s)
    /\ \E c \in Conns :
        /\ NextSocket(c)
        /\ AcceptSocket(c, Excess(s))
        /\ sessionMap' = [sessionMap EXCEPT ![s].conns = (@ \ Excess(s)) \cup {c}]
        /\ consumers' = [consumers EXCEPT ![sessionMap[s].proc] = @ \cup {c}]
    /\ timer' = IdleShutdown
    /\ UNCHANGED <<status, acceptingConnections, shutdownDone, detached, procs,
                   procVars, signalled, handle, task, reports>>

\* The new session object, which replaces the one it finds.
OpenSession(s, p) ==
    \E c \in Conns :
        /\ NextSocket(c)
        /\ AcceptSocket(c, {})
        /\ sessionMap' = [sessionMap EXCEPT ![s] = [proc |-> p, conns |-> {c}]]
        /\ detached' = detached \cup sessionMap[s].conns
        /\ consumers' = [consumers EXCEPT ![p] = @ \cup {c}]
        /\ timer' = IdleShutdown

\* getOrCreateProc finds an entry; without its streams the answer is a 500.
ConnectExisting(s) ==
    /\ MayConnect
    /\ ~HasLiveProc(s)
    /\ procs[s] # NoProc /\ handle[procs[s]]
    /\ Room(1)
    /\ OpenSession(s, procs[s])
    /\ UNCHANGED <<status, acceptingConnections, shutdownDone, procs, procVars,
                   signalled, handle, task, reports>>

\* #enforceMaxProcs, called before the new process is in procs. Its loop takes
\* at most one process, as procs never outgrows MaxProcs (ProcLimit).
EvictsLate == /\ MaxProcs > 0
              /\ Cardinality({s \in Sessions : procs[s] # NoProc}) > MaxProcs
Evicts == /\ MaxProcs > 0
          /\ Cardinality({s \in Sessions : procs[s] # NoProc}) >= MaxProcs

Oldest(s) == /\ procs[s] # NoProc
             /\ \A r \in Sessions : procs[r] # NoProc => procs[s] <= procs[r]

SpawnTask(s, p) == [kind |-> "exit", proc |-> p, sid |-> s,
                    phase |-> "armed", awaits |-> NoTask]

ConnectSpawn(s) ==
    /\ MayConnect
    /\ ~HasLiveProc(s)
    /\ procs[s] = NoProc
    /\ Room(2)
    /\ \E p \in Procs :
        /\ NextProc(p)
        /\ os' = [os EXCEPT ![p] = "running"]
        /\ handle' = [handle EXCEPT ![p] = TRUE]
        /\ owner' = [owner EXCEPT ![p] = s]
        /\ OpenSession(s, p)
        /\ \/ /\ ~Evicts
              /\ procs' = [procs EXCEPT ![s] = p]
              /\ task' = [task EXCEPT ![p] = SpawnTask(s, p)]
              /\ UNCHANGED signalled
           \/ /\ Evicts
              /\ \E r \in Sessions, k \in Calls :
                    /\ Oldest(r) /\ NextCall(k)
                    /\ Sigterm(procs[r])
                    /\ procs' = [procs EXCEPT ![r] = NoProc, ![s] = p]
                    /\ task' = [task EXCEPT ![p] = SpawnTask(s, p),
                                            ![k] = KillTask(procs[r])]
    /\ UNCHANGED <<status, acceptingConnections, shutdownDone, badExit, reports>>

-----------------------------------------------------------------------------
(* Events of the sockets *)

\* "message": it only postpones the inactivity timeout here.
SocketMessage(c) ==
    /\ Quiescent
    /\ socket[c] = "open"
    /\ timer # IdleShutdown
    /\ timer' = IdleShutdown
    /\ UNCHANGED <<status, acceptingConnections, shutdownDone, sessionMap, procs,
                   procVars, signalled, handle, connVars, task, reports>>

\* "error", of the socket or of a stream attached to it.
SocketError(c) ==
    /\ Quiescent
    /\ socket[c] = "open"
    /\ socket' = [socket EXCEPT ![c] = "closing"]
    /\ UNCHANGED <<envVars, sessionMap, detached, consumers, procs, procVars,
                   signalled, handle, task, reports>>

Registered(c) == c \in detached \/ \E s \in Sessions : c \in sessionMap[s].conns

\* "close": onclose cleans up if its session object still holds the socket.
SocketClose(c) ==
    /\ Quiescent
    /\ socket[c] \in {"open", "closing"}
    /\ socket' = [socket EXCEPT ![c] = "closed"]
    /\ consumers' = IF Registered(c)
                    THEN ConsumersWithout({c}) ELSE consumers
    /\ detached' = detached \ {c}
    /\ sessionMap' = [s \in Sessions |->
                        [sessionMap[s] EXCEPT !.conns = @ \ {c}]]
    /\ timer' = IdleShutdown
    /\ UNCHANGED <<status, acceptingConnections, shutdownDone, procs, procVars,
                   signalled, handle, task, reports>>

-----------------------------------------------------------------------------
(* Process exit, and the asynchronous listeners it starts *)

\* Every listener armed so far starts and runs to its first await, in
\* getLogTail; the process's stdout ends, which ends its consumers.
ProcExit(p) ==
    /\ Quiescent
    /\ os[p] = "running"
    /\ p \in signalled \/ Crashes
    /\ os' = [os EXCEPT ![p] = "exited"]
    /\ badExit' \in {badExit, badExit \cup {p}}
    /\ consumers' = [consumers EXCEPT ![p] = {}]
    /\ task' = [t \in Tasks |->
                  IF task[t].phase = "armed" /\ task[t].proc = p
                  THEN [task[t] EXCEPT !.phase = IF KeepLogs THEN "tail" ELSE "ready"]
                  ELSE task[t]]
    /\ UNCHANGED <<envVars, sessionMap, procs, owner, signalled, handle,
                   socket, detached, reports>>

\* The `tail` commands getLogTail waits for have finished.
TailDone(t) ==
    /\ Quiescent
    /\ task[t].phase = "tail"
    /\ task' = [task EXCEPT ![t].phase = "ready"]
    /\ UNCHANGED <<envVars, sessionMap, procs, procVars, signalled, handle,
                   connVars, reports>>

\* The synchronous part of closeSession; it does nothing without a session.
CloseSession(s) ==
    /\ sessionMap' = [sessionMap EXCEPT ![s] = NoSessionData]
    /\ socket' = Closing(sessionMap[s].conns)
    /\ consumers' = ConsumersWithout(sessionMap[s].conns)
    /\ detached' = detached \cup sessionMap[s].conns

\* releaseProc has a process to kill, and so something to wait for.
MustRelease(s) == HasSession(s) /\ procs[s] # NoProc /\ handle[procs[s]]

\* t sends SIGTERM in the name of session s and waits for the kill listener.
AwaitKill(t, s) ==
    /\ Sigterm(procs[s])
    /\ \E k \in Calls :
        /\ NextCall(k)
        /\ task' = [task EXCEPT ![k] = KillTask(procs[s]),
                                ![t] = [@ EXCEPT !.sid = s, !.phase = "releasing",
                                                 !.awaits = k]]
    /\ UNCHANGED <<procs, handle, reports>>

IsListener(t) == task[t].kind \in {"exit", "kill"}

\* What follows releaseProc: its procs.delete, and for a listener the user's
\* onProcExit, the manager's procs.delete and, for "exit", LSProc.proc = null.
\* These run in one drain of the microtask queue, where only deletions and
\* closeSession calls that find no session could come in between.
Settle(t) ==
    /\ procs' = [procs EXCEPT ![task[t].sid] = NoProc]
    /\ reports' = IF IsListener(t)
                  THEN [reports EXCEPT ![task[t].proc] = @ + 1] ELSE reports
    /\ handle' = IF task[t].kind = "exit"
                 THEN [handle EXCEPT ![task[t].proc] = FALSE] ELSE handle
    /\ task' = EndTask(t)
    /\ UNCHANGED signalled

FatalExit(t) == /\ ExitOnBadExit
                /\ IsListener(t) /\ task[t].proc \in badExit
                /\ HasSession(task[t].sid)

\* process.exit(code)
ServerExit(t) ==
    /\ status = "up" /\ task[t].phase = "ready"
    /\ FatalExit(t)
    /\ status' = "bad"
    /\ UNCHANGED <<acceptingConnections, timer, shutdownDone, sessionMap, procs,
                   procVars, signalled, handle, connVars, task, reports>>

\* A listener after getLogTail, or a call of closeSession.
RunTask(t) ==
    /\ status = "up" /\ task[t].phase = "ready"
    /\ ~FatalExit(t)
    /\ CloseSession(task[t].sid)
    /\ IF MustRelease(task[t].sid) THEN AwaitKill(t, task[t].sid) ELSE Settle(t)
    /\ UNCHANGED <<envVars, procVars>>

\* The kill a closeSession waited for is over.
ResumeTask(t) ==
    /\ status = "up" /\ task[t].phase = "resumed"
    /\ task[t].kind \in {"exit", "kill", "close"}
    /\ Settle(t)
    /\ UNCHANGED <<envVars, sessionMap, procVars, connVars>>

-----------------------------------------------------------------------------
(* closeSession and shutdown, called from outside or by the timeout *)

Call(kind, s, phase) ==
    \E k \in Calls :
        /\ NextCall(k)
        /\ task' = [task EXCEPT ![k] = [kind |-> kind, proc |-> NoProc, sid |-> s,
                                        phase |-> phase, awaits |-> NoTask]]

\* The application calls closeSession for a session that exists.
CallCloseSession(s) ==
    /\ Quiescent
    /\ HasSession(s)
    /\ Room(1)
    /\ Call("close", s, "ready")
    /\ UNCHANGED <<envVars, sessionMap, procs, procVars, signalled, handle,
                   connVars, reports>>

CallShutdown ==
    /\ Quiescent
    /\ Room(1)
    /\ acceptingConnections' = FALSE
    /\ Call("shutdown", NoSession, "loop")
    /\ UNCHANGED <<status, timer, shutdownDone, sessionMap, procs, procVars,
                   signalled, handle, connVars, reports>>

\* The inactivity timeout fires.
IdleTimeout ==
    /\ Quiescent
    /\ timer
    /\ Room(1)
    /\ timer' = FALSE
    /\ acceptingConnections' = FALSE
    /\ Call("idle", NoSession, "loop")
    /\ UNCHANGED <<status, shutdownDone, sessionMap, procs, procVars, signalled,
                   handle, connVars, reports>>

\* One turn of shutdown's loop over the keys of sessionMap.
ShutdownStep(t) ==
    /\ status = "up" /\ task[t].phase = "loop"
    /\ \E s \in LiveSessions :
        /\ CloseSession(s)
        /\ IF MustRelease(s)
           THEN AwaitKill(t, s)
           ELSE /\ procs' = [procs EXCEPT ![s] = NoProc]
                /\ UNCHANGED <<task, signalled, handle, reports>>
    /\ UNCHANGED <<envVars, procVars>>

ShutdownResume(t) ==
    /\ status = "up" /\ task[t].phase = "resumed"
    /\ task[t].kind \in {"shutdown", "idle"}
    /\ procs' = [procs EXCEPT ![task[t].sid] = NoProc]
    /\ task' = [task EXCEPT ![t] = [@ EXCEPT !.sid = NoSession, !.phase = "loop"]]
    /\ UNCHANGED <<envVars, sessionMap, procVars, signalled, handle, connVars,
                   reports>>

\* shutdown() resolves; the timeout's callback then calls process.exit(1).
ShutdownEnd(t) ==
    /\ status = "up" /\ task[t].phase = "loop"
    /\ LiveSessions = {}
    /\ shutdownDone' = TRUE
    /\ status' = IF task[t].kind = "idle" THEN "idle" ELSE status
    /\ task' = EndTask(t)
    /\ UNCHANGED <<acceptingConnections, timer, sessionMap, procs, procVars,
                   signalled, handle, connVars, reports>>

-----------------------------------------------------------------------------
Next ==
    \/ \E s \in Sessions : \/ ConnectJoin(s) \/ ConnectExisting(s) \/ ConnectSpawn(s)
                           \/ CallCloseSession(s)
    \/ \E c \in Conns : SocketMessage(c) \/ SocketError(c) \/ SocketClose(c)
    \/ \E p \in Procs : ProcExit(p)
    \/ \E t \in Tasks : \/ TailDone(t) \/ ServerExit(t) \/ RunTask(t) \/ ResumeTask(t)
                        \/ ShutdownStep(t) \/ ShutdownResume(t) \/ ShutdownEnd(t)
    \/ CallShutdown
    \/ IdleTimeout

Spec == Init /\ [][Next]_vars

Microtask(t) == \/ ServerExit(t) \/ RunTask(t) \/ ResumeTask(t)
                \/ ShutdownStep(t) \/ ShutdownResume(t) \/ ShutdownEnd(t)

\* The loop drains its queue and, having done so, does not pass over what is
\* pending for ever: hence strong fairness, as other events keep making tasks
\* runnable. That `tail` ends and that a language server exits on SIGTERM is
\* assumed of them. Nothing is assumed of clients, crashes or API calls.
Fairness ==
    /\ WF_vars(\E t \in Tasks : Microtask(t))
    /\ SF_vars(\E t \in Tasks : TailDone(t))
    /\ SF_vars(\E p \in signalled : ProcExit(p))

FairSpec == Spec /\ Fairness

-----------------------------------------------------------------------------
(* Safety *)

Running(p) == os[p] = "running" /\ p \notin signalled

\* #enforceMaxProcs keeps procs within maxProcs, whatever exits, evictions,
\* releases and new sessions interleave (LSProcManager.ts:160-185).
ProcLimit ==
    MaxProcs > 0 => Cardinality({s \in Sessions : procs[s] # NoProc}) <= MaxProcs

\* A language server nobody has signalled is the one its session id finds, both
\* in procs and in sessionMap: no late exit handler, whose procs.delete and
\* closeSession go by session id alone, makes the server forget a live process
\* (LSProcManager.ts:144, LSWSServer.ts:200-204).
NoOrphan ==
    \A p \in Procs : Running(p) =>
        /\ procs[owner[p]] = p
        /\ sessionMap[owner[p]].proc = p

\* An open client socket is registered in exactly one session of sessionMap: an
\* exit of the process, closeSession and shutdown all reach it.
NoStranded ==
    \A c \in Conns : socket[c] = "open" =>
        \E s \in Sessions : /\ c \in sessionMap[s].conns
                            /\ \A r \in Sessions : c \in sessionMap[r].conns => r = s

\* Once shutdown() resolves, every language server has been sent SIGTERM or has
\* exited and no socket is open, although sessions kept being opened, evicted
\* and closed while it was called (LSWSServer.ts:483-492).
ShutdownComplete ==
    shutdownDone => /\ \A p \in Procs : ~Running(p)
                    /\ \A c \in Conns : socket[c] # "open"

\* A session holds a process whose handle is still there, so a reconnection
\* never replaces a session that has clients (LSWSServer.ts:234).
SessionHasHandle == \A s \in Sessions : HasSession(s) => handle[sessionMap[s].proc]

\* The output consumer of a socket that has closed is gone: "When the WebSocket
\* closes, it deregisters the consumer and cleans up streams"
\* (LSWSServer.ts:96).
NoConsumerLeak ==
    \A p \in Procs : \A c \in consumers[p] : socket[c] # "closed"

-----------------------------------------------------------------------------
(* Action properties *)

\* "If the session does not exist, it creates a new LSP process"
\* (LSWSServer.ts:93): the process of a session that appears has not exited.
NewSessionHasProcess ==
    [][\A s \in Sessions : ~HasSession(s) /\ HasSession(s)' =>
            os'[sessionMap'[s].proc] = "running"]_vars

-----------------------------------------------------------------------------
(* Liveness, under FairSpec *)

\* The exit listener of p has been called and has yet to close the session.
ExitPending(p) == /\ p # NoProc /\ task[p].kind = "exit"
                  /\ task[p].phase \in {"tail", "ready"}

\* The clients of a process that has exited are disconnected, even if the
\* listener that does it then waits for ever (LSWSServer.ts:188-204, 458-472).
ClientsToldOfExit ==
    \A c \in Conns :
        (\E s \in Sessions : c \in sessionMap[s].conns /\ ExitPending(sessionMap[s].proc))
            ~> (socket[c] # "open" \/ status # "up")

\* The activations that wait for an exit that had been emitted before they
\* listened for it, themselves or through at most n others (LSProc.ts:92).
WaitInVain[n \in Nat] ==
    IF n = 0
    THEN {k \in Calls : task[k].phase = "armed" /\ os[task[k].proc] = "exited"}
    ELSE WaitInVain[n - 1] \cup
         {t \in Tasks : task[t].phase = "releasing" /\ task[t].awaits \in WaitInVain[n - 1]}

\* "A promise that resolves when the server has shut down" (LSWSServer.ts:481):
\* shutdown resolves, whatever calls, evictions and exit handlers release the
\* processes it waits for, and although each of them may wait for others, unless it
\* ends up waiting for the exit of a process that has exited, which kill() does for
\* ever (LSProc.ts:92; LSWSServer.ts:483-492, LSProcManager.ts:155-158).
ShutdownOnlyWaitsInVain ==
    \A t \in Calls : (task[t].kind = "shutdown") ~>
                     (task[t].kind # "shutdown" \/ status # "up"
                        \/ t \in WaitInVain[MaxCalls])
=============================================================================
