-------------------------- MODULE LSWSServerProofs --------------------------
(***************************************************************************)
(* Theorems about LSWSServer, for every number of sessions, processes and  *)
(* sockets and every limit. The safety of the lifecycle rests on one       *)
(* inductive invariant, IInv: what a suspended activation will delete when *)
(* it resumes goes by session id, so the invariant says, for each phase of *)
(* an activation, which processes that session id can still stand for.     *)
(***************************************************************************)
EXTENDS LSWSServer, FiniteSetTheorems, TLAPS

Born(p) == os[p] # "unborn"

\* Processes in the two maps were spawned for the session id they are under.
ProcInv ==
    /\ \A p \in Procs : Born(p) => owner[p] \in Sessions
    /\ \A p \in Procs : os[p] = "running" => handle[p]
    /\ \A s \in Sessions : procs[s] # NoProc => owner[procs[s]] = s /\ Born(procs[s])
    /\ \A s \in Sessions : HasSession(s) =>
            owner[sessionMap[s].proc] = s /\ Born(sessionMap[s].proc)

\* Sockets are registered in at most one session, which exists.
ConnInv ==
    /\ \A s \in Sessions : sessionMap[s].conns # {} => HasSession(s)
    /\ \A s \in Sessions : \A c \in sessionMap[s].conns : socket[c] # "unused"
    /\ \A s, r \in Sessions : \A c \in sessionMap[s].conns \cap sessionMap[r].conns : s = r

\* An activation that is neither free nor in shutdown's loop is about a
\* session; a listener is about the session of its process.
TaskInv ==
    \A t \in Tasks :
        /\ task[t].phase = "free" => task[t].kind = "none"
        /\ task[t].phase \in {"armed", "tail", "ready", "releasing", "resumed"} =>
                task[t].sid \in Sessions
        /\ task[t].phase \in {"armed", "tail"} => IsListener(t)
        /\ task[t].phase = "ready" => task[t].kind \in {"exit", "kill", "close"}
        /\ IsListener(t) => /\ task[t].proc \in Procs
                            /\ Born(task[t].proc)
                            /\ task[t].sid = owner[task[t].proc]
        /\ task[t].phase \in {"tail", "ready", "releasing", "resumed"} /\ IsListener(t) =>
                os[task[t].proc] = "exited"
        /\ task[t].phase = "loop" => task[t].kind \in {"shutdown", "idle"}
        /\ task[t].kind \in {"shutdown", "idle"} => ~acceptingConnections

\* The kill an activation waits for is a call for the same session; when it is
\* over, no unsignalled process of that session is left.
AwaitInv ==
    \A t \in Tasks :
        /\ task[t].phase = "releasing" =>
                /\ task[t].awaits \in Calls
                /\ task[task[t].awaits].kind = "kill"
                /\ task[task[t].awaits].sid = task[t].sid
        /\ task[t].phase = "resumed" =>
                \A p \in Procs : Running(p) => owner[p] # task[t].sid

\* Neither map holds p under the session id it was spawned for.
Forgotten(p) == procs[owner[p]] # p /\ sessionMap[owner[p]].proc # p

\* The exit listener of a process can only run on when the maps have forgotten
\* the process: otherwise it waits for a kill that was called too late.
ExitInv ==
    \A t \in Tasks : task[t].kind = "exit" =>
        /\ task[t].phase = "releasing" =>
                \/ Forgotten(task[t].proc)
                \/ /\ task[task[t].awaits].proc = task[t].proc
                   /\ task[task[t].awaits].phase = "armed"
        /\ task[t].phase = "resumed" => Forgotten(task[t].proc)

ShutdownInv == shutdownDone => ~acceptingConnections

IInv == /\ TypeOK /\ ProcInv /\ ConnInv /\ TaskInv /\ AwaitInv /\ ExitInv
        /\ ShutdownInv /\ NoOrphan /\ NoStranded /\ SessionHasHandle
        /\ ShutdownComplete
-----------------------------------------------------------------------------
(* Constants *)

LEMMA ConstFacts ==
  /\ NoProc \notin Procs /\ NoTask \notin Tasks /\ NoSession \notin Sessions
  /\ Procs \subseteq Tasks /\ Calls \subseteq Tasks /\ Procs \cap Calls = {}
  /\ IdleShutdown \in BOOLEAN /\ Procs \subseteq Nat
BY SessionAssumption, BoundAssumption, SwitchAssumption
   DEF Procs, Calls, Tasks, NoProc, NoTask

LEMMA InitIInv == Init => IInv
<1> SUFFICES ASSUME Init PROVE IInv
  OBVIOUS
<1>1. TypeOK
  BY ConstFacts DEF Init, TypeOK, SessionData, TaskData, NoSessionData, NoTaskData
<1>2. /\ ProcInv /\ ConnInv /\ TaskInv /\ AwaitInv /\ ExitInv /\ ShutdownInv
      /\ NoOrphan /\ NoStranded /\ SessionHasHandle /\ ShutdownComplete
  BY ConstFacts DEF Init, ProcInv, ConnInv, TaskInv, AwaitInv, ExitInv,
     ShutdownInv, NoOrphan, NoStranded, SessionHasHandle, ShutdownComplete,
     NoSessionData, NoTaskData, HasSession, Running, Born, IsListener
<1> QED  BY <1>1, <1>2 DEF IInv

-----------------------------------------------------------------------------
(* The operators the actions share, as the equations the proofs use *)

LEMMA TaskFields ==
  ASSUME TypeOK, NEW t \in Tasks
  PROVE  /\ task[t].kind \in {"none", "exit", "kill", "close", "shutdown", "idle"}
         /\ task[t].proc \in Procs \cup {NoProc}
         /\ task[t].sid \in Sessions \cup {NoSession}
         /\ task[t].phase \in {"free", "armed", "tail", "ready", "releasing",
                               "resumed", "loop"}
         /\ task[t].awaits \in Tasks \cup {NoTask}
  BY DEF TypeOK, TaskData

LEMMA EndTaskFacts ==
  ASSUME TypeOK, NEW t \in Tasks, task' = EndTask(t)
  PROVE  /\ task' \in [Tasks -> TaskData]
         /\ task'[t] = NoTaskData
         /\ \A u \in Tasks : u # t =>
              /\ task'[u].kind = task[u].kind
              /\ task'[u].proc = task[u].proc
              /\ task'[u].sid = task[u].sid
              /\ ~(task[u].phase = "releasing" /\ task[u].awaits = t) =>
                    task'[u] = task[u]
              /\ task[u].phase = "releasing" /\ task[u].awaits = t =>
                    task'[u].phase = "resumed"
<1>1. NoTaskData \in TaskData
  BY ConstFacts DEF NoTaskData, TaskData
<1>2. \A u \in Tasks : [task[u] EXCEPT !.phase = "resumed", !.awaits = NoTask] \in TaskData
  <2> TAKE u \in Tasks
  <2>1. task[u] \in TaskData
    BY DEF TypeOK
  <2> QED  BY <2>1 DEF TaskData
<1>3. task' \in [Tasks -> TaskData]
  BY <1>1, <1>2 DEF EndTask, TypeOK
<1>4. task'[t] = NoTaskData
  BY DEF EndTask
<1>5. ASSUME NEW u \in Tasks, u # t
      PROVE  /\ task'[u].kind = task[u].kind
             /\ task'[u].proc = task[u].proc
             /\ task'[u].sid = task[u].sid
             /\ ~(task[u].phase = "releasing" /\ task[u].awaits = t) =>
                   task'[u] = task[u]
             /\ task[u].phase = "releasing" /\ task[u].awaits = t =>
                   task'[u].phase = "resumed"
  BY <1>5 DEF EndTask, TypeOK, TaskData
<1> QED  BY <1>3, <1>4, <1>5

LEMMA SettleFacts ==
  ASSUME TypeOK, NEW t \in Tasks, Settle(t)
  PROVE  /\ procs' \in [Sessions -> Procs \cup {NoProc}]
         /\ \A s \in Sessions :
              procs'[s] = IF s = task[t].sid THEN NoProc ELSE procs[s]
         /\ handle' \in [Procs -> BOOLEAN]
         /\ \A p \in Procs :
              handle'[p] = IF task[t].kind = "exit" /\ p = task[t].proc
                           THEN FALSE ELSE handle[p]
         /\ reports' \in [Procs -> Nat]
         /\ task' = EndTask(t)
         /\ signalled' = signalled
<1>1. /\ procs' \in [Sessions -> Procs \cup {NoProc}]
      /\ \A s \in Sessions :
           procs'[s] = IF s = task[t].sid THEN NoProc ELSE procs[s]
  BY DEF Settle, TypeOK
<1>2. /\ handle' \in [Procs -> BOOLEAN]
      /\ \A p \in Procs :
           handle'[p] = IF task[t].kind = "exit" /\ p = task[t].proc
                        THEN FALSE ELSE handle[p]
  <2>1. CASE task[t].kind = "exit"
    BY <2>1 DEF Settle, TypeOK
  <2>2. CASE task[t].kind # "exit"
    BY <2>2 DEF Settle, TypeOK
  <2> QED  BY <2>1, <2>2
<1>3. reports' \in [Procs -> Nat]
  <2>1. reports' = reports \/ reports' = [reports EXCEPT ![task[t].proc] = @ + 1]
    BY DEF Settle
  <2>2. [reports EXCEPT ![task[t].proc] = @ + 1] \in [Procs -> Nat]
    <3>1. CASE task[t].proc \in Procs
      BY <3>1 DEF TypeOK
    <3>2. CASE task[t].proc \notin Procs
      BY <3>2 DEF TypeOK
    <3> QED  BY <3>1, <3>2
  <2> QED  BY <2>1, <2>2 DEF TypeOK
<1> QED  BY <1>1, <1>2, <1>3 DEF Settle

LEMMA CloseFacts ==
  ASSUME TypeOK, NEW s \in Sessions, CloseSession(s)
  PROVE  /\ sessionMap' \in [Sessions -> SessionData]
         /\ sessionMap'[s].proc = NoProc /\ sessionMap'[s].conns = {}
         /\ \A r \in Sessions : r # s => sessionMap'[r] = sessionMap[r]
         /\ socket' \in [Conns -> {"unused", "open", "closing", "closed"}]
         /\ \A c \in Conns : socket'[c] = IF c \in sessionMap[s].conns /\ socket[c] = "open"
                                          THEN "closing" ELSE socket[c]
         /\ consumers' \in [Procs -> SUBSET Conns]
         /\ detached' \subseteq Conns
<1>1. sessionMap[s].conns \subseteq Conns
  BY DEF TypeOK, SessionData
<1>2. NoSessionData \in SessionData
  BY DEF NoSessionData, SessionData
<1> QED
  BY <1>1, <1>2 DEF CloseSession, Closing, ConsumersWithout, NoSessionData, TypeOK

LEMMA AwaitFacts ==
  ASSUME TypeOK, NEW t \in Tasks, NEW s \in Sessions, procs[s] # NoProc,
         task[t].phase # "free", AwaitKill(t, s)
  PROVE  /\ task' \in [Tasks -> TaskData]
         /\ task'[t].kind = task[t].kind /\ task'[t].proc = task[t].proc
         /\ task'[t].sid = s /\ task'[t].phase = "releasing"
         /\ \E k \in Calls :
              /\ k # t /\ task[k].phase = "free"
              /\ task'[t].awaits = k
              /\ task'[k].kind = "kill" /\ task'[k].phase = "armed"
              /\ task'[k].proc = procs[s] /\ task'[k].sid = owner[procs[s]]
              /\ \A u \in Tasks \ {k, t} : task'[u] = task[u]
         /\ signalled' \subseteq Procs
         /\ \A p \in Procs : Running(p) /\ p # procs[s] => p \notin signalled'
         /\ \A p \in Procs : p \in signalled => p \in signalled'
         /\ os[procs[s]] = "running" => procs[s] \in signalled'
         /\ UNCHANGED <<procs, handle, reports>>
<1>1. PICK k \in Calls :
        /\ NextCall(k)
        /\ task' = [task EXCEPT ![k] = KillTask(procs[s]),
                                ![t] = [@ EXCEPT !.sid = s, !.phase = "releasing",
                                                 !.awaits = k]]
  BY DEF AwaitKill
<1>2. task[k].phase = "free" /\ k # t /\ k \in Tasks
  BY <1>1, ConstFacts DEF NextCall, FreeCalls
<1>3. procs[s] \in Procs
  BY DEF TypeOK
<1>4. KillTask(procs[s]) \in TaskData
  BY <1>3, ConstFacts DEF KillTask, TaskData, TypeOK
<1>5. [task[t] EXCEPT !.sid = s, !.phase = "releasing", !.awaits = k] \in TaskData
  BY <1>2, ZenonT(60) DEF TypeOK, TaskData
<1>6. /\ task' \in [Tasks -> TaskData]
      /\ task'[t] = [task[t] EXCEPT !.sid = s, !.phase = "releasing", !.awaits = k]
      /\ task'[k] = KillTask(procs[s])
      /\ \A u \in Tasks \ {k, t} : task'[u] = task[u]
  BY <1>1, <1>2, <1>4, <1>5 DEF TypeOK
<1>7. /\ task'[t].kind = task[t].kind /\ task'[t].proc = task[t].proc
      /\ task'[t].sid = s /\ task'[t].phase = "releasing" /\ task'[t].awaits = k
  BY <1>6 DEF TypeOK, TaskData
<1>8. /\ task'[k].kind = "kill" /\ task'[k].phase = "armed"
      /\ task'[k].proc = procs[s] /\ task'[k].sid = owner[procs[s]]
  BY <1>6 DEF KillTask
<1>9. /\ signalled' \subseteq Procs
      /\ \A p \in Procs : Running(p) /\ p # procs[s] => p \notin signalled'
      /\ \A p \in Procs : p \in signalled => p \in signalled'
      /\ os[procs[s]] = "running" => procs[s] \in signalled'
      /\ UNCHANGED <<procs, handle, reports>>
  BY <1>3 DEF AwaitKill, Sigterm, Running, TypeOK
<1> QED  BY <1>2, <1>6, <1>7, <1>8, <1>9

\* closeSession kills the process of its session and waits.
LEMMA ReleaseStep ==
  ASSUME IInv, NEW t \in Tasks, NEW s \in Sessions,
         task[t].phase \in {"ready", "loop"},
         task[t].phase = "ready" => task[t].sid = s,
         CloseSession(s), MustRelease(s), AwaitKill(t, s),
         UNCHANGED <<envVars, procVars>>
  PROVE  IInv'
<1> DEFINE q == procs[s]
<1>a. /\ TypeOK /\ q \in Procs /\ owner[q] = s /\ Born(q)
  BY DEF IInv, TypeOK, ProcInv, MustRelease
<1>b. PICK k \in Calls :
        /\ k # t /\ task[k].phase = "free" /\ task[k].kind = "none"
        /\ task'[t].awaits = k
        /\ task'[k].kind = "kill" /\ task'[k].phase = "armed"
        /\ task'[k].proc = q /\ task'[k].sid = s
        /\ \A u \in Tasks \ {k, t} : task'[u] = task[u]
  BY <1>a, AwaitFacts, ConstFacts DEF MustRelease, IInv, TaskInv
<1>c. /\ task' \in [Tasks -> TaskData]
      /\ task'[t].kind = task[t].kind /\ task'[t].proc = task[t].proc
      /\ task'[t].sid = s /\ task'[t].phase = "releasing"
      /\ signalled' \subseteq Procs
      /\ \A p \in Procs : Running(p) /\ p # q => p \notin signalled'
      /\ \A p \in Procs : p \in signalled => p \in signalled'
      /\ os[q] = "running" => q \in signalled'
      /\ UNCHANGED <<procs, handle, reports>>
  BY <1>a, AwaitFacts DEF MustRelease
<1>d. /\ sessionMap' \in [Sessions -> SessionData]
      /\ sessionMap'[s].proc = NoProc /\ sessionMap'[s].conns = {}
      /\ \A r \in Sessions : r # s => sessionMap'[r] = sessionMap[r]
      /\ socket' \in [Conns -> {"unused", "open", "closing", "closed"}]
      /\ \A c \in Conns : socket'[c] = IF c \in sessionMap[s].conns /\ socket[c] = "open"
                                       THEN "closing" ELSE socket[c]
      /\ consumers' \in [Procs -> SUBSET Conns]
      /\ detached' \subseteq Conns
  BY <1>a, CloseFacts
<1>e. /\ UNCHANGED <<status, acceptingConnections, timer, shutdownDone, os, badExit, owner>>
      /\ k \in Tasks /\ t \in Tasks
  BY <1>b, ConstFacts DEF envVars, procVars
<1>f. \A p \in Procs : Running(p)' => Running(p) /\ owner[p] # s
  BY <1>a, <1>c, <1>e DEF Running, IInv, NoOrphan
<1>1. TypeOK'
  BY <1>c, <1>d, <1>e DEF IInv, TypeOK
<1>2. ProcInv'
  BY <1>c, <1>d, <1>e DEF IInv, ProcInv, HasSession, Born
<1>3. ConnInv'
  BY <1>a, <1>d, ZenonT(60) DEF IInv, ConnInv, HasSession, TypeOK, SessionData
<1>4. TaskInv'
  BY <1>a, <1>b, <1>c, <1>e DEF IInv, TaskInv, IsListener, Born
<1>5. AwaitInv'
  <2> SUFFICES ASSUME NEW u \in Tasks PROVE
        /\ task'[u].phase = "releasing" =>
                /\ task'[u].awaits \in Calls
                /\ task'[task'[u].awaits].kind = "kill"
                /\ task'[task'[u].awaits].sid = task'[u].sid
        /\ task'[u].phase = "resumed" =>
                \A p \in Procs : Running(p)' => owner'[p] # task'[u].sid
    BY DEF AwaitInv
  <2>1. CASE u = t
    BY <2>1, <1>b, <1>c
  <2>2. CASE u = k
    BY <2>2, <1>b
  <2>3. CASE u # t /\ u # k
    <3>1. task'[u] = task[u]
      BY <2>3, <1>b
    <3>2. task[u].phase = "releasing" =>
             /\ task[u].awaits \in Calls /\ task[u].awaits # k
             /\ task'[task[u].awaits].kind = "kill"
             /\ task'[task[u].awaits].sid = task[u].sid
      <4> SUFFICES ASSUME task[u].phase = "releasing"
                   PROVE  /\ task[u].awaits \in Calls /\ task[u].awaits # k
                          /\ task'[task[u].awaits].kind = "kill"
                          /\ task'[task[u].awaits].sid = task[u].sid
        OBVIOUS
      <4>1. /\ task[u].awaits \in Calls /\ task[u].awaits \in Tasks
            /\ task[task[u].awaits].kind = "kill"
            /\ task[task[u].awaits].sid = task[u].sid
        BY ConstFacts DEF IInv, AwaitInv
      <4>2. CASE task[u].awaits = t
        BY <4>1, <4>2, <1>b, <1>c DEF IInv, TaskInv
      <4>3. CASE task[u].awaits # t
        BY <4>1, <4>3, <1>b
      <4> QED  BY <4>2, <4>3
    <3> QED  BY <3>1, <3>2, <1>e, <1>f DEF IInv, AwaitInv
  <2> QED  BY <2>1, <2>2, <2>3
<1>6. ExitInv'
  <2> SUFFICES ASSUME NEW u \in Tasks, task'[u].kind = "exit" PROVE
        /\ task'[u].phase = "releasing" =>
              \/ Forgotten(task[u].proc)'
              \/ /\ task'[task'[u].awaits].proc = task'[u].proc
                 /\ task'[task'[u].awaits].phase = "armed"
        /\ task'[u].phase = "resumed" => Forgotten(task[u].proc)'
    BY DEF ExitInv
  <2>1. \A p \in Procs : Forgotten(p) /\ Born(p) => Forgotten(p)'
    BY <1>a, <1>c, <1>d, <1>e, ConstFacts DEF Forgotten, IInv, ProcInv
  <2>2. CASE u = t
    <3>1. task[t].proc \in Procs /\ owner[task[t].proc] = s
      BY <2>2, <1>c, <1>e DEF IInv, TaskInv, IsListener
    <3> QED  BY <2>2, <3>1, <1>b, <1>c, <1>d, <1>e, ConstFacts DEF Forgotten
  <2>3. CASE u # t /\ u # k
    <3>1. task'[u] = task[u]
      BY <2>3, <1>b
    <3>2. task[u].proc \in Procs /\ Born(task[u].proc)
      BY <3>1 DEF IInv, TaskInv, IsListener
    <3>3. task[u].phase = "releasing" =>
             /\ task[u].awaits \in Calls /\ task[u].awaits # k
             /\ task[u].awaits = t => task[t].phase # "armed"
      BY <1>b, <1>c, <1>e, <2>3, ConstFacts DEF IInv, AwaitInv, TaskInv, IsListener
    <3>4. Forgotten(task[u].proc) => Forgotten(task[u].proc)'
      BY <2>1, <3>1, <3>2 DEF Forgotten
    <3>5. CASE task[u].phase = "releasing"
      <4>1. task[task[u].awaits].phase = "armed" =>
               task'[task[u].awaits] = task[task[u].awaits]
        BY <3>3, <3>5, <1>b, ConstFacts
      <4> QED  BY <3>1, <3>4, <3>5, <4>1 DEF IInv, ExitInv
    <3>6. CASE task[u].phase # "releasing"
      BY <3>1, <3>4, <3>6 DEF IInv, ExitInv
    <3> QED  BY <3>5, <3>6
  <2> QED  BY <2>2, <2>3, <1>b
<1>7. ShutdownInv'
  BY <1>e DEF IInv, ShutdownInv
<1>8. NoOrphan'
  BY <1>c, <1>d, <1>e DEF IInv, NoOrphan, ProcInv, Running, Born
<1>9. NoStranded'
  BY <1>a, <1>d, ZenonT(60) DEF IInv, NoStranded, TypeOK, SessionData
<1>10. SessionHasHandle'
  BY <1>c, <1>d DEF IInv, SessionHasHandle, HasSession
<1>11. ShutdownComplete'
  BY <1>d, <1>e, <1>f DEF IInv, ShutdownComplete
<1> QED  BY <1>1, <1>2, <1>3, <1>4, <1>5, <1>6, <1>7, <1>8, <1>9, <1>10, <1>11 DEF IInv

\* A listener, or a closeSession, ends.
LEMMA SettleStep ==
  ASSUME IInv, NEW t \in Tasks, Settle(t),
         task[t].phase \in {"ready", "resumed"},
         task[t].kind \in {"exit", "kill", "close"},
         \A p \in Procs : Running(p) => owner[p] # task[t].sid,
         task[t].kind = "exit" =>
            \A s \in Sessions : sessionMap'[s].proc # task[t].proc,
         UNCHANGED <<envVars, procVars>>,
         \/ CloseSession(task[t].sid)
         \/ UNCHANGED <<sessionMap, connVars>>
  PROVE  IInv'
<1> DEFINE s == task[t].sid
<1>a. TypeOK /\ s \in Sessions
  BY DEF IInv, TaskInv
<1>b. /\ procs' \in [Sessions -> Procs \cup {NoProc}]
      /\ \A r \in Sessions : procs'[r] = IF r = s THEN NoProc ELSE procs[r]
      /\ handle' \in [Procs -> BOOLEAN]
      /\ \A p \in Procs : handle'[p] = IF task[t].kind = "exit" /\ p = task[t].proc
                                       THEN FALSE ELSE handle[p]
      /\ reports' \in [Procs -> Nat]
      /\ signalled' = signalled
  BY <1>a, SettleFacts
<1>c. /\ task' \in [Tasks -> TaskData]
      /\ task'[t].kind = "none" /\ task'[t].phase = "free"
      /\ \A u \in Tasks : u # t =>
            /\ task'[u].kind = task[u].kind
            /\ task'[u].proc = task[u].proc
            /\ task'[u].sid = task[u].sid
            /\ ~(task[u].phase = "releasing" /\ task[u].awaits = t) =>
                  task'[u] = task[u]
            /\ task[u].phase = "releasing" /\ task[u].awaits = t =>
                  task'[u].phase = "resumed"
  <2>1. task' = EndTask(t)
    BY <1>a, SettleFacts
  <2> QED  BY <1>a, <2>1, EndTaskFacts DEF NoTaskData
<1>d. /\ sessionMap' \in [Sessions -> SessionData]
      /\ \A r \in Sessions : \/ sessionMap'[r] = sessionMap[r]
                             \/ sessionMap'[r].proc = NoProc /\ sessionMap'[r].conns = {}
      /\ socket' \in [Conns -> {"unused", "open", "closing", "closed"}]
      /\ \A c \in Conns : \/ socket'[c] = socket[c] /\ \A r \in Sessions :
                                 c \in sessionMap[r].conns /\ socket[c] = "open" =>
                                    sessionMap'[r] = sessionMap[r]
                          \/ socket'[c] = "closing" /\ socket[c] = "open"
      /\ consumers' \in [Procs -> SUBSET Conns]
      /\ detached' \subseteq Conns
      /\ \A r \in Sessions : r # s => sessionMap'[r] = sessionMap[r]
  <2>1. CASE CloseSession(s)
    BY <1>a, <2>1, CloseFacts DEF IInv, ConnInv
  <2>2. CASE UNCHANGED <<sessionMap, connVars>>
    BY <1>a, <2>2 DEF TypeOK, connVars
  <2> QED  BY <2>1, <2>2
<1>e. UNCHANGED <<status, acceptingConnections, timer, shutdownDone, os, badExit, owner>>
  BY DEF envVars, procVars
<1>f. IsListener(t) => /\ task[t].proc \in Procs /\ s = owner[task[t].proc]
                       /\ os[task[t].proc] = "exited"
  BY DEF IInv, TaskInv
<1>1. TypeOK'
  BY <1>b, <1>c, <1>d, <1>e DEF IInv, TypeOK
<1>2. ProcInv'
  <2>1. \A p \in Procs : Born(p)' => owner'[p] \in Sessions
    BY <1>e DEF IInv, ProcInv, Born
  <2>2. \A p \in Procs : os'[p] = "running" => handle'[p]
    BY <1>b, <1>e, <1>f DEF IInv, ProcInv, IsListener
  <2>3. \A r \in Sessions : procs'[r] # NoProc =>
            owner'[procs'[r]] = r /\ Born(procs[r])' /\ procs'[r] = procs[r]
    BY <1>b, <1>e DEF IInv, ProcInv, Born
  <2>4. \A r \in Sessions : HasSession(r)' =>
            owner'[sessionMap'[r].proc] = r /\ Born(sessionMap[r].proc)'
    BY <1>d, <1>e DEF IInv, ProcInv, Born, HasSession
  <2> QED  BY <2>1, <2>2, <2>3, <2>4 DEF ProcInv, Born
<1>3. ConnInv'
  <2>1. \A r \in Sessions : \A c \in sessionMap'[r].conns :
            c \in Conns /\ c \in sessionMap[r].conns
    BY <1>a, <1>d DEF TypeOK, SessionData
  <2>2. \A r \in Sessions : sessionMap'[r].conns # {} => HasSession(r)'
    BY <1>d DEF IInv, ConnInv, HasSession
  <2>3. \A r \in Sessions : \A c \in sessionMap'[r].conns : socket'[c] # "unused"
    BY <2>1, <1>d DEF IInv, ConnInv
  <2> QED  BY <2>1, <2>2, <2>3 DEF IInv, ConnInv
<1>4. TaskInv'
  BY <1>c, <1>e DEF IInv, TaskInv, IsListener, Born
<1>5. AwaitInv'
  <2> SUFFICES ASSUME NEW u \in Tasks PROVE
        /\ task'[u].phase = "releasing" =>
                /\ task'[u].awaits \in Calls
                /\ task'[task'[u].awaits].kind = "kill"
                /\ task'[task'[u].awaits].sid = task'[u].sid
        /\ task'[u].phase = "resumed" =>
                \A p \in Procs : Running(p)' => owner'[p] # task'[u].sid
    BY DEF AwaitInv
  <2>1. CASE u = t
    BY <2>1, <1>c
  <2>2. CASE u # t /\ task[u].phase = "releasing" /\ task[u].awaits = t
    BY <2>2, <1>b, <1>c, <1>e DEF IInv, AwaitInv, Running
  <2>3. CASE u # t /\ ~(task[u].phase = "releasing" /\ task[u].awaits = t)
    <3>1. task'[u] = task[u]
      BY <2>3, <1>c
    <3>2. task[u].phase = "releasing" =>
             /\ task[u].awaits \in Calls
             /\ task'[task[u].awaits].kind = "kill"
             /\ task'[task[u].awaits].sid = task[u].sid
      BY <2>3, <1>c, ConstFacts, ZenonT(60) DEF IInv, AwaitInv
    <3> QED  BY <3>1, <3>2, <1>b, <1>e DEF IInv, AwaitInv, Running
  <2> QED  BY <2>1, <2>2, <2>3
<1>6. ExitInv'
  <2> SUFFICES ASSUME NEW u \in Tasks, task'[u].kind = "exit" PROVE
        /\ task'[u].phase = "releasing" =>
              \/ Forgotten(task[u].proc)'
              \/ /\ task'[task'[u].awaits].proc = task'[u].proc
                 /\ task'[task'[u].awaits].phase = "armed"
        /\ task'[u].phase = "resumed" => Forgotten(task[u].proc)'
    BY DEF ExitInv
  <2>1. u # t /\ task[u].kind = "exit" /\ task'[u].proc = task[u].proc
    BY <1>c
  <2>2. task[u].proc \in Procs /\ owner[task[u].proc] \in Sessions
    BY <2>1 DEF IInv, TaskInv, ProcInv, IsListener
  <2>3. Forgotten(task[u].proc) => Forgotten(task[u].proc)'
    BY <2>1, <2>2, <1>b, <1>d, <1>e, ConstFacts DEF Forgotten
  <2>4. CASE task[u].phase = "releasing" /\ task[u].awaits = t
    BY <2>1, <2>3, <2>4, <1>c DEF IInv, ExitInv
  <2>5. CASE ~(task[u].phase = "releasing" /\ task[u].awaits = t)
    <3>1. task'[u] = task[u]
      BY <2>1, <2>5, <1>c
    <3>2. CASE task[u].phase = "releasing"
      <4>1. task[u].awaits \in Tasks /\ task[u].awaits # t
        BY <2>5, <3>2, ConstFacts DEF IInv, AwaitInv
      <4>2. task[task[u].awaits].phase = "armed" =>
               task'[task[u].awaits] = task[task[u].awaits]
        BY <4>1, <1>c
      <4> QED  BY <2>1, <2>3, <3>1, <3>2, <4>2 DEF IInv, ExitInv
    <3>3. CASE task[u].phase # "releasing"
      BY <2>1, <2>3, <3>1, <3>3 DEF IInv, ExitInv
    <3> QED  BY <3>2, <3>3
  <2> QED  BY <2>4, <2>5
<1>7. ShutdownInv'
  BY <1>e DEF IInv, ShutdownInv
<1>8. NoOrphan'
  BY <1>b, <1>d, <1>e DEF IInv, NoOrphan, ProcInv, Running, Born
<1>9. NoStranded'
  BY ConstFacts, <1>b, <1>c, <1>d, <1>e DEF IInv, NoStranded, TypeOK
<1>10. SessionHasHandle'
  <2> SUFFICES ASSUME NEW r \in Sessions, HasSession(r)' PROVE handle'[sessionMap'[r].proc]
    BY DEF SessionHasHandle
  <2>1. sessionMap'[r] = sessionMap[r] /\ sessionMap[r].proc \in Procs
    BY <1>a, <1>d DEF HasSession, TypeOK, SessionData
  <2> QED  BY <2>1, <1>b, ZenonT(60) DEF IInv, SessionHasHandle, HasSession
<1>11. ShutdownComplete'
  BY <1>b, <1>d, <1>e DEF IInv, ShutdownComplete, Running
<1> QED  BY <1>1, <1>2, <1>3, <1>4, <1>5, <1>6, <1>7, <1>8, <1>9, <1>10, <1>11 DEF IInv

LEMMA RunStep ==
  ASSUME IInv, NEW t \in Tasks, RunTask(t)
  PROVE  IInv'
<1> DEFINE s == task[t].sid
<1>a. /\ task[t].phase = "ready" /\ task[t].kind \in {"exit", "kill", "close"}
      /\ s \in Sessions
      /\ CloseSession(s) /\ UNCHANGED <<envVars, procVars>>
  BY DEF RunTask, IInv, TaskInv
<1>1. CASE MustRelease(s)
  BY <1>a, <1>1, ReleaseStep DEF RunTask
<1>2. CASE ~MustRelease(s)
  <2>1. \A p \in Procs : Running(p) => owner[p] # s
    BY <1>a, <1>2
       DEF MustRelease, IInv, NoOrphan, ProcInv, Running, TypeOK, HasSession, NoProc, Procs
  <2>2. task[t].kind = "exit" =>
            \A r \in Sessions : sessionMap'[r].proc # task[t].proc
    BY <1>a, CloseFacts, ConstFacts DEF IInv, TaskInv, ProcInv, IsListener, HasSession
  <2>3. Settle(t)
    BY <1>2 DEF RunTask
  <2> QED  BY <1>a, <2>1, <2>2, <2>3, SettleStep
<1> QED  BY <1>1, <1>2

LEMMA ResumeStep ==
  ASSUME IInv, NEW t \in Tasks, ResumeTask(t)
  PROVE  IInv'
<1>1. /\ task[t].phase = "resumed" /\ task[t].kind \in {"exit", "kill", "close"}
      /\ Settle(t) /\ UNCHANGED <<envVars, procVars>>
      /\ UNCHANGED <<sessionMap, connVars>>
  BY DEF ResumeTask, envVars, procVars, connVars
<1>2. \A p \in Procs : Running(p) => owner[p] # task[t].sid
  BY <1>1 DEF IInv, AwaitInv
<1>3. task[t].kind = "exit" =>
        \A s \in Sessions : sessionMap'[s].proc # task[t].proc
  BY <1>1, ConstFacts DEF IInv, ExitInv, ProcInv, TaskInv, Forgotten, HasSession, IsListener
<1> QED  BY <1>1, <1>2, <1>3, SettleStep

LEMMA ShutdownLoopStep ==
  ASSUME IInv, NEW t \in Tasks, ShutdownStep(t)
  PROVE  IInv'
<1>a. PICK s \in Sessions :
        /\ HasSession(s) /\ CloseSession(s)
        /\ IF MustRelease(s)
           THEN AwaitKill(t, s)
           ELSE /\ procs' = [procs EXCEPT ![s] = NoProc]
                /\ UNCHANGED <<task, signalled, handle, reports>>
  BY DEF ShutdownStep, LiveSessions
<1>b. task[t].phase = "loop" /\ UNCHANGED <<envVars, procVars>>
  BY DEF ShutdownStep
<1>1. CASE MustRelease(s)
  BY <1>a, <1>b, <1>1, ReleaseStep
<1>2. CASE ~MustRelease(s)
  <2>a. /\ procs' = [procs EXCEPT ![s] = NoProc]
        /\ UNCHANGED <<task, signalled, handle, reports>>
        /\ UNCHANGED <<status, acceptingConnections, timer, shutdownDone, os, badExit, owner>>
    BY <1>a, <1>b, <1>2 DEF envVars, procVars
  <2>b. /\ sessionMap' \in [Sessions -> SessionData]
        /\ sessionMap'[s].proc = NoProc /\ sessionMap'[s].conns = {}
        /\ \A r \in Sessions : r # s => sessionMap'[r] = sessionMap[r]
        /\ socket' \in [Conns -> {"unused", "open", "closing", "closed"}]
        /\ \A c \in Conns : socket'[c] = IF c \in sessionMap[s].conns /\ socket[c] = "open"
                                         THEN "closing" ELSE socket[c]
        /\ consumers' \in [Procs -> SUBSET Conns]
        /\ detached' \subseteq Conns
    BY <1>a, CloseFacts DEF IInv
  <2>c. \A p \in Procs : Running(p) => owner[p] # s
    BY <1>a, <1>2, ConstFacts
       DEF MustRelease, IInv, NoOrphan, ProcInv, Running, TypeOK, HasSession
  <2>1. TypeOK'
    BY <2>a, <2>b DEF IInv, TypeOK
  <2>2. ProcInv'
    BY <2>a, <2>b DEF IInv, ProcInv, Born, HasSession
  <2>3. ConnInv'
    BY <2>a, <2>b DEF IInv, ConnInv, HasSession, TypeOK, SessionData
  <2>4. TaskInv'
    BY <2>a DEF IInv, TaskInv, IsListener, Born
  <2>5. AwaitInv'
    BY <2>a DEF IInv, AwaitInv, Running
  <2>6. ExitInv'
    BY ConstFacts, <2>a, <2>b DEF IInv, ExitInv, TaskInv, IsListener, Forgotten
  <2>7. ShutdownInv'
    BY <2>a DEF IInv, ShutdownInv
  <2>8. NoOrphan'
    BY <2>a, <2>b, <2>c DEF IInv, NoOrphan, ProcInv, Running, Born
  <2>9. NoStranded'
    <3>1. SUFFICES ASSUME NEW c \in Conns, socket'[c] = "open"
                   PROVE  \E r \in Sessions :
                             /\ c \in sessionMap'[r].conns
                             /\ \A q \in Sessions : c \in sessionMap'[q].conns => q = r
      BY DEF NoStranded
    <3>2. socket[c] = "open" /\ c \notin sessionMap[s].conns
      BY <2>b, <3>1
    <3>3. PICK r \in Sessions :
             /\ c \in sessionMap[r].conns
             /\ \A q \in Sessions : c \in sessionMap[q].conns => q = r
      BY <3>2 DEF IInv, NoStranded
    <3>4. \A q \in Sessions : c \in sessionMap'[q].conns => q = r
      BY <2>b, <3>3
    <3> QED  BY <2>b, <3>2, <3>3, <3>4
  <2>10. SessionHasHandle'
    BY <2>a, <2>b DEF IInv, SessionHasHandle, HasSession
  <2>11. ShutdownComplete'
    BY <2>a, <2>b DEF IInv, ShutdownComplete, Running
  <2> QED  BY <2>1, <2>2, <2>3, <2>4, <2>5, <2>6, <2>7, <2>8, <2>9, <2>10, <2>11 DEF IInv
<1> QED  BY <1>1, <1>2

LEMMA ShutdownEndStep ==
  ASSUME IInv, NEW t \in Tasks, ShutdownEnd(t)
  PROVE  IInv'
<1>a. /\ task' \in [Tasks -> TaskData]
      /\ task'[t].kind = "none" /\ task'[t].phase = "free"
      /\ \A u \in Tasks : u # t => task'[u] = task[u]
  <2>1. task' = EndTask(t) /\ task[t].phase = "loop" /\ TypeOK
    BY DEF ShutdownEnd, IInv
  <2>2. \A u \in Tasks : ~(task[u].phase = "releasing" /\ task[u].awaits = t)
    BY <2>1 DEF IInv, AwaitInv, TaskInv
  <2> QED  BY <2>1, <2>2, EndTaskFacts DEF NoTaskData
<1>b. /\ status' \in {"up", "idle", "bad"} /\ shutdownDone' = TRUE
      /\ UNCHANGED <<acceptingConnections, timer, sessionMap, procs, os, badExit,
                     owner, signalled, handle, socket, detached, consumers, reports>>
      /\ task[t].phase = "loop"
  BY DEF ShutdownEnd, procVars, connVars, IInv, TypeOK
<1>c. \A s \in Sessions : ~HasSession(s)
  BY DEF ShutdownEnd, LiveSessions
<1>1. TypeOK'
  BY <1>a, <1>b DEF IInv, TypeOK
<1>2. ProcInv'
  BY <1>b DEF IInv, ProcInv, Born, HasSession
<1>3. ConnInv'
  BY <1>b DEF IInv, ConnInv, HasSession
<1>4. TaskInv'
  BY <1>a, <1>b DEF IInv, TaskInv, IsListener, Born
<1>5. AwaitInv'
  <2> SUFFICES ASSUME NEW u \in Tasks PROVE
        /\ task'[u].phase = "releasing" =>
                /\ task'[u].awaits \in Calls
                /\ task'[task'[u].awaits].kind = "kill"
                /\ task'[task'[u].awaits].sid = task'[u].sid
        /\ task'[u].phase = "resumed" =>
                \A p \in Procs : Running(p)' => owner'[p] # task'[u].sid
    BY DEF AwaitInv
  <2>1. CASE u = t
    BY <2>1, <1>a
  <2>2. CASE u # t
    <3>1. task'[u] = task[u]
      BY <2>2, <1>a
    <3>2. task[u].phase = "releasing" =>
             /\ task[u].awaits \in Calls /\ task[u].awaits # t
             /\ task'[task[u].awaits] = task[task[u].awaits]
      BY <1>a, <1>b, ConstFacts DEF IInv, AwaitInv, TaskInv
    <3> QED  BY <3>1, <3>2, <1>b DEF IInv, AwaitInv, Running
  <2> QED  BY <2>1, <2>2
<1>6. ExitInv'
  <2> SUFFICES ASSUME NEW u \in Tasks, task'[u].kind = "exit" PROVE
        /\ task'[u].phase = "releasing" =>
              \/ Forgotten(task[u].proc)'
              \/ /\ task'[task'[u].awaits].proc = task'[u].proc
                 /\ task'[task'[u].awaits].phase = "armed"
        /\ task'[u].phase = "resumed" => Forgotten(task[u].proc)'
    BY DEF ExitInv
  <2>1. u # t /\ task'[u] = task[u]
    BY <1>a
  <2>2. Forgotten(task[u].proc) => Forgotten(task[u].proc)'
    BY <2>1, <1>b DEF Forgotten
  <2>3. task[u].phase = "releasing" =>
           task'[task[u].awaits] = task[task[u].awaits]
    BY <1>a, <1>b, ConstFacts DEF IInv, AwaitInv, TaskInv
  <2> QED  BY <2>1, <2>2, <2>3 DEF IInv, ExitInv
<1>7. ShutdownInv'
  BY <1>b DEF IInv, TaskInv, ShutdownInv
<1>8. NoOrphan'
  BY <1>b DEF IInv, NoOrphan, Running
<1>9. NoStranded'
  BY <1>b DEF IInv, NoStranded
<1>10. SessionHasHandle'
  BY <1>b DEF IInv, SessionHasHandle, HasSession
<1>11. ShutdownComplete'
  BY ConstFacts, <1>b, <1>c
     DEF IInv, ProcInv, ConnInv, NoOrphan, NoStranded, ShutdownComplete, HasSession, Running, Born
<1> QED  BY <1>1, <1>2, <1>3, <1>4, <1>5, <1>6, <1>7, <1>8, <1>9, <1>10, <1>11 DEF IInv

-----------------------------------------------------------------------------
(* Events of the sockets and of the processes *)

LEMMA MessageStep ==
  ASSUME IInv, NEW c \in Conns, SocketMessage(c)
  PROVE  IInv'
<1>1. /\ timer' \in BOOLEAN
      /\ UNCHANGED <<status, acceptingConnections, shutdownDone, sessionMap,
                     detached, procs, os, signalled, badExit, handle, owner,
                     socket, consumers, task, reports>>
  BY ConstFacts DEF SocketMessage, procVars, connVars
<1>2. TypeOK'
  BY <1>1 DEF IInv, TypeOK
<1>3. /\ ProcInv' /\ ConnInv' /\ TaskInv' /\ AwaitInv' /\ ExitInv'
  BY <1>1 DEF IInv, ProcInv, ConnInv, TaskInv, AwaitInv, ExitInv, HasSession,
     Running, Born, IsListener, Forgotten
<1>4. ShutdownInv' /\ NoOrphan' /\ NoStranded' /\ SessionHasHandle' /\ ShutdownComplete'
  BY <1>1 DEF IInv, ShutdownInv, NoOrphan, NoStranded, SessionHasHandle,
     ShutdownComplete, HasSession, Running
<1> QED  BY <1>2, <1>3, <1>4 DEF IInv

LEMMA ServerExitStep ==
  ASSUME IInv, NEW t \in Tasks, ServerExit(t)
  PROVE  IInv'
<1>1. /\ status' \in {"up", "idle", "bad"}
      /\ UNCHANGED <<timer, acceptingConnections, shutdownDone, sessionMap,
                     detached, procs, os, signalled, badExit, handle, owner,
                     socket, consumers, task, reports>>
  BY DEF ServerExit, procVars, connVars
<1>2. TypeOK'
  BY <1>1 DEF IInv, TypeOK
<1>3. /\ ProcInv' /\ ConnInv' /\ TaskInv' /\ AwaitInv' /\ ExitInv'
  BY <1>1 DEF IInv, ProcInv, ConnInv, TaskInv, AwaitInv, ExitInv, HasSession,
     Running, Born, IsListener, Forgotten
<1>4. ShutdownInv' /\ NoOrphan' /\ NoStranded' /\ SessionHasHandle' /\ ShutdownComplete'
  BY <1>1 DEF IInv, ShutdownInv, NoOrphan, NoStranded, SessionHasHandle,
     ShutdownComplete, HasSession, Running
<1> QED  BY <1>2, <1>3, <1>4 DEF IInv

\* A socket that starts or ends its closing handshake, and perhaps leaves its
\* session object.
LEMMA ErrorStep ==
  ASSUME IInv, NEW c \in Conns, SocketError(c)
  PROVE  IInv'
<1>1. /\ socket' = [socket EXCEPT ![c] = "closing"]
      /\ UNCHANGED <<status, timer, acceptingConnections, shutdownDone, sessionMap,
                     detached, procs, os, signalled, badExit, handle, owner,
                     consumers, task, reports>>
  BY DEF SocketError, procVars, envVars
<1>2. TypeOK'
  BY <1>1 DEF IInv, TypeOK
<1>3. /\ ProcInv' /\ TaskInv' /\ AwaitInv' /\ ExitInv'
  BY <1>1 DEF IInv, ProcInv, TaskInv, AwaitInv, ExitInv, HasSession,
     Running, Born, IsListener, Forgotten
<1>4. ConnInv' /\ NoStranded' /\ ShutdownComplete'
  BY <1>1 DEF IInv, ConnInv, NoStranded, ShutdownComplete, TypeOK, HasSession, Running
<1>5. ShutdownInv' /\ NoOrphan' /\ SessionHasHandle'
  BY <1>1 DEF IInv, ShutdownInv, NoOrphan, SessionHasHandle, HasSession, Running
<1> QED  BY <1>2, <1>3, <1>4, <1>5 DEF IInv

LEMMA CloseStep ==
  ASSUME IInv, NEW c \in Conns, SocketClose(c)
  PROVE  IInv'
<1>1. /\ socket' = [socket EXCEPT ![c] = "closed"]
      /\ timer' \in BOOLEAN
      /\ detached' \subseteq Conns
      /\ consumers' \in [Procs -> SUBSET Conns]
      /\ UNCHANGED <<status, acceptingConnections, shutdownDone, procs, os,
                     signalled, badExit, handle, owner, task, reports>>
  BY ConstFacts DEF SocketClose, procVars, ConsumersWithout, IInv, TypeOK
<1>2. \A s \in Sessions : /\ sessionMap[s] \in SessionData
                          /\ sessionMap'[s] = [sessionMap[s] EXCEPT !.conns = @ \ {c}]
  BY DEF SocketClose, IInv, TypeOK
<1>3. \A s \in Sessions : /\ sessionMap'[s] \in SessionData
                          /\ sessionMap'[s].proc = sessionMap[s].proc
                          /\ sessionMap'[s].conns = sessionMap[s].conns \ {c}
  <2> TAKE s \in Sessions
  <2>1. /\ sessionMap[s] \in SessionData
        /\ sessionMap'[s] = [sessionMap[s] EXCEPT !.conns = @ \ {c}]
    BY <1>2
  <2> QED  BY <2>1 DEF SessionData
<1>4. sessionMap' \in [Sessions -> SessionData]
  BY <1>3 DEF SocketClose
<1>5. TypeOK'
  BY <1>1, <1>4 DEF IInv, TypeOK
<1>6. ProcInv'
  BY <1>1, <1>3 DEF IInv, ProcInv, HasSession, Born
<1>7. ConnInv'
  BY <1>1, <1>3 DEF IInv, ConnInv, HasSession, TypeOK
<1>8. TaskInv' /\ AwaitInv'
  BY <1>1 DEF IInv, TaskInv, AwaitInv, Running, Born, IsListener
<1>9. ExitInv'
  <2>1. \A p \in Procs : Born(p) => (Forgotten(p)' <=> Forgotten(p))
    BY <1>1, <1>3 DEF IInv, ProcInv, Forgotten
  <2> QED  BY <2>1, <1>1 DEF IInv, ExitInv, TaskInv, IsListener, Forgotten
<1>10. NoOrphan'
  BY <1>1, <1>3 DEF IInv, NoOrphan, ProcInv, Running, Born
<1>11. NoStranded'
  BY <1>1, <1>3 DEF IInv, NoStranded, TypeOK
<1>12. SessionHasHandle'
  BY <1>1, <1>3 DEF IInv, SessionHasHandle, HasSession
<1>13. ShutdownInv' /\ ShutdownComplete'
  BY <1>1 DEF IInv, ShutdownInv, ShutdownComplete, Running, TypeOK
<1> QED  BY <1>5, <1>6, <1>7, <1>8, <1>9, <1>10, <1>11, <1>12, <1>13 DEF IInv

LEMMA ProcExitStep ==
  ASSUME IInv, NEW p \in Procs, ProcExit(p)
  PROVE  IInv'
<1> DEFINE Fires(t) == task[t].phase = "armed" /\ task[t].proc = p
<1>1. /\ os[p] = "running" /\ os' = [os EXCEPT ![p] = "exited"]
      /\ badExit' \subseteq Procs
      /\ consumers' \in [Procs -> SUBSET Conns]
      /\ UNCHANGED <<status, timer, acceptingConnections, shutdownDone, sessionMap,
                     detached, procs, signalled, handle, owner, socket, reports>>
  BY DEF ProcExit, envVars, IInv, TypeOK
<1>2. \A t \in Tasks : task[t] \in TaskData
  BY DEF IInv, TypeOK
<1>3. \A t \in Tasks : Fires(t) =>
        task'[t] = [task[t] EXCEPT !.phase = IF KeepLogs THEN "tail" ELSE "ready"]
  BY DEF ProcExit
<1>4. \A t \in Tasks :
        /\ task'[t] \in TaskData
        /\ task'[t].kind = task[t].kind /\ task'[t].proc = task[t].proc
        /\ task'[t].sid = task[t].sid /\ task'[t].awaits = task[t].awaits
        /\ Fires(t) => task'[t].phase \in {"tail", "ready"}
        /\ ~Fires(t) => task'[t] = task[t]
  <2> TAKE t \in Tasks
  <2>1. CASE Fires(t)
    BY <2>1, <1>2, <1>3, ZenonT(60) DEF TaskData
  <2>2. CASE ~Fires(t)
    BY <2>2, <1>2 DEF ProcExit
  <2> QED  BY <2>1, <2>2
<1>5. task' \in [Tasks -> TaskData]
  BY <1>4 DEF ProcExit
<1>6. \A q \in Procs : (Running(q)' => Running(q)) /\ (Born(q)' <=> Born(q))
  BY <1>1 DEF Running, Born, IInv, TypeOK
<1>7. TypeOK'
  BY <1>1, <1>5 DEF IInv, TypeOK
<1>8. ProcInv'
  BY <1>1, <1>6 DEF IInv, ProcInv, HasSession, TypeOK, Born, SessionData
<1>9. TaskInv'
  BY <1>1, <1>4, <1>6 DEF IInv, TaskInv, IsListener, TypeOK
<1>10. AwaitInv'
  <2> SUFFICES ASSUME NEW u \in Tasks PROVE
        /\ task'[u].phase = "releasing" =>
                /\ task'[u].awaits \in Calls
                /\ task'[task'[u].awaits].kind = "kill"
                /\ task'[task'[u].awaits].sid = task'[u].sid
        /\ task'[u].phase = "resumed" =>
                \A q \in Procs : Running(q)' => owner'[q] # task'[u].sid
    BY DEF AwaitInv
  <2>1. task'[u].phase \in {"releasing", "resumed"} => task'[u] = task[u]
    BY <1>4
  <2>2. task[u].phase = "releasing" =>
           /\ task'[task[u].awaits].kind = task[task[u].awaits].kind
           /\ task'[task[u].awaits].sid = task[task[u].awaits].sid
    BY <1>4, ConstFacts DEF IInv, AwaitInv
  <2> QED  BY <2>1, <2>2, <1>1, <1>6 DEF IInv, AwaitInv
<1>11. ExitInv'
  <2> SUFFICES ASSUME NEW u \in Tasks, task'[u].kind = "exit" PROVE
        /\ task'[u].phase = "releasing" =>
              \/ Forgotten(task[u].proc)'
              \/ /\ task'[task'[u].awaits].proc = task'[u].proc
                 /\ task'[task'[u].awaits].phase = "armed"
        /\ task'[u].phase = "resumed" => Forgotten(task[u].proc)'
    BY DEF ExitInv
  <2>1. Forgotten(task[u].proc)' <=> Forgotten(task[u].proc)
    BY <1>1, <1>4 DEF Forgotten
  <2>2. task'[u].phase \in {"releasing", "resumed"} =>
           task'[u] = task[u] /\ task[u].proc # p
    BY <1>1, <1>4 DEF IInv, TaskInv, IsListener
  <2>3. CASE task[u].phase = "releasing"
    <3>1. task[u].awaits \in Tasks
      BY <2>3, ConstFacts DEF IInv, AwaitInv
    <3> QED  BY <2>1, <2>2, <2>3, <3>1, <1>4 DEF IInv, ExitInv
  <2>4. CASE task[u].phase # "releasing"
    BY <2>1, <2>2, <2>4, <1>4 DEF IInv, ExitInv
  <2> QED  BY <2>3, <2>4
<1>12. ConnInv' /\ NoStranded' /\ SessionHasHandle' /\ ShutdownInv'
  BY <1>1 DEF IInv, ConnInv, NoStranded, SessionHasHandle, ShutdownInv, HasSession
<1>13. NoOrphan' /\ ShutdownComplete'
  BY <1>1, <1>6 DEF IInv, NoOrphan, ShutdownComplete
<1> QED  BY <1>7, <1>8, <1>9, <1>10, <1>11, <1>12, <1>13 DEF IInv

LEMMA TailStep ==
  ASSUME IInv, NEW t \in Tasks, TailDone(t)
  PROVE  IInv'
<1>1. /\ task[t].phase = "tail"
      /\ UNCHANGED <<status, timer, acceptingConnections, shutdownDone, sessionMap,
                     detached, procs, os, signalled, badExit, handle, owner,
                     socket, consumers, reports>>
  BY DEF TailDone, envVars, procVars, connVars
<1>2. /\ task' = [task EXCEPT ![t].phase = "ready"] /\ task[t] \in TaskData
      /\ task \in [Tasks -> TaskData]
  BY DEF TailDone, IInv, TypeOK
<1>3. [task[t] EXCEPT !.phase = "ready"] \in TaskData
  BY <1>2 DEF TaskData
<1>4. /\ task' \in [Tasks -> TaskData]
      /\ task'[t].kind = task[t].kind /\ task'[t].proc = task[t].proc
      /\ task'[t].sid = task[t].sid /\ task'[t].phase = "ready"
      /\ \A u \in Tasks : u # t => task'[u] = task[u]
  BY <1>2, <1>3 DEF TaskData
<1>5. TypeOK'
  BY <1>1, <1>4 DEF IInv, TypeOK
<1>6. TaskInv'
  BY <1>1, <1>4 DEF IInv, TaskInv, IsListener, Born
<1>7. AwaitInv'
  <2> SUFFICES ASSUME NEW u \in Tasks PROVE
        /\ task'[u].phase = "releasing" =>
                /\ task'[u].awaits \in Calls
                /\ task'[task'[u].awaits].kind = "kill"
                /\ task'[task'[u].awaits].sid = task'[u].sid
        /\ task'[u].phase = "resumed" =>
                \A q \in Procs : Running(q)' => owner'[q] # task'[u].sid
    BY DEF AwaitInv
  <2>1. task'[u].phase \in {"releasing", "resumed"} => task'[u] = task[u]
    BY <1>4
  <2>2. task[u].phase = "releasing" =>
           /\ task'[task[u].awaits].kind = task[task[u].awaits].kind
           /\ task'[task[u].awaits].sid = task[task[u].awaits].sid
    BY <1>4, ConstFacts DEF IInv, AwaitInv
  <2> QED  BY <2>1, <2>2, <1>1 DEF IInv, AwaitInv, Running
<1>8. ExitInv'
  <2> SUFFICES ASSUME NEW u \in Tasks, task'[u].kind = "exit" PROVE
        /\ task'[u].phase = "releasing" =>
              \/ Forgotten(task[u].proc)'
              \/ /\ task'[task'[u].awaits].proc = task'[u].proc
                 /\ task'[task'[u].awaits].phase = "armed"
        /\ task'[u].phase = "resumed" => Forgotten(task[u].proc)'
    BY <1>4 DEF ExitInv
  <2>1. task'[u].phase \in {"releasing", "resumed"} => task'[u] = task[u]
    BY <1>4
  <2>2. task[u].phase = "releasing" /\ task[task[u].awaits].phase = "armed" =>
           task'[task[u].awaits] = task[task[u].awaits]
    BY <1>1, <1>4, ConstFacts DEF IInv, AwaitInv
  <2>3. Forgotten(task[u].proc)' <=> Forgotten(task[u].proc)
    BY <1>1, <1>4 DEF Forgotten
  <2> QED  BY <2>1, <2>2, <2>3 DEF IInv, ExitInv
<1>9. ProcInv' /\ ConnInv' /\ ShutdownInv' /\ NoOrphan' /\ NoStranded'
  BY <1>1 DEF IInv, ProcInv, ConnInv, ShutdownInv, NoOrphan, NoStranded,
     HasSession, Running, Born
<1>10. SessionHasHandle' /\ ShutdownComplete'
  BY <1>1 DEF IInv, SessionHasHandle, ShutdownComplete, HasSession, Running
<1> QED  BY <1>5, <1>6, <1>7, <1>8, <1>9, <1>10 DEF IInv

-----------------------------------------------------------------------------
(* Calls of closeSession and shutdown *)

LEMMA CallFacts ==
  ASSUME IInv, NEW kind \in {"close", "shutdown", "idle"},
         NEW s \in Sessions \cup {NoSession}, NEW phase \in {"ready", "loop"},
         Call(kind, s, phase)
  PROVE  /\ task' \in [Tasks -> TaskData]
         /\ \E k \in Tasks :
              /\ task[k].phase = "free"
              /\ task'[k].kind = kind /\ task'[k].phase = phase /\ task'[k].sid = s
              /\ \A u \in Tasks : u # k => task'[u] = task[u]
              /\ \A u \in Tasks : task[u].phase = "releasing" => task[u].awaits # k
<1> DEFINE new == [kind |-> kind, proc |-> NoProc, sid |-> s, phase |-> phase,
                   awaits |-> NoTask]
<1>1. PICK k \in Calls : NextCall(k) /\ task' = [task EXCEPT ![k] = new]
  BY DEF Call
<1>2. k \in Tasks /\ task[k].phase = "free" /\ task \in [Tasks -> TaskData]
  BY <1>1, ConstFacts DEF NextCall, FreeCalls, IInv, TypeOK
<1>3. new \in TaskData
  BY DEF TaskData
<1>4. /\ task' \in [Tasks -> TaskData] /\ task'[k] = new
      /\ \A u \in Tasks : u # k => task'[u] = task[u]
  BY <1>1, <1>2, <1>3
<1>5. \A u \in Tasks : task[u].phase = "releasing" => task[u].awaits # k
  BY <1>2 DEF IInv, AwaitInv, TaskInv
<1> QED  BY <1>2, <1>4, <1>5

\* A call only adds an activation that is about to run.
LEMMA CallStep ==
  ASSUME IInv, NEW kind \in {"close", "shutdown", "idle"},
         NEW s \in Sessions \cup {NoSession}, NEW phase \in {"ready", "loop"},
         Call(kind, s, phase),
         kind = "close" => s \in Sessions /\ phase = "ready",
         kind # "close" => phase = "loop" /\ ~acceptingConnections',
         timer' \in BOOLEAN, acceptingConnections' \in BOOLEAN,
         acceptingConnections' => acceptingConnections,
         UNCHANGED <<status, shutdownDone, sessionMap, procs, procVars,
                     signalled, handle, connVars, reports>>
  PROVE  IInv'
<1>1. task' \in [Tasks -> TaskData]
  BY CallFacts
<1>2. PICK k \in Tasks :
        /\ task[k].phase = "free"
        /\ task'[k].kind = kind /\ task'[k].phase = phase /\ task'[k].sid = s
        /\ \A u \in Tasks : u # k => task'[u] = task[u]
        /\ \A u \in Tasks : task[u].phase = "releasing" => task[u].awaits # k
  BY CallFacts
<1>3. UNCHANGED <<status, shutdownDone, sessionMap, detached, procs, os, signalled,
                  badExit, handle, owner, socket, consumers, reports>>
  BY DEF procVars, connVars
<1>4. TypeOK'
  BY <1>1, <1>3 DEF IInv, TypeOK
<1>5. TaskInv'
  BY <1>2, <1>3 DEF IInv, TaskInv, IsListener, Born
<1>6. AwaitInv'
  <2> SUFFICES ASSUME NEW u \in Tasks PROVE
        /\ task'[u].phase = "releasing" =>
                /\ task'[u].awaits \in Calls
                /\ task'[task'[u].awaits].kind = "kill"
                /\ task'[task'[u].awaits].sid = task'[u].sid
        /\ task'[u].phase = "resumed" =>
                \A q \in Procs : Running(q)' => owner'[q] # task'[u].sid
    BY DEF AwaitInv
  <2>1. task'[u].phase \in {"releasing", "resumed"} => task'[u] = task[u]
    BY <1>2
  <2>2. task[u].phase = "releasing" =>
           /\ task'[task[u].awaits].kind = task[task[u].awaits].kind
           /\ task'[task[u].awaits].sid = task[task[u].awaits].sid
    BY <1>2, ConstFacts DEF IInv, AwaitInv
  <2> QED  BY <2>1, <2>2, <1>3 DEF IInv, AwaitInv, Running
<1>7. ExitInv'
  <2> SUFFICES ASSUME NEW u \in Tasks, task'[u].kind = "exit", u # k PROVE
        /\ task'[u].phase = "releasing" =>
              \/ Forgotten(task[u].proc)'
              \/ /\ task'[task'[u].awaits].proc = task'[u].proc
                 /\ task'[task'[u].awaits].phase = "armed"
        /\ task'[u].phase = "resumed" => Forgotten(task[u].proc)'
    BY <1>2 DEF ExitInv
  <2>1. task'[u] = task[u]
    BY <1>2
  <2>2. task[u].phase = "releasing" => task'[task[u].awaits] = task[task[u].awaits]
    BY <1>2, ConstFacts DEF IInv, AwaitInv
  <2>3. Forgotten(task[u].proc)' <=> Forgotten(task[u].proc)
    BY <1>3, <2>1 DEF Forgotten
  <2> QED  BY <2>1, <2>2, <2>3 DEF IInv, ExitInv
<1>8. ProcInv' /\ ConnInv' /\ NoOrphan' /\ NoStranded' /\ SessionHasHandle'
  BY <1>3 DEF IInv, ProcInv, ConnInv, NoOrphan, NoStranded, SessionHasHandle,
     HasSession, Running, Born
<1>9. ShutdownInv' /\ ShutdownComplete'
  BY <1>3 DEF IInv, ShutdownInv, ShutdownComplete, Running
<1> QED  BY <1>4, <1>5, <1>6, <1>7, <1>8, <1>9 DEF IInv

LEMMA CallCloseStep ==
  ASSUME IInv, NEW s \in Sessions, CallCloseSession(s)
  PROVE  IInv'
  BY CallStep DEF CallCloseSession, envVars, IInv, TypeOK

LEMMA CallShutdownStep == ASSUME IInv, CallShutdown PROVE IInv'
  BY CallStep DEF CallShutdown, IInv, TypeOK

LEMMA IdleStep == ASSUME IInv, IdleTimeout PROVE IInv'
  BY CallStep DEF IdleTimeout

LEMMA ShutdownResumeStep ==
  ASSUME IInv, NEW t \in Tasks, ShutdownResume(t)
  PROVE  IInv'
<1> DEFINE s == task[t].sid
<1>1. /\ task[t].phase = "resumed" /\ task[t].kind \in {"shutdown", "idle"}
      /\ procs' = [procs EXCEPT ![s] = NoProc]
      /\ UNCHANGED <<status, timer, acceptingConnections, shutdownDone, sessionMap,
                     detached, os, signalled, badExit, handle, owner, socket,
                     consumers, reports>>
  BY DEF ShutdownResume, envVars, procVars, connVars
<1>2. s \in Sessions /\ task[t] \in TaskData /\ task \in [Tasks -> TaskData]
  BY <1>1 DEF IInv, TaskInv, TypeOK
<1>3. [task[t] EXCEPT !.sid = NoSession, !.phase = "loop"] \in TaskData
  BY <1>2 DEF TaskData
<1>4. /\ task' \in [Tasks -> TaskData]
      /\ task'[t].kind = task[t].kind /\ task'[t].phase = "loop"
      /\ \A u \in Tasks : u # t => task'[u] = task[u]
  BY <1>2, <1>3 DEF TaskData, ShutdownResume
<1>5. /\ procs' \in [Sessions -> Procs \cup {NoProc}]
      /\ \A r \in Sessions : procs'[r] = IF r = s THEN NoProc ELSE procs[r]
  BY <1>1 DEF IInv, TypeOK
<1>6. \A p \in Procs : Running(p) => owner[p] # s
  BY <1>1 DEF IInv, AwaitInv
<1>7. TypeOK'
  BY <1>1, <1>4, <1>5 DEF IInv, TypeOK
<1>8. ProcInv'
  BY <1>1, <1>5 DEF IInv, ProcInv, HasSession, Born
<1>9. TaskInv'
  BY <1>1, <1>4 DEF IInv, TaskInv, IsListener, Born
<1>10. \A u \in Tasks : task[u].phase = "releasing" => task[u].awaits # t
  BY <1>1 DEF IInv, AwaitInv
<1>11. AwaitInv'
  <2> SUFFICES ASSUME NEW u \in Tasks PROVE
        /\ task'[u].phase = "releasing" =>
                /\ task'[u].awaits \in Calls
                /\ task'[task'[u].awaits].kind = "kill"
                /\ task'[task'[u].awaits].sid = task'[u].sid
        /\ task'[u].phase = "resumed" =>
                \A q \in Procs : Running(q)' => owner'[q] # task'[u].sid
    BY DEF AwaitInv
  <2>1. task'[u].phase \in {"releasing", "resumed"} => task'[u] = task[u]
    BY <1>4, <1>10
  <2>2. task[u].phase = "releasing" =>
           /\ task'[task[u].awaits].kind = task[task[u].awaits].kind
           /\ task'[task[u].awaits].sid = task[task[u].awaits].sid
    BY <1>4, <1>10, ConstFacts DEF IInv, AwaitInv
  <2> QED  BY <2>1, <2>2, <1>1 DEF IInv, AwaitInv, Running
<1>12. ExitInv'
  <2> SUFFICES ASSUME NEW u \in Tasks, task'[u].kind = "exit", u # t PROVE
        /\ task'[u].phase = "releasing" =>
              \/ Forgotten(task[u].proc)'
              \/ /\ task'[task'[u].awaits].proc = task'[u].proc
                 /\ task'[task'[u].awaits].phase = "armed"
        /\ task'[u].phase = "resumed" => Forgotten(task[u].proc)'
    BY <1>1, <1>4 DEF ExitInv
  <2>1. task'[u] = task[u]
    BY <1>4
  <2>2. task[u].phase = "releasing" => task'[task[u].awaits] = task[task[u].awaits]
    BY <1>4, <1>10, ConstFacts DEF IInv, AwaitInv
  <2>3. task[u].proc \in Procs /\ owner[task[u].proc] \in Sessions
    BY <2>1 DEF IInv, TaskInv, ProcInv, IsListener
  <2>4. Forgotten(task[u].proc) => Forgotten(task[u].proc)'
    BY <1>1, <1>5, <2>1, <2>3, ConstFacts DEF Forgotten
  <2> QED  BY <2>1, <2>2, <2>4 DEF IInv, ExitInv
<1>13. NoOrphan'
  BY <1>1, <1>5, <1>6 DEF IInv, NoOrphan, ProcInv, Running, Born
<1>14. ConnInv' /\ NoStranded' /\ SessionHasHandle' /\ ShutdownInv' /\ ShutdownComplete'
  BY <1>1 DEF IInv, ConnInv, NoStranded, SessionHasHandle, ShutdownInv,
     ShutdownComplete, HasSession, Running
<1> QED  BY <1>7, <1>8, <1>9, <1>11, <1>12, <1>13, <1>14 DEF IInv

-----------------------------------------------------------------------------
(* Connections *)

LEMMA AcceptFacts ==
  ASSUME TypeOK, NEW c \in Conns, NEW cs, NextSocket(c), AcceptSocket(c, cs)
  PROVE  /\ socket' \in [Conns -> {"unused", "open", "closing", "closed"}]
         /\ socket[c] = "unused" /\ socket'[c] = "open"
         /\ \A d \in Conns : d # c =>
              socket'[d] = IF d \in cs /\ socket[d] = "open" THEN "closing" ELSE socket[d]
<1>1. socket[c] = "unused"
  BY DEF NextSocket
<1> QED  BY <1>1 DEF AcceptSocket, Closing, TypeOK

LEMMA OpenFacts ==
  ASSUME TypeOK, NEW s \in Sessions, NEW p \in Procs, OpenSession(s, p)
  PROVE  /\ sessionMap' \in [Sessions -> SessionData]
         /\ consumers' \in [Procs -> SUBSET Conns]
         /\ detached' \subseteq Conns
         /\ timer' \in BOOLEAN
         /\ \A r \in Sessions : r # s => sessionMap'[r] = sessionMap[r]
         /\ sessionMap'[s].proc = p
         /\ socket' \in [Conns -> {"unused", "open", "closing", "closed"}]
         /\ \E c \in Conns :
              /\ sessionMap'[s].conns = {c}
              /\ socket[c] = "unused" /\ socket'[c] = "open"
              /\ \A d \in Conns : d # c => socket'[d] = socket[d]
<1>1. PICK c \in Conns :
        /\ NextSocket(c) /\ AcceptSocket(c, {})
        /\ sessionMap' = [sessionMap EXCEPT ![s] = [proc |-> p, conns |-> {c}]]
        /\ detached' = detached \cup sessionMap[s].conns
        /\ consumers' = [consumers EXCEPT ![p] = @ \cup {c}]
        /\ timer' = IdleShutdown
  BY DEF OpenSession
<1>2. /\ socket' \in [Conns -> {"unused", "open", "closing", "closed"}]
      /\ socket[c] = "unused" /\ socket'[c] = "open"
      /\ \A d \in Conns : d # c => socket'[d] = socket[d]
  BY <1>1, AcceptFacts
<1>3. [proc |-> p, conns |-> {c}] \in SessionData
  BY DEF SessionData
<1>4. sessionMap[s].conns \subseteq Conns
  BY DEF TypeOK, SessionData
<1> QED  BY <1>1, <1>2, <1>3, <1>4, ConstFacts DEF TypeOK

LEMMA JoinStep ==
  ASSUME IInv, NEW s \in Sessions, ConnectJoin(s)
  PROVE  IInv'
<1>1. PICK c \in Conns :
        /\ NextSocket(c) /\ AcceptSocket(c, Excess(s))
        /\ sessionMap' = [sessionMap EXCEPT ![s].conns = (@ \ Excess(s)) \cup {c}]
        /\ consumers' = [consumers EXCEPT ![sessionMap[s].proc] = @ \cup {c}]
  BY DEF ConnectJoin
<1>2. /\ timer' \in BOOLEAN
      /\ HasSession(s)
      /\ acceptingConnections
      /\ UNCHANGED <<status, acceptingConnections, shutdownDone, detached, procs,
                     os, signalled, badExit, handle, owner, task, reports>>
  BY ConstFacts DEF ConnectJoin, procVars, HasLiveProc, MayConnect
<1>3. /\ socket' \in [Conns -> {"unused", "open", "closing", "closed"}]
      /\ socket[c] = "unused" /\ socket'[c] = "open"
      /\ \A d \in Conns : d # c =>
           socket'[d] = IF d \in Excess(s) /\ socket[d] = "open" THEN "closing" ELSE socket[d]
  BY <1>1, AcceptFacts DEF IInv
<1>4. sessionMap[s] \in SessionData /\ sessionMap \in [Sessions -> SessionData]
  BY DEF IInv, TypeOK
<1>5. /\ [sessionMap[s] EXCEPT !.conns = (@ \ Excess(s)) \cup {c}] \in SessionData
      /\ sessionMap'[s] = [sessionMap[s] EXCEPT !.conns = (@ \ Excess(s)) \cup {c}]
      /\ \A r \in Sessions : r # s => sessionMap'[r] = sessionMap[r]
  BY <1>1, <1>4 DEF SessionData
<1>6. /\ sessionMap' \in [Sessions -> SessionData]
      /\ \A r \in Sessions : sessionMap'[r].proc = sessionMap[r].proc
      /\ sessionMap'[s].conns = (sessionMap[s].conns \ Excess(s)) \cup {c}
  BY <1>1, <1>4, <1>5 DEF SessionData
<1>7. consumers' \in [Procs -> SUBSET Conns]
  BY <1>1 DEF IInv, TypeOK
<1>8. Excess(s) \subseteq sessionMap[s].conns
  BY DEF Excess
<1>9. TypeOK'
  BY <1>2, <1>3, <1>6, <1>7 DEF IInv, TypeOK
<1>10. ProcInv' /\ SessionHasHandle'
  BY <1>2, <1>6 DEF IInv, ProcInv, SessionHasHandle, HasSession, Born
<1>11. ConnInv'
  <2>1. \A r \in Sessions : c \notin sessionMap[r].conns /\ sessionMap[r].conns \subseteq Conns
    BY <1>3, <1>4 DEF IInv, ConnInv, SessionData
  <2>2. \A r \in Sessions : sessionMap'[r].conns # {} => HasSession(r)'
    BY <1>2, <1>5, <1>6 DEF IInv, ConnInv, HasSession
  <2>5. \A r \in Sessions : \A d \in sessionMap'[r].conns :
            (d \in sessionMap[r].conns /\ d # c) \/ (d = c /\ r = s)
    <3> TAKE r \in Sessions
    <3>1. CASE r = s
      BY <2>1, <3>1, <1>6
    <3>2. CASE r # s
      BY <2>1, <3>2, <1>5
    <3> QED  BY <3>1, <3>2
  <2>3. \A r \in Sessions : \A d \in sessionMap'[r].conns : socket'[d] # "unused"
    BY <2>5, <2>1, <1>3 DEF IInv, ConnInv
  <2>4. \A r, q \in Sessions : \A d \in sessionMap'[r].conns \cap sessionMap'[q].conns : r = q
    BY <2>5 DEF IInv, ConnInv
  <2> QED  BY <2>2, <2>3, <2>4 DEF ConnInv
<1>12. TaskInv' /\ AwaitInv' /\ ShutdownInv'
  BY <1>2 DEF IInv, TaskInv, AwaitInv, ShutdownInv, Running, Born, IsListener
<1>13. ExitInv'
  <2>1. \A p \in Procs : Born(p) => (Forgotten(p)' <=> Forgotten(p))
    BY <1>2, <1>6 DEF IInv, ProcInv, Forgotten
  <2> QED  BY <2>1, <1>2 DEF IInv, ExitInv, TaskInv, IsListener, Forgotten
<1>14. NoOrphan'
  BY <1>2, <1>6 DEF IInv, NoOrphan, ProcInv, Running, Born
<1>15. NoStranded'
  <2> SUFFICES ASSUME NEW d \in Conns, socket'[d] = "open"
               PROVE  \E r \in Sessions :
                        /\ d \in sessionMap'[r].conns
                        /\ \A q \in Sessions : d \in sessionMap'[q].conns => q = r
    BY DEF NoStranded
  <2>1. CASE d = c
    <3>1. \A r \in Sessions : c \notin sessionMap[r].conns
      BY <1>3 DEF IInv, ConnInv
    <3> QED  BY <2>1, <3>1, <1>5, <1>6
  <2>2. CASE d # c
    <3>1. socket[d] = "open" /\ d \notin Excess(s)
      BY <2>2, <1>3
    <3>2. PICK r \in Sessions : /\ d \in sessionMap[r].conns
                                /\ \A q \in Sessions : d \in sessionMap[q].conns => q = r
      BY <3>1 DEF IInv, NoStranded
    <3>3. \A q \in Sessions : d \in sessionMap'[q].conns <=> d \in sessionMap[q].conns
      <4> TAKE q \in Sessions
      <4>1. CASE q = s
        BY <2>2, <3>1, <4>1, <1>6
      <4>2. CASE q # s
        BY <4>2, <1>5
      <4> QED  BY <4>1, <4>2
    <3> QED  BY <3>2, <3>3
  <2> QED  BY <2>1, <2>2
<1>16. ShutdownComplete'
  BY <1>2 DEF IInv, ShutdownInv, ShutdownComplete
<1> QED  BY <1>9, <1>10, <1>11, <1>12, <1>13, <1>14, <1>15, <1>16 DEF IInv

\* The sockets and sessions after a session was opened for process p.
LEMMA OpenStep ==
  ASSUME IInv, NEW s \in Sessions, NEW p \in Procs, OpenSession(s, p), ~HasSession(s)
  PROVE  ConnInv' /\ NoStranded'
<1>1. PICK c \in Conns :
        /\ sessionMap'[s].conns = {c}
        /\ socket[c] = "unused" /\ socket'[c] = "open"
        /\ \A d \in Conns : d # c => socket'[d] = socket[d]
  BY OpenFacts DEF IInv
<1>2. /\ \A r \in Sessions : r # s => sessionMap'[r] = sessionMap[r]
      /\ sessionMap'[s].proc = p /\ p # NoProc
  BY OpenFacts, ConstFacts DEF IInv
<1>3. sessionMap[s].conns = {}
  BY DEF IInv, ConnInv
<1>4. \A r \in Sessions : c \notin sessionMap[r].conns /\ sessionMap[r].conns \subseteq Conns
  BY <1>1 DEF IInv, ConnInv, TypeOK, SessionData
<1>5. ConnInv'
  <2>1. \A r \in Sessions : sessionMap'[r].conns # {} => HasSession(r)'
    BY <1>2 DEF IInv, ConnInv, HasSession
  <2>2. \A r \in Sessions : \A d \in sessionMap'[r].conns : socket'[d] # "unused"
    BY <1>1, <1>2, <1>4 DEF IInv, ConnInv
  <2>3. \A r, q \in Sessions : \A d \in sessionMap'[r].conns \cap sessionMap'[q].conns : r = q
    BY <1>1, <1>2, <1>4 DEF IInv, ConnInv
  <2> QED  BY <2>1, <2>2, <2>3 DEF ConnInv
<1>6. NoStranded'
  <2> SUFFICES ASSUME NEW d \in Conns, socket'[d] = "open"
               PROVE  \E r \in Sessions :
                        /\ d \in sessionMap'[r].conns
                        /\ \A q \in Sessions : d \in sessionMap'[q].conns => q = r
    BY DEF NoStranded
  <2>1. CASE d = c
    BY <2>1, <1>1, <1>2, <1>4
  <2>2. CASE d # c
    <3>1. PICK r \in Sessions : /\ d \in sessionMap[r].conns
                                /\ \A q \in Sessions : d \in sessionMap[q].conns => q = r
      BY <2>2, <1>1 DEF IInv, NoStranded
    <3> QED  BY <2>2, <3>1, <1>1, <1>2, <1>3
  <2> QED  BY <2>1, <2>2
<1> QED  BY <1>5, <1>6

LEMMA ExistingStep ==
  ASSUME IInv, NEW s \in Sessions, ConnectExisting(s)
  PROVE  IInv'
<1> DEFINE p == procs[s]
<1>1. /\ ~HasSession(s) /\ handle[p] /\ p \in Procs /\ owner[p] = s /\ Born(p)
      /\ acceptingConnections
      /\ OpenSession(s, p)
      /\ UNCHANGED <<status, acceptingConnections, shutdownDone, procs,
                     os, signalled, badExit, handle, owner, task, reports>>
  BY DEF ConnectExisting, procVars, HasLiveProc, MayConnect, IInv, ProcInv,
     SessionHasHandle, TypeOK
<1>2. /\ sessionMap' \in [Sessions -> SessionData]
      /\ consumers' \in [Procs -> SUBSET Conns]
      /\ detached' \subseteq Conns
      /\ timer' \in BOOLEAN
      /\ \A r \in Sessions : r # s => sessionMap'[r] = sessionMap[r]
      /\ sessionMap'[s].proc = p
      /\ socket' \in [Conns -> {"unused", "open", "closing", "closed"}]
  BY <1>1, OpenFacts DEF IInv
<1>3. TypeOK'
  BY <1>1, <1>2 DEF IInv, TypeOK
<1>4. ProcInv' /\ SessionHasHandle'
  BY <1>1, <1>2 DEF IInv, ProcInv, SessionHasHandle, HasSession, Born
<1>5. ConnInv' /\ NoStranded'
  BY <1>1, OpenStep
<1>6. TaskInv' /\ AwaitInv' /\ ShutdownInv'
  BY <1>1 DEF IInv, TaskInv, AwaitInv, ShutdownInv, Running, Born, IsListener
<1>7. ExitInv'
  <2>1. \A q \in Procs : Forgotten(q) /\ owner[q] \in Sessions => Forgotten(q)'
    BY <1>1, <1>2 DEF Forgotten
  <2>2. \A t \in Tasks : task[t].kind = "exit" => owner[task[t].proc] \in Sessions
                                                  /\ task[t].proc \in Procs
    BY DEF IInv, TaskInv, IsListener, ProcInv
  <2> QED  BY <2>1, <2>2, <1>1 DEF IInv, ExitInv, Forgotten
<1>8. NoOrphan'
  BY <1>1, <1>2 DEF IInv, NoOrphan, ProcInv, Running, Born
<1>9. ShutdownComplete'
  BY <1>1 DEF IInv, ShutdownInv, ShutdownComplete
<1> QED  BY <1>3, <1>4, <1>5, <1>6, <1>7, <1>8, <1>9 DEF IInv

\* What ConnectSpawn(s) does when it creates process p: to the process, to the
\* table of processes and to the tasks (TableAfterEviction: an older one, if
\* any, is evicted and killed).
NewProcess(s, p) ==
    /\ os[p] = "unborn" /\ p \in Tasks /\ p \notin Calls
    /\ os' \in [Procs -> {"unborn", "running", "exited"}]
    /\ \A q \in Procs : os'[q] = IF q = p THEN "running" ELSE os[q]
    /\ handle' \in [Procs -> BOOLEAN]
    /\ \A q \in Procs : handle'[q] = IF q = p THEN TRUE ELSE handle[q]
    /\ owner' \in [Procs -> Sessions \cup {NoSession}]
    /\ \A q \in Procs : owner'[q] = IF q = p THEN s ELSE owner[q]
    /\ OpenSession(s, p)

EvictionTask(p) ==
    \/ \A u \in Tasks \ {p} : task'[u] = task[u]
    \/ \E k \in Calls :
            /\ task[k].phase = "free"
            /\ task'[k].kind = "kill" /\ task'[k].phase = "armed"
            /\ task'[k].proc \in Procs /\ Born(task'[k].proc)
            /\ task'[k].sid = owner[task'[k].proc]
            /\ \A u \in Tasks \ {p, k} : task'[u] = task[u]

TableAfterEviction(s, p) ==
    /\ task'[p].kind = "exit" /\ task'[p].proc = p /\ task'[p].sid = s
    /\ task'[p].phase = "armed"
    /\ procs' \in [Sessions -> Procs \cup {NoProc}]
    /\ procs'[s] = p
    /\ \A r \in Sessions : r # s =>
          \/ procs'[r] = procs[r]
          \/ procs'[r] = NoProc /\ procs[r] # NoProc /\
             (os[procs[r]] = "running" => procs[r] \in signalled')
    /\ signalled \subseteq signalled' /\ signalled' \subseteq Procs
    /\ task' \in [Tasks -> TaskData]
    /\ EvictionTask(p)

LEMMA SpawnFacts ==
  ASSUME IInv, NEW s \in Sessions, ConnectSpawn(s)
  PROVE  \E p \in Procs : NewProcess(s, p) /\ TableAfterEviction(s, p)
<1>1. PICK p \in Procs :
        /\ NextProc(p)
        /\ os' = [os EXCEPT ![p] = "running"]
        /\ handle' = [handle EXCEPT ![p] = TRUE]
        /\ owner' = [owner EXCEPT ![p] = s]
        /\ OpenSession(s, p)
        /\ \/ /\ procs' = [procs EXCEPT ![s] = p]
              /\ task' = [task EXCEPT ![p] = SpawnTask(s, p)]
              /\ UNCHANGED signalled
           \/ \E r \in Sessions, k \in Calls :
                    /\ Oldest(r) /\ NextCall(k)
                    /\ Sigterm(procs[r])
                    /\ procs' = [procs EXCEPT ![r] = NoProc, ![s] = p]
                    /\ task' = [task EXCEPT ![p] = SpawnTask(s, p),
                                            ![k] = KillTask(procs[r])]
  BY DEF ConnectSpawn
<1>2. /\ os[p] = "unborn" /\ p \in Tasks /\ p \notin Calls /\ TypeOK
      /\ procs[s] = NoProc
  BY <1>1, ConstFacts DEF NextProc, IInv, ConnectSpawn
<1>3. /\ os' \in [Procs -> {"unborn", "running", "exited"}]
      /\ \A q \in Procs : os'[q] = IF q = p THEN "running" ELSE os[q]
      /\ handle' \in [Procs -> BOOLEAN]
      /\ \A q \in Procs : handle'[q] = IF q = p THEN TRUE ELSE handle[q]
      /\ owner' \in [Procs -> Sessions \cup {NoSession}]
      /\ \A q \in Procs : owner'[q] = IF q = p THEN s ELSE owner[q]
  BY <1>1, <1>2 DEF TypeOK
<1>4. /\ SpawnTask(s, p) \in TaskData
      /\ SpawnTask(s, p).kind = "exit" /\ SpawnTask(s, p).proc = p
      /\ SpawnTask(s, p).sid = s /\ SpawnTask(s, p).phase = "armed"
  BY DEF SpawnTask, TaskData
<1>5. ASSUME procs' = [procs EXCEPT ![s] = p],
             task' = [task EXCEPT ![p] = SpawnTask(s, p)],
             UNCHANGED signalled
      PROVE  TableAfterEviction(s, p)
  <2>1. /\ procs' \in [Sessions -> Procs \cup {NoProc}]
        /\ procs'[s] = p
        /\ \A r \in Sessions : r # s => procs'[r] = procs[r]
        /\ signalled \subseteq signalled' /\ signalled' \subseteq Procs
    BY <1>2, <1>5 DEF TypeOK
  <2>2. /\ task' \in [Tasks -> TaskData]
        /\ task'[p] = SpawnTask(s, p)
        /\ \A u \in Tasks \ {p} : task'[u] = task[u]
    BY <1>2, <1>4, <1>5 DEF TypeOK
  <2>3. EvictionTask(p)
    BY <2>2 DEF EvictionTask
  <2> QED  BY <1>4, <2>1, <2>2, <2>3 DEF TableAfterEviction
<1>6. ASSUME NEW r \in Sessions, NEW k \in Calls,
             Oldest(r), NextCall(k), Sigterm(procs[r]),
             procs' = [procs EXCEPT ![r] = NoProc, ![s] = p],
             task' = [task EXCEPT ![p] = SpawnTask(s, p), ![k] = KillTask(procs[r])]
      PROVE  TableAfterEviction(s, p)
  <2>1. procs[r] \in Procs /\ Born(procs[r]) /\ owner[procs[r]] = r
    BY <1>6 DEF Oldest, IInv, ProcInv, TypeOK
  <2>2. /\ signalled \subseteq signalled' /\ signalled' \subseteq Procs
        /\ os[procs[r]] = "running" => procs[r] \in signalled'
    BY <1>2, <1>6, <2>1 DEF Sigterm, TypeOK
  <2>3. /\ procs' \in [Sessions -> Procs \cup {NoProc}]
        /\ procs'[s] = p
        /\ \A x \in Sessions : x # s => procs'[x] = IF x = r THEN NoProc ELSE procs[x]
    BY <1>2, <1>6 DEF TypeOK
  <2>4. task[k].phase = "free" /\ k \in Tasks /\ k # p
    BY <1>2, <1>6, ConstFacts DEF NextCall, FreeCalls
  <2>5. /\ KillTask(procs[r]) \in TaskData
        /\ KillTask(procs[r]).kind = "kill" /\ KillTask(procs[r]).phase = "armed"
        /\ KillTask(procs[r]).proc = procs[r] /\ KillTask(procs[r]).sid = owner[procs[r]]
    BY <2>1 DEF KillTask, TaskData
  <2>6. /\ task' \in [Tasks -> TaskData]
        /\ task'[p] = SpawnTask(s, p) /\ task'[k] = KillTask(procs[r])
        /\ \A u \in Tasks \ {p, k} : task'[u] = task[u]
    BY <1>2, <1>4, <1>6, <2>4, <2>5 DEF TypeOK
  <2>7. \A x \in Sessions : x # s =>
           \/ procs'[x] = procs[x]
           \/ procs'[x] = NoProc /\ procs[x] # NoProc /\
              (os[procs[x]] = "running" => procs[x] \in signalled')
    BY <2>1, <2>2, <2>3, ConstFacts
  <2>8. EvictionTask(p)
    BY <2>1, <2>4, <2>5, <2>6 DEF EvictionTask
  <2> QED  BY <1>4, <2>2, <2>3, <2>6, <2>7, <2>8 DEF TableAfterEviction
<1>7. TableAfterEviction(s, p)
  BY <1>1, <1>5, <1>6
<1>8. NewProcess(s, p)
  BY <1>1, <1>2, <1>3 DEF NewProcess
<1> QED  BY <1>7, <1>8

LEMMA SpawnStep ==
  ASSUME IInv, NEW s \in Sessions, ConnectSpawn(s)
  PROVE  IInv'
<1>1. PICK p \in Procs : NewProcess(s, p) /\ TableAfterEviction(s, p)
  BY SpawnFacts
<1> USE <1>1 DEF NewProcess, TableAfterEviction, EvictionTask
<1>2. /\ ~HasSession(s) /\ procs[s] = NoProc
      /\ acceptingConnections
      /\ \A t \in Tasks : task[t].phase \notin {"ready", "resumed", "loop"}
      /\ UNCHANGED <<status, acceptingConnections, shutdownDone, badExit, reports>>
  BY DEF ConnectSpawn, HasLiveProc, MayConnect, Quiescent, Runnable, IInv,
     SessionHasHandle
<1>3. /\ sessionMap' \in [Sessions -> SessionData]
      /\ consumers' \in [Procs -> SUBSET Conns]
      /\ detached' \subseteq Conns
      /\ timer' \in BOOLEAN
      /\ \A r \in Sessions : r # s => sessionMap'[r] = sessionMap[r]
      /\ sessionMap'[s].proc = p
      /\ socket' \in [Conns -> {"unused", "open", "closing", "closed"}]
  BY <1>1, OpenFacts DEF IInv
<1>4. \A q \in Procs : q # p => /\ Running(q)' => Running(q)
                                /\ Born(q)' <=> Born(q)
  BY <1>1 DEF Running, Born
<1>5. /\ \A r \in Sessions : procs[r] # p /\ sessionMap[r].proc # p
      /\ \A t \in Tasks : IsListener(t) => task[t].proc # p
  BY <1>1, ConstFacts DEF IInv, ProcInv, TaskInv, Born, HasSession
<1>6. TypeOK'
  BY <1>1, <1>2, <1>3 DEF IInv, TypeOK
<1>7. ProcInv'
  <2>1. \A q \in Procs : Born(q)' => owner'[q] \in Sessions
    BY <1>1, <1>4 DEF IInv, ProcInv
  <2>2. \A q \in Procs : os'[q] = "running" => handle'[q]
    <3> SUFFICES ASSUME NEW q \in Procs, os'[q] = "running" PROVE handle'[q]
      OBVIOUS
    <3>1. CASE q = p
      BY <3>1
    <3>2. CASE q # p
      <4>1. os[q] = "running"
        BY <3>2
      <4> QED  BY <3>2, <4>1 DEF IInv, ProcInv
    <3> QED  BY <3>1, <3>2
  <2>3. \A r \in Sessions : procs'[r] # NoProc =>
            owner'[procs'[r]] = r /\ os'[procs'[r]] # "unborn"
    BY <1>1, <1>5 DEF IInv, ProcInv, Born, TypeOK
  <2>4. \A r \in Sessions : sessionMap'[r].proc # NoProc =>
            owner'[sessionMap'[r].proc] = r /\ os'[sessionMap'[r].proc] # "unborn"
    BY <1>1, <1>3, <1>5 DEF IInv, ProcInv, Born, TypeOK, HasSession, SessionData
  <2> QED  BY <2>1, <2>2, <2>3, <2>4 DEF ProcInv, Born, HasSession
<1>8. ConnInv' /\ NoStranded'
  BY <1>1, <1>2, OpenStep
<1>9. TaskInv'
  <2>1. \A t \in Tasks : task'[t].kind \in {"exit", "kill"} /\ t # p => task'[t].proc # p
    BY <1>1, <1>5 DEF IsListener, Born
  <2>2. ASSUME NEW t \in Tasks, task'[t] = task[t], t # p
        PROVE  /\ IsListener(t)' => /\ Born(task[t].proc)'
                                    /\ owner'[task[t].proc] = owner[task[t].proc]
               /\ os'[task[t].proc] = os[task[t].proc] \/ ~IsListener(t)
    BY <2>2, <1>5 DEF IInv, TaskInv, IsListener, Born
  <2>3. ASSUME NEW t \in Tasks
        PROVE  \/ t = p
               \/ t # p /\ task'[t] = task[t]
               \/ /\ task'[t].kind = "kill" /\ task'[t].phase = "armed"
                  /\ task'[t].proc \in Procs /\ Born(task'[t].proc)
                  /\ task'[t].sid = owner[task'[t].proc]
    OBVIOUS
  <2>4. ASSUME NEW t \in Tasks, t = p \/ (task'[t].kind = "kill" /\ task'[t] # task[t])
        PROVE  /\ task'[t].kind \in {"exit", "kill"} /\ task'[t].phase = "armed"
               /\ task'[t].proc \in Procs /\ Born(task[t].proc)'
               /\ task'[t].sid = owner'[task'[t].proc]
               /\ task'[t].sid \in Sessions
    <3>1. CASE t = p
      BY <3>1 DEF Born
    <3>2. CASE t # p /\ task'[t] # task[t]
      <4>1. /\ task'[t].kind = "kill" /\ task'[t].phase = "armed"
            /\ task'[t].proc \in Procs /\ Born(task'[t].proc)
            /\ task'[t].sid = owner[task'[t].proc]
        BY <2>3, <3>2
      <4>2. task'[t].proc # p
        BY <4>1 DEF Born
      <4> QED  BY <4>1, <4>2 DEF Born, IInv, ProcInv
    <3> QED  BY <3>1, <3>2, <2>4
  <2>5. ASSUME NEW t \in Tasks, task'[t] = task[t], t # p
        PROVE  /\ task'[t].phase = "free" => task'[t].kind = "none"
               /\ task'[t].phase \in {"armed", "tail", "ready", "releasing", "resumed"} =>
                      task'[t].sid \in Sessions
               /\ task'[t].phase \in {"armed", "tail"} => IsListener(t)'
               /\ task'[t].phase = "ready" => task'[t].kind \in {"exit", "kill", "close"}
               /\ IsListener(t)' => /\ task'[t].proc \in Procs
                                    /\ Born(task[t].proc)'
                                    /\ task'[t].sid = owner'[task'[t].proc]
               /\ task'[t].phase \in {"tail", "ready", "releasing", "resumed"}
                     /\ IsListener(t)' => os'[task'[t].proc] = "exited"
               /\ task'[t].phase = "loop" => task'[t].kind \in {"shutdown", "idle"}
               /\ task'[t].kind \in {"shutdown", "idle"} => ~acceptingConnections'
    BY <2>5, <2>2, <1>2 DEF IInv, TaskInv, IsListener, Born
  <2>6. ASSUME NEW t \in Tasks
        PROVE  \/ t = p \/ (task'[t].kind = "kill" /\ task'[t] # task[t])
               \/ task'[t] = task[t] /\ t # p
    <3>1. CASE t = p \/ task'[t] = task[t]
      BY <3>1
    <3>2. CASE t # p /\ task'[t] # task[t]
      BY <2>3, <3>2
    <3> QED  BY <3>1, <3>2
  <2> QED  BY <2>4, <2>5, <2>6 DEF TaskInv, IsListener
<1>10. \A u \in Tasks : task'[u].phase \in {"releasing", "resumed"} =>
          /\ task'[u] = task[u] /\ task[u].phase = "releasing" /\ u # p
          /\ task[u].awaits \in Tasks
          /\ task'[task[u].awaits] = task[task[u].awaits]
  <2> SUFFICES ASSUME NEW u \in Tasks, task'[u].phase \in {"releasing", "resumed"}
               PROVE  /\ task'[u] = task[u] /\ task[u].phase = "releasing" /\ u # p
                      /\ task[u].awaits \in Tasks
                      /\ task'[task[u].awaits] = task[task[u].awaits]
    OBVIOUS
  <2>1. task'[u] = task[u] /\ task[u].phase = "releasing" /\ u # p
    BY <1>1, <1>2
  <2>2. /\ task[u].awaits \in Calls /\ task[u].awaits \in Tasks
        /\ task[task[u].awaits].phase # "free"
    BY <2>1, ConstFacts DEF IInv, AwaitInv, TaskInv
  <2> QED  BY <2>1, <2>2, <1>1
<1>11. AwaitInv'
  BY <1>10 DEF IInv, AwaitInv
<1>12. ExitInv'
  <2>1. \A q \in Procs : q # p /\ Forgotten(q) /\ Born(q) => Forgotten(q)'
    BY <1>1, <1>3, <1>5, ConstFacts DEF Forgotten, IInv, ProcInv
  <2> SUFFICES ASSUME NEW u \in Tasks, task'[u].kind = "exit",
                      task'[u].phase \in {"releasing", "resumed"}
               PROVE  /\ task'[u].phase = "releasing" /\ task'[u] = task[u]
                      /\ \/ Forgotten(task[u].proc)'
                         \/ /\ task'[task'[u].awaits].proc = task'[u].proc
                            /\ task'[task'[u].awaits].phase = "armed"
    BY DEF ExitInv, Forgotten
  <2>2. /\ task'[u] = task[u] /\ task[u].phase = "releasing"
        /\ task'[task[u].awaits] = task[task[u].awaits]
    BY <1>10
  <2>3. /\ task[u].proc \in Procs /\ task[u].proc # p /\ Born(task[u].proc)
        /\ task'[u].proc = task[u].proc
    BY <2>2, <1>5 DEF IInv, TaskInv, IsListener
  <2>4. Forgotten(task[u].proc) => Forgotten(task[u].proc)'
    BY <2>1, <2>3 DEF Forgotten
  <2> QED  BY <2>2, <2>4 DEF IInv, ExitInv
<1>13. NoOrphan'
  <2> SUFFICES ASSUME NEW q \in Procs, Running(q)'
               PROVE  procs'[owner'[q]] = q /\ sessionMap'[owner'[q]].proc = q
    BY DEF NoOrphan
  <2>1. CASE q = p
    BY <2>1, <1>1, <1>3
  <2>2. CASE q # p
    <3>1. /\ Running(q) /\ owner'[q] = owner[q] /\ owner[q] \in Sessions
          /\ procs[owner[q]] = q /\ sessionMap[owner[q]].proc = q
      BY <2>2, <1>1, <1>4 DEF IInv, NoOrphan, ProcInv, Running, Born
    <3>2. owner[q] # s
      BY <3>1, <1>2, ConstFacts
    <3>3. os[q] = "running" /\ q \notin signalled'
      BY <2>2, <3>1 DEF Running
    <3> QED  BY <3>1, <3>2, <3>3, <1>1, <1>3
  <2> QED  BY <2>1, <2>2
<1>14. SessionHasHandle'
  <2> SUFFICES ASSUME NEW r \in Sessions, sessionMap'[r].proc # NoProc
               PROVE  handle'[sessionMap'[r].proc]
    BY DEF SessionHasHandle, HasSession
  <2>1. CASE r = s
    BY <2>1, <1>3, ZenonT(60)
  <2>2. CASE r # s
    <3>1. /\ sessionMap'[r].proc = sessionMap[r].proc
          /\ sessionMap[r].proc \in Procs /\ sessionMap[r].proc # p
          /\ handle[sessionMap[r].proc]
      BY <2>2, <1>3, <1>5 DEF IInv, SessionHasHandle, HasSession, TypeOK, SessionData
    <3> QED  BY <3>1
  <2> QED  BY <2>1, <2>2
<1>15. ShutdownInv' /\ ShutdownComplete'
  BY <1>2 DEF IInv, ShutdownInv, ShutdownComplete
<1> QED  BY <1>6, <1>7, <1>8, <1>9, <1>11, <1>12, <1>13, <1>14, <1>15 DEF IInv

-----------------------------------------------------------------------------
(* The invariant, and what follows from it *)

LEMMA NextIInv == IInv /\ [Next]_vars => IInv'
<1> SUFFICES ASSUME IInv, [Next]_vars PROVE IInv'
  OBVIOUS
<1>1. ASSUME NEW s \in Sessions,
             ConnectJoin(s) \/ ConnectExisting(s) \/ ConnectSpawn(s) \/ CallCloseSession(s)
      PROVE  IInv'
  BY <1>1, JoinStep, ExistingStep, SpawnStep, CallCloseStep
<1>2. ASSUME NEW c \in Conns, SocketMessage(c) \/ SocketError(c) \/ SocketClose(c)
      PROVE  IInv'
  BY <1>2, MessageStep, ErrorStep, CloseStep
<1>3. ASSUME NEW p \in Procs, ProcExit(p)
      PROVE  IInv'
  BY <1>3, ProcExitStep
<1>4. ASSUME NEW t \in Tasks, TailDone(t) \/ ServerExit(t) \/ RunTask(t) \/ ResumeTask(t)
      PROVE  IInv'
  BY <1>4, TailStep, ServerExitStep, RunStep, ResumeStep
<1>5. ASSUME NEW t \in Tasks, ShutdownStep(t) \/ ShutdownResume(t) \/ ShutdownEnd(t)
      PROVE  IInv'
  BY <1>5, ShutdownLoopStep, ShutdownResumeStep, ShutdownEndStep
<1>6. CASE CallShutdown \/ IdleTimeout
  BY <1>6, CallShutdownStep, IdleStep
<1>7. CASE UNCHANGED vars
  BY <1>7, SMTT(30) DEF vars, envVars, procVars, connVars, IInv, TypeOK, ProcInv, ConnInv,
     TaskInv, AwaitInv, ExitInv, ShutdownInv, NoOrphan, NoStranded,
     SessionHasHandle, ShutdownComplete, HasSession, Running, Born, IsListener,
     Forgotten
<1> QED  BY <1>1, <1>2, <1>3, <1>4, <1>5, <1>6, <1>7 DEF Next

\* The inductive invariant holds of every behaviour.
THEOREM InductiveInvariant == Spec => []IInv
<1>1. Init => IInv
  BY InitIInv
<1>2. IInv /\ [Next]_vars => IInv'
  BY NextIInv
<1> QED  BY <1>1, <1>2, PTL DEF Spec

\* Type correctness, for every number of sessions, processes and sockets.
THEOREM TypeCorrect == Spec => []TypeOK
<1>1. IInv => TypeOK
  BY DEF IInv
<1> QED  BY <1>1, InductiveInvariant, PTL

\* A language server nobody has signalled stays reachable under its session
\* id, whatever exit listeners, kills and closeSession calls are suspended.
THEOREM ProcessesNotOrphaned == Spec => []NoOrphan
<1>1. IInv => NoOrphan
  BY DEF IInv
<1> QED  BY <1>1, InductiveInvariant, PTL

\* An open client is registered in exactly one live session, and a session is
\* never replaced under its clients.
THEOREM ClientsNotStranded == Spec => [](NoStranded /\ SessionHasHandle)
<1>1. IInv => NoStranded /\ SessionHasHandle
  BY DEF IInv
<1> QED  BY <1>1, InductiveInvariant, PTL

\* When shutdown() resolves, nothing is left running unsignalled and no client
\* is connected; nor does anything start again later.
THEOREM ShutdownIsComplete == Spec => []ShutdownComplete
<1>1. IInv => ShutdownComplete
  BY DEF IInv
<1> QED  BY <1>1, InductiveInvariant, PTL

-----------------------------------------------------------------------------
(* The bound on LSProcManager.procs *)

Held == {s \in Sessions : procs[s] # NoProc}

\* Finitely many sessions have an entry in procs, at most MaxProcs of them.
LimitInv == IsFiniteSet(Held) /\ (MaxProcs > 0 => Cardinality(Held) <= MaxProcs)

\* Every operation but the spawning of a process only takes from procs.
LEMMA OnlySpawnAdds ==
  ASSUME IInv, [Next]_vars, ~ \E s \in Sessions : ConnectSpawn(s)
  PROVE  Held' \subseteq Held
<1>1. ASSUME NEW s \in Sessions, ConnectJoin(s) \/ ConnectExisting(s) \/ CallCloseSession(s)
      PROVE  Held' \subseteq Held
  BY <1>1 DEF ConnectJoin, ConnectExisting, CallCloseSession, Held
<1>2. ASSUME NEW c \in Conns, SocketMessage(c) \/ SocketError(c) \/ SocketClose(c)
      PROVE  Held' \subseteq Held
  BY <1>2 DEF SocketMessage, SocketError, SocketClose, Held
<1>3. ASSUME NEW p \in Procs, ProcExit(p)
      PROVE  Held' \subseteq Held
  BY <1>3 DEF ProcExit, Held
<1>4. ASSUME NEW t \in Tasks, TailDone(t) \/ ServerExit(t) \/ ShutdownEnd(t)
      PROVE  Held' \subseteq Held
  BY <1>4 DEF TailDone, ServerExit, ShutdownEnd, Held
<1>5. ASSUME NEW t \in Tasks,
             RunTask(t) \/ ResumeTask(t) \/ ShutdownStep(t) \/ ShutdownResume(t)
      PROVE  Held' \subseteq Held
  <2>1. procs' = procs \/ \E s : procs' = [procs EXCEPT ![s] = NoProc]
    BY <1>5 DEF RunTask, ResumeTask, ShutdownStep, ShutdownResume, AwaitKill, Settle
  <2>2. procs \in [Sessions -> Procs \cup {NoProc}]
    BY DEF IInv, TypeOK
  <2> QED  BY <2>1, <2>2 DEF Held
<1>6. CASE CallShutdown \/ IdleTimeout \/ UNCHANGED vars
  BY <1>6 DEF CallShutdown, IdleTimeout, vars, Held
<1> QED  BY <1>1, <1>2, <1>3, <1>4, <1>5, <1>6 DEF Next

\* A process is spawned into a table that has room, or in place of another.
LEMMA SpawnKeepsLimit ==
  ASSUME IInv, LimitInv, NEW s \in Sessions, ConnectSpawn(s)
  PROVE  LimitInv'
<1>1. procs \in [Sessions -> Procs \cup {NoProc}] /\ s \notin Held
  BY DEF IInv, TypeOK, ConnectSpawn, Held
<1>2. Cardinality(Held) \in Nat /\ MaxProcs \in Nat
  BY FS_CardinalityType, LimitAssumption DEF LimitInv
<1>3. ASSUME NEW p \in Procs, ~Evicts, procs' = [procs EXCEPT ![s] = p]
      PROVE  LimitInv'
  <2>1. Held' = Held \cup {s}
    BY <1>1, <1>3, ConstFacts DEF Held
  <2>2. IsFiniteSet(Held') /\ Cardinality(Held') = Cardinality(Held) + 1
    BY <1>1, <2>1, FS_AddElement DEF LimitInv
  <2>3. MaxProcs > 0 => Cardinality(Held) < MaxProcs
    BY <1>2, <1>3 DEF Evicts, Held
  <2> QED  BY <1>2, <2>2, <2>3 DEF LimitInv
<1>4. ASSUME NEW p \in Procs, NEW r \in Sessions, Oldest(r),
             procs' = [procs EXCEPT ![r] = NoProc, ![s] = p]
      PROVE  LimitInv'
  <2>1. r \in Held /\ Held' = (Held \ {r}) \cup {s} /\ s \notin Held \ {r}
    BY <1>1, <1>4, ConstFacts DEF Held, Oldest
  <2>2. /\ IsFiniteSet(Held \ {r})
        /\ Cardinality(Held \ {r}) = Cardinality(Held) - 1
    BY <2>1, FS_RemoveElement DEF LimitInv
  <2>3. /\ IsFiniteSet(Held')
        /\ Cardinality(Held') = Cardinality(Held \ {r}) + 1
    BY <2>1, <2>2, FS_AddElement
  <2> QED  BY <1>2, <2>2, <2>3 DEF LimitInv
<1> QED  BY <1>3, <1>4 DEF ConnectSpawn

\* Whatever exits, evictions, releases and connections interleave,
\* #enforceMaxProcs keeps LSProcManager.procs within maxProcs, although it
\* evicts before the new process is in the table and takes one at a time.
THEOREM ProcessTableBounded == Spec => []ProcLimit
<1>1. Init => LimitInv
  <2> SUFFICES ASSUME Init PROVE LimitInv
    OBVIOUS
  <2>1. Held = {}
    BY DEF Init, Held
  <2> QED  BY <2>1, FS_EmptySet, LimitAssumption DEF LimitInv
<1>2. LimitInv /\ IInv /\ [Next]_vars => LimitInv'
  <2> SUFFICES ASSUME LimitInv, IInv, [Next]_vars PROVE LimitInv'
    OBVIOUS
  <2>1. CASE \E s \in Sessions : ConnectSpawn(s)
    BY <2>1, SpawnKeepsLimit
  <2>2. CASE ~ \E s \in Sessions : ConnectSpawn(s)
    <3>1. Held' \subseteq Held
      BY <2>2, OnlySpawnAdds
    <3>2. IsFiniteSet(Held') /\ Cardinality(Held') <= Cardinality(Held)
      BY <3>1, FS_Subset DEF LimitInv
    <3>3. Cardinality(Held) \in Nat /\ Cardinality(Held') \in Nat /\ MaxProcs \in Nat
      BY <3>2, FS_CardinalityType, LimitAssumption DEF LimitInv
    <3> QED  BY <3>2, <3>3 DEF LimitInv
  <2> QED  BY <2>1, <2>2
<1>3. LimitInv => ProcLimit
  BY DEF LimitInv, ProcLimit, Held
<1> QED  BY <1>1, <1>2, <1>3, InductiveInvariant, PTL DEF Spec

-----------------------------------------------------------------------------
(* The consumers of the sockets *)

\* The consumer of a socket is one that onclose will find: its socket has not closed and
\* some session object, in sessionMap or not, has it registered.
Attended(c) == Registered(c) /\ socket[c] \notin {"unused", "closed"}
ConsumerInv == \A p \in Procs : \A c \in consumers[p] : Attended(c)

\* Sockets that are closed by the server stay registered until they have closed.
LEMMA ClosingKeepsAttended ==
  ASSUME TypeOK, NEW s \in Sessions, CloseSession(s), NEW c \in Conns, Attended(c)
  PROVE  Attended(c)'
<1>1. PICK gone : gone = sessionMap[s].conns
  OBVIOUS
<1>2. /\ sessionMap' = [sessionMap EXCEPT ![s] = NoSessionData]
      /\ detached' = detached \cup gone
      /\ socket' = Closing(gone)
  BY <1>1 DEF CloseSession
<1>3. sessionMap \in [Sessions -> SessionData]
  BY DEF TypeOK
<1>4. Registered(c)'
  <2>1. CASE c \in detached \cup gone
    BY <1>2, <2>1 DEF Registered
  <2>2. CASE c \notin detached \cup gone
    <3>1. PICK r \in Sessions : c \in sessionMap[r].conns /\ r # s
      BY <1>1, <2>2 DEF Attended, Registered
    <3>2. sessionMap'[r] = sessionMap[r]
      BY <1>2, <1>3, <3>1
    <3> QED  BY <3>1, <3>2 DEF Registered
  <2> QED  BY <2>1, <2>2
<1>5. socket'[c] \notin {"unused", "closed"}
  BY <1>2 DEF Closing, Attended
<1> QED  BY <1>4, <1>5 DEF Attended

\* Session objects are closed, and take their consumers with them.
LEMMA CloseKeepsConsumers ==
  ASSUME TypeOK, ConsumerInv, NEW s \in Sessions, CloseSession(s)
  PROVE  ConsumerInv'
<1>1. \A p \in Procs : consumers'[p] \subseteq consumers[p] /\ consumers[p] \subseteq Conns
  BY DEF CloseSession, ConsumersWithout, TypeOK
<1> QED  BY <1>1, ClosingKeepsAttended DEF ConsumerInv

\* A new socket is registered with the consumer it gets, and displaces none.
LEMMA OpenKeepsConsumers ==
  ASSUME TypeOK, ConsumerInv, MaxSessionConns = 0, NEW s \in Sessions,
         ConnectJoin(s) \/ \E p \in Procs : OpenSession(s, p)
  PROVE  ConsumerInv'
<1>1. /\ sessionMap \in [Sessions -> SessionData] /\ consumers \in [Procs -> SUBSET Conns]
      /\ socket \in [Conns -> {"unused", "open", "closing", "closed"}]
      /\ sessionMap[s].conns \subseteq Conns
  BY DEF TypeOK, SessionData
<1>2. PICK c \in Conns, p \in Procs \cup {NoProc} :
        /\ NextSocket(c) /\ AcceptSocket(c, {})
        /\ consumers' = [consumers EXCEPT ![p] = @ \cup {c}]
        /\ c \in sessionMap'[s].conns
        /\ \A r \in Sessions \ {s} : sessionMap'[r] = sessionMap[r]
        /\ detached \cup sessionMap[s].conns \subseteq detached' \cup sessionMap'[s].conns
  <2>1. CASE ConnectJoin(s)
    <3>1. PICK c \in Conns :
            /\ NextSocket(c) /\ AcceptSocket(c, Excess(s))
            /\ sessionMap' = [sessionMap EXCEPT ![s].conns = (@ \ Excess(s)) \cup {c}]
            /\ consumers' = [consumers EXCEPT ![sessionMap[s].proc] = @ \cup {c}]
            /\ detached' = detached
      BY <2>1 DEF ConnectJoin
    <3>2. Excess(s) = {} /\ sessionMap[s].proc \in Procs \cup {NoProc}
      BY <1>1 DEF Excess, SessionData
    <3>3. /\ sessionMap'[s].conns = sessionMap[s].conns \cup {c}
          /\ \A r \in Sessions \ {s} : sessionMap'[r] = sessionMap[r]
      BY <1>1, <3>1, <3>2 DEF SessionData
    <3> QED  BY <3>1, <3>2, <3>3
  <2>2. ASSUME NEW p \in Procs, OpenSession(s, p)
        PROVE  \E c \in Conns, q \in Procs \cup {NoProc} :
                 /\ NextSocket(c) /\ AcceptSocket(c, {})
                 /\ consumers' = [consumers EXCEPT ![q] = @ \cup {c}]
                 /\ c \in sessionMap'[s].conns
                 /\ \A r \in Sessions \ {s} : sessionMap'[r] = sessionMap[r]
                 /\ detached \cup sessionMap[s].conns \subseteq detached' \cup sessionMap'[s].conns
    <3>1. PICK c \in Conns :
            /\ NextSocket(c) /\ AcceptSocket(c, {})
            /\ sessionMap' = [sessionMap EXCEPT ![s] = [proc |-> p, conns |-> {c}]]
            /\ detached' = detached \cup sessionMap[s].conns
            /\ consumers' = [consumers EXCEPT ![p] = @ \cup {c}]
      BY <2>2 DEF OpenSession
    <3>2. /\ sessionMap'[s].conns = {c}
          /\ \A r \in Sessions \ {s} : sessionMap'[r] = sessionMap[r]
      BY <1>1, <3>1
    <3> QED  BY <3>1, <3>2
  <2> QED  BY <2>1, <2>2
<1>3. socket[c] = "unused" /\ socket' = [Closing({}) EXCEPT ![c] = "open"]
  BY <1>2 DEF NextSocket, AcceptSocket
<1>4. \A d \in Conns : socket'[d] = IF d = c THEN "open" ELSE socket[d]
  BY <1>1, <1>3 DEF Closing
<1>5. Attended(c)'
  BY <1>2, <1>4 DEF Attended, Registered
<1>6. ASSUME NEW d \in Conns, Attended(d) PROVE Attended(d)'
  <2>1. d # c /\ socket'[d] = socket[d]
    BY <1>3, <1>4, <1>6 DEF Attended
  <2>2. Registered(d)'
    BY <1>2, <1>6 DEF Attended, Registered
  <2> QED  BY <1>6, <2>1, <2>2 DEF Attended
<1>7. \A q \in Procs : consumers'[q] \subseteq consumers[q] \cup {c} /\ consumers[q] \subseteq Conns
  BY <1>1, <1>2
<1> QED  BY <1>5, <1>6, <1>7 DEF ConsumerInv

LEMMA SocketCloseKeepsConsumers ==
  ASSUME TypeOK, ConsumerInv, NEW c \in Conns, SocketClose(c)
  PROVE  ConsumerInv'
<1>1. /\ sessionMap \in [Sessions -> SessionData] /\ consumers \in [Procs -> SUBSET Conns]
      /\ socket \in [Conns -> {"unused", "open", "closing", "closed"}]
  BY DEF TypeOK
<1>2. \A p \in Procs : consumers'[p] \subseteq consumers[p] \ {c}
  <2>1. CASE Registered(c)
    BY <2>1 DEF SocketClose, ConsumersWithout
  <2>2. CASE ~Registered(c)
    BY <2>2 DEF SocketClose, ConsumerInv, Attended
  <2> QED  BY <2>1, <2>2
<1>3. ASSUME NEW d \in Conns \ {c}, Attended(d) PROVE Attended(d)'
  <2>1. socket'[d] = socket[d] /\ (d \in detached => d \in detached')
    BY <1>1 DEF SocketClose
  <2>2. \A s \in Sessions : sessionMap'[s].conns = sessionMap[s].conns \ {c}
    BY <1>1 DEF SocketClose, SessionData
  <2> QED  BY <1>3, <2>1, <2>2 DEF Attended, Registered
<1> QED  BY <1>1, <1>2, <1>3 DEF ConsumerInv

LEMMA StepKeepsConsumers ==
  ASSUME IInv, ConsumerInv, MaxSessionConns = 0, [Next]_vars
  PROVE  ConsumerInv'
<1>1. TypeOK /\ procs \in [Sessions -> Procs \cup {NoProc}]
  BY DEF IInv, TypeOK
<1>2. ASSUME NEW s \in Sessions, ConnectJoin(s) PROVE ConsumerInv'
  BY <1>1, <1>2, OpenKeepsConsumers
<1>3. ASSUME NEW s \in Sessions, ConnectExisting(s) \/ ConnectSpawn(s) PROVE ConsumerInv'
  <2>1. CASE ConnectExisting(s)
    BY <1>1, <2>1, OpenKeepsConsumers DEF ConnectExisting
  <2>2. CASE ConnectSpawn(s)
    BY <1>1, <2>2, OpenKeepsConsumers DEF ConnectSpawn
  <2> QED  BY <1>3, <2>1, <2>2
<1>4. ASSUME NEW c \in Conns, SocketClose(c) PROVE ConsumerInv'
  BY <1>1, <1>4, SocketCloseKeepsConsumers
<1>5. ASSUME NEW c \in Conns, SocketError(c) PROVE ConsumerInv'
  <2>1. UNCHANGED <<sessionMap, detached, consumers>> /\ socket' = [socket EXCEPT ![c] = "closing"]
    BY <1>5 DEF SocketError
  <2>2. \A p \in Procs : consumers[p] \subseteq Conns
    BY <1>1 DEF TypeOK
  <2>3. ASSUME NEW d \in Conns, Attended(d) PROVE Attended(d)'
    BY <1>1, <2>1, <2>3 DEF Attended, Registered, TypeOK
  <2> QED  BY <2>1, <2>2, <2>3 DEF ConsumerInv
<1>6. ASSUME NEW p \in Procs, ProcExit(p) PROVE ConsumerInv'
  <2>1. UNCHANGED <<sessionMap, detached, socket>>
    BY <1>6 DEF ProcExit
  <2>2. \A q \in Procs : consumers'[q] \subseteq consumers[q]
    BY <1>1, <1>6 DEF ProcExit, TypeOK
  <2> QED  BY <2>1, <2>2 DEF ConsumerInv, Attended, Registered
<1>7. ASSUME NEW t \in Tasks, RunTask(t) \/ ShutdownStep(t) PROVE ConsumerInv'
  <2>1. CASE \E s \in Sessions : CloseSession(s)
    BY <1>1, <2>1, CloseKeepsConsumers
  <2>2. CASE RunTask(t) /\ task[t].sid \notin Sessions
    <3>1. task[t].sid \in Sessions
      BY <2>2 DEF IInv, TaskInv, RunTask
    <3> QED  BY <2>2, <3>1
  <2> QED  BY <1>7, <2>1, <2>2 DEF RunTask, ShutdownStep, LiveSessions
<1>8. ASSUME UNCHANGED <<sessionMap, connVars>> PROVE ConsumerInv'
  BY <1>8 DEF connVars, ConsumerInv, Attended, Registered
<1>9. ASSUME NEW s \in Sessions, CallCloseSession(s) PROVE ConsumerInv'
  BY <1>8, <1>9 DEF CallCloseSession
<1>10. ASSUME NEW c \in Conns, SocketMessage(c) PROVE ConsumerInv'
  BY <1>8, <1>10 DEF SocketMessage
<1>11. ASSUME NEW t \in Tasks, TailDone(t) \/ ServerExit(t) \/ ResumeTask(t)
                               \/ ShutdownResume(t) \/ ShutdownEnd(t)
       PROVE  ConsumerInv'
  BY <1>8, <1>11 DEF TailDone, ServerExit, ResumeTask, ShutdownResume, ShutdownEnd
<1>12. CASE CallShutdown \/ IdleTimeout \/ UNCHANGED vars
  BY <1>8, <1>12 DEF CallShutdown, IdleTimeout, vars
<1> QED
  BY <1>2, <1>3, <1>4, <1>5, <1>6, <1>7, <1>9, <1>10, <1>11, <1>12 DEF Next

\* Without maxSessionConns every consumer goes when its socket closes, whether the
\* socket's session is still there, was closed, or was replaced by another
\* (LSWSServer.ts:96, 395-417); dropping a connection for a new one breaks this (742).
THEOREM ConsumersGoWithSockets ==
  ASSUME MaxSessionConns = 0 PROVE Spec => []NoConsumerLeak
<1>1. Init => ConsumerInv
  BY DEF Init, ConsumerInv
<1>2. ConsumerInv /\ IInv /\ [Next]_vars => ConsumerInv'
  BY StepKeepsConsumers
<1>3. ConsumerInv => NoConsumerLeak
  BY DEF ConsumerInv, NoConsumerLeak, Attended
<1> QED  BY <1>1, <1>2, <1>3, InductiveInvariant, PTL DEF Spec

=============================================================================
