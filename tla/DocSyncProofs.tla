--------------------------- MODULE DocSyncProofs ---------------------------
(***************************************************************************)
(* Theorems about DocSync, for any number of locks, edits and              *)
(* initializations, and all values of the switches.  What an operation of  *)
(* the queue does to the plugin is told by Follows, which compositions of  *)
(* operations inherit; each action is such a composition.                  *)
(***************************************************************************)
EXTENDS DocSync, FiniteSetTheorems, SequenceTheorems, WellFoundedInduction, TLAPS

-----------------------------------------------------------------------------
(* The invariant *)

\* A call of syncChanges between its begin and its end.
Busy == {"waiting", "resumed", "job"}

\* A doWithLock that does not have the lock yet, and one that has not left it.
Entering == {"free", "syncing", "synced", "waiting", "resumed"}
Inside == Entering \cup {"locked", "leaving"}

\* Each job is of one call, which waits for it, and is queued or running once.
JobInv(c) ==
    /\ c.running.call = NoCall <=> c.running.mode = "none"
    /\ \A a \in Calls : c.call[a] = "job" <=>
            \/ c.running.call = a
            \/ \E i \in DOMAIN c.queue : c.queue[i] = a
    /\ \A i, j \in DOMAIN c.queue : c.queue[i] = c.queue[j] => i = j
    /\ \A i \in DOMAIN c.queue : c.queue[i] # c.running.call

\* Which calls a doWithLock has made, and which one it waits for.
LockInv(c) == \A l \in Locks :
    /\ c.lock[l] = "free" => c.call[Before(l)] = "free"
    /\ c.lock[l] \in Inside => c.call[After(l)] = "free"
    /\ c.call[Before(l)] \in Busy => c.lock[l] = "syncing"
    /\ c.lock[l] \in Entering => c.call[OnTimeout(l)] = "free"

PauseInv(c) == c.paused => \E l \in Locks : c.lock[l] = "locked"

Good(c) ==
    /\ c \in CoreType
    /\ c.sent.version <= c.version
    /\ JobInv(c) /\ LockInv(c) /\ PauseInv(c)

\* What is still to be called has not been called.
FutureInv ==
    /\ \A l \in timers : core.lock[l] \notin Entering /\ core.call[OnTimeout(l)] = "free"
    /\ \A n \in 1 .. MaxEdits : n > edits => core.call[OnEdit(n)] = "free"

IInv == TypeOK /\ Good(core) /\ FutureInv

\* d follows from c by operations that only the calls of A begin with. None pauses
\* or starts the queue, takes a lock, or sends anything while the queue is paused;
\* what they send is the text of the editor, under a version of its own.
Follows(c, d, A) ==
    /\ Good(d)
    /\ c.version <= d.version
    /\ d.sent = c.sent \/ (d.sent.version > c.version /\ d.sent.text = doc)
    /\ d.paused = c.paused
    /\ c.paused => d.sent = c.sent
    /\ \A a \in Calls \ A : c.call[a] \notin Busy => d.call[a] = c.call[a]
    /\ \A l \in Locks : c.lock[l] \notin Entering => d.lock[l] \notin Entering
    /\ \A l \in Locks : d.lock[l] = "locked" => c.lock[l] = "locked"

LEMMA FollowsItself == ASSUME NEW c, Good(c) PROVE Follows(c, c, {})
BY DEF Follows, Good, CoreType

LEMMA FollowsOn ==
    ASSUME NEW c, NEW d, NEW e, NEW A, Good(c), Follows(c, d, {}), Follows(d, e, A)
    PROVE  Follows(c, e, A)
<1>1. /\ c.version \in Nat /\ d.version \in Nat /\ e.version \in Nat
      /\ c.sent.version \in Nat /\ d.sent.version \in Nat /\ e.sent.version \in Nat
  BY DEF Follows, Good, CoreType
<1>2. e.sent = c.sent \/ (e.sent.version > c.version /\ e.sent.text = doc)
  BY <1>1 DEF Follows
<1> QED
  BY <1>1, <1>2 DEF Follows

LEMMA CallsDiffer ==
    /\ NoCall \notin Calls
    /\ \A n \in 1 .. MaxEdits : OnEdit(n) \in Calls
    /\ \A l \in Locks : Before(l) \in Calls /\ After(l) \in Calls /\ OnTimeout(l) \in Calls
    /\ \A l, m \in Locks : /\ Before(l) # After(m) /\ Before(l) # OnTimeout(m)
                           /\ After(l) # OnTimeout(m)
                           /\ Before(l) = Before(m) => l = m
                           /\ After(l) = After(m) => l = m
                           /\ OnTimeout(l) = OnTimeout(m) => l = m
    /\ \A n \in 1 .. MaxEdits, l \in Locks :
         OnEdit(n) # Before(l) /\ OnEdit(n) # After(l) /\ OnEdit(n) # OnTimeout(l)
    /\ \A n, k \in 1 .. MaxEdits : OnEdit(n) = OnEdit(k) => n = k
<1>1. \A n \in 1 .. MaxEdits : OnEdit(n) \in Calls
  BY DEF Calls
<1>2. \A l \in Locks : Before(l) \in Calls /\ After(l) \in Calls /\ OnTimeout(l) \in Calls
  BY DEF Calls
<1>3. \A l, m \in Locks : /\ Before(l) # After(m) /\ Before(l) # OnTimeout(m)
                          /\ After(l) # OnTimeout(m)
                          /\ Before(l) = Before(m) => l = m
                          /\ After(l) = After(m) => l = m
                          /\ OnTimeout(l) = OnTimeout(m) => l = m
  BY DEF Before, After, OnTimeout
<1>4. /\ \A n \in 1 .. MaxEdits, l \in Locks :
           OnEdit(n) # Before(l) /\ OnEdit(n) # After(l) /\ OnEdit(n) # OnTimeout(l)
      /\ \A n, k \in 1 .. MaxEdits : OnEdit(n) = OnEdit(k) => n = k
  BY DEF OnEdit, Before, After, OnTimeout
<1>5. NoCall \notin Calls
  BY DEF Calls, NoCall, OnEdit, Before, After, OnTimeout
<1> QED
  BY <1>1, <1>2, <1>3, <1>4, <1>5

-----------------------------------------------------------------------------
(* Promises *)

\* What Fulfilled and Rejected have in common.
Settled(c, d, A) ==
    /\ d \in CoreType
    /\ d = [c EXCEPT !.call = d.call, !.lock = d.lock]
    /\ d.call = [a \in Calls |-> IF a \in A THEN "over" ELSE c.call[a]]
    /\ \A l \in Locks :
         \/ d.lock[l] = c.lock[l]
         \/ Before(l) \in A /\ d.lock[l] \in {"synced", "failed"}
         \/ After(l) \in A /\ d.lock[l] \in {"over", "failed"}

LEMMA SettledFrame ==
    ASSUME NEW c \in CoreType, NEW d, NEW A, Settled(c, d, A)
    PROVE  /\ d \in CoreType
           /\ d.queue = c.queue /\ d.running = c.running /\ d.paused = c.paused
           /\ d.version = c.version /\ d.sent = c.sent /\ d.aborted = c.aborted
           /\ \A a \in Calls : d.call[a] = IF a \in A THEN "over" ELSE c.call[a]
<1>1. PICK calls, locks : d = [c EXCEPT !.call = calls, !.lock = locks]
  BY DEF Settled
<1>2. /\ d.queue = c.queue /\ d.running = c.running /\ d.paused = c.paused
      /\ d.version = c.version /\ d.sent = c.sent /\ d.aborted = c.aborted
  BY <1>1 DEF CoreType
<1> QED
  BY <1>2 DEF Settled

LEMMA FulfilledSettles ==
    ASSUME NEW c \in CoreType, NEW A PROVE Settled(c, Fulfilled(c, A), A)
<1> DEFINE calls == [a \in Calls |-> IF a \in A THEN "over" ELSE c.call[a]]
           locks == [l \in Locks |-> CASE Before(l) \in A -> "synced"
                                       [] After(l) \in A -> "over"
                                       [] OTHER -> c.lock[l]]
<1>1. calls \in [Calls -> {"free", "waiting", "resumed", "job", "over"}]
  BY DEF CoreType
<1>2. locks \in [Locks -> {"free", "syncing", "synced", "waiting", "resumed",
                           "locked", "leaving", "resyncing", "over", "failed"}]
  BY DEF CoreType
<1>3. /\ calls = [a \in Calls |-> IF a \in A THEN "over" ELSE c.call[a]]
      /\ \A l \in Locks : \/ locks[l] = c.lock[l]
                          \/ Before(l) \in A /\ locks[l] \in {"synced", "failed"}
                          \/ After(l) \in A /\ locks[l] \in {"over", "failed"}
  OBVIOUS
<1> HIDE DEF calls, locks
<1>4. PICK d : d = [c EXCEPT !.call = calls, !.lock = locks]
  OBVIOUS
<1>5. d \in CoreType
  BY <1>1, <1>2, <1>4 DEF CoreType
<1>6. d.call = calls /\ d.lock = locks
  BY <1>4 DEF CoreType
<1>7. Settled(c, d, A)
  BY <1>3, <1>4, <1>5, <1>6 DEF Settled
<1>8. d = Fulfilled(c, A)
  BY <1>4 DEF Fulfilled, calls, locks
<1> QED
  BY <1>7, <1>8

LEMMA RejectedSettles ==
    ASSUME NEW c \in CoreType, NEW A PROVE Settled(c, Rejected(c, A), A)
<1> DEFINE calls == [a \in Calls |-> IF a \in A THEN "over" ELSE c.call[a]]
           locks == [l \in Locks |-> IF {Before(l), After(l)} \cap A # {}
                                     THEN "failed" ELSE c.lock[l]]
<1>1. calls \in [Calls -> {"free", "waiting", "resumed", "job", "over"}]
  BY DEF CoreType
<1>2. locks \in [Locks -> {"free", "syncing", "synced", "waiting", "resumed",
                           "locked", "leaving", "resyncing", "over", "failed"}]
  BY DEF CoreType
<1>3. /\ calls = [a \in Calls |-> IF a \in A THEN "over" ELSE c.call[a]]
      /\ \A l \in Locks : \/ locks[l] = c.lock[l]
                          \/ Before(l) \in A /\ locks[l] \in {"synced", "failed"}
                          \/ After(l) \in A /\ locks[l] \in {"over", "failed"}
  OBVIOUS
<1> HIDE DEF calls, locks
<1>4. PICK d : d = [c EXCEPT !.call = calls, !.lock = locks]
  OBVIOUS
<1>5. d \in CoreType
  BY <1>1, <1>2, <1>4 DEF CoreType
<1>6. d.call = calls /\ d.lock = locks
  BY <1>4 DEF CoreType
<1>7. Settled(c, d, A)
  BY <1>3, <1>4, <1>5, <1>6 DEF Settled
<1>8. d = Rejected(c, A)
  BY <1>4 DEF Rejected, calls, locks
<1> QED
  BY <1>7, <1>8

\* A doWithLock awaits whichever of its calls is settled.
Awaited(c, A) == \A l \in Locks :
    /\ Before(l) \in A => c.lock[l] = "syncing"
    /\ After(l) \in A => c.lock[l] \notin Inside
    /\ OnTimeout(l) \in A => c.lock[l] \notin Entering

LEMMA BusyIsAwaited ==
    ASSUME NEW c, LockInv(c), NEW A, \A a \in A : c.call[a] \in Busy PROVE Awaited(c, A)
BY DEF LockInv, Awaited, Busy

LEMMA SettledKeepsLocks ==
    ASSUME NEW c, NEW d, NEW A \in SUBSET Calls,
           LockInv(c), PauseInv(c), Awaited(c, A), c \in CoreType, Settled(c, d, A)
    PROVE  /\ LockInv(d) /\ PauseInv(d)
           /\ \A l \in Locks : c.lock[l] \notin Entering => d.lock[l] \notin Entering
           /\ \A l \in Locks : d.lock[l] = "locked" => c.lock[l] = "locked"
<1>1. ASSUME NEW l \in Locks
      PROVE  /\ d.lock[l] = "free" => d.call[Before(l)] = "free"
             /\ d.lock[l] \in Inside => d.call[After(l)] = "free"
             /\ d.call[Before(l)] \in Busy => d.lock[l] = "syncing"
             /\ d.lock[l] \in Entering => d.call[OnTimeout(l)] = "free"
             /\ c.lock[l] \notin Entering => d.lock[l] \notin Entering
             /\ c.lock[l] = "locked" <=> d.lock[l] = "locked"
  <2>1. /\ d.call[Before(l)] = IF Before(l) \in A THEN "over" ELSE c.call[Before(l)]
        /\ d.call[After(l)] = IF After(l) \in A THEN "over" ELSE c.call[After(l)]
        /\ d.call[OnTimeout(l)] = IF OnTimeout(l) \in A THEN "over" ELSE c.call[OnTimeout(l)]
    BY CallsDiffer DEF Settled
  <2>2. /\ Before(l) \in A => c.lock[l] = "syncing"
        /\ After(l) \in A => c.lock[l] \notin Inside
        /\ OnTimeout(l) \in A => c.lock[l] \notin Entering
    BY DEF Awaited
  <2>3. \/ d.lock[l] = c.lock[l]
        \/ Before(l) \in A /\ d.lock[l] \in {"synced", "failed"}
        \/ After(l) \in A /\ d.lock[l] \in {"over", "failed"}
    BY DEF Settled
  <2>4. /\ c.lock[l] = "free" => c.call[Before(l)] = "free"
        /\ c.lock[l] \in Inside => c.call[After(l)] = "free"
        /\ c.call[Before(l)] \in Busy => c.lock[l] = "syncing"
        /\ c.lock[l] \in Entering => c.call[OnTimeout(l)] = "free"
    BY DEF LockInv
  <2> QED
    BY <2>1, <2>2, <2>3, <2>4 DEF Busy, Entering, Inside
<1>2. d.paused = c.paused
  BY DEF Settled, CoreType
<1> QED
  BY <1>1, <1>2 DEF LockInv, PauseInv

LEMMA IdleFollows == ASSUME NEW c, Good(c) PROVE Follows(c, Idle(c), {})
<1> DEFINE calls == [a \in Calls |-> IF c.call[a] = "waiting" THEN "resumed" ELSE c.call[a]]
           locks == [l \in Locks |-> IF c.lock[l] = "waiting" THEN "resumed" ELSE c.lock[l]]
<1>1. c \in CoreType
  BY DEF Good
<1>2. /\ calls \in [Calls -> {"free", "waiting", "resumed", "job", "over"}]
      /\ locks \in [Locks -> {"free", "syncing", "synced", "waiting", "resumed",
                              "locked", "leaving", "resyncing", "over", "failed"}]
      /\ c.woken \o c.waiters \in Seq(Calls \cup Locks)
      /\ << >> \in Seq(Calls \cup Locks)
  BY <1>1 DEF CoreType
<1>3. \A a \in Calls : /\ calls[a] = c.call[a] \/ (c.call[a] = "waiting" /\ calls[a] = "resumed")
                       /\ calls[a] = "job" <=> c.call[a] = "job"
  OBVIOUS
<1>4. \A l \in Locks : \/ locks[l] = c.lock[l]
                       \/ c.lock[l] = "waiting" /\ locks[l] = "resumed"
  OBVIOUS
<1> HIDE DEF calls, locks
<1>5. PICK d : d = [c EXCEPT !.call = calls, !.lock = locks, !.woken = c.woken \o c.waiters,
                            !.waiters = << >>]
  OBVIOUS
<1>6. d \in CoreType
  BY <1>1, <1>2, <1>5 DEF CoreType
<1>7. /\ d.call = calls /\ d.lock = locks
      /\ d.queue = c.queue /\ d.running = c.running /\ d.paused = c.paused
      /\ d.version = c.version /\ d.sent = c.sent
  BY <1>1, <1>5 DEF CoreType
<1>8. LockInv(d)
  <2> SUFFICES ASSUME NEW l \in Locks
               PROVE  /\ d.lock[l] = "free" => d.call[Before(l)] = "free"
                      /\ d.lock[l] \in Inside => d.call[After(l)] = "free"
                      /\ d.call[Before(l)] \in Busy => d.lock[l] = "syncing"
                      /\ d.lock[l] \in Entering => d.call[OnTimeout(l)] = "free"
    BY DEF LockInv
  <2>1. /\ c.lock[l] = "free" => c.call[Before(l)] = "free"
        /\ c.lock[l] \in Inside => c.call[After(l)] = "free"
        /\ c.call[Before(l)] \in Busy => c.lock[l] = "syncing"
        /\ c.lock[l] \in Entering => c.call[OnTimeout(l)] = "free"
    BY DEF Good, LockInv
  <2>2. Before(l) \in Calls /\ After(l) \in Calls /\ OnTimeout(l) \in Calls
    BY CallsDiffer
  <2> QED
    BY <1>3, <1>4, <1>7, <2>1, <2>2 DEF Busy, Entering, Inside
<1>9. JobInv(d)
  BY <1>3, <1>7 DEF JobInv, Good
<1>10. PauseInv(d) /\ d.sent.version <= d.version
  BY <1>4, <1>7 DEF PauseInv, Good
<1>11. /\ \A a \in Calls : c.call[a] \notin Busy => d.call[a] = c.call[a]
       /\ \A l \in Locks : c.lock[l] \notin Entering => d.lock[l] \notin Entering
       /\ \A l \in Locks : d.lock[l] = "locked" => c.lock[l] = "locked"
  BY <1>3, <1>4, <1>7 DEF Busy, Entering
<1>12. c.version <= d.version
  BY <1>1, <1>7 DEF CoreType
<1>13. Follows(c, d, {})
  BY <1>6, <1>7, <1>8, <1>9, <1>10, <1>11, <1>12 DEF Follows, Good
<1>14. d = Idle(c)
  BY <1>5 DEF Idle, calls, locks
<1> QED
  BY <1>13, <1>14

-----------------------------------------------------------------------------
(* The queue *)

\* What a job reads of the editor and the transport.
Outside == doc \in Texts /\ lost \in BOOLEAN

\* The first job runs.
LEMMA RunFollows ==
    ASSUME Outside, NEW c, Good(c), c.running = NoJob, c.queue # << >>, ~c.paused
    PROVE  Follows(c, Run([c EXCEPT !.queue = Tail(c.queue)], Head(c.queue)), {})
<1>1. c \in CoreType /\ c.queue \in Seq(Calls) /\ c.version \in Nat /\ c.sent.version <= c.version
  BY DEF Good, CoreType
<1>2. PICK a : a = Head(c.queue)
  OBVIOUS
<1>3. PICK rest : rest = Tail(c.queue)
  OBVIOUS
<1>4. /\ a \in Calls /\ a = c.queue[1] /\ rest \in Seq(Calls)
      /\ Len(c.queue) \in Nat /\ DOMAIN c.queue = 1 .. Len(c.queue) /\ Len(c.queue) > 0
      /\ DOMAIN rest = 1 .. Len(c.queue) - 1
      /\ \A i \in DOMAIN rest : i + 1 \in DOMAIN c.queue /\ rest[i] = c.queue[i + 1]
  BY <1>1, <1>2, <1>3
<1>5. PICK e : e = [c EXCEPT !.queue = rest]
  OBVIOUS
<1>6. /\ e \in CoreType /\ e.queue = rest /\ e.call = c.call /\ e.lock = c.lock
      /\ e.paused = c.paused /\ e.version = c.version /\ e.sent = c.sent
  BY <1>1, <1>4, <1>5 DEF CoreType
<1>7. PICK d : d = Run(e, a)
  OBVIOUS
<1>8. PICK mode, version, sent, failed :
         /\ d = [e EXCEPT !.running = [call |-> a, mode |-> mode], !.version = version,
                          !.sent = sent, !.failed = failed]
         /\ mode \in {"notify", "stale", "failed"} /\ version \in {c.version, c.version + 1}
         /\ failed \in BOOLEAN
         /\ \/ sent = c.sent
            \/ /\ sent \in [text : Texts, version : Nat]
               /\ version = c.version + 1 /\ sent.version = version /\ sent.text = doc
  <2>1. CASE e.at[a] # e.version
    <3>1. d = [e EXCEPT !.running = [call |-> a, mode |-> "stale"]]
      BY <1>7, <2>1 DEF Run
    <3>2. d = [e EXCEPT !.running = [call |-> a, mode |-> "stale"], !.version = e.version,
                        !.sent = e.sent, !.failed = e.failed]
      BY <1>6, <3>1 DEF CoreType
    <3>3. e.failed \in BOOLEAN
      BY <1>6 DEF CoreType
    <3> QED
      BY <1>6, <3>2, <3>3
  <2>2. CASE ~(e.at[a] # e.version)
    <3>1. d = [e EXCEPT !.running = [call |-> a, mode |-> IF lost THEN "failed" ELSE "notify"],
                        !.version = e.version + 1,
                        !.sent = IF lost THEN e.sent ELSE [text |-> doc, version |-> e.version + 1],
                        !.failed = lost]
      BY <1>7, <2>2 DEF Run, NextVersion
    <3>2. PICK mode : mode = IF lost THEN "failed" ELSE "notify"
      OBVIOUS
    <3>3. PICK sent : sent = IF lost THEN e.sent ELSE [text |-> doc, version |-> e.version + 1]
      OBVIOUS
    <3>4. \/ sent = c.sent
          \/ /\ sent \in [text : Texts, version : Nat]
             /\ sent.version = c.version + 1 /\ sent.text = doc
      BY <1>1, <1>6, <3>3 DEF Outside
    <3>5. PICK failed : failed = lost
      OBVIOUS
    <3> QED
      BY <1>6, <3>1, <3>2, <3>3, <3>4, <3>5 DEF Outside
  <2> QED
    BY <2>1, <2>2
<1>9. d \in CoreType
  <2>1. version \in Nat /\ sent \in [text : Texts, version : Nat]
    BY <1>1, <1>8 DEF CoreType
  <2>2. [call |-> a, mode |-> mode] \in
          [call : Calls \cup {NoCall}, mode : {"none", "notify", "stale", "aborted", "failed"}]
    BY <1>4, <1>8
  <2> QED
    BY <1>6, <1>8, <2>1, <2>2 DEF CoreType
<1>14. /\ d.queue = rest /\ d.call = c.call /\ d.lock = c.lock /\ d.paused = c.paused
       /\ d.running = [call |-> a, mode |-> mode] /\ d.version = version /\ d.sent = sent
  BY <1>6, <1>8 DEF CoreType
<1>15. /\ d.running.call = a /\ d.running.mode # "none"
       /\ c.version <= d.version
       /\ \/ d.sent = c.sent
          \/ d.sent.version = d.version /\ d.version > c.version /\ d.sent.text = doc
  BY <1>1, <1>8, <1>14
<1>10. JobInv(d)
  <2>1. \A b \in Calls : c.call[b] = "job" <=> \E i \in DOMAIN c.queue : c.queue[i] = b
    BY CallsDiffer DEF Good, JobInv, NoJob
  <2>2. \A i, j \in DOMAIN c.queue : c.queue[i] = c.queue[j] => i = j
    BY DEF Good, JobInv
  <2>3. ASSUME NEW b \in Calls
        PROVE  d.call[b] = "job" <=> d.running.call = b \/ \E i \in DOMAIN d.queue : d.queue[i] = b
    <3>1. ASSUME NEW i \in DOMAIN c.queue, c.queue[i] = b
          PROVE  a = b \/ \E j \in DOMAIN rest : rest[j] = b
      <4>1. CASE i = 1
        BY <1>4, <3>1, <4>1
      <4>2. CASE i # 1
        <5>1. i - 1 \in DOMAIN rest /\ rest[i - 1] = b
          BY <1>4, <3>1, <4>2
        <5> QED
          BY <5>1
      <4> QED
        BY <4>1, <4>2
    <3>2. ASSUME a = b \/ \E j \in DOMAIN rest : rest[j] = b
          PROVE  \E i \in DOMAIN c.queue : c.queue[i] = b
      BY <1>4, <3>2
    <3> QED
      BY <1>14, <1>15, <2>1, <3>1, <3>2
  <2>4. \A i, j \in DOMAIN d.queue : d.queue[i] = d.queue[j] => i = j
    <3> SUFFICES ASSUME NEW i \in DOMAIN rest, NEW j \in DOMAIN rest, rest[i] = rest[j]
                 PROVE  i = j
      BY <1>14
    <3>1. c.queue[i + 1] = c.queue[j + 1] /\ i + 1 \in DOMAIN c.queue /\ j + 1 \in DOMAIN c.queue
      BY <1>4
    <3>2. i + 1 = j + 1 /\ i \in Nat /\ j \in Nat
      BY <1>4, <2>2, <3>1
    <3> QED
      BY <3>2
  <2>5. \A i \in DOMAIN d.queue : d.queue[i] # d.running.call
    <3> SUFFICES ASSUME NEW i \in DOMAIN rest PROVE rest[i] # a
      BY <1>14, <1>15
    <3>1. i + 1 \in DOMAIN c.queue /\ rest[i] = c.queue[i + 1] /\ 1 \in DOMAIN c.queue /\ i \in Nat
          /\ i # 0
      BY <1>4
    <3>2. rest[i] = a => i + 1 = 1
      BY <1>4, <2>2, <3>1
    <3> QED
      BY <3>1, <3>2
  <2> QED
    BY <1>4, <1>14, <1>15, <2>3, <2>4, <2>5, CallsDiffer DEF JobInv
<1>11. LockInv(d) /\ PauseInv(d)
  BY <1>14, <1>15 DEF Good, LockInv, PauseInv
<1>12. d.sent.version <= d.version /\ (d.sent = c.sent \/ d.sent.version > c.version)
  BY <1>1, <1>9, <1>14, <1>15, SMTT(30) DEF CoreType
<1>13. Good(d)
  BY <1>9, <1>10, <1>11, <1>12 DEF Good
<1>16. Follows(c, d, {})
  <2>1. d.sent = c.sent \/ (d.sent.version > c.version /\ d.sent.text = doc)
    BY <1>12, <1>15
  <2> QED
    BY <1>13, <1>14, <1>15, <2>1 DEF Follows
<1> QED
  BY <1>2, <1>3, <1>5, <1>7, <1>16

\* The first n jobs throw.
LEMMA ThrownFollows ==
    ASSUME NEW c, Good(c), NEW n \in 0 .. Len(c.queue)
    PROVE  \E thrown, rest, d :
             /\ thrown = {c.queue[i] : i \in 1 .. n}
             /\ rest = SubSeq(c.queue, n + 1, Len(c.queue))
             /\ d = Rejected([c EXCEPT !.queue = rest, !.aborted = c.aborted \ thrown], thrown)
             /\ Follows(c, d, {}) /\ d.running = c.running /\ d.queue = rest
<1>a. PICK thrown : thrown = {c.queue[i] : i \in 1 .. n}
  OBVIOUS
<1>b. PICK rest : rest = SubSeq(c.queue, n + 1, Len(c.queue))
  OBVIOUS
<1>c. PICK e : e = [c EXCEPT !.queue = rest, !.aborted = c.aborted \ thrown]
  OBVIOUS
<1>d. PICK d : d = Rejected(e, thrown)
  OBVIOUS
<1>1. c \in CoreType /\ c.queue \in Seq(Calls) /\ c.version \in Nat /\ c.aborted \subseteq Calls
  BY DEF Good, CoreType
<1>2. /\ Len(c.queue) \in Nat /\ DOMAIN c.queue = 1 .. Len(c.queue) /\ n \in Nat
      /\ \A i \in DOMAIN c.queue : c.queue[i] \in Calls
      /\ n <= Len(c.queue)
  BY <1>1
<1>3. /\ rest \in Seq(Calls) /\ DOMAIN rest = 1 .. Len(c.queue) - n
      /\ \A k \in DOMAIN rest : rest[k] = c.queue[k + n]
  BY <1>b, <1>1, <1>2
<1>4. thrown \in SUBSET Calls
  BY <1>a, <1>2
<1>6. e \in CoreType
  BY <1>c, <1>1, <1>3 DEF CoreType
<1>7. /\ e.queue = rest /\ e.call = c.call /\ e.lock = c.lock /\ e.paused = c.paused
      /\ e.running = c.running /\ e.version = c.version /\ e.sent = c.sent
  BY <1>c, <1>1 DEF CoreType
<1>8. Settled(e, d, thrown)
  BY <1>d, <1>6, RejectedSettles
<1>9. \A a \in thrown : c.call[a] = "job"
  BY <1>a, <1>2, <1>4 DEF Good, JobInv
<1>10. LockInv(e) /\ PauseInv(e)
  BY <1>7 DEF Good, LockInv, PauseInv
<1>11. Awaited(e, thrown)
  BY <1>7, <1>9, <1>10, BusyIsAwaited DEF Busy
<1>12. /\ LockInv(d) /\ PauseInv(d)
       /\ \A l \in Locks : c.lock[l] \notin Entering => d.lock[l] \notin Entering
       /\ \A l \in Locks : d.lock[l] = "locked" => c.lock[l] = "locked"
  <2>1. /\ LockInv(d) /\ PauseInv(d)
        /\ \A l \in Locks : e.lock[l] \notin Entering => d.lock[l] \notin Entering
        /\ \A l \in Locks : d.lock[l] = "locked" => e.lock[l] = "locked"
    BY <1>4, <1>6, <1>8, <1>10, <1>11, SettledKeepsLocks
  <2> QED
    BY <1>7, <2>1
<1>13. /\ d \in CoreType /\ d.queue = rest /\ d.running = c.running
       /\ d.paused = c.paused /\ d.version = c.version /\ d.sent = c.sent
       /\ \A a \in Calls : d.call[a] = IF a \in thrown THEN "over" ELSE c.call[a]
  <2>1. /\ d \in CoreType
        /\ d.queue = e.queue /\ d.running = e.running /\ d.paused = e.paused
        /\ d.version = e.version /\ d.sent = e.sent /\ d.aborted = e.aborted
        /\ \A a \in Calls : d.call[a] = IF a \in thrown THEN "over" ELSE e.call[a]
    BY <1>6, <1>8, SettledFrame
  <2> QED
    BY <1>7, <2>1
<1>14. /\ \A b \in Calls : c.call[b] = "job" <=>
             c.running.call = b \/ \E i \in DOMAIN c.queue : c.queue[i] = b
       /\ \A i, j \in DOMAIN c.queue : c.queue[i] = c.queue[j] => i = j
       /\ \A i \in DOMAIN c.queue : c.queue[i] # c.running.call
       /\ c.running.call = NoCall <=> c.running.mode = "none"
  BY DEF Good, JobInv
<1>15. \A k \in DOMAIN rest : k + n \in DOMAIN c.queue /\ rest[k] \notin thrown
  <2> SUFFICES ASSUME NEW k \in DOMAIN rest
               PROVE  k + n \in DOMAIN c.queue /\ rest[k] \notin thrown
    OBVIOUS
  <2>1. k \in Nat /\ k > 0 /\ k + n \in DOMAIN c.queue
    BY <1>2, <1>3
  <2>2. \A i \in 1 .. n : i \in DOMAIN c.queue /\ i # k + n
    BY <1>2, <2>1
  <2> QED
    BY <1>a, <1>3, <1>14, <2>1, <2>2
<1>16. ASSUME NEW b \in Calls
       PROVE  d.call[b] = "job" <=> d.running.call = b \/ \E k \in DOMAIN d.queue : d.queue[k] = b
  <2>1. ASSUME NEW i \in DOMAIN c.queue, c.queue[i] = b, b \notin thrown
        PROVE  \E k \in DOMAIN rest : rest[k] = b
    <3>1. i > n /\ i \in Nat /\ i <= Len(c.queue)
      BY <1>a, <1>2, <2>1
    <3>2. i - n \in DOMAIN rest /\ rest[i - n] = c.queue[i]
      BY <1>2, <1>3, <3>1
    <3> QED
      BY <2>1, <3>2
  <2>2. c.running.call \notin thrown
    BY <1>a, <1>2, <1>14
  <2>3. ASSUME NEW k \in DOMAIN rest, rest[k] = b PROVE c.call[b] = "job" /\ b \notin thrown
    BY <1>3, <1>14, <1>15, <2>3
  <2>4. d.call[b] = "job" <=> b \notin thrown /\ c.call[b] = "job"
    BY <1>13
  <2>5. c.call[b] = "job" <=> c.running.call = b \/ \E i \in DOMAIN c.queue : c.queue[i] = b
    BY <1>14
  <2>6. d.running.call = c.running.call /\ d.queue = rest
    BY <1>13
  <2> QED
    BY <2>1, <2>2, <2>3, <2>4, <2>5, <2>6
<1>17. \A i, j \in DOMAIN rest : rest[i] = rest[j] => i = j
  <2> SUFFICES ASSUME NEW i \in DOMAIN rest, NEW j \in DOMAIN rest, rest[i] = rest[j]
               PROVE  i = j
    OBVIOUS
  <2>1. i + n = j + n
    BY <1>3, <1>14, <1>15
  <2> QED
    BY <1>2, <1>3, <2>1
<1>18. \A k \in DOMAIN rest : rest[k] # c.running.call
  BY <1>3, <1>14, <1>15
<1>19. JobInv(d)
  BY <1>13, <1>14, <1>16, <1>17, <1>18 DEF JobInv
<1>20. \A a \in Calls : c.call[a] \notin Busy => d.call[a] = c.call[a]
  BY <1>9, <1>13 DEF Busy
<1>21. Follows(c, d, {})
  BY <1>1, <1>12, <1>13, <1>19, <1>20 DEF Follows, Good
<1> QED
  BY <1>a, <1>b, <1>c, <1>d, <1>13, <1>21

\* There is a first job whose signal is not aborted, or there is none.
LEMMA FrontExists ==
    ASSUME NEW S, NEW q \in Seq(S), NEW A
    PROVE  \E n \in 0 .. Len(q) : /\ \A i \in 1 .. n : q[i] \in A
                                  /\ n = Len(q) \/ q[n + 1] \notin A
<1> DEFINE T == {n \in 0 .. Len(q) : n = Len(q) \/ q[n + 1] \notin A}
<1>1. Len(q) \in Nat
  OBVIOUS
<1>2. T \subseteq Nat /\ T # {}
  BY <1>1
<1>3. \E n \in T : \A k \in T : <<k, n>> \notin OpToRel(<, Nat)
  BY <1>2, NatLessThanWellFounded, WFMin
<1>4. \A k, n \in Nat : k < n => <<k, n>> \in OpToRel(<, Nat)
  BY DEF OpToRel
<1>5. PICK n \in T : \A k \in T : ~(k < n)
  BY <1>2, <1>3, <1>4
<1>6. ASSUME NEW i \in 1 .. n PROVE q[i] \in A
  <2>1. i - 1 \in 0 .. Len(q) /\ i - 1 < n /\ i - 1 + 1 = i /\ i - 1 # Len(q)
    BY <1>1
  <2>2. i - 1 \notin T
    BY <1>5, <2>1
  <2> QED
    BY <2>1, <2>2
<1> QED
  BY <1>5, <1>6

LEMMA TryFollows ==
    ASSUME Outside, NEW c, Good(c) PROVE Follows(c, TryToStartAnother(c), {})
<1>1. CASE ~MayStart(c) \/ (c.queue # << >> /\ c.paused)
  <2>1. TryToStartAnother(c) = c
    BY <1>1 DEF TryToStartAnother, MayStart, IsIdle
  <2> QED
    BY <2>1, FollowsItself
<1>2. CASE MayStart(c) /\ c.queue = << >>
  <2>1. TryToStartAnother(c) = Idle(c)
    BY <1>2 DEF TryToStartAnother, MayStart, IsIdle
  <2> QED
    BY <2>1, IdleFollows
<1>3. CASE MayStart(c) /\ c.queue # << >> /\ ~c.paused
  <2> DEFINE IsFront(n) == /\ \A i \in 1 .. n : c.queue[i] \in c.aborted
                           /\ n = Len(c.queue) \/ c.queue[n + 1] \notin c.aborted
             front == CHOOSE n \in 0 .. Len(c.queue) : IsFront(n)
             Thrown(n) == {c.queue[i] : i \in 1 .. n}
             Rest(n) == SubSeq(c.queue, n + 1, Len(c.queue))
             Left(n) == Rejected([c EXCEPT !.queue = Rest(n), !.aborted = @ \ Thrown(n)], Thrown(n))
  <2>1. TryToStartAnother(c) = IF Rest(front) = << >> THEN Idle(Left(front))
                               ELSE Run([Left(front) EXCEPT !.queue = Tail(Rest(front))],
                                        Head(Rest(front)))
    BY <1>3 DEF TryToStartAnother
  <2>2. \E n \in 0 .. Len(c.queue) : IsFront(n)
    <3>1. c.queue \in Seq(Calls)
      BY DEF Good, CoreType
    <3> QED
      BY <3>1, FrontExists
  <2>3. front \in 0 .. Len(c.queue)
    BY <2>2
  <2> HIDE DEF front, Rest, Left
  <2>4. PICK n \in 0 .. Len(c.queue) : n = front
    BY <2>3
  <2>5. PICK thrown, rest, left :
           /\ thrown = {c.queue[i] : i \in 1 .. n}
           /\ rest = SubSeq(c.queue, n + 1, Len(c.queue))
           /\ left = Rejected([c EXCEPT !.queue = rest, !.aborted = c.aborted \ thrown], thrown)
           /\ Follows(c, left, {}) /\ left.running = c.running /\ left.queue = rest
    BY ThrownFollows
  <2>6. rest = Rest(n) /\ left = Left(n)
    BY <2>5 DEF Rest, Left
  <2>8. TryToStartAnother(c) = IF rest = << >> THEN Idle(left)
                               ELSE Run([left EXCEPT !.queue = Tail(rest)], Head(rest))
    BY <2>1, <2>4, <2>6
  <2>9. Follows(c, left, {}) /\ left.running = NoJob /\ left.queue = rest
    BY <1>3, <2>5 DEF MayStart
  <2>10. Good(left) /\ ~left.paused
    BY <1>3, <2>9 DEF Follows
  <2>11. CASE rest = << >>
    BY <2>8, <2>9, <2>10, <2>11, IdleFollows, FollowsOn
  <2>12. CASE rest # << >>
    <3>1. Follows(left, Run([left EXCEPT !.queue = Tail(left.queue)], Head(left.queue)), {})
      BY <2>9, <2>10, <2>12, RunFollows
    <3> QED
      BY <2>8, <2>9, <2>12, <3>1, FollowsOn
  <2> QED
    BY <2>11, <2>12
<1> QED
  BY <1>1, <1>2, <1>3

\* The promise of the job that runs is settled.
Unoccupied(c) == [c EXCEPT !.running = NoJob]

LEMMA UnoccupiedFollows ==
    ASSUME NEW c, Good(c), c.running.call # NoCall, NEW d, Settled(c, d, {c.running.call})
    PROVE  Follows(c, Unoccupied(d), {})
<1>1. c \in CoreType /\ c.running.call \in Calls
  BY DEF Good, CoreType
<1>2. PICK r \in Calls : r = c.running.call
  BY <1>1
<1>3. /\ d \in CoreType
      /\ d.queue = c.queue /\ d.paused = c.paused /\ d.version = c.version /\ d.sent = c.sent
      /\ \A a \in Calls : d.call[a] = IF a = r THEN "over" ELSE c.call[a]
  BY <1>1, <1>2, SettledFrame
<1>4. c.call[r] = "job"
  BY <1>2 DEF Good, JobInv
<1>5. /\ LockInv(d) /\ PauseInv(d)
      /\ \A l \in Locks : c.lock[l] \notin Entering => d.lock[l] \notin Entering
      /\ \A l \in Locks : d.lock[l] = "locked" => c.lock[l] = "locked"
  <2>1. Awaited(c, {r})
    BY <1>4, BusyIsAwaited DEF Good, Busy
  <2> QED
    BY <1>1, <1>2, <2>1, SettledKeepsLocks DEF Good
<1>6. PICK e : e = [d EXCEPT !.running = NoJob]
  OBVIOUS
<1>7. e \in CoreType
  <2>1. NoJob \in [call : Calls \cup {NoCall},
                   mode : {"none", "notify", "stale", "aborted", "failed"}]
    BY DEF NoJob
  <2> QED
    BY <1>3, <1>6, <2>1 DEF CoreType
<1>8. /\ e.running = NoJob /\ e.queue = c.queue /\ e.call = d.call /\ e.lock = d.lock
      /\ e.paused = c.paused /\ e.version = c.version /\ e.sent = c.sent
  BY <1>3, <1>6 DEF CoreType
<1>9. LockInv(e) /\ PauseInv(e)
  BY <1>3, <1>5, <1>8 DEF LockInv, PauseInv
<1>10. JobInv(e)
  <2>1. ASSUME NEW b \in Calls
        PROVE  e.call[b] = "job" <=> \E i \in DOMAIN c.queue : c.queue[i] = b
    <3>1. e.call[b] = "job" <=> b # r /\ c.call[b] = "job"
      BY <1>3, <1>8
    <3>2. c.call[b] = "job" <=> r = b \/ \E i \in DOMAIN c.queue : c.queue[i] = b
      BY <1>2 DEF Good, JobInv
    <3>3. \A i \in DOMAIN c.queue : c.queue[i] # r
      BY <1>2 DEF Good, JobInv
    <3> QED
      BY <3>1, <3>2, <3>3
  <2>2. e.running.call = NoCall /\ e.running.mode = "none"
    BY <1>8 DEF NoJob
  <2>3. \A i \in DOMAIN c.queue : c.queue[i] \in Calls
    BY <1>1 DEF CoreType
  <2> QED
    BY <1>8, <2>1, <2>2, <2>3, CallsDiffer DEF Good, JobInv
<1>11. \A a \in Calls : c.call[a] \notin Busy => e.call[a] = c.call[a]
  BY <1>3, <1>4, <1>8 DEF Busy
<1>12. c.version \in Nat /\ c.sent.version <= c.version
  BY <1>1 DEF Good, CoreType
<1>13. Follows(c, e, {})
  BY <1>5, <1>7, <1>8, <1>9, <1>10, <1>11, <1>12 DEF Follows, Good
<1> QED
  BY <1>6, <1>13 DEF Unoccupied

\* The queue goes on.
LEMMA NextFollows ==
    ASSUME Outside, NEW c, Good(c), c.running.call # NoCall,
           NEW d, Settled(c, d, {c.running.call})
    PROVE  Follows(c, NextJob(d), {})
<1>1. Follows(c, Unoccupied(d), {})
  BY UnoccupiedFollows
<1>2. Follows(Unoccupied(d), TryToStartAnother(Unoccupied(d)), {})
  BY <1>1, TryFollows DEF Follows
<1> QED
  BY <1>1, <1>2, FollowsOn DEF NextJob, Unoccupied

\* An operation that touches neither jobs nor locks.
LEMMA MinorFollows ==
    ASSUME NEW c, Good(c), NEW d \in CoreType,
           d.running.call = c.running.call, d.running.mode = "none" <=> c.running.mode = "none",
           d.queue = c.queue, d.call = c.call, d.lock = c.lock, d.paused = c.paused,
           d.version = c.version, d.sent = c.sent
    PROVE  Follows(c, d, {})
<1>1. JobInv(d)
  BY DEF Good, JobInv
<1>2. LockInv(d) /\ PauseInv(d)
  BY DEF Good, LockInv, PauseInv
<1>3. c.version \in Nat /\ c.sent.version <= c.version
  BY DEF Good, CoreType
<1>4. Good(d)
  BY <1>1, <1>2, <1>3 DEF Good
<1> QED
  BY <1>3, <1>4 DEF Follows

\* Start is the one operation that starts the queue: it goes on from here.
Unpaused(c) == [c EXCEPT !.paused = FALSE]

LEMMA UnpausedIsGood ==
    ASSUME NEW c, Good(c)
    PROVE  /\ Good(Unpaused(c)) /\ ~Unpaused(c).paused
           /\ Unpaused(c).version = c.version /\ Unpaused(c).sent = c.sent
           /\ Unpaused(c).call = c.call /\ Unpaused(c).lock = c.lock
<1>1. PICK d : d = Unpaused(c)
  OBVIOUS
<1>2. d \in CoreType /\ d.paused = FALSE
  BY <1>1 DEF Unpaused, Good, CoreType
<1>3. /\ d.running = c.running /\ d.queue = c.queue /\ d.call = c.call /\ d.lock = c.lock
      /\ d.version = c.version /\ d.sent = c.sent
  BY <1>1 DEF Unpaused, Good, CoreType
<1>4. JobInv(d) /\ LockInv(d) /\ PauseInv(d)
  BY <1>2, <1>3 DEF Good, JobInv, LockInv, PauseInv
<1>5. Good(d)
  BY <1>2, <1>3, <1>4 DEF Good
<1> QED
  BY <1>1, <1>2, <1>3, <1>5

LEMMA StartFollows ==
    ASSUME Outside, NEW c, Good(c) PROVE Follows(Unpaused(c), Start(c), {})
<1>1. PICK d : d = Unpaused(c)
  OBVIOUS
<1>2. Good(d)
  BY <1>1, UnpausedIsGood
<1>3. CASE ~c.paused
  <2>1. d = c
    BY <1>1, <1>3 DEF Unpaused, Good, CoreType
  <2> QED
    BY <1>1, <1>2, <1>3, <2>1, FollowsItself DEF Start
<1>4. CASE c.paused
  <2>1. Start(c) = TryToStartAnother(d)
    BY <1>1, <1>4 DEF Start, Unpaused
  <2> QED
    BY <1>1, <1>2, <2>1, TryFollows
<1> QED
  BY <1>3, <1>4

LEMMA ClearFollows ==
    ASSUME NEW c, Good(c) PROVE Follows(c, Clear(c), {}) /\ Clear(c).lock = c.lock
<1> DEFINE Queued(a) == \E i \in DOMAIN c.queue : c.queue[i] = a
           calls == [a \in Calls |-> IF Queued(a) THEN "over" ELSE c.call[a]]
<1>1. c \in CoreType
  BY DEF Good
<1>2. /\ calls \in [Calls -> {"free", "waiting", "resumed", "job", "over"}]
      /\ \A a \in Calls : calls[a] = IF Queued(a) THEN "over" ELSE c.call[a]
      /\ << >> \in Seq(Calls)
  BY <1>1 DEF CoreType
<1>3. \A a \in Calls : /\ c.call[a] = "job" <=> c.running.call = a \/ Queued(a)
                       /\ Queued(a) => c.running.call # a
  BY DEF Good, JobInv
<1> HIDE DEF calls, Queued
<1>4. PICK d : d = [c EXCEPT !.queue = << >>, !.aborted = {}, !.call = calls]
  OBVIOUS
<1>5. d \in CoreType
  BY <1>1, <1>2, <1>4 DEF CoreType
<1>6. /\ d.queue = << >> /\ d.call = calls /\ d.running = c.running /\ d.lock = c.lock
      /\ d.paused = c.paused /\ d.version = c.version /\ d.sent = c.sent
  BY <1>1, <1>4 DEF CoreType
<1>7. JobInv(d)
  BY <1>2, <1>3, <1>6 DEF JobInv, Good
<1>8. \A a \in Calls : /\ d.call[a] = c.call[a] \/ (d.call[a] = "over" /\ c.call[a] = "job")
  BY <1>2, <1>3, <1>6
<1>9. LockInv(d)
  BY <1>6, <1>8, CallsDiffer DEF LockInv, Good, Busy
<1>10. PauseInv(d)
  BY <1>6 DEF PauseInv, Good
<1>11. Follows(c, d, {})
  <2>1. c.version \in Nat /\ c.sent.version <= c.version
    BY DEF Good, CoreType
  <2>2. Good(d)
    BY <1>5, <1>6, <1>7, <1>9, <1>10, <2>1 DEF Good
  <2> QED
    BY <1>6, <1>8, <2>1, <2>2 DEF Follows, Busy
<1>12. d = Clear(c)
  BY <1>4 DEF Clear, calls, Queued
<1> QED
  BY <1>6, <1>11, <1>12

LEMMA AbortFollows ==
    ASSUME NEW c, Good(c), NEW b \in Calls \cup {NoCall}
    PROVE  Follows(c, Abort(c, b), {}) /\ Abort(c, b).call = c.call
<1>1. c \in CoreType /\ (c.running.call = NoCall <=> c.running.mode = "none")
  BY DEF Good, JobInv
<1>2. PICK aborted : aborted = c.aborted \cup {a \in {b} : \E i \in DOMAIN c.queue : c.queue[i] = a}
  OBVIOUS
<1>3. PICK mode : mode = IF c.running.call = b /\ b # NoCall THEN "aborted" ELSE c.running.mode
  OBVIOUS
<1>4. aborted \subseteq Calls
  BY <1>1, <1>2 DEF CoreType
<1>5. /\ mode \in {"none", "notify", "stale", "aborted", "failed"}
      /\ mode = "none" <=> c.running.mode = "none"
  BY <1>1, <1>3 DEF CoreType
<1>6. PICK running : running = [c.running EXCEPT !.mode = mode]
  OBVIOUS
<1>7. /\ running \in [call : Calls \cup {NoCall},
                      mode : {"none", "notify", "stale", "aborted", "failed"}]
      /\ running.call = c.running.call /\ running.mode = mode
  BY <1>1, <1>5, <1>6 DEF CoreType
<1>8. PICK d : d = [c EXCEPT !.aborted = aborted, !.running = running]
  OBVIOUS
<1>9. d \in CoreType
  BY <1>1, <1>4, <1>7, <1>8 DEF CoreType
<1>10. /\ d.running = running /\ d.queue = c.queue /\ d.call = c.call /\ d.lock = c.lock
       /\ d.paused = c.paused /\ d.version = c.version /\ d.sent = c.sent
  BY <1>1, <1>8 DEF CoreType
<1>11. Follows(c, d, {})
  BY <1>5, <1>7, <1>9, <1>10, MinorFollows
<1>12. d = Abort(c, b)
  BY <1>2, <1>3, <1>6, <1>8 DEF Abort
<1> QED
  BY <1>10, <1>11, <1>12

LEMMA WentOnFollows ==
    ASSUME NEW c, Good(c), NEW x
    PROVE  Follows(c, WentOn(c, x), {}) /\ WentOn(c, x).call = c.call /\ WentOn(c, x).lock = c.lock
<1>1. c \in CoreType
  BY DEF Good
<1>2. PICK woken : woken = IF c.woken # << >> /\ Head(c.woken) = x THEN Tail(c.woken) ELSE c.woken
  OBVIOUS
<1>3. woken \in Seq(Calls \cup Locks)
  BY <1>1, <1>2 DEF CoreType
<1>4. PICK d : d = [c EXCEPT !.woken = woken]
  OBVIOUS
<1>5. d \in CoreType
  BY <1>1, <1>3, <1>4 DEF CoreType
<1>6. /\ d.running = c.running /\ d.queue = c.queue /\ d.call = c.call /\ d.lock = c.lock
      /\ d.paused = c.paused /\ d.version = c.version /\ d.sent = c.sent
  BY <1>1, <1>4 DEF CoreType
<1>7. Follows(c, d, {})
  BY <1>5, <1>6, MinorFollows
<1>8. d = WentOn(c, x)
  BY <1>2, <1>4 DEF WentOn
<1> QED
  BY <1>6, <1>7, <1>8

\* A call adds its job behind those of the same priority, and then the queue tries
\* to start one.
Inserted(c, a, d) ==
    /\ Add(c, a) = TryToStartAnother(d)
    /\ Follows(c, d, {})
    /\ d = [c EXCEPT !.priority = d.priority, !.call = d.call, !.queue = d.queue]
    /\ \A b \in Calls : d.call[b] = IF b = a THEN "job" ELSE c.call[b]
    /\ \A b : (\E k \in DOMAIN d.queue : d.queue[k] = b) <=>
                 b = a \/ \E i \in DOMAIN c.queue : c.queue[i] = b

LEMMA AddInserts ==
    ASSUME NEW c, Good(c), NEW a \in Calls, c.call[a] = "resumed"
    PROVE  \E d : Inserted(c, a, d)
<1>1. c \in CoreType /\ c.queue \in Seq(Calls) /\ c.version \in Nat
  BY DEF Good, CoreType
<1> DEFINE place == Cardinality({i \in DOMAIN c.queue : c.priority[c.queue[i]] >= c.version})
<1>2. place \in 0 .. Len(c.queue)
  <2>1. Len(c.queue) \in Nat /\ DOMAIN c.queue = 1 .. Len(c.queue)
    BY <1>1
  <2>2. IsFiniteSet(DOMAIN c.queue) /\ Cardinality(DOMAIN c.queue) = Len(c.queue)
    BY <2>1, FS_Interval
  <2>3. PICK S \in SUBSET DOMAIN c.queue :
           S = {i \in DOMAIN c.queue : c.priority[c.queue[i]] >= c.version}
    OBVIOUS
  <2>4. IsFiniteSet(S) /\ Cardinality(S) <= Len(c.queue) /\ Cardinality(S) \in Nat
    BY <2>2, FS_Subset, FS_CardinalityType
  <2> QED
    BY <2>1, <2>3, <2>4
<1> HIDE DEF place
<1>3. PICK n \in 0 .. Len(c.queue) : n = place
  BY <1>2
<1>4. PICK queue : queue = SubSeq(c.queue, 1, n) \o <<a>> \o SubSeq(c.queue, n + 1, Len(c.queue))
  OBVIOUS
<1>5. /\ queue \in Seq(Calls) /\ DOMAIN queue = 1 .. Len(c.queue) + 1 /\ Len(c.queue) \in Nat
      /\ \A i \in DOMAIN queue : queue[i] = IF i <= n THEN c.queue[i]
                                            ELSE IF i = n + 1 THEN a ELSE c.queue[i - 1]
  <2>0. PICK front, back : /\ front = SubSeq(c.queue, 1, n)
                           /\ back = SubSeq(c.queue, n + 1, Len(c.queue))
    OBVIOUS
  <2>1. Len(c.queue) \in Nat /\ n \in Nat
    BY <1>1
  <2>2. /\ front \in Seq(Calls) /\ Len(front) = n
        /\ \A i \in 1 .. n : front[i] = c.queue[i]
    BY <1>1, <2>0, <2>1
  <2>3. /\ back \in Seq(Calls) /\ Len(back) = Len(c.queue) - n
        /\ \A i \in 1 .. Len(c.queue) - n : back[i] = c.queue[i + n]
    BY <1>1, <2>0, <2>1
  <2>4. queue = (front \o <<a>>) \o back
    BY <1>4, <2>0
  <2>5. PICK s : s = front \o <<a>>
    OBVIOUS
  <2>6. /\ s \in Seq(Calls) /\ Len(s) = n + 1
        /\ \A i \in 1 .. n + 1 : s[i] = IF i <= n THEN front[i] ELSE a
    BY <2>1, <2>2, <2>5
  <2>7. /\ queue \in Seq(Calls) /\ Len(queue) = Len(c.queue) + 1
        /\ \A i \in 1 .. Len(c.queue) + 1 :
              queue[i] = IF i <= n + 1 THEN s[i] ELSE back[i - (n + 1)]
    <3>1. s \in Seq(Calls) /\ back \in Seq(Calls) /\ queue = s \o back
      BY <2>3, <2>4, <2>5, <2>6
    <3>2. /\ queue \in Seq(Calls) /\ Len(queue) = Len(s) + Len(back)
          /\ \A i \in 1 .. Len(s) + Len(back) :
                queue[i] = IF i <= Len(s) THEN s[i] ELSE back[i - Len(s)]
      BY <3>1, ConcatProperties
    <3>3. Len(s) = n + 1 /\ Len(back) = Len(c.queue) - n
      BY <2>3, <2>6, Zenon
    <3>4. n + 1 + (Len(c.queue) - n) = Len(c.queue) + 1
      BY <2>1
    <3> QED
      BY <3>2, <3>3, <3>4, Zenon
  <2>8. ASSUME NEW i \in 1 .. Len(c.queue) + 1
        PROVE  queue[i] = IF i <= n THEN c.queue[i] ELSE IF i = n + 1 THEN a ELSE c.queue[i - 1]
    <3>1. CASE i <= n
      BY <2>1, <2>2, <2>6, <2>7, <3>1
    <3>2. CASE i = n + 1
      BY <2>1, <2>6, <2>7, <3>2
    <3>3. CASE i > n + 1
      <4>1. i - (n + 1) \in 1 .. Len(c.queue) - n /\ i - (n + 1) + n = i - 1
        BY <2>1, <3>3
      <4>2. back[i - (n + 1)] = c.queue[i - 1]
        BY <2>3, <4>1
      <4> QED
        BY <2>1, <2>7, <3>3, <4>2
    <3> QED
      BY <2>1, <3>1, <3>2, <3>3
  <2>9. DOMAIN queue = 1 .. Len(c.queue) + 1
    BY <2>7
  <2> QED
    BY <2>1, <2>7, <2>8, <2>9
<1>6. PICK priority, calls : /\ priority = [c.priority EXCEPT ![a] = c.version]
                             /\ calls = [c.call EXCEPT ![a] = "job"]
  OBVIOUS
<1>7. /\ priority \in [Calls -> Nat]
      /\ calls \in [Calls -> {"free", "waiting", "resumed", "job", "over"}]
      /\ \A b \in Calls : calls[b] = IF b = a THEN "job" ELSE c.call[b]
  BY <1>1, <1>6 DEF CoreType
<1>8. PICK d : d = [c EXCEPT !.priority = priority, !.call = calls, !.queue = queue]
  OBVIOUS
<1>9. d \in CoreType
  BY <1>1, <1>5, <1>7, <1>8 DEF CoreType
<1>10. /\ d.queue = queue /\ d.call = calls /\ d.running = c.running /\ d.lock = c.lock
       /\ d.paused = c.paused /\ d.version = c.version /\ d.sent = c.sent
  BY <1>1, <1>8 DEF CoreType
<1>11. /\ \A b \in Calls : c.call[b] = "job" <=>
             c.running.call = b \/ \E i \in DOMAIN c.queue : c.queue[i] = b
       /\ \A i, j \in DOMAIN c.queue : c.queue[i] = c.queue[j] => i = j
       /\ \A i \in DOMAIN c.queue : c.queue[i] # c.running.call
       /\ c.running.call = NoCall <=> c.running.mode = "none"
  BY DEF Good, JobInv
<1>12. a # c.running.call /\ \A i \in DOMAIN c.queue : c.queue[i] # a
  BY <1>11
<1>13. DOMAIN c.queue = 1 .. Len(c.queue) /\ n \in Nat
  BY <1>1, <1>5
<1>14. \A i \in DOMAIN c.queue : \E k \in DOMAIN queue : queue[k] = c.queue[i]
  <2> SUFFICES ASSUME NEW i \in DOMAIN c.queue PROVE \E k \in DOMAIN queue : queue[k] = c.queue[i]
    OBVIOUS
  <2>1. CASE i <= n
    BY <1>5, <1>13, <2>1
  <2>2. CASE ~(i <= n)
    <3>1. i + 1 \in DOMAIN queue /\ queue[i + 1] = c.queue[i]
      BY <1>5, <1>13, <2>2
    <3> QED
      BY <3>1
  <2> QED
    BY <2>1, <2>2
<1>15. n + 1 \in DOMAIN queue /\ queue[n + 1] = a
  BY <1>5, <1>13
<1>16. \A k \in DOMAIN queue : queue[k] = a \/ \E i \in DOMAIN c.queue : queue[k] = c.queue[i]
  <2> SUFFICES ASSUME NEW k \in DOMAIN queue, k # n + 1
               PROVE  \E i \in DOMAIN c.queue : queue[k] = c.queue[i]
    BY <1>15
  <2>1. PICK i : i = IF k <= n THEN k ELSE k - 1
    OBVIOUS
  <2>2. i \in DOMAIN c.queue
    BY <1>5, <1>13, <2>1
  <2>3. queue[k] = c.queue[i]
    BY <1>5, <2>1
  <2> QED
    BY <2>2, <2>3
<1>17. \A b \in Calls : d.call[b] = "job" <=>
           d.running.call = b \/ \E k \in DOMAIN d.queue : d.queue[k] = b
  <2> SUFFICES ASSUME NEW b \in Calls
               PROVE  calls[b] = "job" <=>
                        c.running.call = b \/ \E k \in DOMAIN queue : queue[k] = b
    BY <1>10
  <2>1. calls[b] = "job" <=> b = a \/ c.call[b] = "job"
    BY <1>7
  <2>2. c.call[b] = "job" <=> c.running.call = b \/ \E i \in DOMAIN c.queue : c.queue[i] = b
    BY <1>11
  <2> QED
    BY <1>14, <1>15, <1>16, <2>1, <2>2
<1>18. ASSUME NEW k \in DOMAIN queue, NEW m \in DOMAIN queue, queue[k] = queue[m], k # n + 1
       PROVE  k = m
  <2> DEFINE Old(i) == IF i <= n THEN i ELSE i - 1
  <2>1. m # n + 1
    <3>1. Old(k) \in DOMAIN c.queue /\ queue[k] = c.queue[Old(k)]
      BY <1>5, <1>13, <1>18
    <3> QED
      BY <1>12, <1>15, <1>18, <3>1
  <2>2. Old(k) \in DOMAIN c.queue /\ Old(m) \in DOMAIN c.queue /\ c.queue[Old(k)] = c.queue[Old(m)]
    <3>1. /\ k \in 1 .. Len(c.queue) + 1 /\ k # n + 1 /\ m \in 1 .. Len(c.queue) + 1
          /\ Len(c.queue) \in Nat
      BY <1>5, <1>13, <1>18
    <3>2. Old(k) \in DOMAIN c.queue /\ queue[k] = c.queue[Old(k)]
      BY <1>5, <1>13, <1>18, <3>1
    <3>3. Old(m) \in DOMAIN c.queue /\ queue[m] = c.queue[Old(m)]
      BY <1>5, <1>13, <2>1, <3>1
    <3> QED
      BY <1>18, <3>2, <3>3
  <2>3. Old(k) = Old(m)
    BY <1>11, <2>2
  <2> QED
    BY <1>5, <1>13, <1>18, <2>1, <2>3
<1>19. \A k, m \in DOMAIN queue : queue[k] = queue[m] => k = m
  BY <1>18
<1>20. JobInv(d)
  BY <1>10, <1>11, <1>12, <1>16, <1>17, <1>19 DEF JobInv
<1>21. LockInv(d)
  <2>1. \A b \in Calls : \/ d.call[b] = c.call[b]
                         \/ d.call[b] = "job" /\ c.call[b] = "resumed"
    BY <1>7, <1>10
  <2> QED
    BY <1>10, <2>1, CallsDiffer DEF LockInv, Good, Busy
<1>22. PauseInv(d)
  BY <1>10 DEF PauseInv, Good
<1>23. Good(d)
  BY <1>9, <1>10, <1>20, <1>21, <1>22 DEF Good
<1>24. Follows(c, d, {})
  BY <1>1, <1>7, <1>10, <1>23 DEF Follows, Busy
<1>25. Add(c, a) = TryToStartAnother(d)
  BY <1>3, <1>4, <1>6, <1>8 DEF Add, place
<1>26. \A b : (\E k \in DOMAIN d.queue : d.queue[k] = b) <=>
                  b = a \/ \E i \in DOMAIN c.queue : c.queue[i] = b
  BY <1>10, <1>14, <1>15, <1>16
<1>27. d.priority = priority
  BY <1>1, <1>8 DEF CoreType
<1>28. d = [c EXCEPT !.priority = d.priority, !.call = d.call, !.queue = d.queue]
  BY <1>8, <1>10, <1>27
<1>29. \A b \in Calls : d.call[b] = IF b = a THEN "job" ELSE c.call[b]
  BY <1>7, <1>10
<1> QED
  BY <1>24, <1>25, <1>26, <1>28, <1>29, ZenonT(60) DEF Inserted

LEMMA AddFollows ==
    ASSUME Outside, NEW c, Good(c), NEW a \in Calls, c.call[a] = "resumed"
    PROVE  Follows(c, Add(c, a), {})
<1>1. PICK d : Add(c, a) = TryToStartAnother(d) /\ Follows(c, d, {})
  BY AddInserts DEF Inserted
<1>2. Follows(d, TryToStartAnother(d), {})
  BY <1>1, TryFollows DEF Follows
<1> QED
  BY <1>1, <1>2, FollowsOn

-----------------------------------------------------------------------------
(* syncChanges and doWithLock *)

LEMMA ThenFollows ==
    ASSUME NEW c, NEW d, NEW e, NEW A, Good(c), Follows(c, d, A), Follows(d, e, {})
    PROVE  Follows(c, e, A)
<1>1. /\ c.version \in Nat /\ d.version \in Nat /\ e.version \in Nat
      /\ c.sent.version \in Nat /\ d.sent.version \in Nat /\ e.sent.version \in Nat
  BY DEF Follows, Good, CoreType
<1>2. e.sent = c.sent \/ (e.sent.version > c.version /\ e.sent.text = doc)
  BY <1>1 DEF Follows
<1> QED
  BY <1>1, <1>2 DEF Follows

\* A call returns at once, goes on or waits for the queue.
LEMMA CallFollows ==
    ASSUME NEW c, Good(c), NEW a \in Calls, c.call[a] = "free", Awaited(c, {a}), NEW d \in CoreType,
           NEW now \in {"waiting", "resumed"}, d.call = [c.call EXCEPT ![a] = now],
           d.running = c.running, d.queue = c.queue, d.lock = c.lock, d.paused = c.paused,
           d.version = c.version, d.sent = c.sent
    PROVE  Follows(c, d, {a})
<1>1. \A b \in Calls : d.call[b] = IF b = a THEN now ELSE c.call[b]
  BY DEF Good, CoreType
<1>2. JobInv(d)
  BY <1>1 DEF Good, JobInv
<1>3. LockInv(d)
  <2> SUFFICES ASSUME NEW l \in Locks
               PROVE  /\ d.lock[l] = "free" => d.call[Before(l)] = "free"
                      /\ d.lock[l] \in Inside => d.call[After(l)] = "free"
                      /\ d.call[Before(l)] \in Busy => d.lock[l] = "syncing"
                      /\ d.lock[l] \in Entering => d.call[OnTimeout(l)] = "free"
    BY DEF LockInv
  <2>1. /\ c.lock[l] = "free" => c.call[Before(l)] = "free"
        /\ c.lock[l] \in Inside => c.call[After(l)] = "free"
        /\ c.call[Before(l)] \in Busy => c.lock[l] = "syncing"
        /\ c.lock[l] \in Entering => c.call[OnTimeout(l)] = "free"
    BY DEF Good, LockInv
  <2>2. Before(l) \in Calls /\ After(l) \in Calls /\ OnTimeout(l) \in Calls
    BY CallsDiffer
  <2>3. /\ Before(l) = a => c.lock[l] = "syncing"
        /\ After(l) = a => c.lock[l] \notin Inside
        /\ OnTimeout(l) = a => c.lock[l] \notin Entering
    BY DEF Awaited
  <2> QED
    BY <1>1, <2>1, <2>2, <2>3
<1>4. PauseInv(d)
  BY DEF Good, PauseInv
<1>5. c.version \in Nat /\ c.sent.version <= c.version
  BY DEF Good, CoreType
<1>6. Good(d)
  BY <1>2, <1>3, <1>4, <1>5 DEF Good
<1> QED
  BY <1>1, <1>5, <1>6 DEF Follows

LEMMA SyncFollows ==
    ASSUME NEW c, Good(c), NEW a \in Calls, c.call[a] = "free", Awaited(c, {a}), NEW text
    PROVE  Follows(c, SyncIfUnsent(c, a, text), {a})
<1>1. c \in CoreType
  BY DEF Good
<1>2. CASE ~Unsent(c, text)
  <2>1. PICK d : d = Fulfilled(c, {a})
    OBVIOUS
  <2>2. Settled(c, d, {a})
    BY <1>1, <2>1, FulfilledSettles
  <2>3. /\ d \in CoreType
        /\ d.queue = c.queue /\ d.running = c.running /\ d.paused = c.paused
        /\ d.version = c.version /\ d.sent = c.sent
        /\ \A b \in Calls : d.call[b] = IF b = a THEN "over" ELSE c.call[b]
    BY <1>1, <2>2, SettledFrame
  <2>4. /\ LockInv(d) /\ PauseInv(d)
        /\ \A l \in Locks : c.lock[l] \notin Entering => d.lock[l] \notin Entering
        /\ \A l \in Locks : d.lock[l] = "locked" => c.lock[l] = "locked"
    BY <1>1, <2>2, SettledKeepsLocks DEF Good
  <2>5. JobInv(d)
    BY <2>3 DEF Good, JobInv
  <2>6. c.version \in Nat /\ c.sent.version <= c.version
    BY DEF Good, CoreType
  <2>7. Good(d)
    BY <2>3, <2>4, <2>5, <2>6 DEF Good
  <2>8. Follows(c, d, {a})
    BY <2>3, <2>4, <2>6, <2>7 DEF Follows
  <2> QED
    BY <1>2, <2>1, <2>8 DEF SyncIfUnsent
<1>3. CASE Unsent(c, text)
  <2>1. PICK at : at = [c.at EXCEPT ![a] = c.version]
    OBVIOUS
  <2>2. at \in [Calls -> Nat]
    BY <1>1, <2>1 DEF CoreType
  <2>3. PICK d : d = [c EXCEPT !.at = at]
    OBVIOUS
  <2>4. d \in CoreType
    BY <1>1, <2>2, <2>3 DEF CoreType
  <2>5. /\ d.running = c.running /\ d.queue = c.queue /\ d.call = c.call /\ d.lock = c.lock
        /\ d.paused = c.paused /\ d.version = c.version /\ d.sent = c.sent
    BY <1>1, <2>3 DEF CoreType
  <2>6. Follows(c, d, {})
    BY <2>4, <2>5, MinorFollows
  <2>7. PICK e : e = Clear(d)
    OBVIOUS
  <2>8. Follows(d, e, {}) /\ e.lock = c.lock
    BY <2>5, <2>6, <2>7, ClearFollows DEF Follows
  <2>9. Good(e) /\ e \in CoreType /\ e.call[a] = "free" /\ Awaited(e, {a}) /\ Follows(c, e, {})
    <3>1. Follows(c, e, {})
      BY <2>6, <2>8, FollowsOn
    <3>2. e.call[a] = "free"
      BY <3>1 DEF Follows, Busy
    <3> QED
      BY <2>8, <3>1, <3>2 DEF Follows, Good, Awaited
  <2>10. PICK f : f = IF IsIdle(e) THEN [e EXCEPT !.call[a] = "resumed"]
                      ELSE [e EXCEPT !.call[a] = "waiting", !.waiters = Append(e.waiters, a)]
    OBVIOUS
  <2>11. SyncIfUnsent(c, a, text) = f
    BY <1>3, <2>1, <2>3, <2>7, <2>10 DEF SyncIfUnsent
  <2>12. Follows(e, f, {a})
    <3>1. PICK calls, now : /\ now \in {"waiting", "resumed"} /\ calls = [e.call EXCEPT ![a] = now]
                            /\ now = IF IsIdle(e) THEN "resumed" ELSE "waiting"
      OBVIOUS
    <3>2. PICK waiters : waiters = IF IsIdle(e) THEN e.waiters ELSE Append(e.waiters, a)
      OBVIOUS
    <3>3. /\ calls \in [Calls -> {"free", "waiting", "resumed", "job", "over"}]
          /\ waiters \in Seq(Calls \cup Locks)
      BY <2>9, <3>1, <3>2 DEF CoreType
    <3>4. f = [e EXCEPT !.call = calls, !.waiters = waiters]
      <4>1. CASE IsIdle(e)
        <5>1. f = [e EXCEPT !.call = calls]
          BY <2>10, <3>1, <4>1
        <5> QED
          BY <2>9, <3>2, <4>1, <5>1 DEF CoreType
      <4>2. CASE ~IsIdle(e)
        BY <2>10, <3>1, <3>2, <4>2
      <4> QED
        BY <4>1, <4>2
    <3>5. f \in CoreType
      BY <2>9, <3>3, <3>4 DEF CoreType
    <3>6. /\ f.call = calls /\ f.running = e.running /\ f.queue = e.queue /\ f.lock = e.lock
          /\ f.paused = e.paused /\ f.version = e.version /\ f.sent = e.sent
      BY <2>9, <3>4 DEF CoreType
    <3> QED
      BY <2>9, <3>1, <3>5, <3>6, CallFollows
  <2>13. Follows(c, f, {a})
    BY <2>9, <2>12, FollowsOn
  <2> QED
    BY <2>11, <2>13
<1> QED
  BY <1>2, <1>3

\* A doWithLock goes on.
LEMMA LockIsGood ==
    ASSUME NEW c, Good(c), NEW l \in Locks, NEW now, NEW d \in CoreType,
           d.lock = [c.lock EXCEPT ![l] = now], now # "free",
           now \in Inside => c.call[After(l)] = "free",
           c.call[Before(l)] \in Busy => now = "syncing",
           now \in Entering => c.lock[l] \in Entering,
           c.paused => now = "locked" \/ c.lock[l] # "locked",
           d.running = c.running, d.queue = c.queue, d.call = c.call, d.paused = c.paused,
           d.version = c.version, d.sent = c.sent
    PROVE  Good(d)
<1>1. \A m \in Locks : d.lock[m] = IF m = l THEN now ELSE c.lock[m]
  BY DEF Good, CoreType
<1>2. JobInv(d)
  BY DEF Good, JobInv
<1>3. LockInv(d)
  BY <1>1 DEF Good, LockInv
<1>4. PauseInv(d)
  BY <1>1 DEF Good, PauseInv
<1> QED
  BY <1>2, <1>3, <1>4 DEF Good

LEMMA LockFollows ==
    ASSUME NEW c, Good(c), NEW l \in Locks, NEW now, NEW d, Good(d), now # "locked",
           d.lock = [c.lock EXCEPT ![l] = now],
           now \in Entering => c.lock[l] \in Entering,
           d.call = c.call, d.paused = c.paused, d.version = c.version, d.sent = c.sent
    PROVE  Follows(c, d, {})
<1>1. \A m \in Locks : d.lock[m] = IF m = l THEN now ELSE c.lock[m]
  BY DEF Good, CoreType
<1>2. c.version \in Nat
  BY DEF Good, CoreType
<1> QED
  BY <1>1, <1>2 DEF Follows

-----------------------------------------------------------------------------
(* Steps *)

\* What VersionsIncrease says of a step.
VersionStep == core'.sent # core.sent => core'.sent.version > core.sent.version

\* Nothing but a didOpen is sent while the queue is paused, and whoever has the lock
\* and is alone has paused it.
HoldStep ==
    /\ core'.paused /\ opens' = opens => core'.sent = core.sent
    /\ \A l \in Locks :
         /\ \A m \in Locks : m = l
         /\ core'.lock[l] = "locked"
         /\ core.lock[l] = "locked" => core.paused
         => core'.paused

\* What is sent is a copy of the editor's text, under a version not used before.
CopyStep ==
    /\ core.version <= core'.version
    /\ core'.sent # core.sent =>
         core'.sent.text = doc /\ core'.sent.version \in core.version + 1 .. core'.version

RightStep == VersionStep /\ HoldStep /\ CopyStep

\* What is not the plugin keeps its type.
Around ==
    /\ doc' \in Texts /\ edits' \in 0 .. MaxEdits /\ inits' \in 0 .. MaxInits /\ opens' \in Nat
    /\ timers' \subseteq Locks /\ orphans' \in Nat /\ lost' \in BOOLEAN /\ closed' \in BOOLEAN

LEMMA AroundKept ==
    ASSUME IInv
    PROVE  /\ UNCHANGED <<doc, edits, inits, opens, timers, orphans, connection>> => Around
           /\ Outside
BY DEF IInv, TypeOK, Around, connection, Outside

LEMMA GoodIsRight ==
    ASSUME Good(core)', Around, FutureInv' PROVE IInv'
<1>1. \A a \in Calls : core'.call[a] = "job" <=>
          core'.running.call = a \/ \E i \in DOMAIN core'.queue : core'.queue[i] = a
  BY DEF Good, JobInv
<1>2. core' \in CoreType
  BY DEF Good
<1>3. TypeOK'
  BY <1>1, <1>2 DEF TypeOK, Around
<1> QED
  BY <1>3 DEF IInv

\* The operations of a step, which may begin by starting the queue, are of calls that
\* have not been made before. Whoever starts the queue has left the lock.
LEMMA FollowsIsRight ==
    ASSUME IInv, NEW A,
           \/ Follows(core, core', A)
           \/ /\ Follows(Unpaused(core), core', A)
              /\ \E l \in Locks : core'.lock[l] # "locked",
           Around, timers' \subseteq timers,
           \A l \in timers' : OnTimeout(l) \notin A,
           \A n \in 1 .. MaxEdits : n > edits' => n > edits /\ OnEdit(n) \notin A
    PROVE  IInv' /\ RightStep
<1>0. PICK b, d : /\ b = core \/ b = Unpaused(core)
                  /\ d = core' /\ Follows(b, d, A)
                  /\ b = core \/ \E l \in Locks : d.lock[l] # "locked"
  OBVIOUS
<1>1. PICK c : c = core
  OBVIOUS
<1>2. Follows(b, d, A) /\ b.call = c.call /\ b.lock = c.lock /\ b.version = c.version
      /\ b.sent = c.sent
  BY <1>0, <1>1, UnpausedIsGood DEF IInv
<1>3. Good(d)
  BY <1>2 DEF Follows
<1>4. Good(core)'
  BY <1>0, <1>3
<1>5. /\ \A l \in timers' : core'.lock[l] \notin Entering /\ core'.call[OnTimeout(l)] = "free"
      /\ \A n \in 1 .. MaxEdits : n > edits' => core'.call[OnEdit(n)] = "free"
  <2>1. /\ \A l \in timers : c.lock[l] \notin Entering /\ c.call[OnTimeout(l)] = "free"
        /\ \A n \in 1 .. MaxEdits : n > edits => c.call[OnEdit(n)] = "free"
        /\ timers \subseteq Locks
    BY <1>1 DEF IInv, FutureInv, TypeOK
  <2>2. /\ \A a \in Calls \ A : c.call[a] = "free" => d.call[a] = "free"
        /\ \A l \in Locks : c.lock[l] \notin Entering => d.lock[l] \notin Entering
    BY <1>2 DEF Follows, Busy
  <2> QED
    BY <1>0, <2>1, <2>2, CallsDiffer
<1>6. FutureInv'
  BY <1>5 DEF FutureInv
<1>7. IInv'
  BY <1>4, <1>6, GoodIsRight
<1>8. VersionStep
  <2>1. c.sent.version <= c.version /\ c.version \in Nat /\ c.sent.version \in Nat /\ Good(c)
    BY <1>1 DEF IInv, Good, CoreType
  <2>2. d.sent.version \in Nat
    BY <1>3 DEF Good, CoreType
  <2>3. d.sent # c.sent => d.sent.version > c.sent.version
    BY <1>2, <2>1, <2>2 DEF Follows
  <2> QED
    BY <1>0, <1>1, <2>3 DEF VersionStep
<1>9. HoldStep
  <2>1. core'.paused => core'.sent = core.sent
    BY <1>0, <1>1, <1>2 DEF Follows
  <2>2. ASSUME NEW l \in Locks, \A m \in Locks : m = l, core'.lock[l] = "locked",
               core.lock[l] = "locked" => core.paused
        PROVE  core'.paused
    <3>1. b = core
      BY <1>0, <2>2
    <3>2. core.lock[l] = "locked"
      BY <1>0, <2>2, <3>1 DEF Follows
    <3> QED
      BY <1>0, <2>2, <3>1, <3>2 DEF Follows
  <2> QED
    BY <2>1, <2>2 DEF HoldStep
<1>10. CopyStep
  <2>1. c.version \in Nat /\ d.version \in Nat /\ d.sent.version \in Nat
    BY <1>1, <1>3 DEF IInv, Good, CoreType
  <2>2. d.sent.version <= d.version /\ c.version <= d.version
    BY <1>2, <1>3 DEF Good, Follows
  <2>3. d.sent # c.sent => d.sent.version > c.version /\ d.sent.text = doc
    BY <1>2 DEF Follows
  <2>4. d.sent # c.sent => d.sent.version \in c.version + 1 .. d.version
    BY <2>1, <2>2, <2>3
  <2> QED
    BY <1>0, <1>1, <2>2, <2>3, <2>4 DEF CopyStep
<1> QED
  BY <1>7, <1>8, <1>9, <1>10 DEF RightStep

\* Most steps begin no call.
LEMMA QuietIsRight ==
    ASSUME IInv, Follows(core, core', {}), Around, UNCHANGED <<timers, edits>>
    PROVE  IInv' /\ RightStep
BY FollowsIsRight

LEMMA InitIsRight == Init => IInv
<1> SUFFICES ASSUME Init PROVE IInv
  OBVIOUS
<1>1. PICK c : c = core
  OBVIOUS
<1>2. /\ c.queue = << >> /\ c.running = NoJob /\ c.paused = FALSE /\ c.version = 0
      /\ c.lastSent = Empty /\ c.current = NoCall /\ c.aborted = {}
      /\ c.at = [a \in Calls |-> 0] /\ c.priority = [a \in Calls |-> 0]
      /\ c.call = [a \in Calls |-> "free"] /\ c.lock = [l \in Locks |-> "free"]
      /\ c.waiters = << >> /\ c.woken = << >>
      /\ c.sent = [text |-> Empty, version |-> 0] /\ c.failed = FALSE
  BY <1>1 DEF Init
<1>3. Empty \in Texts /\ 0 \in Texts
  BY BoundAssumption DEF Texts, Empty
<1>4. c \in CoreType
  <2>1. c = [queue |-> << >>, running |-> NoJob, paused |-> FALSE, version |-> 0,
             lastSent |-> Empty, current |-> NoCall, aborted |-> {},
             at |-> [a \in Calls |-> 0], priority |-> [a \in Calls |-> 0],
             call |-> [a \in Calls |-> "free"], lock |-> [l \in Locks |-> "free"],
             waiters |-> << >>, woken |-> << >>,
             sent |-> [text |-> Empty, version |-> 0], failed |-> FALSE]
    BY <1>1 DEF Init
  <2>2. NoJob \in [call : Calls \cup {NoCall},
                   mode : {"none", "notify", "stale", "aborted", "failed"}]
    BY DEF NoJob
  <2>3. /\ [a \in Calls |-> 0] \in [Calls -> Nat]
        /\ [a \in Calls |-> "free"] \in [Calls -> {"free", "waiting", "resumed", "job", "over"}]
        /\ [l \in Locks |-> "free"] \in
             [Locks -> {"free", "syncing", "synced", "waiting", "resumed",
                        "locked", "leaving", "resyncing", "over", "failed"}]
        /\ << >> \in Seq(Calls) /\ << >> \in Seq(Calls \cup Locks)
        /\ [text |-> Empty, version |-> 0] \in [text : Texts, version : Nat]
    BY <1>3
  <2> QED
    BY <1>3, <2>1, <2>2, <2>3 DEF CoreType
<1>5. JobInv(c)
  BY <1>2, CallsDiffer DEF JobInv, NoJob
<1>6. LockInv(c) /\ PauseInv(c)
  BY <1>2, CallsDiffer DEF LockInv, PauseInv, Busy, Entering, Inside
<1>7. Good(core)
  BY <1>1, <1>2, <1>4, <1>5, <1>6 DEF Good
<1>8. FutureInv
  BY <1>1, <1>2, CallsDiffer DEF FutureInv, Init
<1>9. TypeOK
  <2>1. /\ doc = 0 /\ edits = 0 /\ inits = 0 /\ opens = 0 /\ timers = {} /\ orphans = 0
        /\ lost = FALSE /\ closed = FALSE
    BY DEF Init
  <2>2. \A a \in Calls : core.call[a] = "job" <=>
            core.running.call = a \/ \E i \in DOMAIN core.queue : core.queue[i] = a
    BY <1>1, <1>5 DEF JobInv
  <2>3. 0 \in 0 .. MaxEdits /\ 0 \in 0 .. MaxInits
    BY BoundAssumption
  <2> QED
    BY <1>1, <1>3, <1>4, <2>1, <2>2, <2>3 DEF TypeOK
<1> QED
  BY <1>7, <1>8, <1>9 DEF IInv

LEMMA AddJobIsRight ==
    ASSUME IInv, NEW a \in Calls, AddJob(a) PROVE IInv' /\ RightStep
<1>1. PICK c : c = core
  OBVIOUS
<1>2. Good(c) /\ c.call[a] = "resumed" /\ c.current \in Calls \cup {NoCall}
  BY <1>1 DEF IInv, AddJob, Good, CoreType
<1>3. PICK d : d = WentOn(c, a)
  OBVIOUS
<1>4. Follows(c, d, {}) /\ d.call = c.call /\ Good(d)
  BY <1>2, <1>3, WentOnFollows DEF Follows
<1>5. PICK e : e = Abort(d, c.current)
  OBVIOUS
<1>6. Follows(d, e, {}) /\ e.call = c.call /\ Good(e)
  BY <1>2, <1>4, <1>5, AbortFollows, SMTT(30) DEF Follows
<1>7. PICK f : f = [e EXCEPT !.current = a]
  OBVIOUS
<1>8. Follows(e, f, {}) /\ f.call = c.call /\ Good(f)
  <2>1. e \in CoreType
    BY <1>6 DEF Good
  <2>2. f \in CoreType
    BY <1>7, <2>1 DEF CoreType
  <2>3. /\ f.running = e.running /\ f.queue = e.queue /\ f.call = e.call /\ f.lock = e.lock
        /\ f.paused = e.paused /\ f.version = e.version /\ f.sent = e.sent
    BY <1>7, <2>1 DEF CoreType
  <2>4. Follows(e, f, {})
    BY <1>6, <2>2, <2>3, MinorFollows
  <2> QED
    BY <1>6, <2>3, <2>4 DEF Follows
<1>9. Follows(f, Add(f, a), {})
  BY <1>2, <1>8, AddFollows, AroundKept
<1>10. Follows(c, Add(f, a), {})
  BY <1>2, <1>4, <1>6, <1>8, <1>9, FollowsOn
<1>11. core' = Add(f, a)
  BY <1>1, <1>3, <1>5, <1>7 DEF AddJob
<1>12. Follows(core, core', {})
  BY <1>1, <1>10, <1>11
<1>13. Around /\ UNCHANGED <<timers, edits>>
  BY DEF AddJob, IInv, TypeOK, Around, connection
<1> QED
  BY <1>12, <1>13, QuietIsRight

LEMMA JobOverIsRight == ASSUME IInv, JobOver PROVE IInv' /\ RightStep
<1>1. PICK c : c = core
  OBVIOUS
<1>2. Good(c) /\ c \in CoreType /\ c.running.call # NoCall
  BY <1>1 DEF IInv, JobOver, Good, JobInv
<1>3. PICK d : d = IF c.running.mode = "stale" THEN Fulfilled(c, {c.running.call})
                   ELSE Rejected(c, {c.running.call})
  OBVIOUS
<1>4. Settled(c, d, {c.running.call})
  BY <1>2, <1>3, FulfilledSettles, RejectedSettles
<1>5. Follows(c, NextJob(d), {})
  BY <1>2, <1>4, NextFollows, AroundKept
<1>6. core' = NextJob(d)
  BY <1>1, <1>3 DEF JobOver
<1>7. Follows(core, core', {})
  BY <1>1, <1>5, <1>6
<1>8. Around /\ UNCHANGED <<timers, edits>>
  BY AroundKept DEF JobOver
<1> QED
  BY <1>7, <1>8, QuietIsRight

\* The text of the editor is taken for the one sent.
LEMMA TakenFollows ==
    ASSUME Outside, NEW c, Good(c), NEW d, d = [c EXCEPT !.lastSent = doc]
    PROVE  Follows(c, d, {}) /\ d.running = c.running
<1>1. c \in CoreType
  BY DEF Good
<1>2. PICK text : text = doc
  OBVIOUS
<1>3. text \in Texts /\ d = [c EXCEPT !.lastSent = text]
  BY <1>2 DEF Outside
<1>4. d \in CoreType
  BY <1>1, <1>3 DEF CoreType
<1>5. /\ d.running = c.running /\ d.queue = c.queue /\ d.call = c.call /\ d.lock = c.lock
      /\ d.paused = c.paused /\ d.version = c.version /\ d.sent = c.sent
  BY <1>1, <1>3 DEF CoreType
<1> QED
  BY <1>4, <1>5, MinorFollows

LEMMA NotifiedIsRight == ASSUME IInv, Notified PROVE IInv' /\ RightStep
<1>1. PICK c : c = core
  OBVIOUS
<1>2. Good(c) /\ c.running.call # NoCall
  BY <1>1 DEF IInv, Notified, Good, JobInv
<1>3. PICK d : d = [c EXCEPT !.lastSent = doc]
  OBVIOUS
<1>4. Follows(c, d, {}) /\ d.running = c.running
  BY <1>2, <1>3, TakenFollows, AroundKept
<1>5. Good(d) /\ d \in CoreType
  BY <1>4 DEF Follows, Good
<1>6. PICK e : e = Fulfilled(d, {d.running.call})
  OBVIOUS
<1>7. Settled(d, e, {d.running.call})
  BY <1>5, <1>6, FulfilledSettles
<1>8. Follows(d, NextJob(e), {})
  BY <1>2, <1>4, <1>5, <1>7, NextFollows, AroundKept
<1>9. core' = NextJob(e)
  BY <1>1, <1>3, <1>4, <1>6 DEF Notified
<1>10. Follows(core, core', {})
  BY <1>1, <1>2, <1>4, <1>8, <1>9, FollowsOn
<1>11. Around /\ UNCHANGED <<timers, edits>>
  BY AroundKept DEF Notified
<1> QED
  BY <1>10, <1>11, QuietIsRight

LEMMA OrphanIsRight == ASSUME IInv, OrphanNotified PROVE IInv' /\ RightStep
<1>1. PICK c, d : c = core /\ d = [c EXCEPT !.lastSent = doc]
  OBVIOUS
<1>2. Good(c)
  BY <1>1 DEF IInv
<1>3. Follows(c, d, {})
  BY <1>1, <1>2, TakenFollows, AroundKept
<1>4. core' = d
  BY <1>1 DEF OrphanNotified
<1>5. Follows(core, core', {})
  BY <1>1, <1>3, <1>4
<1>6. Around /\ UNCHANGED <<timers, edits>>
  BY DEF OrphanNotified, IInv, TypeOK, Around, connection
<1> QED
  BY <1>5, <1>6, QuietIsRight

LEMMA EditIsRight == ASSUME IInv, Edit PROVE IInv' /\ RightStep
<1>1. PICK c, a : c = core /\ a = OnEdit(edits')
  OBVIOUS
<1>2. /\ Good(c) /\ edits' = edits + 1 /\ edits \in Nat /\ edits' \in 1 .. MaxEdits
      /\ core' = SyncIfUnsent(c, a, doc')
  BY <1>1, BoundAssumption DEF IInv, TypeOK, Edit
<1>3. a \in Calls /\ c.call[a] = "free"
  BY <1>1, <1>2, CallsDiffer DEF IInv, FutureInv
<1>4. Awaited(c, {a})
  BY <1>1, <1>2, CallsDiffer DEF Awaited
<1>5. \A text : Follows(c, SyncIfUnsent(c, a, text), {a})
  BY <1>2, <1>3, <1>4, SyncFollows
<1>6. Follows(core, core', {a})
  BY <1>1, <1>2, <1>5
<1>7. Around
  <2>1. doc' = edits' \/ doc' \in 0 .. edits \/ doc' = Empty
    BY DEF Edit
  <2>2. edits' \in 0 .. MaxEdits /\ \A n \in 0 .. edits : n \in 0 .. MaxEdits
    BY <1>2, BoundAssumption
  <2>3. doc' \in Texts
    BY <2>1, <2>2 DEF Texts
  <2> QED
    BY <1>2, <2>2, <2>3 DEF Edit, IInv, TypeOK, Around, connection
<1>8. /\ timers' = timers
      /\ \A l \in timers' : OnTimeout(l) \notin {a}
      /\ \A n \in 1 .. MaxEdits : n > edits' => n > edits /\ OnEdit(n) \notin {a}
  <2>1. timers' = timers /\ timers \subseteq Locks
    BY DEF Edit, IInv, TypeOK
  <2>2. \A n \in 1 .. MaxEdits : n > edits' => n > edits /\ n # edits'
    BY <1>2
  <2> QED
    BY <1>1, <1>2, <2>1, <2>2, CallsDiffer
<1> QED
  BY <1>6, <1>7, <1>8, FollowsIsRight

LEMMA InitializeIsRight == ASSUME IInv, Initialize PROVE IInv' /\ RightStep
<1>1. PICK c, more : c = core /\ more = Opens
  OBVIOUS
<1>2. Good(c) /\ c \in CoreType /\ more \in {0, 1, 2} /\ c.version \in Nat
      /\ c.sent.version <= c.version
  BY <1>1 DEF IInv, Good, CoreType, Opens
<1>3. PICK version, sent, failed :
         /\ version = c.version + more
         /\ sent = IF more = 0 THEN c.sent ELSE [text |-> doc, version |-> c.version + more]
         /\ failed = (c.failed /\ ~SendDidOpen)
  OBVIOUS
<1>4. core' = [c EXCEPT !.version = version, !.sent = sent, !.failed = failed]
  BY <1>1, <1>3 DEF Initialize
<1>5. PICK d : d = [c EXCEPT !.version = version, !.sent = sent, !.failed = failed]
  OBVIOUS
<1>6. /\ version \in Nat /\ sent \in [text : Texts, version : Nat] /\ failed \in BOOLEAN
      /\ sent.version <= version /\ c.version <= version
      /\ sent = c.sent \/ sent.version > c.version
  BY <1>2, <1>3, AroundKept DEF Outside, CoreType
<1>7. d \in CoreType
  BY <1>2, <1>5, <1>6 DEF CoreType
<1>8. /\ d.running = c.running /\ d.queue = c.queue /\ d.call = c.call /\ d.lock = c.lock
      /\ d.paused = c.paused /\ d.version = version /\ d.sent = sent
  BY <1>2, <1>5 DEF CoreType
<1>9. JobInv(d) /\ LockInv(d) /\ PauseInv(d)
  BY <1>2, <1>8 DEF Good, JobInv, LockInv, PauseInv
<1>10. Good(d)
  BY <1>6, <1>7, <1>8, <1>9 DEF Good
<1>11. core' = d
  BY <1>4, <1>5
<1>12. FutureInv'
  BY <1>1, <1>8, <1>11 DEF FutureInv, Initialize, IInv
<1>13. Around /\ UNCHANGED <<timers, edits>>
  <2>1. opens' \in Nat
    BY <1>1, <1>2 DEF Initialize, IInv, TypeOK
  <2>2. inits' \in 0 .. MaxInits
    BY BoundAssumption DEF Initialize, IInv, TypeOK
  <2> QED
    BY <2>1, <2>2 DEF Initialize, IInv, TypeOK, Around, connection
<1>14. IInv'
  BY <1>10, <1>11, <1>12, <1>13, GoodIsRight
<1>15. VersionStep
  <2>1. c.sent.version \in Nat /\ sent.version \in Nat
    BY <1>2, <1>6 DEF CoreType
  <2>2. sent # c.sent => sent.version > c.sent.version
    BY <1>2, <1>6, <2>1
  <2> QED
    BY <1>1, <1>8, <1>11, <2>2 DEF VersionStep
<1>16. HoldStep
  <2>1. opens' = opens => more = 0
    BY <1>1, <1>2 DEF Initialize, IInv, TypeOK
  <2>2. opens' = opens => core'.sent = core.sent
    BY <1>1, <1>3, <1>8, <1>11, <2>1
  <2> QED
    BY <1>1, <1>8, <1>11, <2>2 DEF HoldStep
<1>17. CopyStep
  <2>1. c.version <= d.version
    BY <1>6, <1>8
  <2>2. more # 0 => sent.text = doc /\ sent.version \in c.version + 1 .. version
    BY <1>2, <1>3
  <2> QED
    BY <1>1, <1>3, <1>8, <1>11, <2>1, <2>2 DEF CopyStep
<1> QED
  BY <1>14, <1>15, <1>16, <1>17 DEF RightStep

\* The transport comes and goes, or the editor goes.
LEMMA ConnectionIsRight ==
    ASSUME IInv, Disconnect \/ ChangeTransport \/ Destroy PROVE IInv' /\ RightStep
<1>1. PICK c : c = core /\ core' = c
  BY DEF Disconnect, ChangeTransport, Destroy
<1>2. Follows(c, c, {})
  BY <1>1, FollowsItself DEF IInv
<1>3. Follows(core, core', {})
  BY <1>1, <1>2
<1>4. Around /\ UNCHANGED <<timers, edits>>
  BY DEF Disconnect, ChangeTransport, Destroy, IInv, TypeOK, Around
<1> QED
  BY <1>3, <1>4, QuietIsRight

LEMMA BeginLockIsRight ==
    ASSUME IInv, NEW l \in Locks, BeginLock(l) PROVE IInv' /\ RightStep
<1>1. PICK c : c = core
  OBVIOUS
<1>2. Good(c) /\ c \in CoreType /\ c.lock[l] = "free"
  BY <1>1 DEF IInv, BeginLock, Good
<1>3. /\ c.call[Before(l)] = "free" /\ c.call[After(l)] = "free"
      /\ Before(l) \in Calls
  BY <1>2, CallsDiffer DEF Good, LockInv, Inside, Entering
<1>4. PICK locks : locks = [c.lock EXCEPT ![l] = "syncing"]
  OBVIOUS
<1>5. PICK d : d = [c EXCEPT !.lock = locks]
  OBVIOUS
<1>6. d \in CoreType
  BY <1>2, <1>4, <1>5 DEF CoreType
<1>7. /\ d.running = c.running /\ d.queue = c.queue /\ d.call = c.call /\ d.lock = locks
      /\ d.paused = c.paused /\ d.version = c.version /\ d.sent = c.sent
  BY <1>2, <1>5 DEF CoreType
<1>8. Follows(c, d, {})
  <2>1. /\ "syncing" # "free" /\ "syncing" # "locked" /\ c.lock[l] \in Entering
        /\ c.lock[l] # "locked"
    BY <1>2 DEF Entering
  <2>2. Good(d)
    BY <1>2, <1>3, <1>4, <1>6, <1>7, <2>1, LockIsGood
  <2> QED
    BY <1>2, <1>4, <1>7, <2>1, <2>2, LockFollows
<1>9. d.lock[l] = "syncing" /\ Good(d)
  BY <1>2, <1>4, <1>7, <1>8 DEF CoreType, Follows
<1>10. Awaited(d, {Before(l)})
  BY <1>9, CallsDiffer DEF Awaited
<1>11. \A text : Follows(d, SyncIfUnsent(d, Before(l), text), {Before(l)})
  BY <1>3, <1>7, <1>9, <1>10, SyncFollows
<1>12. \A text : Follows(c, SyncIfUnsent(d, Before(l), text), {Before(l)})
  BY <1>2, <1>8, <1>11, FollowsOn
<1>13. core' = SyncIfUnsent(d, Before(l), doc)
  BY <1>1, <1>4, <1>5 DEF BeginLock, Sync
<1>14. Follows(core, core', {Before(l)})
  BY <1>1, <1>12, <1>13
<1>15. Around /\ UNCHANGED <<timers, edits>> /\ timers \subseteq Locks
  BY AroundKept DEF BeginLock, IInv, TypeOK
<1> QED
  BY <1>14, <1>15, CallsDiffer, FollowsIsRight

LEMMA AwaitIdleIsRight ==
    ASSUME IInv, NEW l \in Locks, AwaitIdle(l) PROVE IInv' /\ RightStep
<1>1. PICK c : c = core
  OBVIOUS
<1>2. Good(c) /\ c \in CoreType /\ c.lock[l] = "synced"
  BY <1>1 DEF IInv, AwaitIdle, Good
<1>3. c.call[Before(l)] \notin Busy /\ c.call[After(l)] = "free"
  BY <1>2 DEF Good, LockInv, Inside, Entering
<1>4. PICK now, waiters : /\ now = IF IsIdle(c) THEN "resumed" ELSE "waiting"
                          /\ waiters = IF IsIdle(c) THEN c.waiters ELSE Append(c.waiters, l)
  OBVIOUS
<1>5. PICK locks : locks = [c.lock EXCEPT ![l] = now]
  OBVIOUS
<1>6. /\ locks \in [Locks -> {"free", "syncing", "synced", "waiting", "resumed",
                              "locked", "leaving", "resyncing", "over", "failed"}]
      /\ waiters \in Seq(Calls \cup Locks)
      /\ now \in {"resumed", "waiting"}
  BY <1>2, <1>4, <1>5 DEF CoreType
<1>7. PICK d : d = [c EXCEPT !.lock = locks, !.waiters = waiters]
  OBVIOUS
<1>8. d \in CoreType
  BY <1>2, <1>6, <1>7 DEF CoreType
<1>9. /\ d.running = c.running /\ d.queue = c.queue /\ d.call = c.call /\ d.lock = locks
      /\ d.paused = c.paused /\ d.version = c.version /\ d.sent = c.sent
  BY <1>2, <1>7 DEF CoreType
<1>10. Follows(c, d, {})
  <2>1. now # "free" /\ now # "locked" /\ c.lock[l] \in Entering /\ c.lock[l] # "locked"
    BY <1>2, <1>6 DEF Entering
  <2>2. Good(d)
    BY <1>2, <1>3, <1>5, <1>8, <1>9, <2>1, LockIsGood
  <2> QED
    BY <1>2, <1>5, <1>9, <2>1, <2>2, LockFollows
<1>11. core' = d
  <2>1. CASE IsIdle(c)
    <3>1. core' = [c EXCEPT !.lock = locks]
      BY <1>1, <1>4, <1>5, <2>1 DEF AwaitIdle
    <3> QED
      BY <1>2, <1>4, <1>7, <2>1, <3>1 DEF CoreType
  <2>2. CASE ~IsIdle(c)
    BY <1>1, <1>4, <1>5, <1>7, <2>2 DEF AwaitIdle
  <2> QED
    BY <2>1, <2>2
<1>12. Follows(core, core', {})
  BY <1>1, <1>10, <1>11
<1>13. Around /\ UNCHANGED <<timers, edits>>
  BY AroundKept DEF AwaitIdle
<1> QED
  BY <1>12, <1>13, QuietIsRight

\* Pausing is the one thing no operation of the queue does.
LEMMA TakeLockIsRight ==
    ASSUME IInv, NEW l \in Locks, TakeLock(l) PROVE IInv' /\ RightStep
<1>1. PICK c : c = core
  OBVIOUS
<1>2. Good(c) /\ c.lock[l] = "resumed"
  BY <1>1 DEF IInv, TakeLock
<1>3. PICK d : d = WentOn(c, l)
  OBVIOUS
<1>4. Follows(c, d, {}) /\ d.call = c.call /\ d.lock = c.lock /\ Good(d) /\ d \in CoreType
  BY <1>2, <1>3, WentOnFollows DEF Follows, Good
<1>5. /\ d.call[Before(l)] \notin Busy /\ d.call[After(l)] = "free"
      /\ d.call[OnTimeout(l)] = "free"
  BY <1>2, <1>4 DEF Good, LockInv, Inside, Entering
<1>6. PICK locks : locks = [d.lock EXCEPT ![l] = "locked"]
  OBVIOUS
<1>7. /\ locks \in [Locks -> {"free", "syncing", "synced", "waiting", "resumed",
                              "locked", "leaving", "resyncing", "over", "failed"}]
      /\ \A m \in Locks : locks[m] = IF m = l THEN "locked" ELSE d.lock[m]
  BY <1>4, <1>6 DEF CoreType
<1>8. PICK u : u = [d EXCEPT !.lock = locks]
  OBVIOUS
<1>9. u \in CoreType
  BY <1>4, <1>7, <1>8 DEF CoreType
<1>10. /\ u.running = d.running /\ u.queue = d.queue /\ u.call = d.call /\ u.lock = locks
       /\ u.paused = d.paused /\ u.version = d.version /\ u.sent = d.sent
  BY <1>4, <1>8 DEF CoreType
<1>11. Good(u)
  <2>1. "locked" # "free" /\ "locked" \notin Entering
    BY DEF Entering
  <2> QED
    BY <1>4, <1>5, <1>6, <1>9, <1>10, <2>1, LockIsGood
<1>12. PICK e : e = [d EXCEPT !.paused = TRUE, !.lock = locks]
  OBVIOUS
<1>13. e \in CoreType
  BY <1>4, <1>7, <1>12 DEF CoreType
<1>14. /\ e.running = u.running /\ e.queue = u.queue /\ e.call = u.call /\ e.lock = u.lock
       /\ e.version = u.version /\ e.sent = u.sent
  BY <1>4, <1>10, <1>12 DEF CoreType
<1>15. Good(e)
  <2>2. PauseInv(e)
    BY <1>7, <1>10, <1>14 DEF PauseInv
  <2>3. JobInv(e) /\ LockInv(e) /\ e.sent.version <= e.version
    BY <1>11, <1>14 DEF Good, JobInv, LockInv
  <2> QED
    BY <1>13, <2>2, <2>3 DEF Good
<1>16. core' = e
  BY <1>1, <1>3, <1>6, <1>12 DEF TakeLock, Pause
<1>17. /\ timers' = timers \cup {l} /\ edits' = edits /\ timers \subseteq Locks
       /\ \A m \in timers : c.lock[m] \notin Entering /\ c.call[OnTimeout(m)] = "free"
       /\ \A n \in 1 .. MaxEdits : n > edits => c.call[OnEdit(n)] = "free"
  BY <1>1 DEF TakeLock, IInv, TypeOK, FutureInv
<1>18. FutureInv'
  <2>1. \A m \in timers' : e.lock[m] \notin Entering /\ e.call[OnTimeout(m)] = "free"
    BY <1>4, <1>5, <1>7, <1>10, <1>14, <1>17 DEF Entering
  <2>2. \A n \in 1 .. MaxEdits : n > edits' => e.call[OnEdit(n)] = "free"
    BY <1>4, <1>10, <1>14, <1>17
  <2> QED
    BY <1>16, <2>1, <2>2 DEF FutureInv
<1>19. Around
  BY <1>17 DEF TakeLock, IInv, TypeOK, Around, connection
<1>20. VersionStep /\ HoldStep /\ CopyStep
  <2>1. e.sent = c.sent
    <3>1. d.sent = c.sent
      <4>1. PICK woken : woken = IF c.woken # << >> /\ Head(c.woken) = l THEN Tail(c.woken)
                                 ELSE c.woken
        OBVIOUS
      <4>2. d = [c EXCEPT !.woken = woken]
        BY <1>3, <4>1 DEF WentOn
      <4> QED
        BY <1>2, <4>2 DEF Good, CoreType
    <3> QED
      BY <1>10, <1>14, <3>1
  <2>2. e.paused
    BY <1>4, <1>12 DEF CoreType
  <2>3. c.version <= e.version
    BY <1>4, <1>10, <1>14 DEF Follows
  <2>4. core'.sent = core.sent /\ core'.paused /\ core.version <= core'.version
    BY <1>1, <1>16, <2>1, <2>2, <2>3
  <2> QED
    BY <2>4 DEF VersionStep, HoldStep, CopyStep
<1>21. Good(core)'
  BY <1>15, <1>16
<1> QED
  BY <1>18, <1>19, <1>20, <1>21, GoodIsRight DEF RightStep

LEMMA LeaveFollows ==
    ASSUME Outside, NEW c, Good(c), NEW l \in Locks, c.lock[l] \in {"locked", "leaving"}
    PROVE  /\ Follows(Unpaused(c), Leave(c, l), {After(l)})
           /\ Leave(c, l).lock[l] # "locked"
<1>0. PICK u : u = Unpaused(c)
  OBVIOUS
<1>1. /\ c.call[Before(l)] \notin Busy /\ c.call[After(l)] = "free" /\ c.lock[l] \notin Entering
      /\ Before(l) \in Calls /\ After(l) \in Calls
  BY CallsDiffer DEF Good, LockInv, Inside, Entering
<1>2. PICK s : s = Start(c)
  OBVIOUS
<1>3. /\ Follows(u, s, {}) /\ ~s.paused
      /\ Good(u) /\ u.call = c.call /\ u.lock = c.lock
  BY <1>0, <1>2, StartFollows, UnpausedIsGood DEF Follows
<1>4. /\ Good(s) /\ s \in CoreType
      /\ s.call[Before(l)] \notin Busy /\ s.call[After(l)] = "free"
  BY <1>1, <1>3 DEF Follows, Good, Busy
<1>5. PICK locks : locks = [s.lock EXCEPT ![l] = "resyncing"]
  OBVIOUS
<1>6. PICK d : d = [s EXCEPT !.lock = locks]
  OBVIOUS
<1>7. d \in CoreType
  BY <1>4, <1>5, <1>6 DEF CoreType
<1>8. /\ d.running = s.running /\ d.queue = s.queue /\ d.call = s.call /\ d.lock = locks
      /\ d.paused = s.paused /\ d.version = s.version /\ d.sent = s.sent
      /\ locks[l] = "resyncing"
  BY <1>4, <1>5, <1>6 DEF CoreType
<1>9. "resyncing" # "free" /\ "resyncing" \notin Inside /\ "resyncing" \notin Entering
  BY DEF Inside, Entering
<1>10. Follows(s, d, {})
  <2>1. Good(d)
    BY <1>3, <1>4, <1>5, <1>7, <1>8, <1>9, LockIsGood
  <2> QED
    BY <1>4, <1>5, <1>8, <1>9, <2>1, LockFollows
<1>11. Good(d) /\ d.call[After(l)] = "free"
  BY <1>4, <1>8, <1>10 DEF Follows
<1>12. Awaited(d, {After(l)})
  BY <1>8, <1>9, CallsDiffer DEF Awaited
<1>13. Follows(d, SyncIfUnsent(d, After(l), doc), {After(l)})
  BY <1>1, <1>11, <1>12, SyncFollows
<1>14. Follows(u, d, {})
  BY <1>3, <1>10, FollowsOn
<1>15. /\ Follows(u, SyncIfUnsent(d, After(l), doc), {After(l)})
       /\ SyncIfUnsent(d, After(l), doc).lock[l] # "locked"
  BY <1>3, <1>8, <1>13, <1>14, FollowsOn, ZenonT(60) DEF Follows
<1>16. Leave(c, l) = SyncIfUnsent(d, After(l), doc)
  BY <1>2, <1>5, <1>6 DEF Leave, Sync
<1> QED
  BY <1>0, <1>15, <1>16

LEMMA LeaveIsRight ==
    ASSUME IInv, NEW l \in Locks, CallbackSettles(l) \/ LeaveLock(l)
    PROVE  IInv' /\ RightStep
<1>1. PICK c : c = core
  OBVIOUS
<1>2. Good(c) /\ c.lock[l] \in {"locked", "leaving"} /\ core' = Leave(c, l)
  BY <1>1 DEF IInv, CallbackSettles, LeaveLock
<1>3. Follows(Unpaused(c), Leave(c, l), {After(l)}) /\ Leave(c, l).lock[l] # "locked"
  BY <1>2, AroundKept, LeaveFollows
<1>4. Follows(Unpaused(core), core', {After(l)}) /\ core'.lock[l] # "locked"
  BY <1>1, <1>2, <1>3
<1>5. Around /\ UNCHANGED <<timers, edits>> /\ timers \subseteq Locks
  BY AroundKept DEF CallbackSettles, LeaveLock, IInv, TypeOK
<1> QED
  BY <1>4, <1>5, CallsDiffer, FollowsIsRight

LEMMA LockTimeoutIsRight ==
    ASSUME IInv, NEW l \in Locks, LockTimeout(l) PROVE IInv' /\ RightStep
<1>1. PICK c : c = core
  OBVIOUS
<1>2. Good(c) /\ c.lock[l] \notin Entering /\ c.call[OnTimeout(l)] = "free"
  BY <1>1 DEF IInv, LockTimeout, FutureInv
<1>3. PICK s : s = Start(c)
  OBVIOUS
<1>0. PICK u : u = Unpaused(c)
  OBVIOUS
<1>4. /\ Follows(u, s, {}) /\ ~s.paused
      /\ Good(u) /\ u.call = c.call /\ u.lock = c.lock
  BY <1>0, <1>2, <1>3, AroundKept, StartFollows, UnpausedIsGood DEF Follows
<1>5. /\ Good(s) /\ s.lock[l] \notin Entering /\ s.call[OnTimeout(l)] = "free"
      /\ OnTimeout(l) \in Calls
  BY <1>2, <1>4, CallsDiffer DEF Follows, Busy
<1>6. Awaited(s, {OnTimeout(l)})
  BY <1>5, CallsDiffer DEF Awaited
<1>7. PICK d : d = SyncIfUnsent(s, OnTimeout(l), doc)
  OBVIOUS
<1>8. Follows(s, d, {OnTimeout(l)})
  BY <1>5, <1>6, <1>7, SyncFollows
<1>9. Good(d) /\ d \in CoreType /\ ~d.paused /\ d.lock[l] \notin Entering
  BY <1>4, <1>5, <1>8 DEF Follows, Good
<1>10. PICK now : now = IF d.lock[l] = "locked" THEN "leaving" ELSE d.lock[l]
  OBVIOUS
<1>11. PICK locks : locks = [d.lock EXCEPT ![l] = now]
  OBVIOUS
<1>12. PICK e : e = [d EXCEPT !.lock = locks]
  OBVIOUS
<1>13. e \in CoreType
  BY <1>9, <1>10, <1>11, <1>12, ZenonT(60) DEF CoreType
<1>14. /\ e.running = d.running /\ e.queue = d.queue /\ e.call = d.call /\ e.lock = locks
       /\ e.paused = d.paused /\ e.version = d.version /\ e.sent = d.sent
  BY <1>9, <1>12 DEF CoreType
<1>15. /\ now # "free" /\ now # "locked" /\ now \notin Entering
       /\ now \in Inside => d.call[After(l)] = "free"
       /\ d.call[Before(l)] \in Busy => now = "syncing"
  BY <1>9, <1>10 DEF Good, LockInv, Inside, Entering
<1>16. Follows(d, e, {})
  <2>1. Good(e)
    BY <1>9, <1>11, <1>13, <1>14, <1>15, LockIsGood
  <2> QED
    BY <1>9, <1>11, <1>14, <1>15, <2>1, LockFollows
<1>17. Follows(u, d, {OnTimeout(l)})
  BY <1>4, <1>8, FollowsOn
<1>18. Follows(u, e, {OnTimeout(l)}) /\ e.lock[l] # "locked"
  <2>1. e.lock[l] = now
    BY <1>9, <1>11, <1>14 DEF CoreType
  <2> QED
    BY <1>4, <1>15, <1>16, <1>17, <2>1, ThenFollows
<1>19. core' = e
  BY <1>1, <1>3, <1>7, <1>10, <1>11, <1>12 DEF LockTimeout, RejectRace, Sync
<1>20. Follows(Unpaused(core), core', {OnTimeout(l)}) /\ core'.lock[l] # "locked"
  BY <1>0, <1>1, <1>18, <1>19
<1>21. timers' = timers \ {l} /\ timers \subseteq Locks /\ edits' = edits
  BY DEF LockTimeout, IInv, TypeOK
<1>22. Around
  BY <1>21 DEF LockTimeout, IInv, TypeOK, Around, connection
<1>23. /\ timers' \subseteq timers
       /\ \A m \in timers' : OnTimeout(m) \notin {OnTimeout(l)}
       /\ \A n \in 1 .. MaxEdits : n > edits' => n > edits /\ OnEdit(n) \notin {OnTimeout(l)}
  BY <1>21, CallsDiffer
<1> QED
  BY <1>20, <1>22, <1>23, FollowsIsRight

LEMMA StepIsRight == IInv /\ [Next]_vars => IInv' /\ RightStep
<1> SUFFICES ASSUME IInv, [Next]_vars PROVE IInv' /\ RightStep
  OBVIOUS
<1>1. ASSUME NEW a \in Calls, AddJob(a) PROVE IInv' /\ RightStep
  BY <1>1, AddJobIsRight
<1>2. CASE JobOver
  BY <1>2, JobOverIsRight
<1>3. ASSUME NEW l \in Locks, AwaitIdle(l) PROVE IInv' /\ RightStep
  BY <1>3, AwaitIdleIsRight
<1>4. ASSUME NEW l \in Locks, TakeLock(l) PROVE IInv' /\ RightStep
  BY <1>4, TakeLockIsRight
<1>5. ASSUME NEW l \in Locks, LeaveLock(l) \/ CallbackSettles(l) PROVE IInv' /\ RightStep
  BY <1>5, LeaveIsRight
<1>6. CASE Notified
  BY <1>6, NotifiedIsRight
<1>7. CASE OrphanNotified
  BY <1>7, OrphanIsRight
<1>8. CASE Edit
  BY <1>8, EditIsRight
<1>9. CASE Initialize
  BY <1>9, InitializeIsRight
<1>10. CASE Disconnect \/ ChangeTransport \/ Destroy
  BY <1>10, ConnectionIsRight
<1>11. ASSUME NEW l \in Locks, BeginLock(l) PROVE IInv' /\ RightStep
  BY <1>11, BeginLockIsRight
<1>12. ASSUME NEW l \in Locks, LockTimeout(l) PROVE IInv' /\ RightStep
  BY <1>12, LockTimeoutIsRight
<1>13. CASE UNCHANGED vars
  BY <1>13, SMTT(30)
     DEF vars, connection, IInv, TypeOK, Good, CoreType, JobInv, LockInv, PauseInv, FutureInv,
         RightStep, VersionStep, HoldStep, CopyStep
<1> QED
  BY <1>1, <1>2, <1>3, <1>4, <1>5, <1>6, <1>7, <1>8, <1>9, <1>10, <1>11, <1>12, <1>13
  DEF Next, Microtask

-----------------------------------------------------------------------------
(* Theorems *)

\* In every reachable state each job of the queue is of one call, which waits
\* for it, and every doWithLock has made the calls of syncChanges that its place
\* tells (LSPlugin.ts:126-153, 167-199).
THEOREM InductiveInvariant == Spec => []IInv
<1>1. Init => IInv
  BY InitIsRight
<1>2. IInv /\ [Next]_vars => IInv'
  BY StepIsRight
<1> QED
  BY <1>1, <1>2, PTL DEF Spec

\* The plugin's state keeps its type, and a call awaits a job exactly when the
\* queue holds or runs one for it (LSPlugin.ts:181-199).
THEOREM TypeCorrect == Spec => []TypeOK
<1>1. IInv => TypeOK
  BY DEF IInv
<1> QED
  BY <1>1, InductiveInvariant, PTL

\* However calls, timeouts and finally clauses pause and start it, the queue is
\* paused only while some doWithLock runs its callback (LSPlugin.ts:132, 138, 150).
THEOREM QueueIsNotLeftPaused == Spec => []PausedIsLocked
<1>1. IInv => PausedIsLocked
  BY DEF IInv, Good, PauseInv, PausedIsLocked, Held
<1> QED
  BY <1>1, InductiveInvariant, PTL

\* Whatever sends it, a change or a didOpen, a later text goes out with a later
\* version (LSPlugin.ts:188, 206).
THEOREM VersionsGrow == Spec => VersionsIncrease
<1>1. IInv /\ [Next]_vars =>
        [core'.sent # core.sent => core'.sent.version > core.sent.version]_vars
  BY StepIsRight DEF RightStep, VersionStep
<1> QED
  BY <1>1, InductiveInvariant, PTL DEF Spec, VersionsIncrease

\* Whoever has the lock has paused the queue.
HeldInv == \A l \in Locks : core.lock[l] = "locked" => core.paused

\* While the only doWithLock runs its callback, no didChange is sent, whatever is
\* typed, however often calls of syncChanges clear the queue and add to it, and
\* although notifications of before are still on their way (LSPlugin.ts:121, 126-153).
THEOREM OneLockHoldsBack ==
    ASSUME \A l, m \in Locks : l = m PROVE Spec => NoChangeDuringLock
<1>1. Init => HeldInv
  BY DEF Init, HeldInv
<1>2. IInv /\ HeldInv /\ [Next]_vars => HeldInv'
  BY StepIsRight DEF RightStep, HoldStep, HeldInv
<1>3. IInv /\ HeldInv /\ HeldInv' /\ [Next]_vars =>
        [(\E l \in Locks : core.lock[l] = "locked" /\ core'.lock[l] = "locked")
            /\ opens' = opens => core'.sent = core.sent]_vars
  BY StepIsRight DEF RightStep, HoldStep, HeldInv
<1> QED
  BY <1>1, <1>2, <1>3, InductiveInvariant, PTL DEF Spec, NoChangeDuringLock

-----------------------------------------------------------------------------
(***************************************************************************)
(* When no job is left the server has the editor's text, when each edit    *)
(* makes a new text and initializations send it.  While the server's text  *)
(* is old some call of syncChanges will send the editor's: Covered tells   *)
(* which one.                                                              *)
(***************************************************************************)

(* The invariant *)

Waits(c) == {a \in Calls : c.call[a] = "waiting"}
Resumed(c) == {a \in Calls : c.call[a] = "resumed"}
Leaving(c) == {l \in Locks : c.lock[l] = "leaving"}
Queued(c, a) == \E i \in DOMAIN c.queue : c.queue[i] = a

\* All jobs of the queue but the current one are aborted.
QueueInv(c) ==
    /\ \A a \in c.aborted : Queued(c, a)
    /\ \A a \in Calls : Queued(c, a) => a \in c.aborted \/ a = c.current

\* The calls that wait are in the order of the versions they have seen, and so
\* are those that are told to go on.
WaitersInv(c) ==
    /\ \A a \in Waits(c) : \E i \in DOMAIN c.waiters : c.waiters[i] = a
    /\ \A i \in DOMAIN c.waiters : c.waiters[i] \in Calls => c.waiters[i] \in Waits(c)
    /\ \A i, j \in DOMAIN c.waiters :
         i < j /\ c.waiters[i] \in Calls /\ c.waiters[j] \in Calls =>
            c.waiters[i] # c.waiters[j] /\ c.at[c.waiters[i]] <= c.at[c.waiters[j]]
WokenInv(c) ==
    /\ \A i \in DOMAIN c.woken : c.woken[i] \in Calls => c.woken[i] \in Resumed(c)
    /\ \A i, j \in DOMAIN c.woken : c.woken[i] = c.woken[j] /\ c.woken[i] \in Calls => i = j
SeenInv(c) == \A a \in Calls : c.at[a] <= c.version

\* A call that waits has cleared the queue, which was not idle, and nothing is added
\* before it goes on.
Apart(c) == Waits(c) # {} => c.queue = << >> /\ Resumed(c) = {}
Running(c) == Waits(c) # {} => c.running # NoJob

Tidy(c) == QueueInv(c) /\ WaitersInv(c) /\ WokenInv(c) /\ SeenInv(c) /\ Apart(c)

\* The server has another text and none has failed to reach it.
Needed(c, text) == Ready /\ ~c.failed /\ c.sent.text # text

\* The job of a will not be late, and that of b, which will abort it or be
\* aborted by it, is added before.
Live(c, a) == c.at[a] = c.version
Precedes(w, b, a) == \E i, j \in DOMAIN w : i < j /\ w[i] = b /\ w[j] = a
GoesBefore(c, b, a) == Precedes(c.woken, b, a)

\* A call waits, goes on last or has the current job, and will send the text.
WaitCovers(c) == \E a \in Waits(c) : Live(c, a)
ResumedCovers(c) ==
    \E a \in Resumed(c) :
        /\ Live(c, a)
        /\ \A b \in Resumed(c) : Live(c, b) \/ GoesBefore(c, b, a)
JobCovers(c) ==
    /\ Live(c, c.current) /\ c.current \notin c.aborted /\ Queued(c, c.current)
    /\ \A b \in Resumed(c) : Live(c, b)
Covered(c) == WaitCovers(c) \/ ResumedCovers(c) \/ JobCovers(c)

Sound(c, text) == Tidy(c) /\ (Needed(c, text) => Covered(c))

\* From the timeout of a lock to its finally clause, which calls syncChanges while
\* other activations go on.
LeavingInv(c, text) == \A l \in Leaving(c) :
    /\ Leaving(c) = {l}
    /\ \A a \in Resumed(c) : a = OnTimeout(l) /\ IsIdle(c)
    /\ \A a \in Waits(c) : a = OnTimeout(l) \/ c.running.mode = "notify"
    /\ Needed(c, text) /\ OnTimeout(l) \in Waits(c) \cup Resumed(c) =>
         Live(c, OnTimeout(l))

\* Each edit makes a new text, which is not the one sent last.
TextInv == doc = edits /\ core.lastSent \in 0 .. edits \cup {Empty}

SInv == Sound(core, doc) /\ Running(core) /\ LeavingInv(core, doc) /\ TextInv

-----------------------------------------------------------------------------
(* What leaves the calls alone *)

Same(c, d) ==
    /\ Waits(d) = Waits(c) /\ Resumed(d) = Resumed(c)
    /\ d.waiters = c.waiters /\ d.woken = c.woken
    /\ d.at = c.at /\ d.version = c.version /\ d.sent = c.sent /\ d.failed = c.failed
SameQueue(c, d) == d.queue = c.queue /\ d.aborted = c.aborted /\ d.current = c.current

LEMMA SameIsSound ==
    ASSUME NEW c, NEW d, NEW text, Same(c, d), SameQueue(c, d), Sound(c, text)
    PROVE  Sound(d, text)
<1>1. \A a : Live(d, a) = Live(c, a) /\ Queued(d, a) = Queued(c, a)
  BY DEF Same, SameQueue, Live, Queued
<1>2. \A a, b : GoesBefore(d, a, b) = GoesBefore(c, a, b)
  BY DEF Same, GoesBefore
<1>3. QueueInv(d)
  BY <1>1 DEF Sound, Tidy, QueueInv, SameQueue
<1>4. WaitersInv(d) /\ WokenInv(d) /\ SeenInv(d) /\ Apart(d)
  BY DEF Sound, Tidy, WaitersInv, WokenInv, SeenInv, Apart, Same, SameQueue
<1>5. Needed(d, text) = Needed(c, text)
  BY DEF Needed, Same
<1>6. Covered(c) => Covered(d)
  <2>1. WaitCovers(c) => WaitCovers(d)
    BY <1>1 DEF WaitCovers, Same
  <2>2. ResumedCovers(c) => ResumedCovers(d)
    BY <1>1, <1>2 DEF ResumedCovers, Same
  <2>3. JobCovers(c) => JobCovers(d)
    BY <1>1 DEF JobCovers, Same, SameQueue
  <2> QED
    BY <2>1, <2>2, <2>3 DEF Covered
<1> QED
  BY <1>3, <1>4, <1>5, <1>6 DEF Sound, Tidy

\* The promises of calls that neither wait nor go on are settled.
LEMMA SettledSame ==
    ASSUME NEW c \in CoreType, NEW d, NEW A, Settled(c, d, A),
           \A a \in A : a \notin Waits(c) \cup Resumed(c)
    PROVE  /\ Same(c, d) /\ SameQueue(c, d) /\ d.running = c.running
           /\ d.lastSent = c.lastSent /\ Leaving(d) \subseteq Leaving(c) /\ d.paused = c.paused
<1>1. PICK calls, locks : d = [c EXCEPT !.call = calls, !.lock = locks]
  BY DEF Settled
<1>2. /\ d.queue = c.queue /\ d.aborted = c.aborted /\ d.current = c.current
      /\ d.running = c.running /\ d.lastSent = c.lastSent /\ d.paused = c.paused
      /\ d.waiters = c.waiters /\ d.woken = c.woken
      /\ d.at = c.at /\ d.version = c.version /\ d.sent = c.sent /\ d.failed = c.failed
  BY <1>1 DEF CoreType
<1>3. \A a \in Calls : d.call[a] = IF a \in A THEN "over" ELSE c.call[a]
  BY SettledFrame
<1>4. Waits(d) = Waits(c) /\ Resumed(d) = Resumed(c)
  BY <1>3 DEF Waits, Resumed
<1>5. Leaving(d) \subseteq Leaving(c)
  BY DEF Leaving, Settled
<1> QED
  BY <1>2, <1>4, <1>5 DEF Same, SameQueue

-----------------------------------------------------------------------------
(* The queue *)

LEMMA ConcatIndices ==
    ASSUME NEW S, NEW s \in Seq(S), NEW t \in Seq(S), NEW u, u = s \o t
    PROVE  /\ Len(s) \in Nat /\ DOMAIN s \subseteq Nat /\ DOMAIN t \subseteq Nat
           /\ DOMAIN u \subseteq Nat
           /\ \A i \in DOMAIN s : i \in DOMAIN u /\ u[i] = s[i] /\ i <= Len(s)
           /\ \A j \in DOMAIN t : Len(s) + j \in DOMAIN u /\ u[Len(s) + j] = t[j] /\ j > 0
           /\ \A k \in DOMAIN u : \/ k \in DOMAIN s
                                  \/ k > Len(s) /\ k - Len(s) \in DOMAIN t
<1>1. /\ u \in Seq(S) /\ Len(u) = Len(s) + Len(t)
      /\ \A i \in 1 .. Len(s) + Len(t) : u[i] = IF i <= Len(s) THEN s[i] ELSE t[i - Len(s)]
  BY ConcatProperties
<1>2. /\ Len(s) \in Nat /\ DOMAIN s = 1 .. Len(s) /\ Len(t) \in Nat /\ DOMAIN t = 1 .. Len(t)
      /\ DOMAIN u = 1 .. Len(s) + Len(t)
  BY <1>1
<1>3. ASSUME NEW j \in DOMAIN t
      PROVE  Len(s) + j \in DOMAIN u /\ u[Len(s) + j] = t[j] /\ j > 0
  <2>1. PICK k : k = Len(s) + j
    OBVIOUS
  <2>2. k \in 1 .. Len(s) + Len(t) /\ ~(k <= Len(s)) /\ k - Len(s) = j /\ j > 0
    BY <1>2, <2>1
  <2>3. u[k] = t[k - Len(s)]
    BY <1>1, <2>2, Zenon
  <2>4. u[k] = t[j]
    BY <2>2, <2>3, Zenon
  <2> QED
    BY <1>2, <2>1, <2>2, <2>4
<1>4. \A i \in DOMAIN s : i \in DOMAIN u /\ u[i] = s[i] /\ i <= Len(s)
  <2> SUFFICES ASSUME NEW i \in DOMAIN s PROVE i \in DOMAIN u /\ u[i] = s[i] /\ i <= Len(s)
    OBVIOUS
  <2>1. i \in 1 .. Len(s) + Len(t) /\ i <= Len(s)
    BY <1>2
  <2>2. u[i] = s[i]
    BY <1>1, <2>1, Zenon
  <2> QED
    BY <1>2, <2>1, <2>2
<1>5. \A k \in DOMAIN u : k \in DOMAIN s \/ (k > Len(s) /\ k - Len(s) \in DOMAIN t)
  BY <1>2
<1> QED
  BY <1>2, <1>3, <1>4, <1>5

\* Whoever waits goes on, after those that have gone on already.
LEMMA IdleIsSound ==
    ASSUME NEW c \in CoreType, NEW text, Sound(c, text), c.queue = << >>
    PROVE  LET d == Idle(c)
           IN  /\ Sound(d, text)
               /\ Waits(d) = {} /\ Resumed(d) = Resumed(c) \cup Waits(c)
               /\ Leaving(d) = Leaving(c)
               /\ d.running = c.running /\ d.queue = c.queue /\ d.lastSent = c.lastSent
               /\ d.at = c.at /\ d.version = c.version /\ d.sent = c.sent
               /\ d.failed = c.failed
<1> DEFINE calls == [a \in Calls |-> IF c.call[a] = "waiting" THEN "resumed" ELSE c.call[a]]
           locks == [l \in Locks |-> IF c.lock[l] = "waiting" THEN "resumed" ELSE c.lock[l]]
<1>1. \A a \in Calls : calls[a] = IF c.call[a] = "waiting" THEN "resumed" ELSE c.call[a]
  OBVIOUS
<1>2. \A l \in Locks : locks[l] = IF c.lock[l] = "waiting" THEN "resumed" ELSE c.lock[l]
  OBVIOUS
<1> HIDE DEF calls, locks
<1>3. PICK woken : woken = c.woken \o c.waiters
  OBVIOUS
<1>4. PICK d : d = [c EXCEPT !.call = calls, !.lock = locks, !.woken = woken, !.waiters = << >>]
  OBVIOUS
<1>5. /\ d.call = calls /\ d.lock = locks /\ d.woken = woken /\ d.waiters = << >>
      /\ d.queue = c.queue /\ d.aborted = c.aborted /\ d.current = c.current
      /\ d.running = c.running /\ d.lastSent = c.lastSent
      /\ d.at = c.at /\ d.version = c.version /\ d.sent = c.sent /\ d.failed = c.failed
  BY <1>4 DEF CoreType
<1>6. Waits(d) = {} /\ Resumed(d) = Resumed(c) \cup Waits(c)
  BY <1>1, <1>5 DEF Waits, Resumed
<1>7. Leaving(d) = Leaving(c)
  BY <1>2, <1>5 DEF Leaving
<1>8. PICK n : n = Len(c.woken)
  OBVIOUS
<1>9. /\ n \in Nat /\ DOMAIN c.woken \subseteq Nat /\ DOMAIN c.waiters \subseteq Nat
      /\ DOMAIN woken \subseteq Nat
      /\ \A i \in DOMAIN c.woken : i \in DOMAIN woken /\ woken[i] = c.woken[i] /\ i <= n
      /\ \A j \in DOMAIN c.waiters :
            n + j \in DOMAIN woken /\ woken[n + j] = c.waiters[j] /\ j > 0
      /\ \A k \in DOMAIN woken : k \in DOMAIN c.woken \/ (k > n /\ k - n \in DOMAIN c.waiters)
  <2>1. PICK t : t = c.woken
    OBVIOUS
  <2>2. PICK u : u = c.waiters
    OBVIOUS
  <2>3. t \in Seq(Calls \cup Locks) /\ u \in Seq(Calls \cup Locks)
    BY <2>1, <2>2 DEF CoreType
  <2>4. woken = t \o u /\ n = Len(t)
    BY <1>3, <1>8, <2>1, <2>2
  <2>5. /\ Len(t) \in Nat /\ DOMAIN t \subseteq Nat /\ DOMAIN u \subseteq Nat
        /\ DOMAIN woken \subseteq Nat
        /\ \A i \in DOMAIN t : i \in DOMAIN woken /\ woken[i] = t[i] /\ i <= Len(t)
        /\ \A j \in DOMAIN u :
              Len(t) + j \in DOMAIN woken /\ woken[Len(t) + j] = u[j] /\ j > 0
        /\ \A k \in DOMAIN woken : k \in DOMAIN t \/ (k > Len(t) /\ k - Len(t) \in DOMAIN u)
    BY <2>3, <2>4, ConcatIndices
  <2> QED
    BY <2>1, <2>2, <2>4, <2>5
<1>10. Tidy(c)
  BY DEF Sound
<1>11. ASSUME NEW k \in DOMAIN woken, woken[k] \in Calls
       PROVE  \/ k \in DOMAIN c.woken /\ woken[k] = c.woken[k] /\ woken[k] \in Resumed(c)
              \/ /\ k - n \in DOMAIN c.waiters /\ k \in Nat /\ woken[k] = c.waiters[k - n]
                 /\ woken[k] \in Waits(c)
  <2>1. CASE k \in DOMAIN c.woken
    BY <1>9, <1>10, <1>11, <2>1 DEF Tidy, WokenInv
  <2>2. CASE k > n /\ k - n \in DOMAIN c.waiters
    <3>1. PICK j \in DOMAIN c.waiters : j = k - n
      BY <2>2
    <3>2. n + j = k /\ k \in Nat
      BY <1>9, <3>1
    <3>3. woken[k] = c.waiters[j]
      BY <1>9, <3>2
    <3>4. c.waiters[j] \in Waits(c)
      BY <1>10, <1>11, <3>3 DEF Tidy, WaitersInv
    <3> QED
      BY <3>1, <3>2, <3>3, <3>4
  <2> QED
    BY <1>9, <2>1, <2>2
<1>12. Waits(c) \cap Resumed(c) = {}
  BY DEF Waits, Resumed
<1>13. WokenInv(d)
  <2>1. \A k \in DOMAIN woken : woken[k] \in Calls => woken[k] \in Resumed(d)
    BY <1>6, <1>11
  <2>2. ASSUME NEW i \in DOMAIN woken, NEW j \in DOMAIN woken, woken[i] = woken[j],
               woken[i] \in Calls
        PROVE  i = j
    <3>1. CASE woken[i] \in Resumed(c)
      <4>1. i \in DOMAIN c.woken /\ j \in DOMAIN c.woken /\ c.woken[i] = c.woken[j]
            /\ c.woken[i] \in Calls
        BY <1>11, <1>12, <2>2, <3>1
      <4> QED
        BY <1>10, <4>1 DEF Tidy, WokenInv
    <3>2. CASE woken[i] \in Waits(c)
      <4>1. PICK p \in DOMAIN c.waiters, q \in DOMAIN c.waiters :
               /\ p = i - n /\ q = j - n /\ c.waiters[p] = c.waiters[q]
               /\ c.waiters[p] \in Calls /\ i \in Nat /\ j \in Nat
        BY <1>11, <1>12, <2>2, <3>2
      <4>2. ~(p < q) /\ ~(q < p)
        BY <1>10, <4>1 DEF Tidy, WaitersInv
      <4> QED
        BY <1>9, <4>1, <4>2
    <3> QED
      BY <1>11, <2>2, <3>1, <3>2
  <2> QED
    BY <1>5, <2>1, <2>2 DEF WokenInv
<1>14. Tidy(d)
  <2>1. QueueInv(d)
    BY <1>5, <1>10 DEF Tidy, QueueInv, Queued
  <2>2. WaitersInv(d)
    BY <1>5, <1>6 DEF WaitersInv
  <2>3. SeenInv(d) /\ Apart(d)
    BY <1>5, <1>6, <1>10 DEF Tidy, SeenInv, Apart
  <2> QED
    BY <1>13, <2>1, <2>2, <2>3 DEF Tidy
<1>15. \A a : Live(d, a) = Live(c, a)
  BY <1>5 DEF Live
<1>16. WaitCovers(c) => ResumedCovers(d)
  <2> SUFFICES ASSUME NEW a \in Waits(c), Live(c, a) PROVE ResumedCovers(d)
    BY DEF WaitCovers
  <2>1. Resumed(d) = Waits(c)
    BY <1>6, <1>10 DEF Tidy, Apart
  <2>2. ASSUME NEW b \in Waits(c), ~Live(c, b) PROVE GoesBefore(d, b, a)
    <3>1. PICK i \in DOMAIN c.waiters, j \in DOMAIN c.waiters :
             c.waiters[i] = b /\ c.waiters[j] = a
      BY <1>10 DEF Tidy, WaitersInv
    <3>2. c.at[b] \in Nat /\ c.at[a] \in Nat /\ c.version \in Nat /\ a \in Calls /\ b \in Calls
      BY DEF Waits, CoreType
    <3>3. c.at[b] < c.at[a]
      BY <1>10, <2>2, <3>2 DEF Live, Tidy, SeenInv
    <3>4. i # j /\ ~(j < i)
      <4>1. j < i => c.at[a] <= c.at[b]
        BY <1>10, <3>1, <3>2 DEF Tidy, WaitersInv
      <4> QED
        BY <3>1, <3>2, <3>3, <4>1
    <3>5. n + i < n + j
      BY <1>9, <3>4
    <3>6. /\ n + i \in DOMAIN d.woken /\ n + j \in DOMAIN d.woken
          /\ d.woken[n + i] = b /\ d.woken[n + j] = a
      BY <1>5, <1>9, <3>1
    <3> QED
      BY <3>5, <3>6 DEF GoesBefore, Precedes
  <2> QED
    BY <1>15, <2>1, <2>2 DEF ResumedCovers
<1>17. ResumedCovers(c) => ResumedCovers(d)
  <2> SUFFICES ASSUME NEW a \in Resumed(c), Live(c, a),
                      \A b \in Resumed(c) : Live(c, b) \/ GoesBefore(c, b, a)
               PROVE  ResumedCovers(d)
    BY DEF ResumedCovers
  <2>1. Resumed(d) = Resumed(c)
    BY <1>6, <1>10 DEF Tidy, Apart
  <2>2. \A b : GoesBefore(c, b, a) => GoesBefore(d, b, a)
    BY <1>5, <1>9 DEF GoesBefore, Precedes
  <2> QED
    BY <1>15, <2>1, <2>2 DEF ResumedCovers
<1>18. ~JobCovers(c)
  BY DEF JobCovers, Queued
<1>19. Needed(d, text) = Needed(c, text)
  BY <1>5 DEF Needed
<1>20. Sound(d, text)
  BY <1>14, <1>16, <1>17, <1>18, <1>19 DEF Sound, Covered
<1>21. d = Idle(c)
  BY <1>3, <1>4 DEF Idle, calls, locks
<1> QED
  BY <1>5, <1>6, <1>7, <1>20, <1>21

\* The first job, whose signal is not aborted, runs: it is the current one.
LEMMA RunIsSound ==
    ASSUME Outside, NEW c \in CoreType, Sound(c, doc), c.queue # << >>,
           Head(c.queue) \notin c.aborted,
           \A i, j \in DOMAIN c.queue : c.queue[i] = c.queue[j] => i = j
    PROVE  LET d == Run([c EXCEPT !.queue = Tail(c.queue)], Head(c.queue))
           IN  /\ Sound(d, doc)
               /\ Waits(d) = {} /\ Resumed(d) = Resumed(c) /\ Leaving(d) = Leaving(c)
               /\ d.running # NoJob /\ d.lastSent = c.lastSent /\ d.at = c.at
               /\ Needed(d, doc) => Needed(c, doc) /\ d.version = c.version
<1>1. c.queue \in Seq(Calls) /\ c.version \in Nat /\ Tidy(c)
  BY DEF CoreType, Sound
<1>2. PICK a : a = Head(c.queue)
  OBVIOUS
<1>3. PICK rest : rest = Tail(c.queue)
  OBVIOUS
<1>4. /\ a \in Calls /\ 1 \in DOMAIN c.queue /\ a = c.queue[1]
      /\ \A i \in DOMAIN rest : i + 1 \in DOMAIN c.queue /\ rest[i] = c.queue[i + 1]
      /\ \A i \in DOMAIN c.queue : i = 1 \/ (i - 1 \in DOMAIN rest /\ rest[i - 1] = c.queue[i])
  <2>1. /\ a \in Calls /\ a = c.queue[1] /\ rest \in Seq(Calls)
        /\ Len(c.queue) \in Nat /\ DOMAIN c.queue = 1 .. Len(c.queue) /\ Len(c.queue) > 0
        /\ DOMAIN rest = 1 .. Len(c.queue) - 1
        /\ \A i \in DOMAIN rest : i + 1 \in DOMAIN c.queue /\ rest[i] = c.queue[i + 1]
    BY <1>1, <1>2, <1>3
  <2>2. ASSUME NEW i \in DOMAIN c.queue, i # 1
        PROVE  i - 1 \in DOMAIN rest /\ rest[i - 1] = c.queue[i]
    <3>1. i - 1 \in DOMAIN rest /\ i - 1 + 1 = i
      BY <2>1, <2>2
    <3> QED
      BY <2>1, <3>1
  <2> QED
    BY <2>1, <2>2
<1>5. PICK e : e = [c EXCEPT !.queue = rest]
  OBVIOUS
<1>6. e.at = c.at /\ e.version = c.version /\ e.sent = c.sent /\ e.failed = c.failed
  BY <1>5 DEF CoreType
<1>7. PICK d : d = Run(e, a)
  OBVIOUS
<1>8. PICK job, version, sent, failed :
         /\ d = [c EXCEPT !.queue = rest, !.running = job, !.version = version, !.sent = sent,
                          !.failed = failed]
         /\ job.call = a
         /\ \/ /\ ~Live(c, a)
               /\ version = c.version /\ sent = c.sent /\ failed = c.failed
            \/ version = c.version + 1 /\ (failed \/ sent.text = doc)
  <2>1. CASE e.at[a] # e.version
    <3>1. d = [e EXCEPT !.running = [call |-> a, mode |-> "stale"]]
      BY <1>7, <2>1 DEF Run
    <3>2. PICK job : job = [call |-> a, mode |-> "stale"]
      OBVIOUS
    <3>3. PICK version, sent, failed :
             version = c.version /\ sent = c.sent /\ failed = c.failed
      OBVIOUS
    <3>4. d = [c EXCEPT !.queue = rest, !.running = job, !.version = version,
                        !.sent = sent, !.failed = failed]
      BY <1>5, <3>1, <3>2, <3>3 DEF CoreType
    <3>5. job.call = a /\ ~Live(c, a)
      BY <1>6, <2>1, <3>2 DEF Live
    <3> QED
      BY <3>3, <3>4, <3>5, Zenon
  <2>2. CASE ~(e.at[a] # e.version)
    <3>1. d = [e EXCEPT !.running = [call |-> a, mode |-> IF lost THEN "failed" ELSE "notify"],
                        !.version = e.version + 1,
                        !.sent = IF lost THEN e.sent ELSE [text |-> doc, version |-> e.version + 1],
                        !.failed = lost]
      BY <1>7, <2>2 DEF Run, NextVersion
    <3>2. PICK job : job = [call |-> a, mode |-> IF lost THEN "failed" ELSE "notify"]
      OBVIOUS
    <3>3. PICK sent : sent = IF lost THEN e.sent ELSE [text |-> doc, version |-> e.version + 1]
      OBVIOUS
    <3>4. lost \/ sent.text = doc
      BY <3>3
    <3>5. PICK failed : failed = lost
      OBVIOUS
    <3>6. PICK version : version = c.version + 1
      OBVIOUS
    <3>7. d = [c EXCEPT !.queue = rest, !.running = job, !.version = version,
                        !.sent = sent, !.failed = failed]
      BY <1>5, <1>6, <3>1, <3>2, <3>3, <3>5, <3>6
    <3>8. job.call = a /\ (failed \/ sent.text = doc)
      BY <3>2, <3>4, <3>5
    <3> QED
      BY <3>6, <3>7, <3>8, Zenon
  <2> QED
    BY <2>1, <2>2
<1>9. /\ d.queue = rest /\ d.running = job /\ d.version = version /\ d.sent = sent
      /\ d.failed = failed /\ d.call = c.call /\ d.lock = c.lock /\ d.waiters = c.waiters
      /\ d.woken = c.woken /\ d.at = c.at /\ d.aborted = c.aborted /\ d.current = c.current
      /\ d.lastSent = c.lastSent
  BY <1>8 DEF CoreType
<1>10. Waits(d) = Waits(c) /\ Resumed(d) = Resumed(c) /\ Leaving(d) = Leaving(c)
  BY <1>9 DEF Waits, Resumed, Leaving
<1>11. Waits(c) = {}
  BY <1>1 DEF Tidy, Apart
<1>12. \A b : Queued(c, b) <=> b = a \/ Queued(d, b)
  BY <1>4, <1>9 DEF Queued
<1>13. a \notin c.aborted /\ a = c.current
  BY <1>1, <1>2, <1>4, <1>12 DEF Tidy, QueueInv
<1>14. Tidy(d)
  <2>1. QueueInv(d)
    BY <1>1, <1>9, <1>12, <1>13 DEF Tidy, QueueInv
  <2>2. WaitersInv(d) /\ WokenInv(d)
    BY <1>1, <1>9, <1>10 DEF Tidy, WaitersInv, WokenInv
  <2>3. SeenInv(d)
    <3>1. \A b \in Calls : c.at[b] \in Nat
      BY DEF CoreType
    <3> QED
      BY <1>1, <1>8, <1>9, <3>1 DEF Tidy, SeenInv
  <2>4. Apart(d)
    BY <1>10, <1>11 DEF Apart
  <2> QED
    BY <2>1, <2>2, <2>3, <2>4 DEF Tidy
<1>15. Needed(d, doc) => ~Live(c, a) /\ Needed(c, doc) /\ d.version = c.version
  BY <1>8, <1>9 DEF Needed
<1>16. ASSUME Needed(d, doc) PROVE ResumedCovers(d)
  <2>1. Covered(c) /\ ~Live(c, a) /\ d.version = c.version
    BY <1>15, <1>16 DEF Sound
  <2>2. ResumedCovers(c)
    BY <1>11, <1>13, <2>1 DEF Covered, WaitCovers, JobCovers
  <2>3. \A b : Live(d, b) = Live(c, b)
    BY <1>9, <2>1 DEF Live
  <2>4. \A b, k : GoesBefore(d, b, k) = GoesBefore(c, b, k)
    BY <1>9 DEF GoesBefore
  <2> QED
    BY <1>10, <2>2, <2>3, <2>4 DEF ResumedCovers
<1>17. Sound(d, doc)
  BY <1>14, <1>16 DEF Sound, Covered
<1>18. d.running # NoJob
  BY <1>4, <1>8, <1>9, CallsDiffer DEF NoJob
<1> QED
  BY <1>2, <1>3, <1>5, <1>7, <1>9, <1>10, <1>11, <1>15, <1>17, <1>18

\* The first n jobs have thrown.
Threw(c, text, n, thrown, rest, d) ==
    /\ thrown = {c.queue[i] : i \in 1 .. n}
    /\ rest = SubSeq(c.queue, n + 1, Len(c.queue))
    /\ d = Rejected([c EXCEPT !.queue = rest, !.aborted = c.aborted \ thrown], thrown)
    /\ Follows(c, d, {}) /\ Sound(d, text)
    /\ Waits(d) = {} /\ Waits(c) = {} /\ Resumed(d) = Resumed(c)
    /\ Leaving(d) \subseteq Leaving(c) /\ d.lastSent = c.lastSent /\ d.at = c.at
    /\ d.version = c.version /\ d.sent = c.sent /\ d.failed = c.failed
    /\ d.running = c.running /\ d.queue = rest /\ d.aborted \subseteq c.aborted

\* The jobs that throw are none that the server needs.
LEMMA ThrownIsSound ==
    ASSUME NEW c, Good(c), NEW text, Sound(c, text), c.queue # << >>,
           NEW n \in 0 .. Len(c.queue), \A i \in 1 .. n : c.queue[i] \in c.aborted
    PROVE  \E thrown, rest, d : Threw(c, text, n, thrown, rest, d)
<1>a. PICK thrown, rest, d :
         /\ thrown = {c.queue[i] : i \in 1 .. n}
         /\ rest = SubSeq(c.queue, n + 1, Len(c.queue))
         /\ d = Rejected([c EXCEPT !.queue = rest, !.aborted = c.aborted \ thrown], thrown)
         /\ Follows(c, d, {})
  BY ThrownFollows
<1>b. thrown = {c.queue[i] : i \in 1 .. n}
  BY <1>a, Zenon
<1>c. rest = SubSeq(c.queue, n + 1, Len(c.queue))
  BY <1>a, Zenon
<1>1. c \in CoreType /\ c.queue \in Seq(Calls) /\ c.aborted \subseteq Calls /\ Tidy(c)
  BY DEF Good, CoreType, Sound
<1>2. /\ Len(c.queue) \in Nat /\ DOMAIN c.queue = 1 .. Len(c.queue) /\ n \in Nat
      /\ \A i \in DOMAIN c.queue : c.queue[i] \in Calls
      /\ rest \in Seq(Calls) /\ DOMAIN rest = 1 .. Len(c.queue) - n
      /\ \A k \in DOMAIN rest : rest[k] = c.queue[k + n]
  BY <1>1, <1>c, SMTT(30)
<1>3. thrown \subseteq Calls
  BY <1>2, <1>b
<1>4. PICK e : e = [c EXCEPT !.queue = rest, !.aborted = c.aborted \ thrown]
  OBVIOUS
<1>5. e \in CoreType
  BY <1>1, <1>2, <1>4 DEF CoreType
<1>6. /\ e.queue = rest /\ e.aborted = c.aborted \ thrown /\ e.current = c.current
      /\ e.running = c.running /\ e.lastSent = c.lastSent /\ e.paused = c.paused
      /\ e.call = c.call /\ e.lock = c.lock
      /\ e.waiters = c.waiters /\ e.woken = c.woken
      /\ e.at = c.at /\ e.version = c.version /\ e.sent = c.sent /\ e.failed = c.failed
  BY <1>1, <1>4 DEF CoreType
<1>7. Waits(e) = Waits(c) /\ Resumed(e) = Resumed(c) /\ Leaving(e) = Leaving(c)
  BY <1>6 DEF Waits, Resumed, Leaving
<1>8. Waits(c) = {}
  BY <1>1 DEF Tidy, Apart
<1>9. \A a : Queued(e, a) => Queued(c, a)
  <2>1. \A k \in DOMAIN rest : k + n \in DOMAIN c.queue
    BY <1>2
  <2> QED
    BY <1>2, <1>6, <2>1 DEF Queued
<1>10. ASSUME NEW a, Queued(c, a), a \notin thrown PROVE Queued(e, a)
  <2>1. PICK i \in DOMAIN c.queue : c.queue[i] = a
    BY <1>10 DEF Queued
  <2>2. i > n
    BY <1>2, <1>10, <1>b, <2>1
  <2>3. i - n \in DOMAIN rest /\ rest[i - n] = c.queue[i]
    BY <1>2, <2>2
  <2> QED
    BY <1>6, <2>1, <2>3 DEF Queued
<1>11. thrown \subseteq c.aborted
  BY <1>b
<1>12. QueueInv(e)
  <2>1. \A a \in e.aborted : Queued(e, a)
    BY <1>1, <1>6, <1>10 DEF Tidy, QueueInv
  <2>2. \A a \in thrown : ~Queued(e, a)
    <3> SUFFICES ASSUME NEW i \in 1 .. n, NEW k \in DOMAIN rest, rest[k] = c.queue[i] PROVE FALSE
      BY <1>6, <1>b DEF Queued
    <3>1. k + n \in DOMAIN c.queue /\ i \in DOMAIN c.queue /\ k + n # i
      BY <1>2
    <3> QED
      BY <1>2, <3>1 DEF Good, JobInv
  <2> QED
    BY <1>1, <1>6, <1>9, <2>1, <2>2 DEF Tidy, QueueInv
<1>13. WaitersInv(e) /\ WokenInv(e) /\ SeenInv(e) /\ Apart(e)
  BY <1>1, <1>6, <1>7, <1>8 DEF Tidy, WaitersInv, WokenInv, SeenInv, Apart
<1>14. Covered(c) => Covered(e)
  <2>1. \A a : Live(e, a) = Live(c, a)
    BY <1>6 DEF Live
  <2>2. \A a, b : GoesBefore(e, a, b) = GoesBefore(c, a, b)
    BY <1>6 DEF GoesBefore
  <2>3. ResumedCovers(c) => ResumedCovers(e)
    BY <1>7, <2>1, <2>2 DEF ResumedCovers
  <2>4. JobCovers(c) => JobCovers(e)
    BY <1>6, <1>7, <1>10, <1>11, <2>1 DEF JobCovers
  <2> QED
    BY <1>8, <2>3, <2>4 DEF Covered, WaitCovers
<1>15. Sound(e, text)
  <2>1. Needed(e, text) = Needed(c, text)
    BY <1>6 DEF Needed
  <2> QED
    BY <1>12, <1>13, <1>14, <2>1 DEF Sound, Tidy
<1>16. Settled(e, d, thrown)
  <2>1. d = Rejected(e, thrown)
    BY <1>4, <1>a, Zenon
  <2> QED
    BY <1>5, <2>1, RejectedSettles
<1>17. \A a \in thrown : a \notin Waits(e) \cup Resumed(e)
  <2>1. \A a \in thrown : a \in Calls /\ Queued(c, a)
    BY <1>2, <1>b, SMTT(30) DEF Queued
  <2>2. \A a \in thrown : c.call[a] = "job"
    BY <2>1 DEF Good, JobInv, Queued
  <2> QED
    BY <1>6, <2>2 DEF Waits, Resumed
<1>18. /\ Same(e, d) /\ SameQueue(e, d) /\ d.running = e.running
       /\ d.lastSent = e.lastSent /\ Leaving(d) \subseteq Leaving(e) /\ d.paused = e.paused
  BY <1>5, <1>16, <1>17, SettledSame
<1>19. Sound(d, text)
  BY <1>15, <1>18, SameIsSound
<1>20. /\ Waits(d) = {} /\ Waits(c) = {} /\ Resumed(d) = Resumed(c)
       /\ Leaving(d) \subseteq Leaving(c) /\ d.lastSent = c.lastSent /\ d.at = c.at
       /\ d.version = c.version /\ d.sent = c.sent /\ d.failed = c.failed
       /\ d.running = c.running /\ d.queue = rest /\ d.aborted \subseteq c.aborted
  BY <1>6, <1>7, <1>8, <1>18 DEF Same, SameQueue
<1> QED
  BY <1>a, <1>19, <1>20, Zenon DEF Threw

\* What the queue does when it tries to start another job: it sends the text, or
\* what is still needed remains covered.
Tried(c, d) ==
    /\ Sound(d, doc) /\ Running(d)
    /\ d.lastSent = c.lastSent /\ d.at = c.at /\ Leaving(d) \subseteq Leaving(c)
    /\ Waits(d) \subseteq Waits(c) /\ Resumed(d) \subseteq Resumed(c) \cup Waits(c)
    /\ Resumed(d) = Resumed(c) \/ IsIdle(d)
    /\ Running(c) => Resumed(d) = Resumed(c)
    /\ IsIdle(c) => IsIdle(d)
    /\ c.running # NoJob => d.running = c.running
    /\ Needed(d, doc) => Needed(c, doc) /\ d.version = c.version

LEMMA TryIsSound ==
    ASSUME Outside, NEW c, Good(c), Sound(c, doc) PROVE Tried(c, TryToStartAnother(c))
<1>0. c \in CoreType /\ c.queue \in Seq(Calls) /\ Tidy(c)
  BY DEF Good, CoreType, Sound
<1>1. CASE ~MayStart(c) \/ (c.queue # << >> /\ c.paused)
  <2>1. TryToStartAnother(c) = c
    BY <1>1 DEF TryToStartAnother, MayStart, IsIdle
  <2>2. Running(c)
    BY <1>0, <1>1 DEF Tidy, Apart, Running, MayStart
  <2> QED
    BY <2>1, <2>2 DEF Tried
<1>2. CASE MayStart(c) /\ c.queue = << >>
  <2>1. TryToStartAnother(c) = Idle(c)
    BY <1>2 DEF TryToStartAnother, MayStart, IsIdle
  <2>2. PICK d : d = Idle(c)
    OBVIOUS
  <2>3. /\ Sound(d, doc)
        /\ Waits(d) = {} /\ Resumed(d) = Resumed(c) \cup Waits(c)
        /\ Leaving(d) = Leaving(c)
        /\ d.running = c.running /\ d.queue = c.queue /\ d.lastSent = c.lastSent
        /\ d.at = c.at /\ d.version = c.version /\ d.sent = c.sent
        /\ d.failed = c.failed
    BY <1>0, <1>2, <2>2, IdleIsSound
  <2>4. c.running = NoJob /\ IsIdle(d)
    BY <1>2, <2>3 DEF MayStart, IsIdle
  <2>5. Needed(d, doc) = Needed(c, doc)
    BY <2>3 DEF Needed
  <2>6. Running(d) /\ (Running(c) => Resumed(d) = Resumed(c))
    BY <2>3, <2>4 DEF Running
  <2>7. Tried(c, d)
    BY <2>3, <2>4, <2>5, <2>6 DEF Tried
  <2> QED
    BY <2>1, <2>2, <2>7
<1>3. CASE MayStart(c) /\ c.queue # << >> /\ ~c.paused
  <2> DEFINE IsFront(n) == /\ \A i \in 1 .. n : c.queue[i] \in c.aborted
                           /\ n = Len(c.queue) \/ c.queue[n + 1] \notin c.aborted
             front == CHOOSE n \in 0 .. Len(c.queue) : IsFront(n)
             Thrown(n) == {c.queue[i] : i \in 1 .. n}
             Rest(n) == SubSeq(c.queue, n + 1, Len(c.queue))
             Left(n) == Rejected([c EXCEPT !.queue = Rest(n), !.aborted = @ \ Thrown(n)], Thrown(n))
  <2>1. TryToStartAnother(c) = IF Rest(front) = << >> THEN Idle(Left(front))
                               ELSE Run([Left(front) EXCEPT !.queue = Tail(Rest(front))],
                                        Head(Rest(front)))
    BY <1>3 DEF TryToStartAnother
  <2>2. \E n \in 0 .. Len(c.queue) : IsFront(n)
    BY <1>0, FrontExists
  <2>3. front \in 0 .. Len(c.queue) /\ IsFront(front)
    BY <2>2
  <2> HIDE DEF front, Rest, Left
  <2>4. PICK n \in 0 .. Len(c.queue) : n = front
    BY <2>3
  <2>5. \A i \in 1 .. n : c.queue[i] \in c.aborted
    BY <2>3, <2>4
  <2>6. PICK thrown, rest, left : Threw(c, doc, n, thrown, rest, left)
    BY <1>3, <2>5, ThrownIsSound
  <2>7. rest = Rest(n) /\ left = Left(n)
    BY <2>6 DEF Rest, Left, Threw
  <2>8. TryToStartAnother(c) = IF rest = << >> THEN Idle(left)
                               ELSE Run([left EXCEPT !.queue = Tail(rest)], Head(rest))
    BY <2>1, <2>4, <2>7
  <2>9. /\ Sound(left, doc)
        /\ Waits(left) = {} /\ Waits(c) = {} /\ Resumed(left) = Resumed(c)
        /\ Leaving(left) \subseteq Leaving(c) /\ left.lastSent = c.lastSent /\ left.at = c.at
        /\ left.version = c.version /\ left.sent = c.sent /\ left.failed = c.failed
        /\ left.running = c.running /\ left.queue = rest /\ left.aborted \subseteq c.aborted
        /\ Good(left)
    BY <2>6, Zenon DEF Follows, Threw
  <2>10. left \in CoreType /\ \A i, j \in DOMAIN rest : rest[i] = rest[j] => i = j
    BY <2>9 DEF Good, JobInv
  <2>11. c.running = NoJob
    BY <1>3 DEF MayStart
  <2>12. PICK d : d = TryToStartAnother(c)
    OBVIOUS
  <2>13. Needed(left, doc) = Needed(c, doc) /\ ~IsIdle(c)
    BY <1>3, <2>9 DEF Needed, IsIdle
  <2>14. CASE rest = << >>
    <3>1. d = Idle(left)
      BY <2>8, <2>12, <2>14
    <3>2. /\ Sound(d, doc)
          /\ Waits(d) = {} /\ Resumed(d) = Resumed(left) \cup Waits(left)
          /\ Leaving(d) = Leaving(left)
          /\ d.running = left.running /\ d.queue = left.queue /\ d.lastSent = left.lastSent
          /\ d.at = left.at /\ d.version = left.version /\ d.sent = left.sent
          /\ d.failed = left.failed
      BY <2>9, <2>10, <2>14, <3>1, IdleIsSound, ZenonT(60)
    <3>3. IsIdle(d) /\ Running(d)
      BY <2>9, <2>11, <2>14, <3>2 DEF IsIdle, Running
    <3>4. Needed(d, doc) = Needed(c, doc)
      BY <2>13, <3>2 DEF Needed
    <3> QED
      BY <2>9, <2>11, <2>12, <2>13, <3>2, <3>3, <3>4 DEF Tried
  <2>15. CASE rest # << >>
    <3>1. Head(rest) \notin left.aborted
      <4>1. n # Len(c.queue)
        <5>0. rest = SubSeq(c.queue, n + 1, Len(c.queue))
          BY <2>6, Zenon DEF Threw
        <5>1. rest \in Seq(Calls) /\ Len(rest) = Len(c.queue) - n
          BY <1>0, <2>4, <5>0
        <5>2. Len(rest) # 0
          BY <2>15, <5>1, EmptySeq
        <5> QED
          BY <1>0, <5>1, <5>2
      <4>2. Head(rest) = c.queue[n + 1]
        <5>0. rest = SubSeq(c.queue, n + 1, Len(c.queue))
          BY <2>6, Zenon DEF Threw
        <5>1. rest[1] = c.queue[n + 1]
          BY <1>0, <2>4, <4>1, <5>0
        <5> QED
          BY <2>15, <5>1
      <4> QED
        BY <2>3, <2>4, <2>9, <4>1, <4>2
    <3>2. d = Run([left EXCEPT !.queue = Tail(left.queue)], Head(left.queue))
      BY <2>8, <2>9, <2>12, <2>15
    <3>3. /\ Sound(d, doc)
          /\ Waits(d) = {} /\ Resumed(d) = Resumed(left) /\ Leaving(d) = Leaving(left)
          /\ d.running # NoJob /\ d.lastSent = left.lastSent /\ d.at = left.at
          /\ Needed(d, doc) => Needed(left, doc) /\ d.version = left.version
      BY <2>9, <2>10, <2>15, <3>1, <3>2, RunIsSound
    <3>4. Running(d)
      BY <3>3 DEF Running
    <3> QED
      BY <2>9, <2>11, <2>12, <2>13, <3>3, <3>4 DEF Tried
  <2> QED
    BY <2>12, <2>14, <2>15
<1> QED
  BY <1>1, <1>2, <1>3

LEMMA StartIsSound ==
    ASSUME Outside, NEW c, Good(c), Sound(c, doc), Running(c) PROVE Tried(c, Start(c))
<1>1. CASE ~c.paused
  <2>1. Start(c) = c
    BY <1>1 DEF Start
  <2> QED
    BY <2>1 DEF Tried
<1>2. CASE c.paused
  <2>1. PICK u : u = Unpaused(c)
    OBVIOUS
  <2>2. Good(u)
    BY <2>1, UnpausedIsGood
  <2>3. /\ u.queue = c.queue /\ u.aborted = c.aborted /\ u.current = c.current
        /\ u.running = c.running /\ u.lastSent = c.lastSent /\ u.call = c.call
        /\ u.lock = c.lock /\ u.waiters = c.waiters /\ u.woken = c.woken
        /\ u.at = c.at /\ u.version = c.version /\ u.sent = c.sent /\ u.failed = c.failed
    BY <2>1 DEF Unpaused, Good, CoreType
  <2>4. Waits(u) = Waits(c) /\ Resumed(u) = Resumed(c) /\ Leaving(u) = Leaving(c)
    BY <2>3 DEF Waits, Resumed, Leaving
  <2>5. Sound(u, doc)
    BY <2>3, <2>4, SameIsSound DEF Same, SameQueue
  <2>6. Tried(u, TryToStartAnother(u))
    BY <2>2, <2>5, TryIsSound
  <2>7. PICK d : d = TryToStartAnother(u)
    OBVIOUS
  <2>8. Running(u) /\ (IsIdle(u) = IsIdle(c)) /\ (Needed(u, doc) = Needed(c, doc))
    BY <2>3, <2>4 DEF Running, IsIdle, Needed
  <2>9. Start(c) = d
    BY <1>2, <2>1, <2>7 DEF Start, Unpaused
  <2> QED
    BY <2>3, <2>4, <2>6, <2>7, <2>8, <2>9 DEF Tried
<1> QED
  BY <1>1, <1>2

\* The job that runs is over, and the queue goes on.
Gone(c, d) ==
    /\ Sound(d, doc) /\ Running(d)
    /\ d.lastSent = c.lastSent /\ d.at = c.at /\ Leaving(d) \subseteq Leaving(c)
    /\ Waits(d) \subseteq Waits(c) /\ Resumed(d) \subseteq Resumed(c) \cup Waits(c)
    /\ Resumed(d) = Resumed(c) \/ IsIdle(d)
    /\ Needed(d, doc) => Needed(c, doc) /\ d.version = c.version

LEMMA NextIsSound ==
    ASSUME Outside, NEW c, Good(c), Sound(c, doc), c.running.call # NoCall,
           NEW d, Settled(c, d, {c.running.call})
    PROVE  Gone(c, NextJob(d))
<1>1. c \in CoreType /\ c.running.call \in Calls
  BY DEF Good, CoreType
<1>2. c.call[c.running.call] = "job"
  BY <1>1 DEF Good, JobInv
<1>3. /\ Same(c, d) /\ SameQueue(c, d) /\ d.running = c.running
      /\ d.lastSent = c.lastSent /\ Leaving(d) \subseteq Leaving(c)
  <2>1. \A a \in {c.running.call} : a \notin Waits(c) \cup Resumed(c)
    BY <1>2 DEF Waits, Resumed
  <2> QED
    BY <1>1, <2>1, SettledSame
<1>4. d \in CoreType
  BY DEF Settled
<1>5. PICK e : e = Unoccupied(d)
  OBVIOUS
<1>6. Good(e)
  BY <1>5, UnoccupiedFollows DEF Follows
<1>7. /\ e.queue = d.queue /\ e.aborted = d.aborted /\ e.current = d.current
      /\ e.running = NoJob /\ e.lastSent = d.lastSent /\ e.call = d.call
      /\ e.lock = d.lock /\ e.waiters = d.waiters /\ e.woken = d.woken
      /\ e.at = d.at /\ e.version = d.version /\ e.sent = d.sent /\ e.failed = d.failed
  BY <1>4, <1>5 DEF Unoccupied, CoreType
<1>8. Waits(e) = Waits(d) /\ Resumed(e) = Resumed(d) /\ Leaving(e) = Leaving(d)
  BY <1>7 DEF Waits, Resumed, Leaving
<1>9. Same(c, e) /\ SameQueue(c, e)
  BY <1>3, <1>7, <1>8 DEF Same, SameQueue
<1>10. Sound(e, doc)
  BY <1>9, SameIsSound
<1>11. PICK f : f = TryToStartAnother(e)
  OBVIOUS
<1>12. Tried(e, f)
  BY <1>6, <1>10, <1>11, TryIsSound
<1>13. Needed(e, doc) = Needed(c, doc)
  BY <1>9 DEF Needed, Same
<1>14. Gone(c, f)
  BY <1>3, <1>7, <1>8, <1>9, <1>12, <1>13 DEF Gone, Tried, Same
<1>15. NextJob(d) = f
  BY <1>5, <1>11 DEF NextJob, Unoccupied
<1> QED
  BY <1>14, <1>15

-----------------------------------------------------------------------------
(* syncChanges *)

\* No call has gone on, or those that have will not be late.
Calm(c, text) ==
    \/ Resumed(c) = {}
    \/ IsIdle(c) /\ (Needed(c, text) => \A b \in Resumed(c) : Live(c, b))

\* What the call of a does.
Called(c, text, a, d) ==
    /\ Sound(d, text) /\ Running(d)
    /\ d.lastSent = c.lastSent /\ Leaving(d) \subseteq Leaving(c) /\ d.running = c.running
    /\ Waits(d) \subseteq Waits(c) \cup {a} /\ Resumed(d) \subseteq Resumed(c) \cup {a}
    /\ a \in Resumed(d) => IsIdle(d)
    /\ a \in Waits(d) \cup Resumed(d) => Live(d, a)

LEMMA CallIsSound ==
    ASSUME NEW c, Good(c), NEW text, NEW a \in Calls, c.call[a] = "free",
           Tidy(c), Running(c), Unsent(c, text),
           Resumed(c) = {} \/ (IsIdle(c) /\ \A b \in Resumed(c) : Live(c, b))
             \/ (IsIdle(c) /\ ~Needed(c, text))
    PROVE  Called(c, text, a, SyncIfUnsent(c, a, text))
<1>1. c \in CoreType /\ c.version \in Nat
  BY DEF Good, CoreType
<1>2. PICK at : at = [c.at EXCEPT ![a] = c.version]
  OBVIOUS
<1>3. \A b \in Calls : at[b] = IF b = a THEN c.version ELSE c.at[b]
  BY <1>1, <1>2 DEF CoreType
<1>4. PICK calls : calls = [b \in Calls |-> IF Queued(c, b) THEN "over" ELSE c.call[b]]
  OBVIOUS
<1>0. PICK now : now = IF c.running = NoJob THEN "resumed" ELSE "waiting"
  OBVIOUS
<1>5. PICK waiters : waiters = IF c.running = NoJob THEN c.waiters ELSE Append(c.waiters, a)
  OBVIOUS
<1>6. PICK called : called = [calls EXCEPT ![a] = now]
  OBVIOUS
<1>7. PICK d : d = [c EXCEPT !.at = at, !.queue = << >>, !.aborted = {}, !.call = called,
                            !.waiters = waiters]
  OBVIOUS
<1>8. /\ d.at = at /\ d.queue = << >> /\ d.aborted = {} /\ d.call = called
      /\ d.waiters = waiters /\ d.running = c.running /\ d.lock = c.lock
      /\ d.woken = c.woken /\ d.version = c.version /\ d.sent = c.sent
      /\ d.failed = c.failed /\ d.lastSent = c.lastSent
  BY <1>1, <1>7 DEF CoreType
<1>9. SyncIfUnsent(c, a, text) = d
  <2>1. PICK e : e = [c EXCEPT !.at = at]
    OBVIOUS
  <2>2. e.queue = c.queue /\ e.call = c.call
    BY <1>1, <2>1 DEF CoreType
  <2>3. PICK f : f = Clear(e)
    OBVIOUS
  <2>4. f = [e EXCEPT !.queue = << >>, !.aborted = {}, !.call = calls]
    BY <1>4, <2>2, <2>3 DEF Clear, Queued
  <2>5. f = [c EXCEPT !.at = at, !.queue = << >>, !.aborted = {}, !.call = calls]
    BY <2>1, <2>4
  <2>6. /\ f.running = c.running /\ f.queue = << >> /\ f.call = calls
        /\ f.waiters = c.waiters
    BY <1>1, <2>5 DEF CoreType
  <2>7. IsIdle(f) <=> c.running = NoJob
    BY <2>6 DEF IsIdle
  <2>8. SyncIfUnsent(c, a, text) =
          IF IsIdle(f) THEN [f EXCEPT !.call[a] = "resumed"]
          ELSE [f EXCEPT !.call[a] = "waiting", !.waiters = Append(f.waiters, a)]
    BY <1>2, <2>1, <2>3 DEF SyncIfUnsent
  <2>9. CASE IsIdle(f)
    <3>1. SyncIfUnsent(c, a, text) = [f EXCEPT !.call = called]
      BY <1>0, <1>6, <2>6, <2>7, <2>8, <2>9
    <3>2. waiters = c.waiters
      BY <1>5, <2>7, <2>9
    <3> QED
      BY <1>1, <1>7, <2>5, <3>1, <3>2, ZenonT(60) DEF CoreType
  <2>10. CASE ~IsIdle(f)
    <3>1. SyncIfUnsent(c, a, text) = [f EXCEPT !.call = called, !.waiters = waiters]
      BY <1>0, <1>5, <1>6, <2>6, <2>7, <2>8, <2>10
    <3> QED
      BY <1>7, <2>5, <3>1
  <2> QED
    BY <2>9, <2>10
<1>10. \A b \in Calls : d.call[b] = IF b = a THEN now
                                    ELSE IF Queued(c, b) THEN "over" ELSE c.call[b]
  <2>1. \A b \in Calls : calls[b] = IF Queued(c, b) THEN "over" ELSE c.call[b]
    BY <1>4
  <2>2. DOMAIN calls = Calls
    BY <1>4
  <2>3. \A b \in Calls : called[b] = IF b = a THEN now ELSE calls[b]
    BY <1>6, <2>2
  <2> QED
    BY <1>8, <2>1, <2>3
<1>11. \A b \in Calls : Queued(c, b) => c.call[b] = "job"
  BY DEF Good, JobInv, Queued
<1>12. a \notin Waits(c) /\ a \notin Resumed(c)
  BY DEF Waits, Resumed
<1>13. /\ Waits(d) = IF c.running = NoJob THEN Waits(c) ELSE Waits(c) \cup {a}
       /\ Resumed(d) = IF c.running = NoJob THEN Resumed(c) \cup {a} ELSE Resumed(c)
  BY <1>0, <1>10, <1>11, <1>12 DEF Waits, Resumed
<1>14. \A b \in Calls : b # a => (Live(d, b) <=> Live(c, b))
  BY <1>3, <1>8 DEF Live
<1>15. Live(d, a)
  BY <1>3, <1>8 DEF Live
<1>16. Leaving(d) = Leaving(c) /\ (c.running = NoJob => IsIdle(d))
  BY <1>8 DEF Leaving, IsIdle
<1>17. Running(d)
  BY <1>8, <1>13 DEF Running
<1>18. Apart(d)
  BY <1>8, <1>13 DEF Apart, Running, IsIdle
<1>19. QueueInv(d)
  BY <1>8 DEF QueueInv, Queued
<1>20. WokenInv(d)
  BY <1>8, <1>13 DEF Tidy, WokenInv
<1>21. SeenInv(d)
  BY <1>1, <1>3, <1>8 DEF Tidy, SeenInv
<1>22. WaitersInv(d)
  <2>1. \A i \in DOMAIN c.waiters : c.waiters[i] \in Calls => c.waiters[i] \in Waits(c)
    BY DEF Tidy, WaitersInv
  <2>2. CASE c.running = NoJob
    BY <1>3, <1>5, <1>8, <1>12, <1>13, <2>1, <2>2 DEF Tidy, WaitersInv
  <2>3. CASE c.running # NoJob
    <3>1. PICK n : n = Len(c.waiters)
      OBVIOUS
    <3>2. c.waiters \in Seq(Calls \cup Locks)
      BY <1>1 DEF CoreType
    <3>3. /\ n \in Nat /\ DOMAIN c.waiters = 1 .. n /\ DOMAIN waiters = 1 .. n + 1
          /\ waiters[n + 1] = a /\ \A i \in 1 .. n : waiters[i] = c.waiters[i]
      BY <1>5, <2>3, <3>1, <3>2
    <3>4. \A b \in Waits(d) : \E i \in DOMAIN waiters : waiters[i] = b
      <4> SUFFICES ASSUME NEW b \in Waits(c) PROVE \E i \in DOMAIN waiters : waiters[i] = b
        BY <1>13, <2>3, <3>3
      <4>1. PICK i \in DOMAIN c.waiters : c.waiters[i] = b
        BY DEF Tidy, WaitersInv
      <4> QED
        BY <3>3, <4>1
    <3>5. \A i \in DOMAIN waiters : waiters[i] \in Calls => waiters[i] \in Waits(d)
      BY <1>13, <2>1, <2>3, <3>3
    <3>6. ASSUME NEW i \in DOMAIN waiters, NEW j \in DOMAIN waiters, i < j,
                 waiters[i] \in Calls, waiters[j] \in Calls
          PROVE  waiters[i] # waiters[j] /\ at[waiters[i]] <= at[waiters[j]]
      <4>1. i \in 1 .. n /\ waiters[i] = c.waiters[i] /\ c.waiters[i] \in Waits(c)
        BY <2>1, <3>3, <3>6
      <4>2. waiters[i] # a /\ at[waiters[i]] = c.at[waiters[i]]
        BY <1>3, <1>12, <3>6, <4>1
      <4>3. CASE j = n + 1
        BY <1>3, <3>3, <3>6, <4>2, <4>3 DEF Tidy, SeenInv
      <4>4. CASE j # n + 1
        <5>1. j \in 1 .. n /\ waiters[j] = c.waiters[j] /\ c.waiters[j] \in Waits(c)
          BY <2>1, <3>3, <3>6, <4>4
        <5>2. at[waiters[j]] = c.at[waiters[j]]
          BY <1>3, <1>12, <3>6, <5>1
        <5>3. c.waiters[i] # c.waiters[j] /\ c.at[c.waiters[i]] <= c.at[c.waiters[j]]
          BY <3>3, <3>6, <4>1, <5>1 DEF Tidy, WaitersInv
        <5> QED
          BY <4>1, <4>2, <5>1, <5>2, <5>3
      <4> QED
        BY <4>3, <4>4
    <3> QED
      BY <1>8, <3>4, <3>5, <3>6 DEF WaitersInv
  <2> QED
    BY <2>2, <2>3
<1>23. Needed(d, text) = Needed(c, text)
  BY <1>8 DEF Needed
<1>24. ASSUME Needed(d, text) PROVE Covered(d)
  <2>1. CASE c.running # NoJob
    BY <1>13, <1>15, <2>1 DEF Covered, WaitCovers
  <2>2. CASE c.running = NoJob
    <3>1. \A b \in Resumed(d) : Live(d, b)
      <4>1. \A b \in Resumed(c) : Live(c, b)
        BY <1>23, <1>24
      <4>2. Resumed(c) \subseteq Calls
        BY DEF Resumed
      <4> QED
        BY <1>13, <1>14, <1>15, <2>2, <4>1, <4>2
    <3> QED
      BY <1>13, <1>15, <2>2, <3>1 DEF Covered, ResumedCovers
  <2> QED
    BY <2>1, <2>2
<1>25. Sound(d, text)
  BY <1>18, <1>19, <1>20, <1>21, <1>22, <1>24 DEF Sound, Tidy
<1>26. Called(c, text, a, d)
  BY <1>8, <1>13, <1>12, <1>15, <1>16, <1>17, <1>25 DEF Called
<1> QED
  BY <1>9, <1>26

LEMMA SyncIsSound ==
    ASSUME NEW c, Good(c), NEW text, NEW a \in Calls, c.call[a] = "free",
           Tidy(c), Running(c), Calm(c, text),
           Unsent(c, text) \/ (Needed(c, text) => Covered(c))
    PROVE  Called(c, text, a, SyncIfUnsent(c, a, text))
<1>1. CASE Unsent(c, text)
  BY <1>1, CallIsSound DEF Calm
<1>2. CASE ~Unsent(c, text)
  <2>1. PICK d : d = Fulfilled(c, {a})
    OBVIOUS
  <2>2. c \in CoreType
    BY DEF Good
  <2>3. Settled(c, d, {a})
    BY <2>1, <2>2, FulfilledSettles
  <2>4. a \notin Waits(c) \cup Resumed(c)
    BY DEF Waits, Resumed
  <2>5. /\ Same(c, d) /\ SameQueue(c, d) /\ d.running = c.running
        /\ d.lastSent = c.lastSent /\ Leaving(d) \subseteq Leaving(c)
    BY <2>2, <2>3, <2>4, SettledSame
  <2>6. Sound(d, text)
    BY <1>2, <2>5, SameIsSound DEF Sound
  <2>7. Running(d)
    BY <2>5 DEF Running, Same
  <2>8. Called(c, text, a, d)
    BY <2>4, <2>5, <2>6, <2>7 DEF Called, Same
  <2>9. SyncIfUnsent(c, a, text) = d
    BY <1>2, <2>1 DEF SyncIfUnsent
  <2> QED
    BY <2>8, <2>9
<1> QED
  BY <1>1, <1>2

\* The first of those that are told to go on does.
MovedOn(c, x, woken) ==
    /\ \A i \in DOMAIN woken :
         woken[i] \in Calls => woken[i] \in Resumed(c) /\ woken[i] # x
    /\ \A i, j \in DOMAIN woken : woken[i] = woken[j] /\ woken[i] \in Calls => i = j
    /\ x \in Calls => \A b : ~GoesBefore(c, b, x)
    /\ \A a, b : a # x /\ b # x /\ GoesBefore(c, b, a) => Precedes(woken, b, a)

LEMMA FirstGoesOn ==
    ASSUME NEW c \in CoreType, WokenInv(c), NEW x,
           (\E i \in DOMAIN c.woken : c.woken[i] = x) => Head(c.woken) = x,
           NEW woken,
           woken = IF c.woken # << >> /\ Head(c.woken) = x THEN Tail(c.woken) ELSE c.woken
    PROVE  MovedOn(c, x, woken)
<1>1. c.woken \in Seq(Calls \cup Locks)
  BY DEF CoreType
<1>2. PICK q, n : q = c.woken /\ n = Len(q)
  OBVIOUS
<1>3. q \in Seq(Calls \cup Locks) /\ n \in Nat /\ DOMAIN q = 1 .. n
  BY <1>1, <1>2
<1>4. /\ \A i \in DOMAIN q : q[i] \in Calls => q[i] \in Resumed(c)
      /\ \A i, j \in DOMAIN q : q[i] = q[j] /\ q[i] \in Calls => i = j
  BY <1>2 DEF WokenInv
<1>5. \A a, b : GoesBefore(c, b, a) <=> Precedes(q, b, a)
  BY <1>2 DEF GoesBefore
<1>6. CASE q # << >> /\ Head(q) = x
  <2>1. /\ woken = Tail(q) /\ 1 \in DOMAIN q /\ q[1] = x
        /\ DOMAIN woken = 1 .. n - 1 /\ \A i \in 1 .. n - 1 : woken[i] = q[i + 1]
    BY <1>2, <1>3, <1>6
  <2>2. ASSUME NEW i \in DOMAIN woken, woken[i] \in Calls
        PROVE  woken[i] \in Resumed(c) /\ woken[i] # x
    <3>1. i + 1 \in DOMAIN q /\ woken[i] = q[i + 1] /\ i + 1 # 1
      BY <1>3, <2>1
    <3> QED
      BY <1>4, <2>1, <2>2, <3>1
  <2>3. ASSUME NEW i \in DOMAIN woken, NEW j \in DOMAIN woken, woken[i] = woken[j],
               woken[i] \in Calls
        PROVE  i = j
    <3>1. /\ i + 1 \in DOMAIN q /\ j + 1 \in DOMAIN q
          /\ woken[i] = q[i + 1] /\ woken[j] = q[j + 1]
      BY <1>3, <2>1, SMTT(30)
    <3>2. i + 1 = j + 1
      BY <1>4, <2>3, <3>1
    <3> QED
      BY <1>3, <2>1, <3>2
  <2>4. ASSUME NEW b, x \in Calls, GoesBefore(c, b, x) PROVE FALSE
    <3>1. PICK i \in DOMAIN q, j \in DOMAIN q : i < j /\ q[i] = b /\ q[j] = x
      BY <1>5, <2>4 DEF Precedes
    <3>2. j = 1
      BY <1>4, <2>1, <2>4, <3>1
    <3> QED
      BY <1>3, <3>1, <3>2
  <2>5. ASSUME NEW a, NEW b, a # x, b # x, GoesBefore(c, b, a)
        PROVE  Precedes(woken, b, a)
    <3>1. PICK i \in DOMAIN q, j \in DOMAIN q : i < j /\ q[i] = b /\ q[j] = a
      BY <1>5, <2>5 DEF Precedes
    <3>2. i # 1 /\ j # 1
      BY <2>1, <2>5, <3>1
    <3>3. /\ i - 1 \in DOMAIN woken /\ j - 1 \in DOMAIN woken /\ i - 1 < j - 1
          /\ i - 1 + 1 = i /\ j - 1 + 1 = j
      BY <1>3, <2>1, <3>1, <3>2
    <3>4. woken[i - 1] = b /\ woken[j - 1] = a
      BY <2>1, <3>1, <3>3
    <3> QED
      BY <3>3, <3>4 DEF Precedes
  <2> QED
    BY <2>2, <2>3, <2>4, <2>5 DEF MovedOn
<1>7. CASE ~(q # << >> /\ Head(q) = x)
  <2>1. woken = q
    BY <1>2, <1>7
  <2>2. \A i \in DOMAIN q : q[i] # x
    BY <1>2, <1>3, <1>7
  <2>3. \A i \in DOMAIN woken :
            woken[i] \in Calls => woken[i] \in Resumed(c) /\ woken[i] # x
    BY <1>4, <2>1, <2>2
  <2>4. \A b : ~GoesBefore(c, b, x)
    BY <1>5, <2>2, Zenon DEF Precedes
  <2>5. \A a, b : GoesBefore(c, b, a) => Precedes(woken, b, a)
    BY <1>5, <2>1
  <2>6. \A i, j \in DOMAIN woken : woken[i] = woken[j] /\ woken[i] \in Calls => i = j
    BY <1>4, <2>1
  <2> QED
    BY <2>3, <2>4, <2>5, <2>6 DEF MovedOn
<1> QED
  BY <1>6, <1>7

\* A call that goes on aborts the current job and adds its own. If its job would be
\* late another's will not be.
LEMMA AddIsSound ==
    ASSUME Outside, NEW c, Good(c), Sound(c, doc), NEW a \in Calls, c.call[a] = "resumed",
           (\E i \in DOMAIN c.woken : c.woken[i] = a) => Head(c.woken) = a
    PROVE  LET d == Add([Abort(WentOn(c, a), c.current) EXCEPT !.current = a], a)
           IN  /\ Sound(d, doc) /\ Running(d)
               /\ d.lastSent = c.lastSent /\ Leaving(d) \subseteq Leaving(c)
               /\ Waits(d) = {} /\ Resumed(d) \subseteq Resumed(c) \ {a}
<1>1. c \in CoreType /\ c.current \in Calls \cup {NoCall} /\ Tidy(c)
  BY DEF Good, CoreType, Sound
<1>2. PICK woken : woken = IF c.woken # << >> /\ Head(c.woken) = a THEN Tail(c.woken)
                           ELSE c.woken
  OBVIOUS
<1>3. PICK p : p = WentOn(c, a)
  OBVIOUS
<1>4. p = [c EXCEPT !.woken = woken] /\ Good(p) /\ p.call = c.call
  BY <1>2, <1>3, WentOnFollows DEF WentOn, Follows
<1>5. p.queue = c.queue /\ p.aborted = c.aborted /\ p.running = c.running
  BY <1>1, <1>4 DEF CoreType
<1>6. PICK q : q = Abort(p, c.current)
  OBVIOUS
<1>7. Good(q) /\ q.call = c.call
  BY <1>1, <1>4, <1>6, AbortFollows DEF Follows
<1>8. PICK aborted : aborted = c.aborted \cup {b \in {c.current} : Queued(c, b)}
  OBVIOUS
<1>9. PICK running : running = [c.running EXCEPT !.mode =
                        IF c.running.call = c.current /\ c.current # NoCall THEN "aborted" ELSE @]
  OBVIOUS
<1>10. q = [p EXCEPT !.aborted = aborted, !.running = running]
  BY <1>5, <1>6, <1>8, <1>9, ZenonT(60) DEF Abort, Queued
<1>11. PICK f : f = [q EXCEPT !.current = a]
  OBVIOUS
<1>12. Good(f) /\ f.call = c.call
  <2>1. q \in CoreType
    BY <1>7 DEF Good
  <2>2. f \in CoreType
    BY <1>11, <2>1 DEF CoreType
  <2>3. /\ f.running = q.running /\ f.queue = q.queue /\ f.call = q.call /\ f.lock = q.lock
        /\ f.paused = q.paused /\ f.version = q.version /\ f.sent = q.sent
    BY <1>11, <2>1 DEF CoreType
  <2> QED
    BY <1>7, <2>2, <2>3, MinorFollows DEF Follows
<1>13. PICK e : Inserted(f, a, e)
  BY <1>12, AddInserts
<1>14. f = [c EXCEPT !.woken = woken, !.aborted = aborted, !.running = running, !.current = a]
  BY <1>4, <1>10, <1>11
<1>15. /\ f.woken = woken /\ f.aborted = aborted /\ f.running = running /\ f.current = a
       /\ f.queue = c.queue /\ f.lock = c.lock /\ f.waiters = c.waiters /\ f.at = c.at
       /\ f.version = c.version /\ f.sent = c.sent /\ f.failed = c.failed
       /\ f.lastSent = c.lastSent
  BY <1>1, <1>14 DEF CoreType
<1>16. /\ e.woken = woken /\ e.aborted = aborted /\ e.running = running /\ e.current = a
       /\ e.lock = c.lock /\ e.waiters = c.waiters /\ e.at = c.at
       /\ e.version = c.version /\ e.sent = c.sent /\ e.failed = c.failed
       /\ e.lastSent = c.lastSent
  <2>1. e = [f EXCEPT !.priority = e.priority, !.call = e.call, !.queue = e.queue]
    BY <1>13, Zenon DEF Inserted
  <2>2. PICK priority, calls, queue :
           priority = e.priority /\ calls = e.call /\ queue = e.queue
    OBVIOUS
  <2>3. PICK g : g = [f EXCEPT !.priority = priority, !.call = calls, !.queue = queue]
    OBVIOUS
  <2>4. g = e
    BY <2>1, <2>2, <2>3
  <2>5. f \in CoreType
    BY <1>12 DEF Good
  <2>6. /\ g.woken = f.woken /\ g.aborted = f.aborted /\ g.running = f.running
        /\ g.current = f.current /\ g.lock = f.lock /\ g.waiters = f.waiters /\ g.at = f.at
        /\ g.version = f.version /\ g.sent = f.sent /\ g.failed = f.failed
        /\ g.lastSent = f.lastSent
    BY <2>3, <2>5 DEF CoreType
  <2> QED
    BY <1>15, <2>4, <2>6
<1>17. Good(e)
  BY <1>13 DEF Inserted, Follows
<1>18. \A b : Queued(e, b) <=> b = a \/ Queued(c, b)
  <2>1. \A b : Queued(e, b) <=> b = a \/ Queued(f, b)
    BY <1>13, Zenon DEF Inserted, Queued
  <2> QED
    BY <1>15, <2>1 DEF Queued
<1>19. \A b \in Calls : e.call[b] = IF b = a THEN "job" ELSE c.call[b]
  <2>1. \A b \in Calls : e.call[b] = IF b = a THEN "job" ELSE f.call[b]
    BY <1>13, Zenon DEF Inserted
  <2> QED
    BY <1>12, <2>1
<1>20. a \in Resumed(c) /\ Waits(c) = {} /\ ~Queued(c, a)
  <2>1. a \in Resumed(c)
    BY DEF Resumed
  <2>2. ~Queued(c, a)
    BY DEF Good, JobInv, Queued
  <2> QED
    BY <1>1, <2>1, <2>2 DEF Tidy, Apart
<1>21. Waits(e) = {} /\ Resumed(e) = Resumed(c) \ {a} /\ Leaving(e) = Leaving(c)
  BY <1>16, <1>19, <1>20 DEF Waits, Resumed, Leaving
<1>22. MovedOn(c, a, woken)
  <2>1. WokenInv(c)
    BY <1>1 DEF Tidy
  <2> QED
    BY <1>1, <1>2, <1>20, <2>1, FirstGoesOn
<1>23. \A b \in aborted : b \in Calls /\ Queued(c, b)
  <2>1. \A b \in c.aborted : b \in Calls /\ Queued(c, b)
    BY <1>1 DEF Tidy, QueueInv, CoreType
  <2>2. \A b : Queued(c, b) => b \in Calls
    <3>1. c.queue \in Seq(Calls)
      BY <1>1 DEF CoreType
    <3> QED
      BY <3>1 DEF Queued
  <2> QED
    BY <1>8, <2>1, <2>2
<1>24. QueueInv(e)
  <2>1. \A b \in Calls : Queued(c, b) => b \in aborted
    BY <1>1, <1>8 DEF Tidy, QueueInv
  <2> QED
    BY <1>16, <1>18, <1>23, <2>1 DEF QueueInv
<1>25. WaitersInv(e)
  BY <1>1, <1>16, <1>20, <1>21 DEF Tidy, WaitersInv
<1>26. WokenInv(e)
  BY <1>16, <1>21, <1>22 DEF WokenInv, MovedOn
<1>27. SeenInv(e) /\ Apart(e)
  BY <1>1, <1>16, <1>21 DEF Tidy, SeenInv, Apart
<1>28. \A b : Live(e, b) = Live(c, b)
  BY <1>16 DEF Live
<1>29. (\A b \in Resumed(c) : Live(c, b)) => JobCovers(e)
  BY <1>16, <1>18, <1>20, <1>21, <1>23, <1>28 DEF JobCovers
<1>30. ASSUME ResumedCovers(c) PROVE Covered(e)
  <2>1. PICK k \in Resumed(c) : /\ Live(c, k)
                                /\ \A b \in Resumed(c) : Live(c, b) \/ GoesBefore(c, b, k)
    BY <1>30 DEF ResumedCovers
  <2>2. CASE k = a
    BY <1>22, <1>29, <2>1, <2>2 DEF Covered, MovedOn
  <2>3. CASE k # a
    <3>1. \A b \in Resumed(e) : Live(e, b) \/ GoesBefore(e, b, k)
      BY <1>16, <1>21, <1>22, <1>28, <2>1, <2>3 DEF GoesBefore, MovedOn
    <3> QED
      BY <1>21, <1>28, <2>1, <2>3, <3>1 DEF Covered, ResumedCovers
  <2> QED
    BY <2>2, <2>3
<1>31. Covered(c) => Covered(e)
  BY <1>20, <1>29, <1>30 DEF Covered, WaitCovers, JobCovers
<1>32. Needed(e, doc) = Needed(c, doc)
  BY <1>16 DEF Needed
<1>33. Sound(e, doc)
  BY <1>24, <1>25, <1>26, <1>27, <1>31, <1>32 DEF Sound, Tidy
<1>34. PICK d : d = TryToStartAnother(e)
  OBVIOUS
<1>35. Tried(e, d)
  BY <1>17, <1>33, <1>34, TryIsSound
<1>36. /\ Sound(d, doc) /\ Running(d)
       /\ d.lastSent = c.lastSent /\ Leaving(d) \subseteq Leaving(c)
       /\ Waits(d) = {} /\ Resumed(d) \subseteq Resumed(c) \ {a}
  BY <1>16, <1>21, <1>35 DEF Tried
<1>37. Add([Abort(WentOn(c, a), c.current) EXCEPT !.current = a], a) = d
  <2>1. Add(f, a) = TryToStartAnother(e)
    BY <1>13, Zenon DEF Inserted
  <2> QED
    BY <1>3, <1>6, <1>11, <1>34, <2>1
<1> QED
  BY <1>36, <1>37

-----------------------------------------------------------------------------
(* The microtasks *)

LEMMA SInvHolds ==
    ASSUME NEW d, NEW text, core' = d, doc' = text, inits' = inits,
           Sound(d, text), Running(d), LeavingInv(d, text), TextInv'
    PROVE  SInv'
<1>1. Needed(core, doc)' = Needed(d, text)
  BY DEF Needed, Ready
<1>2. Sound(core, doc)' /\ Running(core)' /\ LeavingInv(core, doc)'
  BY <1>1 DEF Sound, LeavingInv
<1> QED
  BY <1>2 DEF SInv

\* The lock that is being left goes on being left.
LEMMA StillLeaving ==
    ASSUME NEW c, NEW d, NEW text, LeavingInv(c, text), Leaving(d) \subseteq Leaving(c),
           \A l \in Leaving(c) :
             /\ \A a \in Resumed(d) : a = OnTimeout(l) /\ IsIdle(d)
             /\ \A a \in Waits(d) : a = OnTimeout(l) \/ d.running.mode = "notify"
             /\ Needed(d, text) /\ OnTimeout(l) \in Waits(d) \cup Resumed(d) =>
                  Live(d, OnTimeout(l))
    PROVE  LeavingInv(d, text)
BY DEF LeavingInv

LEMMA NobodyLeaves == ASSUME NEW c, NEW text, Leaving(c) = {} PROVE LeavingInv(c, text)
BY DEF LeavingInv

LEMMA QuietIsCalm ==
    ASSUME Quiescent
    PROVE  Leaving(core) = {} /\ Resumed(core) = {} /\ \A text : Calm(core, text)
BY DEF Quiescent, Leaving, Resumed, Calm

LEMMA AddJobIsSound ==
    ASSUME IInv, SInv, NEW a \in Calls, AddJob(a) PROVE SInv'
<1>1. PICK c : c = core
  OBVIOUS
<1>2. /\ Good(c) /\ Sound(c, doc) /\ LeavingInv(c, doc) /\ c.call[a] = "resumed"
      /\ (\E i \in DOMAIN c.woken : c.woken[i] = a) => Head(c.woken) = a
  BY <1>1 DEF IInv, SInv, AddJob, InTurn
<1>3. PICK d : d = Add([Abort(WentOn(c, a), c.current) EXCEPT !.current = a], a)
  OBVIOUS
<1>4. /\ Sound(d, doc) /\ Running(d) /\ d.lastSent = c.lastSent /\ Leaving(d) \subseteq Leaving(c)
      /\ Waits(d) = {} /\ Resumed(d) \subseteq Resumed(c) \ {a}
  BY <1>2, <1>3, AroundKept, AddIsSound
<1>5. LeavingInv(d, doc)
  <2>1. \A l \in Leaving(c) : Resumed(d) = {}
    BY <1>2, <1>4 DEF LeavingInv, Resumed
  <2> QED
    BY <1>2, <1>4, <2>1, StillLeaving
<1>6. core' = d /\ UNCHANGED <<doc, edits, inits>>
  BY <1>1, <1>3 DEF AddJob
<1>7. TextInv'
  BY <1>1, <1>4, <1>6 DEF SInv, TextInv
<1> QED
  BY <1>4, <1>5, <1>6, <1>7, SInvHolds

LEMMA JobOverIsSound == ASSUME IInv, SInv, JobOver PROVE SInv'
<1>1. PICK c : c = core
  OBVIOUS
<1>2. /\ Good(c) /\ c \in CoreType /\ Sound(c, doc) /\ LeavingInv(c, doc)
      /\ c.running.mode \in {"stale", "aborted", "failed"}
  BY <1>1 DEF IInv, SInv, JobOver, Good
<1>3. c.running.call # NoCall /\ c.running # NoJob
  BY <1>2 DEF Good, JobInv, NoJob
<1>4. PICK s : s = IF c.running.mode = "stale" THEN Fulfilled(c, {c.running.call})
                   ELSE Rejected(c, {c.running.call})
  OBVIOUS
<1>5. Settled(c, s, {c.running.call})
  BY <1>2, <1>4, FulfilledSettles, RejectedSettles
<1>6. PICK d : d = NextJob(s)
  OBVIOUS
<1>7. Gone(c, d)
  BY <1>2, <1>3, <1>5, <1>6, AroundKept, NextIsSound
<1>8. LeavingInv(d, doc)
  <2> SUFFICES ASSUME NEW l \in Leaving(c)
               PROVE  /\ \A a \in Resumed(d) : a = OnTimeout(l) /\ IsIdle(d)
                      /\ \A a \in Waits(d) : a = OnTimeout(l) \/ d.running.mode = "notify"
                      /\ Needed(d, doc) /\ OnTimeout(l) \in Waits(d) \cup Resumed(d) =>
                           Live(d, OnTimeout(l))
    BY <1>2, <1>7, StillLeaving DEF Gone
  <2>1. Resumed(c) = {}
    BY <1>2, <1>3 DEF LeavingInv, IsIdle
  <2>2. Waits(c) \subseteq {OnTimeout(l)}
    BY <1>2 DEF LeavingInv
  <2>3. Needed(d, doc) /\ OnTimeout(l) \in Waits(d) \cup Resumed(d) => Live(d, OnTimeout(l))
    BY <1>2, <1>7 DEF LeavingInv, Gone, Live
  <2> QED
    BY <1>7, <2>1, <2>2, <2>3 DEF Gone
<1>9. core' = d /\ UNCHANGED <<doc, edits, inits>>
  BY <1>1, <1>4, <1>6 DEF JobOver
<1>10. TextInv'
  BY <1>1, <1>7, <1>9 DEF SInv, TextInv, Gone
<1> QED
  BY <1>7, <1>8, <1>9, <1>10, SInvHolds DEF Gone

\* A lock waits for the queue behind the calls that wait.
LEMMA AwaitIdleIsSound ==
    ASSUME IInv, SInv, NEW l \in Locks, AwaitIdle(l) PROVE SInv'
<1>1. PICK c : c = core
  OBVIOUS
<1>2. /\ c \in CoreType /\ Sound(c, doc) /\ Running(c) /\ LeavingInv(c, doc)
      /\ c.lock[l] = "synced" /\ c.waiters \in Seq(Calls \cup Locks)
  BY <1>1 DEF IInv, SInv, AwaitIdle, Good, CoreType
<1>3. PICK now, waiters : /\ now = IF IsIdle(c) THEN "resumed" ELSE "waiting"
                          /\ waiters = IF IsIdle(c) THEN c.waiters ELSE Append(c.waiters, l)
  OBVIOUS
<1>4. PICK locks : locks = [c.lock EXCEPT ![l] = now]
  OBVIOUS
<1>5. PICK d : d = [c EXCEPT !.lock = locks, !.waiters = waiters]
  OBVIOUS
<1>6. /\ d.queue = c.queue /\ d.running = c.running /\ d.aborted = c.aborted
      /\ d.current = c.current /\ d.call = c.call /\ d.lock = locks /\ d.waiters = waiters
      /\ d.woken = c.woken /\ d.at = c.at /\ d.version = c.version /\ d.sent = c.sent
      /\ d.failed = c.failed /\ d.lastSent = c.lastSent
  BY <1>2, <1>5 DEF CoreType
<1>7. Waits(d) = Waits(c) /\ Resumed(d) = Resumed(c)
  BY <1>6 DEF Waits, Resumed
<1>8. Leaving(d) \subseteq Leaving(c)
  <2>1. \A m \in Locks : locks[m] = IF m = l THEN now ELSE c.lock[m]
    BY <1>2, <1>4 DEF CoreType
  <2> QED
    BY <1>3, <1>6, <2>1 DEF Leaving
<1>9. WaitersInv(d)
  <2>1. WaitersInv(c)
    BY <1>2 DEF Sound, Tidy
  <2>2. CASE waiters = c.waiters
    BY <1>6, <1>7, <2>1, <2>2 DEF WaitersInv
  <2>3. CASE waiters = Append(c.waiters, l)
    <3>1. PICK w, n : w = c.waiters /\ n = Len(w)
      OBVIOUS
    <3>2. /\ w \in Seq(Calls \cup Locks) /\ n \in Nat /\ DOMAIN w = 1 .. n
          /\ DOMAIN waiters = 1 .. n + 1 /\ waiters[n + 1] = l
          /\ \A i \in 1 .. n : waiters[i] = w[i]
      BY <1>2, <2>3, <3>1
    <3>3. l \notin Calls
      BY LockAssumption
    <3>4. \A i \in DOMAIN waiters : waiters[i] \in Calls => i \in DOMAIN w /\ waiters[i] = w[i]
      BY <3>2, <3>3
    <3>5. \A i \in DOMAIN w : i \in DOMAIN waiters /\ waiters[i] = w[i]
      BY <3>2
    <3>6. \A a \in Waits(d) : \E i \in DOMAIN waiters : waiters[i] = a
      BY <1>7, <2>1, <3>1, <3>5 DEF WaitersInv
    <3>7. \A i \in DOMAIN waiters : waiters[i] \in Calls => waiters[i] \in Waits(d)
      BY <1>7, <2>1, <3>1, <3>4 DEF WaitersInv
    <3>8. \A i, j \in DOMAIN waiters :
            i < j /\ waiters[i] \in Calls /\ waiters[j] \in Calls =>
               waiters[i] # waiters[j] /\ c.at[waiters[i]] <= c.at[waiters[j]]
      <4> SUFFICES ASSUME NEW i \in DOMAIN waiters, NEW j \in DOMAIN waiters,
                          i < j, waiters[i] \in Calls, waiters[j] \in Calls
                   PROVE  waiters[i] # waiters[j] /\ c.at[waiters[i]] <= c.at[waiters[j]]
        OBVIOUS
      <4>1. i \in DOMAIN w /\ j \in DOMAIN w /\ waiters[i] = w[i] /\ waiters[j] = w[j]
        BY <3>4
      <4>2. w[i] # w[j] /\ c.at[w[i]] <= c.at[w[j]]
        BY <2>1, <3>1, <4>1 DEF WaitersInv
      <4> QED
        BY <4>1, <4>2
    <3> QED
      BY <1>6, <3>6, <3>7, <3>8 DEF WaitersInv
  <2> QED
    BY <1>3, <2>2, <2>3
<1>10. Tidy(d)
  BY <1>2, <1>6, <1>7, <1>9 DEF Sound, Tidy, QueueInv, WokenInv, SeenInv, Apart, Queued
<1>11. Needed(d, doc) = Needed(c, doc)
  BY <1>6 DEF Needed
<1>12. Covered(c) => Covered(d)
  BY <1>6, <1>7 DEF Covered, WaitCovers, ResumedCovers, JobCovers, Live, GoesBefore, Queued
<1>13. Sound(d, doc) /\ Running(d)
  BY <1>2, <1>6, <1>7, <1>10, <1>11, <1>12 DEF Sound, Running
<1>14. LeavingInv(d, doc)
  <2>1. \A a : Live(d, a) = Live(c, a)
    BY <1>6 DEF Live
  <2>2. IsIdle(d) = IsIdle(c)
    BY <1>6 DEF IsIdle
  <2> QED
    BY <1>2, <1>6, <1>7, <1>8, <1>11, <2>1, <2>2 DEF LeavingInv
<1>15. core' = d
  <2>1. CASE IsIdle(c)
    <3>1. core' = [c EXCEPT !.lock = locks]
      BY <1>1, <1>3, <1>4, <2>1 DEF AwaitIdle
    <3> QED
      BY <1>2, <1>3, <1>5, <2>1, <3>1 DEF CoreType
  <2>2. CASE ~IsIdle(c)
    BY <1>1, <1>3, <1>4, <1>5, <2>2 DEF AwaitIdle
  <2> QED
    BY <2>1, <2>2
<1>16. UNCHANGED <<doc, edits, inits>>
  BY DEF AwaitIdle
<1>17. TextInv'
  BY <1>1, <1>6, <1>15, <1>16 DEF SInv, TextInv
<1> QED
  BY <1>13, <1>14, <1>15, <1>16, <1>17, SInvHolds

\* It goes on in its turn, and lets the calls keep theirs.
LEMMA TakeLockIsSound ==
    ASSUME IInv, SInv, NEW l \in Locks, TakeLock(l) PROVE SInv'
<1>1. PICK c : c = core
  OBVIOUS
<1>2. /\ c \in CoreType /\ Sound(c, doc) /\ Running(c) /\ LeavingInv(c, doc)
      /\ c.lock[l] = "resumed"
      /\ (\E i \in DOMAIN c.woken : c.woken[i] = l) => Head(c.woken) = l
  BY <1>1 DEF IInv, SInv, TakeLock, Good, InTurn
<1>3. PICK woken : woken = IF c.woken # << >> /\ Head(c.woken) = l THEN Tail(c.woken)
                           ELSE c.woken
  OBVIOUS
<1>4. PICK locks : locks = [c.lock EXCEPT ![l] = "locked"]
  OBVIOUS
<1>5. PICK d : d = [c EXCEPT !.woken = woken, !.paused = TRUE, !.lock = locks]
  OBVIOUS
<1>6. /\ d.queue = c.queue /\ d.running = c.running /\ d.aborted = c.aborted
      /\ d.current = c.current /\ d.call = c.call /\ d.lock = locks /\ d.waiters = c.waiters
      /\ d.woken = woken /\ d.at = c.at /\ d.version = c.version /\ d.sent = c.sent
      /\ d.failed = c.failed /\ d.lastSent = c.lastSent
  BY <1>2, <1>5 DEF CoreType
<1>7. Waits(d) = Waits(c) /\ Resumed(d) = Resumed(c)
  BY <1>6 DEF Waits, Resumed
<1>8. Leaving(d) \subseteq Leaving(c)
  <2>1. \A m \in Locks : locks[m] = IF m = l THEN "locked" ELSE c.lock[m]
    BY <1>2, <1>4 DEF CoreType
  <2> QED
    BY <1>6, <2>1 DEF Leaving
<1>9. MovedOn(c, l, woken)
  <2>1. WokenInv(c)
    BY <1>2 DEF Sound, Tidy
  <2> QED
    BY <1>2, <1>3, <2>1, FirstGoesOn
<1>10. WokenInv(d)
  BY <1>6, <1>7, <1>9 DEF WokenInv, MovedOn
<1>11. Tidy(d)
  BY <1>2, <1>6, <1>7, <1>10 DEF Sound, Tidy, QueueInv, WaitersInv, SeenInv, Apart, Queued
<1>12. Needed(d, doc) = Needed(c, doc)
  BY <1>6 DEF Needed
<1>13. \A a : Live(d, a) = Live(c, a) /\ Queued(d, a) = Queued(c, a)
  BY <1>6 DEF Live, Queued
<1>14. Covered(c) => Covered(d)
  <2>1. WaitCovers(c) => WaitCovers(d)
    BY <1>7, <1>13 DEF WaitCovers
  <2>2. ResumedCovers(c) => ResumedCovers(d)
    <3>1. \A a, b \in Resumed(c) : GoesBefore(c, b, a) => GoesBefore(d, b, a)
      BY <1>6, <1>9, LockAssumption DEF MovedOn, GoesBefore, Resumed
    <3> QED
      BY <1>7, <1>13, <3>1 DEF ResumedCovers
  <2>3. JobCovers(c) => JobCovers(d)
    BY <1>6, <1>7, <1>13 DEF JobCovers
  <2> QED
    BY <2>1, <2>2, <2>3 DEF Covered
<1>15. Sound(d, doc) /\ Running(d)
  BY <1>2, <1>6, <1>7, <1>11, <1>12, <1>14 DEF Sound, Running
<1>16. LeavingInv(d, doc)
  <2>1. IsIdle(d) = IsIdle(c)
    BY <1>6 DEF IsIdle
  <2> QED
    BY <1>2, <1>6, <1>7, <1>8, <1>12, <1>13, <2>1 DEF LeavingInv
<1>17. core' = d /\ UNCHANGED <<doc, edits, inits>>
  <2>1. PICK p : p = WentOn(c, l)
    OBVIOUS
  <2>2. p = [c EXCEPT !.woken = woken]
    BY <1>3, <2>1 DEF WentOn
  <2>3. p.lock = c.lock
    BY <1>2, <2>2 DEF CoreType
  <2>4. core' = [p EXCEPT !.paused = TRUE, !.lock = locks]
    BY <1>1, <1>4, <2>1, <2>3 DEF TakeLock, Pause
  <2> QED
    BY <1>5, <2>2, <2>4 DEF TakeLock
<1>18. TextInv'
  BY <1>1, <1>6, <1>17 DEF SInv, TextInv
<1> QED
  BY <1>15, <1>16, <1>17, <1>18, SInvHolds

-----------------------------------------------------------------------------
(* The notifications, the editor and the client *)

\* A lock moves on, away from "leaving".
LEMMA LockIsSound ==
    ASSUME NEW c \in CoreType, NEW text, Sound(c, text), Running(c), NEW l \in Locks,
           NEW now \in {"syncing", "resyncing"}, NEW d, d = [c EXCEPT !.lock[l] = now]
    PROVE  /\ Sound(d, text) /\ Running(d)
           /\ Resumed(d) = Resumed(c) /\ Leaving(d) = Leaving(c) \ {l}
           /\ d.at = c.at /\ d.version = c.version /\ IsIdle(d) = IsIdle(c)
           /\ d.lastSent = c.lastSent /\ Needed(d, text) = Needed(c, text)
<1>1. PICK locks : locks = [c.lock EXCEPT ![l] = now]
  OBVIOUS
<1>2. \A m \in Locks : locks[m] = IF m = l THEN now ELSE c.lock[m]
  BY <1>1 DEF CoreType
<1>3. PICK e : e = [c EXCEPT !.lock = locks]
  OBVIOUS
<1>4. /\ e.queue = c.queue /\ e.running = c.running /\ e.aborted = c.aborted
      /\ e.current = c.current /\ e.call = c.call /\ e.lock = locks /\ e.waiters = c.waiters
      /\ e.woken = c.woken /\ e.at = c.at /\ e.version = c.version /\ e.sent = c.sent
      /\ e.failed = c.failed /\ e.lastSent = c.lastSent
  BY <1>3 DEF CoreType
<1>5. Waits(e) = Waits(c) /\ Resumed(e) = Resumed(c)
  BY <1>4 DEF Waits, Resumed
<1>6. Leaving(e) = Leaving(c) \ {l}
  BY <1>2, <1>4 DEF Leaving
<1>7. Sound(e, text)
  BY <1>4, <1>5, SameIsSound DEF Same, SameQueue
<1>8. Running(e) /\ IsIdle(e) = IsIdle(c) /\ Needed(e, text) = Needed(c, text)
  BY <1>4, <1>5 DEF Running, IsIdle, Needed
<1>9. e = d
  BY <1>1, <1>3
<1> QED
  BY <1>4, <1>5, <1>6, <1>7, <1>8, <1>9

LEMMA TakenIsSound ==
    ASSUME NEW c \in CoreType, NEW text, Sound(c, text), Running(c),
           NEW d, d = [c EXCEPT !.lastSent = text]
    PROVE  Sound(d, text) /\ Running(d) /\ Leaving(d) = Leaving(c) /\ d.lastSent = text
<1>1. /\ d.queue = c.queue /\ d.running = c.running /\ d.aborted = c.aborted
      /\ d.current = c.current /\ d.call = c.call /\ d.lock = c.lock /\ d.waiters = c.waiters
      /\ d.woken = c.woken /\ d.at = c.at /\ d.version = c.version /\ d.sent = c.sent
      /\ d.failed = c.failed /\ d.lastSent = text
  BY DEF CoreType
<1>2. Waits(d) = Waits(c) /\ Resumed(d) = Resumed(c) /\ Leaving(d) = Leaving(c)
  BY <1>1 DEF Waits, Resumed, Leaving
<1> QED
  BY <1>1, <1>2, SameIsSound DEF Same, SameQueue, Running

LEMMA NotifiedIsSound == ASSUME IInv, SInv, Notified PROVE SInv'
<1>1. PICK c : c = core
  OBVIOUS
<1>2. /\ Good(c) /\ c \in CoreType /\ c.running.call # NoCall
      /\ Sound(c, doc) /\ Running(c) /\ Leaving(c) = {}
  BY <1>1, QuietIsCalm DEF IInv, SInv, Notified, Good, JobInv
<1>3. PICK e : e = [c EXCEPT !.lastSent = doc]
  OBVIOUS
<1>4. Good(e) /\ e \in CoreType /\ e.running = c.running
  BY <1>2, <1>3, TakenFollows, AroundKept DEF Follows, Good
<1>5. Sound(e, doc) /\ Leaving(e) = {} /\ e.lastSent = doc
  BY <1>2, <1>3, TakenIsSound
<1>6. PICK s : s = Fulfilled(e, {e.running.call})
  OBVIOUS
<1>7. Settled(e, s, {e.running.call})
  BY <1>4, <1>6, FulfilledSettles
<1>8. PICK d : d = NextJob(s)
  OBVIOUS
<1>9. Gone(e, d)
  BY <1>2, <1>4, <1>5, <1>7, <1>8, NextIsSound, AroundKept
<1>10. Sound(d, doc) /\ Running(d) /\ LeavingInv(d, doc) /\ d.lastSent = doc
  BY <1>5, <1>9, NobodyLeaves DEF Gone
<1>11. core' = d /\ UNCHANGED <<doc, edits, inits>>
  BY <1>1, <1>3, <1>4, <1>6, <1>8 DEF Notified
<1>12. TextInv'
  BY <1>10, <1>11 DEF SInv, TextInv, IInv, TypeOK
<1> QED
  BY <1>10, <1>11, <1>12, SInvHolds

LEMMA OrphanIsSound == ASSUME IInv, SInv, OrphanNotified PROVE SInv'
<1>1. PICK c, d : c = core /\ d = [c EXCEPT !.lastSent = doc]
  OBVIOUS
<1>2. c \in CoreType /\ Sound(c, doc) /\ Running(c) /\ Leaving(c) = {}
  BY <1>1, QuietIsCalm DEF IInv, SInv, OrphanNotified, Good
<1>3. Sound(d, doc) /\ Running(d) /\ LeavingInv(d, doc) /\ d.lastSent = doc
  BY <1>1, <1>2, TakenIsSound, NobodyLeaves
<1>4. core' = d /\ UNCHANGED <<doc, edits, inits>>
  BY <1>1 DEF OrphanNotified
<1>5. TextInv'
  BY <1>3, <1>4 DEF SInv, TextInv, IInv, TypeOK
<1> QED
  BY <1>3, <1>4, <1>5, SInvHolds

\* The new text is not the one sent last, so that the call goes on to send it.
LEMMA EditIsSound ==
    ASSUME ~Undo, ~Emptying, IInv, SInv, Edit PROVE SInv'
<1>1. PICK c, a, text : c = core /\ a = OnEdit(edits') /\ text = doc'
  OBVIOUS
<1>2. /\ Good(c) /\ edits' = edits + 1 /\ edits \in Nat /\ edits' \in 1 .. MaxEdits
      /\ text = edits' /\ doc = edits /\ c.lastSent \in 0 .. edits \cup {Empty}
  BY <1>1, BoundAssumption DEF IInv, TypeOK, Edit, SInv, TextInv
<1>3. a \in Calls /\ c.call[a] = "free"
  BY <1>1, <1>2, CallsDiffer DEF IInv, FutureInv
<1>4. c.lastSent # text
  BY <1>2, BoundAssumption DEF Empty
<1>5. Tidy(c) /\ Running(c) /\ Leaving(c) = {} /\ Calm(c, text)
  BY <1>1, QuietIsCalm DEF SInv, Sound, Edit
<1>6. Unsent(c, text) \/ ~Needed(c, text)
  BY <1>4 DEF Unsent, Needed
<1>7. PICK d : d = SyncIfUnsent(c, a, text)
  OBVIOUS
<1>8. Called(c, text, a, d)
  BY <1>2, <1>3, <1>5, <1>6, <1>7, SyncIsSound
<1>9. Sound(d, text) /\ Running(d) /\ LeavingInv(d, text) /\ d.lastSent = c.lastSent
  BY <1>5, <1>8, NobodyLeaves DEF Called
<1>10. core' = d /\ doc' = text /\ inits' = inits
  BY <1>1, <1>7 DEF Edit
<1>11. TextInv'
  BY <1>2, <1>9, <1>10 DEF TextInv
<1> QED
  BY <1>9, <1>10, <1>11, SInvHolds

\* The client's initialization sends the text.
LEMMA InitializeIsSound ==
    ASSUME SendDidOpen, IInv, SInv, Initialize PROVE SInv'
<1>1. PICK c, more : c = core /\ more = Opens
  OBVIOUS
<1>2. /\ c \in CoreType /\ more \in {1, 2} /\ c.version \in Nat
      /\ Tidy(c) /\ Running(c) /\ Leaving(c) = {}
  BY <1>1, QuietIsCalm DEF IInv, SInv, Sound, Good, CoreType, Opens, Initialize
<1>3. PICK version, sent, failed :
         /\ version = c.version + more
         /\ sent = IF more = 0 THEN c.sent ELSE [text |-> doc, version |-> c.version + more]
         /\ failed = (c.failed /\ ~SendDidOpen)
  OBVIOUS
<1>4. core' = [c EXCEPT !.version = version, !.sent = sent, !.failed = failed]
  BY <1>1, <1>3 DEF Initialize
<1>5. PICK d : d = [c EXCEPT !.version = version, !.sent = sent, !.failed = failed]
  OBVIOUS
<1>6. /\ d.queue = c.queue /\ d.running = c.running /\ d.aborted = c.aborted
      /\ d.current = c.current /\ d.call = c.call /\ d.lock = c.lock /\ d.waiters = c.waiters
      /\ d.woken = c.woken /\ d.at = c.at /\ d.version = version /\ d.sent = sent
      /\ d.lastSent = c.lastSent
  BY <1>2, <1>5 DEF CoreType
<1>7. Waits(d) = Waits(c) /\ Resumed(d) = Resumed(c) /\ Leaving(d) = Leaving(c)
  BY <1>6 DEF Waits, Resumed, Leaving
<1>8. SeenInv(d)
  <2>1. \A a \in Calls : c.at[a] \in Nat
    BY <1>2 DEF CoreType
  <2> QED
    BY <1>2, <1>3, <1>6, <2>1 DEF Tidy, SeenInv
<1>9. Tidy(d)
  BY <1>2, <1>6, <1>7, <1>8 DEF Tidy, QueueInv, WaitersInv, WokenInv, Apart, Queued
<1>10. core' = d /\ UNCHANGED <<doc, edits>>
  BY <1>4, <1>5 DEF Initialize
<1>11. ~Needed(core, doc)'
  <2>1. sent.text = doc
    BY <1>2, <1>3
  <2> QED
    BY <1>6, <1>10, <2>1 DEF Needed
<1>12. Sound(core, doc)' /\ Running(core)' /\ LeavingInv(core, doc)'
  BY <1>2, <1>6, <1>7, <1>9, <1>10, <1>11 DEF Sound, Running, LeavingInv
<1>13. TextInv'
  BY <1>1, <1>6, <1>10 DEF SInv, TextInv
<1> QED
  BY <1>12, <1>13 DEF SInv

-----------------------------------------------------------------------------
(* The locks *)

LEMMA BeginLockIsSound ==
    ASSUME IInv, SInv, NEW l \in Locks, BeginLock(l) PROVE SInv'
<1>1. PICK c : c = core
  OBVIOUS
<1>2. /\ Good(c) /\ c \in CoreType /\ c.lock[l] = "free"
      /\ Sound(c, doc) /\ Running(c) /\ Leaving(c) = {} /\ Resumed(c) = {}
  BY <1>1, QuietIsCalm DEF IInv, SInv, BeginLock, Good
<1>3. /\ c.call[Before(l)] = "free" /\ c.call[After(l)] = "free"
      /\ Before(l) \in Calls
  BY <1>2, CallsDiffer DEF Good, LockInv, Inside, Entering
<1>4. PICK locks : locks = [c.lock EXCEPT ![l] = "syncing"]
  OBVIOUS
<1>5. PICK d : d = [c EXCEPT !.lock = locks]
  OBVIOUS
<1>6. d \in CoreType
  BY <1>2, <1>4, <1>5 DEF CoreType
<1>7. /\ d.running = c.running /\ d.queue = c.queue /\ d.call = c.call /\ d.lock = locks
      /\ d.paused = c.paused /\ d.version = c.version /\ d.sent = c.sent
  BY <1>2, <1>5 DEF CoreType
<1>8. Good(d)
  <2>1. /\ "syncing" # "free" /\ "syncing" # "locked" /\ c.lock[l] \in Entering
        /\ c.lock[l] # "locked"
    BY <1>2 DEF Entering
  <2> QED
    BY <1>2, <1>3, <1>4, <1>6, <1>7, <2>1, LockIsGood
<1>9. /\ Sound(d, doc) /\ Running(d) /\ Resumed(d) = {} /\ Leaving(d) = {}
      /\ d.lastSent = c.lastSent
  <2>1. d = [c EXCEPT !.lock[l] = "syncing"]
    BY <1>4, <1>5
  <2> QED
    BY <1>2, <2>1, LockIsSound
<1>10. PICK e : e = SyncIfUnsent(d, Before(l), doc)
  OBVIOUS
<1>11. Called(d, doc, Before(l), e)
  BY <1>3, <1>7, <1>8, <1>9, <1>10, SyncIsSound DEF Calm, Sound
<1>12. Sound(e, doc) /\ Running(e) /\ LeavingInv(e, doc) /\ e.lastSent = c.lastSent
  BY <1>9, <1>11, NobodyLeaves DEF Called
<1>13. core' = e /\ UNCHANGED <<doc, edits, inits>>
  BY <1>1, <1>4, <1>5, <1>10 DEF BeginLock, Sync
<1>14. TextInv'
  BY <1>1, <1>12, <1>13 DEF SInv, TextInv
<1> QED
  BY <1>12, <1>13, <1>14, SInvHolds

\* The queue has been started when the finally clause calls syncChanges.
LEMMA LeaveIsSound ==
    ASSUME Outside, NEW c, Good(c), NEW l \in Locks, c.lock[l] \in {"locked", "leaving"},
           Sound(c, doc), Running(c), Calm(c, doc), Leaving(c) \subseteq {l}
    PROVE  LET d == Leave(c, l)
           IN  Sound(d, doc) /\ Running(d) /\ Leaving(d) = {} /\ d.lastSent = c.lastSent
<1>1. /\ c.call[Before(l)] \notin Busy /\ c.call[After(l)] = "free" /\ c.lock[l] \notin Entering
      /\ Before(l) \in Calls /\ After(l) \in Calls
  BY CallsDiffer DEF Good, LockInv, Inside, Entering
<1>2. PICK u, s : u = Unpaused(c) /\ s = Start(c)
  OBVIOUS
<1>3. /\ Follows(u, s, {}) /\ ~s.paused
      /\ Good(u) /\ u.call = c.call /\ u.lock = c.lock
  BY <1>2, StartFollows, UnpausedIsGood DEF Follows
<1>4. /\ Good(s) /\ s \in CoreType
      /\ s.call[Before(l)] \notin Busy /\ s.call[After(l)] = "free"
  BY <1>1, <1>3 DEF Follows, Good, Busy
<1>5. Tried(c, s)
  BY <1>2, StartIsSound
<1>6. PICK locks : locks = [s.lock EXCEPT ![l] = "resyncing"]
  OBVIOUS
<1>7. PICK d : d = [s EXCEPT !.lock = locks]
  OBVIOUS
<1>8. d \in CoreType
  BY <1>4, <1>6, <1>7 DEF CoreType
<1>9. /\ d.running = s.running /\ d.queue = s.queue /\ d.call = s.call /\ d.lock = locks
      /\ d.paused = s.paused /\ d.version = s.version /\ d.sent = s.sent
  BY <1>4, <1>6, <1>7 DEF CoreType
<1>10. Good(d)
  <2>1. "resyncing" # "free" /\ "resyncing" \notin Inside /\ "resyncing" \notin Entering
    BY DEF Inside, Entering
  <2> QED
    BY <1>3, <1>4, <1>6, <1>8, <1>9, <2>1, LockIsGood
<1>11. /\ Sound(d, doc) /\ Running(d)
       /\ Resumed(d) = Resumed(s) /\ Leaving(d) = Leaving(s) \ {l}
       /\ d.at = s.at /\ d.version = s.version /\ IsIdle(d) = IsIdle(s)
       /\ d.lastSent = s.lastSent /\ Needed(d, doc) = Needed(s, doc)
  <2>1. d = [s EXCEPT !.lock[l] = "resyncing"]
    BY <1>6, <1>7
  <2>2. Sound(s, doc) /\ Running(s)
    BY <1>5 DEF Tried
  <2> QED
    BY <1>4, <2>1, <2>2, LockIsSound
<1>12. Leaving(d) = {} /\ d.lastSent = c.lastSent
  BY <1>5, <1>11 DEF Tried
<1>13. Calm(d, doc)
  <2>1. Resumed(d) = Resumed(c)
    BY <1>5, <1>11 DEF Tried
  <2>2. IsIdle(c) => IsIdle(d)
    BY <1>5, <1>11 DEF Tried
  <2>3. Needed(d, doc) => Needed(c, doc) /\ \A b : Live(c, b) => Live(d, b)
    BY <1>5, <1>11 DEF Tried, Live
  <2> QED
    BY <2>1, <2>2, <2>3 DEF Calm
<1>14. PICK e : e = SyncIfUnsent(d, After(l), doc)
  OBVIOUS
<1>15. Called(d, doc, After(l), e)
  BY <1>1, <1>4, <1>9, <1>10, <1>11, <1>13, <1>14, SyncIsSound DEF Sound
<1>16. Leave(c, l) = e
  BY <1>2, <1>6, <1>7, <1>14 DEF Leave, Sync
<1> QED
  BY <1>12, <1>15, <1>16 DEF Called

LEMMA LockLeftIsSound ==
    ASSUME IInv, SInv, NEW l \in Locks, CallbackSettles(l) \/ LeaveLock(l) PROVE SInv'
<1>1. PICK c : c = core
  OBVIOUS
<1>2. /\ Good(c) /\ c.lock[l] \in {"locked", "leaving"}
      /\ Sound(c, doc) /\ Running(c) /\ LeavingInv(c, doc)
  BY <1>1 DEF IInv, SInv, CallbackSettles, LeaveLock
<1>3. Calm(c, doc) /\ Leaving(c) \subseteq {l}
  <2>1. CASE CallbackSettles(l)
    BY <1>1, <2>1, QuietIsCalm DEF CallbackSettles
  <2>2. CASE LeaveLock(l)
    <3>1. l \in Leaving(c)
      BY <1>1, <2>2 DEF LeaveLock, Leaving
    <3>2. \A a \in Resumed(c) : IsIdle(c) /\ (Needed(c, doc) => Live(c, a))
      BY <1>2, <3>1 DEF LeavingInv
    <3> QED
      BY <1>2, <3>1, <3>2 DEF LeavingInv, Calm
  <2> QED
    BY <2>1, <2>2
<1>4. PICK d : d = Leave(c, l)
  OBVIOUS
<1>5. Sound(d, doc) /\ Running(d) /\ Leaving(d) = {} /\ d.lastSent = c.lastSent
  BY <1>2, <1>3, <1>4, AroundKept, LeaveIsSound
<1>6. core' = d /\ UNCHANGED <<doc, edits, inits>>
  BY <1>1, <1>4 DEF CallbackSettles, LeaveLock
<1>7. TextInv'
  BY <1>1, <1>5, <1>6 DEF SInv, TextInv
<1> QED
  BY <1>5, <1>6, <1>7, NobodyLeaves, SInvHolds

LEMMA LockTimeoutIsSound ==
    ASSUME IInv, SInv, NEW l \in Locks, LockTimeout(l) PROVE SInv'
<1>1. PICK c : c = core
  OBVIOUS
<1>2. /\ Good(c) /\ c.lock[l] \notin Entering /\ c.call[OnTimeout(l)] = "free"
      /\ Sound(c, doc) /\ Running(c) /\ Leaving(c) = {} /\ Resumed(c) = {}
      /\ c.running.mode \notin {"stale", "aborted", "failed"}
  BY <1>1, QuietIsCalm DEF IInv, SInv, LockTimeout, FutureInv, Quiescent
<1>3. PICK u, s : u = Unpaused(c) /\ s = Start(c)
  OBVIOUS
<1>4. /\ Follows(u, s, {})
      /\ Good(u) /\ u.call = c.call /\ u.lock = c.lock
  BY <1>2, <1>3, AroundKept, StartFollows, UnpausedIsGood DEF Follows
<1>5. Good(s) /\ s.call[OnTimeout(l)] = "free" /\ OnTimeout(l) \in Calls
  BY <1>2, <1>4, CallsDiffer DEF Follows, Busy
<1>6. Tried(c, s)
  BY <1>2, <1>3, AroundKept, StartIsSound
<1>7. Resumed(s) = {} /\ Leaving(s) = {} /\ Sound(s, doc) /\ Running(s)
  BY <1>2, <1>6 DEF Tried
<1>8. PICK d : d = SyncIfUnsent(s, OnTimeout(l), doc)
  OBVIOUS
<1>9. Called(s, doc, OnTimeout(l), d)
  BY <1>5, <1>7, <1>8, SyncIsSound DEF Calm, Sound
<1>10. d \in CoreType
  <2>1. Awaited(s, {OnTimeout(l)})
    BY <1>2, <1>4, CallsDiffer DEF Awaited, Follows
  <2> QED
    BY <1>5, <1>8, <2>1, SyncFollows DEF Follows, Good
<1>11. PICK now : now = IF d.lock[l] = "locked" THEN "leaving" ELSE d.lock[l]
  OBVIOUS
<1>12. PICK locks : locks = [d.lock EXCEPT ![l] = now]
  OBVIOUS
<1>13. PICK e : e = [d EXCEPT !.lock = locks]
  OBVIOUS
<1>14. /\ e.queue = d.queue /\ e.running = d.running /\ e.aborted = d.aborted
       /\ e.current = d.current /\ e.call = d.call /\ e.lock = locks /\ e.waiters = d.waiters
       /\ e.woken = d.woken /\ e.at = d.at /\ e.version = d.version /\ e.sent = d.sent
       /\ e.failed = d.failed /\ e.lastSent = d.lastSent
  BY <1>10, <1>13 DEF CoreType
<1>15. Waits(e) = Waits(d) /\ Resumed(e) = Resumed(d)
  BY <1>14 DEF Waits, Resumed
<1>16. Leaving(e) \subseteq {l}
  <2>1. \A m \in Locks : locks[m] = IF m = l THEN now ELSE d.lock[m]
    BY <1>10, <1>12 DEF CoreType
  <2>2. Leaving(d) = {}
    BY <1>7, <1>9 DEF Called
  <2> QED
    BY <1>14, <2>1, <2>2 DEF Leaving
<1>17. Sound(e, doc)
  BY <1>9, <1>14, <1>15, SameIsSound DEF Called, Same, SameQueue
<1>18. Running(e)
  BY <1>9, <1>14, <1>15 DEF Called, Running
<1>19. \A a \in Resumed(e) : a = OnTimeout(l) /\ IsIdle(e)
  BY <1>7, <1>9, <1>14, <1>15 DEF Called, IsIdle
<1>20. \A a \in Waits(e) : a = OnTimeout(l) \/ e.running.mode = "notify"
  <2> SUFFICES ASSUME NEW a \in Waits(e), a # OnTimeout(l) PROVE e.running.mode = "notify"
    OBVIOUS
  <2>1. a \in Waits(c)
    BY <1>6, <1>9, <1>15 DEF Called, Tried
  <2>2. c.running # NoJob
    BY <1>2, <2>1 DEF Running
  <2>3. e.running = c.running
    BY <1>6, <1>9, <1>14, <2>2 DEF Called, Tried
  <2>4. c.running \in [call : Calls \cup {NoCall},
                       mode : {"none", "notify", "stale", "aborted", "failed"}]
    BY <1>2 DEF Good, CoreType
  <2>5. c.running.mode # "none"
    BY <1>2, <2>2, <2>4 DEF Good, JobInv, NoJob
  <2> QED
    BY <1>2, <2>3, <2>4, <2>5
<1>21. OnTimeout(l) \in Waits(e) \cup Resumed(e) => Live(e, OnTimeout(l))
  BY <1>9, <1>14, <1>15 DEF Called, Live
<1>22. LeavingInv(e, doc)
  BY <1>16, <1>19, <1>20, <1>21 DEF LeavingInv
<1>23. core' = e /\ UNCHANGED <<doc, edits, inits>>
  BY <1>1, <1>3, <1>8, <1>11, <1>12, <1>13 DEF LockTimeout, RejectRace, Sync
<1>24. TextInv'
  <2>1. e.lastSent = c.lastSent
    BY <1>6, <1>9, <1>14 DEF Called, Tried
  <2> QED
    BY <1>1, <1>23, <2>1 DEF SInv, TextInv
<1> QED
  BY <1>17, <1>18, <1>22, <1>23, <1>24, SInvHolds

-----------------------------------------------------------------------------
(* The theorem *)

LEMMA SInvInit == ASSUME Init PROVE SInv
<1>1. /\ core.queue = << >> /\ core.aborted = {} /\ core.waiters = << >> /\ core.woken = << >>
      /\ core.call = [a \in Calls |-> "free"] /\ core.lock = [l \in Locks |-> "free"]
      /\ core.at = [a \in Calls |-> 0] /\ core.version = 0 /\ core.lastSent = Empty
  BY DEF Init
<1>2. Waits(core) = {} /\ Resumed(core) = {} /\ Leaving(core) = {}
  BY <1>1 DEF Waits, Resumed, Leaving
<1>3. QueueInv(core)
  BY <1>1 DEF QueueInv, Queued
<1>4. WaitersInv(core) /\ WokenInv(core)
  BY <1>1, <1>2 DEF WaitersInv, WokenInv
<1>5. SeenInv(core) /\ Apart(core) /\ Running(core)
  BY <1>1, <1>2 DEF SeenInv, Apart, Running
<1>6. ~Needed(core, doc)
  BY DEF Init, Needed, Ready
<1>7. LeavingInv(core, doc)
  BY <1>2, NobodyLeaves
<1>8. TextInv
  BY DEF Init, TextInv
<1> QED
  BY <1>3, <1>4, <1>5, <1>6, <1>7, <1>8 DEF SInv, Sound, Tidy

LEMMA StepIsSound ==
    ASSUME SendDidOpen, ~Undo, ~Emptying, IInv, SInv, [Next]_vars PROVE SInv'
<1>1. ASSUME NEW a \in Calls, AddJob(a) PROVE SInv'
  BY <1>1, AddJobIsSound
<1>2. CASE JobOver
  BY <1>2, JobOverIsSound
<1>3. ASSUME NEW l \in Locks, AwaitIdle(l) PROVE SInv'
  BY <1>3, AwaitIdleIsSound
<1>4. ASSUME NEW l \in Locks, TakeLock(l) PROVE SInv'
  BY <1>4, TakeLockIsSound
<1>5. ASSUME NEW l \in Locks, LeaveLock(l) \/ CallbackSettles(l) PROVE SInv'
  BY <1>5, LockLeftIsSound
<1>6. CASE Notified
  BY <1>6, NotifiedIsSound
<1>7. CASE OrphanNotified
  BY <1>7, OrphanIsSound
<1>8. CASE Edit
  BY <1>8, EditIsSound
<1>9. CASE Initialize
  BY <1>9, InitializeIsSound
<1>10. CASE Disconnect \/ ChangeTransport \/ Destroy \/ UNCHANGED vars
  <2>1. UNCHANGED <<core, doc, edits, inits>>
    BY <1>10 DEF Disconnect, ChangeTransport, Destroy, vars
  <2>2. TextInv'
    BY <2>1 DEF SInv, TextInv
  <2> QED
    BY <2>1, <2>2, SInvHolds DEF SInv
<1>11. ASSUME NEW l \in Locks, BeginLock(l) PROVE SInv'
  BY <1>11, BeginLockIsSound
<1>12. ASSUME NEW l \in Locks, LockTimeout(l) PROVE SInv'
  BY <1>12, LockTimeoutIsSound
<1> QED
  BY <1>1, <1>2, <1>3, <1>4, <1>5, <1>6, <1>7, <1>8, <1>9, <1>10, <1>11, <1>12
  DEF Next, Microtask

LEMMA SoundIsSynced == SInv => SyncedWhenIdle
<1> SUFFICES ASSUME SInv, Quiescent, Needed(core, doc), IsIdle(core) PROVE FALSE
  BY DEF SyncedWhenIdle, AtRest, Needed
<1>1. core.running = NoJob /\ core.queue = << >>
  BY DEF IsIdle
<1>2. Waits(core) = {} /\ Resumed(core) = {}
  BY <1>1, QuietIsCalm DEF SInv, Running
<1>3. \A a : ~Queued(core, a)
  BY <1>1 DEF Queued
<1> QED
  BY <1>2, <1>3 DEF SInv, Sound, Covered, WaitCovers, ResumedCovers, JobCovers

\* When no job is left, the server has the editor's text, for any number of locks,
\* edits and initializations of a plugin that sends didOpen, when no edit brings an
\* earlier text back: whatever calls of syncChanges clear and abort each other's
\* jobs, and although the text of a later moment is taken for the one sent
\* (LSPlugin.ts:167-199).
THEOREM NothingUnsentWhenIdle ==
    ASSUME SendDidOpen, ~Undo, ~Emptying PROVE Spec => []SyncedWhenIdle
<1>1. Init => SInv
  BY SInvInit
<1>2. IInv /\ SInv /\ [Next]_vars => SInv'
  BY StepIsSound
<1> QED
  BY <1>1, <1>2, SoundIsSynced, InductiveInvariant, PTL DEF Spec

-----------------------------------------------------------------------------
(* The plugin mirrors the document *)

\* A call of syncChanges that no doWithLock awaits leaves the locks alone, and sends
\* nothing yet.
LEMMA SyncSendsNothing ==
    ASSUME NEW c, c \in CoreType, NEW a, NEW text, NEW d, d = SyncIfUnsent(c, a, text),
           \A l \in Locks : a # Before(l) /\ a # After(l)
    PROVE  d.version = c.version /\ d.sent = c.sent /\ d.lock = c.lock
<1>1. CASE ~Unsent(c, text)
  <2>1. d = Fulfilled(c, {a})
    BY <1>1 DEF SyncIfUnsent
  <2>2. PICK calls, locks :
          /\ locks = [l \in Locks |-> CASE Before(l) \in {a} -> "synced"
                                       [] After(l) \in {a} -> "over"
                                       [] OTHER -> c.lock[l]]
          /\ d = [c EXCEPT !.call = calls, !.lock = locks]
    BY <2>1 DEF Fulfilled
  <2>3. d.version = c.version /\ d.sent = c.sent /\ d.lock = locks
    BY <2>2 DEF CoreType
  <2>4. locks = c.lock
    <3>1. c.lock = [l \in Locks |-> c.lock[l]]
      BY DEF CoreType
    <3>2. \A l \in Locks : locks[l] = c.lock[l]
      BY <2>2
    <3> QED
      BY <2>2, <3>1, <3>2
  <2> QED
    BY <2>3, <2>4
<1>2. CASE Unsent(c, text)
  <2>1. PICK at : at = [c.at EXCEPT ![a] = c.version]
    OBVIOUS
  <2>2. PICK b : b = [c EXCEPT !.at = at]
    OBVIOUS
  <2>3. b.version = c.version /\ b.sent = c.sent /\ b.lock = c.lock /\ DOMAIN b = DOMAIN c
    BY <2>2 DEF CoreType
  <2>4. PICK e : e = Clear(b)
    OBVIOUS
  <2>5. PICK calls : e = [b EXCEPT !.queue = << >>, !.aborted = {}, !.call = calls]
    BY <2>4 DEF Clear
  <2>6. e.version = c.version /\ e.sent = c.sent /\ e.lock = c.lock
    BY <2>2, <2>3, <2>5 DEF CoreType
  <2>7. \/ d = [e EXCEPT !.call[a] = "resumed"]
        \/ d = [e EXCEPT !.call[a] = "waiting", !.waiters = Append(@, a)]
    BY <1>2, <2>1, <2>2, <2>4 DEF SyncIfUnsent
  <2>8. d.version = e.version /\ d.sent = e.sent /\ d.lock = e.lock
    BY <2>2, <2>5, <2>7 DEF CoreType
  <2> QED
    BY <2>6, <2>8
<1> QED
  BY <1>1, <1>2

LEMMA EditWrites == ASSUME IInv, Edit, Document!Truthful PROVE Document!Write
<1>1. PICK c, a : c = core /\ a = OnEdit(edits')
  OBVIOUS
<1>2. c \in CoreType
  BY <1>1 DEF IInv, TypeOK
<1>3. core' = SyncIfUnsent(c, a, doc')
  BY <1>1 DEF Edit
<1>4. \A l \in Locks : a # Before(l) /\ a # After(l)
  <2>1. edits' \in 1 .. MaxEdits
    BY BoundAssumption DEF Edit, IInv, TypeOK
  <2> QED
    BY <1>1, <2>1, CallsDiffer
<1>5. core'.version = c.version /\ core'.sent = c.sent /\ core'.lock = c.lock
  BY <1>2, <1>3, <1>4, SyncSendsNothing
<1>6. Held' = Held
  BY <1>1, <1>5 DEF Held
<1>7. doc' # doc /\ doc' \in Texts /\ opens' = opens
  <2>1. IInv'
    BY EditIsRight
  <2> QED
    BY <2>1 DEF Edit, IInv, TypeOK
<1> QED
  BY <1>1, <1>5, <1>6, <1>7 DEF Document!Write

\* The didOpens of an initialization, if there are any.
LEMMA InitializeOpens ==
    ASSUME IInv, Initialize, Document!Truthful PROVE Document!Open \/ Document!HoldOrSettle
<1>1. PICK c, more : c = core /\ more = Opens
  OBVIOUS
<1>2. c \in CoreType /\ c.version \in Nat /\ more \in {0, 1, 2} /\ doc' = doc
  BY <1>1 DEF IInv, TypeOK, CoreType, Opens, Initialize
<1>3. PICK sent, failed :
        /\ sent = IF more = 0 THEN c.sent ELSE [text |-> doc, version |-> c.version + more]
        /\ core' = [c EXCEPT !.version = c.version + more, !.sent = sent, !.failed = failed]
  BY <1>1 DEF Initialize
<1>4. core'.version = c.version + more /\ core'.sent = sent /\ core'.lock = c.lock
  BY <1>2, <1>3 DEF CoreType
<1>5. Held' = Held /\ Held' \in BOOLEAN
  BY <1>1, <1>4 DEF Held
<1>6. CASE more = 0
  <2>1. opens' = opens
    BY <1>1, <1>6 DEF Initialize, IInv, TypeOK
  <2> QED
    BY <1>1, <1>2, <1>3, <1>4, <1>5, <1>6, <2>1 DEF Document!HoldOrSettle
<1>7. CASE more # 0
  <2>1. c.version + more \in Nat /\ c.version + more \in c.version + 1 .. c.version + more
    BY <1>2, <1>7
  <2>2. opens' = opens + more /\ opens \in Nat
    BY <1>1 DEF Initialize, IInv, TypeOK
  <2>3. opens' \in Nat /\ opens' > opens
    BY <1>2, <1>7, <2>2
  <2> QED
    BY <1>1, <1>2, <1>3, <1>4, <1>5, <1>7, <2>1, <2>3 DEF Document!Open, Document!Copy
<1> QED
  BY <1>6, <1>7

\* A step of the queue: it sends only if the lock is not held all the while.
LEMMA QueueCopies ==
    ASSUME IInv, IInv', CopyStep, UNCHANGED <<doc, opens>>,
           core'.sent # core.sent => ~(Held /\ Held')
    PROVE  Document!Change \/ Document!Fail \/ Document!HoldOrSettle
<1>1. /\ core.version \in Nat /\ core'.version \in Nat /\ core.version <= core'.version
      /\ core'.sent \in [text : Texts, version : Nat]
  BY DEF IInv, TypeOK, CoreType, CopyStep
<1>2. Held \in BOOLEAN /\ Held' \in BOOLEAN
  BY DEF Held
<1>3. CASE core'.sent # core.sent
  <2>1. core'.sent.text = doc /\ core'.sent.version \in core.version + 1 .. core'.version
    BY <1>3 DEF CopyStep
  <2>2. core'.sent = [text |-> doc, version |-> core'.sent.version]
    BY <1>1, <2>1
  <2> QED
    BY <1>1, <1>2, <1>3, <2>1, <2>2 DEF Document!Change, Document!Copy
<1>4. CASE core'.sent = core.sent /\ core'.version # core.version
  BY <1>1, <1>2, <1>4 DEF Document!Fail
<1>5. CASE core'.sent = core.sent /\ core'.version = core.version
  BY <1>2, <1>5 DEF Document!HoldOrSettle
<1> QED
  BY <1>3, <1>4, <1>5

\* Only edits change the text, and only initializations open the document.
LEMMA OthersLeaveText ==
    ASSUME [Next]_vars, ~Edit, ~Initialize PROVE doc' = doc /\ opens' = opens
BY DEF Next, Microtask, AddJob, JobOver, AwaitIdle, TakeLock, LeaveLock, Notified, OrphanNotified,
       Disconnect, ChangeTransport, Destroy, BeginLock, CallbackSettles, LockTimeout, vars

LEMMA StepMirrors ==
    ASSUME \A l, m \in Locks : l = m,
           IInv, IInv', HeldInv, HeldInv', SInv', [Next]_vars
    PROVE  [Document!Next]_Document!vars
<1>1. RightStep
  BY StepIsRight
<1>2. Document!Truthful
  <2>1. (SInv => SyncedWhenIdle)'
    BY SoundIsSynced, PTL
  <2> QED
    BY <2>1 DEF SyncedWhenIdle, AtRest, Document!Truthful
<1>3. CASE Edit
  BY <1>2, <1>3, EditWrites DEF Document!Next
<1>4. CASE Initialize
  BY <1>2, <1>4, InitializeOpens DEF Document!Next
<1>5. CASE ~Edit /\ ~Initialize
  <2>1. doc' = doc /\ opens' = opens
    BY <1>5, OthersLeaveText
  <2>2. ASSUME Held, Held' PROVE core'.sent = core.sent
    BY <1>1, <2>1, <2>2 DEF Held, HeldInv, RightStep, HoldStep
  <2>3. core'.sent # core.sent => ~(Held /\ Held')
    BY <2>2
  <2>4. CopyStep
    BY <1>1 DEF RightStep
  <2>5. Document!Change \/ Document!Fail \/ Document!HoldOrSettle
    BY <2>1, <2>3, <2>4, QueueCopies
  <2> QED
    BY <1>2, <2>5 DEF Document!Next
<1> QED
  BY <1>3, <1>4, <1>5

\* One doWithLock at a time, a plugin that sends didOpen, and edits that never bring
\* an earlier text back: then the server's text is a mirror of the editor's. What is
\* sent is the text of that moment under a new version, nothing but a didOpen is sent
\* while the lock is held, and when no job is left the two are the same
\* (LSPlugin.ts:77-83, 118-199).
THEOREM DocumentIsMirrored ==
    ASSUME SendDidOpen, ~Undo, ~Emptying, \A l, m \in Locks : l = m
    PROVE  Spec => Mirrored
<1>1. Init => SInv /\ HeldInv
  <2>1. Init => HeldInv
    BY DEF Init, HeldInv
  <2> QED
    BY <2>1, SInvInit
<1>2. IInv /\ SInv /\ HeldInv /\ [Next]_vars => SInv' /\ HeldInv'
  BY StepIsRight, StepIsSound DEF RightStep, HoldStep, HeldInv
<1>3. Init => Document!Init
  <2> SUFFICES ASSUME Init PROVE Document!Init
    OBVIOUS
  <2>1. Held = FALSE
    BY DEF Init, Held
  <2>2. ~Ready
    BY DEF Init, Ready
  <2>3. AtRest = FALSE
    BY <2>2 DEF AtRest
  <2>4. core.version = 0 /\ core.sent = [text |-> Empty, version |-> 0]
    BY DEF Init
  <2>5. doc = 0 /\ opens = 0
    BY DEF Init
  <2> QED
    BY <2>1, <2>3, <2>4, <2>5 DEF Document!Init
<1>4. IInv /\ IInv' /\ HeldInv /\ HeldInv' /\ SInv' /\ [Next]_vars => [Document!Next]_Document!vars
  BY StepMirrors
<1> QED
  BY <1>1, <1>2, <1>3, <1>4, InductiveInvariant, PTL DEF Spec, Mirrored, Document!Spec
=============================================================================
