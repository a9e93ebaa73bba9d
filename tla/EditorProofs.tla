---------------------------- MODULE EditorProofs ----------------------------
(***************************************************************************)
(* Theorems about Editor, for any set-ups, bounds and documents: which     *)
(* request may change the tooltip, in which order hints are shown, that    *)
(* nothing selects what is not in the document, where the tooltip is,      *)
(* what is held by whom, in which order completions are, and that an       *)
(* item's additional edits, made one after another, give what they would   *)
(* at once.  The first two rest on nothing that the other extensions do    *)
(* with document, selection and lock: lemma Parts says what every step is  *)
(* for each of them.  The others rest on what changes of a document, and   *)
(* positions in it, are, and on what a stable sort does to the places of   *)
(* a list.                                                                 *)
(***************************************************************************)
EXTENDS Editor, SequenceTheorems, WellFoundedInduction, FiniteSetTheorems, TLAPS

-----------------------------------------------------------------------------
(* The parts of a step *)

\* What a step may be for signature help.
SignaturePart ==
    \/ UNCHANGED signatureVars
    \/ \E tr : SignatureUpdate(tr)
    \/ \E n \in Requests : SignatureLocks(n)
    \/ SignatureStep

\* What it may be for the inlay hints.
HintsPart ==
    \/ UNCHANGED hintVars
    \/ \E tr : InlayHintsUpdate(tr)
    \/ InlayHintsStep

\* The language server is sent the document as it is after the step, or nothing.
SentPart ==
    /\ edits' \in {edits, edits + 1}
    /\ sent' \in {sent, edits'}

Parts == SignaturePart /\ HintsPart /\ SentPart

LEMMA DispatchParts ==
    ASSUME NEW tr, Dispatch(tr)
    PROVE  SignaturePart /\ HintsPart /\ edits' \in {edits, edits + 1}
BY DEF Dispatch, SignaturePart, HintsPart, ViewUpdate

LEMMA NothingParts ==
    ASSUME DispatchNothing PROVE SignaturePart /\ HintsPart /\ edits' = edits
BY DEF DispatchNothing, ViewKept, pluginVars, SignaturePart, HintsPart

LEMMA LockParts ==
    ASSUME LockKept \/ (\E w : LockAwaited(w)) \/ LockTaken \/ LockLeft \/ LockRetaken
    PROVE  sent' \in {sent, edits'}
BY DEF LockKept, LockAwaited, LockTaken, LockLeft, LockRetaken, SyncChanges, Started, Sends, syncVars

LEMMA UserParts ==
    ASSUME Type \/ Delete \/ Move \/ Foreign PROVE Parts
<1>1. PICK tr : User(tr)
  BY DEF Type, Delete, Move, Foreign
<1> QED
  BY <1>1, DispatchParts, LockParts DEF User, Parts, SentPart

LEMMA SignatureStepParts ==
    ASSUME SignatureStep \/ \E n \in Requests : SignatureLocks(n), UNCHANGED hintVars PROVE Parts
<1>1. SignaturePart /\ HintsPart
  BY DEF SignaturePart, HintsPart
<1>2. ViewKept /\ (LockKept \/ (\E w : LockAwaited(w)) \/ LockTaken \/ LockLeft \/ LockRetaken)
  BY DEF SignatureStep, DelayedRequest, SignatureDelay, Ask, SignatureLocks, SignatureAnswer,
         SignatureFails
<1> QED
  BY <1>1, <1>2, LockParts DEF Parts, SentPart, ViewKept

LEMMA HintsStepParts ==
    ASSUME InlayHintsStep, UNCHANGED signatureVars PROVE Parts
<1>1. SignaturePart /\ HintsPart
  BY DEF SignaturePart, HintsPart
<1>2. ViewKept /\ LockKept
  BY DEF InlayHintsStep, HintsRefresh, HintsRequest, HintsAnswer
<1> QED
  BY <1>1, <1>2, LockParts DEF Parts, SentPart, ViewKept

LEMMA CompletionStepParts ==
    ASSUME CompletionStep \/ CompletionLocks, UNCHANGED <<signatureVars, hintVars>> PROVE Parts
<1>1. SignaturePart /\ HintsPart
  BY DEF SignaturePart, HintsPart
<1>2. ViewKept /\ (LockKept \/ (\E w : LockAwaited(w)) \/ LockTaken \/ LockLeft)
  BY DEF CompletionStep, Complete, CompletionLocks, CompletionAnswer, CompletionFails
<1> QED
  BY <1>1, <1>2, LockParts DEF Parts, SentPart, ViewKept

\* A command either dispatches a transaction or nothing.
LEMMA CommandParts ==
    ASSUME (\E tr : Dispatch(tr)) \/ DispatchNothing,
           LockKept \/ (\E w : LockAwaited(w)) \/ LockTaken \/ LockLeft \/ LockRetaken
    PROVE  Parts
BY DispatchParts, NothingParts, LockParts DEF Parts, SentPart

LEMMA AcceptParts == ASSUME AcceptAny \/ AcceptNext PROVE Parts
<1>1. CASE AcceptAny
  BY <1>1, CommandParts DEF AcceptAny, Accept
<1>2. CASE AcceptNext
  BY <1>2, CommandParts DEF AcceptNext
<1> QED
  BY <1>1, <1>2

LEMMA FindParts ==
    ASSUME NEW pos, NEW goes, FindReferences(pos, goes)
    PROVE  LockKept \/ (\E w : LockAwaited(w)) \/ LockTaken
BY DEF FindReferences

LEMMA ReferencesParts ==
    ASSUME ReferencesStep \/ \E n \in Finds : FindLocks(n) PROVE Parts
<1>1. CASE Shortcut \/ ModClick
  BY <1>1, FindParts, CommandParts DEF Shortcut, ModClick
<1>2. CASE ClosePanel \/ GoToReference
  BY <1>2, CommandParts DEF ClosePanel, GoToReference
<1>3. CASE \E n \in Finds : FindAnswer(n) \/ FindFails(n) \/ FindLocks(n)
  BY <1>3, CommandParts DEF FindAnswer, FindFails, FindLocks
<1> QED
  BY <1>1, <1>2, <1>3 DEF ReferencesStep

LEMMA RenamesParts == ASSUME RenamesStep PROVE Parts
<1>1. CASE RenameKey \/ Dismiss \/ CompleteRename
  BY <1>1, CommandParts DEF RenameKey, Prepare, Dismiss, CompleteRename
<1>2. CASE PrepareAnswer
  BY <1>2, CommandParts DEF PrepareAnswer, OpenDialog
<1>3. CASE RenameAnswer
  BY <1>3, CommandParts DEF RenameAnswer
<1> QED
  BY <1>1, <1>2, <1>3 DEF RenamesStep

LEMMA MenuParts == ASSUME ContextMenuStep PROVE Parts
<1>1. CASE RightClick \/ DismissMenu
  BY <1>1, CommandParts DEF RightClick, DismissMenu
<1>2. CASE MenuReferences
  BY <1>2, FindParts, CommandParts DEF MenuReferences
<1>3. CASE MenuRename
  BY <1>3, CommandParts DEF MenuRename, Prepare
<1> QED
  BY <1>1, <1>2, <1>3 DEF ContextMenuStep

LEMMA StepParts == [Next]_vars => Parts
<1>1. CASE UNCHANGED vars
  BY <1>1 DEF vars, viewVars, pluginVars, Parts, SignaturePart, HintsPart, SentPart
<1>2. CASE Continuation
  BY <1>2, SignatureStepParts, CompletionStepParts, ReferencesParts, AcceptParts DEF Continuation
<1>3. CASE Event
  BY <1>3, UserParts, SignatureStepParts, HintsStepParts, CompletionStepParts, AcceptParts,
     ReferencesParts, RenamesParts, MenuParts DEF Event
<1> QED
  BY <1>1, <1>2, <1>3 DEF Next

-----------------------------------------------------------------------------
(* Signature help *)

IsRequest(r) ==
    r = [stage |-> r.stage, head |-> r.head, pos |-> r.pos, drop |-> r.drop,
         attempts |-> r.attempts, anchor |-> r.anchor]

IsTooltip(t) == t = [by |-> t.by, data |-> t.data, pos |-> t.pos, anchor |-> t.anchor]

\* Who has not been dropped is the last request, and active, and no selection came after it.
Live(r, n) == r.stage # "none" /\ ~r.drop => n = started /\ active = n /\ moved < n

SignatureInv ==
    /\ started \in Nat /\ moved \in Nat /\ moved <= started
    /\ request = [n \in Requests |-> request[n]]
    /\ IsTooltip(tooltip)
    /\ \A n \in Requests : /\ IsRequest(request[n])
                           /\ request[n].stage # "none" => n <= started
                           /\ Live(request[n], n)

\* What LatestSignature says of a step.
ByLatest ==
    <<tooltip'.by, tooltip'.data>> # <<tooltip.by, tooltip.data>> =>
        tooltip'.by = started /\ moved < started

LEMMA InitSignature == Init => SignatureInv
<1> SUFFICES ASSUME SignatureInit PROVE SignatureInv
  BY DEF Init
<1>1. started = 0 /\ moved = 0 /\ request = [n \in Requests |-> NoRequest]
  BY DEF SignatureInit
<1>2. IsTooltip(tooltip)
  BY DEF SignatureInit, NoTooltip, IsTooltip
<1>3. \A n \in Requests : request[n] = NoRequest
  BY <1>1
<1>4. IsRequest(NoRequest) /\ NoRequest.stage = "none"
  BY DEF NoRequest, IsRequest
<1>5. request = [n \in Requests |-> request[n]]
  BY <1>1
<1> QED
  BY <1>1, <1>2, <1>3, <1>4, <1>5 DEF SignatureInv, Live

\* startRequest, with requests of which none is live but the current one.
LEMMA StartKeeps ==
    ASSUME SignatureInv, NEW requests, NEW current, NEW doc, NEW head,
           StartRequest(requests, current, doc, head),
           requests = [n \in Requests |-> requests[n]],
           \A n \in Requests : /\ IsRequest(requests[n])
                               /\ requests[n].stage = request[n].stage
                               /\ requests[n].stage # "none" /\ ~requests[n].drop => n = current,
           moved' \in Nat, moved' <= started, IsTooltip(tooltip)'
    PROVE  SignatureInv'
<1>1. started' = started + 1 /\ active' = started' /\ started' \in Nat
  BY DEF StartRequest, SignatureInv
<1>2. ASSUME NEW n \in Requests
      PROVE  /\ IsRequest(request'[n])
             /\ request'[n].stage # "none" => n <= started'
             /\ request'[n].stage # "none" /\ ~request'[n].drop => n = started' /\ moved' < n
  <2>1. n \in Nat
    BY DEF Requests
  <2>2. CASE n = started'
    <3>1. PICK anchor : request'[n] = [NoRequest EXCEPT !.stage = "delay", !.head = head,
                                                        !.pos = head, !.anchor = anchor]
      BY <2>2 DEF StartRequest
    <3>2. IsRequest(request'[n])
      BY <3>1 DEF NoRequest, IsRequest
    <3> QED
      BY <1>1, <2>1, <2>2, <3>2 DEF SignatureInv
  <2>3. CASE n # started' /\ n = current
    <3>1. request'[n] = [requests[n] EXCEPT !.drop = TRUE]
      BY <2>3 DEF StartRequest, Superseded
    <3>2. /\ IsRequest(request'[n]) /\ request'[n].drop = TRUE
          /\ request'[n].stage = request[n].stage
      BY <3>1 DEF IsRequest
    <3> QED
      BY <1>1, <2>1, <3>2 DEF SignatureInv
  <2>4. CASE n # started' /\ n # current
    <3>1. request'[n] = requests[n]
      BY <2>4 DEF StartRequest
    <3> QED
      BY <1>1, <2>1, <2>4, <3>1 DEF SignatureInv
  <2> QED
    BY <2>2, <2>3, <2>4
<1>3. request' = [n \in Requests |-> request'[n]]
  BY DEF StartRequest
<1> QED
  BY <1>1, <1>2, <1>3 DEF SignatureInv, Live

LEMMA UpdateKeeps ==
    ASSUME SignatureInv, NEW tr, SignatureUpdate(tr) PROVE SignatureInv' /\ ByLatest
<1>1. CASE UNCHANGED signatureVars
  BY <1>1 DEF signatureVars, SignatureInv, Live, ByLatest
<1>2. CASE ~UNCHANGED signatureVars
  <2> DEFINE current == IF SelectionSet(tr) THEN 0 ELSE active
  <2>1. /\ tooltip' = TooltipMapped(tr)
        /\ moved' = IF SelectionSet(tr) THEN started ELSE moved
        /\ \/ StartRequest(Updated(tr), current, text', selection'[2])
           \/ request' = Updated(tr) /\ active' = current /\ started' = started
    BY <1>2 DEF SignatureUpdate
  <2>2. IsTooltip(tooltip)' /\ ByLatest
    BY <2>1 DEF TooltipMapped, SignatureInv, IsTooltip, ByLatest
  <2>3. moved' \in Nat /\ moved' <= started
    BY <2>1 DEF SignatureInv
  <2>4. Updated(tr) = [n \in Requests |-> Updated(tr)[n]]
    BY DEF Updated
  <2>5. ASSUME NEW n \in Requests
        PROVE  /\ IsRequest(Updated(tr)[n])
               /\ Updated(tr)[n].stage = request[n].stage
               /\ Updated(tr)[n].stage # "none" /\ ~Updated(tr)[n].drop =>
                      n = active /\ ~SelectionSet(tr) /\ ~request[n].drop
    <3>1. IsRequest(request[n]) /\ Live(request[n], n)
      BY DEF SignatureInv
    <3>2. CASE n = active /\ SelectionSet(tr)
      <4>1. Updated(tr)[n] = [request[n] EXCEPT !.drop = TRUE]
        BY <3>2 DEF Updated, Unselected
      <4> QED
        BY <3>1, <4>1 DEF IsRequest
    <3>3. CASE n = active /\ ~SelectionSet(tr)
      <4>1. Updated(tr)[n] = [request[n] EXCEPT !.pos = Mapped(tr, @)]
        BY <3>3 DEF Updated, Unselected
      <4> QED
        BY <3>1, <3>3, <4>1 DEF IsRequest
    <3>4. CASE n # active
      <4>1. Updated(tr)[n] = request[n]
        BY <3>4 DEF Updated
      <4> QED
        BY <3>1, <3>4, <4>1 DEF Live
    <3> QED
      BY <3>2, <3>3, <3>4
  <2>6. CASE StartRequest(Updated(tr), current, text', selection'[2])
    BY <2>2, <2>3, <2>4, <2>5, <2>6, StartKeeps
  <2>7. CASE request' = Updated(tr) /\ active' = current /\ started' = started
    <3>1. \A n \in Requests : IsRequest(request'[n]) /\ request'[n].stage = request[n].stage
      BY <2>5, <2>7
    <3>2. ASSUME NEW n \in Requests, request'[n].stage # "none", ~request'[n].drop
          PROVE  n = started' /\ active' = n /\ moved' < n
      BY <2>1, <2>5, <2>7, <3>2 DEF SignatureInv, Live
    <3>3. request' = [n \in Requests |-> request'[n]]
      BY <2>4, <2>7
    <3> QED
      BY <2>2, <2>3, <2>7, <3>1, <3>2, <3>3 DEF SignatureInv, Live
  <2> QED
    BY <2>1, <2>2, <2>6, <2>7
<1> QED
  BY <1>1, <1>2

\* A step of one request that neither begins nor drops one.
LEMMA GoesOnKeeps ==
    ASSUME SignatureInv, NEW n \in Requests, UNCHANGED <<started, active, moved>>,
           request[n].stage # "none", IsRequest(request'[n]), request'[n].drop = request[n].drop,
           request' = [request EXCEPT ![n] = request'[n]], IsTooltip(tooltip)'
    PROVE  SignatureInv'
<1>1. \A m \in Requests : m # n => request'[m] = request[m]
  BY DEF SignatureInv
<1>2. request' = [m \in Requests |-> request'[m]]
  BY DEF SignatureInv
<1>3. n <= started /\ Live(request[n], n)
  BY DEF SignatureInv
<1> QED
  BY <1>1, <1>2, <1>3 DEF SignatureInv, Live

LEMMA AnswerKeeps ==
    ASSUME SignatureInv, NEW n \in Requests, SignatureAnswer(n) PROVE SignatureInv' /\ ByLatest
<1>1. PICK result, stage, attempts :
         /\ request[n].stage = "asked"
         /\ request' = [request EXCEPT ![n].attempts = attempts, ![n].stage = stage]
         /\ tooltip' = tooltip \/ tooltip' = Result(n, result)
         /\ UNCHANGED <<started, active, moved>>
  BY DEF SignatureAnswer
<1>2. /\ request'[n] = [request[n] EXCEPT !.attempts = attempts, !.stage = stage]
      /\ request' = [request EXCEPT ![n] = request'[n]]
      /\ IsRequest(request[n]) /\ IsTooltip(tooltip)
  BY <1>1 DEF SignatureInv
<1>3. IsRequest(request'[n]) /\ request'[n].drop = request[n].drop
  BY <1>2 DEF IsRequest
<1>4. IsTooltip(tooltip)' /\ (tooltip' = tooltip \/ (~request[n].drop /\ tooltip'.by = n))
  <2>1. CASE tooltip' = tooltip
    <3>1. tooltip' = [by |-> tooltip.by, data |-> tooltip.data, pos |-> tooltip.pos,
                      anchor |-> tooltip.anchor]
      BY <1>2, <2>1 DEF IsTooltip
    <3>2. tooltip' = [by |-> tooltip'.by, data |-> tooltip'.data, pos |-> tooltip'.pos,
                      anchor |-> tooltip'.anchor]
      BY <3>1
    <3>3. IsTooltip(tooltip)'
      BY <3>2 DEF IsTooltip
    <3> QED
      BY <2>1, <3>3
  <2>2. CASE tooltip' = Result(n, result) /\ tooltip' # tooltip
    BY <1>2, <2>2 DEF Result, NoTooltip, IsTooltip
  <2> QED
    BY <1>1, <2>1, <2>2
<1>5. ByLatest
  BY <1>1, <1>4 DEF ByLatest, SignatureInv, Live
<1> QED
  BY <1>1, <1>2, <1>3, <1>4, <1>5, GoesOnKeeps

LEMMA SignatureKeeps ==
    ASSUME SignatureInv, SignaturePart PROVE SignatureInv' /\ ByLatest
<1>1. CASE UNCHANGED signatureVars
  BY <1>1 DEF signatureVars, SignatureInv, Live, ByLatest
<1>2. CASE \E tr : SignatureUpdate(tr)
  BY <1>2, UpdateKeeps
<1>3. CASE DelayedRequest
  <2>1. UNCHANGED <<tooltip, moved>> /\ StartRequest(request, active, text, Cursor)
    BY <1>3 DEF DelayedRequest
  <2>2. SignatureInv'
    BY <2>1, StartKeeps DEF SignatureInv, Live
  <2> QED
    BY <2>1, <2>2 DEF ByLatest
<1>4. ASSUME NEW n \in Requests, SignatureLocks(n) \/ SignatureDelay(n) \/ SignatureFails(n)
      PROVE  SignatureInv' /\ ByLatest
  <2>1. PICK stage : /\ UNCHANGED <<started, active, moved, tooltip>> /\ request[n].stage # "none"
                     /\ request' = [request EXCEPT ![n].stage = stage]
    BY <1>4 DEF SignatureLocks, SignatureDelay, SignatureFails, Ask, Become
  <2>2. /\ request'[n] = [request[n] EXCEPT !.stage = stage]
        /\ request' = [request EXCEPT ![n] = request'[n]]
        /\ IsRequest(request[n])
    BY <2>1 DEF SignatureInv
  <2>3. IsRequest(request'[n]) /\ request'[n].drop = request[n].drop
    BY <2>2 DEF IsRequest
  <2>4. IsTooltip(tooltip)'
    BY <2>1 DEF SignatureInv
  <2> QED
    BY <2>1, <2>2, <2>3, <2>4, GoesOnKeeps DEF ByLatest
<1> QED
  BY <1>1, <1>2, <1>3, <1>4, AnswerKeeps DEF SignaturePart, SignatureStep

\* Only the last request changes the tooltip, and only as long as nothing has been selected
\* since: answers that come late, of requests that were repeated, moved or superseded,
\* change nothing (signatures.ts:62-76, 127, 147).
THEOREM LastRequestShows == Spec => LatestSignature
<1>1. SignatureInv /\ [Next]_vars => SignatureInv' /\ ByLatest
  BY StepParts, SignatureKeeps DEF Parts
<1>2. SignatureInv /\ [Next]_vars =>
        [<<tooltip'.by, tooltip'.data>> # <<tooltip.by, tooltip.data>> =>
             tooltip'.by = started /\ moved < started]_<<viewVars, signatureVars>>
  BY <1>1 DEF ByLatest
<1> QED
  BY <1>1, <1>2, InitSignature, PTL DEF Spec, LatestSignature
-----------------------------------------------------------------------------
(* Inlay hints *)

IsHints(h) ==
    h = [of |-> h.of, cleared |-> h.cleared, edits |-> h.edits, sent |-> h.sent,
         failed |-> h.failed]
IsJob(j) == j = [end |-> j.end, runs |-> j.runs, edits |-> j.edits, sent |-> j.sent]

\* One job runs at a time, about a text no older than the hints that are shown.
HintsInv ==
    /\ edits \in Nat /\ sent \in Nat /\ sent <= edits
    /\ IsHints(hints) /\ hints.of \in Nat /\ hints.of <= sent + 1
    /\ \E S : jobs \in Seq(S)
    /\ \A i \in DOMAIN jobs :
         /\ IsJob(jobs[i])
         /\ jobs[i].runs => /\ jobs[i].sent \in Nat /\ jobs[i].sent <= sent
                            /\ hints.of <= jobs[i].sent + 1
    /\ \A i, j \in DOMAIN jobs : jobs[i].runs /\ jobs[j].runs => i = j

\* What HintsInOrder says of a step.
InOrder == hints'.of >= hints.of

LEMMA InitHints == Init => HintsInv
<1> SUFFICES ASSUME ViewInit, InlayHintsInit PROVE HintsInv
  BY DEF Init
<1>1. edits = 0 /\ sent = 0 /\ jobs = <<>> /\ IsHints(hints) /\ hints.of = 0
  BY DEF ViewInit, InlayHintsInit, IsHints
<1>2. jobs \in Seq({}) /\ DOMAIN jobs = {}
  BY <1>1
<1> QED
  BY <1>1, <1>2 DEF HintsInv

\* The language server is never sent an earlier text than it has.
LEMMA SentGrows ==
    ASSUME HintsInv, SentPart
    PROVE  edits' \in Nat /\ sent' \in Nat /\ sent' <= edits' /\ sent <= sent'
BY DEF HintsInv, SentPart

LEMMA WithoutJob ==
    ASSUME NEW S, jobs \in Seq(S), NEW i \in DOMAIN jobs
    PROVE  /\ Without(i) \in Seq(S)
           /\ \A k \in DOMAIN Without(i) :
                LET j == IF k < i THEN k ELSE k + 1
                IN j \in DOMAIN jobs /\ j # i /\ Without(i)[k] = jobs[j]
           /\ DOMAIN Without(i) \subseteq Nat
<1> DEFINE front == SubSeq(jobs, 1, i - 1)
           back == SubSeq(jobs, i + 1, Len(jobs))
<1>1. i \in 1 .. Len(jobs) /\ Len(jobs) \in Nat
  OBVIOUS
<1>2. /\ front \in Seq(S) /\ Len(front) = i - 1
      /\ \A k \in 1 .. i - 1 : front[k] = jobs[k]
  BY <1>1
<1>3. /\ back \in Seq(S) /\ Len(back) = Len(jobs) - i
      /\ \A k \in 1 .. Len(jobs) - i : back[k] = jobs[k + i]
  BY <1>1
<1>4. Without(i) = front \o back
  BY DEF Without
<1> HIDE DEF front, back
<1>5. /\ Without(i) \in Seq(S)
      /\ DOMAIN Without(i) = 1 .. Len(jobs) - 1
      /\ \A k \in 1 .. Len(jobs) - 1 :
           Without(i)[k] = IF k <= i - 1 THEN front[k] ELSE back[k - (i - 1)]
  <2>1. front \in Seq(S) /\ back \in Seq(S) /\ Len(front) + Len(back) = Len(jobs) - 1
    BY <1>1, <1>2, <1>3
  <2>2. PICK both : both = front \o back
    OBVIOUS
  <2>3. /\ both \in Seq(S) /\ Len(both) = Len(front) + Len(back)
        /\ \A k \in 1 .. Len(both) :
             both[k] = IF k <= Len(front) THEN front[k] ELSE back[k - Len(front)]
    BY <2>1, <2>2, ConcatProperties
  <2>4. DOMAIN both = 1 .. Len(both)
    BY <2>3
  <2> QED BY <1>2, <1>4, <2>1, <2>2, <2>3, <2>4
<1>6. ASSUME NEW k \in 1 .. Len(jobs) - 1
      PROVE  LET j == IF k < i THEN k ELSE k + 1
             IN j \in 1 .. Len(jobs) /\ j # i /\ Without(i)[k] = jobs[j]
  <2>1. CASE k < i
    BY <1>1, <1>2, <1>5, <2>1
  <2>2. CASE ~(k < i)
    <3>1. k - (i - 1) \in 1 .. Len(jobs) - i /\ k - (i - 1) + i = k + 1
      BY <1>1, <2>2
    <3>2. back[k - (i - 1)] = jobs[k + 1]
      BY <1>3, <3>1
    <3> QED
      BY <1>1, <1>5, <2>2, <3>2
  <2> QED
    BY <2>1, <2>2
<1> QED
  BY <1>1, <1>5, <1>6, DOMAIN jobs = 1 .. Len(jobs)

\* A job leaves the queue.
LEMMA WithoutKeeps ==
    ASSUME HintsInv, NEW i \in DOMAIN jobs, jobs' = Without(i), SentPart,
           IsHints(hints)', hints'.of \in Nat, hints'.of <= sent + 1,
           hints'.of = hints.of \/ jobs[i].runs
    PROVE  HintsInv'
<1>1. PICK S : jobs \in Seq(S)
  BY DEF HintsInv
<1>2. /\ jobs' \in Seq(S)
      /\ \A k \in DOMAIN jobs' :
           LET j == IF k < i THEN k ELSE k + 1
           IN j \in DOMAIN jobs /\ j # i /\ jobs'[k] = jobs[j]
      /\ DOMAIN jobs' \subseteq Nat
  BY <1>1, WithoutJob
<1>3. i \in Nat
  BY <1>1
<1>4. ASSUME NEW k \in DOMAIN jobs'
      PROVE  /\ IsJob(jobs'[k])
             /\ jobs'[k].runs => /\ jobs'[k].sent \in Nat /\ jobs'[k].sent <= sent'
                                 /\ hints'.of <= jobs'[k].sent + 1
  <2>1. PICK j \in DOMAIN jobs : j # i /\ jobs'[k] = jobs[j]
    BY <1>2, <1>3
  <2>2. jobs[j].runs => hints'.of = hints.of
    BY <2>1 DEF HintsInv
  <2>3. IsJob(jobs[j]) /\ (jobs[j].runs => jobs[j].sent \in Nat /\ jobs[j].sent <= sent
                                           /\ hints.of <= jobs[j].sent + 1)
    BY <2>1 DEF HintsInv
  <2>4. sent \in Nat /\ sent' \in Nat /\ sent <= sent'
    BY SentGrows DEF HintsInv
  <2>5. PICK was : was = jobs[j].sent
    OBVIOUS
  <2>6. was \in Nat /\ was <= sent => was <= sent'
    BY <2>4
  <2> QED BY <2>1, <2>2, <2>3, <2>5, <2>6
<1>5. ASSUME NEW k \in DOMAIN jobs', NEW l \in DOMAIN jobs', jobs'[k].runs, jobs'[l].runs
      PROVE  k = l
  <2> DEFINE j(m) == IF m < i THEN m ELSE m + 1
  <2>1. j(k) \in DOMAIN jobs /\ j(l) \in DOMAIN jobs /\ jobs[j(k)].runs /\ jobs[j(l)].runs
    BY <1>2, <1>5
  <2>2. j(k) = j(l)
    BY <2>1 DEF HintsInv
  <2> QED
    BY <1>2, <1>3, <2>2
<1>6. hints'.of <= sent' + 1
  BY SentGrows DEF HintsInv
<1> QED
  BY <1>2, <1>4, <1>5, <1>6, SentGrows DEF HintsInv

\* Nothing but the hints' decoration changes, or a job joins the queue.
LEMMA JobsKeep ==
    ASSUME HintsInv, SentPart, IsHints(hints)', hints'.of = hints.of, \E S : jobs' \in Seq(S),
           DOMAIN jobs \subseteq DOMAIN jobs',
           \A i \in DOMAIN jobs : jobs'[i] = jobs[i],
           \A i \in DOMAIN jobs' : i \in DOMAIN jobs \/ (IsJob(jobs'[i]) /\ ~jobs'[i].runs)
    PROVE  HintsInv'
<1>1. edits' \in Nat /\ sent' \in Nat /\ sent' <= edits' /\ sent <= sent'
  BY SentGrows
<1>2. hints'.of <= sent' + 1 /\ hints'.of \in Nat
  BY <1>1 DEF HintsInv
<1>3. ASSUME NEW i \in DOMAIN jobs'
      PROVE  /\ IsJob(jobs'[i])
             /\ jobs'[i].runs => /\ jobs'[i].sent \in Nat /\ jobs'[i].sent <= sent'
                                 /\ hints'.of <= jobs'[i].sent + 1
  BY <1>1 DEF HintsInv
<1>4. \A i, j \in DOMAIN jobs' : jobs'[i].runs /\ jobs'[j].runs => i = j
  BY DEF HintsInv
<1> QED
  BY <1>1, <1>2, <1>3, <1>4 DEF HintsInv

LEMMA RefreshKeeps ==
    ASSUME HintsInv, HintsRefresh, SentPart PROVE HintsInv' /\ InOrder
<1>1. PICK S : jobs \in Seq(S)
  BY DEF HintsInv
<1> DEFINE new == NewJob(Len(text) - 1)
<1>2. jobs' = Append(jobs, new) /\ hints' = hints /\ IsHints(hints)
  BY DEF HintsRefresh, HintsInv
<1>3. IsJob(new) /\ ~new.runs
  BY DEF NewJob, IsJob
<1>4. jobs \in Seq(S \cup {new})
  BY <1>1
<1> HIDE DEF new
<1>5. /\ jobs' \in Seq(S \cup {new})
      /\ DOMAIN jobs = 1 .. Len(jobs) /\ DOMAIN jobs' = 1 .. Len(jobs) + 1 /\ Len(jobs) \in Nat
      /\ \A i \in 1 .. Len(jobs) : jobs'[i] = jobs[i]
      /\ jobs'[Len(jobs) + 1] = new
  BY <1>2, <1>4
<1>6. IsHints(hints)'
  BY <1>2 DEF IsHints
<1>7. /\ \E T : jobs' \in Seq(T)
      /\ DOMAIN jobs \subseteq DOMAIN jobs'
      /\ \A i \in DOMAIN jobs : jobs'[i] = jobs[i]
      /\ hints'.of = hints.of
  BY <1>2, <1>5
<1>8. \A i \in DOMAIN jobs' : i \in DOMAIN jobs \/ (IsJob(jobs'[i]) /\ ~jobs'[i].runs)
  BY <1>3, <1>5
<1>9. HintsInv'
  BY <1>6, <1>7, <1>8, JobsKeep
<1> QED
  BY <1>2, <1>9, SMTT(30) DEF InOrder, HintsInv

LEMMA RequestKeeps ==
    ASSUME HintsInv, NEW i, HintsRequest(i), SentPart PROVE HintsInv' /\ InOrder
<1>1. /\ i \in DOMAIN jobs /\ ~jobs[i].runs /\ hints' = hints
      /\ \A j \in DOMAIN jobs : ~jobs[j].runs
  BY DEF HintsRequest, MayRun
<1>2. IsHints(hints)' /\ hints'.of \in Nat /\ hints'.of <= sent + 1
  BY <1>1 DEF HintsInv, IsHints
<1>3. CASE jobs' = Without(i)
  BY <1>1, <1>2, <1>3, WithoutKeeps DEF HintsInv, InOrder
<1>4. CASE jobs' = [jobs EXCEPT ![i].runs = TRUE, ![i].edits = edits, ![i].sent = sent]
  <2>1. PICK S : jobs \in Seq(S)
    BY DEF HintsInv
  <2>7. PICK new : new = [jobs[i] EXCEPT !.runs = TRUE, !.edits = edits, !.sent = sent]
    OBVIOUS
  <2>2. IsJob(new) /\ new.runs /\ new.sent = sent
    <3>1. IsJob(jobs[i])
      BY <1>1 DEF HintsInv
    <3>2. PICK job, asked, had : job = jobs[i] /\ asked = edits /\ had = sent
      OBVIOUS
    <3>3. IsJob(job) /\ new = [[[job EXCEPT !.runs = TRUE] EXCEPT !.edits = asked]
                                EXCEPT !.sent = had]
      BY <2>7, <3>1, <3>2
    <3>4. PICK ran : ran = [job EXCEPT !.runs = TRUE]
      OBVIOUS
    <3>5. IsJob(ran) /\ ran.runs
      BY <3>3, <3>4 DEF IsJob
    <3>6. PICK did : did = [ran EXCEPT !.edits = asked]
      OBVIOUS
    <3>7. IsJob(did) /\ did.runs
      BY <3>5, <3>6 DEF IsJob
    <3>8. new = [did EXCEPT !.sent = had]
      BY <3>3, <3>4, <3>6
    <3> QED
      BY <3>2, <3>7, <3>8 DEF IsJob
  <2>3. jobs' = [jobs EXCEPT ![i] = new]
    BY <1>4, <2>7
  <2>4. /\ jobs' \in Seq(S \cup {new}) /\ DOMAIN jobs' = DOMAIN jobs /\ jobs'[i] = new
        /\ \A j \in DOMAIN jobs : j # i => jobs'[j] = jobs[j]
    BY <1>1, <2>1, <2>3
  <2>5. ASSUME NEW k \in DOMAIN jobs'
        PROVE  /\ IsJob(jobs'[k])
               /\ jobs'[k].runs => /\ k = i
                                   /\ jobs'[k].sent \in Nat /\ jobs'[k].sent <= sent'
                                   /\ hints'.of <= jobs'[k].sent + 1
    BY <1>1, <1>2, <2>2, <2>4, SentGrows DEF HintsInv
  <2>6. hints'.of <= sent' + 1
    BY <1>2, SentGrows DEF HintsInv
  <2> QED
    BY <1>1, <1>2, <2>4, <2>5, <2>6, SentGrows DEF HintsInv, InOrder
<1> QED
  BY <1>3, <1>4 DEF HintsRequest

LEMMA HintsAnswerKeeps ==
    ASSUME HintsInv, NEW i, HintsAnswer(i), SentPart PROVE HintsInv' /\ InOrder
<1>1. i \in DOMAIN jobs /\ jobs[i].runs /\ jobs' = Without(i) /\ IsHints(hints)
  BY DEF HintsAnswer, HintsInv
<1>2. \/ hints' = [hints EXCEPT !.edits = jobs[i].edits, !.sent = jobs[i].sent, !.failed = FALSE,
                                !.of = jobs[i].sent + 1, !.cleared = FALSE]
      \/ hints' = [hints EXCEPT !.edits = jobs[i].edits, !.sent = jobs[i].sent, !.failed = TRUE]
  BY DEF HintsAnswer, Over
<1>3. IsHints(hints)' /\ hints'.of \in {hints.of, jobs[i].sent + 1}
  BY <1>1, <1>2 DEF IsHints
<1>4. hints'.of \in Nat /\ hints'.of <= sent + 1 /\ InOrder
  BY <1>1, <1>3 DEF HintsInv, InOrder
<1> QED
  BY <1>1, <1>3, <1>4, WithoutKeeps

LEMMA HintsKeep ==
    ASSUME HintsInv, HintsPart, SentPart PROVE HintsInv' /\ InOrder
<1>1. PICK S : jobs \in Seq(S)
  BY DEF HintsInv
<1>2. IsHints(hints) /\ hints.of \in Nat
  BY DEF HintsInv
<1>3. CASE UNCHANGED jobs /\ (UNCHANGED hints \/ \E c : hints' = [hints EXCEPT !.cleared = c])
  <2>1. IsHints(hints)' /\ hints'.of = hints.of
    BY <1>2, <1>3 DEF IsHints
  <2>2. \E T : jobs' \in Seq(T)
    BY <1>1, <1>3
  <2>3. /\ DOMAIN jobs \subseteq DOMAIN jobs'
        /\ \A i \in DOMAIN jobs : jobs'[i] = jobs[i]
        /\ \A i \in DOMAIN jobs' : i \in DOMAIN jobs
    BY <1>3
  <2>4. HintsInv'
    BY <2>1, <2>2, <2>3, JobsKeep
  <2> QED
    BY <1>2, <2>1, <2>4 DEF InOrder
<1>4. CASE \E tr : InlayHintsUpdate(tr)
  BY <1>3, <1>4 DEF InlayHintsUpdate, hintVars
<1>5. CASE InlayHintsStep
  BY <1>5, RefreshKeeps, RequestKeeps, HintsAnswerKeeps DEF InlayHintsStep
<1> QED
  BY <1>3, <1>4, <1>5 DEF HintsPart, hintVars

\* The hints shown are never replaced by those of an earlier text: the queue asks for
\* one set of hints at a time, so whatever is answered was asked about no sooner than
\* what is shown (inlayHints.ts:60-64).
THEOREM HintsAreInOrder == Spec => HintsInOrder
<1>1. HintsInv /\ [Next]_vars => HintsInv' /\ InOrder
  BY StepParts, HintsKeep DEF Parts
<1>2. HintsInv /\ [Next]_vars => [hints'.of >= hints.of]_hints
  BY <1>1 DEF InOrder
<1> QED
  BY <1>1, <1>2, InitHints, PTL DEF Spec, HintsInOrder

-----------------------------------------------------------------------------
(* Induction, with sets for operators *)

LEMMA NatSetInduction ==
    ASSUME NEW T, 0 \in T, \A n \in Nat : n \in T => n + 1 \in T PROVE Nat \subseteq T
<1> DEFINE U == Nat \ T
<1> SUFFICES ASSUME U # {} PROVE FALSE
  OBVIOUS
<1>1. \E n \in U : \A k \in U : <<k, n>> \notin OpToRel(<, Nat)
  BY NatLessThanWellFounded, WFMin
<1>2. \A k, n \in Nat : k < n => <<k, n>> \in OpToRel(<, Nat)
  BY DEF OpToRel
<1>3. PICK n \in U : \A k \in U : ~(k < n)
  BY <1>1, <1>2
<1>4. n - 1 \in Nat /\ n - 1 < n /\ (n - 1) + 1 = n
  BY <1>3
<1>5. n - 1 \in T
  BY <1>3, <1>4
<1> QED
  BY <1>3, <1>4, <1>5

-----------------------------------------------------------------------------
(* Joined *)

\* f tells what the first of seqs give, up to n of them.
Joins(f, seqs, n) ==
    f = [i \in 0 .. n |-> IF i = 0 THEN <<>> ELSE f[i - 1] \o seqs[i]]

LEMMA JoinsExists == ASSUME NEW seqs, NEW m \in Nat PROVE \E f : Joins(f, seqs, m)
<1> DEFINE T == {n \in Nat : \E f : Joins(f, seqs, n)}
<1>1. 0 \in T
  <2>1. Joins([i \in 0 .. 0 |-> <<>>], seqs, 0)
    BY DEF Joins
  <2> QED BY <2>1
<1>2. ASSUME NEW n \in Nat, n \in T PROVE n + 1 \in T
  <2>1. PICK f : Joins(f, seqs, n)
    BY <1>2
  <2>2. PICK last : last = f[n] \o seqs[n + 1]
    OBVIOUS
  <2>3. PICK g : g = [i \in 0 .. (n + 1) |-> IF i = n + 1 THEN last ELSE f[i]]
    OBVIOUS
  <2>4. g[n + 1] = last /\ \A i \in 0 .. n : g[i] = f[i]
    BY <2>3
  <2>5. ASSUME NEW i \in 0 .. (n + 1)
        PROVE  g[i] = IF i = 0 THEN <<>> ELSE g[i - 1] \o seqs[i]
    <3>1. CASE i = n + 1
      <4>1. i # 0 /\ i - 1 = n /\ n \in 0 .. n
        BY <3>1
      <4> QED BY <2>2, <2>4, <3>1, <4>1
    <3>2. CASE i # n + 1
      <4>1. i \in 0 .. n /\ (i # 0 => i - 1 \in 0 .. n)
        BY <3>2
      <4>2. f[i] = IF i = 0 THEN <<>> ELSE f[i - 1] \o seqs[i]
        BY <2>1, <4>1 DEF Joins
      <4> QED BY <2>4, <4>1, <4>2
    <3> QED BY <3>1, <3>2
  <2>6. Joins(g, seqs, n + 1)
    BY <2>3, <2>5 DEF Joins
  <2> QED BY <2>6
<1>3. Nat \subseteq T
  <2> HIDE DEF T
  <2> QED BY <1>1, <1>2, NatSetInduction
<1> QED BY <1>3

LEMMA JoinedJoins ==
    ASSUME NEW seqs, Len(seqs) \in Nat
    PROVE  \E f : Joins(f, seqs, Len(seqs)) /\ Joined(seqs) = f[Len(seqs)]
<1> DEFINE Define(f) == [i \in 0 .. Len(seqs) |-> IF i = 0 THEN <<>> ELSE f[i - 1] \o seqs[i]]
<1>1. PICK f : f = Define(f)
  BY JoinsExists DEF Joins
<1>2. Joined(seqs) = (CHOOSE g : g = Define(g))[Len(seqs)]
  BY DEF Joined
<1>3. PICK g : g = (CHOOSE h : h = Define(h))
  OBVIOUS
<1>4. g = Define(g)
  <2> HIDE DEF Define
  <2> QED BY <1>1, <1>3
<1>5. Joins(g, seqs, Len(seqs))
  BY <1>4 DEF Joins
<1> QED BY <1>2, <1>3, <1>5

LEMMA JoinsAgree ==
    ASSUME NEW seqs, NEW more, NEW n \in Nat, NEW m \in Nat, NEW f, NEW g, n <= m,
           \A i \in 1 .. n : seqs[i] = more[i], Joins(f, seqs, n), Joins(g, more, m)
    PROVE  f[n] = g[n]
<1> DEFINE T == {i \in Nat : i <= n => f[i] = g[i]}
<1>1. 0 \in T
  BY DEF Joins
<1>2. ASSUME NEW i \in Nat, i \in T PROVE i + 1 \in T
  <2> SUFFICES ASSUME i + 1 <= n PROVE f[i + 1] = g[i + 1]
    OBVIOUS
  <2>1. i + 1 \in 0 .. n /\ i + 1 \in 0 .. m /\ i + 1 \in 1 .. n /\ i + 1 # 0 /\ (i + 1) - 1 = i
    OBVIOUS
  <2>2. f[i + 1] = f[i] \o seqs[i + 1]
    BY <2>1 DEF Joins
  <2>3. g[i + 1] = g[i] \o more[i + 1]
    BY <2>1 DEF Joins
  <2>4. f[i] = g[i]
    BY <1>2
  <2>5. seqs[i + 1] = more[i + 1]
    BY <2>1
  <2> QED BY <2>2, <2>3, <2>4, <2>5
<1>3. Nat \subseteq T
  <2> HIDE DEF T
  <2> QED BY <1>1, <1>2, NatSetInduction
<1> QED BY <1>3

LEMMA JoinedNothing == ASSUME NEW seqs, Len(seqs) = 0 PROVE Joined(seqs) = <<>>
<1>1. PICK f : Joins(f, seqs, 0) /\ Joined(seqs) = f[0]
  BY JoinedJoins
<1> QED BY <1>1 DEF Joins

\* The last of the sequences comes after the others.
LEMMA JoinedLast ==
    ASSUME NEW n \in Nat, NEW seqs, NEW more, Len(seqs) = n, Len(more) = n + 1,
           \A i \in 1 .. n : seqs[i] = more[i]
    PROVE  Joined(more) = Joined(seqs) \o more[n + 1]
<1>1. PICK f : Joins(f, seqs, n) /\ Joined(seqs) = f[n]
  BY JoinedJoins
<1>2. PICK g : Joins(g, more, n + 1) /\ Joined(more) = g[n + 1]
  BY JoinedJoins
<1>3. f[n] = g[n]
  BY <1>1, <1>2, JoinsAgree
<1>4. g[n + 1] = g[n] \o more[n + 1]
  BY <1>2 DEF Joins
<1> QED BY <1>1, <1>2, <1>3, <1>4

LEMMA JoinedType ==
    ASSUME NEW S, NEW seqs \in Seq(Seq(S)) PROVE Joined(seqs) \in Seq(S)
<1> DEFINE T == {n \in Nat : \A s \in Seq(Seq(S)) : Len(s) = n => Joined(s) \in Seq(S)}
<1>1. 0 \in T
  BY JoinedNothing
<1>2. ASSUME NEW n \in Nat, n \in T PROVE n + 1 \in T
  <2> SUFFICES ASSUME NEW s \in Seq(Seq(S)), Len(s) = n + 1 PROVE Joined(s) \in Seq(S)
    OBVIOUS
  <2>1. PICK front : front = [i \in 1 .. n |-> s[i]]
    OBVIOUS
  <2>2. front \in Seq(Seq(S)) /\ Len(front) = n /\ s[n + 1] \in Seq(S)
        /\ \A i \in 1 .. n : front[i] = s[i]
    BY <2>1
  <2>3. Joined(s) = Joined(front) \o s[n + 1]
    BY <2>2, JoinedLast
  <2>4. Joined(front) \in Seq(S)
    BY <1>2, <2>2
  <2> QED BY <2>2, <2>3, <2>4, ConcatProperties
<1>3. Nat \subseteq T
  <2> HIDE DEF T
  <2> QED BY <1>1, <1>2, NatSetInduction
<1> QED BY <1>3

\* What is joined is no shorter than any part of it.
LEMMA JoinedLength ==
    ASSUME NEW S, NEW seqs \in Seq(Seq(S)), NEW k \in 1 .. Len(seqs)
    PROVE  Len(seqs[k]) <= Len(Joined(seqs))
<1> DEFINE T == {n \in Nat : \A s \in Seq(Seq(S)) : Len(s) = n =>
                     \A i \in 1 .. n : Len(s[i]) <= Len(Joined(s))}
<1>1. 0 \in T
  OBVIOUS
<1>2. ASSUME NEW n \in Nat, n \in T PROVE n + 1 \in T
  <2> SUFFICES ASSUME NEW s \in Seq(Seq(S)), Len(s) = n + 1, NEW i \in 1 .. (n + 1)
               PROVE  Len(s[i]) <= Len(Joined(s))
    OBVIOUS
  <2>1. PICK front : front = [j \in 1 .. n |-> s[j]]
    OBVIOUS
  <2>2. front \in Seq(Seq(S)) /\ Len(front) = n /\ s[n + 1] \in Seq(S)
        /\ \A j \in 1 .. n : front[j] = s[j]
    BY <2>1
  <2>3. Joined(s) = Joined(front) \o s[n + 1]
    BY <2>2, JoinedLast
  <2>4. Joined(front) \in Seq(S)
    BY <2>2, JoinedType
  <2>5. Len(Joined(s)) = Len(Joined(front)) + Len(s[n + 1])
    BY <2>2, <2>3, <2>4, ConcatProperties
  <2>6. Len(Joined(front)) \in Nat /\ Len(s[n + 1]) \in Nat
    BY <2>2, <2>4
  <2>7. CASE i = n + 1
    BY <2>5, <2>6, <2>7
  <2>8. CASE i # n + 1
    <3>1. i \in 1 .. n /\ Len(front[i]) <= Len(Joined(front)) /\ s[i] = front[i]
      BY <1>2, <2>2, <2>8, SMTT(30)
    <3>2. Len(s[i]) \in Nat
      BY <2>2, <3>1
    <3> QED BY <2>5, <2>6, <3>1, <3>2, SMTT(30)
  <2> QED BY <2>7, <2>8
<1>3. Nat \subseteq T
  <2> HIDE DEF T
  <2> QED BY <1>1, <1>2, NatSetInduction
<1> QED BY <1>3

-----------------------------------------------------------------------------
(* Changes of a document *)

IsChanges(cs) ==
    /\ cs \in Seq(Range(cs))
    /\ \A i \in DOMAIN cs : cs[i].insert \in Seq(Nat)

Inserts(cs, froms, to) ==
    [i \in DOMAIN cs |-> IF cs[i].from \in froms /\ cs[i].to = to THEN cs[i].insert ELSE <<>>]

LEMMA InsertedType ==
    ASSUME NEW cs, IsChanges(cs), NEW froms, NEW to
    PROVE  /\ Inserted(cs, froms, to) \in Seq(Nat)
           /\ \A i \in DOMAIN cs : cs[i].from \in froms /\ cs[i].to = to =>
                Len(cs[i].insert) <= Len(Inserted(cs, froms, to))
<1>1. PICK seqs : seqs = Inserts(cs, froms, to)
  OBVIOUS
<1>2. DOMAIN cs = 1 .. Len(cs) /\ Len(cs) \in Nat
  BY DEF IsChanges
<1>3. \A i \in DOMAIN cs :
        /\ seqs[i] \in Seq(Nat)
        /\ cs[i].from \in froms /\ cs[i].to = to => seqs[i] = cs[i].insert
  BY <1>1 DEF IsChanges, Inserts
<1>4. seqs \in Seq(Seq(Nat)) /\ Len(seqs) = Len(cs)
  BY <1>1, <1>2, <1>3 DEF Inserts
<1>5. Inserted(cs, froms, to) = Joined(seqs)
  BY <1>1 DEF Inserted, Inserts
<1> QED BY <1>2, <1>3, <1>4, <1>5, JoinedType, JoinedLength

\* What becomes of character k, and of what is inserted beside it.
Piece(doc, cs, k) ==
    Inserted(cs, {k - 1}, k - 1) \o Kept(doc, cs, k) \o Inserted(cs, 0 .. k - 1, k)

LEMMA PieceType ==
    ASSUME NEW doc \in Seq(Nat), NEW cs, IsChanges(cs), NEW k \in DOMAIN doc
    PROVE  /\ Piece(doc, cs, k) \in Seq(Nat)
           /\ Len(Piece(doc, cs, k)) = Len(Inserted(cs, {k - 1}, k - 1)) + Len(Kept(doc, cs, k))
                                         + Len(Inserted(cs, 0 .. k - 1, k))
           /\ Kept(doc, cs, k) \in Seq(Nat)
<1>1. PICK before, kept, after :
         /\ before = Inserted(cs, {k - 1}, k - 1)
         /\ kept = Kept(doc, cs, k)
         /\ after = Inserted(cs, 0 .. k - 1, k)
  OBVIOUS
<1>2. before \in Seq(Nat) /\ after \in Seq(Nat)
  BY <1>1, InsertedType
<1>3. kept \in Seq(Nat)
  BY <1>1 DEF Kept
<1>4. before \o kept \in Seq(Nat) /\ Len(before \o kept) = Len(before) + Len(kept)
  BY <1>2, <1>3, ConcatProperties
<1>5. PICK two : two = before \o kept
  OBVIOUS
<1>6. two \o after \in Seq(Nat) /\ Len(two \o after) = Len(two) + Len(after)
  BY <1>2, <1>4, <1>5, ConcatProperties
<1>7. Piece(doc, cs, k) = two \o after
  BY <1>1, <1>5 DEF Piece
<1> QED BY <1>1, <1>3, <1>4, <1>5, <1>6, <1>7

LEMMA UpToNothing == ASSUME NEW doc, NEW cs PROVE UpTo(doc, cs, 0) = <<>>
<1>1. PICK seqs : seqs = [k \in 1 .. 0 |-> Piece(doc, cs, k)]
  OBVIOUS
<1>2. Len(seqs) = 0
  BY <1>1
<1>3. UpTo(doc, cs, 0) = Joined(seqs)
  BY <1>1 DEF UpTo, Piece
<1> QED BY <1>2, <1>3, JoinedNothing

LEMMA UpToNext ==
    ASSUME NEW doc, NEW cs, NEW o \in Nat
    PROVE  UpTo(doc, cs, o + 1) = UpTo(doc, cs, o) \o Piece(doc, cs, o + 1)
<1>1. PICK seqs : seqs = [k \in 1 .. o |-> Piece(doc, cs, k)]
  OBVIOUS
<1>2. PICK more : more = [k \in 1 .. (o + 1) |-> Piece(doc, cs, k)]
  OBVIOUS
<1>3. Len(seqs) = o /\ Len(more) = o + 1 /\ more[o + 1] = Piece(doc, cs, o + 1)
      /\ \A i \in 1 .. o : seqs[i] = more[i]
  BY <1>1, <1>2
<1>4. UpTo(doc, cs, o) = Joined(seqs) /\ UpTo(doc, cs, o + 1) = Joined(more)
  BY <1>1, <1>2 DEF UpTo, Piece
<1> QED BY <1>3, <1>4, JoinedLast

LEMMA Concats ==
    \A s, t \in Seq(Nat) :
        /\ s \o t \in Seq(Nat)
        /\ Len(s \o t) = Len(s) + Len(t)
        /\ \A i \in 1 .. Len(s) + Len(t) :
             (s \o t)[i] = IF i <= Len(s) THEN s[i] ELSE t[i - Len(s)]
BY ConcatProperties

LEMMA UpToType ==
    ASSUME NEW doc \in Seq(Nat), NEW cs, IsChanges(cs), NEW o \in Offsets(doc)
    PROVE  UpTo(doc, cs, o) \in Seq(Nat)
<1> DEFINE T == {n \in Nat : n <= Len(doc) => UpTo(doc, cs, n) \in Seq(Nat)}
<1>1. 0 \in T
  <2>1. <<>> \in Seq(Nat)
    OBVIOUS
  <2>2. UpTo(doc, cs, 0) \in Seq(Nat)
    BY <2>1, UpToNothing, Zenon
  <2> QED BY <2>2
<1>2. ASSUME NEW n \in Nat, n \in T PROVE n + 1 \in T
  <2> SUFFICES ASSUME n + 1 <= Len(doc) PROVE UpTo(doc, cs, n + 1) \in Seq(Nat)
    OBVIOUS
  <2>1. UpTo(doc, cs, n) \in Seq(Nat) /\ n + 1 \in DOMAIN doc
    BY <1>2
  <2>2. Piece(doc, cs, n + 1) \in Seq(Nat)
    BY <2>1, PieceType
  <2>3. PICK front, piece : front = UpTo(doc, cs, n) /\ piece = Piece(doc, cs, n + 1)
    OBVIOUS
  <2>4. front \in Seq(Nat) /\ piece \in Seq(Nat) /\ UpTo(doc, cs, n + 1) = front \o piece
    BY <2>1, <2>2, <2>3, UpToNext
  <2>5. front \o piece \in Seq(Nat)
    BY <2>4, Concats
  <2> QED BY <2>4, <2>5
<1>3. Nat \subseteq T
  <2> HIDE DEF T
  <2> QED BY <1>1, <1>2, NatSetInduction
<1> QED BY <1>3 DEF Offsets

LEMMA UpToGrows ==
    ASSUME NEW doc \in Seq(Nat), NEW cs, IsChanges(cs), NEW a \in Offsets(doc), NEW b \in Offsets(doc),
           a <= b
    PROVE  Len(UpTo(doc, cs, a)) <= Len(UpTo(doc, cs, b))
<1> DEFINE T == {n \in Nat : a + n <= Len(doc) =>
                    Len(UpTo(doc, cs, a)) <= Len(UpTo(doc, cs, a + n))}
<1>0. \A o \in Offsets(doc) : Len(UpTo(doc, cs, o)) \in Nat
  BY UpToType
<1>1. 0 \in T
  BY <1>0 DEF Offsets
<1>2. ASSUME NEW n \in Nat, n \in T PROVE n + 1 \in T
  <2> SUFFICES ASSUME a + (n + 1) <= Len(doc)
               PROVE  Len(UpTo(doc, cs, a)) <= Len(UpTo(doc, cs, a + (n + 1)))
    OBVIOUS
  <2>1. PICK o : o = a + n
    OBVIOUS
  <2>2. o \in Nat /\ o \in Offsets(doc) /\ o + 1 \in DOMAIN doc /\ o + 1 = a + (n + 1)
    BY <2>1 DEF Offsets
  <2>3. Len(UpTo(doc, cs, a)) <= Len(UpTo(doc, cs, o))
    BY <1>2, <2>1, <2>2 DEF Offsets
  <2>4. Piece(doc, cs, o + 1) \in Seq(Nat) /\ UpTo(doc, cs, o) \in Seq(Nat)
    BY <2>2, PieceType, UpToType
  <2>5. Len(UpTo(doc, cs, o + 1)) = Len(UpTo(doc, cs, o)) + Len(Piece(doc, cs, o + 1))
    BY <2>2, <2>4, UpToNext, ConcatProperties
  <2>6. Len(Piece(doc, cs, o + 1)) \in Nat
    BY <2>4
  <2>7. Len(UpTo(doc, cs, a)) \in Nat /\ Len(UpTo(doc, cs, o)) \in Nat
    BY <1>0, <2>2
  <2>8. Len(UpTo(doc, cs, a)) <= Len(UpTo(doc, cs, o + 1))
    BY <2>3, <2>5, <2>6, <2>7
  <2> QED BY <2>2, <2>8
<1>3. Nat \subseteq T
  <2> HIDE DEF T
  <2> QED BY <1>1, <1>2, NatSetInduction
<1>4. b - a \in T /\ a + (b - a) = b
  BY <1>3 DEF Offsets
<1> QED BY <1>4 DEF Offsets

LEMMA AppliedType ==
    ASSUME NEW doc \in Seq(Nat), NEW cs, IsChanges(cs)
    PROVE  /\ ApplyAll(doc, cs) \in Seq(Nat)
           /\ Len(ApplyAll(doc, cs)) = Len(UpTo(doc, cs, Len(doc)))
                                         + Len(Inserted(cs, {Len(doc)}, Len(doc)))
           /\ \A o \in Offsets(doc) : Len(UpTo(doc, cs, o)) \in Offsets(ApplyAll(doc, cs))
<1>1. PICK kept, end : kept = UpTo(doc, cs, Len(doc)) /\ end = Inserted(cs, {Len(doc)}, Len(doc))
  OBVIOUS
<1>2. Len(doc) \in Offsets(doc)
  BY DEF Offsets
<1>3. kept \in Seq(Nat) /\ end \in Seq(Nat)
  BY <1>1, <1>2, UpToType, InsertedType
<1>4. ApplyAll(doc, cs) = kept \o end
  BY <1>1 DEF ApplyAll
<1>5. ApplyAll(doc, cs) \in Seq(Nat) /\ Len(ApplyAll(doc, cs)) = Len(kept) + Len(end)
  BY <1>3, <1>4, ConcatProperties
<1>6. ASSUME NEW o \in Offsets(doc) PROVE Len(UpTo(doc, cs, o)) \in Offsets(ApplyAll(doc, cs))
  <2>1. UpTo(doc, cs, o) \in Seq(Nat) /\ o <= Len(doc)
    BY UpToType DEF Offsets
  <2>2. Len(UpTo(doc, cs, o)) <= Len(kept)
    BY <1>1, <1>2, <2>1, UpToGrows
  <2>3. Len(UpTo(doc, cs, o)) \in Nat /\ Len(kept) \in Nat /\ Len(end) \in Nat
    BY <1>3, <2>1
  <2> QED BY <1>5, <2>2, <2>3 DEF Offsets
<1> QED BY <1>1, <1>5, <1>6

\* What is before the first change stays.
LEMMA KeptBefore ==
    ASSUME NEW doc \in Seq(Nat), NEW cs, IsChanges(cs), NEW o \in Offsets(doc),
           \A i \in DOMAIN cs : cs[i].from \in Nat /\ cs[i].from >= o
    PROVE  Len(UpTo(doc, cs, o)) >= o
<1> DEFINE T == {n \in Nat : n <= o => Len(UpTo(doc, cs, n)) >= n}
<1>1. 0 \in T
  BY UpToNothing
<1>2. ASSUME NEW n \in Nat, n \in T PROVE n + 1 \in T
  <2> SUFFICES ASSUME n + 1 <= o PROVE Len(UpTo(doc, cs, n + 1)) >= n + 1
    OBVIOUS
  <2>1. n \in Offsets(doc) /\ n + 1 \in DOMAIN doc /\ n <= o
    BY DEF Offsets
  <2>2. Kept(doc, cs, n + 1) = <<doc[n + 1]>>
    <3>1. o \in Nat
      BY DEF Offsets
    <3>2. \A i \in DOMAIN cs : ~(cs[i].from < n + 1)
      BY <3>1
    <3> QED BY <3>2 DEF Kept
  <2>3. Len(Kept(doc, cs, n + 1)) = 1
    BY <2>2
  <2>4. /\ Piece(doc, cs, n + 1) \in Seq(Nat)
        /\ UpTo(doc, cs, n) \in Seq(Nat)
        /\ Len(Piece(doc, cs, n + 1)) >= 1
    <3>1. /\ Len(Inserted(cs, {(n + 1) - 1}, (n + 1) - 1)) \in Nat
          /\ Len(Inserted(cs, 0 .. (n + 1) - 1, n + 1)) \in Nat
      BY InsertedType
    <3>2. Piece(doc, cs, n + 1) \in Seq(Nat) /\ UpTo(doc, cs, n) \in Seq(Nat)
      BY <2>1, PieceType, UpToType
    <3>3. Len(Piece(doc, cs, n + 1)) = Len(Inserted(cs, {(n + 1) - 1}, (n + 1) - 1))
             + Len(Kept(doc, cs, n + 1)) + Len(Inserted(cs, 0 .. (n + 1) - 1, n + 1))
      BY <2>1, PieceType
    <3>4. PICK a, b, c :
             /\ a = Len(Inserted(cs, {(n + 1) - 1}, (n + 1) - 1))
             /\ b = Len(Inserted(cs, 0 .. (n + 1) - 1, n + 1))
             /\ c = Len(Kept(doc, cs, n + 1))
      OBVIOUS
    <3>5. a \in Nat /\ b \in Nat /\ c = 1 /\ Len(Piece(doc, cs, n + 1)) = a + c + b
      BY <2>3, <3>1, <3>3, <3>4
    <3>6. Len(Piece(doc, cs, n + 1)) >= 1
      BY <3>5
    <3> QED BY <3>2, <3>6
  <2>5. Len(UpTo(doc, cs, n + 1)) = Len(UpTo(doc, cs, n)) + Len(Piece(doc, cs, n + 1))
    BY <2>4, UpToNext, ConcatProperties
  <2>6. Len(UpTo(doc, cs, n)) \in Nat /\ Len(Piece(doc, cs, n + 1)) \in Nat
    BY <2>4
  <2>7. Len(UpTo(doc, cs, n)) >= n
    BY <1>2, <2>1
  <2> QED BY <2>4, <2>5, <2>6, <2>7
<1>3. Nat \subseteq T
  <2> HIDE DEF T
  <2> QED BY <1>1, <1>2, NatSetInduction
<1> QED BY <1>3 DEF Offsets

\* Nor what the first change inserts.
LEMMA InsertStays ==
    ASSUME NEW doc \in Seq(Nat), NEW cs, IsChanges(cs), 1 \in DOMAIN cs,
           cs[1].from \in Offsets(doc), cs[1].to \in Offsets(doc), cs[1].from <= cs[1].to,
           \A i \in DOMAIN cs : cs[i].from \in Nat /\ cs[i].from >= cs[1].from
    PROVE  cs[1].from + Len(cs[1].insert) <= Len(ApplyAll(doc, cs))
<1>1. PICK from, to, insert : from = cs[1].from /\ to = cs[1].to /\ insert = cs[1].insert
  OBVIOUS
<1>2. from \in Nat /\ to \in Nat /\ from <= to /\ to <= Len(doc) /\ insert \in Seq(Nat)
      /\ Len(insert) \in Nat
  BY <1>1 DEF Offsets, IsChanges
<1>3. Len(UpTo(doc, cs, from)) >= from /\ Len(UpTo(doc, cs, from)) \in Nat
  <2>1. from \in Offsets(doc) /\ \A i \in DOMAIN cs : cs[i].from \in Nat /\ cs[i].from >= from
    BY <1>1
  <2>2. UpTo(doc, cs, from) \in Seq(Nat)
    BY <2>1, UpToType
  <2> QED BY <2>1, <2>2, KeptBefore
<1>4. CASE from < to \/ to < Len(doc)
  \* It is a part of what becomes of one character.
  <2>1. PICK k : k = IF from < to THEN to ELSE to + 1
    OBVIOUS
  <2>2. k \in DOMAIN doc /\ k - 1 \in Offsets(doc) /\ k \in Offsets(doc) /\ from <= k - 1
        /\ k - 1 \in Nat
    BY <1>2, <1>4, <2>1 DEF Offsets
  <2>3. PICK before, after : /\ before = Inserted(cs, {k - 1}, k - 1)
                             /\ after = Inserted(cs, 0 .. k - 1, k)
    OBVIOUS
  <2>4. before \in Seq(Nat) /\ after \in Seq(Nat)
    BY <2>3, InsertedType
  <2>5. Len(insert) <= Len(before) \/ Len(insert) <= Len(after)
    <3>1. CASE from < to
      <4>1. from \in 0 .. k - 1 /\ to = k
        BY <1>2, <2>1, <3>1
      <4> QED BY <1>1, <2>3, <4>1, InsertedType
    <3>2. CASE ~(from < to)
      <4>1. from \in {k - 1} /\ to = k - 1
        BY <1>2, <2>1, <3>2
      <4> QED BY <1>1, <2>3, <4>1, InsertedType
    <3> QED BY <3>1, <3>2
  <2>6. PICK piece, kept : piece = Piece(doc, cs, k) /\ kept = Kept(doc, cs, k)
    OBVIOUS
  <2>7. /\ piece \in Seq(Nat) /\ kept \in Seq(Nat)
        /\ Len(piece) = Len(before) + Len(kept) + Len(after)
    BY <2>2, <2>3, <2>6, PieceType
  <2>8. Len(piece) >= Len(insert)
    <3>1. Len(before) \in Nat /\ Len(kept) \in Nat /\ Len(after) \in Nat
      BY <2>4, <2>7
    <3> QED BY <1>2, <2>5, <2>7, <3>1
  <2>9. PICK front, all : front = UpTo(doc, cs, k - 1) /\ all = UpTo(doc, cs, k)
    OBVIOUS
  <2>10. front \in Seq(Nat) /\ all \in Seq(Nat)
    BY <2>2, <2>9, UpToType
  <2>11. all = front \o piece
    <3>1. (k - 1) + 1 = k
      BY <2>2
    <3> QED BY <2>2, <2>6, <2>9, <3>1, UpToNext
  <2>12. Len(all) = Len(front) + Len(piece)
    BY <2>7, <2>10, <2>11, ConcatProperties
  <2>13. Len(front) >= Len(UpTo(doc, cs, from))
    BY <1>1, <2>2, <2>9, UpToGrows
  <2>14. Len(all) <= Len(ApplyAll(doc, cs)) /\ Len(ApplyAll(doc, cs)) \in Nat
    <3>1. Len(all) \in Offsets(ApplyAll(doc, cs)) /\ ApplyAll(doc, cs) \in Seq(Nat)
      BY <2>2, <2>9, AppliedType
    <3> QED BY <3>1 DEF Offsets
  <2>15. Len(front) \in Nat /\ Len(piece) \in Nat
    BY <2>7, <2>10
  <2>16. from + Len(insert) <= Len(all)
    BY <1>2, <1>3, <2>8, <2>12, <2>13, <2>15
  <2>17. Len(all) \in Nat
    BY <2>10
  <2> QED BY <1>1, <1>2, <2>14, <2>16, <2>17
<1>5. CASE from = to /\ to = Len(doc)
  <2>1. PICK end : end = Inserted(cs, {Len(doc)}, Len(doc))
    OBVIOUS
  <2>2. end \in Seq(Nat) /\ Len(insert) <= Len(end)
    BY <1>1, <1>5, <2>1, InsertedType
  <2>3. Len(ApplyAll(doc, cs)) = Len(UpTo(doc, cs, from)) + Len(end)
    BY <1>1, <1>5, <2>1, AppliedType
  <2> QED BY <1>1, <1>2, <1>3, <2>2, <2>3
<1> QED BY <1>2, <1>4, <1>5

\* Nothing is changed.
LEMMA AppliedNothing ==
    ASSUME NEW doc \in Seq(Nat)
    PROVE  /\ ApplyAll(doc, <<>>) = doc
           /\ \A o \in Offsets(doc) : Len(UpTo(doc, <<>>, o)) = o
<1>0. IsChanges(<<>>)
  BY DEF IsChanges
<1>1. \A froms, to : Inserted(<<>>, froms, to) = <<>>
  <2> SUFFICES ASSUME NEW froms, NEW to PROVE Inserted(<<>>, froms, to) = <<>>
    OBVIOUS
  <2>1. PICK seqs : seqs = Inserts(<<>>, froms, to)
    OBVIOUS
  <2>2. Len(seqs) = 0
    BY <2>1 DEF Inserts
  <2>3. Inserted(<<>>, froms, to) = Joined(seqs)
    BY <2>1 DEF Inserted, Inserts
  <2> QED BY <2>2, <2>3, JoinedNothing
<1>2. \A k \in DOMAIN doc : Piece(doc, <<>>, k) = <<doc[k]>>
  <2> SUFFICES ASSUME NEW k \in DOMAIN doc PROVE Piece(doc, <<>>, k) = <<doc[k]>>
    OBVIOUS
  <2>1. Piece(doc, <<>>, k) = (<<>> \o Kept(doc, <<>>, k)) \o <<>>
    BY <1>1 DEF Piece
  <2>2. Kept(doc, <<>>, k) = <<doc[k]>> /\ <<doc[k]>> \in Seq(Nat)
    BY DEF Kept
  <2> QED BY <2>1, <2>2, ConcatEmptySeq
<1> DEFINE T == {n \in Nat : n <= Len(doc) =>
                    /\ Len(UpTo(doc, <<>>, n)) = n
                    /\ \A i \in 1 .. n : UpTo(doc, <<>>, n)[i] = doc[i]}
<1>3. 0 \in T
  BY UpToNothing
<1>4. ASSUME NEW n \in Nat, n \in T PROVE n + 1 \in T
  <2> SUFFICES ASSUME n + 1 <= Len(doc)
               PROVE  /\ Len(UpTo(doc, <<>>, n + 1)) = n + 1
                      /\ \A i \in 1 .. (n + 1) : UpTo(doc, <<>>, n + 1)[i] = doc[i]
    OBVIOUS
  <2>1. PICK front, last, all :
           front = UpTo(doc, <<>>, n) /\ last = <<doc[n + 1]>> /\ all = UpTo(doc, <<>>, n + 1)
    OBVIOUS
  <2>2. n \in Offsets(doc) /\ n + 1 \in DOMAIN doc
    BY DEF Offsets
  <2>3. front \in Seq(Nat) /\ Len(front) = n /\ \A i \in 1 .. n : front[i] = doc[i]
    BY <1>0, <1>4, <2>1, <2>2, UpToType
  <2>4. last \in Seq(Nat) /\ Len(last) = 1 /\ last[1] = doc[n + 1]
    BY <2>1, <2>2
  <2>5. all = front \o last
    BY <1>2, <2>1, <2>2, UpToNext
  <2>6. /\ Len(all) = n + 1
        /\ \A i \in 1 .. (n + 1) : all[i] = IF i <= n THEN front[i] ELSE last[i - n]
    <3>1. /\ Len(front \o last) = Len(front) + Len(last)
          /\ \A i \in 1 .. Len(front) + Len(last) : (front \o last)[i] =
                IF i <= Len(front) THEN front[i] ELSE last[i - Len(front)]
      BY <2>3, <2>4, Concats
    <3> QED BY <2>3, <2>4, <2>5, <3>1
  <2>7. \A i \in 1 .. (n + 1) : ~(i <= n) => i - n = 1 /\ i = n + 1
    OBVIOUS
  <2>8. \A i \in 1 .. (n + 1) : all[i] = doc[i]
    BY <2>3, <2>4, <2>6, <2>7, SMTT(30)
  <2> QED BY <2>1, <2>6, <2>8
<1>5. Nat \subseteq T
  <2> HIDE DEF T
  <2> QED BY <1>3, <1>4, NatSetInduction
<1>6. PICK all : all = UpTo(doc, <<>>, Len(doc))
  OBVIOUS
<1>7. Len(doc) \in Offsets(doc) /\ Len(doc) \in Nat
  BY DEF Offsets
<1>8. all \in Seq(Nat) /\ Len(all) = Len(doc) /\ \A i \in 1 .. Len(doc) : all[i] = doc[i]
  BY <1>0, <1>5, <1>6, <1>7, UpToType
<1>9. all = doc
  BY <1>8, SeqEqual
<1>10. ApplyAll(doc, <<>>) = all \o <<>>
  BY <1>1, <1>6 DEF ApplyAll
<1> QED BY <1>5, <1>8, <1>9, <1>10, ConcatEmptySeq DEF Offsets

-----------------------------------------------------------------------------
(* Where the characters of a changed document come from *)

Front(seqs, n) == [i \in 1 .. n |-> seqs[i]]

\* Character i of what the first n of seqs give is the only one of the k-th, and ends what the
\* first k give.
EndsAt(seqs, n, i) ==
    \E k \in 1 .. n : /\ Len(seqs[k]) = 1 /\ i = Len(Joined(Front(seqs, k)))
                       /\ Joined(Front(seqs, n))[i] = seqs[k][1]
AllEnd(seqs, n) == \A i \in DOMAIN Joined(Front(seqs, n)) : EndsAt(seqs, n, i)

LEMMA FrontType ==
    ASSUME NEW S, NEW seqs \in Seq(S), NEW n \in 0 .. Len(seqs)
    PROVE  Front(seqs, n) \in Seq(S) /\ Len(Front(seqs, n)) = n
<1>1. PICK front : front = Front(seqs, n)
  OBVIOUS
<1>2. front = [i \in 1 .. n |-> seqs[i]] /\ n \in Nat
  BY <1>1 DEF Front
<1>3. \A i \in 1 .. n : seqs[i] \in S
  OBVIOUS
<1> QED BY <1>1, <1>2, <1>3

LEMMA FrontAll == ASSUME NEW S, NEW seqs \in Seq(S) PROVE Front(seqs, Len(seqs)) = seqs
BY DEF Front

\* Sequences of at most one member each: that of the k-th is at the end of the first k.
LEMMA JoinedFrom ==
    ASSUME NEW S, NEW seqs \in Seq(Seq(S)), \A k \in DOMAIN seqs : Len(seqs[k]) <= 1,
           NEW j \in DOMAIN Joined(seqs)
    PROVE  \E k \in DOMAIN seqs : /\ Len(seqs[k]) = 1 /\ j = Len(Joined(Front(seqs, k)))
                                  /\ Joined(seqs)[j] = seqs[k][1]
<1> DEFINE T == {n \in Nat : n <= Len(seqs) => AllEnd(seqs, n)}
<1>1. 0 \in T
  <2>1. Len(Front(seqs, 0)) = 0
    BY FrontType
  <2>2. Joined(Front(seqs, 0)) = <<>>
    BY <2>1, JoinedNothing
  <2>3. DOMAIN Joined(Front(seqs, 0)) = {}
    BY <2>2
  <2>4. AllEnd(seqs, 0)
    BY <2>3 DEF AllEnd
  <2> QED BY <2>4
<1>2. ASSUME NEW n \in Nat, n \in T PROVE n + 1 \in T
  <2> SUFFICES ASSUME n + 1 <= Len(seqs) PROVE AllEnd(seqs, n + 1)
    OBVIOUS
  <2> SUFFICES ASSUME NEW i \in DOMAIN Joined(Front(seqs, n + 1)) PROVE EndsAt(seqs, n + 1, i)
    BY DEF AllEnd
  <2>1. PICK front, last, all :
          front = Joined(Front(seqs, n)) /\ last = seqs[n + 1] /\ all = Joined(Front(seqs, n + 1))
    OBVIOUS
  <2>2. n + 1 \in DOMAIN seqs /\ last \in Seq(S) /\ Len(last) <= 1
    <3>1. n + 1 \in DOMAIN seqs
      OBVIOUS
    <3> QED BY <2>1, <3>1
  <2>0. n \in 0 .. Len(seqs) /\ n + 1 \in 0 .. Len(seqs)
    OBVIOUS
  <2>3. all = front \o last
    <3>1. Front(seqs, n + 1)[n + 1] = last /\ \A k \in 1 .. n : Front(seqs, n)[k] = Front(seqs, n + 1)[k]
      BY <2>1 DEF Front
    <3>2. Len(Front(seqs, n)) = n /\ Len(Front(seqs, n + 1)) = n + 1
      BY <2>0, FrontType
    <3>3. PICK some, more : some = Front(seqs, n) /\ more = Front(seqs, n + 1)
      OBVIOUS
    <3>4. Joined(more) = Joined(some) \o more[n + 1]
      BY <3>1, <3>2, <3>3, JoinedLast
    <3> QED BY <2>1, <3>1, <3>3, <3>4
  <2>4. front \in Seq(S)
    <3>1. Front(seqs, n) \in Seq(Seq(S))
      BY <2>0, FrontType
    <3> QED BY <2>1, <3>1, JoinedType
  <2>5. Len(all) = Len(front) + Len(last) /\ DOMAIN all = 1 .. Len(all)
        /\ \A m \in 1 .. Len(all) : all[m] = IF m <= Len(front) THEN front[m] ELSE last[m - Len(front)]
    BY <2>2, <2>3, <2>4, ConcatProperties
  <2>8. i \in Nat /\ 1 <= i /\ i <= Len(front) + Len(last) /\ Len(front) \in Nat /\ Len(last) \in Nat
    <3>1. i \in 1 .. Len(all)
      BY <2>1, <2>5
    <3> QED BY <2>2, <2>4, <2>5, <3>1
  <2>6. CASE i <= Len(front)
    <3>1. i \in DOMAIN front /\ all[i] = front[i]
      BY <2>4, <2>5, <2>6, <2>8
    <3>2. AllEnd(seqs, n)
      BY <1>2
    <3>3. EndsAt(seqs, n, i)
      BY <2>1, <3>1, <3>2 DEF AllEnd
    <3> QED BY <2>1, <3>1, <3>3 DEF EndsAt
  <2>7. CASE ~(i <= Len(front))
    <3>0. PICK a, b : a = Len(front) /\ b = Len(last)
      OBVIOUS
    <3>5. a \in Nat /\ b \in Nat /\ i \in Nat /\ i <= a + b /\ b <= 1 /\ ~(i <= a)
      BY <2>2, <2>7, <2>8, <3>0
    <3>6. b = 1 /\ i = a + 1
      BY <3>5
    <3>1. Len(last) = 1 /\ i = Len(front) + 1
      BY <3>0, <3>6
    <3>2. i = Len(all) /\ i - Len(front) = 1
      BY <2>5, <2>8, <3>1
    <3>3. all[i] = last[1]
      BY <2>5, <2>7, <2>8, <3>1, <3>2
    <3>4. n + 1 \in 1 .. (n + 1)
      OBVIOUS
    <3> QED BY <2>1, <3>1, <3>2, <3>3, <3>4 DEF EndsAt
  <2> QED BY <2>6, <2>7
<1>3. Nat \subseteq T
  <2> HIDE DEF T
  <2> QED BY <1>1, <1>2, NatSetInduction
<1>4. AllEnd(seqs, Len(seqs)) /\ DOMAIN seqs = 1 .. Len(seqs)
  BY <1>3
<1>5. Front(seqs, Len(seqs)) = seqs
  BY FrontAll
<1>6. EndsAt(seqs, Len(seqs), j)
  BY <1>4, <1>5 DEF AllEnd
<1> QED BY <1>4, <1>5, <1>6 DEF EndsAt

IsShort(cs) == \A i \in DOMAIN cs : Len(cs[i].insert) <= 1

LEMMA InsertedFrom ==
    ASSUME NEW cs, IsChanges(cs), IsShort(cs), NEW froms, NEW to, NEW j \in DOMAIN Inserted(cs, froms, to)
    PROVE  \E c \in DOMAIN cs :
             /\ cs[c].from \in froms /\ cs[c].to = to /\ Len(cs[c].insert) = 1
             /\ j = Len(Joined(Front(Inserts(cs, froms, to), c)))
             /\ Inserted(cs, froms, to)[j] = cs[c].insert[1]
<1>1. PICK seqs : seqs = Inserts(cs, froms, to)
  OBVIOUS
<1>2. DOMAIN cs = 1 .. Len(cs) /\ Len(cs) \in Nat
  BY DEF IsChanges
<1>3. \A i \in DOMAIN cs :
        /\ seqs[i] \in Seq(Nat)
        /\ seqs[i] = IF cs[i].from \in froms /\ cs[i].to = to THEN cs[i].insert ELSE <<>>
        /\ Len(seqs[i]) <= 1
  BY <1>1 DEF IsChanges, Inserts, IsShort
<1>4. seqs \in Seq(Seq(Nat)) /\ DOMAIN seqs = DOMAIN cs
  BY <1>1, <1>2, <1>3 DEF Inserts
<1>5. Inserted(cs, froms, to) = Joined(seqs)
  BY <1>1 DEF Inserted, Inserts
<1>6. PICK c \in DOMAIN seqs : /\ Len(seqs[c]) = 1 /\ j = Len(Joined(Front(seqs, c)))
                               /\ Joined(seqs)[j] = seqs[c][1]
  BY <1>3, <1>4, <1>5, JoinedFrom
<1>7. cs[c].from \in froms /\ cs[c].to = to /\ seqs[c] = cs[c].insert
  <2>1. Len(<<>>) # 1
    OBVIOUS
  <2>2. seqs[c] # <<>>
    BY <1>6, <2>1, Zenon
  <2> QED BY <1>3, <1>4, <2>2
<1> QED BY <1>1, <1>4, <1>5, <1>6, <1>7

\* Where what change c inserts is.
At(doc, cs, c) ==
    LET to == cs[c].to
    IN IF cs[c].from = to
       THEN Len(UpTo(doc, cs, to)) + Len(Joined(Front(Inserts(cs, {to}, to), c)))
       ELSE Len(UpTo(doc, cs, to - 1)) + Len(Inserted(cs, {to - 1}, to - 1)) + Len(Kept(doc, cs, to))
              + Len(Joined(Front(Inserts(cs, 0 .. to - 1, to), c)))

\* Character j of s is one of doc, or one that is inserted.
KeptAt(doc, cs, s, j) ==
    \E k \in DOMAIN doc : j = Len(UpTo(doc, cs, k)) /\ s[j] = doc[k]
NewAt(doc, cs, s, j) ==
    \E c \in DOMAIN cs : Len(cs[c].insert) = 1 /\ j = At(doc, cs, c) /\ s[j] = cs[c].insert[1]

\* A character that is kept is not replaced.
LEMMA KeptAlone ==
    ASSUME NEW doc \in Seq(Nat), NEW cs, IsChanges(cs), IsShort(cs), NEW k \in DOMAIN doc,
           Kept(doc, cs, k) # <<>>
    PROVE  Kept(doc, cs, k) = <<doc[k]>> /\ Inserted(cs, 0 .. k - 1, k) = <<>>
<1>1. Kept(doc, cs, k) = <<doc[k]>> /\ ~\E i \in DOMAIN cs : cs[i].from < k /\ k <= cs[i].to
  BY DEF Kept
<1>2. Inserted(cs, 0 .. k - 1, k) \in Seq(Nat)
  BY InsertedType
<1>3. ASSUME NEW j \in DOMAIN Inserted(cs, 0 .. k - 1, k) PROVE FALSE
  <2>1. PICK c \in DOMAIN cs : cs[c].from \in 0 .. k - 1 /\ cs[c].to = k
    BY <1>3, InsertedFrom, SMTT(30)
  <2>2. cs[c].from < k /\ k <= cs[c].to
    BY <2>1
  <2> QED BY <1>1, <2>2
<1>4. PICK after : after = Inserted(cs, 0 .. k - 1, k)
  OBVIOUS
<1>5. after \in Seq(Nat) /\ \A j \in DOMAIN after : FALSE
  BY <1>2, <1>3, <1>4
<1>7. Len(after) = 0
  <2>1. Len(after) \in Nat /\ (Len(after) > 0 => 1 \in DOMAIN after)
    BY <1>5
  <2> QED BY <1>5, <2>1
<1>6. after = <<>>
  BY <1>5, <1>7
<1> QED BY <1>1, <1>4, <1>6

\* The parts of all, of lengths a, b, c and d.
FourParts(all, front, before, kept, after, a, b, c, d) ==
    /\ a = Len(front) /\ b = Len(before) /\ c = Len(kept) /\ d = Len(after)
    /\ a \in Nat /\ b \in Nat /\ c \in Nat /\ d \in Nat
    /\ all \in Seq(Nat) /\ Len(all) = a + b + c + d
    /\ \A m \in 1 .. a : all[m] = front[m]
    /\ \A m \in 1 .. b : all[a + m] = before[m]
    /\ \A m \in 1 .. c : all[a + b + m] = kept[m]
    /\ \A m \in 1 .. d : all[a + b + c + m] = after[m]

LEMMA FourJoined ==
    ASSUME NEW front \in Seq(Nat), NEW before \in Seq(Nat), NEW kept \in Seq(Nat),
           NEW after \in Seq(Nat), NEW all, all = front \o ((before \o kept) \o after)
    PROVE  \E a, b, c, d : FourParts(all, front, before, kept, after, a, b, c, d)
<1>1. PICK two, three : two = before \o kept /\ three = two \o after
  OBVIOUS
<1>2. PICK a, b, c, d : a = Len(front) /\ b = Len(before) /\ c = Len(kept) /\ d = Len(after)
  OBVIOUS
<1>3. a \in Nat /\ b \in Nat /\ c \in Nat /\ d \in Nat
  BY <1>2
<1>4. /\ two \in Seq(Nat) /\ Len(two) = b + c
      /\ \A i \in 1 .. b + c : two[i] = IF i <= b THEN before[i] ELSE kept[i - b]
  BY <1>1, <1>2, Concats
<1>5. /\ three \in Seq(Nat) /\ Len(three) = b + c + d
      /\ \A i \in 1 .. b + c + d : three[i] = IF i <= b + c THEN two[i] ELSE after[i - (b + c)]
  BY <1>1, <1>2, <1>4, Concats, SMTT(30)
<1>6. /\ all \in Seq(Nat) /\ Len(all) = a + (b + c + d)
      /\ \A i \in 1 .. a + (b + c + d) : all[i] = IF i <= a THEN front[i] ELSE three[i - a]
  BY <1>1, <1>2, <1>5, Concats, SMTT(30)
<1>7. ASSUME NEW m \in 1 .. a PROVE all[m] = front[m]
  BY <1>3, <1>6
<1>8. ASSUME NEW m \in 1 .. b + c + d PROVE all[a + m] = three[m]
  <2>1. a + m \in 1 .. a + (b + c + d) /\ ~(a + m <= a) /\ (a + m) - a = m
    BY <1>3
  <2> QED BY <1>6, <2>1
<1>9. ASSUME NEW m \in 1 .. b PROVE all[a + m] = before[m]
  <2>1. m \in 1 .. b + c /\ m <= b /\ m \in 1 .. b + c + d /\ m <= b + c
    BY <1>3
  <2>2. two[m] = before[m] /\ three[m] = two[m]
    BY <1>4, <1>5, <2>1
  <2> QED BY <1>8, <2>1, <2>2
<1>10. ASSUME NEW m \in 1 .. c PROVE all[a + b + m] = kept[m]
  <2>1. /\ b + m \in 1 .. b + c /\ ~(b + m <= b) /\ b + m \in 1 .. b + c + d /\ b + m <= b + c
        /\ (b + m) - b = m /\ a + (b + m) = a + b + m
    BY <1>3
  <2> QED BY <1>4, <1>5, <1>8, <2>1
<1>11. ASSUME NEW m \in 1 .. d PROVE all[a + b + c + m] = after[m]
  <2>1. /\ b + c + m \in 1 .. b + c + d /\ ~(b + c + m <= b + c)
        /\ (b + c + m) - (b + c) = m /\ a + (b + c + m) = a + b + c + m
    BY <1>3
  <2> QED BY <1>5, <1>8, <2>1
<1>12. a + (b + c + d) = a + b + c + d
  BY <1>3
<1>13. FourParts(all, front, before, kept, after, a, b, c, d)
  BY <1>2, <1>3, <1>6, <1>7, <1>9, <1>10, <1>11, <1>12 DEF FourParts
<1> QED BY <1>13

\* What a change leaves of a document, and what it inserts, is all there is.
LEMMA UpToFrom ==
    ASSUME NEW doc \in Seq(Nat), NEW cs, IsChanges(cs), IsShort(cs), NEW o \in Offsets(doc),
           NEW j \in DOMAIN UpTo(doc, cs, o)
    PROVE  KeptAt(doc, cs, UpTo(doc, cs, o), j) \/ NewAt(doc, cs, UpTo(doc, cs, o), j)
<1> DEFINE Told(n) == \A i \in DOMAIN UpTo(doc, cs, n) :
                         KeptAt(doc, cs, UpTo(doc, cs, n), i) \/ NewAt(doc, cs, UpTo(doc, cs, n), i)
           T == {n \in Nat : n <= Len(doc) => Told(n)}
<1>1. 0 \in T
  <2>1. UpTo(doc, cs, 0) = <<>>
    BY UpToNothing
  <2>2. DOMAIN UpTo(doc, cs, 0) = {}
    BY <2>1
  <2>3. Told(0)
    BY <2>2
  <2> QED BY <2>3
<1>2. ASSUME NEW n \in Nat, n \in T PROVE n + 1 \in T
  <2> SUFFICES ASSUME n + 1 <= Len(doc) PROVE Told(n + 1)
    OBVIOUS
  <2> SUFFICES ASSUME NEW i \in DOMAIN UpTo(doc, cs, n + 1)
               PROVE  \/ KeptAt(doc, cs, UpTo(doc, cs, n + 1), i)
                      \/ NewAt(doc, cs, UpTo(doc, cs, n + 1), i)
    OBVIOUS
  <2>1. PICK k : k = n + 1
    OBVIOUS
  <2>2. k \in DOMAIN doc /\ k - 1 = n /\ n \in Offsets(doc) /\ k \in Nat
    BY <2>1 DEF Offsets
  <2>3. PICK front, before, kept, after, all :
          /\ front = UpTo(doc, cs, n) /\ all = UpTo(doc, cs, k)
          /\ before = Inserted(cs, {n}, n) /\ kept = Kept(doc, cs, k)
          /\ after = Inserted(cs, 0 .. k - 1, k)
    OBVIOUS
  <2>4. front \in Seq(Nat) /\ before \in Seq(Nat) /\ after \in Seq(Nat) /\ kept \in Seq(Nat)
    BY <2>2, <2>3, UpToType, InsertedType, PieceType
  <2>5. all = front \o ((before \o kept) \o after)
    <3>1. UpTo(doc, cs, n + 1) = UpTo(doc, cs, n) \o Piece(doc, cs, n + 1)
      BY UpToNext
    <3>2. Piece(doc, cs, k) = (before \o kept) \o after
      BY <2>2, <2>3 DEF Piece
    <3> QED BY <2>1, <2>3, <3>1, <3>2
  <2>6. PICK a, b, c, d : FourParts(all, front, before, kept, after, a, b, c, d)
    BY <2>4, <2>5, FourJoined
  <2>7. /\ a = Len(front) /\ b = Len(before) /\ c = Len(kept) /\ d = Len(after)
        /\ a \in Nat /\ b \in Nat /\ c \in Nat /\ d \in Nat
        /\ all \in Seq(Nat) /\ Len(all) = a + b + c + d
        /\ \A m \in 1 .. a : all[m] = front[m]
        /\ \A m \in 1 .. b : all[a + m] = before[m]
        /\ \A m \in 1 .. c : all[a + b + m] = kept[m]
        /\ \A m \in 1 .. d : all[a + b + c + m] = after[m]
    BY <2>6 DEF FourParts
  <2>8. i \in 1 .. a + b + c + d
    <3>1. all \in Seq(Nat) /\ Len(all) = a + b + c + d
      BY <2>7
    <3>2. i \in DOMAIN all
      BY <2>1, <2>3
    <3> QED BY <3>1, <3>2
  <2>9. CASE i \in 1 .. a
    <3>1. i \in DOMAIN front /\ all[i] = front[i]
      <4>1. DOMAIN front = 1 .. a
        BY <2>4, <2>7
      <4> QED BY <2>7, <2>9, <4>1
    <3>2. KeptAt(doc, cs, front, i) \/ NewAt(doc, cs, front, i)
      BY <1>2, <2>2, <2>3, <3>1 DEF Offsets
    <3> QED BY <2>1, <2>3, <3>1, <3>2 DEF KeptAt, NewAt
  <2>10. CASE i \in a + 1 .. a + b
    <3>1. PICK m \in 1 .. b : i = a + m
      <4>1. i - a \in 1 .. b /\ i = a + (i - a)
        BY <2>7, <2>8, <2>10
      <4> QED BY <4>1
    <3>2. m \in DOMAIN before /\ all[i] = before[m]
      <4>1. all[a + m] = before[m]
        BY <2>7, <3>1
      <4>2. m \in DOMAIN before
        BY <2>4, <2>7, <3>1
      <4> QED BY <3>1, <4>1, <4>2
    <3>3. PICK new \in DOMAIN cs :
            /\ cs[new].from \in {n} /\ cs[new].to = n /\ Len(cs[new].insert) = 1
            /\ m = Len(Joined(Front(Inserts(cs, {n}, n), new)))
            /\ before[m] = cs[new].insert[1]
      BY <2>3, <3>2, InsertedFrom
    <3>4. At(doc, cs, new) = a + m
      BY <2>3, <2>7, <3>3 DEF At
    <3> QED BY <2>1, <2>3, <3>1, <3>2, <3>3, <3>4 DEF NewAt
  <2>11. CASE i \in a + b + 1 .. a + b + c
    <3>1. c # 0
      BY <2>7, <2>11
    <3>2. kept = <<doc[k]>> /\ after = <<>>
      <4>1. Len(<<>>) = 0
        OBVIOUS
      <4>2. kept # <<>>
        BY <2>7, <3>1, <4>1, Zenon
      <4> QED BY <2>2, <2>3, <4>2, KeptAlone
    <3>3. c = 1 /\ d = 0 /\ kept[1] = doc[k]
      BY <2>7, <3>2
    <3>4. i = Len(all) /\ i = a + b + 1 /\ 1 \in 1 .. c
      BY <2>7, <2>11, <3>3
    <3>5. all[i] = doc[k]
      <4>1. all[a + b + 1] = kept[1]
        BY <2>7, <3>4
      <4> QED BY <3>3, <3>4, <4>1
    <3> QED BY <2>1, <2>2, <2>3, <3>4, <3>5 DEF KeptAt
  <2>12. CASE i \in a + b + c + 1 .. a + b + c + d
    <3>1. PICK m \in 1 .. d : i = a + b + c + m
      <4>1. i - (a + b + c) \in 1 .. d /\ i = a + b + c + (i - (a + b + c))
        BY <2>7, <2>8, <2>12
      <4> QED BY <4>1
    <3>2. m \in DOMAIN after /\ all[i] = after[m]
      <4>1. all[a + b + c + m] = after[m]
        BY <2>7, <3>1
      <4>2. m \in DOMAIN after
        BY <2>4, <2>7, <3>1
      <4> QED BY <3>1, <4>1, <4>2
    <3>3. PICK new \in DOMAIN cs :
            /\ cs[new].from \in 0 .. k - 1 /\ cs[new].to = k /\ Len(cs[new].insert) = 1
            /\ m = Len(Joined(Front(Inserts(cs, 0 .. k - 1, k), new)))
            /\ after[m] = cs[new].insert[1]
      <4>1. PICK froms : froms = 0 .. k - 1
        OBVIOUS
      <4>2. after = Inserted(cs, froms, k) /\ m \in DOMAIN Inserted(cs, froms, k)
        BY <2>3, <3>2, <4>1
      <4>3. PICK new \in DOMAIN cs :
              /\ cs[new].from \in froms /\ cs[new].to = k /\ Len(cs[new].insert) = 1
              /\ m = Len(Joined(Front(Inserts(cs, froms, k), new)))
              /\ Inserted(cs, froms, k)[m] = cs[new].insert[1]
        BY <4>2, InsertedFrom
      <4> QED BY <4>1, <4>2, <4>3
    <3>4. cs[new].from # k
      BY <2>2, <3>3
    <3>5. At(doc, cs, new) = a + b + c + m
      BY <2>2, <2>3, <2>7, <3>3, <3>4 DEF At
    <3> QED BY <2>1, <2>3, <3>1, <3>2, <3>3, <3>5 DEF NewAt
  <2>13. \/ i \in 1 .. a \/ i \in a + 1 .. a + b \/ i \in a + b + 1 .. a + b + c
         \/ i \in a + b + c + 1 .. a + b + c + d
    <3>1. a \in Nat /\ b \in Nat /\ c \in Nat /\ d \in Nat
      BY <2>7
    <3> QED BY <2>8, <3>1
  <2> QED BY <2>9, <2>10, <2>11, <2>12, <2>13
<1>3. Nat \subseteq T
  <2> HIDE DEF T
  <2> QED BY <1>1, <1>2, NatSetInduction
<1>4. Told(o)
  BY <1>3 DEF Offsets
<1> QED BY <1>4

LEMMA AppliedFrom ==
    ASSUME NEW doc \in Seq(Nat), NEW cs, IsChanges(cs), IsShort(cs), NEW j \in DOMAIN ApplyAll(doc, cs)
    PROVE  KeptAt(doc, cs, ApplyAll(doc, cs), j) \/ NewAt(doc, cs, ApplyAll(doc, cs), j)
<1>1. PICK n, front, last, all : /\ n = Len(doc) /\ front = UpTo(doc, cs, n)
                                 /\ last = Inserted(cs, {n}, n) /\ all = ApplyAll(doc, cs)
  OBVIOUS
<1>2. n \in Offsets(doc)
  BY <1>1 DEF Offsets
<1>3. front \in Seq(Nat) /\ last \in Seq(Nat) /\ all = front \o last
  BY <1>1, <1>2, UpToType, InsertedType DEF ApplyAll
<1>4. PICK a, b : a = Len(front) /\ b = Len(last)
  OBVIOUS
<1>5. /\ a \in Nat /\ b \in Nat /\ DOMAIN all = 1 .. a + b
      /\ \A i \in 1 .. a + b : all[i] = IF i <= a THEN front[i] ELSE last[i - a]
  BY <1>3, <1>4, Concats
<1>6. j \in 1 .. a + b
  BY <1>1, <1>5
<1>7. CASE j <= a
  <2>1. j \in DOMAIN front /\ all[j] = front[j]
    BY <1>3, <1>4, <1>5, <1>6, <1>7
  <2>2. KeptAt(doc, cs, front, j) \/ NewAt(doc, cs, front, j)
    BY <1>1, <1>2, <2>1, UpToFrom
  <2> QED BY <1>1, <2>1, <2>2 DEF KeptAt, NewAt
<1>8. CASE ~(j <= a)
  <2>1. PICK m : m = j - a
    OBVIOUS
  <2>2. m \in 1 .. b /\ j = a + m /\ all[j] = last[m]
    BY <1>5, <1>6, <1>8, <2>1
  <2>3. m \in DOMAIN last
    BY <1>3, <1>4, <2>2
  <2>4. PICK c \in DOMAIN cs :
          /\ cs[c].from \in {n} /\ cs[c].to = n /\ Len(cs[c].insert) = 1
          /\ m = Len(Joined(Front(Inserts(cs, {n}, n), c)))
          /\ last[m] = cs[c].insert[1]
    BY <1>1, <2>3, InsertedFrom
  <2>5. At(doc, cs, c) = j
    BY <1>1, <1>4, <2>2, <2>4 DEF At
  <2> QED BY <1>1, <2>2, <2>4, <2>5 DEF NewAt
<1> QED BY <1>7, <1>8

LEMMA ImageSize ==
    ASSUME NEW n \in Nat, NEW f
    PROVE  IsFiniteSet({f[i] : i \in 1 .. n}) /\ Cardinality({f[i] : i \in 1 .. n}) <= n
<1>1. PICK g : g = [i \in 1 .. n |-> f[i]]
  OBVIOUS
<1>2. PICK T : T = {f[i] : i \in 1 .. n}
  OBVIOUS
<1>3. g \in Surjection(1 .. n, T)
  BY <1>1, <1>2 DEF Surjection
<1>4. IsFiniteSet(1 .. n) /\ Cardinality(1 .. n) = n
  BY FS_Interval
<1>5. IsFiniteSet(T) /\ Cardinality(T) <= n
  BY <1>3, <1>4, FS_Surjection
<1> QED BY <1>2, <1>5

\* A document with room for no more than as many characters as are kept or inserted.
LEMMA AppliedLength ==
    ASSUME NEW doc \in Seq(Nat), NEW cs, IsChanges(cs), IsShort(cs)
    PROVE  Len(ApplyAll(doc, cs)) <= Len(doc) + Len(cs)
<1>1. PICK m, n, all : m = Len(doc) /\ n = Len(cs) /\ all = ApplyAll(doc, cs)
  OBVIOUS
<1>2. m \in Nat /\ n \in Nat /\ DOMAIN doc = 1 .. m /\ DOMAIN cs = 1 .. n /\ all \in Seq(Nat)
  <2>1. ApplyAll(doc, cs) \in Seq(Nat)
    BY AppliedType
  <2>2. DOMAIN cs = 1 .. Len(cs) /\ Len(cs) \in Nat
    BY DEF IsChanges
  <2> QED BY <1>1, <2>1, <2>2
<1>3. PICK f, g : /\ f = [k \in 1 .. m |-> Len(UpTo(doc, cs, k))]
                  /\ g = [c \in 1 .. n |-> At(doc, cs, c)]
  OBVIOUS
<1>4. PICK S, T : S = {f[k] : k \in 1 .. m} /\ T = {g[c] : c \in 1 .. n}
  OBVIOUS
<1>5. /\ IsFiniteSet(S) /\ Cardinality(S) <= m /\ Cardinality(S) \in Nat
      /\ IsFiniteSet(T) /\ Cardinality(T) <= n /\ Cardinality(T) \in Nat
  BY <1>2, <1>4, ImageSize, FS_CardinalityType
<1>6. IsFiniteSet(S \cup T) /\ Cardinality(S \cup T) <= m + n
  <2>1. IsFiniteSet(S \cup T) /\ Cardinality(S \cup T) = Cardinality(S) + Cardinality(T) - Cardinality(S \cap T)
    BY <1>5, FS_Union
  <2>2. Cardinality(S \cap T) \in Nat /\ Cardinality(S \cup T) \in Nat
    <3>1. IsFiniteSet(S \cap T)
      BY <1>5, FS_Subset
    <3> QED BY <2>1, <3>1, FS_CardinalityType
  <2> QED BY <1>2, <1>5, <2>1, <2>2
<1>7. \A j \in DOMAIN all : j \in S \cup T
  <2> SUFFICES ASSUME NEW j \in DOMAIN all PROVE j \in S \cup T
    OBVIOUS
  <2>1. KeptAt(doc, cs, all, j) \/ NewAt(doc, cs, all, j)
    BY <1>1, AppliedFrom
  <2>2. CASE KeptAt(doc, cs, all, j)
    <3>1. PICK k \in 1 .. m : j = Len(UpTo(doc, cs, k))
      BY <1>2, <2>2 DEF KeptAt
    <3> QED BY <1>3, <1>4, <3>1
  <2>3. CASE NewAt(doc, cs, all, j)
    <3>1. PICK c \in 1 .. n : j = At(doc, cs, c)
      BY <1>2, <2>3 DEF NewAt
    <3> QED BY <1>3, <1>4, <3>1
  <2> QED BY <2>1, <2>2, <2>3
<1>8. DOMAIN all \subseteq S \cup T /\ DOMAIN all = 1 .. Len(all) /\ Len(all) \in Nat
  BY <1>2, <1>7
<1>9. Cardinality(1 .. Len(all)) <= Cardinality(S \cup T)
  BY <1>6, <1>8, FS_Subset
<1>10. Cardinality(1 .. Len(all)) = Len(all)
  <2>1. PICK size : size = Len(all)
    OBVIOUS
  <2>2. size \in Nat /\ 1 \in Int /\ size \in Int
    BY <1>8, <2>1
  <2>3. Cardinality(1 .. size) = IF 1 > size THEN 0 ELSE size - 1 + 1
    BY <2>2, FS_Interval
  <2>4. Cardinality(1 .. size) = size
    BY <2>2, <2>3
  <2> QED BY <2>1, <2>4
<1>11. Cardinality(S \cup T) \in Nat
  BY <1>6, FS_CardinalityType
<1> QED BY <1>1, <1>2, <1>6, <1>8, <1>9, <1>10, <1>11

-----------------------------------------------------------------------------
(* Characters are told apart *)

\* Changes that insert a character or line break each, which no document has had below fresh.
IsNew(cs, fresh) ==
    /\ IsShort(cs) /\ Len(cs) <= 2
    /\ \A i \in DOMAIN cs : Len(cs[i].insert) = 1 => cs[i].insert[1] \in {Break, fresh, fresh + 1}
    /\ \A i, j \in DOMAIN cs :
         (/\ Len(cs[i].insert) = 1 /\ Len(cs[j].insert) = 1
          /\ cs[i].insert[1] = cs[j].insert[1] /\ cs[i].insert[1] # Break) => i = j

\* Every character of doc but line breaks is there once, and below fresh.
Labelled(doc, fresh) ==
    /\ \A i \in DOMAIN doc : doc[i] < fresh
    /\ \A i, j \in DOMAIN doc : doc[i] = doc[j] /\ doc[i] # Break => i = j

\* A character that is not inserted is where CodeMirror maps the offset behind it.
LEMMA CharacterStays ==
    ASSUME NEW doc \in Seq(Nat), NEW cs, IsChanges(cs), NEW fresh \in Nat, IsNew(cs, fresh),
           NEW j \in DOMAIN ApplyAll(doc, cs), ApplyAll(doc, cs)[j] # Break, ApplyAll(doc, cs)[j] < fresh
    PROVE  \E k \in DOMAIN doc : doc[k] = ApplyAll(doc, cs)[j] /\ j = Len(UpTo(doc, cs, k))
<1>1. PICK all : all = ApplyAll(doc, cs)
  OBVIOUS
<1>2. KeptAt(doc, cs, all, j) \/ NewAt(doc, cs, all, j)
  BY <1>1, AppliedFrom DEF IsNew
<1>3. ~NewAt(doc, cs, all, j)
  <2> SUFFICES ASSUME NEW c \in DOMAIN cs, Len(cs[c].insert) = 1, all[j] = cs[c].insert[1] PROVE FALSE
    BY DEF NewAt
  <2>1. all[j] \in {Break, fresh, fresh + 1}
    BY DEF IsNew
  <2> QED BY <1>1, <2>1
<1> QED BY <1>1, <1>2, <1>3 DEF KeptAt

LEMMA AppliedLabels ==
    ASSUME NEW doc \in Seq(Nat), NEW cs, IsChanges(cs), NEW fresh \in Nat, IsNew(cs, fresh),
           Labelled(doc, fresh)
    PROVE  Labelled(ApplyAll(doc, cs), fresh + 2)
<1>1. PICK all : all = ApplyAll(doc, cs)
  OBVIOUS
<1>2. all \in Seq(Nat)
  BY <1>1, AppliedType
<1>3. \A j \in DOMAIN all : KeptAt(doc, cs, all, j) \/ NewAt(doc, cs, all, j)
  BY <1>1, AppliedFrom DEF IsNew
<1>4. \A j \in DOMAIN all : KeptAt(doc, cs, all, j) => all[j] < fresh
  BY DEF KeptAt, Labelled
<1>5. \A j \in DOMAIN all : NewAt(doc, cs, all, j) => all[j] \in {Break, fresh, fresh + 1}
  BY DEF NewAt, IsNew
<1>6. \A j \in DOMAIN all : all[j] < fresh + 2
  <2>1. \A c \in {Break, fresh, fresh + 1} : c < fresh + 2
    BY DEF Break
  <2>2. \A c \in Nat : c < fresh => c < fresh + 2
    OBVIOUS
  <2>3. \A j \in DOMAIN all : all[j] \in Nat
    BY <1>2
  <2> QED BY <1>3, <1>4, <1>5, <2>1, <2>2, <2>3
<1>7. ASSUME NEW i \in DOMAIN all, NEW j \in DOMAIN all, all[i] = all[j], all[i] # Break PROVE i = j
  <2>1. CASE KeptAt(doc, cs, all, i) /\ KeptAt(doc, cs, all, j)
    <3>1. PICK k \in DOMAIN doc : i = Len(UpTo(doc, cs, k)) /\ all[i] = doc[k]
      BY <2>1 DEF KeptAt
    <3>2. PICK l \in DOMAIN doc : j = Len(UpTo(doc, cs, l)) /\ all[j] = doc[l]
      BY <2>1 DEF KeptAt
    <3>3. k = l
      BY <1>7, <3>1, <3>2 DEF Labelled
    <3> QED BY <3>1, <3>2, <3>3
  <2>2. CASE NewAt(doc, cs, all, i) /\ NewAt(doc, cs, all, j)
    <3>1. PICK c \in DOMAIN cs : /\ Len(cs[c].insert) = 1 /\ i = At(doc, cs, c)
                                 /\ all[i] = cs[c].insert[1]
      BY <2>2 DEF NewAt
    <3>2. PICK d \in DOMAIN cs : /\ Len(cs[d].insert) = 1 /\ j = At(doc, cs, d)
                                 /\ all[j] = cs[d].insert[1]
      BY <2>2 DEF NewAt
    <3>3. c = d
      BY <1>7, <3>1, <3>2 DEF IsNew
    <3> QED BY <3>1, <3>2, <3>3
  <2>3. ~(KeptAt(doc, cs, all, i) /\ NewAt(doc, cs, all, j)) /\ ~(NewAt(doc, cs, all, i) /\ KeptAt(doc, cs, all, j))
    <3>1. \A c \in {Break, fresh, fresh + 1} : c # Break => ~(c < fresh)
      OBVIOUS
    <3> QED BY <1>4, <1>5, <1>7, <3>1
  <2> QED BY <1>3, <2>1, <2>2, <2>3
<1> QED BY <1>1, <1>6, <1>7 DEF Labelled

-----------------------------------------------------------------------------
(* Positions *)

LEMMA LineAtNext ==
    ASSUME NEW doc, NEW o \in Nat
    PROVE  LineAt(doc, o + 1) = IF doc[o + 1] = Break THEN LineAt(doc, o) + 1 ELSE LineAt(doc, o)
<1>1. PICK breaks, more : /\ breaks = {i \in 1 .. o : doc[i] = Break}
                          /\ more = {i \in 1 .. (o + 1) : doc[i] = Break}
  OBVIOUS
<1>2. IsFiniteSet(breaks) /\ o + 1 \notin breaks
  <2>1. breaks \subseteq 1 .. o
    BY <1>1
  <2>2. IsFiniteSet(1 .. o)
    BY FS_Interval
  <2>3. o + 1 \notin breaks
    BY <2>1
  <2>4. IsFiniteSet(breaks)
    BY <2>1, <2>2, FS_Subset
  <2> QED BY <2>3, <2>4
<1>3. more = IF doc[o + 1] = Break THEN breaks \cup {o + 1} ELSE breaks
  BY <1>1
<1>4. Cardinality(breaks \cup {o + 1}) = Cardinality(breaks) + 1
  BY <1>2, FS_AddElement
<1>5. LineAt(doc, o) = Cardinality(breaks) /\ LineAt(doc, o + 1) = Cardinality(more)
  BY <1>1 DEF LineAt
<1> QED BY <1>3, <1>4, <1>5

LEMMA LineAtStart == ASSUME NEW doc PROVE LineAt(doc, 0) = 0
<1>1. {i \in 1 .. 0 : doc[i] = Break} = {}
  OBVIOUS
<1> QED BY <1>1, FS_EmptySet DEF LineAt

LEMMA LineAtType == ASSUME NEW doc, NEW o \in Nat PROVE LineAt(doc, o) \in Nat
<1>1. {i \in 1 .. o : doc[i] = Break} \subseteq 1 .. o
  OBVIOUS
<1>2. IsFiniteSet(1 .. o)
  BY FS_Interval
<1>3. IsFiniteSet({i \in 1 .. o : doc[i] = Break})
  BY <1>1, <1>2, FS_Subset
<1> QED BY <1>3, FS_CardinalityType DEF LineAt

LEMMA LineAtGrows ==
    ASSUME NEW doc, NEW a \in Nat, NEW b \in Nat, a <= b PROVE LineAt(doc, a) <= LineAt(doc, b)
<1> DEFINE T == {n \in Nat : LineAt(doc, a) <= LineAt(doc, a + n)}
<1>1. 0 \in T
  BY LineAtType
<1>2. ASSUME NEW n \in Nat, n \in T PROVE n + 1 \in T
  <2>1. PICK o : o = a + n
    OBVIOUS
  <2>2. o \in Nat /\ o + 1 = a + (n + 1) /\ LineAt(doc, a) <= LineAt(doc, o)
    BY <1>2, <2>1
  <2>3. LineAt(doc, o) \in Nat /\ LineAt(doc, a) \in Nat
    BY <2>2, LineAtType
  <2>4. LineAt(doc, o + 1) \in {LineAt(doc, o), LineAt(doc, o) + 1}
    BY <2>2, LineAtNext
  <2>5. LineAt(doc, a) <= LineAt(doc, o + 1)
    BY <2>2, <2>3, <2>4
  <2> QED BY <2>2, <2>5
<1>3. Nat \subseteq T
  <2> HIDE DEF T
  <2> QED BY <1>1, <1>2, NatSetInduction
<1>4. b - a \in T /\ a + (b - a) = b
  BY <1>3
<1> QED BY <1>4

\* Offset o is where a line begins.
IsStart(doc, line, o) == LineAt(doc, o) = line /\ (o = 0 \/ doc[o] = Break)

LEMMA StartExists ==
    ASSUME NEW doc \in Seq(Nat), NEW o \in Offsets(doc), NEW line \in 0 .. LineAt(doc, o)
    PROVE  \E start \in Offsets(doc) : IsStart(doc, line, start)
<1> DEFINE T == {n \in Nat : n <= Len(doc) =>
                    \A l \in 0 .. LineAt(doc, n) : \E start \in Offsets(doc) : IsStart(doc, l, start)}
<1>1. 0 \in T
  <2>1. IsStart(doc, 0, 0) /\ 0 \in Offsets(doc) /\ LineAt(doc, 0) = 0
    BY LineAtStart DEF IsStart, Offsets
  <2> QED BY <2>1
<1>2. ASSUME NEW n \in Nat, n \in T PROVE n + 1 \in T
  <2> SUFFICES ASSUME n + 1 <= Len(doc), NEW l \in 0 .. LineAt(doc, n + 1)
               PROVE  \E start \in Offsets(doc) : IsStart(doc, l, start)
    OBVIOUS
  <2>1. LineAt(doc, n) \in Nat
    BY LineAtType
  <2>2. CASE l <= LineAt(doc, n)
    <3>1. l \in 0 .. LineAt(doc, n)
      <4>1. l \in Int /\ 0 <= l
        OBVIOUS
      <4> QED BY <2>1, <2>2, <4>1
    <3>2. n <= Len(doc)
      <4>1. Len(doc) \in Nat
        OBVIOUS
      <4> QED BY <4>1
    <3> QED BY <1>2, <3>1, <3>2
  <2>3. CASE ~(l <= LineAt(doc, n))
    <3>1. doc[n + 1] = Break /\ l = LineAt(doc, n + 1)
      <4>1. LineAt(doc, n + 1) = IF doc[n + 1] = Break THEN LineAt(doc, n) + 1 ELSE LineAt(doc, n)
        BY LineAtNext
      <4>2. PICK m, h : m = LineAt(doc, n) /\ h = LineAt(doc, n + 1)
        OBVIOUS
      <4>3. m \in Nat /\ l \in 0 .. h /\ ~(l <= m) /\ h = IF doc[n + 1] = Break THEN m + 1 ELSE m
        BY <2>1, <2>3, <4>1, <4>2
      <4> QED BY <4>2, <4>3
    <3>2. n + 1 \in Offsets(doc)
      BY DEF Offsets
    <3> QED BY <3>1, <3>2 DEF IsStart
  <2> QED BY <2>2, <2>3
<1>3. Nat \subseteq T
  <2> HIDE DEF T
  <2> QED BY <1>1, <1>2, NatSetInduction
<1> QED BY <1>3 DEF Offsets

LEMMA StartFirst ==
    ASSUME NEW doc, NEW start \in Nat, NEW o \in Nat, IsStart(doc, LineAt(doc, o), start)
    PROVE  start <= o
<1> SUFFICES ASSUME ~(start <= o) PROVE FALSE
  OBVIOUS
<1>1. PICK before : before = start - 1
  OBVIOUS
<1>2. before \in Nat /\ o <= before /\ before + 1 = start /\ start # 0
  BY <1>1
<1>3. doc[before + 1] = Break /\ LineAt(doc, before + 1) = LineAt(doc, o)
  BY <1>2 DEF IsStart
<1>4. LineAt(doc, before + 1) = LineAt(doc, before) + 1
  BY <1>2, <1>3, LineAtNext
<1>5. LineAt(doc, o) <= LineAt(doc, before)
  BY <1>2, LineAtGrows
<1>6. LineAt(doc, o) \in Nat /\ LineAt(doc, before) \in Nat
  BY <1>2, LineAtType
<1> QED BY <1>3, <1>4, <1>5, <1>6

LEMMA LinesIs ==
    ASSUME NEW doc \in Seq(Nat) PROVE Lines(doc) = 1 + LineAt(doc, Len(doc))
<1>1. DOMAIN doc = 1 .. Len(doc)
  OBVIOUS
<1> QED BY <1>1 DEF Lines, LineAt

LEMMA FromIs ==
    ASSUME NEW doc \in Seq(Nat), NEW line \in Nat, line < Lines(doc)
    PROVE  From(doc, line) \in Offsets(doc) /\ IsStart(doc, line, From(doc, line))
<1>1. Len(doc) \in Offsets(doc) /\ LineAt(doc, Len(doc)) \in Nat
  BY LineAtType DEF Offsets
<1>2. line \in 0 .. LineAt(doc, Len(doc))
  BY <1>1, LinesIs
<1>3. \E start \in Offsets(doc) : IsStart(doc, line, start)
  BY <1>1, <1>2, StartExists
<1>4. From(doc, line) = CHOOSE start \in Offsets(doc) : IsStart(doc, line, start)
  BY DEF From, IsStart
<1> QED BY <1>3, <1>4

\* The line of an offset is one of the document, and begins before it.
LEMMA FromBefore ==
    ASSUME NEW doc \in Seq(Nat), NEW o \in Offsets(doc)
    PROVE  /\ LineAt(doc, o) \in Nat /\ LineAt(doc, o) < Lines(doc)
           /\ From(doc, LineAt(doc, o)) \in Offsets(doc)
           /\ From(doc, LineAt(doc, o)) <= o
<1>1. o \in Nat /\ o <= Len(doc) /\ Len(doc) \in Nat
  BY DEF Offsets
<1>2. LineAt(doc, o) \in Nat /\ LineAt(doc, o) < Lines(doc)
  BY <1>1, LineAtType, LineAtGrows, LinesIs
<1>3. From(doc, LineAt(doc, o)) \in Offsets(doc)
      /\ IsStart(doc, LineAt(doc, o), From(doc, LineAt(doc, o)))
  BY <1>2, FromIs
<1> QED BY <1>1, <1>2, <1>3, StartFirst DEF Offsets

IsPosition(p) == p.line \in Nat /\ p.character \in Nat

\* A position of whatever document is an offset of this one, or undefined.
LEMMA posToOffsetType ==
    ASSUME NEW doc \in Seq(Nat), NEW p, IsPosition(p)
    PROVE  /\ posToOffset(doc, p) \in Offsets(doc) \cup {Undefined}
           /\ posToOffsetOrZero(doc, p) \in Offsets(doc)
<1>0. Len(doc) \in Nat /\ 0 \in Offsets(doc) /\ Len(doc) \in Offsets(doc)
  BY DEF Offsets
<1>1. posToOffset(doc, p) \in Offsets(doc) \cup {Undefined}
  <2>1. CASE p.line >= Lines(doc)
    BY <1>0, <2>1 DEF posToOffset, NextLine
  <2>2. CASE ~(p.line >= Lines(doc))
    <3>1. Lines(doc) \in Nat
      BY <1>0, LinesIs, LineAtType
    <3>2. From(doc, p.line) \in Offsets(doc)
      BY <2>2, <3>1, FromIs DEF IsPosition
    <3> QED BY <1>0, <2>2, <3>2 DEF posToOffset, InDoc, Offsets, IsPosition
  <2> QED BY <2>1, <2>2
<1> QED BY <1>0, <1>1 DEF posToOffsetOrZero

LEMMA offsetToPosType ==
    ASSUME NEW doc \in Seq(Nat), NEW o \in Offsets(doc)
    PROVE  /\ IsPosition(offsetToPos(doc, o))
           /\ posToOffset(doc, offsetToPos(doc, o)) = o
<1>1. PICK line, start : line = LineAt(doc, o) /\ start = From(doc, line)
  OBVIOUS
<1>2. /\ line \in Nat /\ line < Lines(doc) /\ start \in Nat /\ start <= o /\ o \in Nat
      /\ o <= Len(doc) /\ Len(doc) \in Nat /\ Lines(doc) \in Nat
  BY <1>1, FromBefore, LinesIs, LineAtType, SMTT(30) DEF Offsets
<1>3. offsetToPos(doc, o) = [line |-> line, character |-> o - start]
  BY <1>1 DEF offsetToPos
<1>4. PICK p : p = offsetToPos(doc, o)
  OBVIOUS
<1>5. p.line = line /\ p.character = o - start
  BY <1>3, <1>4
<1>6. posToOffset(doc, p) = o
  BY <1>1, <1>2, <1>5 DEF posToOffset, InDoc
<1> QED BY <1>2, <1>4, <1>5, <1>6 DEF IsPosition

-----------------------------------------------------------------------------
(* Places *)

\* The document is one, and so is what the language server has.
TextInv ==
    /\ setup \in Setups /\ text \in Seq(Nat) /\ edits \in Nat /\ known \in Seq(Nat)
    /\ edits <= setup.changes
    /\ Labelled(text, Fresh) /\ Len(text) <= Len(setup.text) + 2 * edits

\* The offsets of completions are in their documents.
IsQuery(q) == q = [stage |-> q.stage, doc |-> q.doc, pos |-> q.pos, from |-> q.from, to |-> q.to,
                   lost |-> q.lost]
IsPopup(p) == p = [open |-> p.open, doc |-> p.doc, pos |-> p.pos, from |-> p.from, to |-> p.to,
                   answer |-> p.answer, options |-> p.options]
InText(range, doc) ==
    range.from \in Offsets(doc) /\ range.to \in Offsets(doc) /\ range.from <= range.to

CompletionsInv ==
    /\ IsQuery(query) /\ query.doc \in Seq(Nat)
    /\ query.stage # "none" => query.pos \in DOMAIN query.doc
    /\ ~query.lost => InText(query, text)
    /\ IsPopup(popup) /\ popup.doc \in Seq(Nat)
    /\ popup.open => popup.pos \in DOMAIN popup.doc
    /\ InText(popup, text)

\* What the language server has answered with are positions, of whatever document.
IsSpan(span) == IsPosition(span.start) /\ IsPosition(span.end)
IsEdit(edit) == /\ edit = [span |-> edit.span, insert |-> edit.insert]
                /\ IsSpan(edit.span) /\ edit.insert \in Seq(Nat)
ExtrasInv ==
    /\ \E E : extras \in Seq(E)
    /\ Len(extras) <= 2 /\ edits + Len(extras) <= setup.changes
    /\ \A i \in DOMAIN extras : /\ IsSpan(extras[i].span)
                                /\ extras[i].insert \in {<<>>, <<Fresh + 2 * (i - 1)>>}

IsFind(f) == f = [stage |-> f.stage, goToIfOneOption |-> f.goToIfOneOption,
                  outcome |-> f.outcome, doc |-> f.doc]
FindsInv ==
    /\ find = [n \in Finds |-> find[n]]
    /\ \A n \in Finds : IsFind(find[n]) /\ find[n].doc \in Seq(Nat)
    /\ panel = <<>> \/ IsSpan(panel[1])

WordsInv == prepare.doc \in Seq(Nat) /\ Len(rename.spans) <= 2 /\ \E S : rename.spans \in Seq(S)

\* Even a word that comes too late selects offsets, or what is none.
Placed(doc, s) == s \in (Offsets(doc) \cup {Undefined}) \X (Offsets(doc) \cup {Undefined})
SelectionInv == Placed(text, selection) /\ SelectionInText

PlacesInv ==
    /\ TextInv /\ CompletionsInv /\ ExtrasInv /\ FindsInv /\ WordsInv /\ SelectionInv

-----------------------------------------------------------------------------
(* What a transaction does *)

\* Changes that the bounds allow, of which what they insert is new.
Sound(cs) == IsChanges(cs) /\ IsNew(cs, Fresh) /\ (cs # <<>> => MayChange(1))
Dispatched(tr) == Dispatch(tr) /\ Sound(tr.changes)

\* What a step is for the view, signature help and completions.
ViewPart ==
    \/ \E tr : Dispatched(tr)
    \/ /\ ViewKept
       /\ UNCHANGED completionVars \/ CompletionLocks \/ CompletionStep
       /\ UNCHANGED signatureVars \/ SignatureStep \/ \E n \in Requests : SignatureLocks(n)

Awaited == \E w \in Waiters : LockAwaited(w)
Locks == LockKept \/ Awaited \/ LockTaken \/ LockLeft \/ LockRetaken

LEMMA WaitersAre ==
    /\ \A n \in Requests : Signature(n) \in Waiters
    /\ \A n \in Finds : Reference(n) \in Waiters
    /\ Query \in Waiters
<1>1. Requests \subseteq Nat /\ Finds \subseteq Nat /\ 0 \in Nat
  BY RequestAssumption, FindAssumption DEF Requests, Finds
<1> QED BY <1>1 DEF Signature, Reference, Query, Waiter, Waiters, Features

\* What a step of the lock sends.
LEMMA LocksSend ==
    ASSUME Locks
    PROVE  \/ UNCHANGED <<sent, known, lastSent>>
           \/ Sends
BY DEF Locks, Awaited, LockKept, LockAwaited, LockTaken, LockLeft, LockRetaken, SyncChanges, Started,
       syncVars

LEMMA FreshType == ASSUME TextInv PROVE Fresh \in Nat /\ Fresh > 0
<1>1. setup.text \in Seq(Nat)
  BY SetupAssumption DEF TextInv
<1>2. PICK l, n : l = Len(setup.text) /\ n = edits
  OBVIOUS
<1>3. l \in Nat /\ n \in Nat /\ Fresh = l + 2 * n + 1
  BY <1>1, <1>2 DEF Fresh, TextInv
<1>4. l + 2 * n + 1 \in Nat /\ l + 2 * n + 1 > 0
  BY <1>3
<1> QED BY <1>3, <1>4

LEMMA FreshGrows == ASSUME TextInv, setup' = setup, edits' = edits + 1 PROVE Fresh' = Fresh + 2
<1>1. PICK l, n : l = Len(setup.text) /\ n = edits
  OBVIOUS
<1>2. setup.text \in Seq(Nat)
  BY SetupAssumption DEF TextInv
<1>3. l \in Nat /\ n \in Nat /\ Fresh = l + 2 * n + 1 /\ Fresh' = l + 2 * (n + 1) + 1
  BY <1>1, <1>2 DEF Fresh, TextInv
<1> QED BY <1>3

\* What one change may insert.
IsInsert(insert) == insert = <<>> \/ \E c \in {Break, Fresh, Fresh + 1} : insert = <<c>>

LEMMA InsertIs ==
    ASSUME TextInv, NEW insert, IsInsert(insert)
    PROVE  /\ insert \in Seq(Nat) /\ Len(insert) <= 1
           /\ Len(insert) = 1 => insert[1] \in {Break, Fresh, Fresh + 1}
<1>1. CASE insert = <<>>
  <2>1. insert \in Seq(Nat) /\ Len(insert) = 0
    BY <1>1
  <2> QED BY <2>1
<1>2. CASE \E c \in {Break, Fresh, Fresh + 1} : insert = <<c>>
  <2>1. PICK c \in {Break, Fresh, Fresh + 1} : insert = <<c>>
    BY <1>2
  <2>2. c \in Nat
    BY FreshType DEF Break
  <2>3. insert \in Seq(Nat) /\ Len(insert) = 1 /\ insert[1] = c
    BY <2>1, <2>2
  <2> QED BY <2>3
<1> QED BY <1>1, <1>2 DEF IsInsert

LEMMA OneChange ==
    ASSUME TextInv, NEW from, NEW to, NEW insert, IsInsert(insert), MayChange(1)
    PROVE  /\ Sound(<<Change(from, to, insert)>>)
           /\ DOMAIN <<Change(from, to, insert)>> = {1}
           /\ <<Change(from, to, insert)>>[1].insert = insert
<1>1. PICK c : c = Change(from, to, insert)
  OBVIOUS
<1>2. c.insert = insert
  BY <1>1 DEF Change
<1>3. PICK cs : cs = <<c>>
  OBVIOUS
<1>4. DOMAIN cs = {1} /\ cs[1] = c /\ cs \in Seq({c}) /\ Range(cs) = {c} /\ Len(cs) = 1
  BY <1>3 DEF Range
<1>5. IsChanges(cs)
  BY <1>2, <1>4, InsertIs DEF IsChanges
<1>6. IsNew(cs, Fresh)
  <2>1. /\ Len(cs[1].insert) <= 1
        /\ Len(cs[1].insert) = 1 => cs[1].insert[1] \in {Break, Fresh, Fresh + 1}
    BY <1>2, <1>4, InsertIs
  <2>2. \A i \in DOMAIN cs : i = 1
    BY <1>4
  <2>3. IsShort(cs) /\ Len(cs) <= 2
    BY <1>4, <2>1, <2>2 DEF IsShort
  <2>4. \A i \in DOMAIN cs : Len(cs[i].insert) = 1 => cs[i].insert[1] \in {Break, Fresh, Fresh + 1}
    BY <2>1, <2>2
  <2>5. ASSUME NEW i \in DOMAIN cs, NEW j \in DOMAIN cs PROVE i = j
    <3>1. i = 1 /\ j = 1
      BY <2>2, Zenon
    <3> QED BY <3>1
  <2> QED BY <2>3, <2>4, <2>5 DEF IsNew
<1> QED BY <1>1, <1>2, <1>3, <1>4, <1>5, <1>6 DEF Sound

LEMMA NoChange == Sound(<<>>)
BY DEF Sound, IsChanges, IsNew, IsShort

LEMMA MappedType ==
    ASSUME TextInv, NEW tr, IsChanges(tr.changes), ViewUpdate(tr)
    PROVE  /\ text' \in Seq(Nat)
           /\ \A o \in Offsets(text) : Mapped(tr, o) \in Offsets(text')
           /\ \A a, b \in Offsets(text) : a <= b => Mapped(tr, a) <= Mapped(tr, b)
<1>1. text' = ApplyAll(text, tr.changes) /\ text \in Seq(Nat)
  BY DEF ViewUpdate, TextInv
<1>2. \A o \in Offsets(text) : Mapped(tr, o) = Len(UpTo(text, tr.changes, o))
  BY DEF Offsets, Mapped, Undefined
<1>3. text' \in Seq(Nat) /\ \A o \in Offsets(text) : Len(UpTo(text, tr.changes, o)) \in Offsets(text')
  BY <1>1, AppliedType
<1>4. \A a, b \in Offsets(text) : a <= b =>
        Len(UpTo(text, tr.changes, a)) <= Len(UpTo(text, tr.changes, b))
  BY <1>1, UpToGrows
<1> QED BY <1>2, <1>3, <1>4

LEMMA TextKeeps ==
    ASSUME TextInv, ViewPart, Locks
    PROVE  TextInv'
<1>1. CASE ViewKept
  BY <1>1, LocksSend DEF ViewKept, TextInv, Fresh, Labelled, Sends
<1>2. ASSUME NEW tr, Dispatched(tr) PROVE TextInv'
  <2>1. ViewUpdate(tr) /\ Sound(tr.changes)
    BY <1>2 DEF Dispatched, Dispatch
  <2>2. PICK cs : cs = tr.changes
    OBVIOUS
  <2>3. IsChanges(cs) /\ IsNew(cs, Fresh) /\ Len(cs) \in Nat /\ Len(cs) <= 2
    BY <2>1, <2>2 DEF Sound, IsNew, IsChanges
  <2>4. text' = ApplyAll(text, cs) /\ setup' = setup
    BY <2>1, <2>2 DEF ViewUpdate
  <2>5. text \in Seq(Nat) /\ text' \in Seq(Nat)
    BY <2>1, MappedType DEF Sound, TextInv
  <2>6. known' \in Seq(Nat)
    BY <2>5, LocksSend DEF Sends, TextInv
  <2>7. setup.text \in Seq(Nat) /\ setup.changes \in Nat
    BY SetupAssumption DEF TextInv
  <2>8. CASE cs = <<>>
    <3>1. text' = text /\ edits' = edits
      BY <2>1, <2>2, <2>4, <2>5, <2>8, AppliedNothing DEF ViewUpdate, DocChanged
    <3> QED BY <2>4, <2>6, <3>1 DEF TextInv, Fresh, Labelled
  <2>9. CASE cs # <<>>
    <3>1. edits' = edits + 1 /\ edits + 1 <= setup.changes
      BY <2>1, <2>2, <2>9 DEF ViewUpdate, DocChanged, Sound, MayChange
    <3>2. Labelled(text', Fresh + 2)
      BY <2>3, <2>4, <2>5, FreshType, AppliedLabels DEF TextInv
    <3>3. Fresh' = Fresh + 2
      BY <2>4, <3>1, FreshGrows
    <3>4. Len(text') <= Len(text) + Len(cs)
      BY <2>3, <2>4, <2>5, AppliedLength DEF IsNew
    <3>5. Len(text') <= Len(setup.text) + 2 * (edits + 1)
      <4>1. PICK m, n, l, k : m = Len(text') /\ n = Len(text) /\ l = Len(setup.text) /\ k = Len(cs)
        OBVIOUS
      <4>2. m \in Nat /\ n \in Nat /\ l \in Nat /\ k \in Nat /\ m <= n + k /\ k <= 2 /\ n <= l + 2 * edits
            /\ edits \in Nat
        <5>1. m \in Nat /\ n \in Nat /\ l \in Nat /\ k \in Nat /\ k <= 2
          BY <2>3, <2>5, <2>7, <4>1
        <5>2. m <= n + k /\ n <= l + 2 * edits /\ edits \in Nat
          BY <3>4, <4>1 DEF TextInv
        <5> QED BY <5>1, <5>2
      <4>3. m <= l + 2 * (edits + 1)
        BY <4>2
      <4> QED BY <4>1, <4>3
    <3>6. setup' \in Setups /\ edits' \in Nat /\ edits' <= setup'.changes
          /\ Len(text') <= Len(setup'.text) + 2 * edits'
      <4>1. setup' \in Setups /\ edits' \in Nat
        BY <2>4, <3>1 DEF TextInv
      <4> QED BY <2>4, <3>1, <3>5, <4>1
    <3> QED BY <2>5, <2>6, <3>2, <3>3, <3>6 DEF TextInv
  <2> QED BY <2>8, <2>9
<1> QED BY <1>1, <1>2 DEF ViewPart

LEMMA CompletionsKeep ==
    ASSUME TextInv, CompletionsInv, ViewPart PROVE CompletionsInv'
<1>0. 0 \in Offsets(text') /\ InText(NoPopup, text') /\ InText(NoQuery, text')
  <2>1. text' \in Seq(Nat)
    BY MappedType DEF ViewPart, Dispatched, Dispatch, Sound, ViewKept, TextInv
  <2> QED BY <2>1 DEF Offsets, InText, NoPopup, NoQuery
<1>1. ASSUME popup' = NoPopup
      PROVE  /\ IsPopup(popup)' /\ popup'.doc \in Seq(Nat)
             /\ popup'.open => popup'.pos \in DOMAIN popup'.doc
             /\ InText(popup', text')
  BY <1>0, <1>1 DEF NoPopup, IsPopup
<1>2. ASSUME query' = NoQuery
      PROVE  /\ IsQuery(query)' /\ query'.doc \in Seq(Nat)
             /\ query'.stage # "none" => query'.pos \in DOMAIN query'.doc
             /\ InText(query', text')
  BY <1>0, <1>2 DEF NoQuery, IsQuery
<1>3. ASSUME NEW tr, Dispatched(tr) PROVE CompletionsInv'
  <2>1. ViewUpdate(tr) /\ CompletionUpdate(tr) /\ IsChanges(tr.changes)
    BY <1>3 DEF Dispatched, Dispatch, Sound
  <2>2. CASE SelectionSet(tr)
    <3>1. popup' = NoPopup /\ query' = [query EXCEPT !.lost = TRUE]
      BY <2>1, <2>2 DEF CompletionUpdate
    <3>2. /\ IsQuery(query)' /\ query'.lost /\ query'.doc = query.doc /\ query'.pos = query.pos
          /\ query'.stage = query.stage
      BY <3>1 DEF IsQuery, CompletionsInv
    <3> QED BY <1>1, <3>1, <3>2 DEF CompletionsInv
  <2>3. CASE ~SelectionSet(tr)
    <3>1. /\ query' = IF query.lost THEN query
                      ELSE [query EXCEPT !.from = Mapped(tr, query.from), !.to = Mapped(tr, query.to)]
          /\ popup' = [popup EXCEPT !.from = Mapped(tr, popup.from), !.to = Mapped(tr, popup.to)]
      BY <2>1, <2>3 DEF CompletionUpdate
    <3>2. /\ IsPopup(popup)' /\ popup'.doc = popup.doc /\ popup'.pos = popup.pos
          /\ popup'.open = popup.open
          /\ popup'.from = Mapped(tr, popup.from) /\ popup'.to = Mapped(tr, popup.to)
      BY <3>1 DEF IsPopup, CompletionsInv
    <3>3. InText(popup', text')
      BY <2>1, <3>2, MappedType DEF InText, CompletionsInv
    <3>4. CASE query.lost
      <4>1. query' = query
        BY <3>1, <3>4
      <4> QED BY <3>2, <3>3, <3>4, <4>1 DEF CompletionsInv, IsQuery
    <3>5. CASE ~query.lost
      <4>1. /\ IsQuery(query)' /\ query'.doc = query.doc /\ query'.pos = query.pos
            /\ query'.stage = query.stage
            /\ query'.from = Mapped(tr, query.from) /\ query'.to = Mapped(tr, query.to)
        BY <3>1, <3>5 DEF IsQuery, CompletionsInv
      <4>2. InText(query', text')
        BY <2>1, <3>5, <4>1, MappedType DEF InText, CompletionsInv
      <4> QED BY <3>2, <3>3, <4>1, <4>2 DEF CompletionsInv
    <3> QED BY <3>4, <3>5
  <2> QED BY <2>2, <2>3
<1>4. CASE ViewKept /\ UNCHANGED completionVars
  BY <1>4 DEF ViewKept, completionVars, CompletionsInv, IsQuery, IsPopup
<1>9. CASE ViewKept /\ query' = NoQuery /\ UNCHANGED popup
  BY <1>2, <1>9 DEF CompletionsInv, IsPopup, ViewKept
<1>5. CASE ViewKept /\ CompletionLocks /\ query' # NoQuery
  <2>1. /\ query' = [query EXCEPT !.stage = "asked"] /\ query.stage # "none"
        /\ UNCHANGED popup /\ text' = text
    BY <1>5 DEF CompletionLocks, ViewKept
  <2>2. /\ IsQuery(query)' /\ query'.doc = query.doc /\ query'.pos = query.pos
        /\ query'.from = query.from /\ query'.to = query.to /\ query'.lost = query.lost
    BY <2>1 DEF IsQuery, CompletionsInv
  <2> QED BY <2>1, <2>2 DEF CompletionsInv, InText, IsPopup
<1>6. CASE Complete
  <2>1. PICK stage :
          /\ popup' = NoPopup /\ text' = text /\ Cursor \in Offsets(text)
          /\ Cursor > 0
          /\ query' = [stage |-> stage, doc |-> text, pos |-> Cursor, from |-> Cursor - 1,
                       to |-> Cursor, lost |-> FALSE]
    BY <1>6 DEF Complete, ViewKept, NoQuery, MayComplete
  <2>2. /\ IsQuery(query)' /\ query'.doc = text /\ query'.pos = Cursor
        /\ query'.from = Cursor - 1 /\ query'.to = Cursor
    BY <2>1 DEF IsQuery
  <2>3. text \in Seq(Nat) /\ Cursor \in DOMAIN text
    BY <2>1 DEF TextInv, Offsets
  <2>4. InText(query', text')
    BY <2>1, <2>2, <2>3 DEF InText, Offsets
  <2> QED BY <1>1, <2>1, <2>2, <2>3, <2>4 DEF CompletionsInv
<1>7. CASE CompletionAnswer
  <2>1. query' = NoQuery /\ text' = text /\ query.stage = "asked"
    BY <1>7 DEF CompletionAnswer, ViewKept
  <2>2. CASE popup' = NoPopup
    BY <1>1, <1>2, <2>1, <2>2 DEF CompletionsInv
  <2>3. ASSUME NEW answer, popup' = Popup(answer), ~query.lost PROVE CompletionsInv'
    <3>1. /\ IsPopup(popup)' /\ popup'.doc = query.doc /\ popup'.pos = query.pos
          /\ popup'.from \in {query.from, query.to} /\ popup'.to = query.to
      BY <2>3 DEF Popup, IsPopup
    <3>2. InText(popup', text')
      BY <2>1, <2>3, <3>1 DEF InText, CompletionsInv, Offsets
    <3> QED BY <1>2, <2>1, <3>1, <3>2 DEF CompletionsInv
  <2> QED BY <1>7, <2>2, <2>3 DEF CompletionAnswer
<1>8. CASE CompletionFails
  BY <1>8, <1>9 DEF CompletionFails
<1>10. CASE ViewKept /\ CompletionLocks
  BY <1>5, <1>9, <1>10 DEF CompletionLocks
<1> QED BY <1>3, <1>4, <1>6, <1>7, <1>8, <1>10 DEF ViewPart, CompletionStep

-----------------------------------------------------------------------------
(* The selection *)

Selected(doc, s) == s \in Offsets(doc) \X Offsets(doc)

LEMMA Selects == \A doc, a, b : Selected(doc, <<a, b>>) <=> a \in Offsets(doc) /\ b \in Offsets(doc)
BY DEF Selected

LEMMA SelectsHave ==
    \A doc, s : Selected(doc, s) => s[1] \in Offsets(doc) /\ s[2] \in Offsets(doc)
BY DEF Selected

LEMMA Places ==
    \A doc, a, b : Placed(doc, <<a, b>>) <=>
        a \in Offsets(doc) \cup {Undefined} /\ b \in Offsets(doc) \cup {Undefined}
BY DEF Placed

LEMMA PlacesHave ==
    \A doc, s : Placed(doc, s) => /\ s[1] \in Offsets(doc) \cup {Undefined}
                                  /\ s[2] \in Offsets(doc) \cup {Undefined}
BY DEF Placed

LEMMA SelectedIs == \A doc, s : Selected(doc, s) => Placed(doc, s)
BY DEF Selected, Placed

LEMMA NowSelected == ASSUME Selected(text', selection') PROVE SelectionInv'
BY SelectedIs DEF SelectionInv, SelectionInText, Selected

\* A selection that is not set is mapped.
LEMMA MappedSelected ==
    ASSUME TextInv, NEW tr, IsChanges(tr.changes), ViewUpdate(tr), ~SelectionSet(tr),
           Placed(text, selection)
    PROVE  /\ Placed(text', selection')
           /\ Selected(text, selection) => Selected(text', selection')
<1>1. PICK a, b : a = Mapped(tr, selection[1]) /\ b = Mapped(tr, selection[2])
  OBVIOUS
<1>2. /\ selection[1] \in Offsets(text) => a \in Offsets(text')
      /\ selection[2] \in Offsets(text) => b \in Offsets(text')
  BY <1>1, MappedType
<1>3. a \in Offsets(text') \cup {Undefined} /\ b \in Offsets(text') \cup {Undefined}
  BY <1>1, <1>2, PlacesHave DEF Mapped
<1>4. selection' = [i \in 1 .. 2 |-> Mapped(tr, selection[i])]
  BY DEF ViewUpdate
<1>5. selection' = <<a, b>>
  BY <1>1, <1>4
<1>6. Placed(text', selection')
  BY <1>3, <1>5, Places
<1>7. Selected(text, selection) => Selected(text', selection')
  BY <1>2, <1>5, Selects, SelectsHave
<1> QED BY <1>6, <1>7

\* One that is set is where it is to be.
LEMMA SetSelected ==
    ASSUME NEW tr, NEW a, NEW b, tr.selects = <<a, b>>, ViewUpdate(tr),
           a \in Offsets(text'), b \in Offsets(text')
    PROVE  Selected(text', selection')
<1>1. SelectionSet(tr)
  BY DEF SelectionSet
<1> QED BY <1>1, Selects DEF ViewUpdate

\* Without changes the document stays.
LEMMA SelectKeeps ==
    ASSUME TextInv, NEW a, NEW b, ViewUpdate(Select(a, b))
    PROVE  /\ text' = text /\ selection' = <<a, b>>
           /\ a \in Offsets(text) /\ b \in Offsets(text) => Selected(text', selection')
<1>1. PICK tr : tr = Select(a, b)
  OBVIOUS
<1>2. tr.changes = <<>> /\ tr.selects = <<a, b>> /\ ViewUpdate(tr)
  BY <1>1 DEF Select, Transaction
<1>3. text' = text
  BY <1>2, AppliedNothing DEF ViewUpdate, TextInv
<1>4. selection' = <<a, b>>
  BY <1>2 DEF ViewUpdate, SelectionSet
<1> QED BY <1>3, <1>4, Selects

\* The first of the changes inserts so much, and no other is before it.
LEMMA CursorAfter ==
    ASSUME TextInv, NEW cs, IsChanges(cs), NEW typed, NEW cursor, 1 \in DOMAIN cs,
           InText(cs[1], text), \A i \in DOMAIN cs : cs[i].from = cs[1].from,
           cursor = cs[1].from + Len(cs[1].insert),
           ViewUpdate(Transaction(cs, <<cursor, cursor>>, typed))
    PROVE  Selected(text', selection')
<1>1. PICK tr : tr = Transaction(cs, <<cursor, cursor>>, typed)
  OBVIOUS
<1>2. tr.changes = cs /\ tr.selects = <<cursor, cursor>> /\ ViewUpdate(tr)
  BY <1>1 DEF Transaction
<1>3. text' = ApplyAll(text, cs) /\ text \in Seq(Nat)
  BY <1>2 DEF ViewUpdate, TextInv
<1>4. PICK from : from = cs[1].from
  OBVIOUS
<1>5. from \in Nat /\ \A i \in DOMAIN cs : cs[i].from \in Nat /\ cs[i].from >= cs[1].from
  BY <1>4 DEF InText, Offsets
<1>6. cursor <= Len(text')
  BY <1>3, <1>5, InsertStays DEF InText
<1>7. Len(cs[1].insert) \in Nat /\ text' \in Seq(Nat)
  <2>1. cs[1].insert \in Seq(Nat)
    BY DEF IsChanges
  <2>2. text' \in Seq(Nat)
    BY <1>3, AppliedType, Zenon
  <2> QED BY <2>1, <2>2
<1>8. cursor \in Offsets(text')
  BY <1>4, <1>5, <1>6, <1>7 DEF Offsets
<1> QED BY <1>2, <1>8, SetSelected

-----------------------------------------------------------------------------
(* The user and others *)


\* Insert is what replaces the selection, or the character before it.
LEMMA ReplaceSelects ==
    ASSUME TextInv, NEW from \in Offsets(text), NEW to \in Offsets(text), from <= to,
           NEW insert, IsInsert(insert), MayChange(1), NEW cursor, cursor = from + Len(insert), NEW typed,
           User(Transaction(<<Change(from, to, insert)>>, <<cursor, cursor>>, typed))
    PROVE  ViewPart /\ LockKept /\ UNCHANGED commandVars /\ SelectionInv'
<1>1. PICK c : c = Change(from, to, insert)
  OBVIOUS
<1>2. PICK cs : cs = <<c>>
  OBVIOUS
<1>3. Sound(cs) /\ DOMAIN cs = {1} /\ cs[1] = c
  BY <1>1, <1>2, OneChange
<1>4. PICK tr : tr = Transaction(cs, <<cursor, cursor>>, typed)
  OBVIOUS
<1>5. Dispatch(tr) /\ LockKept /\ UNCHANGED commandVars /\ tr.changes = cs
  BY <1>1, <1>2, <1>4 DEF User, Transaction
<1>6. ViewPart
  BY <1>3, <1>5 DEF ViewPart, Dispatched
<1>7. /\ InText(cs[1], text) /\ cursor = cs[1].from + Len(cs[1].insert)
      /\ \A i \in DOMAIN cs : cs[i].from = cs[1].from
  BY <1>1, <1>3 DEF InText, Change
<1>8. ViewUpdate(Transaction(cs, <<cursor, cursor>>, typed))
  BY <1>4, <1>5 DEF Dispatch
<1>9. Selected(text', selection')
  BY <1>3, <1>7, <1>8, CursorAfter DEF Sound
<1> QED BY <1>5, <1>6, <1>9, NowSelected

LEMMA SelectionEnds ==
    ASSUME TextInv, SelectionInv, First # Undefined
    PROVE  First \in Offsets(text) /\ Last \in Offsets(text) /\ First <= Last
<1>1. PICK a, b, n : a = selection[1] /\ b = selection[2] /\ n = Len(text)
  OBVIOUS
<1>2. n \in Nat /\ a \in (0 .. n) \cup {Undefined} /\ b \in (0 .. n) \cup {Undefined}
  BY <1>1, PlacesHave DEF SelectionInv, TextInv, Offsets
<1>3. First = (IF a < b THEN a ELSE b) /\ Last = (IF a < b THEN b ELSE a)
  BY <1>1 DEF First, Last
<1>4. First \in 0 .. n /\ Last \in 0 .. n /\ First <= Last
  BY <1>2, <1>3 DEF Undefined
<1> QED BY <1>1, <1>4 DEF Offsets

LEMMA MayEditChange == ASSUME TextInv, MayEdit PROVE MayChange(1)
<1>1. setup.edits \in 0 .. setup.changes /\ setup.changes \in Nat
  BY SetupAssumption DEF TextInv
<1> QED BY <1>1 DEF MayEdit, MayChange, TextInv

LEMMA TypeSelects ==
    ASSUME TextInv, SelectionInv, Type
    PROVE  ViewPart /\ LockKept /\ UNCHANGED commandVars /\ SelectionInv'
<1>1. PICK from, cursor, typed, character :
        /\ from = First /\ cursor = First + 1 /\ character \in {Break, Fresh}
        /\ User(Transaction(<<Change(from, Last, <<character>>)>>, <<cursor, cursor>>, typed))
  BY DEF Type
<1>2. PICK insert : insert = <<character>>
  OBVIOUS
<1>3. IsInsert(insert) /\ Len(insert) = 1
  BY <1>1, <1>2 DEF IsInsert
<1>4. User(Transaction(<<Change(from, Last, insert)>>, <<cursor, cursor>>, typed))
  BY <1>1, <1>2
<1>5. from \in Offsets(text) /\ Last \in Offsets(text) /\ from <= Last /\ cursor = from + Len(insert)
  BY <1>1, <1>3, SelectionEnds DEF Type
<1>6. MayChange(1)
  BY MayEditChange DEF Type
<1> QED BY <1>3, <1>4, <1>5, <1>6, ReplaceSelects

LEMMA DeleteSelects ==
    ASSUME TextInv, SelectionInv, Delete
    PROVE  ViewPart /\ LockKept /\ UNCHANGED commandVars /\ SelectionInv'
<1>1. PICK from, insert :
        /\ from = IF First < Last THEN First ELSE First - 1
        /\ from >= 0 /\ insert = <<>>
        /\ User(Transaction(<<Change(from, Last, insert)>>, <<from, from>>, "none"))
  BY DEF Delete
<1>2. IsInsert(insert) /\ Len(insert) = 0
  BY <1>1 DEF IsInsert
<1>3. from \in Offsets(text) /\ Last \in Offsets(text) /\ from <= Last /\ from = from + Len(insert)
  BY <1>1, <1>2, SelectionEnds DEF Offsets, Delete
<1>4. MayChange(1)
  BY MayEditChange DEF Delete
<1> QED BY <1>1, <1>2, <1>3, <1>4, ReplaceSelects

LEMMA MoveSelects ==
    ASSUME TextInv, Move
    PROVE  ViewPart /\ LockKept /\ UNCHANGED commandVars /\ SelectionInv'
<1>1. PICK o \in Offsets(text) : User(Select(o, o))
  BY DEF Move
<1>2. PICK tr : tr = Select(o, o)
  OBVIOUS
<1>3. Dispatch(tr) /\ LockKept /\ UNCHANGED commandVars /\ tr.changes = <<>>
  BY <1>1, <1>2 DEF User, Select, Transaction
<1>4. ViewPart
  BY <1>3, NoChange DEF ViewPart, Dispatched
<1>5. ViewUpdate(Select(o, o))
  BY <1>2, <1>3 DEF Dispatch
<1>6. Selected(text', selection')
  BY <1>5, SelectKeeps
<1> QED BY <1>3, <1>4, <1>6, NowSelected

\* A transaction that sets no selection.
LEMMA UnselectedKeeps ==
    ASSUME TextInv, SelectionInv, NEW tr, Sound(tr.changes), tr.selects = <<>>, Dispatch(tr),
           astray' = astray
    PROVE  SelectionInv'
<1>1. ViewUpdate(tr) /\ ~SelectionSet(tr) /\ IsChanges(tr.changes)
  BY DEF Dispatch, SelectionSet, Sound
<1>2. /\ Placed(text', selection')
      /\ Selected(text, selection) => Selected(text', selection')
  BY <1>1, MappedSelected DEF SelectionInv
<1> QED BY <1>2 DEF SelectionInv, SelectionInText, Selected

LEMMA ForeignSelects ==
    ASSUME TextInv, SelectionInv, Foreign
    PROVE  ViewPart /\ LockKept /\ UNCHANGED commandVars /\ SelectionInv'
<1>1. PICK from, to, insert :
        /\ insert = <<>> \/ insert = <<Fresh>>
        /\ User(Transaction(<<Change(from, to, insert)>>, <<>>, "none"))
  BY DEF Foreign
<1>2. IsInsert(insert)
  BY <1>1 DEF IsInsert
<1>3. PICK cs : cs = <<Change(from, to, insert)>>
  OBVIOUS
<1>4. Sound(cs)
  BY <1>2, <1>3, OneChange, MayEditChange DEF Foreign
<1>5. PICK tr : tr = Transaction(cs, <<>>, "none")
  OBVIOUS
<1>6. Dispatch(tr) /\ LockKept /\ UNCHANGED commandVars /\ tr.changes = cs /\ tr.selects = <<>>
  BY <1>1, <1>3, <1>5 DEF User, Transaction
<1>7. ViewPart
  BY <1>4, <1>6 DEF ViewPart, Dispatched
<1>8. SelectionInv'
  BY <1>4, <1>6, UnselectedKeeps DEF commandVars, renameVars
<1> QED BY <1>6, <1>7, <1>8

LEMMA StillSelects ==
    ASSUME SelectionInv, ViewKept, astray' = astray PROVE SelectionInv'
BY DEF SelectionInv, SelectionInText, Placed, ViewKept

-----------------------------------------------------------------------------
(* Accepting a completion *)

LEMMA EditType ==
    ASSUME NEW doc \in Seq(Nat), NEW from \in Offsets(doc), NEW to \in Offsets(doc),
           NEW insert \in Seq(Nat)
    PROVE  IsEdit(Edit(doc, from, to, insert)) /\ Edit(doc, from, to, insert).insert = insert
<1>1. IsPosition(offsetToPos(doc, from)) /\ IsPosition(offsetToPos(doc, to))
  BY offsetToPosType
<1> QED BY <1>1 DEF IsEdit, IsSpan, Edit, Span

LEMMA ChangeOfType ==
    ASSUME NEW doc \in Seq(Nat), NEW edit, IsEdit(edit)
    PROVE  LET c == ChangeOf(doc, edit)
           IN c.from \in Offsets(doc) /\ c.to \in Offsets(doc) /\ c.insert = edit.insert
BY posToOffsetType DEF ChangeOf, Change, IsEdit, IsSpan

\* At most two additional edits are put into order.
LEMMA SortedEditsType ==
    ASSUME NEW E, \A edit \in E : IsEdit(edit), NEW doc \in Seq(Nat), NEW n \in 0 .. 2,
           NEW more \in [1 .. n -> E]
    PROVE  SortedEdits(more, doc) \in [1 .. n -> E]
<1> DEFINE Key(i) == posToOffsetOrZero(doc, more[i].span.end)
<1>1. \A i \in 1 .. n : Key(i) \in Nat
  <2> SUFFICES ASSUME NEW i \in 1 .. n PROVE Key(i) \in Nat
    OBVIOUS
  <2>1. IsPosition(more[i].span.end)
    BY DEF IsEdit, IsSpan
  <2> QED BY <2>1, posToOffsetType DEF Offsets
<1>2. Cardinality({}) = 0 /\ Cardinality({1}) = 1 /\ Cardinality({2}) = 1
  BY FS_EmptySet, FS_Singleton
<1>3. DOMAIN more = 1 .. n
  OBVIOUS
<1>4. PICK place :
        place = [i \in DOMAIN more |-> 1 + Cardinality({j \in DOMAIN more :
                                         \/ EndsBefore(more[j], more[i], doc)
                                         \/ j < i /\ ~EndsBefore(more[i], more[j], doc)})]
  OBVIOUS
<1>5. SortedEdits(more, doc) = [k \in DOMAIN more |-> more[CHOOSE i \in DOMAIN more : place[i] = k]]
  BY <1>4 DEF SortedEdits, StableSort
<1>6. PICK before : before = [i \in 1 .. n |-> {j \in 1 .. n :
                                 Key(j) > Key(i) \/ (j < i /\ ~(Key(i) > Key(j)))}]
  OBVIOUS
<1>7. \A i \in 1 .. n : place[i] = 1 + Cardinality(before[i])
  BY <1>3, <1>4, <1>6 DEF EndsBefore
<1>8. PICK key : key = [i \in 1 .. n |-> Key(i)]
  OBVIOUS
<1>9. /\ \A i \in 1 .. n : key[i] \in Nat
      /\ \A i \in 1 .. n : before[i] = {j \in 1 .. n : key[j] > key[i] \/ (j < i /\ ~(key[i] > key[j]))}
  BY <1>1, <1>6, <1>8
<1> HIDE DEF Key
<1>10. \A k \in 1 .. n : \E i \in 1 .. n : place[i] = k
  <2>1. CASE n = 1
    <3>1. before[1] = {}
      BY <1>9, <2>1
    <3>2. 1 \in 1 .. n
      BY <2>1
    <3>3. place[1] = 1 + Cardinality({})
      BY <1>7, <3>1, <3>2, Zenon
    <3>4. place[1] = 1
      BY <1>2, <3>3
    <3> QED BY <2>1, <3>4
  <2>2. CASE n = 2 /\ key[2] > key[1]
    <3>1. before[1] = {2}
      BY <1>9, <2>2
    <3>2. before[2] = {}
      BY <1>9, <2>2
    <3>3. 1 \in 1 .. n /\ 2 \in 1 .. n
      BY <2>2
    <3>4. place[1] = 1 + Cardinality({2}) /\ place[2] = 1 + Cardinality({})
      BY <1>7, <3>1, <3>2, <3>3, Zenon
    <3>5. place[1] = 2 /\ place[2] = 1
      BY <1>2, <3>4
    <3> QED BY <2>2, <3>5
  <2>3. CASE n = 2 /\ ~(key[2] > key[1])
    <3>1. before[1] = {}
      BY <1>9, <2>3
    <3>2. before[2] = {1}
      BY <1>9, <2>3
    <3>3. 1 \in 1 .. n /\ 2 \in 1 .. n
      BY <2>3
    <3>4. place[1] = 1 + Cardinality({}) /\ place[2] = 1 + Cardinality({1})
      BY <1>7, <3>1, <3>2, <3>3, Zenon
    <3>5. place[1] = 1 /\ place[2] = 2
      BY <1>2, <3>4
    <3> QED BY <2>3, <3>5
  <2>4. CASE n = 0
    BY <2>4
  <2>5. n = 0 \/ n = 1 \/ n = 2
    OBVIOUS
  <2> QED BY <2>1, <2>2, <2>3, <2>4, <2>5
<1>11. \A k \in 1 .. n : (CHOOSE i \in 1 .. n : place[i] = k) \in 1 .. n
  BY <1>10
<1>12. PICK at : at = [k \in 1 .. n |-> CHOOSE i \in 1 .. n : place[i] = k]
  OBVIOUS
<1>13. SortedEdits(more, doc) = [k \in 1 .. n |-> more[at[k]]] /\ \A k \in 1 .. n : at[k] \in 1 .. n
  BY <1>3, <1>5, <1>11, <1>12
<1> QED BY <1>13

LEMMA ExtrasOfType ==
    ASSUME TextInv, NEW doc \in Seq(Nat), NEW edit \in ExtrasOf(doc) PROVE IsEdit(edit)
<1>1. <<Fresh>> \in Seq(Nat) /\ <<>> \in Seq(Nat)
  BY FreshType
<1>2. PICK from \in Offsets(doc), to \in Offsets(doc), insert \in Seq(Nat) :
        edit = Edit(doc, from, to, insert)
  <2>1. \A o \in 1 .. Len(doc) : o \in Offsets(doc) /\ o - 1 \in Offsets(doc)
    BY DEF Offsets
  <2>2. CASE \E o \in Offsets(doc) : edit = Edit(doc, o, o, <<Fresh>>)
    BY <1>1, <2>2
  <2>3. CASE \E o \in 1 .. Len(doc) : edit = Edit(doc, o - 1, o, <<>>)
    BY <1>1, <2>1, <2>3
  <2> QED BY <2>2, <2>3 DEF ExtrasOf
<1> QED BY <1>2, EditType

\* What they insert is told apart.
LEMMA InsertingType ==
    ASSUME NEW n \in Nat, NEW E, \A edit \in E : IsEdit(edit), NEW more \in [1 .. n -> E]
    PROVE  /\ \E S : Inserting(more) \in Seq(S)
           /\ Len(Inserting(more)) = n /\ DOMAIN Inserting(more) = 1 .. n
           /\ \A k \in 1 .. n : /\ IsSpan(Inserting(more)[k].span)
                                /\ Inserting(more)[k].insert \in {<<>>, <<Fresh + 2 * k>>}
<1>1. PICK all : all = Inserting(more)
  OBVIOUS
<1>2. all = [k \in 1 .. n |->
               [more[k] EXCEPT !.insert = IF more[k].insert = <<>> THEN <<>> ELSE <<Fresh + 2 * k>>]]
  BY <1>1 DEF Inserting
<1>3. PICK S : S = {all[k] : k \in 1 .. n}
  OBVIOUS
<1>4. all \in Seq(S) /\ Len(all) = n /\ DOMAIN all = 1 .. n
  BY <1>2, <1>3
<1>5. ASSUME NEW k \in 1 .. n
      PROVE  IsSpan(all[k].span) /\ all[k].insert \in {<<>>, <<Fresh + 2 * k>>}
  <2>1. PICK edit, insert : /\ edit = more[k]
                            /\ insert = IF edit.insert = <<>> THEN <<>> ELSE <<Fresh + 2 * k>>
    OBVIOUS
  <2>2. all[k] = [edit EXCEPT !.insert = insert] /\ IsEdit(edit)
    BY <1>2, <2>1
  <2>3. all[k].insert = insert /\ all[k].span = edit.span
    BY <2>2 DEF IsEdit
  <2> QED BY <2>1, <2>2, <2>3 DEF IsEdit
<1> QED BY <1>1, <1>4, <1>5

\* The changes of the item itself are where it begins.
LEMMA OwnChangesType ==
    ASSUME TextInv, CompletionsInv, popup.open, MayChange(1), NEW insert, IsInsert(insert),
           NEW own \in OwnChanges(insert)
    PROVE  /\ Sound(own) /\ 1 \in DOMAIN own
           /\ own[1].from \in Offsets(text) /\ own[1].to \in Offsets(text)
           /\ own[1].insert = insert
           /\ \A i \in DOMAIN own : own[i].from = own[1].from
<1> DEFINE EditFrom(from, to) == ChangeOf(text, Edit(popup.doc, from, to, insert))
<1>1. text \in Seq(Nat) /\ popup.doc \in Seq(Nat) /\ popup.pos \in DOMAIN popup.doc
  BY DEF TextInv, CompletionsInv
<1>2. popup.pos \in Offsets(popup.doc) /\ popup.pos - 1 \in Offsets(popup.doc)
  BY <1>1 DEF Offsets
<1>0. /\ insert \in Seq(Nat) /\ Len(insert) <= 1
      /\ Len(insert) = 1 => insert[1] \in {Break, Fresh, Fresh + 1}
  BY InsertIs
<1>3. \A from, to \in Offsets(popup.doc) :
        /\ EditFrom(from, to).from \in Offsets(text)
        /\ EditFrom(from, to).to \in Offsets(text)
        /\ EditFrom(from, to).insert = insert
  <2> SUFFICES ASSUME NEW from \in Offsets(popup.doc), NEW to \in Offsets(popup.doc)
               PROVE  /\ EditFrom(from, to).from \in Offsets(text)
                      /\ EditFrom(from, to).to \in Offsets(text)
                      /\ EditFrom(from, to).insert = insert
    OBVIOUS
  <2>1. PICK edit : edit = Edit(popup.doc, from, to, insert)
    OBVIOUS
  <2>2. IsEdit(edit) /\ edit.insert = insert
    BY <1>0, <1>1, <2>1, EditType
  <2>3. PICK c : c = ChangeOf(text, edit)
    OBVIOUS
  <2>4. c.from \in Offsets(text) /\ c.to \in Offsets(text) /\ c.insert = edit.insert
    BY <1>1, <2>2, <2>3, ChangeOfType
  <2> QED BY <2>1, <2>2, <2>3, <2>4
<1>4. ASSUME NEW c, NEW D, own \in Seq(D), c \in D, own[1] = c, DOMAIN own \in {{1}, {1, 2}},
             \A d \in D : d = c \/ (d.from = c.from /\ d.insert = <<>>),
             \A i \in DOMAIN own : own[i] = c => i = 1 \/ insert = <<>>,
             c.from \in Offsets(text), c.to \in Offsets(text), c.insert = insert
      PROVE  /\ Sound(own) /\ 1 \in DOMAIN own
             /\ \A i \in DOMAIN own : own[i].from = own[1].from
  <2>1. Len(own) \in Nat /\ DOMAIN own = 1 .. Len(own) /\ own \in Seq(Range(own))
    BY <1>4 DEF Range
  <2>2. Len(own) <= 2 /\ 1 \in DOMAIN own
    <3>1. Len(own) > 2 => 3 \in DOMAIN own
      BY <2>1
    <3> QED BY <1>4, <2>1, <3>1
  <2>3. \A i \in DOMAIN own : own[i] \in D
    BY <1>4
  <2>4. <<>> \in Seq(Nat) /\ Len(<<>>) = 0
    OBVIOUS
  <2>5. \A i \in DOMAIN own : \/ own[i].insert = insert /\ (i = 1 \/ insert = <<>>)
                              \/ own[i].insert = <<>>
    BY <1>4, <2>3
  <2>6. \A i \in DOMAIN own : /\ own[i].insert \in Seq(Nat) /\ Len(own[i].insert) <= 1
                              /\ Len(own[i].insert) = 1 => own[i].insert = insert /\ i = 1
    <3> SUFFICES ASSUME NEW i \in DOMAIN own
                 PROVE  /\ own[i].insert \in Seq(Nat) /\ Len(own[i].insert) <= 1
                        /\ Len(own[i].insert) = 1 => own[i].insert = insert /\ i = 1
      OBVIOUS
    <3>1. CASE own[i].insert = <<>>
      <4>1. own[i].insert \in Seq(Nat) /\ Len(own[i].insert) = 0
        BY <2>4, <3>1
      <4> QED BY <4>1
    <3>2. CASE own[i].insert = insert /\ i = 1
      BY <1>0, <3>2
    <3> QED BY <2>5, <3>1, <3>2
  <2>7. IsChanges(own)
    <3>1. \A i \in DOMAIN own : own[i].insert \in Seq(Nat)
      BY <2>6
    <3> QED BY <2>1, <3>1 DEF IsChanges
  <2>8. IsShort(own)
    BY <2>6, Zenon DEF IsShort
  <2>11. ASSUME NEW i \in DOMAIN own, Len(own[i].insert) = 1
         PROVE  own[i].insert[1] \in {Break, Fresh, Fresh + 1}
    <3>1. own[i].insert = insert
      BY <2>6, <2>11
    <3> QED BY <1>0, <2>11, <3>1
  <2>12. ASSUME NEW i \in DOMAIN own, NEW j \in DOMAIN own, Len(own[i].insert) = 1, Len(own[j].insert) = 1
         PROVE  i = j
    <3>1. i = 1 /\ j = 1
      BY <2>6, <2>12, Zenon
    <3> QED BY <3>1
  <2>9. IsNew(own, Fresh)
    BY <2>2, <2>8, <2>11, <2>12 DEF IsNew
  <2>10. \A i \in DOMAIN own : own[i].from = own[1].from
    BY <1>4, <2>3
  <2> QED BY <2>2, <2>7, <2>9, <2>10 DEF Sound
<1>8. ASSUME NEW c, own = <<c>>, c.from \in Offsets(text), c.to \in Offsets(text), c.insert = insert
      PROVE  /\ Sound(own) /\ 1 \in DOMAIN own /\ own[1] = c
             /\ \A i \in DOMAIN own : own[i].from = own[1].from
  <2>1. DOMAIN own = {1} /\ own[1] = c /\ own \in Seq({c})
    BY <1>8
  <2>2. \A i \in DOMAIN own : i = 1
    BY <2>1
  <2>3. PICK D : D = {c}
    OBVIOUS
  <2>4. /\ c \in D /\ own \in Seq(D) /\ DOMAIN own \in {{1}, {1, 2}}
        /\ \A d \in D : d = c
    BY <2>1, <2>3
  <2>5. \A d \in D : d = c \/ (d.from = c.from /\ d.insert = <<>>)
    BY <2>4
  <2>6. \A i \in DOMAIN own : own[i] = c => i = 1 \/ insert = <<>>
    BY <2>2
  <2> QED BY <1>4, <1>8, <2>1, <2>4, <2>5, <2>6
<1>5. CASE \E from \in {popup.pos - 1, popup.pos} : own = <<EditFrom(from, popup.pos)>>
  <2>1. PICK from \in Offsets(popup.doc) : own = <<EditFrom(from, popup.pos)>>
    BY <1>2, <1>5
  <2>2. PICK c : c = EditFrom(from, popup.pos)
    OBVIOUS
  <2>3. own = <<c>> /\ c.from \in Offsets(text) /\ c.to \in Offsets(text) /\ c.insert = insert
    BY <1>2, <1>3, <2>1, <2>2
  <2> QED BY <1>8, <2>3
<1>6. CASE \E to \in {popup.pos, popup.pos + 1} \cap Offsets(popup.doc) :
             own = <<EditFrom(popup.pos - 1, popup.pos),
                     [EditFrom(popup.pos - 1, to) EXCEPT !.insert = <<>>]>>
  <2>1. PICK to \in Offsets(popup.doc) :
          own = <<EditFrom(popup.pos - 1, popup.pos),
                  [EditFrom(popup.pos - 1, to) EXCEPT !.insert = <<>>]>>
    BY <1>6
  <2>2. PICK c, d : c = EditFrom(popup.pos - 1, popup.pos)
                    /\ d = [EditFrom(popup.pos - 1, to) EXCEPT !.insert = <<>>]
    OBVIOUS
  <2>3. c.from \in Offsets(text) /\ c.to \in Offsets(text) /\ c.insert = insert
    BY <1>2, <1>3, <2>2
  <2>4. d.from = c.from /\ d.insert = <<>>
    BY <2>2 DEF ChangeOf, Change, Edit, Span
  <2>5. own = <<c, d>>
    BY <2>1, <2>2
  <2>6. DOMAIN own = {1, 2} /\ own[1] = c /\ own[2] = d /\ own \in Seq({c, d})
    BY <2>5
  <2>7. \A i \in DOMAIN own : own[i] = c => i = 1 \/ insert = <<>>
    BY <2>3, <2>4, <2>6
  <2>8. PICK D : D = {c, d}
    OBVIOUS
  <2>9. /\ c \in D /\ own \in Seq(D) /\ DOMAIN own \in {{1}, {1, 2}}
        /\ \A e \in D : e = c \/ e = d
    BY <2>6, <2>8
  <2>10. \A e \in D : e = c \/ (e.from = c.from /\ e.insert = <<>>)
    BY <2>4, <2>9
  <2> QED BY <1>4, <2>3, <2>6, <2>7, <2>9, <2>10
<1>7. CASE own = <<Change(popup.from, popup.to, insert)>>
  <2>1. PICK c : c = Change(popup.from, popup.to, insert)
    OBVIOUS
  <2>2. own = <<c>> /\ c.from \in Offsets(text) /\ c.to \in Offsets(text) /\ c.insert = insert
    BY <1>7, <2>1 DEF Change, CompletionsInv, InText
  <2> QED BY <1>8, <2>2
<1> QED BY <1>5, <1>6, <1>7 DEF OwnChanges

LEMMA AcceptSelects ==
    ASSUME TextInv, CompletionsInv, SelectionInv, AcceptAny, astray' = astray
    PROVE  ViewPart /\ LockKept /\ ExtrasInv' /\ SelectionInv'
<1>0. PICK n \in 0 .. 2 : \E more \in [1 .. n -> ExtrasOf(popup.doc)] : Accept(more)
  BY DEF AcceptAny
<1>1. PICK more \in [1 .. n -> ExtrasOf(popup.doc)] : Accept(more)
  BY <1>0
<1>15. PICK insert \in Insertions : \E own \in OwnChanges(insert) :
        /\ popup.open /\ LockKept
        /\ \A i \in DOMAIN own : own[i].from <= own[i].to
        /\ LET cursor == own[1].from + Len(insert)
           IN Dispatch(Transaction(own, <<cursor, cursor>>, "none"))
        /\ extras' = Inserting(SortedEdits(more, text'))
  BY <1>1 DEF Accept
<1>2. PICK own \in OwnChanges(insert) :
        /\ popup.open /\ LockKept
        /\ \A i \in DOMAIN own : own[i].from <= own[i].to
        /\ LET cursor == own[1].from + Len(insert)
           IN Dispatch(Transaction(own, <<cursor, cursor>>, "none"))
        /\ extras' = Inserting(SortedEdits(more, text'))
  BY <1>15
<1>3. IsInsert(insert)
  BY DEF Insertions, IsInsert
<1>14. edits \in Nat /\ setup.changes \in Nat /\ edits + (1 + n) <= setup.changes /\ MayChange(1)
  <2>1. edits \in Nat /\ setup.changes \in Nat
    BY SetupAssumption DEF TextInv
  <2>2. edits + (1 + Len(more)) <= setup.changes
    BY <1>1 DEF Accept, MayChange
  <2>3. Len(more) = n
    OBVIOUS
  <2> QED BY <2>1, <2>2, <2>3 DEF MayChange
<1>4. /\ Sound(own) /\ 1 \in DOMAIN own
      /\ own[1].from \in Offsets(text) /\ own[1].to \in Offsets(text)
      /\ own[1].insert = insert
      /\ \A i \in DOMAIN own : own[i].from = own[1].from
  BY <1>2, <1>3, <1>14, OwnChangesType
<1>5. PICK cursor : cursor = own[1].from + Len(own[1].insert)
  OBVIOUS
<1>6. PICK tr : tr = Transaction(own, <<cursor, cursor>>, "none")
  OBVIOUS
<1>7. Dispatch(tr) /\ tr.changes = own
  BY <1>2, <1>4, <1>5, <1>6 DEF Transaction
<1>8. ViewUpdate(Transaction(own, <<cursor, cursor>>, "none"))
  BY <1>6, <1>7 DEF Dispatch
<1>9. InText(own[1], text)
  BY <1>2, <1>4 DEF InText
<1>13. IsChanges(own)
  BY <1>4 DEF Sound
<1>10. Selected(text', selection')
  BY <1>4, <1>5, <1>8, <1>9, <1>13, CursorAfter
<1>11. ViewPart
  BY <1>4, <1>7 DEF ViewPart, Dispatched
<1>12. ExtrasInv'
  <2>1. text' \in Seq(Nat) /\ popup.doc \in Seq(Nat)
    BY <1>7, <1>13, MappedType DEF Dispatch, CompletionsInv
  <2>2. \A edit \in ExtrasOf(popup.doc) : IsEdit(edit)
    BY <2>1, ExtrasOfType
  <2>3. PICK sorted : sorted = SortedEdits(more, text')
    OBVIOUS
  <2>4. sorted \in [1 .. n -> ExtrasOf(popup.doc)]
    BY <2>1, <2>2, <2>3, SortedEditsType
  <2>5. /\ \E E : extras' \in Seq(E)
        /\ Len(extras') = n /\ DOMAIN extras' = 1 .. n
        /\ \A k \in 1 .. n : /\ IsSpan(extras'[k].span)
                             /\ extras'[k].insert \in {<<>>, <<Fresh + 2 * k>>}
    <3>1. PICK E : E = ExtrasOf(popup.doc)
      OBVIOUS
    <3>2. n \in Nat /\ sorted \in [1 .. n -> E] /\ \A edit \in E : IsEdit(edit)
      BY <2>2, <2>4, <3>1
    <3>3. PICK all : all = Inserting(sorted)
      OBVIOUS
    <3>4. /\ \E S : all \in Seq(S)
          /\ Len(all) = n /\ DOMAIN all = 1 .. n
          /\ \A k \in 1 .. n : /\ IsSpan(all[k].span)
                               /\ all[k].insert \in {<<>>, <<Fresh + 2 * k>>}
      BY <3>2, <3>3, InsertingType
    <3>5. extras' = all
      BY <1>2, <2>3, <3>3
    <3> QED BY <3>4, <3>5
  <2>6. setup' = setup /\ edits' = edits + 1
    <3>1. own # <<>>
      BY <1>4
    <3> QED BY <1>7, <3>1 DEF Dispatch, ViewUpdate, DocChanged
  <2>7. \A k \in 1 .. n : Fresh + 2 * k = Fresh' + 2 * (k - 1)
    <3>1. PICK a, b : a = Fresh /\ b = Fresh'
      OBVIOUS
    <3>2. a \in Nat /\ b = a + 2
      BY <2>6, <3>1, FreshType, FreshGrows
    <3>3. \A k \in 1 .. n : a + 2 * k = b + 2 * (k - 1)
      BY <3>2
    <3> QED BY <3>1, <3>3
  <2>8. Len(extras') <= 2 /\ edits' + Len(extras') <= setup'.changes
    BY <1>14, <2>5, <2>6
  <2>9. \A i \in DOMAIN extras' : /\ IsSpan(extras'[i].span)
                                  /\ extras'[i].insert \in {<<>>, <<Fresh' + 2 * (i - 1)>>}
    BY <2>5, <2>7
  <2> QED BY <2>5, <2>8, <2>9 DEF ExtrasInv
<1> QED BY <1>2, <1>10, <1>11, <1>12, NowSelected

LEMMA ExtraSelects ==
    ASSUME TextInv, ExtrasInv, SelectionInv, AcceptNext, astray' = astray
    PROVE  ViewPart /\ LockKept /\ ExtrasInv' /\ SelectionInv'
<1>1. PICK E : extras \in Seq(E)
  BY DEF ExtrasInv
<1>2. extras # <<>> /\ LockKept
  BY DEF AcceptNext
<1>3. /\ 1 \in DOMAIN extras /\ Len(extras) \in Nat /\ Len(extras) >= 1
      /\ Tail(extras) \in Seq(E) /\ Len(Tail(extras)) = Len(extras) - 1
      /\ \A i \in DOMAIN Tail(extras) : i + 1 \in DOMAIN extras /\ Tail(extras)[i] = extras[i + 1]
  BY <1>1, <1>2
<1>6. edits \in Nat /\ setup.changes \in Nat /\ edits + Len(extras) <= setup.changes
  BY SetupAssumption DEF TextInv, ExtrasInv
<1>4. CASE DispatchNothing /\ extras' = <<>>
  <2>1. /\ ViewKept /\ UNCHANGED completionVars /\ UNCHANGED signatureVars
        /\ setup' = setup /\ edits' = edits
    BY <1>4 DEF DispatchNothing, pluginVars, ViewKept
  <2>2. extras' \in Seq(E) /\ Len(extras') = 0 /\ DOMAIN extras' = {}
    BY <1>4
  <2>3. edits' + Len(extras') <= setup'.changes /\ Len(extras') <= 2
    BY <1>3, <1>6, <2>1, <2>2
  <2>4. ExtrasInv'
    BY <2>2, <2>3 DEF ExtrasInv
  <2> QED BY <1>2, <2>1, <2>4, StillSelects DEF ViewPart
<1>5. ASSUME NEW from, NEW to, extras' = Tail(extras),
             Dispatch(Transaction(<<Change(from, to, extras[1].insert)>>, <<>>, "none"))
      PROVE  ViewPart /\ ExtrasInv' /\ SelectionInv'
  <2>1. PICK insert : insert = extras[1].insert
    OBVIOUS
  <2>2. IsInsert(insert)
    <3>1. insert \in {<<>>, <<Fresh + 2 * (1 - 1)>>}
      BY <1>3, <2>1 DEF ExtrasInv
    <3>2. PICK a : a = Fresh
      OBVIOUS
    <3>3. a + 2 * (1 - 1) = a
      BY <3>2, FreshType
    <3> QED BY <3>1, <3>2, <3>3 DEF IsInsert
  <2>3. PICK cs : cs = <<Change(from, to, insert)>>
    OBVIOUS
  <2>9. MayChange(1)
    BY <1>3, <1>6 DEF MayChange
  <2>4. Sound(cs) /\ DOMAIN cs = {1}
    BY <2>2, <2>3, <2>9, OneChange
  <2>5. PICK tr : tr = Transaction(cs, <<>>, "none")
    OBVIOUS
  <2>6. Dispatch(tr) /\ tr.changes = cs /\ tr.selects = <<>>
    BY <1>5, <2>1, <2>3, <2>5 DEF Transaction
  <2>7. SelectionInv'
    BY <2>4, <2>6, UnselectedKeeps
  <2>10. setup' = setup /\ edits' = edits + 1
    <3>1. cs # <<>>
      BY <2>4
    <3> QED BY <2>6, <3>1 DEF Dispatch, ViewUpdate, DocChanged
  <2>11. Len(extras') <= 2 /\ edits' + Len(extras') <= setup'.changes
    <3>1. Len(extras) <= 2 /\ Len(extras') = Len(extras) - 1
      BY <1>3, <1>5 DEF ExtrasInv
    <3> QED BY <1>3, <1>6, <2>10, <3>1
  <2>12. ASSUME NEW i \in DOMAIN extras'
         PROVE  IsSpan(extras'[i].span) /\ extras'[i].insert \in {<<>>, <<Fresh' + 2 * (i - 1)>>}
    <3>1. i + 1 \in DOMAIN extras /\ extras'[i] = extras[i + 1] /\ i \in Nat
      <4>1. i \in DOMAIN Tail(extras) /\ Tail(extras) \in Seq(E)
        BY <1>3, <1>5, <2>12
      <4> QED BY <1>3, <1>5, <4>1
    <3>2. /\ IsSpan(extras[i + 1].span)
          /\ extras[i + 1].insert \in {<<>>, <<Fresh + 2 * ((i + 1) - 1)>>}
      BY <3>1 DEF ExtrasInv
    <3>3. PICK a, b : a = Fresh /\ b = Fresh'
      OBVIOUS
    <3>4. a \in Nat /\ b = a + 2
      BY <2>10, <3>3, FreshType, FreshGrows
    <3>5. a + 2 * ((i + 1) - 1) = b + 2 * (i - 1)
      BY <3>1, <3>4
    <3> QED BY <3>1, <3>2, <3>3, <3>5
  <2>8. ExtrasInv'
    BY <1>3, <1>5, <2>11, <2>12 DEF ExtrasInv
  <2> QED BY <2>4, <2>6, <2>7, <2>8 DEF ViewPart, Dispatched
<1> QED BY <1>2, <1>4, <1>5 DEF AcceptNext

-----------------------------------------------------------------------------
(* References and definitions *)

LEMMA SpansType ==
    ASSUME NEW doc \in Seq(Nat), NEW span \in SpansOf(doc) PROVE IsSpan(span)
<1>1. PICK ab \in Offsets(doc) \X Offsets(doc) :
        span = Span(offsetToPos(doc, ab[1]), offsetToPos(doc, ab[2]))
  BY DEF SpansOf
<1>2. IsPosition(offsetToPos(doc, ab[1])) /\ IsPosition(offsetToPos(doc, ab[2]))
  BY offsetToPosType
<1> QED BY <1>1, <1>2 DEF IsSpan, Span

\* A place to go to, of whatever document, is one of this.
LEMMA HopSelects ==
    ASSUME TextInv, NEW span, IsSpan(span), Dispatch(HopTo(span))
    PROVE  ViewPart /\ Selected(text', selection')
<1>1. PICK a, b : a = posToOffsetOrZero(text, span.start) /\ b = EditTo(a, posToOffset(text, span.end))
  OBVIOUS
<1>2. a \in Offsets(text) /\ b \in Offsets(text)
  BY <1>1, posToOffsetType DEF TextInv, IsSpan, EditTo
<1>3. PICK tr : tr = Select(a, b)
  OBVIOUS
<1>4. Dispatch(tr) /\ tr.changes = <<>> /\ ViewUpdate(Select(a, b))
  BY <1>1, <1>3 DEF HopTo, Select, Transaction, Dispatch
<1> QED BY <1>2, <1>4, NoChange, SelectKeeps DEF ViewPart, Dispatched

\* One call of handleFindReferences goes on.
LEMMA FindKeeps ==
    ASSUME FindsInv, NEW n \in Finds, NEW f, IsFind(f), f.doc \in Seq(Nat),
           find' = [find EXCEPT ![n] = f], panel' = panel \/ panel' = <<>> \/ IsSpan(panel'[1])
    PROVE  FindsInv'
<1>1. find'[n] = f /\ \A m \in Finds : m # n => find'[m] = find[m]
  BY DEF FindsInv
<1>2. find' = [m \in Finds |-> find'[m]]
  BY DEF FindsInv
<1>3. \A m \in Finds : IsFind(find'[m]) /\ find'[m].doc \in Seq(Nat)
  BY <1>1 DEF FindsInv
<1>4. panel' = <<>> \/ IsSpan(panel'[1])
  BY DEF FindsInv
<1> QED BY <1>2, <1>3, <1>4 DEF FindsInv

LEMMA FindsStay == ASSUME FindsInv, UNCHANGED find, panel' = panel \/ panel' = <<>> PROVE FindsInv'
<1>1. panel' = <<>> \/ IsSpan(panel'[1])
  BY DEF FindsInv
<1> QED BY <1>1 DEF FindsInv

LEMMA FindEnds ==
    ASSUME FindsInv, NEW n \in Finds, NEW outcome, Ends(n, outcome),
           panel' = panel \/ panel' = <<>> \/ IsSpan(panel'[1])
    PROVE  FindsInv'
<1>1. PICK f : f = [NoFind EXCEPT !.stage = "over", !.outcome = outcome]
  OBVIOUS
<1>2. IsFind(f) /\ f.doc = <<>>
  BY <1>1 DEF NoFind, IsFind
<1>3. find' = [find EXCEPT ![n] = f]
  BY <1>1 DEF Ends
<1>4. f.doc \in Seq(Nat)
  <2>1. <<>> \in Seq(Nat)
    OBVIOUS
  <2> QED BY <1>2, <2>1
<1> QED BY <1>2, <1>3, <1>4, FindKeeps

LEMMA FindAsked ==
    ASSUME TextInv, FindsInv, NEW n \in Finds, NEW goes, Asked(n, goes), UNCHANGED panel
    PROVE  FindsInv'
<1>1. PICK f : f = [NoFind EXCEPT !.stage = "asked", !.goToIfOneOption = goes, !.doc = text]
  OBVIOUS
<1>2. IsFind(f) /\ f.doc = text
  BY <1>1 DEF NoFind, IsFind
<1>3. find' = [find EXCEPT ![n] = f] /\ f.doc \in Seq(Nat)
  BY <1>1, <1>2 DEF Asked, TextInv
<1> QED BY <1>2, <1>3, FindKeeps

LEMMA FindReferencesKeep ==
    ASSUME TextInv, FindsInv, NEW pos, NEW goes, FindReferences(pos, goes)
    PROVE  FindsInv' /\ (LockKept \/ Awaited \/ LockTaken)
<1>1. PICK n \in 1 .. setup.finds :
        /\ \/ Ends(n, "silent") /\ LockKept
           \/ Ends(n, "thrown") /\ LockKept
           \/ Asked(n, goes) /\ LockTaken
           \/ /\ find' = [find EXCEPT ![n].stage = "locking", ![n].goToIfOneOption = goes]
              /\ LockAwaited(Reference(n))
        /\ UNCHANGED panel
  BY DEF FindReferences, ReportError, OnError
<1>2. n \in Finds
  <2>1. setup.finds \in Nat /\ setup.finds <= MaxFinds /\ MaxFinds \in Nat
    BY FindAssumption, SetupAssumption DEF TextInv
  <2> QED BY <2>1 DEF Finds
<1>3. ASSUME find' = [find EXCEPT ![n].stage = "locking", ![n].goToIfOneOption = goes]
      PROVE  FindsInv'
  <2>1. PICK f : f = [find[n] EXCEPT !.stage = "locking", !.goToIfOneOption = goes]
    OBVIOUS
  <2>2. find' = [find EXCEPT ![n] = f]
    BY <1>2, <1>3, <2>1 DEF FindsInv
  <2>3. IsFind(find[n]) /\ find[n].doc \in Seq(Nat)
    BY <1>2 DEF FindsInv
  <2>4. IsFind(f) /\ f.doc = find[n].doc
    BY <2>1, <2>3 DEF IsFind
  <2> QED BY <1>1, <1>2, <2>2, <2>3, <2>4, FindKeeps
<1>4. ASSUME Ends(n, "silent") \/ Ends(n, "thrown") PROVE FindsInv'
  BY <1>1, <1>2, <1>4, FindEnds
<1>5. ASSUME Asked(n, goes) PROVE FindsInv'
  BY <1>1, <1>2, <1>5, FindAsked
<1>6. LockKept \/ Awaited \/ LockTaken
  BY <1>1, <1>2, WaitersAre DEF Awaited
<1> QED BY <1>1, <1>3, <1>4, <1>5, <1>6

LEMMA FindAnswerSelects ==
    ASSUME TextInv, FindsInv, SelectionInv, astray' = astray, NEW n \in Finds, FindAnswer(n)
    PROVE  ViewPart /\ Locks /\ FindsInv' /\ SelectionInv'
<1>0. LockLeft /\ find[n].doc \in Seq(Nat)
  BY DEF FindAnswer, FindsInv
<1>1. CASE DispatchNothing /\ UNCHANGED panel /\ \E outcome : Ends(n, outcome)
  BY <1>1, FindEnds, StillSelects, <1>0 DEF DispatchNothing, pluginVars, ViewPart, Locks
<1>2. ASSUME NEW span \in SpansOf(find[n].doc), Dispatch(HopTo(span)), UNCHANGED panel,
             Ends(n, "hopped")
      PROVE  ViewPart /\ FindsInv' /\ SelectionInv'
  <2>1. IsSpan(span)
    BY <1>0, SpansType
  <2> QED BY <1>2, <2>1, HopSelects, FindEnds, NowSelected
<1>3. ASSUME NEW span \in SpansOf(find[n].doc), panel' = <<span>>, DispatchNothing, Ends(n, "panel")
      PROVE  ViewPart /\ FindsInv' /\ SelectionInv'
  <2>1. IsSpan(span)
    BY <1>0, SpansType
  <2>2. IsSpan(panel'[1])
    BY <1>3, <2>1
  <2> QED BY <1>3, <2>2, FindEnds, StillSelects DEF DispatchNothing, pluginVars, ViewPart
<1> QED BY <1>0, <1>1, <1>2, <1>3 DEF FindAnswer, ReportError, Locks

LEMMA GoToSelects ==
    ASSUME TextInv, FindsInv, SelectionInv, astray' = astray, GoToReference
    PROVE  ViewPart /\ Locks /\ FindsInv' /\ SelectionInv'
<1>1. PICK a, b : /\ a = posToOffset(text, panel[1].start) /\ b = posToOffset(text, panel[1].end)
                  /\ panel # <<>> /\ a > 0 /\ b > 0 /\ Dispatch(Select(a, b))
                  /\ panel' = <<>> /\ UNCHANGED find /\ LockKept
  BY DEF GoToReference
<1>2. IsSpan(panel[1])
  BY <1>1 DEF FindsInv
<1>3. a \in Offsets(text) /\ b \in Offsets(text)
  <2>1. a \in Offsets(text) \cup {Undefined} /\ b \in Offsets(text) \cup {Undefined}
    BY <1>1, <1>2, posToOffsetType DEF TextInv, IsSpan
  <2> QED BY <1>1, <2>1 DEF Undefined
<1>4. PICK tr : tr = Select(a, b)
  OBVIOUS
<1>5. Dispatch(tr) /\ tr.changes = <<>> /\ ViewUpdate(Select(a, b))
  BY <1>1, <1>4 DEF Select, Transaction, Dispatch
<1>6. Selected(text', selection') /\ ViewPart
  BY <1>3, <1>5, NoChange, SelectKeeps DEF ViewPart, Dispatched
<1> QED BY <1>1, <1>6, FindsStay, NowSelected DEF Locks

LEMMA ReferencesSelect ==
    ASSUME TextInv, FindsInv, SelectionInv, astray' = astray,
           ReferencesStep \/ \E n \in Finds : FindLocks(n)
    PROVE  ViewPart /\ Locks /\ FindsInv' /\ SelectionInv'
<1>1. CASE Shortcut \/ ModClick
  <2>1. PICK pos, goes : DispatchNothing /\ FindReferences(pos, goes)
    BY <1>1 DEF Shortcut, ModClick
  <2> QED BY <2>1, FindReferencesKeep, StillSelects DEF DispatchNothing, pluginVars, ViewPart, Locks
<1>2. CASE ClosePanel
  <2>1. DispatchNothing /\ LockKept /\ panel' = <<>> /\ UNCHANGED find
    BY <1>2 DEF ClosePanel
  <2>2. FindsInv'
    BY <2>1, FindsStay
  <2> QED BY <2>1, <2>2, StillSelects DEF DispatchNothing, pluginVars, ViewPart, Locks
<1>3. ASSUME NEW n \in Finds, FindFails(n) PROVE ViewPart /\ Locks /\ FindsInv' /\ SelectionInv'
  <2>1. DispatchNothing /\ LockLeft /\ UNCHANGED panel /\ \E outcome : Ends(n, outcome)
    BY <1>3 DEF FindFails, ReportError
  <2> QED BY <2>1, FindEnds, StillSelects DEF DispatchNothing, pluginVars, ViewPart, Locks
<1>4. ASSUME NEW n \in Finds, FindLocks(n) PROVE ViewPart /\ Locks /\ FindsInv' /\ SelectionInv'
  <2>1. DispatchNothing /\ Locks /\ UNCHANGED panel
    BY <1>4 DEF FindLocks, Locks
  <2>2. Asked(n, find[n].goToIfOneOption) \/ \E outcome : Ends(n, outcome)
    BY <1>4 DEF FindLocks, ReportError
  <2> QED BY <2>1, <2>2, FindAsked, FindEnds, StillSelects DEF DispatchNothing, pluginVars, ViewPart
<1> QED BY <1>1, <1>2, <1>3, <1>4, FindAnswerSelects, GoToSelects DEF ReferencesStep

-----------------------------------------------------------------------------
(* Renames *)

\* The word at an offset is in the document, and so is the end of its line.
LEMMA WordIn ==
    ASSUME NEW doc \in Seq(Nat), NEW pos, IsWord(doc, pos)
    PROVE  /\ posToOffset(doc, WordSpan(doc, pos).start) \in Offsets(doc)
           /\ posToOffset(doc, WordSpan(doc, pos).end) \in Offsets(doc)
           /\ IsSpan(WordSpan(doc, pos))
<1>1. pos \in Offsets(doc)
  BY DEF IsWord, Throws
<1>2. PICK line, start, word : /\ line = LineAt(doc, pos) /\ start = From(doc, line)
                               /\ word = Word(doc, pos)
  OBVIOUS
<1>3. /\ line \in Nat /\ line < Lines(doc) /\ start \in Offsets(doc) /\ Lines(doc) \in Nat
      /\ start \in Nat /\ start <= Len(doc) /\ Len(doc) \in Nat
  <2>1. Len(doc) \in Nat /\ pos \in 0 .. Len(doc)
    BY <1>1 DEF Offsets
  <2>2. line \in Nat /\ line < Lines(doc) /\ Lines(doc) \in Nat
    <3>1. Lines(doc) = 1 + LineAt(doc, Len(doc)) /\ LineAt(doc, Len(doc)) \in Nat
      BY <2>1, LinesIs, LineAtType
    <3>2. line \in Nat /\ line < Lines(doc)
      BY <1>1, <1>2, FromBefore
    <3> QED BY <3>1, <3>2
  <2>3. start \in Offsets(doc)
    BY <1>1, <1>2, FromBefore
  <2> QED BY <2>1, <2>2, <2>3 DEF Offsets
<1>4. \A o \in word : o \in start .. Len(doc)
  BY <1>2, <1>3, FromBefore DEF Word, Offsets
<1>5. IsFiniteSet(start .. Len(doc)) /\ Cardinality(start .. Len(doc)) = Len(doc) - start + 1
  BY <1>3, FS_Interval
<1>6. Cardinality(word) <= Len(doc) - start + 1 /\ Cardinality(word) \in Nat
  <2>1. word \subseteq start .. Len(doc)
    BY <1>4
  <2>2. IsFiniteSet(word) /\ Cardinality(word) <= Cardinality(start .. Len(doc))
    BY <1>5, <2>1, FS_Subset
  <2> QED BY <1>5, <2>2, FS_CardinalityType
<1>7. Cardinality(word) > 1
  BY <1>2 DEF IsWord
<1>8. PICK span : span = WordSpan(doc, pos)
  OBVIOUS
<1>9. /\ span.start.line = line /\ span.start.character = 0
      /\ span.end.line = line /\ span.end.character = Cardinality(word) - 1
  BY <1>2, <1>8 DEF WordSpan, Span
<1>10. posToOffset(doc, span.start) = start
  BY <1>2, <1>3, <1>9 DEF posToOffset, InDoc
<1>11. posToOffset(doc, span.end) = start + (Cardinality(word) - 1)
  BY <1>2, <1>3, <1>6, <1>7, <1>9 DEF posToOffset, InDoc
<1>12. IsSpan(span)
  BY <1>3, <1>6, <1>7, <1>9 DEF IsSpan, IsPosition
<1>13. start \in 0 .. Len(doc) /\ start + (Cardinality(word) - 1) \in 0 .. Len(doc)
  BY <1>3, <1>6, <1>7
<1> QED BY <1>8, <1>10, <1>11, <1>12, <1>13, Zenon DEF Offsets

LEMMA SpanIn ==
    ASSUME NEW doc \in Seq(Nat), NEW span \in SpansOf(doc)
    PROVE  posToOffset(doc, span.start) \in Offsets(doc) /\ posToOffset(doc, span.end) \in Offsets(doc)
<1>1. PICK ab \in Offsets(doc) \X Offsets(doc) :
        span = Span(offsetToPos(doc, ab[1]), offsetToPos(doc, ab[2]))
  BY DEF SpansOf
<1>2. /\ posToOffset(doc, offsetToPos(doc, ab[1])) = ab[1]
      /\ posToOffset(doc, offsetToPos(doc, ab[2])) = ab[2]
  BY offsetToPosType
<1> QED BY <1>1, <1>2 DEF Span

\* A word that is one of this document is in it.
LEMMA OpenSelects ==
    ASSUME TextInv, NEW span, IsSpan(span), OpenDialog(span),
           prepare.doc = text => /\ posToOffset(text, span.start) \in Offsets(text)
                                 /\ posToOffset(text, span.end) \in Offsets(text)
    PROVE  ViewPart /\ SelectionInv'
<1>1. PICK a, b : /\ a = posToOffset(text, span.start) /\ b = posToOffset(text, span.end)
  OBVIOUS
<1>2. PICK tr : tr = Select(a, b)
  OBVIOUS
<1>3. Dispatch(tr) /\ tr.changes = <<>> /\ ViewUpdate(Select(a, b)) /\ astray' = (prepare.doc # text)
  BY <1>1, <1>2 DEF OpenDialog, Select, Transaction, Dispatch
<1>4. ViewPart
  BY <1>3, NoChange DEF ViewPart, Dispatched
<1>5. text' = text /\ selection' = <<a, b>>
  BY <1>3, SelectKeeps
<1>6. a \in Offsets(text) \cup {Undefined} /\ b \in Offsets(text) \cup {Undefined}
  BY <1>1, posToOffsetType DEF TextInv, IsSpan
<1>7. Placed(text', selection')
  BY <1>5, <1>6, Places
<1>8. prepare.doc = text => Selected(text', selection')
  BY <1>1, <1>3, SelectKeeps
<1> QED BY <1>3, <1>4, <1>7, <1>8 DEF SelectionInv, SelectionInText, Selected

LEMMA PrepareAnswerSelects ==
    ASSUME TextInv, SelectionInv, WordsInv, PrepareAnswer
    PROVE  ViewPart /\ Locks /\ WordsInv' /\ SelectionInv'
<1>1. LockKept /\ UNCHANGED rename /\ prepare' = NoPrepare
  BY DEF PrepareAnswer
<1>2. WordsInv' /\ Locks
  <2>1. prepare'.doc = <<>> /\ <<>> \in Seq(Nat)
    BY <1>1 DEF NoPrepare
  <2> QED BY <1>1, <2>1 DEF WordsInv, Locks
<1>3. ASSUME NEW span \in SpansOf(prepare.doc), OpenDialog(span) PROVE ViewPart /\ SelectionInv'
  <2>1. prepare.doc \in Seq(Nat) /\ IsSpan(span)
    BY SpansType DEF WordsInv
  <2> QED BY <1>3, <2>1, SpanIn, OpenSelects
<1>4. CASE IsWord(text, prepare.pos) /\ OpenDialog(WordSpan(text, prepare.pos))
  BY <1>2, <1>4, WordIn, OpenSelects DEF TextInv
<1>5. CASE UNCHANGED <<dialog, astray>> /\ DispatchNothing
  BY <1>2, <1>5, StillSelects DEF DispatchNothing, pluginVars, ViewPart
<1> QED BY <1>2, <1>3, <1>4, <1>5 DEF PrepareAnswer

LEMMA DismissSelects ==
    ASSUME TextInv, SelectionInv, WordsInv, Dismiss
    PROVE  ViewPart /\ Locks /\ WordsInv' /\ SelectionInv'
<1>1. PICK tr : tr = Select(Cursor, Cursor)
  OBVIOUS
<1>2. Dispatch(tr) /\ tr.changes = <<>> /\ ViewUpdate(Select(Cursor, Cursor)) /\ astray' = astray
      /\ LockKept /\ UNCHANGED <<rename, prepare>>
  BY <1>1 DEF Dismiss, Select, Transaction, Dispatch
<1>3. ViewPart
  BY <1>2, NoChange DEF ViewPart, Dispatched
<1>4. text' = text /\ selection' = <<Cursor, Cursor>>
  BY <1>2, SelectKeeps
<1>5. Placed(text', selection')
  <2>1. Cursor \in Offsets(text) \cup {Undefined}
    BY PlacesHave DEF SelectionInv, Cursor
  <2> QED BY <1>4, <2>1, Places
<1>6. Selected(text, selection) => Selected(text', selection')
  BY <1>2, SelectsHave, SelectKeeps DEF Cursor
<1> QED BY <1>2, <1>3, <1>5, <1>6 DEF SelectionInv, SelectionInText, Selected, Locks, WordsInv

LEMMA CompleteRenameSelects ==
    ASSUME TextInv, SelectionInv, WordsInv, CompleteRename
    PROVE  ViewPart /\ Locks /\ WordsInv' /\ SelectionInv'
<1>1. PICK spans \in SpansOf(known) \X SpansOf(known), n \in 1 .. 2 :
        rename' = [asking |-> TRUE, spans |-> SubSeq(spans, 1, n)]
  BY DEF CompleteRename
<1>2. PICK a, b : spans = <<a, b>>
  BY <1>1
<1>3. spans \in Seq({a, b}) /\ Len(spans) = 2
  BY <1>2
<1>4. SubSeq(spans, 1, n) \in Seq({a, b}) /\ Len(SubSeq(spans, 1, n)) <= 2
  <2>1. n \in 1 .. 2 /\ n <= 2
    OBVIOUS
  <2>2. \A i \in 1 .. n : spans[i] \in {a, b}
    BY <1>2, <2>1
  <2>3. SubSeq(spans, 1, n) \in Seq({a, b}) /\ Len(SubSeq(spans, 1, n)) = n - 1 + 1
    BY <2>1, <2>2, SubSeqProperties
  <2>4. n - 1 + 1 = n
    BY <2>1
  <2> QED BY <2>1, <2>3, <2>4
<1>6. DispatchNothing /\ LockKept /\ astray' = astray /\ prepare' = prepare
  BY DEF CompleteRename
<1>5. WordsInv'
  BY <1>1, <1>4, <1>6 DEF WordsInv
<1> QED BY <1>5, <1>6, StillSelects DEF DispatchNothing, pluginVars, ViewPart, Locks

LEMMA WorkspaceChangesType ==
    ASSUME TextInv, WordsInv, MayChange(1) PROVE Sound(WorkspaceChanges(rename.spans))
<1>1. PICK S : rename.spans \in Seq(S)
  BY DEF WordsInv
<1>2. PICK cs, n, fresh : cs = WorkspaceChanges(rename.spans) /\ n = Len(rename.spans) /\ fresh = Fresh
  OBVIOUS
<1>3. /\ n \in 0 .. 2 /\ fresh \in Nat /\ fresh > 0
      /\ DOMAIN cs = 1 .. n /\ cs = [i \in DOMAIN cs |-> cs[i]]
      /\ \A i \in DOMAIN cs : cs[i].insert = <<fresh + i - 1>>
  <2>1. n \in 0 .. 2 /\ fresh \in Nat /\ fresh > 0
    <3>1. n \in Nat /\ n <= 2
      BY <1>1, <1>2 DEF WordsInv
    <3>2. fresh \in Nat /\ fresh > 0
      BY <1>2, FreshType
    <3> QED BY <3>1, <3>2
  <2>2. DOMAIN rename.spans = 1 .. n
    BY <1>1, <1>2
  <2>3. DOMAIN cs = 1 .. n /\ cs = [i \in DOMAIN cs |-> cs[i]]
    BY <1>2, <2>2 DEF WorkspaceChanges
  <2>4. \A i \in DOMAIN cs : cs[i].insert = <<fresh + i - 1>>
    BY <1>2, <2>2 DEF WorkspaceChanges, Change
  <2> QED BY <2>1, <2>3, <2>4
<1>4. \A i \in DOMAIN cs : /\ cs[i].insert \in Seq(Nat) /\ Len(cs[i].insert) = 1
                           /\ cs[i].insert[1] = fresh + i - 1
  <2> SUFFICES ASSUME NEW i \in 1 .. n
               PROVE  /\ cs[i].insert \in Seq(Nat) /\ Len(cs[i].insert) = 1
                      /\ cs[i].insert[1] = fresh + i - 1
    BY <1>3
  <2>1. PICK c : c = fresh + i - 1
    OBVIOUS
  <2>2. c \in Nat
    BY <1>3, <2>1
  <2>3. cs[i].insert = <<c>>
    BY <1>3, <2>1
  <2> QED BY <2>1, <2>2, <2>3
<1>5. cs \in Seq(Range(cs)) /\ Len(cs) = n
  BY <1>3 DEF Range
<1>6. IsChanges(cs)
  BY <1>3, <1>4, <1>5 DEF IsChanges
<1>7. IsShort(cs) /\ Len(cs) <= 2
  <2>2. \A l : l = 1 => l <= 1
    OBVIOUS
  <2>1. \A i \in DOMAIN cs : Len(cs[i].insert) <= 1
    BY <1>4, <2>2
  <2> QED BY <1>3, <1>5, <2>1 DEF IsShort
<1>8. ASSUME NEW i \in DOMAIN cs PROVE cs[i].insert[1] \in {Break, fresh, fresh + 1}
  <2>1. i \in 1 .. 2 /\ cs[i].insert[1] = fresh + i - 1
    BY <1>3, <1>4
  <2> QED BY <1>3, <2>1
<1>9. ASSUME NEW i \in DOMAIN cs, NEW j \in DOMAIN cs, cs[i].insert[1] = cs[j].insert[1] PROVE i = j
  <2>1. /\ i \in Nat /\ cs[i].insert[1] = fresh + i - 1
        /\ j \in Nat /\ cs[j].insert[1] = fresh + j - 1
    <3>1. i \in 1 .. n /\ j \in 1 .. n /\ n \in Nat
      BY <1>3
    <3> QED BY <1>4, <3>1
  <2>2. PICK a, b : a = fresh + i - 1 /\ b = fresh + j - 1
    OBVIOUS
  <2>3. a = b
    BY <1>9, <2>1, <2>2
  <2> QED BY <1>3, <2>1, <2>2, <2>3
<1>10. IsNew(cs, fresh)
  BY <1>7, <1>8, <1>9 DEF IsNew
<1> QED BY <1>2, <1>6, <1>10 DEF Sound

LEMMA RenameAnswerSelects ==
    ASSUME TextInv, SelectionInv, WordsInv, RenameAnswer
    PROVE  ViewPart /\ Locks /\ WordsInv' /\ SelectionInv'
<1>1. rename' = NoRename /\ LockKept /\ astray' = astray /\ prepare' = prepare
  BY DEF RenameAnswer
<1>2. WordsInv' /\ Locks
  <2>1. <<>> \in Seq({}) /\ rename'.spans = <<>> /\ Len(<<>>) <= 2
    BY <1>1 DEF NoRename
  <2> QED BY <1>1, <2>1 DEF WordsInv, Locks
<1>3. PICK cs : cs = WorkspaceChanges(rename.spans)
  OBVIOUS
<1>4. CASE MayChange(1) /\ Dispatch(Transaction(cs, <<>>, "none"))
  <2>1. PICK tr : tr = Transaction(cs, <<>>, "none")
    OBVIOUS
  <2>2. Dispatch(tr) /\ tr.changes = cs /\ tr.selects = <<>>
    BY <1>4, <2>1 DEF Transaction
  <2>3. Sound(cs)
    BY <1>3, <1>4, WorkspaceChangesType
  <2> QED BY <1>1, <1>2, <2>2, <2>3, UnselectedKeeps DEF ViewPart, Dispatched
<1>5. CASE DispatchNothing
  BY <1>1, <1>2, <1>5, StillSelects DEF DispatchNothing, pluginVars, ViewPart
<1> QED BY <1>3, <1>4, <1>5 DEF RenameAnswer

LEMMA PrepareKeeps ==
    ASSUME TextInv, SelectionInv, WordsInv, NEW pos, DispatchNothing, Prepare(pos)
    PROVE  ViewPart /\ Locks /\ WordsInv' /\ SelectionInv'
<1>1. LockKept /\ UNCHANGED <<rename, astray>> /\ prepare'.doc = known
  BY DEF Prepare
<1>2. WordsInv'
  BY <1>1 DEF WordsInv, TextInv
<1> QED BY <1>1, <1>2, StillSelects DEF DispatchNothing, pluginVars, ViewPart, Locks

LEMMA RenamesSelect ==
    ASSUME TextInv, SelectionInv, WordsInv, RenamesStep
    PROVE  ViewPart /\ Locks /\ WordsInv' /\ SelectionInv'
BY PrepareKeeps, PrepareAnswerSelects, DismissSelects, CompleteRenameSelects, RenameAnswerSelects
   DEF RenamesStep, RenameKey

-----------------------------------------------------------------------------
(* All steps *)

LEMMA ContextMenuSelects ==
    ASSUME TextInv, SelectionInv, FindsInv, WordsInv, ContextMenuStep
    PROVE  ViewPart /\ Locks /\ FindsInv' /\ WordsInv' /\ SelectionInv'
<1>1. CASE RightClick \/ DismissMenu
  <2>1. DispatchNothing /\ LockKept /\ UNCHANGED <<referenceVars, renameVars>>
    BY <1>1 DEF RightClick, DismissMenu
  <2>2. FindsInv' /\ WordsInv'
    BY <2>1, FindsStay DEF referenceVars, renameVars, WordsInv
  <2> QED BY <2>1, <2>2, StillSelects DEF DispatchNothing, pluginVars, ViewPart, Locks, renameVars
<1>2. CASE MenuReferences
  <2>1. PICK goes : DispatchNothing /\ FindReferences(menu[1], goes) /\ UNCHANGED renameVars
    BY <1>2 DEF MenuReferences
  <2> QED BY <2>1, FindReferencesKeep, StillSelects
          DEF DispatchNothing, pluginVars, ViewPart, Locks, renameVars, WordsInv
<1>3. CASE MenuRename
  <2>1. DispatchNothing /\ Prepare(menu[1]) /\ UNCHANGED referenceVars
    BY <1>3 DEF MenuRename
  <2> QED BY <2>1, PrepareKeeps, FindsStay DEF referenceVars
<1> QED BY <1>1, <1>2, <1>3 DEF ContextMenuStep

\* The steps of signature help, inlay hints and completions leave document and selection.
LEMMA OwnSteps ==
    ASSUME \/ SignatureStep \/ (\E n \in Requests : SignatureLocks(n)) \/ InlayHintsStep
           \/ CompletionStep \/ CompletionLocks
    PROVE  ViewKept /\ Locks
BY WaitersAre DEF Awaited, SignatureStep, DelayedRequest, SignatureDelay, Ask, SignatureLocks, SignatureAnswer,
       SignatureFails, InlayHintsStep, HintsRefresh, HintsRequest, HintsAnswer,
       CompletionStep, Complete, CompletionAnswer, CompletionFails, CompletionLocks, Locks

LEMMA PlacesStart == Init => PlacesInv
<1> SUFFICES ASSUME ViewInit, CompletionsInit, AcceptanceInit, ReferencesInit, RenamesInit
             PROVE  PlacesInv
  BY DEF Init
<1>1. /\ setup.text \in Seq(Nat) /\ Len(setup.text) \in Nat /\ setup \in Setups
      /\ setup.changes \in Nat
  BY SetupAssumption DEF ViewInit
<1>2. TextInv
  <2>1. text = setup.text /\ edits = 0 /\ known = setup.text
    BY DEF ViewInit
  <2>2. Fresh = Len(text) + 1
    BY <1>1, <2>1 DEF Fresh
  <2>3. text \in Seq(0 .. Len(text)) /\ Len(text) \in Nat
    BY <1>1, <2>1, SetupAssumption
  <2>4. \A i \in DOMAIN text : text[i] < Fresh
    BY <2>2, <2>3
  <2>5. \A i, j \in DOMAIN text : text[i] = text[j] => i = j \/ text[i] = Break
    BY <1>1, <2>1, SetupAssumption
  <2>6. Labelled(text, Fresh)
    BY <2>4, <2>5 DEF Labelled
  <2>7. edits \in Nat /\ edits <= setup.changes /\ Len(text) <= Len(setup.text) + 2 * edits
    BY <1>1, <2>1
  <2> QED BY <1>1, <2>1, <2>6, <2>7 DEF TextInv
<1>3. <<>> \in Seq(Nat) /\ <<>> \in Seq({}) /\ Len(<<>>) = 0 /\ DOMAIN <<>> = {}
  OBVIOUS
<1>4. 0 \in Offsets(text) /\ Len(text) \in Offsets(text)
  BY <1>1 DEF ViewInit, Offsets
<1>5. CompletionsInv
  BY <1>3, <1>4 DEF CompletionsInit, CompletionsInv, NoQuery, NoPopup, IsQuery, IsPopup, InText
<1>6. ExtrasInv
  <2>1. extras = <<>> /\ edits = 0
    BY DEF AcceptanceInit, ViewInit
  <2>2. extras \in Seq({}) /\ Len(extras) = 0 /\ DOMAIN extras = {}
    BY <1>3, <2>1
  <2>3. Len(extras) <= 2 /\ edits + Len(extras) <= setup.changes
    BY <1>1, <2>1, <2>2
  <2> QED BY <2>2, <2>3 DEF ExtrasInv
<1>9. WordsInv
  <2>1. rename.spans = <<>> /\ prepare.doc = <<>>
    BY DEF RenamesInit, NoRename, NoPrepare
  <2>2. Len(<<>>) <= 2
    BY <1>3
  <2> QED BY <1>3, <2>1, <2>2 DEF WordsInv
<1>7. FindsInv
  BY <1>3 DEF ReferencesInit, NoFind, FindsInv, IsFind
<1>8. SelectionInv
  <2>1. selection = <<Len(text), Len(text)>>
    BY DEF ViewInit
  <2>2. Selected(text, selection)
    BY <1>4, <2>1, Selects
  <2> QED BY <2>2, SelectedIs DEF SelectionInv, SelectionInText, Selected
<1> QED BY <1>2, <1>5, <1>6, <1>7, <1>8, <1>9 DEF PlacesInv

\* Without changes of the document, or when none are left, they stay.
LEMMA ExtrasStay ==
    ASSUME TextInv, TextInv', ExtrasInv, UNCHANGED extras, setup' = setup,
           edits' = edits \/ extras = <<>>
    PROVE  ExtrasInv'
<1>1. CASE edits' = edits
  <2>1. Fresh' = Fresh
    BY <1>1 DEF Fresh
  <2> QED BY <1>1, <2>1 DEF ExtrasInv
<1>2. CASE extras = <<>>
  <2>1. extras' \in Seq({}) /\ Len(extras') = 0 /\ DOMAIN extras' = {}
    BY <1>2
  <2>2. edits' \in Nat /\ edits' <= setup'.changes
    BY DEF TextInv
  <2>3. Len(extras') <= 2 /\ edits' + Len(extras') <= setup'.changes
    BY <2>1, <2>2
  <2> QED BY <2>1, <2>3 DEF ExtrasInv
<1> QED BY <1>1, <1>2

LEMMA SetupStays == ASSUME ViewPart PROVE setup' = setup
BY DEF ViewPart, Dispatched, Dispatch, ViewUpdate, ViewKept

LEMMA PlacesStep ==
    ASSUME PlacesInv, Next
    PROVE  /\ ViewPart /\ Locks
           /\ ExtrasInv' /\ FindsInv' /\ WordsInv' /\ SelectionInv'
<1> USE DEF PlacesInv
<1>7. ASSUME ViewPart, Locks, UNCHANGED extras, ViewKept \/ extras = <<>> PROVE ExtrasInv'
  <2>1. setup' = setup /\ TextInv'
    BY <1>7, SetupStays, TextKeeps
  <2> QED BY <1>7, <2>1, ExtrasStay DEF ViewKept
<1>1. CASE Quiescent /\ (Type \/ Delete \/ Move \/ Foreign)
  <2>1. ViewPart /\ LockKept /\ UNCHANGED commandVars /\ SelectionInv'
    BY <1>1, TypeSelects, DeleteSelects, MoveSelects, ForeignSelects
  <2>2. FindsInv' /\ WordsInv'
    BY <2>1, FindsStay DEF commandVars, referenceVars, renameVars, WordsInv
  <2>3. ExtrasInv'
    BY <1>1, <1>7, <2>1 DEF commandVars, acceptanceVars, Locks, Quiescent
  <2> QED BY <2>1, <2>2, <2>3 DEF Locks
<1>2. CASE /\ \/ /\ SignatureStep \/ (\E n \in Requests : SignatureLocks(n))
                 /\ UNCHANGED completionVars
              \/ InlayHintsStep /\ UNCHANGED <<signatureVars, completionVars>>
              \/ (CompletionStep \/ CompletionLocks) /\ UNCHANGED signatureVars
           /\ UNCHANGED commandVars
  <2>1. ViewKept /\ Locks
    BY <1>2, OwnSteps
  <2>2. ViewPart
    BY <1>2, <2>1 DEF ViewPart
  <2>3. FindsInv' /\ WordsInv' /\ astray' = astray
    BY <1>2, FindsStay DEF commandVars, referenceVars, renameVars, WordsInv
  <2>4. ExtrasInv'
    BY <1>2, <1>7, <2>1, <2>2 DEF commandVars, acceptanceVars
  <2> QED BY <2>1, <2>2, <2>3, <2>4, StillSelects
<1>3. CASE (AcceptAny \/ AcceptNext) /\ UNCHANGED <<referenceVars, renameVars, menu>>
  <2>1. astray' = astray /\ FindsInv' /\ WordsInv'
    BY <1>3, FindsStay DEF referenceVars, renameVars, WordsInv
  <2> QED BY <1>3, <2>1, AcceptSelects, ExtraSelects DEF Locks
<1>4. CASE /\ \/ Quiescent /\ ReferencesStep
              \/ \E n \in Finds : FindLocks(n)
           /\ UNCHANGED <<acceptanceVars, renameVars>>
  <2>1. astray' = astray /\ WordsInv'
    BY <1>4 DEF renameVars, WordsInv
  <2>2. ViewPart /\ Locks /\ FindsInv' /\ SelectionInv'
    BY <1>4, <2>1, ReferencesSelect
  <2>3. ViewKept \/ extras = <<>>
    BY <1>4 DEF Quiescent, FindLocks, DispatchNothing
  <2> QED BY <1>4, <1>7, <2>1, <2>2, <2>3 DEF acceptanceVars
<1>5. CASE Quiescent /\ RenamesStep /\ UNCHANGED <<acceptanceVars, referenceVars>>
  <2>1. ViewPart /\ Locks /\ WordsInv' /\ SelectionInv'
    BY <1>5, RenamesSelect
  <2>2. FindsInv'
    BY <1>5, FindsStay DEF referenceVars
  <2> QED BY <1>5, <1>7, <2>1, <2>2 DEF acceptanceVars, Quiescent
<1>6. CASE Quiescent /\ ContextMenuStep /\ UNCHANGED acceptanceVars
  <2>1. ViewPart /\ Locks /\ FindsInv' /\ WordsInv' /\ SelectionInv'
    BY <1>6, ContextMenuSelects
  <2> QED BY <1>6, <1>7, <2>1 DEF acceptanceVars, Quiescent
<1>8. CASE Continuation
  BY <1>2, <1>3, <1>4, <1>8 DEF Continuation, commandVars
<1>9. CASE Quiescent /\ Event
  BY <1>1, <1>2, <1>3, <1>4, <1>5, <1>6, <1>9 DEF Event
<1> QED BY <1>8, <1>9 DEF Next


LEMMA PlacesKeep == ASSUME PlacesInv, [Next]_vars PROVE PlacesInv'
<1>1. CASE Next
  <2>1. /\ ViewPart /\ Locks /\ ExtrasInv' /\ FindsInv' /\ WordsInv' /\ SelectionInv'
    BY <1>1, PlacesStep
  <2>2. TextInv'
    BY <2>1, TextKeeps DEF PlacesInv
  <2>3. CompletionsInv'
    BY <2>1, CompletionsKeep DEF PlacesInv
  <2> QED BY <2>1, <2>2, <2>3 DEF PlacesInv
<1>2. CASE UNCHANGED vars
  BY <1>2 DEF vars, viewVars, pluginVars, completionVars, acceptanceVars, referenceVars, renameVars,
       PlacesInv, TextInv, CompletionsInv, IsQuery, IsPopup, ExtrasInv, FindsInv, WordsInv, InText,
       SelectionInv, SelectionInText, Placed, Labelled, Fresh
<1> QED BY <1>1, <1>2

\* Whatever has changed since the language server was asked, nothing that it answers, no
\* mapping of what there was and no edit selects what is not in the document, but a word
\* to rename that comes too late.
THEOREM SelectionStaysInText == Spec => []SelectionInText
<1>1. PlacesInv => SelectionInText
  BY DEF PlacesInv, SelectionInv
<1> QED BY <1>1, PlacesStart, PlacesKeep, PTL DEF Spec
-----------------------------------------------------------------------------
(* Where the tooltip is *)

\* Offset o is behind character c, if c is in doc; fresh is none that has ever been there.
Marks(doc, fresh, o, c) ==
    /\ o \in Offsets(doc) /\ c \in Nat /\ c < fresh
    /\ \A i \in DOMAIN doc : doc[i] = c /\ c # Break => o = i

\* So is what is to be shown, unless there was no place to ask about.
Placeless(r) == r.head = Undefined /\ r.pos = Undefined /\ r.stage \in {"delay", "over"}
Asking(r, doc, fresh) ==
    r.stage # "none" /\ ~r.drop => Marks(doc, fresh, r.pos, r.anchor) \/ Placeless(r)

TooltipInv ==
    /\ Marks(text, Fresh, tooltip.pos, tooltip.anchor)
    /\ ~Shown => tooltip.pos = 0 /\ tooltip.anchor = Break
    /\ \A n \in Requests : Asking(request[n], text, Fresh)
    /\ ~Enabled("signatureHelp") =>
         ~Shown /\ ~delayed /\ \A n \in Requests : request[n].stage = "none"

LEMMA MarkHere ==
    ASSUME NEW doc \in Seq(Nat), NEW fresh \in Nat, fresh > 0, Labelled(doc, fresh),
           NEW o \in Offsets(doc), NEW c, c = IF o \in DOMAIN doc THEN doc[o] ELSE Break
    PROVE  Marks(doc, fresh, o, c)
<1>1. CASE o \in DOMAIN doc
  BY <1>1 DEF Marks, Labelled
<1>2. CASE o \notin DOMAIN doc
  BY <1>2 DEF Marks, Break
<1> QED BY <1>1, <1>2

LEMMA MarkStart ==
    ASSUME NEW doc \in Seq(Nat), NEW fresh \in Nat, fresh > 0 PROVE Marks(doc, fresh, 0, Break)
BY DEF Marks, Break, Offsets

\* Mapping keeps it there.
LEMMA MarkStays ==
    ASSUME TextInv, NEW tr, Dispatched(tr), NEW o, NEW c, Marks(text, Fresh, o, c)
    PROVE  Marks(text', Fresh', Mapped(tr, o), c)
<1>1. PICK cs, fresh, doc : cs = tr.changes /\ fresh = Fresh /\ doc = text
  OBVIOUS
<1>2. /\ IsChanges(cs) /\ IsNew(cs, fresh) /\ fresh \in Nat /\ doc \in Seq(Nat)
      /\ text' = ApplyAll(doc, cs) /\ ViewUpdate(tr)
  BY <1>1, FreshType DEF Dispatched, Dispatch, Sound, ViewUpdate, TextInv
<1>3. o \in Offsets(doc) /\ c \in Nat /\ c < fresh /\ \A i \in DOMAIN doc : doc[i] = c /\ c # Break => o = i
  BY <1>1 DEF Marks
<1>4. Mapped(tr, o) \in Offsets(text')
  BY <1>1, <1>2, <1>3, MappedType
<1>5. Mapped(tr, o) = Len(UpTo(doc, cs, o))
  BY <1>1, <1>3 DEF Mapped, Offsets, Undefined
<1>6. ASSUME NEW i \in DOMAIN text', text'[i] = c, c # Break PROVE Mapped(tr, o) = i
  <2>1. PICK k \in DOMAIN doc : doc[k] = c /\ i = Len(UpTo(doc, cs, k))
    BY <1>2, <1>3, <1>6, CharacterStays
  <2>2. o = k
    BY <1>3, <1>6, <2>1
  <2> QED BY <1>5, <2>1, <2>2
<1>7. c < Fresh'
  <2>1. PICK more : more = Fresh'
    OBVIOUS
  <2>2. more = fresh \/ more = fresh + 2
    <3>1. setup' = setup /\ edits' \in {edits, edits + 1}
      BY <1>2 DEF ViewUpdate
    <3>2. CASE edits' = edits
      BY <1>1, <2>1, <3>1, <3>2 DEF Fresh
    <3>3. CASE edits' = edits + 1
      BY <1>1, <2>1, <3>1, <3>3, FreshGrows
    <3> QED BY <3>1, <3>2, <3>3
  <2>3. c < more
    BY <1>2, <1>3, <2>2
  <2> QED BY <2>1, <2>3
<1> QED BY <1>3, <1>4, <1>6, <1>7 DEF Marks

LEMMA SignatureTypes ==
    ASSUME SignatureInv, NEW n \in Requests
    PROVE  IsRequest(request[n]) /\ Live(request[n], n)
BY DEF SignatureInv

\* A request that begins, among requests that are where they should be.
LEMMA StartMarks ==
    ASSUME NEW doc \in Seq(Nat), NEW fresh \in Nat, fresh > 0, Labelled(doc, fresh),
           NEW head \in Offsets(doc) \cup {Undefined}, NEW requests, NEW current,
           StartRequest(requests, current, doc, head),
           \A n \in Requests : IsRequest(requests[n]) /\ Asking(requests[n], doc, fresh)
    PROVE  \A n \in Requests : Asking(request'[n], doc, fresh)
<1> SUFFICES ASSUME NEW n \in Requests PROVE Asking(request'[n], doc, fresh)
  OBVIOUS
<1>1. CASE n = started'
  <2>1. PICK c : c = IF head \in DOMAIN doc THEN doc[head] ELSE Break
    OBVIOUS
  <2>2. request'[n] = [NoRequest EXCEPT !.stage = "delay", !.head = head, !.pos = head, !.anchor = c]
    BY <1>1, <2>1 DEF StartRequest
  <2>3. /\ request'[n].pos = head /\ request'[n].head = head /\ request'[n].anchor = c
        /\ request'[n].stage = "delay"
    BY <2>2 DEF NoRequest
  <2>4. CASE head \in Offsets(doc)
    BY <2>1, <2>3, <2>4, MarkHere DEF Asking
  <2>5. CASE head = Undefined
    BY <2>3, <2>5 DEF Asking, Placeless
  <2> QED BY <2>4, <2>5
<1>2. CASE n # started' /\ n = current
  <2>1. request'[n] = [requests[n] EXCEPT !.drop = TRUE]
    BY <1>2 DEF StartRequest, Superseded
  <2>2. request'[n].drop = TRUE
    BY <2>1 DEF IsRequest
  <2> QED BY <2>2 DEF Asking
<1>3. CASE n # started' /\ n # current
  <2>1. request'[n] = requests[n]
    BY <1>3 DEF StartRequest
  <2> QED BY <2>1
<1> QED BY <1>1, <1>2, <1>3

\* A transaction maps what is shown, and what is asked about.
LEMMA UpdateMarks ==
    ASSUME TextInv, TextInv', SignatureInv, TooltipInv, NEW tr, Dispatched(tr), Placed(text', selection')
    PROVE  TooltipInv'
<1>0. /\ setup' = setup /\ SignatureUpdate(tr)
      /\ text' \in Seq(Nat) /\ Fresh' \in Nat /\ Fresh' > 0 /\ Labelled(text', Fresh')
  <2>1. setup' = setup /\ SignatureUpdate(tr)
    BY DEF Dispatched, Dispatch, ViewUpdate
  <2>2. setup'.text \in Seq(Nat) /\ edits' \in Nat
    BY SetupAssumption DEF TextInv
  <2>3. PICK l, n : l = Len(setup'.text) /\ n = edits'
    OBVIOUS
  <2>4. l \in Nat /\ n \in Nat /\ Fresh' = l + 2 * n + 1
    BY <2>2, <2>3 DEF Fresh
  <2>5. Fresh' \in Nat /\ Fresh' > 0
    BY <2>4
  <2> QED BY <2>1, <2>5 DEF TextInv
<1>1. CASE ~Enabled("signatureHelp")
  <2>1. UNCHANGED signatureVars
    BY <1>0, <1>1 DEF SignatureUpdate
  <2>2. ~Shown /\ tooltip.pos = 0 /\ tooltip.anchor = Break /\ \A n \in Requests : request[n].stage = "none"
    BY <1>1 DEF TooltipInv
  <2>3. Marks(text', Fresh', 0, Break)
    BY <1>0, MarkStart
  <2> QED BY <1>0, <1>1, <2>1, <2>2, <2>3 DEF TooltipInv, signatureVars, Shown, Asking, Enabled
<1>2. CASE Enabled("signatureHelp")
  <2> DEFINE current == IF SelectionSet(tr) THEN 0 ELSE active
  <2>1. /\ tooltip' = TooltipMapped(tr)
        /\ \/ StartRequest(Updated(tr), current, text', selection'[2])
           \/ request' = Updated(tr)
    BY <1>0, <1>2 DEF SignatureUpdate
  <2>2. /\ Marks(text', Fresh', tooltip'.pos, tooltip'.anchor)
        /\ ~Shown' => tooltip'.pos = 0 /\ tooltip'.anchor = Break
    <3>1. IsTooltip(tooltip)
      BY DEF SignatureInv
    <3>2. CASE Shown
      <4>1. tooltip' = [tooltip EXCEPT !.pos = Mapped(tr, tooltip.pos)]
        BY <2>1, <3>2 DEF TooltipMapped
      <4>2. /\ tooltip'.pos = Mapped(tr, tooltip.pos) /\ tooltip'.anchor = tooltip.anchor
            /\ tooltip'.data = tooltip.data
        BY <3>1, <4>1 DEF IsTooltip
      <4>3. Marks(text', Fresh', Mapped(tr, tooltip.pos), tooltip.anchor)
        BY MarkStays DEF TooltipInv
      <4> QED BY <3>2, <4>2, <4>3 DEF Shown
    <3>3. CASE ~Shown
      <4>1. tooltip' = [tooltip EXCEPT !.pos = tooltip.pos]
        BY <2>1, <3>3 DEF TooltipMapped
      <4>2. tooltip'.pos = tooltip.pos /\ tooltip'.anchor = tooltip.anchor
        BY <3>1, <4>1 DEF IsTooltip
      <4>3. tooltip.pos = 0 /\ tooltip.anchor = Break
        BY <3>3 DEF TooltipInv
      <4> QED BY <1>0, <4>2, <4>3, MarkStart
    <3> QED BY <3>2, <3>3
  <2>3. ASSUME NEW n \in Requests
        PROVE  IsRequest(Updated(tr)[n]) /\ Asking(Updated(tr)[n], text', Fresh')
    <3>1. IsRequest(request[n]) /\ Live(request[n], n) /\ Asking(request[n], text, Fresh)
      BY SignatureTypes DEF TooltipInv
    <3>2. CASE n = active /\ SelectionSet(tr)
      <4>1. Updated(tr)[n] = [request[n] EXCEPT !.drop = TRUE]
        BY <3>2 DEF Updated, Unselected
      <4> QED BY <3>1, <4>1 DEF IsRequest, Asking
    <3>3. CASE n = active /\ ~SelectionSet(tr)
      <4>1. Updated(tr)[n] = [request[n] EXCEPT !.pos = Mapped(tr, request[n].pos)]
        BY <3>3 DEF Updated, Unselected
      <4>2. PICK r : r = Updated(tr)[n]
        OBVIOUS
      <4>3. /\ IsRequest(r) /\ r.pos = Mapped(tr, request[n].pos) /\ r.head = request[n].head
            /\ r.stage = request[n].stage /\ r.drop = request[n].drop /\ r.anchor = request[n].anchor
        BY <3>1, <4>1, <4>2 DEF IsRequest
      <4>4. Marks(text, Fresh, request[n].pos, request[n].anchor) => Marks(text', Fresh', r.pos, r.anchor)
        BY <4>3, MarkStays
      <4>5. Placeless(request[n]) => Placeless(r)
        BY <4>3 DEF Placeless, Mapped
      <4>6. Asking(r, text', Fresh')
        BY <3>1, <4>3, <4>4, <4>5 DEF Asking
      <4> QED BY <4>2, <4>3, <4>6
    <3>4. CASE n # active
      <4>1. Updated(tr)[n] = request[n]
        BY <3>4 DEF Updated
      <4> QED BY <3>1, <3>4, <4>1 DEF Live, Asking
    <3> QED BY <3>2, <3>3, <3>4
  <2>4. \A n \in Requests : Asking(request'[n], text', Fresh')
    <3>1. CASE request' = Updated(tr)
      BY <2>3, <3>1
    <3>2. CASE StartRequest(Updated(tr), current, text', selection'[2])
      <4>1. selection'[2] \in Offsets(text') \cup {Undefined}
        BY PlacesHave
      <4>2. PICK requests, head, fresh, doc : /\ requests = Updated(tr) /\ head = selection'[2]
                                              /\ fresh = Fresh' /\ doc = text'
        OBVIOUS
      <4>3. \A n \in Requests : IsRequest(requests[n]) /\ Asking(requests[n], doc, fresh)
        BY <2>3, <4>2
      <4>4. StartRequest(requests, current, doc, head)
        BY <3>2, <4>2
      <4>5. doc \in Seq(Nat) /\ fresh \in Nat /\ fresh > 0 /\ Labelled(doc, fresh) /\ head \in Offsets(doc) \cup {Undefined}
        BY <1>0, <4>1, <4>2
      <4>6. \A n \in Requests : Asking(request'[n], doc, fresh)
        BY <4>3, <4>4, <4>5, StartMarks
      <4> QED BY <4>2, <4>6
    <3> QED BY <2>1, <3>1, <3>2
  <2> QED BY <1>0, <1>2, <2>2, <2>4 DEF TooltipInv, Enabled
<1> QED BY <1>1, <1>2

\* An answer is shown where its request has been mapped to.
LEMMA AnswerMarks ==
    ASSUME TextInv, SignatureInv, TooltipInv, NEW n \in Requests, SignatureAnswer(n)
    PROVE  /\ Marks(text, Fresh, tooltip'.pos, tooltip'.anchor)
           /\ ~Shown' => tooltip'.pos = 0 /\ tooltip'.anchor = Break
<1>1. PICK result \in Results :
        /\ request[n].stage = "asked"
        /\ tooltip' = tooltip \/ tooltip' = Result(n, result)
  BY DEF SignatureAnswer
<1>2. PICK r : r = request[n]
  OBVIOUS
<1>3. IsTooltip(tooltip) /\ (~r.drop => Marks(text, Fresh, r.pos, r.anchor))
  BY <1>1, <1>2 DEF SignatureInv, TooltipInv, Asking, Placeless
<1>4. CASE tooltip' = tooltip
  BY <1>4 DEF TooltipInv, Shown
<1>5. CASE tooltip' = NoTooltip(n) /\ Shown
  <2>1. tooltip'.pos = 0 /\ tooltip'.anchor = Break
    BY <1>5 DEF NoTooltip
  <2>2. Marks(text, Fresh, 0, Break)
    BY FreshType, MarkStart DEF TextInv
  <2> QED BY <2>1, <2>2
<1>6. CASE Found(result) /\ Found(tooltip.data) /\ tooltip' = [tooltip EXCEPT !.by = n, !.data = result]
  <2>1. tooltip'.pos = tooltip.pos /\ tooltip'.anchor = tooltip.anchor /\ tooltip'.data = result
    BY <1>3, <1>6 DEF IsTooltip
  <2>2. result # Null
    BY <1>6 DEF Found, Null
  <2> QED BY <2>1, <2>2 DEF TooltipInv, Shown
<1>7. CASE Found(result) /\ ~r.drop
           /\ tooltip' = [by |-> n, data |-> result, pos |-> r.pos, anchor |-> r.anchor]
  <2>1. result # Null
    BY <1>7 DEF Found, Null
  <2> QED BY <1>3, <1>7, <2>1 DEF Shown
<1> QED BY <1>1, <1>2, <1>4, <1>5, <1>6, <1>7 DEF Result

LEMMA TooltipKeeps ==
    ASSUME TextInv, TextInv', SelectionInv, SelectionInv', SignatureInv, TooltipInv, ViewPart
    PROVE  TooltipInv'
<1>1. CASE \E tr : Dispatched(tr)
  BY <1>1, UpdateMarks DEF SelectionInv
<1>2. CASE ViewKept /\ (UNCHANGED signatureVars \/ SignatureStep \/ \E n \in Requests : SignatureLocks(n))
  <2>0. text' = text /\ setup' = setup /\ Fresh' = Fresh
    BY <1>2 DEF ViewKept, Fresh
  <2>1. CASE UNCHANGED signatureVars
    BY <2>0, <2>1 DEF TooltipInv, signatureVars, Shown, Enabled, Asking
  <2>2. CASE DelayedRequest
    <3>1. /\ Enabled("signatureHelp") /\ tooltip' = tooltip
          /\ StartRequest(request, active, text, Cursor)
      BY <2>2 DEF DelayedRequest, TooltipInv
    <3>2. \A n \in Requests : IsRequest(request[n]) /\ Asking(request[n], text, Fresh)
      BY SignatureTypes DEF TooltipInv
    <3>3. Cursor \in Offsets(text) \cup {Undefined}
      BY PlacesHave DEF SelectionInv, Cursor
    <3>4. PICK fresh, doc : fresh = Fresh /\ doc = text
      OBVIOUS
    <3>5. doc \in Seq(Nat) /\ fresh \in Nat /\ fresh > 0 /\ Labelled(doc, fresh)
      BY <3>4, FreshType DEF TextInv
    <3>6. \A n \in Requests : Asking(request'[n], text, Fresh)
      BY <3>1, <3>2, <3>3, <3>4, <3>5, StartMarks
    <3> QED BY <2>0, <3>1, <3>6 DEF TooltipInv, Shown, Enabled
  <2>3. ASSUME NEW n \in Requests,
               SignatureLocks(n) \/ SignatureDelay(n) \/ SignatureFails(n) \/ SignatureAnswer(n)
        PROVE  TooltipInv'
    <3>1. request[n].stage # "none" /\ Enabled("signatureHelp")
      BY <2>3 DEF SignatureLocks, SignatureDelay, SignatureFails, SignatureAnswer, TooltipInv
    <3>2. PICK stage, attempts :
            /\ request' = [request EXCEPT ![n].attempts = attempts, ![n].stage = stage]
            /\ stage # "over" => request[n].stage \in {"locking", "asked"} \/ ~Throws(text, request[n].head)
      <4>1. CASE SignatureAnswer(n)
        BY <4>1 DEF SignatureAnswer
      <4>2. CASE SignatureLocks(n) \/ SignatureDelay(n) \/ SignatureFails(n)
        <5>1. PICK stage : /\ request' = [request EXCEPT ![n].stage = stage]
                           /\ stage # "over" => request[n].stage \in {"locking", "asked"} \/ ~Throws(text, request[n].head)
          BY <4>2 DEF SignatureLocks, SignatureDelay, SignatureFails, Ask, Become
        <5>2. /\ request = [m \in Requests |-> request[m]] /\ IsRequest(request[n])
          BY DEF SignatureInv
        <5>3. request' = [request EXCEPT ![n] = [request[n] EXCEPT !.stage = stage]]
          BY <5>1
        <5>4. [request[n] EXCEPT !.stage = stage] = [request[n] EXCEPT !.attempts = request[n].attempts, !.stage = stage]
          BY <5>2 DEF IsRequest
        <5>5. request' = [request EXCEPT ![n].attempts = request[n].attempts, ![n].stage = stage]
          BY <5>3, <5>4
        <5> QED BY <5>1, <5>5
      <4> QED BY <2>3, <4>1, <4>2
    <3>3. /\ IsRequest(request[n]) /\ Asking(request[n], text, Fresh)
          /\ request = [m \in Requests |-> request[m]]
      BY DEF SignatureInv, TooltipInv
    <3>4. PICK r : r = [request[n] EXCEPT !.attempts = attempts, !.stage = stage]
      OBVIOUS
    <3>5. request'[n] = r /\ \A m \in Requests : m # n => request'[m] = request[m]
      BY <3>2, <3>3, <3>4
    <3>6. /\ r.pos = request[n].pos /\ r.head = request[n].head /\ r.drop = request[n].drop
          /\ r.anchor = request[n].anchor /\ r.stage = stage
      BY <3>3, <3>4 DEF IsRequest
    <3>7. Placeless(request[n]) => Placeless(r)
      BY <3>2, <3>6 DEF Placeless, Throws, Offsets, Undefined
    <3>8. Asking(r, text, Fresh)
      BY <3>1, <3>3, <3>6, <3>7 DEF Asking
    <3>9. \A m \in Requests : Asking(request'[m], text, Fresh)
      BY <3>5, <3>8 DEF TooltipInv
    <3>10. /\ Marks(text, Fresh, tooltip'.pos, tooltip'.anchor)
           /\ ~Shown' => tooltip'.pos = 0 /\ tooltip'.anchor = Break
      <4>1. CASE SignatureAnswer(n)
        BY <4>1, AnswerMarks
      <4>2. CASE tooltip' = tooltip
        BY <4>2 DEF TooltipInv, Shown
      <4> QED BY <2>3, <4>1, <4>2 DEF SignatureLocks, SignatureDelay, SignatureFails
    <3> QED BY <2>0, <3>1, <3>9, <3>10 DEF TooltipInv, Enabled
  <2> QED BY <1>2, <2>1, <2>2, <2>3 DEF SignatureStep
<1> QED BY <1>1, <1>2 DEF ViewPart

LEMMA TooltipStart == ASSUME PlacesInv, Init PROVE TooltipInv
<1>1. /\ tooltip = NoTooltip(0) /\ request = [n \in Requests |-> NoRequest] /\ ~delayed
  BY DEF Init, SignatureInit
<1>2. tooltip.pos = 0 /\ tooltip.anchor = Break /\ ~Shown
  BY <1>1 DEF NoTooltip, Shown
<1>3. \A n \in Requests : request[n].stage = "none"
  BY <1>1 DEF NoRequest
<1>4. Marks(text, Fresh, 0, Break)
  BY FreshType, MarkStart DEF PlacesInv, TextInv
<1> QED BY <1>1, <1>2, <1>3, <1>4 DEF TooltipInv, Asking

LEMMA TooltipStep ==
    ASSUME PlacesInv, PlacesInv', SignatureInv, TooltipInv, [Next]_vars PROVE TooltipInv'
<1>1. CASE Next
  <2>1. ViewPart
    BY <1>1, PlacesStep
  <2> QED BY <2>1, TooltipKeeps DEF PlacesInv
<1>2. CASE UNCHANGED vars
  BY <1>2 DEF vars, viewVars, pluginVars, signatureVars, TooltipInv, Shown, Enabled, Asking, Fresh
<1> QED BY <1>1, <1>2

\* The tooltip stays where CodeMirror has mapped the position that was asked about: in the
\* text, and behind the character that was before it for as long as that is there.
THEOREM TooltipIsThere == Spec => []TooltipStays
<1>1. TooltipInv => TooltipStays
  BY DEF TooltipInv, TooltipStays, Marks
<1>2. SignatureInv /\ [Next]_vars => SignatureInv'
  BY StepParts, SignatureKeeps DEF Parts
<1>3. Init => SignatureInv /\ PlacesInv /\ TooltipInv
  BY InitSignature, PlacesStart, TooltipStart
<1>4. SignatureInv /\ PlacesInv /\ TooltipInv /\ [Next]_vars => (SignatureInv /\ PlacesInv /\ TooltipInv)'
  BY <1>2, PlacesKeep, TooltipStep
<1> QED BY <1>1, <1>3, <1>4, PTL DEF Spec

-----------------------------------------------------------------------------
(* Types *)

LockInv ==
    /\ sent \in Nat /\ sent <= edits /\ paused \in BOOLEAN
    /\ sent = edits => known = text
    /\ lastSent \in Seq(Nat)
    /\ held \in Waiters \cup {Update, Nothing} /\ stranded \subseteq Waiters

LEMMA LockStays ==
    ASSUME TextInv, LockInv, ViewPart, Locks PROVE LockInv'
<1>1. \/ text' = text /\ edits' = edits
      \/ edits' = edits + 1
  <2>1. CASE ViewKept
    BY <2>1 DEF ViewKept
  <2>2. ASSUME NEW tr, Dispatched(tr)
        PROVE  \/ text' = text /\ edits' = edits
               \/ edits' = edits + 1
    <3>1. CASE tr.changes = <<>>
      BY <2>2, <3>1, AppliedNothing DEF Dispatched, Dispatch, ViewUpdate, DocChanged, TextInv
    <3>2. CASE tr.changes # <<>>
      BY <2>2, <3>2 DEF Dispatched, Dispatch, ViewUpdate, DocChanged
    <3> QED BY <3>1, <3>2
  <2> QED BY <2>1, <2>2 DEF ViewPart
<1>2. edits \in Nat
  BY DEF TextInv
<1>5. paused' \in BOOLEAN
  BY DEF Locks, Awaited, LockKept, LockAwaited, LockTaken, LockLeft, LockRetaken, LockInv
<1>6. /\ held' \in Waiters \cup {Update, Nothing} /\ stranded' \subseteq Waiters
  BY DEF Locks, Awaited, LockKept, LockAwaited, LockTaken, LockLeft, LockRetaken, SyncChanges, Started,
         syncVars, LockInv
<1>3. CASE UNCHANGED <<sent, known, lastSent>>
  BY <1>1, <1>2, <1>3, <1>5, <1>6 DEF LockInv
<1>4. CASE Sends
  <2>1. text' \in Seq(Nat)
    BY TextKeeps DEF TextInv
  <2> QED BY <1>1, <1>2, <1>4, <1>5, <1>6, <2>1 DEF LockInv, Sends
<1> QED BY <1>3, <1>4, LocksSend

\* A request is attempted so many times; who has given up does not go on.
Waits(r) == r.stage \in {"delay", "locking", "asked"}
RequestTyped(r) ==
    /\ r.stage \in Stages /\ r.drop \in BOOLEAN
    /\ r.head \in Nat \cup {Undefined} /\ r.pos \in Nat \cup {Undefined} /\ r.anchor \in Nat
    /\ r.attempts \in Nat /\ r.attempts <= MaxAttempts
    /\ Waits(r) => r.attempts < MaxAttempts

RequestsInv ==
    /\ started <= MaxRequests /\ active \in 0 .. started /\ delayed \in BOOLEAN
    /\ active # 0 => request[active].stage # "none" /\ ~request[active].drop
    /\ tooltip.by \in 0 .. started /\ tooltip.data \in Results
    /\ \A n \in Requests : RequestTyped(request[n])

LEMMA StartTyped ==
    ASSUME NEW doc \in Seq(Nat), NEW head \in Offsets(doc) \cup {Undefined}, NEW requests, NEW current,
           started \in Nat, StartRequest(requests, current, doc, head), started < MaxRequests,
           \A n \in Requests : IsRequest(requests[n]) /\ RequestTyped(requests[n])
    PROVE  /\ started' \in Nat /\ started' <= MaxRequests /\ active' \in 0 .. started' /\ delayed' \in BOOLEAN
           /\ active' # 0 => request'[active'].stage # "none" /\ ~request'[active'].drop
           /\ \A n \in Requests : RequestTyped(request'[n])
<1>1. started' = started + 1 /\ active' = started' /\ delayed' = FALSE
  BY DEF StartRequest
<1>2. MaxRequests \in Nat
  BY RequestAssumption
<1>3. started' \in Requests
  BY <1>1, <1>2 DEF Requests
<1>4. PICK c : c = IF head \in DOMAIN doc THEN doc[head] ELSE Break
  OBVIOUS
<1>5. c \in Nat /\ head \in Nat \cup {Undefined}
  BY <1>4 DEF Break, Offsets
<1>6. ASSUME NEW n \in Requests, n = started'
      PROVE  RequestTyped(request'[n]) /\ request'[n].stage # "none" /\ ~request'[n].drop
  <2>1. request'[n] = [NoRequest EXCEPT !.stage = "delay", !.head = head, !.pos = head, !.anchor = c]
    BY <1>4, <1>6 DEF StartRequest
  <2>2. PICK r : r = request'[n]
    OBVIOUS
  <2>3. /\ r.pos = head /\ r.head = head /\ r.anchor = c
        /\ r.stage = "delay" /\ r.drop = FALSE /\ r.attempts = 0
    BY <2>1, <2>2 DEF NoRequest
  <2>4. 0 <= MaxAttempts /\ 0 < MaxAttempts
    BY AttemptAssumption
  <2>5. r.stage \in Stages /\ r.drop \in BOOLEAN
    BY <2>3 DEF Stages
  <2>6. r.head \in Nat \cup {Undefined} /\ r.pos \in Nat \cup {Undefined} /\ r.anchor \in Nat
    BY <1>5, <2>3
  <2>7. r.attempts \in Nat /\ r.attempts <= MaxAttempts /\ r.attempts < MaxAttempts
    BY <2>3, <2>4
  <2>8. RequestTyped(r)
    BY <2>5, <2>6, <2>7 DEF RequestTyped
  <2> QED BY <2>2, <2>3, <2>8
<1>7. ASSUME NEW n \in Requests, n # started' PROVE RequestTyped(request'[n])
  <2>1. CASE n = current
    <3>1. request'[n] = [requests[n] EXCEPT !.drop = TRUE]
      BY <1>7, <2>1 DEF StartRequest, Superseded
    <3>2. PICK r, q : r = request'[n] /\ q = requests[n]
      OBVIOUS
    <3>3. /\ r.pos = q.pos /\ r.head = q.head /\ r.anchor = q.anchor
          /\ r.stage = q.stage /\ r.drop = TRUE /\ r.attempts = q.attempts
      BY <3>1, <3>2 DEF IsRequest
    <3> QED BY <3>2, <3>3 DEF RequestTyped, Waits
  <2>2. CASE n # current
    <3>1. request'[n] = requests[n]
      BY <1>7, <2>2 DEF StartRequest
    <3> QED BY <3>1
  <2> QED BY <2>1, <2>2
<1>8. \A n \in Requests : RequestTyped(request'[n])
  BY <1>6, <1>7
<1>9. active' # 0 => request'[active'].stage # "none" /\ ~request'[active'].drop
  BY <1>1, <1>3, <1>6
<1>10. started' \in Nat /\ started' <= MaxRequests
  BY <1>1, <1>2
<1>11. active' \in 0 .. started'
  BY <1>1, <1>10
<1>12. delayed' \in BOOLEAN
  BY <1>1
<1> QED BY <1>8, <1>9, <1>10, <1>11, <1>12

LEMMA UpdateTyped ==
    ASSUME TextInv, TextInv', SignatureInv, TooltipInv, RequestsInv, NEW tr, Dispatched(tr),
           Placed(text', selection')
    PROVE  RequestsInv'
<1>0. SignatureUpdate(tr) /\ MayTrigger(tr) /\ ViewUpdate(tr) /\ IsChanges(tr.changes)
  BY DEF Dispatched, Dispatch, Sound
<1>1. CASE UNCHANGED signatureVars
  BY <1>1 DEF signatureVars, RequestsInv, RequestTyped, Waits
<1>2. CASE ~UNCHANGED signatureVars
  <2> DEFINE current == IF SelectionSet(tr) THEN 0 ELSE active
  <2>1. /\ tooltip' = TooltipMapped(tr)
        /\ \/ /\ StartRequest(Updated(tr), current, text', selection'[2])
              /\ started < MaxRequests
           \/ /\ request' = Updated(tr) /\ active' = current /\ started' = started
              /\ delayed' = (delayed \/ (Shown /\ SelectionSet(tr)))
    BY <1>0, <1>2 DEF SignatureUpdate, MayTrigger
  <2>2. tooltip'.by = tooltip.by /\ tooltip'.data = tooltip.data /\ started \in Nat
    BY <2>1 DEF TooltipMapped, SignatureInv, IsTooltip
  <2>3. ASSUME NEW n \in Requests
        PROVE  /\ IsRequest(Updated(tr)[n]) /\ RequestTyped(Updated(tr)[n])
               /\ n = active /\ ~SelectionSet(tr) => /\ Updated(tr)[n].stage = request[n].stage
                                                     /\ Updated(tr)[n].drop = request[n].drop
    <3>1. IsRequest(request[n]) /\ RequestTyped(request[n])
      BY SignatureTypes DEF RequestsInv
    <3>2. CASE n = active /\ SelectionSet(tr)
      <4>1. Updated(tr)[n] = [request[n] EXCEPT !.drop = TRUE]
        BY <3>2 DEF Updated, Unselected
      <4>2. PICK r, q : r = Updated(tr)[n] /\ q = request[n]
        OBVIOUS
      <4>3. /\ r.pos = q.pos /\ r.head = q.head /\ r.anchor = q.anchor /\ IsRequest(r)
            /\ r.stage = q.stage /\ r.drop = TRUE /\ r.attempts = q.attempts
        BY <3>1, <4>1, <4>2 DEF IsRequest
      <4>4. RequestTyped(r)
        BY <3>1, <4>2, <4>3 DEF RequestTyped, Waits
      <4> QED BY <3>2, <4>2, <4>3, <4>4
    <3>3. CASE n = active /\ ~SelectionSet(tr)
      <4>1. Updated(tr)[n] = [request[n] EXCEPT !.pos = Mapped(tr, request[n].pos)]
        BY <3>3 DEF Updated, Unselected
      <4>2. PICK r, q : r = Updated(tr)[n] /\ q = request[n]
        OBVIOUS
      <4>3. /\ r.pos = Mapped(tr, q.pos) /\ r.head = q.head /\ r.anchor = q.anchor /\ IsRequest(r)
            /\ r.stage = q.stage /\ r.drop = q.drop /\ r.attempts = q.attempts
        BY <3>1, <4>1, <4>2 DEF IsRequest
      <4>4. q.pos \in Offsets(text) \cup {Undefined}
        <5>1. n # 0
          BY DEF Requests
        <5>2. Asking(q, text, Fresh) /\ q.stage # "none" /\ ~q.drop
          BY <3>3, <4>2, <5>1 DEF RequestsInv, TooltipInv
        <5> QED BY <5>2 DEF Asking, Marks, Placeless
      <4>5. Mapped(tr, q.pos) \in Offsets(text') \cup {Undefined}
        BY <1>0, <4>4, MappedType DEF Mapped
      <4>6. Mapped(tr, q.pos) \in Nat \cup {Undefined}
        BY <4>5 DEF Offsets
      <4>7. RequestTyped(r)
        BY <3>1, <4>2, <4>3, <4>6 DEF RequestTyped, Waits
      <4> QED BY <4>2, <4>3, <4>7
    <3>4. CASE n # active
      <4>1. Updated(tr)[n] = request[n]
        BY <3>4 DEF Updated
      <4> QED BY <3>1, <3>4, <4>1
    <3> QED BY <3>2, <3>3, <3>4
  <2>4. CASE StartRequest(Updated(tr), current, text', selection'[2]) /\ started < MaxRequests
    <3>1. selection'[2] \in Offsets(text') \cup {Undefined} /\ text' \in Seq(Nat)
      BY PlacesHave DEF TextInv
    <3>2. PICK requests, head, doc : requests = Updated(tr) /\ head = selection'[2] /\ doc = text'
      OBVIOUS
    <3>3. \A n \in Requests : IsRequest(requests[n]) /\ RequestTyped(requests[n])
      BY <2>3, <3>2
    <3>4. /\ doc \in Seq(Nat) /\ head \in Offsets(doc) \cup {Undefined}
          /\ StartRequest(requests, current, doc, head)
      BY <2>4, <3>1, <3>2
    <3>5. /\ started' \in Nat /\ started' <= MaxRequests /\ active' \in 0 .. started' /\ delayed' \in BOOLEAN
          /\ active' # 0 => request'[active'].stage # "none" /\ ~request'[active'].drop
          /\ \A n \in Requests : RequestTyped(request'[n])
      BY <2>2, <2>4, <3>3, <3>4, StartTyped
    <3>6. started' = started + 1
      BY <2>4 DEF StartRequest
    <3> QED BY <2>2, <3>5, <3>6 DEF RequestsInv
  <2>5. CASE /\ request' = Updated(tr) /\ active' = current /\ started' = started
             /\ delayed' = (delayed \/ (Shown /\ SelectionSet(tr)))
    <3>1. \A n \in Requests : RequestTyped(request'[n])
      BY <2>3, <2>5
    <3>2. delayed' \in BOOLEAN
      BY <2>5 DEF RequestsInv
    <3>3. active' \in 0 .. started' /\ started' <= MaxRequests
      BY <2>2, <2>5 DEF RequestsInv
    <3>4. ASSUME active' # 0 PROVE request'[active'].stage # "none" /\ ~request'[active'].drop
      <4>1. active' = active /\ ~SelectionSet(tr)
        BY <2>5, <3>4
      <4>2. active \in Requests
        BY <2>2, <3>4, <4>1, RequestAssumption DEF RequestsInv, Requests
      <4>3. request[active].stage # "none" /\ ~request[active].drop
        BY <3>4, <4>1 DEF RequestsInv
      <4> QED BY <2>3, <2>5, <4>1, <4>2, <4>3
    <3> QED BY <2>2, <2>5, <3>1, <3>2, <3>3, <3>4 DEF RequestsInv
  <2> QED BY <2>1, <2>4, <2>5
<1> QED BY <1>1, <1>2

\* A step of request n that leaves it with this stage and these attempts.
LEMMA RequestGoesOn ==
    ASSUME SignatureInv, RequestsInv, NEW n \in Requests, NEW stage \in Stages, NEW attempts \in Nat,
           request' = [request EXCEPT ![n].attempts = attempts, ![n].stage = stage],
           attempts <= MaxAttempts, stage \in {"delay", "locking", "asked"} => attempts < MaxAttempts,
           stage # "none", UNCHANGED <<started, active, delayed>>,
           tooltip'.by \in 0 .. started, tooltip'.data \in Results
    PROVE  RequestsInv'
<1>1. IsRequest(request[n]) /\ RequestTyped(request[n]) /\ request = [m \in Requests |-> request[m]]
  BY DEF SignatureInv, RequestsInv
<1>2. PICK r : r = [request[n] EXCEPT !.attempts = attempts, !.stage = stage]
  OBVIOUS
<1>3. request'[n] = r /\ \A m \in Requests : m # n => request'[m] = request[m]
  BY <1>1, <1>2
<1>4. /\ r.pos = request[n].pos /\ r.head = request[n].head /\ r.drop = request[n].drop
      /\ r.anchor = request[n].anchor /\ r.stage = stage /\ r.attempts = attempts
  BY <1>1, <1>2 DEF IsRequest
<1>5. RequestTyped(r)
  BY <1>1, <1>4 DEF RequestTyped, Waits
<1>6. \A m \in Requests : RequestTyped(request'[m])
  BY <1>3, <1>5 DEF RequestsInv
<1>7. active # 0 => request'[active].stage # "none" /\ ~request'[active].drop
  <2>1. CASE active = n
    BY <1>3, <1>4, <2>1 DEF RequestsInv
  <2>2. CASE active # n /\ active # 0
    <3>1. active \in Requests
      BY <2>2, RequestAssumption DEF RequestsInv, SignatureInv, Requests
    <3> QED BY <1>3, <2>2, <3>1 DEF RequestsInv
  <2> QED BY <2>1, <2>2
<1> QED BY <1>6, <1>7 DEF RequestsInv

\* What an answer leaves is a result, of one of the requests.
LEMMA ResultTyped ==
    ASSUME SignatureInv, RequestsInv, NEW n \in Requests, request[n].stage # "none", NEW result \in Results
    PROVE  Result(n, result).by \in 0 .. started /\ Result(n, result).data \in Results
<1>1. n \in 0 .. started
  BY DEF SignatureInv, Requests
<1>2. tooltip.by \in 0 .. started /\ tooltip.data \in Results /\ Null \in Results
  BY DEF RequestsInv, Results
<1>3. CASE Result(n, result) = tooltip
  BY <1>2, <1>3
<1>4. CASE Result(n, result) = NoTooltip(n)
  BY <1>1, <1>2, <1>4 DEF NoTooltip
<1>5. CASE Result(n, result) = [tooltip EXCEPT !.by = n, !.data = result]
  <2>1. IsTooltip(tooltip)
    BY DEF SignatureInv
  <2>2. PICK t, u : t = tooltip /\ u = Result(n, result)
    OBVIOUS
  <2>3. u.by = n /\ u.data = result
    BY <1>5, <2>1, <2>2 DEF IsTooltip
  <2> QED BY <1>1, <2>2, <2>3
<1>6. CASE Result(n, result) = [by |-> n, data |-> result, pos |-> request[n].pos, anchor |-> request[n].anchor]
  BY <1>1, <1>6
<1> QED BY <1>3, <1>4, <1>5, <1>6 DEF Result

LEMMA RequestsKeep ==
    ASSUME TextInv, TextInv', SelectionInv, SelectionInv', SignatureInv, TooltipInv, RequestsInv, ViewPart
    PROVE  RequestsInv'
<1>1. CASE \E tr : Dispatched(tr)
  BY <1>1, UpdateTyped DEF SelectionInv
<1>2. CASE UNCHANGED signatureVars
  BY <1>2 DEF signatureVars, RequestsInv
<1>3. CASE DelayedRequest
  <2>1. /\ tooltip' = tooltip /\ StartRequest(request, active, text, Cursor)
        /\ started < MaxRequests /\ started \in Nat
    BY <1>3 DEF DelayedRequest, SignatureInv
  <2>2. \A n \in Requests : IsRequest(request[n]) /\ RequestTyped(request[n])
    BY SignatureTypes DEF RequestsInv
  <2>3. PICK head, doc : head = Cursor /\ doc = text
    OBVIOUS
  <2>4. head \in Offsets(doc) \cup {Undefined} /\ doc \in Seq(Nat) /\ StartRequest(request, active, doc, head)
    BY <2>1, <2>3, PlacesHave DEF SelectionInv, Cursor, TextInv
  <2>5. /\ started' \in Nat /\ started' <= MaxRequests /\ active' \in 0 .. started' /\ delayed' \in BOOLEAN
        /\ active' # 0 => request'[active'].stage # "none" /\ ~request'[active'].drop
        /\ \A n \in Requests : RequestTyped(request'[n])
    BY <2>1, <2>2, <2>4, StartTyped
  <2>6. started' = started + 1
    BY <2>1 DEF StartRequest
  <2> QED BY <2>1, <2>5, <2>6 DEF RequestsInv
<1>4. ASSUME NEW n \in Requests, SignatureLocks(n) \/ SignatureDelay(n) \/ SignatureFails(n)
      PROVE  RequestsInv'
  <2>1. PICK stage \in {"asked", "locking", "over"} : request' = [request EXCEPT ![n].stage = stage]
    BY <1>4 DEF SignatureLocks, SignatureDelay, SignatureFails, Ask, Become
  <2>2. IsRequest(request[n]) /\ RequestTyped(request[n]) /\ request = [m \in Requests |-> request[m]]
    BY DEF SignatureInv, RequestsInv
  <2>3. request' = [request EXCEPT ![n] = [request[n] EXCEPT !.stage = stage]]
    BY <2>1
  <2>4. [request[n] EXCEPT !.stage = stage] = [request[n] EXCEPT !.attempts = request[n].attempts, !.stage = stage]
    BY <2>2 DEF IsRequest
  <2>5. request' = [request EXCEPT ![n].attempts = request[n].attempts, ![n].stage = stage]
    BY <2>3, <2>4
  <2>6. Waits(request[n])
    BY <1>4 DEF SignatureLocks, SignatureDelay, SignatureFails, Waits
  <2>7. request[n].attempts \in Nat /\ request[n].attempts <= MaxAttempts /\ request[n].attempts < MaxAttempts
    BY <2>2, <2>6 DEF RequestTyped
  <2>8. UNCHANGED <<started, active, delayed>> /\ tooltip' = tooltip
    BY <1>4 DEF SignatureLocks, SignatureDelay, SignatureFails
  <2>9. tooltip'.by \in 0 .. started /\ tooltip'.data \in Results
    BY <2>8 DEF RequestsInv
  <2>10. stage \in Stages /\ stage # "none"
    BY DEF Stages
  <2> QED BY <2>5, <2>7, <2>8, <2>9, <2>10, RequestGoesOn
<1>5. ASSUME NEW n \in Requests, SignatureAnswer(n) PROVE RequestsInv'
  <2>1. PICK result \in Results :
          LET again == result = Null /\ Attempts(n) < MaxAttempts
              throws == again /\ Throws(text, request[n].head)
          IN /\ request[n].stage = "asked"
             /\ request' = [request EXCEPT ![n].attempts = Attempts(n),
                                           ![n].stage = IF again /\ ~throws THEN "asked" ELSE "over"]
             /\ tooltip' = IF again THEN tooltip ELSE Result(n, result)
    BY <1>5 DEF SignatureAnswer
  <2>2. PICK stage, attempts :
          /\ stage = IF (result = Null /\ Attempts(n) < MaxAttempts) /\ ~Throws(text, request[n].head)
                     THEN "asked" ELSE "over"
          /\ attempts = Attempts(n)
    OBVIOUS
  <2>3. request' = [request EXCEPT ![n].attempts = attempts, ![n].stage = stage]
    BY <2>1, <2>2
  <2>4. RequestTyped(request[n]) /\ Waits(request[n]) /\ MaxAttempts \in Nat
    BY <2>1, AttemptAssumption DEF RequestsInv, Waits
  <2>5. attempts \in Nat /\ attempts <= MaxAttempts
    BY <2>2, <2>4 DEF Attempts, RequestTyped
  <2>6. stage \in {"delay", "locking", "asked"} => attempts < MaxAttempts
    BY <2>2
  <2>7. stage \in Stages /\ stage # "none"
    BY <2>2 DEF Stages
  <2>8. tooltip'.by \in 0 .. started /\ tooltip'.data \in Results
    BY <2>1, ResultTyped DEF RequestsInv
  <2>9. UNCHANGED <<started, active, delayed>>
    BY <1>5 DEF SignatureAnswer
  <2> QED BY <2>3, <2>5, <2>6, <2>7, <2>8, <2>9, RequestGoesOn
<1> QED BY <1>1, <1>2, <1>3, <1>4, <1>5 DEF ViewPart, SignatureStep

LEMMA RequestsHaveTypes ==
    ASSUME TextInv, SignatureInv, TooltipInv, RequestsInv PROVE SignatureTypeOK
<1>1. tooltip \in [by : 0 .. started, data : Results, pos : Nat, anchor : Nat]
  <2>1. tooltip.pos \in Nat /\ tooltip.anchor \in Nat
    BY DEF TooltipInv, Marks, Offsets
  <2> QED BY <2>1 DEF SignatureInv, IsTooltip, RequestsInv
<1>2. ASSUME NEW n \in Requests
      PROVE  request[n] \in [stage : Stages, head : Nat \cup {Undefined}, pos : Nat \cup {Undefined},
                             drop : BOOLEAN, attempts : 0 .. MaxAttempts, anchor : Nat]
  <2>1. IsRequest(request[n]) /\ RequestTyped(request[n]) /\ MaxAttempts \in Nat
    BY AttemptAssumption DEF SignatureInv, RequestsInv
  <2> QED BY <2>1 DEF IsRequest, RequestTyped
<1>3. request = [n \in Requests |-> request[n]]
  BY DEF SignatureInv
<1>4. started \in 0 .. MaxRequests /\ active \in 0 .. started /\ delayed \in BOOLEAN /\ moved \in 0 .. started
  BY RequestAssumption DEF SignatureInv, RequestsInv
<1> QED BY <1>1, <1>2, <1>3, <1>4 DEF SignatureTypeOK

LEMMA Bounds ==
    ASSUME TextInv, LockInv
    PROVE  /\ MaxEdits \in Nat /\ Len(setup.text) \in Nat
           /\ edits \in 0 .. MaxEdits /\ sent \in 0 .. MaxEdits
           /\ Len(text) - 1 \in -1 .. Len(setup.text) + 2 * MaxEdits
<1>1. setup.changes \in 0 .. MaxEdits /\ MaxEdits \in Nat
  BY EditAssumption, SetupAssumption DEF TextInv
<1>2. setup.text \in Seq(0 .. Len(setup.text))
  BY SetupAssumption DEF TextInv
<1>3. Len(setup.text) \in Nat
  BY <1>2
<1>4. edits \in 0 .. MaxEdits /\ sent \in 0 .. MaxEdits
  BY <1>1 DEF TextInv, LockInv
<1>5. Len(text) \in Nat
  <2>1. text \in Seq(Nat)
    BY DEF TextInv
  <2> QED BY <2>1
<1>6. Len(text) - 1 \in -1 .. Len(setup.text) + 2 * MaxEdits
  <2>1. PICK size, start, changes : size = Len(text) /\ start = Len(setup.text) /\ changes = edits
    OBVIOUS
  <2>2. size <= start + 2 * changes
    BY <2>1 DEF TextInv
  <2>3. size \in Nat /\ start \in Nat /\ changes \in Nat /\ changes <= MaxEdits
    BY <1>1, <1>3, <1>4, <1>5, <2>1
  <2>4. PICK most \in Int : most = start + 2 * MaxEdits
    BY <1>1, <2>3
  <2>5. size - 1 \in Int /\ -1 <= size - 1 /\ size - 1 <= most
    BY <1>1, <2>2, <2>3, <2>4
  <2>6. size - 1 \in -1 .. most
    BY <2>5
  <2> QED BY <2>1, <2>4, <2>6
<1> QED BY <1>1, <1>3, <1>4, <1>6

LEMMA WithoutOne ==
    ASSUME NEW S, jobs \in Seq(S), NEW i \in DOMAIN jobs
    PROVE  Without(i) \in Seq(S) /\ Len(Without(i)) = Len(jobs) - 1
<1> DEFINE front == SubSeq(jobs, 1, i - 1)
           back == SubSeq(jobs, i + 1, Len(jobs))
<1>1. i \in 1 .. Len(jobs) /\ Len(jobs) \in Nat
  OBVIOUS
<1>2. front \in Seq(S) /\ Len(front) = i - 1
  BY <1>1
<1>3. back \in Seq(S) /\ Len(back) = Len(jobs) - i
  BY <1>1
<1>4. Without(i) = front \o back
  BY DEF Without
<1> HIDE DEF front, back
<1>5. front \o back \in Seq(S) /\ Len(front \o back) = Len(front) + Len(back)
  BY <1>2, <1>3, ConcatProperties
<1> QED BY <1>1, <1>2, <1>3, <1>4, <1>5

LEMMA HintsTyped ==
    ASSUME TextInv, LockInv, InlayHintsTypeOK, HintsPart, setup' = setup
    PROVE  InlayHintsTypeOK'
<1> USE DEF InlayHintsTypeOK
<1>1. Jobs' = Jobs
  BY DEF Jobs
<1>2. /\ MaxEdits \in Nat /\ edits \in 0 .. MaxEdits /\ sent \in 0 .. MaxEdits
      /\ Len(text) - 1 \in -1 .. Len(setup.text) + 2 * MaxEdits
  BY Bounds
<1>3. jobs \in Seq(Jobs) /\ Len(jobs) <= MaxJobs /\ MaxJobs \in Nat
  BY JobAssumption
<1>4. CASE UNCHANGED hintVars
  BY <1>1, <1>4 DEF hintVars
<1>5. ASSUME NEW tr, InlayHintsUpdate(tr), ~UNCHANGED hintVars PROVE InlayHintsTypeOK'
  <2>1. refresh' = HintsTimeout(tr) /\ jobs' = jobs
    BY <1>5 DEF InlayHintsUpdate
  <2>2. PICK cleared \in BOOLEAN : hints' = [hints EXCEPT !.cleared = cleared]
    BY <1>5 DEF InlayHintsUpdate
  <2>3. refresh' \in BOOLEAN
    BY <2>1 DEF HintsTimeout
  <2>4. hints' \in [of : 0 .. MaxEdits + 1, cleared : BOOLEAN,
                    edits : -1 .. MaxEdits, sent : 0 .. MaxEdits, failed : BOOLEAN]
    BY <2>2
  <2> QED BY <1>1, <1>3, <2>1, <2>3, <2>4
<1>6. CASE HintsRefresh
  <2>1. PICK new : new = NewJob(Len(text) - 1)
    OBVIOUS
  <2>2. new \in Jobs
    <3>1. PICK end, most : end = Len(text) - 1 /\ most = Len(setup.text) + 2 * MaxEdits
      OBVIOUS
    <3>2. end \in -1 .. most
      BY <1>2, <3>1
    <3>5. 0 \in 0 .. MaxEdits
      BY <1>2
    <3>3. new = [end |-> end, runs |-> FALSE, edits |-> 0, sent |-> 0]
      BY <2>1, <3>1 DEF NewJob
    <3>4. new \in [end : -1 .. most, runs : BOOLEAN, edits : 0 .. MaxEdits, sent : 0 .. MaxEdits]
      BY <3>2, <3>3, <3>5
    <3> QED BY <3>1, <3>4 DEF Jobs
  <2>3. jobs' = Append(jobs, new) /\ Len(jobs) < MaxJobs
    BY <1>6, <2>1 DEF HintsRefresh
  <2>4. jobs' \in Seq(Jobs) /\ Len(jobs') = Len(jobs) + 1
    BY <1>3, <2>2, <2>3
  <2>5. Len(jobs) \in Nat /\ refresh' = FALSE /\ hints' = hints
    BY <1>3, <1>6 DEF HintsRefresh
  <2>6. Len(jobs') <= MaxJobs
    BY <1>3, <2>3, <2>4, <2>5
  <2>7. refresh' \in BOOLEAN
    BY <2>5
  <2> QED BY <1>1, <2>4, <2>5, <2>6, <2>7
<1>7. ASSUME NEW i \in DOMAIN jobs, jobs' = Without(i)
      PROVE  jobs' \in Seq(Jobs) /\ Len(jobs') <= MaxJobs
  BY <1>3, <1>7, WithoutOne
<1>8. ASSUME NEW i, HintsRequest(i) PROVE InlayHintsTypeOK'
  <2>1. i \in DOMAIN jobs /\ UNCHANGED <<refresh, hints>>
    BY <1>8 DEF HintsRequest
  <2>2. CASE jobs' = Without(i)
    BY <1>1, <1>7, <2>1, <2>2
  <2>3. CASE jobs' = [jobs EXCEPT ![i].runs = TRUE, ![i].edits = edits, ![i].sent = sent]
    <3>1. PICK job, asked, had : job = jobs[i] /\ asked = edits /\ had = sent
      OBVIOUS
    <3>2. job \in Jobs /\ asked \in 0 .. MaxEdits /\ had \in 0 .. MaxEdits
      BY <1>2, <1>3, <2>1, <3>1
    <3>3. PICK new : new = [job EXCEPT !.runs = TRUE, !.edits = asked, !.sent = had]
      OBVIOUS
    <3>4. new \in Jobs
      BY <3>2, <3>3 DEF Jobs
    <3>5. jobs' = [jobs EXCEPT ![i] = new]
      BY <2>3, <3>1, <3>3
    <3>6. jobs' \in Seq(Jobs) /\ Len(jobs') = Len(jobs)
      BY <1>3, <2>1, <3>4, <3>5
    <3> QED BY <1>1, <1>3, <2>1, <3>6
  <2> QED BY <1>8, <2>2, <2>3 DEF HintsRequest
<1>9. ASSUME NEW i, HintsAnswer(i) PROVE InlayHintsTypeOK'
  <2>1. i \in DOMAIN jobs /\ jobs' = Without(i) /\ refresh' = refresh
    BY <1>9 DEF HintsAnswer
  <2>2. PICK job : job = jobs[i]
    OBVIOUS
  <2>3. job \in Jobs
    BY <1>3, <2>1, <2>2
  <2>4. job.edits \in 0 .. MaxEdits /\ job.sent \in 0 .. MaxEdits
    BY <2>3 DEF Jobs
  <2>5. \/ hints' = [hints EXCEPT !.edits = job.edits, !.sent = job.sent, !.failed = FALSE,
                                  !.of = job.sent + 1, !.cleared = FALSE]
        \/ hints' = [hints EXCEPT !.edits = job.edits, !.sent = job.sent, !.failed = TRUE]
    BY <1>9, <2>2 DEF HintsAnswer, Over
  <2>6. hints' \in [of : 0 .. MaxEdits + 1, cleared : BOOLEAN,
                    edits : -1 .. MaxEdits, sent : 0 .. MaxEdits, failed : BOOLEAN]
    <3>1. job.edits \in -1 .. MaxEdits /\ job.sent + 1 \in 0 .. MaxEdits + 1
      <4>1. MaxEdits \in Nat
        BY <1>2
      <4> QED BY <2>4, <4>1, SMTT(30)
    <3>2. PICK done, had, of : done = job.edits /\ had = job.sent /\ of = job.sent + 1
      OBVIOUS
    <3>3. done \in -1 .. MaxEdits /\ had \in 0 .. MaxEdits /\ of \in 0 .. MaxEdits + 1
      BY <2>4, <3>1, <3>2
    <3>4. CASE hints' = [hints EXCEPT !.edits = done, !.sent = had, !.failed = FALSE, !.of = of, !.cleared = FALSE]
      BY <3>3, <3>4
    <3>5. CASE hints' = [hints EXCEPT !.edits = done, !.sent = had, !.failed = TRUE]
      BY <3>3, <3>5
    <3> QED BY <2>5, <3>2, <3>4, <3>5
  <2> QED BY <1>1, <1>7, <2>1, <2>6
<1> QED BY <1>4, <1>5, <1>6, <1>8, <1>9 DEF HintsPart, InlayHintsStep

\* What CodeMirror does not want any more is not mapped, and stays what it was.
QueryTyped ==
    /\ query.stage \in {"none", "locking", "asked"} /\ query.lost \in BOOLEAN
    /\ query.pos \in Nat /\ query.from \in Nat /\ query.to \in Nat

LEMMA QueryKeeps ==
    ASSUME CompletionsInv, CompletionsInv', QueryTyped, ViewPart PROVE QueryTyped'
<1>1. CASE query' = NoQuery
  <2>1. query'.stage = "none" /\ query'.pos = 0 /\ query'.from = 0 /\ query'.to = 0
    BY <1>1 DEF NoQuery
  <2>2. query'.lost \in BOOLEAN
    BY <1>1 DEF NoQuery
  <2>3. 0 \in Nat
    OBVIOUS
  <2> QED BY <2>1, <2>2, <2>3 DEF QueryTyped
<1>2. ASSUME NEW tr, CompletionUpdate(tr) PROVE QueryTyped'
  <2>1. CASE query' = [query EXCEPT !.lost = TRUE]
    <3>1. /\ query'.stage = query.stage /\ query'.pos = query.pos
          /\ query'.from = query.from /\ query'.to = query.to /\ query'.lost = TRUE
      BY <2>1 DEF IsQuery, CompletionsInv
    <3> QED BY <3>1 DEF QueryTyped
  <2>2. CASE query' = query
    BY <2>2 DEF QueryTyped
  <2>3. CASE ~query.lost /\ query' = [query EXCEPT !.from = Mapped(tr, @), !.to = Mapped(tr, @)]
    <3>1. query'.stage = query.stage /\ query'.pos = query.pos /\ query'.lost = query.lost
      BY <2>3 DEF IsQuery, CompletionsInv
    <3>2. InText(query', text')
      BY <2>3, <3>1 DEF CompletionsInv
    <3>3. query'.from \in Nat /\ query'.to \in Nat
      BY <3>2 DEF InText, Offsets
    <3> QED BY <3>1, <3>3 DEF QueryTyped
  <2> QED BY <1>2, <2>1, <2>2, <2>3 DEF CompletionUpdate
<1>3. CASE query' = query
  BY <1>3 DEF QueryTyped
<1>6. CASE query' = NoQuery
  BY <1>1, <1>6
<1>4. CASE CompletionLocks /\ query' # NoQuery
  <2>1. /\ query'.stage = "asked" /\ query'.pos = query.pos
        /\ query'.from = query.from /\ query'.to = query.to /\ query'.lost = query.lost
    BY <1>4 DEF CompletionLocks, IsQuery, CompletionsInv
  <2> QED BY <2>1 DEF QueryTyped
<1>5. CASE Complete
  <2>1. PICK stage \in {"asked", "locking"} :
          /\ query' = [stage |-> stage, doc |-> text, pos |-> Cursor, from |-> Cursor - 1,
                       to |-> Cursor, lost |-> FALSE]
          /\ Cursor \in Offsets(text) /\ Cursor > 0
    BY <1>5 DEF Complete, NoQuery, MayComplete
  <2>2. Cursor \in Nat /\ Cursor - 1 \in Nat
    BY <2>1 DEF Offsets
  <2>3. /\ query'.stage = stage /\ query'.pos = Cursor
        /\ query'.from = Cursor - 1 /\ query'.to = Cursor /\ query'.lost = FALSE
    BY <2>1
  <2> QED BY <2>2, <2>3 DEF QueryTyped
<1> QED BY <1>2, <1>3, <1>4, <1>5, <1>6 DEF ViewPart, Dispatched, Dispatch, completionVars,
           CompletionStep, CompletionAnswer, CompletionFails

\* A call of handleFindReferences that becomes f.
LEMMA FindTyped ==
    ASSUME FindsInv, ReferencesTypeOK, NEW n \in Finds, NEW f, find' = [find EXCEPT ![n] = f],
           f.stage \in {"none", "locking", "asked", "over"}, f.outcome \in Outcomes,
           f.stage = "over" <=> f.outcome # "none", Len(panel') <= 1
    PROVE  ReferencesTypeOK'
<1>1. find'[n] = f /\ \A m \in Finds : m # n => find'[m] = find[m]
  BY DEF FindsInv
<1> QED BY <1>1 DEF ReferencesTypeOK

LEMMA FindOver ==
    ASSUME FindsInv, ReferencesTypeOK, NEW n \in Finds, NEW outcome \in Outcomes, outcome # "none",
           Ends(n, outcome), Len(panel') <= 1
    PROVE  ReferencesTypeOK'
<1>1. PICK f : f = [NoFind EXCEPT !.stage = "over", !.outcome = outcome]
  OBVIOUS
<1>2. f.stage = "over" /\ f.outcome = outcome /\ find' = [find EXCEPT ![n] = f]
  BY <1>1 DEF NoFind, Ends
<1> QED BY <1>2, FindTyped

LEMMA FindWaits ==
    ASSUME FindsInv, ReferencesTypeOK, NEW n \in Finds, NEW goes, UNCHANGED panel,
           \/ Asked(n, goes)
           \/ /\ find[n].stage = "none"
              /\ find' = [find EXCEPT ![n].stage = "locking", ![n].goToIfOneOption = goes]
    PROVE  ReferencesTypeOK'
<1>1. Len(panel') <= 1
  BY DEF ReferencesTypeOK
<1>2. CASE Asked(n, goes)
  <2>1. PICK f : f = [NoFind EXCEPT !.stage = "asked", !.goToIfOneOption = goes, !.doc = text]
    OBVIOUS
  <2>2. f.stage = "asked" /\ f.outcome = "none" /\ find' = [find EXCEPT ![n] = f]
    BY <1>2, <2>1 DEF NoFind, Asked
  <2> QED BY <1>1, <2>2, FindTyped DEF Outcomes
<1>3. CASE /\ find[n].stage = "none"
           /\ find' = [find EXCEPT ![n].stage = "locking", ![n].goToIfOneOption = goes]
  <2>1. PICK f : f = [find[n] EXCEPT !.stage = "locking", !.goToIfOneOption = goes]
    OBVIOUS
  <2>2. find' = [find EXCEPT ![n] = f]
    BY <1>3, <2>1 DEF FindsInv
  <2>3. IsFind(find[n]) /\ find[n].outcome = "none"
    BY <1>3 DEF FindsInv, ReferencesTypeOK
  <2>4. f.stage = "locking" /\ f.outcome = "none"
    BY <2>1, <2>3 DEF IsFind
  <2> QED BY <1>1, <2>2, <2>4, FindTyped DEF Outcomes
<1> QED BY <1>2, <1>3

LEMMA LenOne == \A a : Len(<<a>>) <= 1
OBVIOUS

LEMMA FindReferencesTyped ==
    ASSUME TextInv, FindsInv, ReferencesTypeOK, NEW pos, NEW goes, FindReferences(pos, goes)
    PROVE  ReferencesTypeOK'
<1>1. PICK n \in 1 .. setup.finds :
        /\ find[n].stage = "none"
        /\ \/ Ends(n, "silent")
           \/ Ends(n, "thrown")
           \/ Asked(n, goes)
           \/ find' = [find EXCEPT ![n].stage = "locking", ![n].goToIfOneOption = goes]
        /\ UNCHANGED panel
  BY DEF FindReferences, ReportError, OnError
<1>2. n \in Finds
  <2>1. setup.finds \in Nat /\ setup.finds <= MaxFinds /\ MaxFinds \in Nat
    BY FindAssumption, SetupAssumption DEF TextInv
  <2> QED BY <2>1 DEF Finds
<1>3. CASE Ends(n, "silent") \/ Ends(n, "thrown")
  BY <1>1, <1>2, <1>3, FindOver DEF ReferencesTypeOK, Outcomes
<1> QED BY <1>1, <1>2, <1>3, FindWaits

LEMMA ReferencesTyped ==
    ASSUME TextInv, FindsInv, ReferencesTypeOK, ReferencesStep \/ \E n \in Finds : FindLocks(n)
    PROVE  ReferencesTypeOK'
<1>1. CASE Shortcut \/ ModClick
  <2>1. PICK pos, goes : FindReferences(pos, goes)
    BY <1>1 DEF Shortcut, ModClick
  <2> QED BY <2>1, FindReferencesTyped
<1>2. CASE ClosePanel \/ GoToReference
  <2>1. panel' = <<>> /\ find' = find /\ Len(<<>>) = 0
    BY <1>2 DEF ClosePanel, GoToReference
  <2>2. Len(panel') <= 1
    BY <2>1
  <2> QED BY <2>1, <2>2 DEF ReferencesTypeOK
<1>3. ASSUME NEW n \in Finds, FindAnswer(n) PROVE ReferencesTypeOK'
  <2>1. CASE UNCHANGED panel /\ \E outcome \in {"silent", "external", "hopped"} : Ends(n, outcome)
    BY <2>1, FindOver DEF ReferencesTypeOK, Outcomes
  <2>2. CASE Ends(n, "panel") /\ \E span : panel' = <<span>>
    <3>1. Len(panel') <= 1
      BY <2>2, LenOne
    <3> QED BY <2>2, <3>1, FindOver DEF Outcomes
  <2> QED BY <1>3, <2>1, <2>2 DEF FindAnswer, ReportError, OnError
<1>4. ASSUME NEW n \in Finds, FindFails(n) PROVE ReferencesTypeOK'
  BY <1>4, FindOver DEF FindFails, ReportError, OnError, ReferencesTypeOK, Outcomes
<1>5. ASSUME NEW n \in Finds, FindLocks(n) PROVE ReferencesTypeOK'
  BY <1>5, FindWaits, FindOver DEF FindLocks, ReportError, OnError, ReferencesTypeOK, Outcomes
<1> QED BY <1>1, <1>2, <1>3, <1>4, <1>5 DEF ReferencesStep

LEMMA PrepareTyped ==
    ASSUME TextInv, RenamesTypeOK, NEW pos, Prepare(pos) PROVE RenamesTypeOK'
<1>1. prepare' = [asking |-> TRUE, pos |-> pos, doc |-> known] /\ UNCHANGED <<dialog, rename, astray>>
  BY DEF Prepare
<1>2. pos \in Nat /\ known \in Seq(Nat)
  BY DEF Prepare, IsWord, Throws, Offsets, TextInv
<1>3. prepare' \in [asking : BOOLEAN, pos : Nat, doc : Seq(Nat)]
  BY <1>1, <1>2
<1> QED BY <1>1, <1>3 DEF RenamesTypeOK

LEMMA RenamesTyped ==
    ASSUME TextInv, WordsInv', RenamesTypeOK, RenamesStep PROVE RenamesTypeOK'
<1>1. Len(rename'.spans) <= 2
  BY DEF WordsInv
<1>2. NoPrepare \in [asking : BOOLEAN, pos : Nat, doc : Seq(Nat)]
  <2>1. <<>> \in Seq(Nat)
    OBVIOUS
  <2> QED BY <2>1 DEF NoPrepare
<1>3. CASE RenameKey
  BY <1>3, PrepareTyped DEF RenameKey
<1>4. CASE PrepareAnswer
  <2>1. prepare' = NoPrepare /\ rename' = rename
    BY <1>4 DEF PrepareAnswer
  <2>2. \/ UNCHANGED <<dialog, astray>>
        \/ \E start : dialog' = <<start>> /\ astray' = (prepare.doc # text)
    BY <1>4 DEF PrepareAnswer, OpenDialog
  <2>3. Len(dialog') <= 1 /\ astray' \in BOOLEAN
    <3>1. CASE UNCHANGED <<dialog, astray>>
      BY <3>1 DEF RenamesTypeOK
    <3>2. ASSUME NEW start, dialog' = <<start>>, astray' = (prepare.doc # text)
          PROVE  Len(dialog') <= 1 /\ astray' \in BOOLEAN
      BY <3>2, LenOne
    <3> QED BY <2>2, <3>1, <3>2
  <2> QED BY <1>2, <2>1, <2>3 DEF RenamesTypeOK
<1>5. CASE Dismiss
  <2>1. dialog' = <<>> /\ UNCHANGED <<prepare, rename, astray>> /\ Len(<<>>) = 0
    BY <1>5 DEF Dismiss
  <2>2. Len(dialog') <= 1
    BY <2>1
  <2> QED BY <2>1, <2>2 DEF RenamesTypeOK
<1>6. CASE CompleteRename \/ RenameAnswer
  <2>1. UNCHANGED <<prepare, dialog, astray>>
    BY <1>6 DEF CompleteRename, RenameAnswer
  <2>2. CASE CompleteRename
    <3>1. PICK spans : rename' = [asking |-> TRUE, spans |-> spans]
      BY <2>2 DEF CompleteRename
    <3>2. rename'.asking \in BOOLEAN
      BY <3>1
    <3> QED BY <1>1, <2>1, <3>2 DEF RenamesTypeOK
  <2>3. CASE RenameAnswer
    <3>1. rename' = NoRename
      BY <2>3 DEF RenameAnswer
    <3>2. rename'.asking \in BOOLEAN
      BY <3>1 DEF NoRename
    <3> QED BY <1>1, <2>1, <3>2 DEF RenamesTypeOK
  <2> QED BY <1>6, <2>2, <2>3
<1> QED BY <1>3, <1>4, <1>5, <1>6 DEF RenamesStep

\* What the commands keep.
CommandsInv == AcceptanceTypeOK /\ ReferencesTypeOK /\ RenamesTypeOK /\ ContextMenuTypeOK

LEMMA CommandsKeep ==
    ASSUME PlacesInv, PlacesInv', CommandsInv, Next PROVE CommandsInv'
<1> USE DEF PlacesInv, CommandsInv
<1>1. AcceptanceTypeOK'
  <2>1. Len(extras') <= 2
    BY DEF ExtrasInv
  <2>2. goal'.known \in BOOLEAN
    <3>1. CASE goal' = goal
      BY <3>1 DEF AcceptanceTypeOK
    <3>2. ASSUME NEW more, Accept(more) PROVE goal'.known \in BOOLEAN
      <4>1. goal' = NoGoal \/ \E doc : goal' = [known |-> TRUE, doc |-> doc]
        BY <3>2 DEF Accept
      <4>2. CASE goal' = NoGoal
        BY <4>2 DEF NoGoal
      <4>3. ASSUME NEW doc, goal' = [known |-> TRUE, doc |-> doc] PROVE goal'.known \in BOOLEAN
        BY <4>3
      <4> QED BY <4>1, <4>2, <4>3
    <3>3. goal' = goal \/ AcceptAny
      BY DEF Next, Continuation, Event, Type, Delete, Move, Foreign, User, commandVars,
             acceptanceVars, AcceptNext
    <3> QED BY <3>1, <3>2, <3>3 DEF AcceptAny
  <2> QED BY <2>1, <2>2 DEF AcceptanceTypeOK
<1>2. ReferencesTypeOK'
  <2>1. CASE UNCHANGED referenceVars
    BY <2>1 DEF referenceVars, ReferencesTypeOK
  <2>2. CASE MenuReferences
    BY <2>2, FindReferencesTyped DEF MenuReferences
  <2>3. \/ UNCHANGED referenceVars
        \/ ReferencesStep \/ \E n \in Finds : FindLocks(n)
        \/ MenuReferences
    BY DEF Next, Continuation, Event, Type, Delete, Move, Foreign, User, commandVars,
           ContextMenuStep, RightClick, DismissMenu, MenuRename
  <2> QED BY <2>1, <2>2, <2>3, ReferencesTyped
<1>3. RenamesTypeOK'
  <2>1. CASE UNCHANGED renameVars
    BY <2>1 DEF renameVars, RenamesTypeOK
  <2>2. CASE MenuRename
    BY <2>2, PrepareTyped DEF MenuRename
  <2>3. UNCHANGED renameVars \/ RenamesStep \/ MenuRename
    BY DEF Next, Continuation, Event, Type, Delete, Move, Foreign, User, commandVars,
           ContextMenuStep, RightClick, DismissMenu, MenuReferences
  <2> QED BY <2>1, <2>2, <2>3, RenamesTyped
<1>4. ContextMenuTypeOK'
  <2>1. menu' = menu \/ menu' = <<>> \/ \E pos : menu' = <<pos>>
    BY DEF Next, Continuation, Event, Type, Delete, Move, Foreign, User, commandVars,
           ContextMenuStep, RightClick, DismissMenu, MenuReferences, MenuRename
  <2>2. Len(<<>>) <= 1
    OBVIOUS
  <2> QED BY <2>1, <2>2, LenOne DEF ContextMenuTypeOK
<1> QED BY <1>1, <1>2, <1>3, <1>4

\* What TypeOK needs to be kept.
TypesInv ==
    /\ LockInv /\ RequestsInv /\ InlayHintsTypeOK /\ QueryTyped /\ CommandsInv

LEMMA TypesStart == ASSUME PlacesInv, SignatureInv, TooltipInv, Init PROVE TypesInv
<1>1. LockInv
  <2>1. sent = 0 /\ edits = 0 /\ known = text
    BY DEF Init, ViewInit
  <2>2. paused \in BOOLEAN /\ lastSent = <<>> /\ held = Nothing /\ stranded = {}
    BY DEF Init, ViewInit
  <2> QED BY <2>1, <2>2 DEF LockInv
<1>2. RequestsInv
  <2>1. /\ started = 0 /\ request = [n \in Requests |-> NoRequest] /\ active = 0
        /\ delayed = FALSE /\ tooltip = NoTooltip(0)
    BY DEF Init, SignatureInit
  <2>2. tooltip.by = 0 /\ tooltip.data = Null /\ Null \in Results
    BY <2>1 DEF NoTooltip, Results
  <2>3. RequestTyped(NoRequest)
    <3>1. PICK r : r = NoRequest
      OBVIOUS
    <3>2. /\ r.stage = "none" /\ r.head = 0 /\ r.pos = 0 /\ r.anchor = 0 /\ r.attempts = 0
      BY <3>1 DEF NoRequest, Break
    <3>3. r.drop \in BOOLEAN
      BY <3>1 DEF NoRequest
    <3>4. 0 \in Nat /\ 0 <= MaxAttempts
      BY AttemptAssumption
    <3>5. r.stage \in Stages /\ ~Waits(r)
      BY <3>2 DEF Stages, Waits
    <3> QED BY <3>1, <3>2, <3>3, <3>4, <3>5 DEF RequestTyped
  <2>4. \A n \in Requests : RequestTyped(request[n])
    BY <2>1, <2>3
  <2>5. started <= MaxRequests /\ active \in 0 .. started /\ tooltip.by \in 0 .. started
    BY <2>1, <2>2, RequestAssumption
  <2>6. delayed \in BOOLEAN
    BY <2>1
  <2> QED BY <2>1, <2>2, <2>4, <2>5, <2>6 DEF RequestsInv
<1>3. InlayHintsTypeOK
  <2>1. /\ refresh = Enabled("inlayHints") /\ jobs = <<>>
        /\ hints = [of |-> 0, cleared |-> FALSE, edits |-> -1, sent |-> 0, failed |-> FALSE]
    BY DEF Init, InlayHintsInit
  <2>2. refresh \in BOOLEAN
    BY <2>1 DEF Enabled
  <2>3. <<>> \in Seq(Jobs) /\ Len(<<>>) <= MaxJobs
    BY JobAssumption
  <2>4. 0 \in 0 .. MaxEdits + 1 /\ -1 \in -1 .. MaxEdits /\ 0 \in 0 .. MaxEdits
    BY EditAssumption
  <2>5. hints \in [of : 0 .. MaxEdits + 1, cleared : BOOLEAN,
                   edits : -1 .. MaxEdits, sent : 0 .. MaxEdits, failed : BOOLEAN]
    BY <2>1, <2>4
  <2> QED BY <2>1, <2>2, <2>3, <2>5 DEF InlayHintsTypeOK
<1>4. QueryTyped
  <2>1. query = NoQuery /\ 0 \in Nat
    BY DEF Init, CompletionsInit
  <2>2. query.stage = "none" /\ query.pos = 0 /\ query.from = 0 /\ query.to = 0
    BY <2>1 DEF NoQuery
  <2>3. query.lost \in BOOLEAN
    BY <2>1 DEF NoQuery
  <2> QED BY <2>1, <2>2, <2>3 DEF QueryTyped
<1>5. CommandsInv
  <2>1. Len(<<>>) <= 1 /\ Len(<<>>) <= 2 /\ <<>> \in Seq(Nat)
    OBVIOUS
  <2>2. AcceptanceTypeOK
    <3>1. extras = <<>> /\ goal = NoGoal
      BY DEF Init, AcceptanceInit
    <3>2. goal.known \in BOOLEAN
      BY <3>1 DEF NoGoal
    <3> QED BY <2>1, <3>1, <3>2 DEF AcceptanceTypeOK
  <2>3. ReferencesTypeOK
    <3>1. find = [n \in Finds |-> NoFind] /\ panel = <<>>
      BY DEF Init, ReferencesInit
    <3>2. NoFind.stage = "none" /\ NoFind.outcome = "none"
      BY DEF NoFind
    <3> QED BY <2>1, <3>1, <3>2 DEF ReferencesTypeOK, Outcomes
  <2>4. RenamesTypeOK
    <3>1. prepare = NoPrepare /\ dialog = <<>> /\ rename = NoRename /\ astray = FALSE
      BY DEF Init, RenamesInit
    <3>2. prepare \in [asking : BOOLEAN, pos : Nat, doc : Seq(Nat)]
      BY <2>1, <3>1 DEF NoPrepare
    <3>3. rename.asking \in BOOLEAN /\ rename.spans = <<>>
      BY <3>1 DEF NoRename
    <3>4. astray \in BOOLEAN
      BY <3>1
    <3> QED BY <2>1, <3>1, <3>2, <3>3, <3>4 DEF RenamesTypeOK
  <2>5. ContextMenuTypeOK
    BY <2>1 DEF Init, ContextMenuInit, ContextMenuTypeOK
  <2> QED BY <2>2, <2>3, <2>4, <2>5 DEF CommandsInv
<1> QED BY <1>1, <1>2, <1>3, <1>4, <1>5 DEF TypesInv

LEMMA TypesKeep ==
    ASSUME PlacesInv, PlacesInv', SignatureInv, TooltipInv, TypesInv, [Next]_vars PROVE TypesInv'
<1>1. CASE Next
  <2>1. ViewPart /\ Locks
    BY <1>1, PlacesStep
  <2>2. HintsPart
    BY StepParts DEF Parts
  <2>3. LockInv'
    BY <2>1, LockStays DEF TypesInv, PlacesInv
  <2>4. RequestsInv'
    BY <2>1, RequestsKeep DEF TypesInv, PlacesInv
  <2>5. InlayHintsTypeOK'
    BY <2>1, <2>2, SetupStays, HintsTyped DEF TypesInv, PlacesInv
  <2>6. QueryTyped'
    BY <2>1, QueryKeeps DEF TypesInv, PlacesInv
  <2>7. CommandsInv'
    BY <1>1, CommandsKeep DEF TypesInv
  <2> QED BY <2>3, <2>4, <2>5, <2>6, <2>7 DEF TypesInv
<1>2. CASE UNCHANGED vars
  <2> USE <1>2 DEF vars, viewVars, pluginVars, TypesInv
  <2>1. LockInv'
    BY DEF LockInv
  <2>2. RequestsInv'
    BY DEF RequestsInv, signatureVars
  <2>3. InlayHintsTypeOK'
    BY DEF InlayHintsTypeOK, Jobs, hintVars
  <2>4. QueryTyped'
    BY DEF QueryTyped, completionVars
  <2>5. AcceptanceTypeOK'
    BY DEF CommandsInv, AcceptanceTypeOK, acceptanceVars
  <2>6. ReferencesTypeOK'
    BY DEF CommandsInv, ReferencesTypeOK, referenceVars
  <2>7. RenamesTypeOK'
    BY DEF CommandsInv, RenamesTypeOK, renameVars
  <2>8. ContextMenuTypeOK'
    BY DEF CommandsInv, ContextMenuTypeOK
  <2> QED BY <2>1, <2>2, <2>3, <2>4, <2>5, <2>6, <2>7, <2>8 DEF CommandsInv
<1> QED BY <1>1, <1>2

LEMMA TypesAre ==
    ASSUME PlacesInv, SignatureInv, TooltipInv, TypesInv PROVE TypeOK
<1>1. ViewTypeOK
  <2>1. /\ setup \in Setups /\ text \in Seq(Nat) /\ known \in Seq(Nat)
        /\ edits \in 0 .. MaxEdits
    BY Bounds DEF PlacesInv, TypesInv, TextInv
  <2>2. selection \in (Offsets(text) \cup {Undefined}) \X (Offsets(text) \cup {Undefined})
    BY DEF PlacesInv, SelectionInv, Placed
  <2>3. sent \in 0 .. edits /\ (sent = edits => known = text)
    BY <2>1 DEF TypesInv, LockInv
  <2>4. /\ paused \in BOOLEAN /\ lastSent \in Seq(Nat)
        /\ held \in Waiters \cup {Update, Nothing} /\ stranded \subseteq Waiters
    BY DEF TypesInv, LockInv
  <2> QED BY <2>1, <2>2, <2>3, <2>4 DEF ViewTypeOK
<1>2. SignatureTypeOK
  BY RequestsHaveTypes DEF PlacesInv, TypesInv
<1>3. CompletionsTypeOK
  <2>1. query \in [stage : {"none", "locking", "asked"}, doc : Seq(Nat), pos : Nat,
                   from : Nat, to : Nat, lost : BOOLEAN]
    BY DEF PlacesInv, CompletionsInv, IsQuery, TypesInv, QueryTyped
  <2>2. popup.from <= popup.to /\ popup.to \in Offsets(text)
    BY DEF PlacesInv, CompletionsInv, InText
  <2> QED BY <2>1, <2>2 DEF CompletionsTypeOK
<1> QED BY <1>1, <1>2, <1>3 DEF TypeOK, TypesInv, CommandsInv

\* What every extension holds is what it should: a request for a signature is not sent more than
\* maxAttempts times, nobody holds more of a job, a panel, a menu or a dialog than there can be,
\* and a language server that has been sent all changes has the document.
THEOREM EditorTypes == Spec => []TypeOK
<1>1. SignatureInv /\ [Next]_vars => SignatureInv'
  BY StepParts, SignatureKeeps DEF Parts
<1>2. Init => SignatureInv /\ PlacesInv /\ TooltipInv /\ TypesInv
  BY InitSignature, PlacesStart, TooltipStart, TypesStart
<1>3. SignatureInv /\ PlacesInv /\ TooltipInv /\ TypesInv /\ [Next]_vars
        => (SignatureInv /\ PlacesInv /\ TooltipInv /\ TypesInv)'
  BY <1>1, PlacesKeep, TooltipStep, TypesKeep
<1> QED BY <1>2, <1>3, TypesAre, PTL DEF Spec

-----------------------------------------------------------------------------
(* Completions in order *)

\* R is the pairs of S of which the first comes before the second; others are equal.
IsOrder(R, S) ==
    /\ \A a, b \in S : <<a, b>> \in R => <<b, a>> \notin R
    /\ \A a, b, c \in S : <<a, b>> \notin R /\ <<b, c>> \notin R => <<a, c>> \notin R

\* What place j of s has is to be before what place i has.
Precedes(s, R, j, i) == <<s[j], s[i]>> \in R \/ (j < i /\ <<s[i], s[j]>> \notin R)

\* The sequence t is s, put in order by p: what is equal stays in the order it had.
Puts(s, t, R, p) ==
    /\ p \in Bijection(DOMAIN s, DOMAIN s)
    /\ t = [k \in DOMAIN s |-> s[p[k]]]
    /\ \A k, l \in DOMAIN s :
         k < l => /\ <<t[l], t[k]>> \notin R
                  /\ <<t[k], t[l]>> \notin R => p[k] < p[l]

LEMMA PrecedesOrders ==
    ASSUME NEW S, NEW s \in Seq(S), NEW R, IsOrder(R, S)
    PROVE  /\ \A i \in DOMAIN s : ~Precedes(s, R, i, i)
           /\ \A i, j \in DOMAIN s : i # j => Precedes(s, R, i, j) \/ Precedes(s, R, j, i)
           /\ \A i, j \in DOMAIN s : ~(Precedes(s, R, i, j) /\ Precedes(s, R, j, i))
           /\ \A i, j, k \in DOMAIN s :
                Precedes(s, R, k, j) /\ Precedes(s, R, j, i) => Precedes(s, R, k, i)
<1>1. /\ DOMAIN s \subseteq Nat
      /\ \A i \in DOMAIN s : s[i] \in S
  OBVIOUS
<1>2. /\ \A i, j \in DOMAIN s : <<s[i], s[j]>> \in R => <<s[j], s[i]>> \notin R
      /\ \A i, j, k \in DOMAIN s :
           <<s[i], s[j]>> \notin R /\ <<s[j], s[k]>> \notin R => <<s[i], s[k]>> \notin R
  BY <1>1 DEF IsOrder
<1>3. \A i \in DOMAIN s : ~Precedes(s, R, i, i)
  BY <1>1, <1>2 DEF Precedes
<1>4. \A i, j \in DOMAIN s : i # j => Precedes(s, R, i, j) \/ Precedes(s, R, j, i)
  BY <1>1, <1>2 DEF Precedes
<1>5. \A i, j \in DOMAIN s : ~(Precedes(s, R, i, j) /\ Precedes(s, R, j, i))
  BY <1>1, <1>2 DEF Precedes
<1>6. ASSUME NEW i \in DOMAIN s, NEW j \in DOMAIN s, NEW k \in DOMAIN s,
             Precedes(s, R, k, j), Precedes(s, R, j, i)
      PROVE  Precedes(s, R, k, i)
  <2>1. i \in Nat /\ j \in Nat /\ k \in Nat
    BY <1>1
  <2>2. \/ <<s[k], s[j]>> \in R
        \/ k < j /\ <<s[j], s[k]>> \notin R
    BY <1>6 DEF Precedes
  <2>3. \/ <<s[j], s[i]>> \in R
        \/ j < i /\ <<s[i], s[j]>> \notin R
    BY <1>6 DEF Precedes
  <2>4. CASE <<s[k], s[j]>> \in R \/ <<s[j], s[i]>> \in R
    <3>1. <<s[k], s[i]>> \in R
      BY <1>2, <2>2, <2>3, <2>4
    <3> QED BY <3>1 DEF Precedes
  <2>5. CASE k < j /\ <<s[j], s[k]>> \notin R /\ j < i /\ <<s[i], s[j]>> \notin R
    <3>1. k < i /\ <<s[i], s[k]>> \notin R
      BY <1>2, <2>1, <2>5
    <3> QED BY <3>1 DEF Precedes
  <2> QED BY <2>2, <2>3, <2>4, <2>5
<1> QED BY <1>3, <1>4, <1>5, <1>6

\* StableSort puts a sequence in order: every place is taken once.
LEMMA StableSortPuts ==
    ASSUME NEW S, NEW s \in Seq(S), NEW R, IsOrder(R, S), NEW place, NEW t,
           \A i \in DOMAIN s : place[i] = 1 + Cardinality({j \in DOMAIN s : Precedes(s, R, j, i)}),
           t = [k \in DOMAIN s |-> s[CHOOSE i \in DOMAIN s : place[i] = k]]
    PROVE  \E p : Puts(s, t, R, p)
<1> DEFINE Before(i) == {j \in DOMAIN s : Precedes(s, R, j, i)}
<1>1. PICK n \in Nat : DOMAIN s = 1 .. n
  BY Len(s) \in Nat, DOMAIN s = 1 .. Len(s)
<1>2. IsFiniteSet(1 .. n) /\ Cardinality(1 .. n) = n
  BY FS_Interval
<1>3. ASSUME NEW i \in 1 .. n
      PROVE  IsFiniteSet(Before(i)) /\ Cardinality(Before(i)) \in Nat /\ Cardinality(Before(i)) < n
  <2>1. Before(i) \in SUBSET (1 .. n \ {i})
    BY <1>1, PrecedesOrders
  <2>2. IsFiniteSet(1 .. n \ {i}) /\ Cardinality(1 .. n \ {i}) = n - 1
    BY <1>2, FS_RemoveElement
  <2>3. IsFiniteSet(Before(i)) /\ Cardinality(Before(i)) <= n - 1
    BY <2>1, <2>2, FS_Subset
  <2>4. Cardinality(Before(i)) \in Nat
    BY <2>3, FS_CardinalityType
  <2> QED BY <2>3, <2>4
<1>4. ASSUME NEW i \in 1 .. n, NEW j \in 1 .. n, Precedes(s, R, j, i)
      PROVE  Cardinality(Before(j)) < Cardinality(Before(i))
  <2>1. Before(j) \in SUBSET Before(i)
    BY <1>1, <1>4, PrecedesOrders
  <2>2. j \in Before(i) /\ j \notin Before(j)
    BY <1>1, <1>4, PrecedesOrders
  <2>3. Cardinality(Before(j)) <= Cardinality(Before(i))
        /\ (Cardinality(Before(i)) = Cardinality(Before(j)) => Before(i) = Before(j))
    BY <1>3, <2>1, FS_Subset
  <2>4. PICK a, b : a = Cardinality(Before(j)) /\ b = Cardinality(Before(i))
    OBVIOUS
  <2>5. a \in Nat /\ b \in Nat /\ a <= b
    BY <1>3, <2>3, <2>4
  <2>6. a # b
    BY <2>2, <2>3, <2>4
  <2>7. a < b
    BY <2>5, <2>6
  <2> QED BY <2>4, <2>7
<1>5. PICK at : at = [i \in 1 .. n |-> place[i]]
  OBVIOUS
<1>15. PICK size : size = [i \in 1 .. n |-> Cardinality(Before(i))]
  OBVIOUS
<1>6. \A i \in 1 .. n : at[i] = place[i] /\ at[i] = 1 + size[i] /\ size[i] = Cardinality(Before(i))
  BY <1>1, <1>5, <1>15
<1>16. \A i \in 1 .. n : size[i] \in Nat /\ size[i] < n
  BY <1>3, <1>6
<1> HIDE DEF Before
<1>7. ASSUME NEW i \in 1 .. n, NEW j \in 1 .. n, Precedes(s, R, j, i) PROVE at[j] < at[i]
  <2>1. size[j] < size[i]
    BY <1>4, <1>6, <1>7
  <2> QED BY <1>6, <1>16, <2>1
<1>8. at \in Injection(1 .. n, 1 .. n)
  <2>1. at \in [1 .. n -> 1 .. n]
    <3>1. \A i \in 1 .. n : at[i] \in 1 .. n
      BY <1>6, <1>16
    <3> QED BY <1>5, <3>1
  <2>2. ASSUME NEW i \in 1 .. n, NEW j \in 1 .. n, at[i] = at[j] PROVE i = j
    <3>1. at[i] \in Nat
      BY <2>1
    <3>2. ~(at[i] < at[j]) /\ ~(at[j] < at[i])
      BY <2>2, <3>1
    <3> QED BY <1>1, <1>7, <3>2, PrecedesOrders
  <2> QED BY <2>1, <2>2 DEF Injection, IsInjective
<1>9. at \in Surjection(1 .. n, 1 .. n)
  BY <1>2, <1>8, FS_Injection
<1>10. PICK p : p = [k \in 1 .. n |-> CHOOSE i \in 1 .. n : at[i] = k]
  OBVIOUS
<1>11. \A k \in 1 .. n : p[k] \in 1 .. n /\ at[p[k]] = k
  BY <1>9, <1>10 DEF Surjection
<1>12. t = [k \in 1 .. n |-> s[p[k]]]
  <2>1. \A k \in 1 .. n : (CHOOSE i \in 1 .. n : place[i] = k) = (CHOOSE i \in 1 .. n : at[i] = k)
    BY <1>6
  <2>2. \A k \in 1 .. n : p[k] = (CHOOSE i \in 1 .. n : place[i] = k)
    BY <1>10, <2>1
  <2>3. t = [k \in 1 .. n |-> s[CHOOSE i \in 1 .. n : place[i] = k]]
    BY <1>1
  <2>4. t = [k \in 1 .. n |-> t[k]]
    BY <2>3
  <2>5. ASSUME NEW k \in 1 .. n PROVE t[k] = s[p[k]]
    <3>1. t[k] = s[CHOOSE i \in 1 .. n : place[i] = k]
      BY <2>3
    <3>2. p[k] = (CHOOSE i \in 1 .. n : place[i] = k)
      BY <2>2
    <3> QED BY <3>1, <3>2
  <2> QED BY <2>4, <2>5
<1>13. p \in Bijection(1 .. n, 1 .. n)
  <2>1. p \in [1 .. n -> 1 .. n]
    BY <1>10, <1>11
  <2>2. \A i, j \in 1 .. n : p[i] = p[j] => i = j
    BY <1>11
  <2>3. p \in Injection(1 .. n, 1 .. n)
    BY <2>1, <2>2 DEF Injection, IsInjective
  <2>4. p \in Surjection(1 .. n, 1 .. n)
    BY <1>2, <2>3, FS_Injection
  <2> QED BY <2>3, <2>4 DEF Bijection
<1>14. ASSUME NEW k \in 1 .. n, NEW l \in 1 .. n, k < l
       PROVE  /\ <<t[l], t[k]>> \notin R
              /\ <<t[k], t[l]>> \notin R => p[k] < p[l]
  <2>1. p[k] \in 1 .. n /\ p[l] \in 1 .. n /\ at[p[k]] = k /\ at[p[l]] = l
    BY <1>11
  <2>2. p[k] # p[l] /\ ~Precedes(s, R, p[l], p[k])
    <3>1. ~(l < k) /\ k # l
      BY <1>14
    <3> QED BY <1>7, <2>1, <3>1
  <2>3. Precedes(s, R, p[k], p[l])
    BY <1>1, <2>1, <2>2, PrecedesOrders
  <2>5. \A i \in 1 .. n : s[i] \in S
    BY <1>1
  <2>4. t[k] = s[p[k]] /\ t[l] = s[p[l]] /\ s[p[k]] \in S /\ s[p[l]] \in S
    BY <1>12, <2>1, <2>5
  <2> QED BY <2>3, <2>4 DEF Precedes, IsOrder
<1> QED BY <1>1, <1>12, <1>13, <1>14 DEF Puts

LEMMA PutsType ==
    ASSUME NEW S, NEW s \in Seq(S), NEW t, NEW R, NEW p, Puts(s, t, R, p)
    PROVE  t \in Seq(S) /\ Len(t) = Len(s) /\ DOMAIN t = DOMAIN s
<1>1. p \in [DOMAIN s -> DOMAIN s]
  BY DEF Puts, Bijection, Injection
<1>2. t \in [DOMAIN s -> S] /\ DOMAIN s = 1 .. Len(s) /\ Len(s) \in Nat
  BY <1>1 DEF Puts
<1> QED BY <1>2

Count(s, x) == Cardinality({i \in DOMAIN s : s[i] = x})

LEMMA CountType ==
    ASSUME NEW S, NEW s \in Seq(S), NEW x
    PROVE  IsFiniteSet({i \in DOMAIN s : s[i] = x}) /\ Count(s, x) \in Nat
<1>1. DOMAIN s = 1 .. Len(s) /\ Len(s) \in Nat
  OBVIOUS
<1>2. IsFiniteSet(DOMAIN s)
  BY <1>1, FS_Interval
<1>3. IsFiniteSet({i \in DOMAIN s : s[i] = x})
  BY <1>2, FS_Subset
<1> QED BY <1>3, FS_CardinalityType DEF Count

LEMMA PutsKeepsCount ==
    ASSUME NEW S, NEW s \in Seq(S), NEW t, NEW R, NEW p, Puts(s, t, R, p), NEW x
    PROVE  Count(t, x) = Count(s, x)
<1>1. /\ p \in [DOMAIN s -> DOMAIN s]
      /\ \A i, j \in DOMAIN s : p[i] = p[j] => i = j
      /\ \A i \in DOMAIN s : \E j \in DOMAIN s : p[j] = i
      /\ DOMAIN t = DOMAIN s /\ \A k \in DOMAIN s : t[k] = s[p[k]]
  BY DEF Puts, Bijection, Injection, Surjection, IsInjective
<1>2. PICK A, B : A = {i \in DOMAIN t : t[i] = x} /\ B = {i \in DOMAIN s : s[i] = x}
  OBVIOUS
<1>3. PICK q : q = [i \in A |-> p[i]]
  OBVIOUS
<1>4. q \in [A -> B]
  BY <1>1, <1>2, <1>3
<1>5. \A i, j \in A : q[i] = q[j] => i = j
  BY <1>1, <1>2, <1>3
<1>6. \A i \in B : \E j \in A : q[j] = i
  BY <1>1, <1>2, <1>3
<1>7. q \in Bijection(A, B)
  BY <1>4, <1>5, <1>6 DEF Bijection, Injection, Surjection, IsInjective
<1>8. IsFiniteSet(A)
  <2>1. t \in Seq(S)
    BY PutsType
  <2> QED BY <1>2, <2>1, CountType
<1>9. Cardinality(B) = Cardinality(A)
  BY <1>7, <1>8, FS_Bijection DEF ExistsBijection
<1> QED BY <1>2, <1>9 DEF Count

\* What the three sorts go by.
Preselecting == {ab \in Items \X Items : Preselected(ab[1], ab[2])}
Alphabetic == {ab \in Items \X Items : ByText(ab[1], ab[2])}
Prefixing(starts) == {ab \in Items \X Items : Prefixed(ab[1], ab[2], starts)}

LEMMA ItemFields ==
    \A item \in Items : item.text \in Nat /\ item.preselect \in BOOLEAN /\ item.kept \in BOOLEAN
<1>1. Texts \subseteq Nat
  BY ItemAssumption DEF Texts
<1> QED BY <1>1 DEF Items

LEMMA AreOrders ==
    ASSUME NEW starts
    PROVE  IsOrder(Preselecting, Items) /\ IsOrder(Alphabetic, Items) /\ IsOrder(Prefixing(starts), Items)
<1>1. IsOrder(Preselecting, Items)
  BY DEF IsOrder, Preselecting, Preselected
<1>2. IsOrder(Alphabetic, Items)
  BY ItemFields DEF IsOrder, Alphabetic, ByText
<1>3. IsOrder(Prefixing(starts), Items)
  BY ItemFields DEF IsOrder, Prefixing, Prefixed, ByText
<1> QED BY <1>1, <1>2, <1>3

LEMMA PreselectPuts ==
    ASSUME NEW s \in Seq(Items) PROVE \E p : Puts(s, StableSort(s, Preselected), Preselecting, p)
<1>1. PICK place : place = [i \in DOMAIN s |-> 1 + Cardinality({j \in DOMAIN s :
                                         \/ Preselected(s[j], s[i])
                                         \/ j < i /\ ~Preselected(s[i], s[j])})]
  OBVIOUS
<1>2. StableSort(s, Preselected) = [k \in DOMAIN s |-> s[CHOOSE i \in DOMAIN s : place[i] = k]]
  BY <1>1 DEF StableSort
<1>3. ASSUME NEW i \in DOMAIN s
      PROVE  place[i] = 1 + Cardinality({j \in DOMAIN s : Precedes(s, Preselecting, j, i)})
  <2>1. PICK A, B : /\ A = {j \in DOMAIN s : Precedes(s, Preselecting, j, i)}
                    /\ B = {j \in DOMAIN s : \/ Preselected(s[j], s[i])
                                             \/ j < i /\ ~Preselected(s[i], s[j])}
    OBVIOUS
  <2>2. ASSUME NEW j \in DOMAIN s
        PROVE  Precedes(s, Preselecting, j, i)
                 <=> Preselected(s[j], s[i]) \/ (j < i /\ ~Preselected(s[i], s[j]))
    <3>1. s[i] \in Items /\ s[j] \in Items
      OBVIOUS
    <3>2. /\ <<s[j], s[i]>> \in Preselecting <=> Preselected(s[j], s[i])
          /\ <<s[i], s[j]>> \in Preselecting <=> Preselected(s[i], s[j])
      BY <3>1 DEF Preselecting
    <3> QED BY <3>2 DEF Precedes
  <2>3. A = B
    BY <2>1, <2>2
  <2>4. place[i] = 1 + Cardinality(B)
    BY <1>1, <2>1
  <2> QED BY <2>1, <2>3, <2>4
<1>4. IsOrder(Preselecting, Items)
  BY AreOrders
<1>5. PICK t : t = StableSort(s, Preselected)
  OBVIOUS
<1>6. t = [k \in DOMAIN s |-> s[CHOOSE i \in DOMAIN s : place[i] = k]]
  BY <1>2, <1>5
<1>7. \E p : Puts(s, t, Preselecting, p)
  BY <1>3, <1>4, <1>6, StableSortPuts
<1> QED BY <1>5, <1>7

LEMMA TextPuts ==
    ASSUME NEW s \in Seq(Items) PROVE \E p : Puts(s, StableSort(s, ByText), Alphabetic, p)
<1>1. PICK place : place = [i \in DOMAIN s |-> 1 + Cardinality({j \in DOMAIN s :
                                         \/ ByText(s[j], s[i])
                                         \/ j < i /\ ~ByText(s[i], s[j])})]
  OBVIOUS
<1>2. StableSort(s, ByText) = [k \in DOMAIN s |-> s[CHOOSE i \in DOMAIN s : place[i] = k]]
  BY <1>1 DEF StableSort
<1>3. ASSUME NEW i \in DOMAIN s
      PROVE  place[i] = 1 + Cardinality({j \in DOMAIN s : Precedes(s, Alphabetic, j, i)})
  <2>1. PICK A, B : /\ A = {j \in DOMAIN s : Precedes(s, Alphabetic, j, i)}
                    /\ B = {j \in DOMAIN s : \/ ByText(s[j], s[i])
                                             \/ j < i /\ ~ByText(s[i], s[j])}
    OBVIOUS
  <2>2. ASSUME NEW j \in DOMAIN s
        PROVE  Precedes(s, Alphabetic, j, i)
                 <=> ByText(s[j], s[i]) \/ (j < i /\ ~ByText(s[i], s[j]))
    <3>1. s[i] \in Items /\ s[j] \in Items
      OBVIOUS
    <3>2. /\ <<s[j], s[i]>> \in Alphabetic <=> ByText(s[j], s[i])
          /\ <<s[i], s[j]>> \in Alphabetic <=> ByText(s[i], s[j])
      BY <3>1 DEF Alphabetic
    <3> QED BY <3>2 DEF Precedes
  <2>3. A = B
    BY <2>1, <2>2
  <2>4. place[i] = 1 + Cardinality(B)
    BY <1>1, <2>1
  <2> QED BY <2>1, <2>3, <2>4
<1>4. IsOrder(Alphabetic, Items)
  BY AreOrders
<1>5. PICK t : t = StableSort(s, ByText)
  OBVIOUS
<1>6. t = [k \in DOMAIN s |-> s[CHOOSE i \in DOMAIN s : place[i] = k]]
  BY <1>2, <1>5
<1>7. \E p : Puts(s, t, Alphabetic, p)
  BY <1>3, <1>4, <1>6, StableSortPuts
<1> QED BY <1>5, <1>7

LEMMA PrefixPuts ==
    ASSUME NEW s \in Seq(Items), NEW starts
    PROVE  \E p : Puts(s, StableSort(s, LAMBDA a, b : Prefixed(a, b, starts)), Prefixing(starts), p)
<1>1. PICK place : place = [i \in DOMAIN s |-> 1 + Cardinality({j \in DOMAIN s :
                                         \/ Prefixed(s[j], s[i], starts)
                                         \/ j < i /\ ~Prefixed(s[i], s[j], starts)})]
  OBVIOUS
<1>2. StableSort(s, LAMBDA a, b : Prefixed(a, b, starts))
        = [k \in DOMAIN s |-> s[CHOOSE i \in DOMAIN s : place[i] = k]]
  BY <1>1 DEF StableSort
<1>3. ASSUME NEW i \in DOMAIN s
      PROVE  place[i] = 1 + Cardinality({j \in DOMAIN s : Precedes(s, Prefixing(starts), j, i)})
  <2>1. PICK A, B : /\ A = {j \in DOMAIN s : Precedes(s, Prefixing(starts), j, i)}
                    /\ B = {j \in DOMAIN s : \/ Prefixed(s[j], s[i], starts)
                                             \/ j < i /\ ~Prefixed(s[i], s[j], starts)}
    OBVIOUS
  <2>2. ASSUME NEW j \in DOMAIN s
        PROVE  Precedes(s, Prefixing(starts), j, i)
                 <=> Prefixed(s[j], s[i], starts) \/ (j < i /\ ~Prefixed(s[i], s[j], starts))
    <3>1. s[i] \in Items /\ s[j] \in Items
      OBVIOUS
    <3>2. /\ <<s[j], s[i]>> \in Prefixing(starts) <=> Prefixed(s[j], s[i], starts)
          /\ <<s[i], s[j]>> \in Prefixing(starts) <=> Prefixed(s[i], s[j], starts)
      BY <3>1 DEF Prefixing
    <3> QED BY <3>2 DEF Precedes
  <2>3. A = B
    BY <2>1, <2>2
  <2>4. place[i] = 1 + Cardinality(B)
    BY <1>1, <2>1
  <2> QED BY <2>1, <2>3, <2>4
<1>4. IsOrder(Prefixing(starts), Items)
  BY AreOrders
<1>5. PICK t : t = StableSort(s, LAMBDA a, b : Prefixed(a, b, starts))
  OBVIOUS
<1>6. t = [k \in DOMAIN s |-> s[CHOOSE i \in DOMAIN s : place[i] = k]]
  BY <1>2, <1>5
<1>7. \E p : Puts(s, t, Prefixing(starts), p)
  BY <1>3, <1>4, <1>6, StableSortPuts
<1> QED BY <1>5, <1>7

\* Who is not after whom, of those that have been sorted so far.
Below(a, b) == a.preselect \/ ~b.preselect
BelowText(a, b) == a.text < b.text \/ (a.text = b.text /\ Below(a, b))
BelowPrefix(a, b, starts) ==
    \/ a.text \in starts /\ b.text \notin starts
    \/ (a.text \in starts <=> b.text \in starts) /\ BelowText(a, b)

LEMMA SortedPuts ==
    ASSUME NEW items \in Seq(Items), NEW token, NEW starts, NEW sorted, sorted = Sorted(items, token, starts)
    PROVE  /\ sorted \in Seq(Items)
           /\ \A x : Count(sorted, x) = Count(items, x)
           /\ \A k, l \in DOMAIN sorted :
                k < l => IF token = "none" THEN BelowText(sorted[k], sorted[l])
                         ELSE BelowPrefix(sorted[k], sorted[l], starts)
<1>1. PICK t, p : t = StableSort(items, Preselected) /\ Puts(items, t, Preselecting, p)
  BY PreselectPuts
<1>2. t \in Seq(Items) /\ \A x : Count(t, x) = Count(items, x)
  BY <1>1, PutsType, PutsKeepsCount
<1>3. PICK u, q : u = StableSort(t, ByText) /\ Puts(t, u, Alphabetic, q)
  BY <1>2, TextPuts
<1>4. u \in Seq(Items) /\ \A x : Count(u, x) = Count(t, x)
  BY <1>2, <1>3, PutsType, PutsKeepsCount
<1>5. ASSUME NEW k \in DOMAIN t, NEW l \in DOMAIN t, k < l PROVE Below(t[k], t[l])
  <2>1. DOMAIN t = DOMAIN items /\ t[k] \in Items /\ t[l] \in Items
    BY <1>1, <1>2, PutsType
  <2>2. <<t[l], t[k]>> \notin Preselecting
    BY <1>1, <1>5, <2>1 DEF Puts
  <2> QED BY <2>1, <2>2 DEF Preselecting, Preselected, Below
<1>6. ASSUME NEW k \in DOMAIN u, NEW l \in DOMAIN u, k < l PROVE BelowText(u[k], u[l])
  <2>1. k \in DOMAIN t /\ l \in DOMAIN t
    BY <1>2, <1>3, PutsType
  <2>2. /\ <<u[l], u[k]>> \notin Alphabetic
        /\ <<u[k], u[l]>> \notin Alphabetic => q[k] < q[l]
        /\ q[k] \in DOMAIN t /\ q[l] \in DOMAIN t /\ u[k] = t[q[k]] /\ u[l] = t[q[l]]
    BY <1>3, <1>6, <2>1 DEF Puts, Bijection, Injection
  <2>3. PICK a, b : a = u[k] /\ b = u[l]
    OBVIOUS
  <2>4. a \in Items /\ b \in Items /\ a.text \in Nat /\ b.text \in Nat
    BY <1>4, <2>3, ItemFields
  <2>5. ~(b.text < a.text)
    BY <2>2, <2>3, <2>4 DEF Alphabetic, ByText
  <2>6. ASSUME a.text = b.text PROVE Below(a, b)
    <3>1. <<a, b>> \notin Alphabetic
      BY <2>4, <2>6 DEF Alphabetic, ByText
    <3> QED BY <1>5, <2>2, <2>3, <3>1
  <2>7. a.text < b.text \/ a.text = b.text
    BY <2>4, <2>5
  <2> QED BY <2>3, <2>6, <2>7 DEF BelowText
<1>7. CASE token = "none"
  <2>1. sorted = u
    BY <1>1, <1>3, <1>7 DEF Sorted
  <2> QED BY <1>2, <1>4, <1>6, <1>7, <2>1
<1>8. CASE token # "none"
  <2>1. PICK v, r : v = sorted /\ Puts(u, v, Prefixing(starts), r)
    BY <1>1, <1>3, <1>4, <1>8, PrefixPuts DEF Sorted
  <2>2. v \in Seq(Items) /\ DOMAIN v = DOMAIN u /\ \A x : Count(v, x) = Count(u, x)
    BY <1>4, <2>1, PutsType, PutsKeepsCount
  <2>3. ASSUME NEW k \in DOMAIN v, NEW l \in DOMAIN v, k < l PROVE BelowPrefix(v[k], v[l], starts)
    <3>1. k \in DOMAIN u /\ l \in DOMAIN u
      BY <2>2
    <3>2. /\ <<v[l], v[k]>> \notin Prefixing(starts)
          /\ <<v[k], v[l]>> \notin Prefixing(starts) => r[k] < r[l]
          /\ r[k] \in DOMAIN u /\ r[l] \in DOMAIN u /\ v[k] = u[r[k]] /\ v[l] = u[r[l]]
      BY <2>1, <2>3, <3>1 DEF Puts, Bijection, Injection
    <3>3. PICK a, b : a = v[k] /\ b = v[l]
      OBVIOUS
    <3>4. a \in Items /\ b \in Items /\ a.text \in Nat /\ b.text \in Nat
      BY <2>2, <3>3, ItemFields
    <3>5. ~Prefixed(b, a, starts)
      BY <3>2, <3>3, <3>4 DEF Prefixing
    <3>6. CASE Prefixed(a, b, starts)
      BY <3>3, <3>6 DEF Prefixed, ByText, BelowPrefix, BelowText
    <3>7. CASE ~Prefixed(a, b, starts)
      <4>1. <<a, b>> \notin Prefixing(starts)
        BY <3>7 DEF Prefixing
      <4>2. BelowText(a, b)
        BY <1>6, <3>2, <3>3, <4>1
      <4>3. a.text \in starts <=> b.text \in starts
        BY <3>5, <3>7 DEF Prefixed
      <4> QED BY <3>3, <4>2, <4>3 DEF BelowPrefix
    <3> QED BY <3>6, <3>7
  <2> QED BY <1>2, <1>4, <1>8, <2>1, <2>2, <2>3
<1> QED BY <1>7, <1>8

LEMMA CountNext ==
    ASSUME NEW S, NEW n \in Nat, NEW s \in Seq(S), Len(s) = n, NEW t \in Seq(S), Len(t) = n + 1,
           \A i \in 1 .. n : t[i] = s[i], NEW x
    PROVE  Count(t, x) = Count(s, x) + (IF t[n + 1] = x THEN 1 ELSE 0)
<1>1. PICK A, B : A = {i \in DOMAIN s : s[i] = x} /\ B = {i \in DOMAIN t : t[i] = x}
  OBVIOUS
<1>2. DOMAIN s = 1 .. n /\ DOMAIN t = 1 .. n + 1 /\ n + 1 \in 1 .. n + 1 /\ n + 1 \notin 1 .. n
  OBVIOUS
<1>3. IsFiniteSet(A) /\ Cardinality(A) \in Nat
  BY <1>1, CountType DEF Count
<1>4. CASE t[n + 1] = x
  <2>1. B = A \cup {n + 1} /\ n + 1 \notin A
    BY <1>1, <1>2, <1>4
  <2>2. Cardinality(B) = Cardinality(A) + 1
    BY <1>3, <2>1, FS_AddElement
  <2> QED BY <1>1, <1>4, <2>2 DEF Count
<1>5. CASE t[n + 1] # x
  <2>1. B = A
    BY <1>1, <1>2, <1>5
  <2>2. Count(s, x) \in Nat /\ Count(t, x) = Count(s, x)
    BY <1>1, <1>3, <2>1 DEF Count
  <2> QED BY <1>5, <2>2
<1> QED BY <1>4, <1>5

LEMMA CountNothing == \A x : Count(<<>>, x) = 0
<1>1. \A x : {i \in DOMAIN <<>> : <<>>[i] = x} = {}
  OBVIOUS
<1> QED BY <1>1, FS_EmptySet DEF Count

Keeps(item) == IF item.kept THEN <<item>> ELSE <<>>

\* What is kept of the items: how often they were there, or not at all.
LEMMA KeptCount ==
    ASSUME NEW x
    PROVE  \A n \in Nat : \A s \in [1 .. n -> Items] :
             /\ KeptOf(s) \in Seq(Items)
             /\ Count(KeptOf(s), x) = IF x.kept THEN Count(s, x) ELSE 0
<1> DEFINE P(n) == \A s \in [1 .. n -> Items] :
                     /\ KeptOf(s) \in Seq(Items)
                     /\ Count(KeptOf(s), x) = IF x.kept THEN Count(s, x) ELSE 0
           T == {n \in Nat : P(n)}
<1>1. 0 \in T
  <2> SUFFICES ASSUME NEW s \in [1 .. 0 -> Items]
               PROVE  /\ KeptOf(s) \in Seq(Items)
                      /\ Count(KeptOf(s), x) = IF x.kept THEN Count(s, x) ELSE 0
    OBVIOUS
  <2>1. s = <<>> /\ <<>> \in Seq(Items)
    OBVIOUS
  <2>2. PICK kept : kept = [i \in DOMAIN s |-> Keeps(s[i])]
    OBVIOUS
  <2>3. kept = <<>> /\ Len(kept) = 0
    BY <2>1, <2>2
  <2>4. KeptOf(s) = <<>>
    BY <2>2, <2>3, JoinedNothing DEF KeptOf, Keeps
  <2> QED BY <2>1, <2>4, CountNothing
<1>2. ASSUME NEW n \in Nat, n \in T PROVE n + 1 \in T
  <2> SUFFICES ASSUME NEW s \in [1 .. n + 1 -> Items]
               PROVE  /\ KeptOf(s) \in Seq(Items)
                      /\ Count(KeptOf(s), x) = IF x.kept THEN Count(s, x) ELSE 0
    OBVIOUS
  <2>1. PICK front : front = [i \in 1 .. n |-> s[i]]
    OBVIOUS
  <2>2. front \in [1 .. n -> Items]
    BY <2>1
  <2>3. KeptOf(front) \in Seq(Items) /\ Count(KeptOf(front), x) = IF x.kept THEN Count(front, x) ELSE 0
    BY <1>2, <2>2
  <2>4. PICK some, all : some = [i \in 1 .. n |-> Keeps(front[i])] /\ all = [i \in 1 .. n + 1 |-> Keeps(s[i])]
    OBVIOUS
  <2>5. KeptOf(front) = Joined(some) /\ KeptOf(s) = Joined(all)
    BY <2>2, <2>4 DEF KeptOf, Keeps
  <2>6. Len(some) = n /\ Len(all) = n + 1 /\ \A i \in 1 .. n : some[i] = all[i]
    BY <2>1, <2>4
  <2>7. KeptOf(s) = KeptOf(front) \o all[n + 1]
    <3>1. Joined(all) = Joined(some) \o all[n + 1]
      BY ONLY <1>2, <2>6, JoinedLast
    <3> QED BY ONLY <2>5, <3>1
  <2>8. /\ front \in Seq(Items) /\ Len(front) = n /\ s \in Seq(Items) /\ Len(s) = n + 1
        /\ \A i \in 1 .. n : s[i] = front[i]
    BY <2>1, <2>2
  <2>9. Count(s, x) = Count(front, x) + (IF s[n + 1] = x THEN 1 ELSE 0)
    BY <2>8, CountNext
  <2>10. Count(front, x) \in Nat /\ s[n + 1] \in Items
    <3>1. Count(front, x) \in Nat
      BY <2>8, CountType
    <3>2. n + 1 \in 1 .. n + 1
      OBVIOUS
    <3> QED BY <3>1, <3>2
  <2>11. PICK item, kept : item = s[n + 1] /\ kept = KeptOf(front)
    OBVIOUS
  <2>12. CASE item.kept
    <3>1. KeptOf(s) = kept \o <<item>>
      BY <2>4, <2>7, <2>11, <2>12 DEF Keeps
    <3>2. /\ kept \in Seq(Items) /\ item \in Items /\ Len(kept) \in Nat
      BY <2>3, <2>10, <2>11
    <3>3. PICK both, m : both = kept \o <<item>> /\ m = Len(kept)
      OBVIOUS
    <3>4. /\ both \in Seq(Items) /\ Len(both) = m + 1 /\ both[m + 1] = item
          /\ \A i \in 1 .. m : both[i] = kept[i]
      BY <3>2, <3>3
    <3>5. Count(both, x) = Count(kept, x) + (IF item = x THEN 1 ELSE 0)
      <4>1. m \in Nat /\ kept \in Seq(Items) /\ Len(kept) = m
        BY <3>2, <3>3
      <4>2. Count(both, x) = Count(kept, x) + (IF both[m + 1] = x THEN 1 ELSE 0)
        BY <3>4, <4>1, CountNext
      <4> QED BY <3>4, <4>2
    <3>6. CASE item = x
      BY <2>3, <2>9, <2>10, <2>11, <2>12, <3>1, <3>3, <3>4, <3>5, <3>6
    <3>7. CASE item # x
      BY <2>3, <2>9, <2>10, <2>11, <3>1, <3>3, <3>4, <3>5, <3>7
    <3> QED BY <3>6, <3>7
  <2>13. CASE ~item.kept
    <3>1. KeptOf(s) = kept \o <<>>
      <4>1. n + 1 \in 1 .. n + 1
        OBVIOUS
      <4>2. all[n + 1] = Keeps(item)
        BY <2>4, <2>11, <4>1
      <4>3. Keeps(item) = <<>>
        BY <2>13 DEF Keeps
      <4> QED BY <2>7, <2>11, <4>2, <4>3
    <3>2. KeptOf(s) = kept
      BY <2>3, <2>11, <3>1
    <3>3. x.kept => item # x
      BY <2>13
    <3> QED BY <2>3, <2>9, <2>10, <2>11, <3>2, <3>3
  <2> QED BY <2>12, <2>13
<1>3. Nat \subseteq T
  <2> HIDE DEF T
  <2> QED BY <1>1, <1>2, NatSetInduction
<1> QED BY <1>3

\* The list that is made of an answer is in order, and has what it should have.
ListOf(options, answer) ==
    options = sortCompletionItems(answer.items, answer.token, answer.starts)

LEMMA ListInOrder ==
    ASSUME popup.answer.items \in Seq(Items), ListOf(popup.options, popup.answer) PROVE BetterItemsFirst
<1>1. PICK answer, items, options, few :
        /\ answer = popup.answer /\ items = answer.items /\ options = popup.options
        /\ few = Filtered(items, answer.token)
  OBVIOUS
<1>2. items \in Seq(Items) /\ options = Sorted(few, answer.token, answer.starts)
  BY <1>1 DEF ListOf, sortCompletionItems
<1>3. items \in [1 .. Len(items) -> Items] /\ Len(items) \in Nat
  BY <1>2
<1>4. /\ few \in Seq(Items)
      /\ \A x : Count(few, x) = IF answer.token = "word" /\ ~x.kept THEN 0 ELSE Count(items, x)
  <2>1. CASE answer.token = "word"
    <3>1. few = KeptOf(items)
      BY <1>1, <2>1 DEF Filtered
    <3>2. \A x : /\ KeptOf(items) \in Seq(Items)
                 /\ Count(KeptOf(items), x) = IF x.kept THEN Count(items, x) ELSE 0
      BY <1>3, KeptCount
    <3> QED BY <2>1, <3>1, <3>2
  <2>2. CASE answer.token # "word"
    BY <1>1, <1>2, <2>2 DEF Filtered
  <2> QED BY <2>1, <2>2
<1>5. /\ options \in Seq(Items)
      /\ \A x : Count(options, x) = Count(few, x)
      /\ \A k, l \in DOMAIN options :
           k < l => IF answer.token = "none" THEN BelowText(options[k], options[l])
                    ELSE BelowPrefix(options[k], options[l], answer.starts)
  BY <1>2, <1>4, SortedPuts
<1>6. ASSUME NEW i \in DOMAIN options, NEW j \in DOMAIN options, i < j
      PROVE  ~Better(options[j], options[i], answer)
  <2>1. PICK a, b : a = options[i] /\ b = options[j]
    OBVIOUS
  <2>2. /\ a \in Items /\ b \in Items /\ a.text \in Nat /\ b.text \in Nat
        /\ a.preselect \in BOOLEAN /\ b.preselect \in BOOLEAN
    BY <1>5, <2>1, ItemFields
  <2>3. SUFFICES ASSUME Better(b, a, answer) PROVE FALSE
    BY <2>1
  <2>4. /\ a.preselect => b.preselect
        /\ b.text <= a.text
        /\ b.preselect # a.preselect \/ b.text # a.text
    BY <2>3 DEF Better
  <2>5. ~BelowText(a, b)
    BY <2>2, <2>4 DEF BelowText, Below
  <2>6. CASE answer.token = "none"
    BY <1>5, <1>6, <2>1, <2>5, <2>6
  <2>7. CASE answer.token # "none"
    <3>1. BelowPrefix(a, b, answer.starts)
      BY <1>5, <1>6, <2>1, <2>7
    <3>2. a.text \in answer.starts => b.text \in answer.starts
      BY <2>3, <2>7 DEF Better
    <3> QED BY <2>5, <3>1, <3>2 DEF BelowPrefix
  <2> QED BY <2>6, <2>7
<1>7. ASSUME NEW item \in Items
      PROVE  Count(options, item)
               = IF answer.token = "word" /\ ~item.kept THEN 0 ELSE Count(items, item)
  BY <1>4, <1>5
<1>8. BetterItemsFirst <=>
        /\ \A i, j \in DOMAIN options : i < j => ~Better(options[j], options[i], answer)
        /\ \A item \in Items : Count(options, item)
             = IF answer.token = "word" /\ ~item.kept THEN 0 ELSE Count(items, item)
  BY <1>1 DEF BetterItemsFirst, Count
<1> QED BY <1>6, <1>7, <1>8

ListInv == popup.answer.items \in Seq(Items) /\ ListOf(popup.options, popup.answer)

LEMMA ListStart ==
    ASSUME NEW p, p = NoPopup PROVE p.answer.items \in Seq(Items) /\ ListOf(p.options, p.answer)
<1>1. PICK answer : answer = p.answer
  OBVIOUS
<1>2. answer.items = <<>> /\ p.options = <<>> /\ answer.token = "none" /\ answer.starts = {}
  BY <1>1 DEF NoPopup
<1>3. <<>> \in Seq(Items) /\ Len(<<>>) = 0
  OBVIOUS
<1>4. Sorted(<<>>, "none", {}) = <<>>
  BY <1>3 DEF Sorted, StableSort
<1> QED BY <1>1, <1>2, <1>3, <1>4 DEF ListOf, sortCompletionItems, Filtered

LEMMA ListKeeps == ASSUME CompletionsInv, ListInv, ViewPart PROVE ListInv'
<1>1. CASE popup' = NoPopup
  BY <1>1, ListStart DEF ListInv
<1>2. CASE popup'.answer = popup.answer /\ popup'.options = popup.options
  BY <1>2 DEF ListInv, ListOf
<1>3. ASSUME NEW tr, CompletionUpdate(tr) PROVE ListInv'
  BY <1>1, <1>2, <1>3 DEF CompletionUpdate, CompletionsInv, IsPopup
<1>4. ASSUME NEW answer \in Answers, popup' = Popup(answer) PROVE ListInv'
  <2>1. answer.items \in Seq(Items)
    <3>1. CASE setup.sorting
      <4>1. PICK n \in 0 .. MaxItems : answer.items \in [1 .. n -> Items]
        BY <1>4, <3>1 DEF Answers
      <4> QED BY <4>1, ItemAssumption
    <3>2. CASE ~setup.sorting
      <4>1. answer.items = <<>> \/ answer.items = <<Item>>
        BY <1>4, <3>2 DEF Answers
      <4>2. Item \in Items
        BY ItemAssumption DEF Item, Items, Texts
      <4>3. CASE answer.items = <<>>
        BY <4>3
      <4>4. <<Item>> \in Seq(Items)
        BY <4>2
      <4> QED BY <4>1, <4>3, <4>4
    <3> QED BY <3>1, <3>2
  <2>2. /\ popup'.answer = answer
        /\ popup'.options = sortCompletionItems(answer.items, answer.token, answer.starts)
    BY <1>4 DEF Popup
  <2> QED BY <2>1, <2>2 DEF ListInv, ListOf
<1> QED BY <1>1, <1>2, <1>3, <1>4 DEF ViewPart, Dispatched, Dispatch, completionVars, CompletionStep,
           CompletionLocks, Complete, CompletionAnswer, CompletionFails

\* Three stable sorts one after another put no item of a list, however long, after
\* one that it is better than by one criterion and not worse than by another, and
\* they neither lose nor double one (completions.ts:387-451).
THEOREM CompletionsAreInOrder == Spec => []BetterItemsFirst
<1>1. Init => ListInv
  BY ListStart DEF Init, CompletionsInit, ListInv
<1>2. PlacesInv /\ ListInv /\ [Next]_vars => ListInv'
  <2>1. CASE UNCHANGED vars
    BY <2>1 DEF vars, pluginVars, completionVars, ListInv, ListOf
  <2> QED BY <2>1, PlacesStep, ListKeeps DEF PlacesInv
<1>3. ListInv => BetterItemsFirst
  BY ListInOrder DEF ListInv
<1> QED BY <1>1, <1>2, <1>3, PlacesStart, PlacesKeep, PTL DEF Spec

-----------------------------------------------------------------------------
(* Changes apart from each other *)

\* Changes of doc, none of which inserts more than one character.
Within(cs, doc) == IsChanges(cs) /\ IsShort(cs) /\ \A i \in DOMAIN cs : InText(cs[i], doc)

\* One more change.
Extends(cs, c, more) ==
    /\ Len(more) = Len(cs) + 1 /\ more[Len(cs) + 1] = c
    /\ \A i \in 1 .. Len(cs) : more[i] = cs[i]

\* It touches none of the others.
Clear(cs, c) == \A i \in DOMAIN cs : cs[i].to < c.from \/ c.to < cs[i].from

LEMMA Associates == \A s, t, u \in Seq(Nat) : (s \o t) \o u = s \o (t \o u)
BY ConcatAssociative

LEMMA WithinHas ==
    ASSUME NEW doc \in Seq(Nat), NEW cs, Within(cs, doc)
    PROVE  /\ Len(cs) \in Nat /\ DOMAIN cs = 1 .. Len(cs)
           /\ \A i \in DOMAIN cs : /\ cs[i].from \in Nat /\ cs[i].to \in Nat
                                   /\ cs[i].from <= cs[i].to /\ cs[i].to <= Len(doc)
BY DEF Within, IsChanges, InText, Offsets

LEMMA InsertedNone ==
    ASSUME NEW cs, IsChanges(cs), IsShort(cs), NEW froms, NEW to,
           \A i \in DOMAIN cs : ~(cs[i].from \in froms /\ cs[i].to = to)
    PROVE  Inserted(cs, froms, to) = <<>>
<1>1. PICK inserted : inserted = Inserted(cs, froms, to)
  OBVIOUS
<1>2. inserted \in Seq(Nat)
  BY <1>1, InsertedType
<1>3. \A j \in DOMAIN inserted : FALSE
  BY <1>1, InsertedFrom
<1>4. inserted = <<>>
  BY <1>2, <1>3
<1> QED BY <1>1, <1>4

LEMMA InsertedNext ==
    ASSUME NEW cs, NEW more, NEW c, IsChanges(cs), IsChanges(more), Extends(cs, c, more),
           NEW froms, NEW to
    PROVE  Inserted(more, froms, to)
             = Inserted(cs, froms, to) \o (IF c.from \in froms /\ c.to = to THEN c.insert ELSE <<>>)
<1>1. PICK n, few, all : n = Len(cs) /\ few = Inserts(cs, froms, to) /\ all = Inserts(more, froms, to)
  OBVIOUS
<1>2. n \in Nat /\ DOMAIN cs = 1 .. n /\ DOMAIN more = 1 .. n + 1 /\ n + 1 \in 1 .. n + 1
  BY <1>1 DEF IsChanges, Extends
<1>3. /\ Len(few) = n /\ Len(all) = n + 1
      /\ \A i \in 1 .. n : few[i] = all[i]
  BY <1>1, <1>2 DEF Inserts, Extends
<1>4. all[n + 1] = IF c.from \in froms /\ c.to = to THEN c.insert ELSE <<>>
  BY <1>1, <1>2 DEF Inserts, Extends
<1>5. Joined(all) = Joined(few) \o all[n + 1]
  BY <1>2, <1>3, JoinedLast
<1>6. Inserted(cs, froms, to) = Joined(few) /\ Inserted(more, froms, to) = Joined(all)
  BY <1>1 DEF Inserted, Inserts
<1> QED BY <1>4, <1>5, <1>6

LEMMA KeptNext ==
    ASSUME NEW doc, NEW cs, NEW more, NEW c, IsChanges(cs), IsChanges(more), Extends(cs, c, more), NEW k
    PROVE  Kept(doc, more, k) = IF c.from < k /\ k <= c.to THEN <<>> ELSE Kept(doc, cs, k)
<1>1. PICK n : n = Len(cs)
  OBVIOUS
<1>2. n \in Nat /\ DOMAIN cs = 1 .. n /\ DOMAIN more = 1 .. n + 1 /\ n + 1 \in 1 .. n + 1
  BY <1>1 DEF IsChanges, Extends
<1>3. /\ \A i \in DOMAIN cs : more[i] = cs[i] /\ i \in DOMAIN more
      /\ more[n + 1] = c /\ \A i \in DOMAIN more : i \in DOMAIN cs \/ i = n + 1
  BY <1>1, <1>2 DEF Extends
<1> QED BY <1>2, <1>3 DEF Kept

\* Of changes that are alike up to an offset, so is what becomes of the document.
LEMMA AlikeUpTo ==
    ASSUME NEW doc, NEW cs, NEW other, NEW o \in Nat,
           \A k \in 1 .. o : Piece(doc, cs, k) = Piece(doc, other, k)
    PROVE  UpTo(doc, cs, o) = UpTo(doc, other, o)
<1> DEFINE T == {n \in Nat : n <= o => UpTo(doc, cs, n) = UpTo(doc, other, n)}
<1>1. 0 \in T
  BY UpToNothing
<1>2. ASSUME NEW n \in Nat, n \in T PROVE n + 1 \in T
  <2> SUFFICES ASSUME n + 1 <= o PROVE UpTo(doc, cs, n + 1) = UpTo(doc, other, n + 1)
    OBVIOUS
  <2>1. n + 1 \in 1 .. o /\ n <= o
    OBVIOUS
  <2>2. UpTo(doc, cs, n) = UpTo(doc, other, n) /\ Piece(doc, cs, n + 1) = Piece(doc, other, n + 1)
    BY <1>2, <2>1
  <2> QED BY <2>2, UpToNext
<1>3. Nat \subseteq T
  <2> HIDE DEF T
  <2> QED BY <1>1, <1>2, NatSetInduction
<1> QED BY <1>3

\* What becomes of what is before an offset, and what is inserted there; and one character more.
With(doc, cs, o) == UpTo(doc, cs, o) \o Inserted(cs, {o}, o)
Rest(doc, cs, k) == (Kept(doc, cs, k) \o Inserted(cs, 0 .. k - 1, k)) \o Inserted(cs, {k}, k)

LEMMA WithNext ==
    ASSUME NEW doc \in Seq(Nat), NEW cs, IsChanges(cs), NEW o \in Nat, o + 1 <= Len(doc)
    PROVE  /\ With(doc, cs, o + 1) = With(doc, cs, o) \o Rest(doc, cs, o + 1)
           /\ With(doc, cs, o) \in Seq(Nat) /\ Rest(doc, cs, o + 1) \in Seq(Nat)
           /\ With(doc, cs, o + 1) \in Seq(Nat)
<1>1. PICK k : k = o + 1
  OBVIOUS
<1>2. k \in DOMAIN doc /\ k - 1 = o /\ o \in Offsets(doc) /\ k \in Offsets(doc)
  BY <1>1 DEF Offsets
<1>3. PICK u, v, w, x, y : /\ u = UpTo(doc, cs, o) /\ v = Inserted(cs, {o}, o)
                           /\ w = Kept(doc, cs, k) /\ x = Inserted(cs, 0 .. k - 1, k)
                           /\ y = Inserted(cs, {k}, k)
  OBVIOUS
<1>4. u \in Seq(Nat) /\ v \in Seq(Nat) /\ w \in Seq(Nat) /\ x \in Seq(Nat) /\ y \in Seq(Nat)
  BY <1>2, <1>3, UpToType, InsertedType, PieceType
<1>5. UpTo(doc, cs, k) = u \o ((v \o w) \o x)
  <2>1. UpTo(doc, cs, o + 1) = UpTo(doc, cs, o) \o Piece(doc, cs, o + 1)
    BY <1>1, <1>2, UpToNext
  <2>2. Piece(doc, cs, k) = (v \o w) \o x
    BY <1>2, <1>3 DEF Piece
  <2> QED BY <1>1, <1>3, <2>1, <2>2
<1>6. /\ With(doc, cs, o) = u \o v /\ Rest(doc, cs, k) = (w \o x) \o y
      /\ With(doc, cs, k) = (u \o ((v \o w) \o x)) \o y
  BY <1>3, <1>5 DEF With, Rest
<1>7. (u \o ((v \o w) \o x)) \o y = (u \o v) \o ((w \o x) \o y)
  <2>1. u \in Seq(Nat)
    BY <1>4
  <2>2. v \in Seq(Nat)
    BY <1>4
  <2>3. w \in Seq(Nat)
    BY <1>4
  <2>4. x \in Seq(Nat)
    BY <1>4
  <2>5. y \in Seq(Nat)
    BY <1>4
  <2>6. u \o v \in Seq(Nat)
    BY <2>1, <2>2, Concats
  <2>7. w \o x \in Seq(Nat)
    BY <2>3, <2>4, Concats
  <2>8. (v \o w) \o x = v \o (w \o x)
    BY <2>2, <2>3, <2>4, Associates, Zenon
  <2>9. (u \o v) \o (w \o x) = u \o (v \o (w \o x))
    BY <2>1, <2>2, <2>7, Associates, Zenon
  <2>10. ((u \o v) \o (w \o x)) \o y = (u \o v) \o ((w \o x) \o y)
    BY <2>5, <2>6, <2>7, Associates, Zenon
  <2> QED BY <2>8, <2>9, <2>10, Zenon
<1>8. u \o v \in Seq(Nat) /\ (w \o x) \o y \in Seq(Nat) /\ (u \o v) \o ((w \o x) \o y) \in Seq(Nat)
  BY <1>4, ConcatProperties
<1> QED BY <1>1, <1>6, <1>7, <1>8

\* With one more change that is clear of the others, there is its insert for what is between its ends.
IsSpliced(doc, cs, more, c) ==
    \E r \in Seq(Nat) : /\ ApplyAll(doc, cs) = UpTo(doc, cs, c.to) \o r
                        /\ ApplyAll(doc, more) = UpTo(doc, cs, c.from) \o (c.insert \o r)

LEMMA Splices ==
    ASSUME NEW doc \in Seq(Nat), NEW cs, NEW more, NEW c, Within(cs, doc), Within(more, doc),
           Extends(cs, c, more), Clear(cs, c)
    PROVE  IsSpliced(doc, cs, more, c)
<1>1. PICK from, to, insert : from = c.from /\ to = c.to /\ insert = c.insert
  OBVIOUS
<1>2. /\ from \in Nat /\ to \in Nat /\ from <= to /\ to <= Len(doc) /\ Len(doc) \in Nat
      /\ insert \in Seq(Nat)
  <2>1. Len(cs) \in Nat /\ Len(cs) + 1 \in DOMAIN more /\ more[Len(cs) + 1] = c
    BY WithinHas DEF Extends
  <2> QED BY <1>1, <2>1, WithinHas DEF Within, IsChanges
<1>3. IsChanges(cs) /\ IsChanges(more) /\ IsShort(cs)
  BY DEF Within
<1>4. \A i \in DOMAIN cs : /\ cs[i].from \in Nat /\ cs[i].to \in Nat /\ cs[i].from <= cs[i].to
                           /\ cs[i].to < from \/ to < cs[i].from
  BY <1>1, WithinHas DEF Clear
\* What is inserted where c is.
<1>5. ASSUME NEW froms, NEW o \in from .. to PROVE Inserted(cs, froms, o) = <<>>
  <2>1. o \in Nat /\ from <= o /\ o <= to
    BY <1>2
  <2>2. ASSUME NEW i \in DOMAIN cs, cs[i].from \in froms /\ cs[i].to = o PROVE FALSE
    <3>1. PICK a, b : a = cs[i].from /\ b = cs[i].to
      OBVIOUS
    <3>2. a \in Nat /\ b \in Nat /\ a <= b /\ (b < from \/ to < a)
      BY <1>4, <3>1
    <3> QED BY <1>2, <2>1, <2>2, <3>1, <3>2
  <2>3. IsChanges(cs)
    BY <1>3
  <2>4. IsShort(cs)
    BY <1>3
  <2> QED BY <2>2, <2>3, <2>4, InsertedNone
<1>6. ASSUME NEW froms, NEW o, from \notin froms \/ to # o
      PROVE  Inserted(more, froms, o) = Inserted(cs, froms, o)
  <2>1. Inserted(more, froms, o) = Inserted(cs, froms, o) \o <<>>
    <3>1. ~(c.from \in froms /\ c.to = o)
      BY <1>1, <1>6
    <3>2. PICK x : x = IF c.from \in froms /\ c.to = o THEN c.insert ELSE <<>>
      OBVIOUS
    <3>3. Inserted(more, froms, o) = Inserted(cs, froms, o) \o x
      BY <1>3, <3>2, InsertedNext
    <3> QED BY <3>1, <3>2, <3>3
  <2>2. Inserted(cs, froms, o) \in Seq(Nat)
    BY <1>3, InsertedType
  <2> QED BY <2>1, <2>2, ConcatEmptySeq
<1>7. ASSUME NEW froms, from \in froms PROVE Inserted(more, froms, to) = insert
  <2>1. Inserted(more, froms, to) = Inserted(cs, froms, to) \o insert
    <3>1. PICK x : x = IF c.from \in froms /\ c.to = to THEN c.insert ELSE <<>>
      OBVIOUS
    <3>2. x = insert
      BY <1>1, <1>7, <3>1
    <3>3. Inserted(more, froms, to) = Inserted(cs, froms, to) \o x
      BY <1>3, <3>1, InsertedNext
    <3> QED BY <3>2, <3>3
  <2>2. Inserted(cs, froms, to) = <<>>
    BY <1>2, <1>5
  <2> QED BY <1>2, <2>1, <2>2, ConcatEmptySeq
<1>8. \A k : Kept(doc, more, k) = IF from < k /\ k <= to THEN <<>> ELSE Kept(doc, cs, k)
  BY <1>1, <1>3, KeptNext
\* Before c.
<1>9. UpTo(doc, more, from) = UpTo(doc, cs, from)
  <2>1. ASSUME NEW k \in 1 .. from PROVE Piece(doc, more, k) = Piece(doc, cs, k)
    <3>1. k \in Nat /\ k - 1 < from /\ from # k - 1 /\ from \notin 0 .. k - 1 /\ ~(from < k)
      BY <1>2
    <3>2. k - 1 = to => from \notin {k - 1}
      BY <3>1
    <3>3. /\ Inserted(more, {k - 1}, k - 1) = Inserted(cs, {k - 1}, k - 1)
          /\ Inserted(more, 0 .. k - 1, k) = Inserted(cs, 0 .. k - 1, k)
      BY <1>6, <3>1, <3>2
    <3> QED BY <1>8, <3>1, <3>3 DEF Piece
  <2> QED BY <1>2, <2>1, AlikeUpTo
\* At it, while it deletes.
<1> DEFINE T == {n \in Nat : from <= n /\ n < to => With(doc, more, n) = UpTo(doc, cs, from)}
<1>10. UpTo(doc, cs, from) \in Seq(Nat) /\ UpTo(doc, cs, to) \in Seq(Nat)
  <2>1. from \in Offsets(doc) /\ to \in Offsets(doc)
    BY <1>2 DEF Offsets
  <2> QED BY <1>3, <2>1, UpToType
<1>11. from < to => With(doc, more, from) = UpTo(doc, cs, from)
  <2> SUFFICES ASSUME from < to PROVE With(doc, more, from) = UpTo(doc, cs, from)
    OBVIOUS
  <2>1. Inserted(more, {from}, from) = Inserted(cs, {from}, from)
    BY <1>2, <1>6
  <2>2. Inserted(cs, {from}, from) = <<>>
    BY <1>2, <1>5
  <2> QED BY <1>9, <1>10, <2>1, <2>2, ConcatEmptySeq DEF With
<1>12. ASSUME NEW n \in Nat, n \in T PROVE n + 1 \in T
  <2> SUFFICES ASSUME from <= n + 1, n + 1 < to PROVE With(doc, more, n + 1) = UpTo(doc, cs, from)
    OBVIOUS
  <2>1. CASE n + 1 = from
    BY <1>2, <1>11, <2>1
  <2>2. CASE n + 1 # from
    <3>1. from <= n /\ n < to /\ n + 1 <= Len(doc) /\ from < n + 1 /\ n + 1 <= to /\ to # n + 1
      BY <1>2, <2>2
    <3>2. With(doc, more, n) = UpTo(doc, cs, from)
      BY <1>12, <3>1
    <3>3. n + 1 \in from .. to
      BY <1>2, <3>1
    <3>4. /\ Inserted(more, 0 .. (n + 1) - 1, n + 1) = <<>>
          /\ Inserted(more, {n + 1}, n + 1) = <<>>
      BY <1>5, <1>6, <3>1, <3>3
    <3>5. Kept(doc, more, n + 1) = <<>>
      BY <1>8, <3>1
    <3>6. Rest(doc, more, n + 1) = <<>>
      BY <3>4, <3>5 DEF Rest
    <3>7. With(doc, more, n + 1) = With(doc, more, n) \o <<>>
      BY <1>3, <3>1, <3>6, WithNext
    <3> QED BY <1>10, <3>2, <3>7, ConcatEmptySeq
  <2> QED BY <2>1, <2>2
<1>13. Nat \subseteq T
  <2>1. 0 \in T
    BY <1>2, <1>11
  <2> HIDE DEF T
  <2> QED BY <1>12, <2>1, NatSetInduction
\* Behind it.
<1>14. With(doc, cs, to) = UpTo(doc, cs, to) \o <<>>
  <2>1. Inserted(cs, {to}, to) = <<>>
    BY <1>2, <1>5
  <2> QED BY <2>1 DEF With
<1>15. With(doc, more, to) = UpTo(doc, cs, from) \o (insert \o <<>>)
  <2>1. insert \o <<>> = insert
    BY <1>2, ConcatEmptySeq
  <2>2. CASE from = to
    <3>1. Inserted(more, {to}, to) = insert
      BY <1>7, <2>2
    <3> QED BY <1>9, <2>1, <2>2, <3>1 DEF With
  <2>3. CASE from < to
    <3>1. PICK n : n = to - 1
      OBVIOUS
    <3>2. n \in Nat /\ n + 1 = to /\ from <= n /\ n < to /\ n + 1 <= Len(doc) /\ to - 1 = n
      BY <1>2, <2>3, <3>1
    <3>3. With(doc, more, n) = UpTo(doc, cs, from)
      BY <1>13, <3>2
    <3>4. Inserted(more, 0 .. to - 1, to) = insert
      <4>1. from \in 0 .. to - 1
        BY <1>2, <3>2
      <4> QED BY <1>7, <4>1
    <3>5. Inserted(more, {to}, to) = <<>>
      <4>1. from \notin {to} /\ to \in from .. to
        BY <1>2, <2>3
      <4> QED BY <1>5, <1>6, <4>1
    <3>6. Kept(doc, more, to) = <<>>
      BY <1>2, <1>8, <2>3
    <3>7. Rest(doc, more, to) = (<<>> \o insert) \o <<>>
      BY <3>4, <3>5, <3>6 DEF Rest
    <3>8. Rest(doc, more, to) = insert
      BY <1>2, <3>7, ConcatEmptySeq
    <3>9. With(doc, more, n + 1) = With(doc, more, n) \o Rest(doc, more, n + 1)
      BY <1>3, <3>2, WithNext
    <3> QED BY <2>1, <3>2, <3>3, <3>8, <3>9
  <2> QED BY <1>2, <2>2, <2>3
<1> DEFINE After(n) == \E r \in Seq(Nat) : /\ With(doc, cs, n) = UpTo(doc, cs, to) \o r
                                           /\ With(doc, more, n) = UpTo(doc, cs, from) \o (insert \o r)
           U == {n \in Nat : to <= n /\ n <= Len(doc) => After(n)}
<1> HIDE DEF After
<1>16. After(to)
  <2>1. <<>> \in Seq(Nat)
    OBVIOUS
  <2> QED BY <1>14, <1>15, <2>1 DEF After
<1>17. ASSUME NEW n \in Nat, n \in U PROVE n + 1 \in U
  <2> SUFFICES ASSUME to <= n + 1, n + 1 <= Len(doc) PROVE After(n + 1)
    OBVIOUS
  <2>1. CASE n + 1 = to
    BY <1>16, <2>1
  <2>2. CASE n + 1 # to
    <3>1. to <= n /\ n <= Len(doc) /\ from < n + 1 /\ ~(n + 1 <= to) /\ to # n + 1
      BY <1>2, <2>2
    <3>2. PICK r \in Seq(Nat) : /\ With(doc, cs, n) = UpTo(doc, cs, to) \o r
                                /\ With(doc, more, n) = UpTo(doc, cs, from) \o (insert \o r)
      BY <1>17, <3>1 DEF After
    <3>3. Rest(doc, more, n + 1) = Rest(doc, cs, n + 1)
      <4>1. /\ Inserted(more, 0 .. (n + 1) - 1, n + 1) = Inserted(cs, 0 .. (n + 1) - 1, n + 1)
            /\ Inserted(more, {n + 1}, n + 1) = Inserted(cs, {n + 1}, n + 1)
            /\ Kept(doc, more, n + 1) = Kept(doc, cs, n + 1)
        BY <1>6, <1>8, <3>1
      <4> QED BY <4>1 DEF Rest
    <3>4. PICK x : x = Rest(doc, cs, n + 1)
      OBVIOUS
    <3>5. /\ With(doc, cs, n + 1) = With(doc, cs, n) \o x
          /\ With(doc, more, n + 1) = With(doc, more, n) \o x
          /\ x \in Seq(Nat)
      BY <1>3, <2>2, <3>3, <3>4, WithNext
    <3>6. r \o x \in Seq(Nat) /\ insert \o r \in Seq(Nat)
      BY <1>2, <3>5, Concats
    <3>7. With(doc, cs, n + 1) = UpTo(doc, cs, to) \o (r \o x)
      <4>1. PICK u : u = UpTo(doc, cs, to)
        OBVIOUS
      <4>2. (u \o r) \o x = u \o (r \o x)
        <5>1. u \in Seq(Nat)
          BY <1>10, <4>1
        <5>2. x \in Seq(Nat)
          BY <3>5
        <5> QED BY <5>1, <5>2, Associates, Zenon
      <4> QED BY <3>2, <3>5, <4>1, <4>2
    <3>8. With(doc, more, n + 1) = UpTo(doc, cs, from) \o (insert \o (r \o x))
      <4>1. PICK u, v : u = UpTo(doc, cs, from) /\ v = insert \o r
        OBVIOUS
      <4>2. (u \o v) \o x = u \o (v \o x)
        <5>1. u \in Seq(Nat)
          BY <1>10, <4>1
        <5>2. v \in Seq(Nat)
          BY <3>6, <4>1
        <5>3. x \in Seq(Nat)
          BY <3>5
        <5> QED BY <5>1, <5>2, <5>3, Associates, Zenon
      <4>3. (insert \o r) \o x = insert \o (r \o x)
        <5>1. insert \in Seq(Nat)
          BY <1>2
        <5>2. x \in Seq(Nat)
          BY <3>5
        <5> QED BY <5>1, <5>2, Associates, Zenon
      <4> QED BY <3>2, <3>5, <4>1, <4>2, <4>3
    <3> QED BY <3>6, <3>7, <3>8 DEF After
  <2> QED BY <2>1, <2>2
<1>18. Nat \subseteq U
  <2>1. 0 \in U
    BY <1>2, <1>16
  <2> HIDE DEF U
  <2> QED BY <1>17, <2>1, NatSetInduction
<1>19. After(Len(doc))
  BY <1>2, <1>18
<1> QED BY <1>1, <1>19 DEF With, ApplyAll, After, IsSpliced

-----------------------------------------------------------------------------
(* One change after others *)

\* What two sequences begin with, of the same length.
LEMMA SameFront ==
    ASSUME NEW s \in Seq(Nat), NEW t \in Seq(Nat), NEW u \in Seq(Nat), NEW v \in Seq(Nat),
           s \o u = t \o v, Len(s) = Len(t)
    PROVE  s = t /\ u = v
<1>1. PICK all : all = s \o u
  OBVIOUS
<1>2. PICK a, b, c : a = Len(s) /\ b = Len(u) /\ c = Len(v)
  OBVIOUS
<1>3. a \in Nat /\ b \in Nat /\ c \in Nat /\ a = Len(t)
  BY <1>2
<1>4. /\ Len(all) = a + b
      /\ \A i \in 1 .. a + b : all[i] = IF i <= a THEN s[i] ELSE u[i - a]
  BY <1>1, <1>2, Concats
<1>5. /\ Len(all) = a + c
      /\ \A i \in 1 .. a + c : all[i] = IF i <= a THEN t[i] ELSE v[i - a]
  BY <1>1, <1>2, Concats
<1>6. b = c
  BY <1>3, <1>4, <1>5
<1>7. \A i \in 1 .. a : s[i] = t[i]
  <2> SUFFICES ASSUME NEW i \in 1 .. a PROVE s[i] = t[i]
    OBVIOUS
  <2>1. i \in 1 .. a + b /\ i \in 1 .. a + c /\ i <= a
    BY <1>3
  <2> QED BY <1>4, <1>5, <2>1
<1>8. \A i \in 1 .. b : u[i] = v[i]
  <2> SUFFICES ASSUME NEW i \in 1 .. b PROVE u[i] = v[i]
    OBVIOUS
  <2>1. a + i \in 1 .. a + b /\ a + i \in 1 .. a + c /\ ~(a + i <= a) /\ (a + i) - a = i
    BY <1>3, <1>6
  <2> QED BY <1>4, <1>5, <2>1
<1> QED BY <1>2, <1>3, <1>6, <1>7, <1>8, SeqEqual

\* What is before an offset is what the document begins with.
Begins(s, t) == \E r \in Seq(Nat) : t = s \o r

LEMMA UpToFront ==
    ASSUME NEW doc \in Seq(Nat), NEW cs, IsChanges(cs), NEW a \in Offsets(doc), NEW b \in Offsets(doc), a <= b
    PROVE  Begins(UpTo(doc, cs, a), UpTo(doc, cs, b))
<1> DEFINE Longer(n) == \E r \in Seq(Nat) : UpTo(doc, cs, n) = UpTo(doc, cs, a) \o r
           T == {n \in Nat : a <= n /\ n <= Len(doc) => Longer(n)}
<1>1. a \in Nat /\ b \in Nat /\ b <= Len(doc) /\ Len(doc) \in Nat
  BY DEF Offsets
<1>2. UpTo(doc, cs, a) \in Seq(Nat)
  BY UpToType
<1>3. Longer(a)
  <2>1. UpTo(doc, cs, a) = UpTo(doc, cs, a) \o <<>> /\ <<>> \in Seq(Nat)
    BY <1>2, ConcatEmptySeq
  <2> QED BY <2>1
<1>4. ASSUME NEW n \in Nat, a <= n, n + 1 <= Len(doc), Longer(n) PROVE Longer(n + 1)
  <2>1. PICK r \in Seq(Nat) : UpTo(doc, cs, n) = UpTo(doc, cs, a) \o r
    BY <1>4
  <2>2. PICK piece : piece = Piece(doc, cs, n + 1)
    OBVIOUS
  <2>3. piece \in Seq(Nat)
    <3>1. n + 1 \in DOMAIN doc
      BY <1>4
    <3> QED BY <2>2, <3>1, PieceType
  <2>4. UpTo(doc, cs, n + 1) = (UpTo(doc, cs, a) \o r) \o piece
    BY <2>1, <2>2, UpToNext
  <2>5. UpTo(doc, cs, n + 1) = UpTo(doc, cs, a) \o (r \o piece)
    BY <1>2, <2>3, <2>4, Associates, Zenon
  <2>6. r \o piece \in Seq(Nat)
    BY <2>3, Concats
  <2> QED BY <2>5, <2>6
<1> HIDE DEF Longer
<1>5. 0 \in T
  BY <1>1, <1>3
<1>6. ASSUME NEW n \in Nat, n \in T PROVE n + 1 \in T
  <2>1. a <= n + 1 => a <= n \/ a = n + 1
    BY <1>1
  <2>2. n + 1 <= Len(doc) => n <= Len(doc)
    BY <1>1
  <2> QED BY <1>3, <1>4, <1>6, <2>1, <2>2
<1>7. Nat \subseteq T
  <2> HIDE DEF T
  <2> QED BY <1>5, <1>6, NatSetInduction
<1>8. Longer(b)
  BY <1>1, <1>7
<1> QED BY <1>8 DEF Longer, Begins

LEMMA AppliedFront ==
    ASSUME NEW doc \in Seq(Nat), NEW cs, IsChanges(cs), NEW a \in Offsets(doc)
    PROVE  Begins(UpTo(doc, cs, a), ApplyAll(doc, cs))
<1>1. Len(doc) \in Offsets(doc) /\ a <= Len(doc)
  BY DEF Offsets
<1>2. PICK r \in Seq(Nat) : UpTo(doc, cs, Len(doc)) = UpTo(doc, cs, a) \o r
  <2>1. Begins(UpTo(doc, cs, a), UpTo(doc, cs, Len(doc)))
    BY <1>1, UpToFront
  <2> QED BY <2>1 DEF Begins
<1>3. PICK x : x = Inserted(cs, {Len(doc)}, Len(doc))
  OBVIOUS
<1>4. x \in Seq(Nat)
  BY <1>3, InsertedType
<1>5. UpTo(doc, cs, a) \in Seq(Nat)
  BY UpToType
<1>6. ApplyAll(doc, cs) = (UpTo(doc, cs, a) \o r) \o x
  BY <1>2, <1>3 DEF ApplyAll
<1>7. ApplyAll(doc, cs) = UpTo(doc, cs, a) \o (r \o x)
  BY <1>4, <1>5, <1>6, Associates, Zenon
<1>8. r \o x \in Seq(Nat)
  BY <1>4, Concats
<1> QED BY <1>7, <1>8 DEF Begins

LEMMA NothingWithin == ASSUME NEW doc PROVE Within(<<>>, doc)
<1>1. <<>> \in Seq(Range(<<>>)) /\ DOMAIN <<>> = {}
  OBVIOUS
<1> QED BY <1>1 DEF Within, IsChanges, IsShort

LEMMA OneWithin ==
    ASSUME NEW doc, NEW c, InText(c, doc), c.insert \in Seq(Nat), Len(c.insert) <= 1
    PROVE  Within(<<c>>, doc) /\ Extends(<<>>, c, <<c>>) /\ Clear(<<>>, c)
<1>1. PICK cs : cs = <<c>>
  OBVIOUS
<1>2. /\ DOMAIN cs = {1} /\ cs[1] = c /\ Range(cs) = {c} /\ cs \in Seq({c}) /\ Len(cs) = 1
      /\ DOMAIN <<>> = {} /\ Len(<<>>) = 0
  BY <1>1 DEF Range
<1>3. \A i \in DOMAIN cs : cs[i] = c
  BY <1>2
<1>4. Within(cs, doc)
  BY <1>2, <1>3 DEF Within, IsChanges, IsShort
<1>5. Extends(<<>>, c, cs)
  BY <1>2 DEF Extends
<1>6. Clear(<<>>, c)
  BY <1>2 DEF Clear
<1> QED BY <1>1, <1>4, <1>5, <1>6

LEMMA LastWithin ==
    ASSUME NEW doc \in Seq(Nat), NEW cs, NEW c, NEW more, Within(cs, doc), Within(more, doc),
           Extends(cs, c, more)
    PROVE  InText(c, doc) /\ c.insert \in Seq(Nat) /\ Len(c.insert) <= 1
<1>1. PICK n : n = Len(cs) + 1
  OBVIOUS
<1>2. n \in DOMAIN more /\ more[n] = c
  BY <1>1, WithinHas DEF Extends
<1> QED BY <1>2 DEF Within, IsChanges, IsShort

\* One change more is the same as this change afterwards, where its ends are then, if it is clear
\* of the others.
LEMMA OneAfterOthers ==
    ASSUME NEW doc \in Seq(Nat), NEW cs, NEW more, NEW c, Within(cs, doc), Within(more, doc),
           Extends(cs, c, more), Clear(cs, c), NEW now, now = ApplyAll(doc, cs), NEW d,
           d = Change(Len(UpTo(doc, cs, c.from)), Len(UpTo(doc, cs, c.to)), c.insert)
    PROVE  now \in Seq(Nat) /\ InText(d, now) /\ ApplyAll(now, <<d>>) = ApplyAll(doc, more)
<1>1. /\ c.from \in Offsets(doc) /\ c.to \in Offsets(doc) /\ c.from <= c.to
      /\ c.insert \in Seq(Nat) /\ Len(c.insert) <= 1 /\ IsChanges(cs)
  BY LastWithin DEF InText, Within
<1>2. PICK before, upto, insert : /\ before = UpTo(doc, cs, c.from) /\ upto = UpTo(doc, cs, c.to)
                                  /\ insert = c.insert
  OBVIOUS
<1>3. PICK f, t : f = Len(before) /\ t = Len(upto)
  OBVIOUS
<1>4. before \in Seq(Nat) /\ upto \in Seq(Nat)
  BY <1>1, <1>2, UpToType
<1>5. now \in Seq(Nat) /\ f \in Offsets(now) /\ t \in Offsets(now)
  BY <1>1, <1>2, <1>3, AppliedType
<1>6. f <= t
  BY <1>1, <1>2, <1>3, UpToGrows
<1>7. d.from = f /\ d.to = t /\ d.insert = insert
  BY <1>2, <1>3 DEF Change
<1>8. InText(d, now)
  BY <1>5, <1>6, <1>7 DEF InText
<1>9. PICK r \in Seq(Nat) : now = upto \o r /\ ApplyAll(doc, more) = before \o (insert \o r)
  <2>1. IsSpliced(doc, cs, more, c)
    BY Splices
  <2> QED BY <1>2, <2>1 DEF IsSpliced
<1>10. Within(<<>>, now) /\ Within(<<d>>, now) /\ Extends(<<>>, d, <<d>>) /\ Clear(<<>>, d)
  BY <1>1, <1>2, <1>7, <1>8, NothingWithin, OneWithin
<1>11. PICK front, all : front = UpTo(now, <<>>, f) /\ all = UpTo(now, <<>>, t)
  OBVIOUS
<1>12. PICK s \in Seq(Nat) : ApplyAll(now, <<>>) = all \o s /\ ApplyAll(now, <<d>>) = front \o (insert \o s)
  <2>1. PICK one, none : one = <<d>> /\ none = <<>>
    OBVIOUS
  <2>2. Within(none, now) /\ Within(one, now) /\ Extends(none, d, one) /\ Clear(none, d)
    BY <1>10, <2>1
  <2>3. IsSpliced(now, none, one, d)
    <3>1. now \in Seq(Nat)
      BY <1>5
    <3> QED BY <2>2, <3>1, Splices
  <2> QED BY <1>7, <1>11, <2>1, <2>3 DEF IsSpliced
<1>13. IsChanges(<<>>)
  BY <1>10 DEF Within
<1>14. front \in Seq(Nat) /\ all \in Seq(Nat) /\ Len(front) = f /\ Len(all) = t /\ ApplyAll(now, <<>>) = now
  BY <1>5, <1>11, <1>13, UpToType, AppliedNothing
<1>15. all = upto /\ s = r
  <2>1. all \in Seq(Nat)
    BY <1>14
  <2>2. upto \in Seq(Nat)
    BY <1>4
  <2>3. all \o s = upto \o r
    BY <1>9, <1>12, <1>14, Zenon
  <2>4. Len(all) = Len(upto)
    BY <1>3, <1>14, Zenon
  <2> QED BY <2>1, <2>2, <2>3, <2>4, SameFront, Zenon
<1>16. PICK x \in Seq(Nat) : upto = before \o x
  <2>1. Begins(UpTo(doc, cs, c.from), UpTo(doc, cs, c.to))
    BY <1>1, UpToFront
  <2> QED BY <1>2, <2>1 DEF Begins
<1>17. PICK y \in Seq(Nat) : all = front \o y
  <2>1. now \in Seq(Nat)
    BY <1>5
  <2>2. PICK none : none = <<>>
    OBVIOUS
  <2>3. IsChanges(none)
    BY <1>13, <2>2
  <2>4. Begins(UpTo(now, none, f), UpTo(now, none, t))
    BY <1>5, <1>6, <2>1, <2>3, UpToFront
  <2> QED BY <1>11, <2>2, <2>4 DEF Begins
<1>18. front = before
  <2>1. front \in Seq(Nat)
    BY <1>14
  <2>2. before \in Seq(Nat)
    BY <1>4
  <2>3. front \o y = before \o x
    BY <1>15, <1>16, <1>17, Zenon
  <2>4. Len(front) = Len(before)
    BY <1>3, <1>14, Zenon
  <2> QED BY <2>1, <2>2, <2>3, <2>4, SameFront, Zenon
<1>19. now \in Seq(Nat)
  BY <1>5
<1>20. ApplyAll(now, <<d>>) = ApplyAll(doc, more)
  BY <1>9, <1>12, <1>15, <1>18, Zenon
<1> QED BY <1>8, <1>19, <1>20

-----------------------------------------------------------------------------
(* Positions in a document that has changed *)

\* The start of a line is where it is.
LEMMA PositionAt ==
    ASSUME NEW doc \in Seq(Nat), NEW line, NEW start \in Offsets(doc), IsStart(doc, line, start),
           NEW p, p.line = line, p.character \in Nat, start + p.character \in Offsets(doc)
    PROVE  posToOffset(doc, p) = start + p.character
<1>1. start \in Nat /\ Len(doc) \in Nat /\ start <= Len(doc)
  BY DEF Offsets
<1>2. line = LineAt(doc, start)
  BY DEF IsStart
<1>3. line \in Nat /\ line < Lines(doc) /\ Lines(doc) \in Nat
  <2>1. Lines(doc) = 1 + LineAt(doc, Len(doc)) /\ LineAt(doc, Len(doc)) \in Nat
    BY <1>1, LinesIs, LineAtType
  <2> QED BY <1>2, <2>1, FromBefore
<1>4. PICK first : first = From(doc, line)
  OBVIOUS
<1>5. first \in Offsets(doc) /\ IsStart(doc, line, first)
  BY <1>3, <1>4, FromIs
<1>6. first \in Nat /\ line = LineAt(doc, first)
  BY <1>5 DEF Offsets, IsStart
<1>7. first <= start /\ start <= first
  BY <1>1, <1>2, <1>5, <1>6, StartFirst
<1>8. From(doc, line) = start
  BY <1>1, <1>4, <1>6, <1>7
<1>9. ~(line >= Lines(doc))
  BY <1>3
<1>10. ~(start + p.character > Len(doc))
  BY DEF Offsets
<1> QED BY <1>8, <1>9, <1>10 DEF posToOffset, InDoc

\* Where texts are alike, their lines follow each other alike.
Alike(doc, now, a, b, n) == \A i \in 1 .. n : now[b + i] = doc[a + i]

LEMMA LinesFollow ==
    ASSUME NEW doc, NEW now, NEW a \in Nat, NEW b \in Nat, NEW n \in Nat,
           LineAt(now, b) = LineAt(doc, a), Alike(doc, now, a, b, n)
    PROVE  LineAt(now, b + n) = LineAt(doc, a + n)
<1> DEFINE T == {m \in Nat : m <= n => LineAt(now, b + m) = LineAt(doc, a + m)}
<1>1. 0 \in T
  <2>1. b + 0 = b /\ a + 0 = a
    OBVIOUS
  <2> QED BY <2>1
<1>2. ASSUME NEW m \in Nat, m \in T PROVE m + 1 \in T
  <2> SUFFICES ASSUME m + 1 <= n PROVE LineAt(now, b + (m + 1)) = LineAt(doc, a + (m + 1))
    OBVIOUS
  <2>1. m <= n /\ m + 1 \in 1 .. n /\ b + m \in Nat /\ a + m \in Nat
        /\ b + (m + 1) = (b + m) + 1 /\ a + (m + 1) = (a + m) + 1
    OBVIOUS
  <2>2. LineAt(now, b + m) = LineAt(doc, a + m)
    BY <1>2, <2>1
  <2>3. now[(b + m) + 1] = doc[(a + m) + 1]
    <3>1. now[b + (m + 1)] = doc[a + (m + 1)]
      BY <2>1 DEF Alike
    <3> QED BY <2>1, <3>1
  <2>4. LineAt(now, (b + m) + 1) = LineAt(doc, (a + m) + 1)
    BY <2>1, <2>2, <2>3, LineAtNext
  <2> QED BY <2>1, <2>4
<1>3. Nat \subseteq T
  <2> HIDE DEF T
  <2> QED BY <1>1, <1>2, NatSetInduction
<1> QED BY <1>3

LEMMA BeginsHas ==
    ASSUME NEW s \in Seq(Nat), NEW t, Begins(s, t)
    PROVE  /\ t \in Seq(Nat) /\ Len(s) \in Nat /\ Len(t) \in Nat /\ Len(s) <= Len(t)
           /\ \A i \in 1 .. Len(s) : t[i] = s[i]
<1>1. PICK r \in Seq(Nat) : t = s \o r
  BY DEF Begins
<1>2. PICK a, b : a = Len(s) /\ b = Len(r)
  OBVIOUS
<1>3. a \in Nat /\ b \in Nat
  BY <1>2
<1>4. /\ t \in Seq(Nat) /\ Len(t) = a + b
      /\ \A i \in 1 .. a + b : t[i] = IF i <= a THEN s[i] ELSE r[i - a]
  BY <1>1, <1>2, Concats
<1>5. \A i \in 1 .. a : i \in 1 .. a + b /\ i <= a
  BY <1>3
<1>6. \A i \in 1 .. a : t[i] = s[i]
  BY <1>4, <1>5
<1> QED BY <1>2, <1>3, <1>4, <1>6

LEMMA BeginsFurther ==
    ASSUME NEW s \in Seq(Nat), NEW t, NEW u, Begins(s, t), Begins(t, u)
    PROVE  Begins(s, u)
<1>1. PICK x \in Seq(Nat) : t = s \o x
  BY DEF Begins
<1>2. PICK y \in Seq(Nat) : u = t \o y
  BY DEF Begins
<1>3. (s \o x) \o y = s \o (x \o y)
  BY Associates, Zenon
<1>4. x \o y \in Seq(Nat)
  BY Concats
<1> QED BY <1>1, <1>2, <1>3, <1>4 DEF Begins

\* In what a document begins with, what is there stays where it is.
LEMMA PositionStays ==
    ASSUME NEW doc \in Seq(Nat), NEW now \in Seq(Nat), NEW q \in Nat, q <= Len(doc), q <= Len(now),
           \A i \in 1 .. q : now[i] = doc[i], NEW o \in 0 .. q
    PROVE  posToOffset(now, offsetToPos(doc, o)) = o
<1>1. /\ o \in Nat /\ o \in Offsets(doc) /\ o \in Offsets(now) /\ o <= q
      /\ Len(doc) \in Nat /\ Len(now) \in Nat
  BY DEF Offsets
<1>2. PICK line, start : line = LineAt(doc, o) /\ start = From(doc, line)
  OBVIOUS
<1>3. line \in Nat /\ line < Lines(doc) /\ start \in Offsets(doc) /\ start <= o
  BY <1>1, <1>2, FromBefore
<1>4. IsStart(doc, line, start)
  BY <1>2, <1>3, FromIs
<1>5. start \in Nat /\ start \in Offsets(now) /\ start <= q
  BY <1>1, <1>3 DEF Offsets
<1>6. LineAt(now, 0 + start) = LineAt(doc, 0 + start)
  <2>1. LineAt(now, 0) = LineAt(doc, 0)
    BY LineAtStart
  <2>2. Alike(doc, now, 0, 0, start)
    BY <1>5 DEF Alike
  <2> QED BY <1>5, <2>1, <2>2, LinesFollow
<1>7. IsStart(now, line, start)
  <2>1. start = 0 \/ start \in 1 .. q
    BY <1>5
  <2> QED BY <1>4, <1>5, <1>6, <2>1 DEF IsStart
<1>8. PICK p : p = offsetToPos(doc, o)
  OBVIOUS
<1>9. p.line = line /\ p.character = o - start
  BY <1>2, <1>8 DEF offsetToPos
<1>10. p.character \in Nat /\ start + p.character = o
  BY <1>1, <1>3, <1>5, <1>9
<1> QED BY <1>1, <1>5, <1>7, <1>8, <1>9, <1>10, PositionAt

\* On the lines below a place where the document begins to go on as it was, everything moves alike.
LEMMA PositionMoves ==
    ASSUME NEW doc \in Seq(Nat), NEW now \in Seq(Nat), NEW a \in Offsets(doc), NEW q \in Offsets(now),
           NEW n \in Nat, a + n <= Len(doc), q + n <= Len(now), LineAt(now, q) = LineAt(doc, a),
           Alike(doc, now, a, q, n),
           NEW o \in a .. a + n, LineAt(doc, a) < LineAt(doc, o)
    PROVE  posToOffset(now, offsetToPos(doc, o)) = q + (o - a)
<1>1. a \in Nat /\ q \in Nat /\ Len(doc) \in Nat /\ Len(now) \in Nat
  BY DEF Offsets
<1>2. o \in Nat /\ o \in Offsets(doc) /\ q + (o - a) \in Offsets(now)
  BY <1>1 DEF Offsets
<1>3. PICK line, start : line = LineAt(doc, o) /\ start = From(doc, line)
  OBVIOUS
<1>4. line \in Nat /\ line < Lines(doc) /\ start \in Offsets(doc) /\ start <= o
  BY <1>2, <1>3, FromBefore
<1>5. IsStart(doc, line, start)
  BY <1>3, <1>4, FromIs
<1>6. start \in Nat
  BY <1>4 DEF Offsets
<1>7. start > a
  <2> SUFFICES ASSUME start <= a PROVE FALSE
    BY <1>1, <1>6
  <2>1. LineAt(doc, start) <= LineAt(doc, a) /\ LineAt(doc, start) = line
    BY <1>1, <1>5, <1>6, LineAtGrows DEF IsStart
  <2>2. LineAt(doc, a) \in Nat
    BY <1>1, LineAtType
  <2> QED BY <1>3, <1>4, <2>1, <2>2
<1>8. PICK m : m = start - a
  OBVIOUS
<1>9. /\ m \in Nat /\ m \in 1 .. n /\ a + m = start /\ q + m \in Offsets(now) /\ q + m \in Nat
      /\ m \in 1 .. m /\ 1 .. m \subseteq 1 .. n
  BY <1>1, <1>4, <1>6, <1>7, <1>8 DEF Offsets
<1>10. LineAt(now, q + m) = LineAt(doc, a + m)
  <2>1. Alike(doc, now, a, q, m)
    BY <1>9 DEF Alike
  <2> QED BY <1>1, <1>9, <2>1, LinesFollow
<1>11. now[q + m] = doc[start]
  BY <1>9 DEF Alike
<1>12. IsStart(now, line, q + m)
  BY <1>1, <1>5, <1>7, <1>9, <1>10, <1>11 DEF IsStart
<1>13. PICK p : p = offsetToPos(doc, o)
  OBVIOUS
<1>14. p.line = line /\ p.character = o - start
  BY <1>3, <1>13 DEF offsetToPos
<1>15. p.character \in Nat /\ (q + m) + p.character = q + (o - a)
  BY <1>1, <1>2, <1>4, <1>6, <1>8, <1>14
<1> QED BY <1>2, <1>9, <1>12, <1>13, <1>14, <1>15, PositionAt

-----------------------------------------------------------------------------
(* What changes that are all between two places leave as it was *)

Around(doc, cs, first, last) ==
    /\ Within(cs, doc) /\ InText([from |-> first, to |-> last], doc)
    /\ \A i \in DOMAIN cs : cs[i].from = first /\ cs[i].to <= last

LEMMA AroundHas ==
    ASSUME NEW doc \in Seq(Nat), NEW cs, NEW first, NEW last, Around(doc, cs, first, last)
    PROVE  /\ first \in Nat /\ last \in Nat /\ first <= last /\ Len(doc) \in Nat /\ last <= Len(doc)
           /\ first \in Offsets(doc) /\ last \in Offsets(doc)
           /\ IsChanges(cs) /\ IsShort(cs)
           /\ \A i \in DOMAIN cs : cs[i].from = first /\ cs[i].to \in Nat /\ cs[i].to <= last /\ first <= cs[i].to
BY WithinHas DEF Around, Within, InText, Offsets

LEMMA FrontKept ==
    ASSUME NEW doc \in Seq(Nat), NEW cs, NEW first, NEW last, Around(doc, cs, first, last),
           NEW k \in 0 .. first
    PROVE  /\ Len(UpTo(doc, cs, k)) = k /\ UpTo(doc, cs, k) \in Seq(Nat)
           /\ \A i \in 1 .. k : UpTo(doc, cs, k)[i] = doc[i]
<1>1. /\ first \in Nat /\ first <= Len(doc) /\ Len(doc) \in Nat /\ k \in Nat /\ k <= first
      /\ k \in Offsets(doc) /\ IsChanges(cs) /\ IsShort(cs)
      /\ \A i \in DOMAIN cs : cs[i].from = first
  BY AroundHas DEF Offsets
<1>2. PICK none : none = <<>>
  OBVIOUS
<1>3. IsChanges(none) /\ IsShort(none) /\ DOMAIN none = {}
  BY <1>2, NothingWithin DEF Within
<1>4. ASSUME NEW j \in 1 .. k PROVE Piece(doc, cs, j) = Piece(doc, none, j)
  <2>1. j \in Nat /\ first \notin {j - 1} /\ first \notin 0 .. j - 1 /\ ~(first < j)
    BY <1>1
  <2>2. Inserted(cs, {j - 1}, j - 1) = <<>>
    BY <1>1, <2>1, InsertedNone
  <2>3. Inserted(cs, 0 .. j - 1, j) = <<>>
    BY <1>1, <2>1, InsertedNone
  <2>4. Inserted(none, {j - 1}, j - 1) = <<>>
    BY <1>3, InsertedNone
  <2>5. Inserted(none, 0 .. j - 1, j) = <<>>
    BY <1>3, InsertedNone
  <2>6. Kept(doc, cs, j) = <<doc[j]>> /\ Kept(doc, none, j) = <<doc[j]>>
    BY <1>1, <1>3, <2>1 DEF Kept
  <2> QED BY <2>2, <2>3, <2>4, <2>5, <2>6 DEF Piece
<1>5. UpTo(doc, cs, k) = UpTo(doc, none, k)
  BY <1>1, <1>4, AlikeUpTo
<1>6. Begins(UpTo(doc, none, k), ApplyAll(doc, none))
  BY <1>1, <1>3, AppliedFront
<1>7. ApplyAll(doc, none) = doc /\ Len(UpTo(doc, none, k)) = k
  BY <1>1, <1>2, AppliedNothing
<1>8. UpTo(doc, none, k) \in Seq(Nat)
  BY <1>1, <1>3, UpToType
<1> QED BY <1>5, <1>6, <1>7, <1>8, BeginsHas

LEMMA OneMore ==
    ASSUME NEW s \in Seq(Nat), NEW c \in Nat, NEW t, t = s \o <<c>>
    PROVE  /\ t \in Seq(Nat) /\ Len(t) = Len(s) + 1 /\ t[Len(s) + 1] = c
           /\ \A i \in 1 .. Len(s) : t[i] = s[i]
<1>1. PICK one, a : one = <<c>> /\ a = Len(s)
  OBVIOUS
<1>2. one \in Seq(Nat) /\ Len(one) = 1 /\ one[1] = c /\ a \in Nat
  BY <1>1
<1>3. /\ t \in Seq(Nat) /\ Len(t) = a + 1
      /\ \A i \in 1 .. a + 1 : t[i] = IF i <= a THEN s[i] ELSE one[i - a]
  BY <1>1, <1>2, Concats
<1>4. a + 1 \in 1 .. a + 1 /\ ~(a + 1 <= a) /\ (a + 1) - a = 1
  BY <1>2
<1>5. \A i \in 1 .. a : i \in 1 .. a + 1 /\ i <= a
  BY <1>2
<1> QED BY <1>1, <1>2, <1>3, <1>4, <1>5

LEMMA BehindKept ==
    ASSUME NEW doc \in Seq(Nat), NEW cs, NEW first, NEW last, Around(doc, cs, first, last),
           NEW q, q = Len(With(doc, cs, last)), NEW n \in Nat, last + n <= Len(doc)
    PROVE  /\ q \in Nat /\ Len(With(doc, cs, last + n)) = q + n /\ With(doc, cs, last + n) \in Seq(Nat)
           /\ \A i \in 1 .. q : With(doc, cs, last + n)[i] = With(doc, cs, last)[i]
           /\ Alike(doc, With(doc, cs, last + n), last, q, n)
<1>1. /\ last \in Nat /\ last <= Len(doc) /\ Len(doc) \in Nat /\ IsChanges(cs) /\ IsShort(cs)
      /\ last \in Offsets(doc) /\ \A i \in DOMAIN cs : cs[i].to \in Nat /\ cs[i].to <= last
  BY AroundHas
<1>2. With(doc, cs, last) \in Seq(Nat)
  <2>1. UpTo(doc, cs, last) \in Seq(Nat)
    BY <1>1, UpToType
  <2>2. Inserted(cs, {last}, last) \in Seq(Nat)
    BY <1>1, InsertedType
  <2> QED BY <2>1, <2>2, Concats DEF With
<1>3. q \in Nat
  BY <1>2
<1> DEFINE Goes(w, m) == /\ Len(w) = q + m /\ w \in Seq(Nat)
                         /\ \A i \in 1 .. q : w[i] = With(doc, cs, last)[i]
                         /\ Alike(doc, w, last, q, m)
           T == {m \in Nat : last + m <= Len(doc) => Goes(With(doc, cs, last + m), m)}
<1>4. Goes(With(doc, cs, last), 0)
  BY <1>2, <1>3 DEF Alike
<1>5. ASSUME NEW m \in Nat, m \in T PROVE m + 1 \in T
  <2> SUFFICES ASSUME last + (m + 1) <= Len(doc) PROVE Goes(With(doc, cs, last + (m + 1)), m + 1)
    OBVIOUS
  <2>1. PICK k : k = (last + m) + 1
    OBVIOUS
  <2>2. /\ last + m <= Len(doc) /\ last + m \in Nat /\ k = last + (m + 1) /\ k \in Nat /\ k <= Len(doc)
        /\ k > last /\ k \in DOMAIN doc
    BY <1>1, <2>1
  <2>3. PICK w, u : w = With(doc, cs, last + m) /\ u = With(doc, cs, k)
    OBVIOUS
  <2>4. Goes(w, m)
    BY <1>5, <2>2, <2>3
  <2>5. \A i \in DOMAIN cs : cs[i].to # k /\ ~(k <= cs[i].to)
    BY <1>1, <2>2
  <2>6. Inserted(cs, 0 .. k - 1, k) = <<>>
    BY <1>1, <2>5, InsertedNone
  <2>7. Inserted(cs, {k}, k) = <<>>
    BY <1>1, <2>5, InsertedNone
  <2>8. PICK c : c = doc[k]
    OBVIOUS
  <2>9. c \in Nat /\ Kept(doc, cs, k) = <<c>>
    BY <2>2, <2>5, <2>8 DEF Kept
  <2>10. Rest(doc, cs, k) = <<c>>
    <3>1. <<c>> \in Seq(Nat)
      BY <2>9
    <3>2. Rest(doc, cs, k) = (<<c>> \o <<>>) \o <<>>
      BY <2>6, <2>7, <2>9 DEF Rest
    <3> QED BY <3>1, <3>2, ConcatEmptySeq
  <2>11. u = w \o <<c>>
    <3>1. With(doc, cs, (last + m) + 1) = With(doc, cs, last + m) \o Rest(doc, cs, (last + m) + 1)
      BY <1>1, <2>1, <2>2, WithNext
    <3> QED BY <2>1, <2>3, <2>10, <3>1
  <2>12. /\ u \in Seq(Nat) /\ Len(u) = Len(w) + 1 /\ u[Len(w) + 1] = c
         /\ \A i \in 1 .. Len(w) : u[i] = w[i]
    <3>1. w \in Seq(Nat)
      BY <2>4
    <3>2. c \in Nat
      BY <2>9
    <3> HIDE DEF Goes
    <3> QED BY <2>11, <3>1, <3>2, OneMore
  <2>13. /\ Len(u) = q + (m + 1) /\ u[q + (m + 1)] = c
         /\ \A i \in 1 .. q + m : u[i] = w[i]
    BY <1>3, <2>4, <2>12
  <2>14. \A i \in 1 .. q : u[i] = With(doc, cs, last)[i]
    <3>1. \A i \in 1 .. q : i \in 1 .. q + m
      BY <1>3
    <3> QED BY <2>4, <2>13, <3>1
  <2>15. Alike(doc, u, last, q, m + 1)
    <3> SUFFICES ASSUME NEW i \in 1 .. m + 1 PROVE u[q + i] = doc[last + i]
      BY DEF Alike
    <3>1. CASE i = m + 1
      BY <2>2, <2>8, <2>13, <3>1
    <3>2. CASE i # m + 1
      <4>1. i \in 1 .. m /\ q + i \in 1 .. q + m
        BY <1>3, <3>2
      <4> QED BY <2>4, <2>13, <4>1 DEF Alike
    <3> QED BY <3>1, <3>2
  <2> QED BY <2>2, <2>3, <2>12, <2>13, <2>14, <2>15
<1>6. Nat \subseteq T
  <2>1. 0 \in T
    <3>1. last + 0 = last
      BY <1>1
    <3> QED BY <1>4, <3>1
  <2> HIDE DEF T
  <2> QED BY <1>5, <2>1, NatSetInduction
<1>7. Goes(With(doc, cs, last + n), n)
  BY <1>6
<1> QED BY <1>3, <1>7

LEMMA BehindIs ==
    ASSUME NEW doc \in Seq(Nat), NEW cs, NEW first, NEW last, Around(doc, cs, first, last),
           NEW k \in Offsets(doc), last < k
    PROVE  UpTo(doc, cs, k) = With(doc, cs, k)
<1>1. last \in Nat /\ k \in Nat /\ IsChanges(cs) /\ IsShort(cs) /\ \A i \in DOMAIN cs : cs[i].to # k
  BY AroundHas DEF Offsets
<1>2. Inserted(cs, {k}, k) = <<>>
  BY <1>1, InsertedNone
<1>3. UpTo(doc, cs, k) \in Seq(Nat)
  BY <1>1, UpToType
<1> QED BY <1>2, <1>3, ConcatEmptySeq DEF With

\* No line breaks.
Calm(s) == \A j \in 1 .. Len(s) : s[j] # Break

LEMMA CalmConcat ==
    ASSUME NEW s \in Seq(Nat), NEW t \in Seq(Nat), Calm(s), Calm(t) PROVE Calm(s \o t)
<1>1. PICK a, b, all : a = Len(s) /\ b = Len(t) /\ all = s \o t
  OBVIOUS
<1>2. a \in Nat /\ b \in Nat
  BY <1>1
<1>3. /\ Len(all) = a + b
      /\ \A i \in 1 .. a + b : all[i] = IF i <= a THEN s[i] ELSE t[i - a]
  BY <1>1, Concats
<1>4. ASSUME NEW i \in 1 .. a + b PROVE all[i] # Break
  <2>1. CASE i <= a
    <3>1. i \in 1 .. a
      BY <1>2, <2>1
    <3>2. s[i] # Break
      BY <1>1, <3>1 DEF Calm
    <3> QED BY <1>3, <2>1, <3>2
  <2>2. CASE ~(i <= a)
    <3>1. i - a \in 1 .. b
      BY <1>2, <2>2
    <3>2. t[i - a] # Break
      BY <1>1, <3>1 DEF Calm
    <3> QED BY <1>3, <2>2, <3>2
  <2> QED BY <2>1, <2>2
<1> QED BY <1>1, <1>3, <1>4 DEF Calm

LEMMA InsertedCalm ==
    ASSUME NEW cs, IsChanges(cs), IsShort(cs), \A i \in DOMAIN cs : cs[i].insert # <<Break>>,
           NEW froms, NEW to
    PROVE  Calm(Inserted(cs, froms, to))
<1>1. PICK inserted : inserted = Inserted(cs, froms, to)
  OBVIOUS
<1>2. inserted \in Seq(Nat) /\ DOMAIN inserted = 1 .. Len(inserted)
  <2>1. inserted \in Seq(Nat)
    BY <1>1, InsertedType
  <2> QED BY <2>1
<1>3. ASSUME NEW j \in 1 .. Len(inserted) PROVE inserted[j] # Break
  <2>1. PICK c \in DOMAIN cs : Len(cs[c].insert) = 1 /\ inserted[j] = cs[c].insert[1]
    BY <1>1, <1>2, InsertedFrom
  <2>2. cs[c].insert \in Seq(Nat) /\ cs[c].insert # <<Break>>
    BY DEF IsChanges
  <2>3. PICK insert, x : insert = cs[c].insert /\ x = <<Break>>
    OBVIOUS
  <2>4. insert \in Seq(Nat) /\ Len(insert) = 1 /\ insert # x
    BY <2>1, <2>2, <2>3
  <2>5. x \in Seq(Nat) /\ Len(x) = 1 /\ x[1] = Break
    BY <2>3 DEF Break
  <2>6. insert[1] = Break => \A i \in 1 .. Len(insert) : insert[i] = x[i]
    BY <2>4, <2>5
  <2>7. Len(insert) = Len(x)
    BY <2>4, <2>5
  <2>8. insert[1] # Break
    BY <2>4, <2>5, <2>6, <2>7, SeqEqual
  <2> QED BY <2>1, <2>3, <2>8
<1> QED BY <1>1, <1>3 DEF Calm

\* Between places on one line no line begins.
LEMMA LineGoesOn ==
    ASSUME NEW doc, NEW a \in Nat, NEW b \in Nat, LineAt(doc, a) = LineAt(doc, b),
           NEW k \in a + 1 .. b
    PROVE  doc[k] # Break
<1>1. PICK j : j = k - 1
  OBVIOUS
<1>2. j \in Nat /\ k = j + 1 /\ k \in Nat /\ a <= j /\ k <= b
  BY <1>1
<1>3. LineAt(doc, a) <= LineAt(doc, j) /\ LineAt(doc, k) <= LineAt(doc, b)
  BY <1>2, LineAtGrows
<1>4. LineAt(doc, a) \in Nat /\ LineAt(doc, j) \in Nat /\ LineAt(doc, k) \in Nat
  BY <1>2, LineAtType
<1>5. doc[k] = Break => LineAt(doc, k) = LineAt(doc, j) + 1
  BY <1>2, LineAtNext
<1> QED BY <1>3, <1>4, <1>5

LEMMA LineStays ==
    ASSUME NEW doc, NEW a \in Nat, NEW n \in Nat, \A i \in 1 .. n : doc[a + i] # Break
    PROVE  LineAt(doc, a + n) = LineAt(doc, a)
<1> DEFINE T == {m \in Nat : m <= n => LineAt(doc, a + m) = LineAt(doc, a)}
<1>1. 0 \in T
  <2>1. a + 0 = a
    OBVIOUS
  <2> QED BY <2>1
<1>2. ASSUME NEW m \in Nat, m \in T PROVE m + 1 \in T
  <2> SUFFICES ASSUME m + 1 <= n PROVE LineAt(doc, a + (m + 1)) = LineAt(doc, a)
    OBVIOUS
  <2>1. m <= n /\ m + 1 \in 1 .. n /\ a + m \in Nat /\ a + (m + 1) = (a + m) + 1
    OBVIOUS
  <2>2. LineAt(doc, a + m) = LineAt(doc, a)
    BY <1>2, <2>1
  <2>3. doc[(a + m) + 1] # Break
    <3>1. doc[a + (m + 1)] # Break
      BY <2>1
    <3> QED BY <2>1, <3>1
  <2> QED BY <2>1, <2>2, <2>3, LineAtNext
<1>3. Nat \subseteq T
  <2> HIDE DEF T
  <2> QED BY <1>1, <1>2, NatSetInduction
<1> QED BY <1>3

\* Changes on one line, that insert no line break, end on this line.
LEMMA StaysOnLine ==
    ASSUME NEW doc \in Seq(Nat), NEW cs, NEW first, NEW last, Around(doc, cs, first, last),
           LineAt(doc, first) = LineAt(doc, last), \A i \in DOMAIN cs : cs[i].insert # <<Break>>
    PROVE  \E r \in Seq(Nat) : With(doc, cs, last) = UpTo(doc, cs, first) \o r /\ Calm(r)
<1>1. /\ first \in Nat /\ last \in Nat /\ first <= last /\ last <= Len(doc) /\ Len(doc) \in Nat
      /\ first \in Offsets(doc) /\ IsChanges(cs) /\ IsShort(cs)
  BY AroundHas
<1>2. PICK front : front = UpTo(doc, cs, first)
  OBVIOUS
<1>3. front \in Seq(Nat)
  BY <1>1, <1>2, UpToType
<1> DEFINE Goes(m) == \E r \in Seq(Nat) : With(doc, cs, first + m) = front \o r /\ Calm(r)
           T == {m \in Nat : first + m <= last => Goes(m)}
<1>4. Goes(0)
  <2>1. PICK r : r = Inserted(cs, {first}, first)
    OBVIOUS
  <2>2. r \in Seq(Nat)
    BY <1>1, <2>1, InsertedType
  <2>3. Calm(r)
    BY <1>1, <2>1, InsertedCalm
  <2>4. first + 0 = first
    BY <1>1
  <2> QED BY <1>2, <2>1, <2>2, <2>3, <2>4 DEF With
<1>5. ASSUME NEW m \in Nat, first + (m + 1) <= last, Goes(m) PROVE Goes(m + 1)
  <2>1. PICK k : k = (first + m) + 1
    OBVIOUS
  <2>2. /\ first + m \in Nat /\ k = first + (m + 1) /\ k \in Nat /\ k <= Len(doc) /\ k \in DOMAIN doc
        /\ k \in first + 1 .. last
    BY <1>1, <1>5, <2>1
  <2>3. PICK r \in Seq(Nat) : With(doc, cs, first + m) = front \o r /\ Calm(r)
    BY <1>5
  <2>4. PICK x, y, z : x = Kept(doc, cs, k) /\ y = Inserted(cs, 0 .. k - 1, k) /\ z = Inserted(cs, {k}, k)
    OBVIOUS
  <2>5. y \in Seq(Nat) /\ z \in Seq(Nat) /\ Calm(y) /\ Calm(z)
    <3>1. y \in Seq(Nat)
      BY <1>1, <2>4, InsertedType
    <3>2. z \in Seq(Nat)
      BY <1>1, <2>4, InsertedType
    <3>3. Calm(y)
      BY <1>1, <2>4, InsertedCalm
    <3>4. Calm(z)
      BY <1>1, <2>4, InsertedCalm
    <3> QED BY <3>1, <3>2, <3>3, <3>4
  <2>6. doc[k] # Break /\ doc[k] \in Nat
    <3>1. doc[k] # Break
      BY <1>1, <2>2, LineGoesOn
    <3> QED BY <2>2, <3>1
  <2>7. x \in Seq(Nat) /\ Calm(x)
    BY <2>4, <2>6 DEF Kept, Calm
  <2>8. x \o y \in Seq(Nat) /\ Calm(x \o y)
    BY <2>5, <2>7, Concats, CalmConcat
  <2>9. PICK more : more = (x \o y) \o z
    OBVIOUS
  <2>10. more \in Seq(Nat) /\ Calm(more)
    BY <2>5, <2>8, <2>9, Concats, CalmConcat
  <2>11. With(doc, cs, k) = (front \o r) \o more
    <3>1. With(doc, cs, (first + m) + 1) = With(doc, cs, first + m) \o Rest(doc, cs, (first + m) + 1)
      BY <1>1, <2>1, <2>2, WithNext
    <3>2. Rest(doc, cs, k) = more
      BY <2>4, <2>9 DEF Rest
    <3> QED BY <2>1, <2>3, <3>1, <3>2
  <2>12. With(doc, cs, k) = front \o (r \o more)
    <3>1. more \in Seq(Nat)
      BY <2>10
    <3> QED BY <1>3, <2>11, <3>1, Associates, Zenon
  <2>13. r \o more \in Seq(Nat)
    BY <2>10, Concats
  <2>14. Calm(r \o more)
    BY <2>3, <2>10, CalmConcat
  <2> QED BY <2>2, <2>12, <2>13, <2>14
<1> HIDE DEF Goes
<1>6. Nat \subseteq T
  <2>1. 0 \in T
    BY <1>4
  <2>2. ASSUME NEW m \in Nat, m \in T PROVE m + 1 \in T
    <3>1. first + (m + 1) <= last => first + m <= last
      BY <1>1
    <3> QED BY <1>5, <2>2, <3>1
  <2> HIDE DEF T
  <2> QED BY <2>1, <2>2, NatSetInduction
<1>7. PICK m : m = last - first
  OBVIOUS
<1>8. m \in Nat /\ first + m = last
  BY <1>1, <1>7
<1>9. Goes(m)
  BY <1>1, <1>6, <1>8
<1> QED BY <1>2, <1>8, <1>9 DEF Goes

\* An offset before the changes, or one on a line below.
Beside(doc, cs, first, last, o) ==
    \/ o <= first
    \/ /\ LineAt(doc, last) < LineAt(doc, o) /\ LineAt(doc, first) = LineAt(doc, last)
       /\ \A i \in DOMAIN cs : cs[i].insert # <<Break>>

\* How long what the changes make of the document is up to such an offset: q is how long it is up
\* to their last place.
IsBeside(first, last, q, o, size) ==
    /\ q \in Nat /\ first <= q
    /\ \/ o <= first /\ size = o
       \/ o > last /\ size = q + (o - last)

LEMMA BesideIs ==
    ASSUME NEW doc \in Seq(Nat), NEW cs, NEW first, NEW last, Around(doc, cs, first, last),
           NEW o \in Offsets(doc), Beside(doc, cs, first, last, o)
    PROVE  IsBeside(first, last, Len(With(doc, cs, last)), o, Len(UpTo(doc, cs, o)))
<1>0. PICK q : q = Len(With(doc, cs, last))
  OBVIOUS
<1>1. /\ first \in Nat /\ last \in Nat /\ first <= last /\ last <= Len(doc) /\ Len(doc) \in Nat
      /\ first \in Offsets(doc) /\ last \in Offsets(doc) /\ IsChanges(cs) /\ o \in Nat /\ o <= Len(doc)
  BY AroundHas DEF Offsets
<1>2. q \in Nat /\ first <= q
  <2>1. PICK front, upto, inserted : /\ front = UpTo(doc, cs, first) /\ upto = UpTo(doc, cs, last)
                                     /\ inserted = Inserted(cs, {last}, last)
    OBVIOUS
  <2>2. upto \in Seq(Nat)
    BY <1>1, <2>1, UpToType
  <2>3. inserted \in Seq(Nat)
    BY <1>1, <2>1, InsertedType
  <2>4. Len(front) = first
    <3>1. first \in 0 .. first
      BY <1>1
    <3> QED BY <2>1, <3>1, FrontKept
  <2>5. Len(front) <= Len(upto)
    BY <1>1, <2>1, UpToGrows
  <2>6. q = Len(upto) + Len(inserted)
    BY <1>0, <2>1, <2>2, <2>3, Concats DEF With
  <2>7. Len(upto) \in Nat /\ Len(inserted) \in Nat
    BY <2>2, <2>3
  <2> QED BY <1>1, <2>4, <2>5, <2>6, <2>7
<1>3. CASE o <= first
  <2>1. o \in 0 .. first
    BY <1>1, <1>3
  <2>2. Len(UpTo(doc, cs, o)) = o
    BY <2>1, FrontKept
  <2>3. IsBeside(first, last, q, o, o)
    BY <1>1, <1>2, <1>3 DEF IsBeside
  <2> QED BY <1>0, <2>2, <2>3
<1>4. CASE LineAt(doc, last) < LineAt(doc, o)
  <2>1. o > last
    <3> SUFFICES ASSUME o <= last PROVE FALSE
      BY <1>1
    <3>1. LineAt(doc, o) <= LineAt(doc, last)
      BY <1>1, LineAtGrows
    <3>2. LineAt(doc, o) \in Nat /\ LineAt(doc, last) \in Nat
      BY <1>1, LineAtType
    <3> QED BY <1>4, <3>1, <3>2
  <2>2. PICK n : n = o - last
    OBVIOUS
  <2>3. n \in Nat /\ last + n = o /\ last + n <= Len(doc)
    BY <1>1, <2>1, <2>2
  <2>4. UpTo(doc, cs, o) = With(doc, cs, o)
    BY <2>1, BehindIs
  <2>5. Len(With(doc, cs, last + n)) = q + n
    BY <1>0, <2>3, BehindKept
  <2>6. n \in Nat /\ IsBeside(first, last, q, o, q + n)
    BY <1>2, <2>1, <2>2, <2>3 DEF IsBeside
  <2>7. Len(UpTo(doc, cs, o)) = q + n
    BY <2>3, <2>4, <2>5
  <2> QED BY <1>0, <2>6, <2>7
<1> QED BY <1>3, <1>4 DEF Beside

\* Of two such offsets the later one stays the later one.
LEMMA BesideInOrder ==
    ASSUME NEW doc \in Seq(Nat), NEW cs, NEW first, NEW last, Around(doc, cs, first, last),
           NEW a \in Offsets(doc), NEW b \in Offsets(doc), a < b,
           Beside(doc, cs, first, last, a), Beside(doc, cs, first, last, b)
    PROVE  Len(UpTo(doc, cs, a)) < Len(UpTo(doc, cs, b))
<1>1. first \in Nat /\ last \in Nat /\ first <= last /\ a \in Nat /\ b \in Nat
  BY AroundHas DEF Offsets
<1>2. PICK q, x, y : q = Len(With(doc, cs, last)) /\ x = Len(UpTo(doc, cs, a)) /\ y = Len(UpTo(doc, cs, b))
  OBVIOUS
<1>3. IsBeside(first, last, q, a, x)
  <2>1. IsBeside(first, last, Len(With(doc, cs, last)), a, Len(UpTo(doc, cs, a)))
    BY BesideIs
  <2> QED BY <1>2, <2>1
<1>4. IsBeside(first, last, q, b, y)
  <2>1. IsBeside(first, last, Len(With(doc, cs, last)), b, Len(UpTo(doc, cs, b)))
    BY BesideIs
  <2> QED BY <1>2, <2>1
<1>5. x < y
  BY <1>1, <1>3, <1>4 DEF IsBeside
<1> QED BY <1>2, <1>5

\* Such a position stands for the same place in any text that begins as the changes make the document.
LEMMA PlaceThen ==
    ASSUME NEW doc \in Seq(Nat), NEW cs, NEW first, NEW last, Around(doc, cs, first, last),
           NEW o \in Offsets(doc), Beside(doc, cs, first, last, o),
           NEW now, Begins(UpTo(doc, cs, o), now)
    PROVE  posToOffset(now, offsetToPos(doc, o)) = Len(UpTo(doc, cs, o))
<1>1. /\ first \in Nat /\ last \in Nat /\ first <= last /\ last <= Len(doc) /\ Len(doc) \in Nat
      /\ first \in Offsets(doc) /\ last \in Offsets(doc) /\ IsChanges(cs) /\ o \in Nat /\ o <= Len(doc)
  BY AroundHas DEF Offsets
<1>2. PICK upto : upto = UpTo(doc, cs, o)
  OBVIOUS
<1>3. upto \in Seq(Nat)
  BY <1>1, <1>2, UpToType
<1>4. /\ now \in Seq(Nat) /\ Len(now) \in Nat /\ Len(upto) <= Len(now)
      /\ \A i \in 1 .. Len(upto) : now[i] = upto[i]
  BY <1>2, <1>3, BeginsHas
<1>5. CASE o <= first
  <2>1. o \in 0 .. first
    BY <1>1, <1>5
  <2>2. Len(upto) = o /\ \A i \in 1 .. o : upto[i] = doc[i]
    BY <1>2, <2>1, FrontKept
  <2>3. \A i \in 1 .. o : now[i] = doc[i]
    BY <1>4, <2>2
  <2>4. o <= Len(now) /\ o \in 0 .. o
    BY <1>1, <1>4, <2>2
  <2>5. posToOffset(now, offsetToPos(doc, o)) = o
    <3>1. now \in Seq(Nat)
      BY <1>4
    <3> QED BY <1>1, <2>3, <2>4, <3>1, PositionStays
  <2> QED BY <1>2, <2>2, <2>5
<1>6. CASE /\ ~(o <= first)
           /\ LineAt(doc, last) < LineAt(doc, o) /\ LineAt(doc, first) = LineAt(doc, last)
           /\ \A i \in DOMAIN cs : cs[i].insert # <<Break>>
  <2>1. PICK q, w : w = With(doc, cs, last) /\ q = Len(w)
    OBVIOUS
  <2>2. q \in Nat /\ first <= q /\ o > last /\ Len(upto) = q + (o - last)
    <3>1. IsBeside(first, last, Len(With(doc, cs, last)), o, Len(UpTo(doc, cs, o)))
      BY BesideIs
    <3>2. IsBeside(first, last, q, o, Len(upto))
      BY <1>2, <2>1, <3>1
    <3> QED BY <1>1, <1>6, <3>2 DEF IsBeside
  <2>3. PICK n : n = o - last
    OBVIOUS
  <2>4. n \in Nat /\ last + n = o /\ last + n <= Len(doc)
    BY <1>1, <2>2, <2>3
  <2>5. upto = With(doc, cs, last + n)
    BY <1>2, <2>2, <2>4, BehindIs
  <2>6. /\ Len(upto) = q + n /\ Alike(doc, upto, last, q, n)
        /\ \A i \in 1 .. q : upto[i] = w[i]
    BY <2>1, <2>4, <2>5, BehindKept
  <2>7. Alike(doc, now, last, q, n)
    <3>1. \A i \in 1 .. n : q + i \in 1 .. q + n
      BY <2>2, <2>4
    <3> QED BY <1>4, <2>6, <3>1 DEF Alike
  <2>8. q + n <= Len(now) /\ q \in Offsets(now)
    BY <1>4, <2>2, <2>4, <2>6 DEF Offsets
  <2>9. \A i \in 1 .. q : now[i] = w[i]
    <3>1. \A i \in 1 .. q : i \in 1 .. q + n
      BY <2>2, <2>4
    <3> QED BY <1>4, <2>6, <3>1
  <2>19. PICK front : front = UpTo(doc, cs, first)
    OBVIOUS
  <2>10. PICK r \in Seq(Nat) : w = front \o r /\ Calm(r)
    <3>1. \E r \in Seq(Nat) : With(doc, cs, last) = UpTo(doc, cs, first) \o r /\ Calm(r)
      BY <1>6, StaysOnLine
    <3> QED BY <2>1, <2>19, <3>1
  <2>11. Len(front) = first /\ front \in Seq(Nat) /\ \A i \in 1 .. first : front[i] = doc[i]
    <3>1. first \in 0 .. first
      BY <1>1
    <3> QED BY <2>19, <3>1, FrontKept
  <2>12. PICK c : c = Len(r)
    OBVIOUS
  <2>13. /\ c \in Nat /\ q = first + c
         /\ \A i \in 1 .. first + c : w[i] = IF i <= first THEN front[i] ELSE r[i - first]
    <3>1. front \in Seq(Nat)
      BY <2>11
    <3>2. c \in Nat
      BY <2>12
    <3>3. /\ Len(front \o r) = Len(front) + Len(r)
          /\ \A i \in 1 .. Len(front) + Len(r) :
               (front \o r)[i] = IF i <= Len(front) THEN front[i] ELSE r[i - Len(front)]
      BY <3>1, Concats
    <3> QED BY <2>1, <2>10, <2>11, <2>12, <3>2, <3>3
  <2>14. LineAt(now, 0 + first) = LineAt(doc, 0 + first)
    <3>1. LineAt(now, 0) = LineAt(doc, 0)
      BY LineAtStart
    <3>2. ASSUME NEW i \in 1 .. first PROVE now[i] = doc[i]
      <4>1. i \in 1 .. q /\ i \in 1 .. first + c /\ i <= first
        BY <1>1, <2>13
      <4> QED BY <2>9, <2>11, <2>13, <4>1
    <3>3. Alike(doc, now, 0, 0, first)
      BY <1>1, <3>2 DEF Alike
    <3> QED BY <1>1, <3>1, <3>3, LinesFollow
  <2>15. LineAt(now, first + c) = LineAt(now, first)
    <3>1. ASSUME NEW i \in 1 .. c PROVE now[first + i] # Break
      <4>1. first + i \in 1 .. q /\ first + i \in 1 .. first + c /\ ~(first + i <= first)
            /\ (first + i) - first = i
        BY <1>1, <2>13
      <4>2. now[first + i] = r[i]
        BY <2>9, <2>13, <4>1
      <4>3. r[i] # Break
        BY <2>10, <2>12 DEF Calm
      <4> QED BY <4>2, <4>3
    <3> QED BY <1>1, <2>13, <3>1, LineStays
  <2>16. LineAt(now, q) = LineAt(doc, last)
    <3>1. 0 + first = first
      BY <1>1
    <3> QED BY <1>6, <2>13, <2>14, <2>15, <3>1
  <2>17. o \in last .. last + n
    BY <1>1, <2>4
  <2>18. posToOffset(now, offsetToPos(doc, o)) = q + (o - last)
    <3>1. now \in Seq(Nat)
      BY <1>4
    <3>2. LineAt(doc, last) < LineAt(doc, o)
      BY <1>6
    <3> QED BY <1>1, <2>4, <2>7, <2>8, <2>16, <2>17, <3>1, <3>2, PositionMoves
  <2> QED BY <1>2, <2>2, <2>18
<1> QED BY <1>5, <1>6 DEF Beside

-----------------------------------------------------------------------------
(* Edits, one after another *)

\* The edit is that of the document from a to b.
IsEditOf(doc, edit, a, b) ==
    /\ edit.span = Span(offsetToPos(doc, a), offsetToPos(doc, b))
    /\ InText([from |-> a, to |-> b], doc)

\* The change that an edit is of a text, whether it can be made, and what it gives.
Doing(doc, edit) ==
    LET from == posToOffsetOrZero(doc, edit.span.start)
    IN Change(from, EditTo(from, posToOffset(doc, edit.span.end)), edit.insert)
Fits(doc, edit) == Doing(doc, edit).from <= Doing(doc, edit).to
Done(doc, edit) == ApplyAll(doc, <<Doing(doc, edit)>>)

LEMMA EditOfHas ==
    ASSUME NEW doc \in Seq(Nat), NEW edit, NEW a, NEW b, IsEditOf(doc, edit, a, b)
    PROVE  /\ a \in Offsets(doc) /\ b \in Offsets(doc) /\ a \in Nat /\ b \in Nat /\ a <= b
           /\ edit.span.start = offsetToPos(doc, a) /\ edit.span.end = offsetToPos(doc, b)
BY DEF IsEditOf, InText, Offsets, Span

\* In the document that it is meant for, it is the change from a to b.
LEMMA ChangeIs ==
    ASSUME NEW doc \in Seq(Nat), NEW edit, NEW a, NEW b, IsEditOf(doc, edit, a, b)
    PROVE  ChangeOf(doc, edit) = Change(a, b, edit.insert)
<1>1. a # Undefined /\ b # Undefined
  BY EditOfHas DEF Undefined
<1>2. posToOffset(doc, edit.span.start) = a
  <2>1. posToOffset(doc, offsetToPos(doc, a)) = a
    BY EditOfHas, offsetToPosType
  <2> QED BY <2>1, EditOfHas
<1>3. posToOffset(doc, edit.span.end) = b
  <2>1. posToOffset(doc, offsetToPos(doc, b)) = b
    BY EditOfHas, offsetToPosType
  <2> QED BY <2>1, EditOfHas
<1> QED BY <1>1, <1>2, <1>3 DEF ChangeOf, posToOffsetOrZero

\* In a text that others have made, which leave what is before its ends as the item's own changes
\* do, it gives what it would at once with them.
LEMMA EditAfter ==
    ASSUME NEW doc \in Seq(Nat), NEW own, NEW first, NEW last, Around(doc, own, first, last),
           NEW edit, NEW a, NEW b, IsEditOf(doc, edit, a, b),
           Beside(doc, own, first, last, a), Beside(doc, own, first, last, b),
           NEW cs, NEW more, NEW c, c = Change(a, b, edit.insert), Within(cs, doc), Within(more, doc),
           Extends(cs, c, more), Clear(cs, c),
           UpTo(doc, cs, a) = UpTo(doc, own, a), UpTo(doc, cs, b) = UpTo(doc, own, b),
           NEW now, now = ApplyAll(doc, cs)
    PROVE  Fits(now, edit) /\ Done(now, edit) = ApplyAll(doc, more)
<1>1. /\ a \in Offsets(doc) /\ b \in Offsets(doc) /\ a <= b
      /\ edit.span.start = offsetToPos(doc, a) /\ edit.span.end = offsetToPos(doc, b)
  BY EditOfHas
<1>2. IsChanges(cs)
  BY DEF Within
<1>3. posToOffset(now, edit.span.start) = Len(UpTo(doc, cs, a))
  <2>1. Begins(UpTo(doc, own, a), now)
    BY <1>1, <1>2, AppliedFront
  <2> QED BY <1>1, <2>1, PlaceThen
<1>4. posToOffset(now, edit.span.end) = Len(UpTo(doc, cs, b))
  <2>1. Begins(UpTo(doc, own, b), now)
    BY <1>1, <1>2, AppliedFront
  <2> QED BY <1>1, <2>1, PlaceThen
<1>5. PICK x, y : x = Len(UpTo(doc, cs, a)) /\ y = Len(UpTo(doc, cs, b))
  OBVIOUS
<1>6. x \in Nat /\ y \in Nat /\ x <= y
  <2>1. UpTo(doc, cs, a) \in Seq(Nat)
    BY <1>1, <1>2, UpToType
  <2>2. UpTo(doc, cs, b) \in Seq(Nat)
    BY <1>1, <1>2, UpToType
  <2>3. Len(UpTo(doc, cs, a)) <= Len(UpTo(doc, cs, b))
    BY <1>1, <1>2, UpToGrows
  <2> QED BY <1>5, <2>1, <2>2, <2>3
<1>7. PICK d : d = Doing(now, edit)
  OBVIOUS
<1>8. d = Change(x, y, edit.insert)
  <2>1. x # Undefined /\ y # Undefined
    BY <1>6 DEF Undefined
  <2> QED BY <1>3, <1>4, <1>5, <1>7, <2>1 DEF Doing, posToOffsetOrZero, EditTo
<1>9. c.from = a /\ c.to = b /\ c.insert = edit.insert
  BY DEF Change
<1>10. d = Change(Len(UpTo(doc, cs, c.from)), Len(UpTo(doc, cs, c.to)), c.insert)
  BY <1>5, <1>8, <1>9
<1>11. ApplyAll(now, <<d>>) = ApplyAll(doc, more)
  BY <1>10, OneAfterOthers
<1>12. d.from <= d.to
  BY <1>6, <1>8 DEF Change
<1> QED BY <1>7, <1>11, <1>12 DEF Fits, Done

Fit(C, doc) == \A c \in C : InText(c, doc) /\ c.insert \in Seq(Nat) /\ Len(c.insert) <= 1
Followed(cs, news, more) ==
    /\ Len(more) = Len(cs) + Len(news)
    /\ \A i \in 1 .. Len(cs) : more[i] = cs[i]
    /\ \A i \in 1 .. Len(news) : more[Len(cs) + i] = news[i]

LEMMA MoreWithin ==
    ASSUME NEW doc \in Seq(Nat), NEW cs, Within(cs, doc), NEW C, NEW news \in Seq(C), NEW more,
           more = cs \o news, Fit(C, doc)
    PROVE  Within(more, doc) /\ Followed(cs, news, more)
<1>1. PICK n, m : n = Len(cs) /\ m = Len(news)
  OBVIOUS
<1>2. cs \in Seq(Range(cs)) /\ n \in Nat /\ m \in Nat /\ DOMAIN cs = 1 .. n
  BY <1>1 DEF Within, IsChanges
<1>3. /\ Len(more) = n + m /\ DOMAIN more = 1 .. n + m
      /\ \A i \in 1 .. n + m : more[i] = IF i <= n THEN cs[i] ELSE news[i - n]
  BY <1>1, <1>2
<1>4. \A i \in 1 .. n : i \in 1 .. n + m /\ i <= n
  BY <1>2
<1>5. \A i \in 1 .. m : n + i \in 1 .. n + m /\ ~(n + i <= n) /\ (n + i) - n = i
  BY <1>2
<1>6. \A i \in 1 .. n : more[i] = cs[i]
  BY <1>3, <1>4
<1>7. \A i \in 1 .. m : more[n + i] = news[i]
  BY <1>3, <1>5
<1>8. ASSUME NEW i \in 1 .. n + m
      PROVE  InText(more[i], doc) /\ more[i].insert \in Seq(Nat) /\ Len(more[i].insert) <= 1
  <2>1. CASE i <= n
    <3>1. i \in DOMAIN cs /\ more[i] = cs[i]
      BY <1>2, <1>3, <2>1
    <3> QED BY <3>1 DEF Within, IsChanges, IsShort
  <2>2. CASE ~(i <= n)
    <3>1. i - n \in 1 .. m /\ more[i] = news[i - n]
      BY <1>2, <1>3, <2>2
    <3>2. more[i] \in C
      BY <1>1, <3>1
    <3> QED BY <3>2 DEF Fit
  <2> QED BY <2>1, <2>2
<1>9. more \in Seq(Range(more))
  <2>1. PICK R : R = Range(more)
    OBVIOUS
  <2>2. \A i \in 1 .. n + m : more[i] \in R
    BY <1>3, <2>1 DEF Range
  <2>3. PICK U : U = Range(cs) \cup C
    OBVIOUS
  <2>4. cs \in Seq(U)
    BY <1>2, <2>3
  <2>5. news \in Seq(U)
    BY <2>3
  <2>6. more \in Seq(U)
    BY <2>4, <2>5, ConcatProperties
  <2>7. n + m \in Nat
    BY <1>2
  <2>8. more \in Seq(R)
    <3>1. PICK size : size = n + m
      OBVIOUS
    <3>7. PICK f : f = [i \in 1 .. size |-> more[i]]
      OBVIOUS
    <3>2. size \in Nat
      BY <2>7, <3>1
    <3>3. \A i \in 1 .. size : more[i] \in R /\ more[i] \in U
      BY <1>3, <2>2, <2>6, <3>1
    <3>4. /\ f \in Seq(R) /\ f \in Seq(U) /\ Len(f) = size
          /\ \A i \in 1 .. size : f[i] = more[i]
      <4>1. f \in [1 .. size -> R]
        BY <3>3, <3>7
      <4>2. f \in Seq(R) /\ Len(f) = size
        BY <3>2, <4>1
      <4>3. f \in [1 .. size -> U]
        BY <3>3, <3>7
      <4>4. f \in Seq(U)
        BY <3>2, <4>3
      <4> QED BY <3>7, <4>2, <4>4
    <3>5. Len(more) = size
      BY <1>3, <3>1
    <3>6. f = more
      BY <2>6, <3>4, <3>5, SeqEqual
    <3> QED BY <3>4, <3>6
  <2> QED BY <2>1, <2>8
<1>10. Within(more, doc)
  BY <1>3, <1>8, <1>9 DEF Within, IsChanges, IsShort
<1> QED BY <1>1, <1>3, <1>6, <1>7, <1>10 DEF Followed

\* The first edit.
LEMMA FirstEdit ==
    ASSUME NEW doc \in Seq(Nat), NEW own, NEW first, NEW last, Around(doc, own, first, last),
           NEW edit, NEW a, NEW b, IsEditOf(doc, edit, a, b), b < first \/ last < a,
           Beside(doc, own, first, last, a), Beside(doc, own, first, last, b),
           NEW one, NEW c, c = Change(a, b, edit.insert), Within(one, doc), Extends(own, c, one)
    PROVE  /\ Clear(own, c) /\ Fits(ApplyAll(doc, own), edit)
           /\ Done(ApplyAll(doc, own), edit) = ApplyAll(doc, one)
<1>1. c.from = a /\ c.to = b /\ a \in Nat /\ b \in Nat
  BY EditOfHas DEF Change
<1>2. /\ first \in Nat /\ last \in Nat
      /\ \A i \in DOMAIN own : own[i].from = first /\ own[i].to \in Nat /\ own[i].to <= last
  BY AroundHas
<1>3. Clear(own, c)
  BY <1>1, <1>2 DEF Clear
<1>4. Within(own, doc)
  BY DEF Around
<1>5. PICK now : now = ApplyAll(doc, own)
  OBVIOUS
<1>6. UpTo(doc, own, a) = UpTo(doc, own, a) /\ UpTo(doc, own, b) = UpTo(doc, own, b)
  OBVIOUS
<1>7. Fits(now, edit) /\ Done(now, edit) = ApplyAll(doc, one)
  BY <1>3, <1>4, <1>5, EditAfter
<1> QED BY <1>3, <1>5, <1>7

\* One change more leaves what is before it.
LEMMA BeforeChange ==
    ASSUME NEW doc, NEW cs, NEW c, NEW more, IsChanges(cs), IsChanges(more), Extends(cs, c, more),
           c.from \in Nat, c.to \in Nat, c.from <= c.to, NEW o \in Nat, o < c.from
    PROVE  UpTo(doc, more, o) = UpTo(doc, cs, o)
<1>1. ASSUME NEW froms, NEW j, j # c.to PROVE Inserted(more, froms, j) = Inserted(cs, froms, j)
  <2>1. PICK x : x = IF c.from \in froms /\ c.to = j THEN c.insert ELSE <<>>
    OBVIOUS
  <2>2. x = <<>>
    BY <1>1, <2>1
  <2>3. Inserted(more, froms, j) = Inserted(cs, froms, j) \o x
    BY <2>1, InsertedNext
  <2>4. Inserted(cs, froms, j) \in Seq(Nat)
    BY InsertedType
  <2> QED BY <2>2, <2>3, <2>4, ConcatEmptySeq
<1>2. ASSUME NEW k \in 1 .. o PROVE Piece(doc, more, k) = Piece(doc, cs, k)
  <2>1. k \in Nat /\ k # c.to /\ k - 1 # c.to /\ ~(c.from < k)
    OBVIOUS
  <2>2. Inserted(more, {k - 1}, k - 1) = Inserted(cs, {k - 1}, k - 1)
    BY <1>1, <2>1
  <2>3. Inserted(more, 0 .. k - 1, k) = Inserted(cs, 0 .. k - 1, k)
    BY <1>1, <2>1
  <2>4. Kept(doc, more, k) = Kept(doc, cs, k)
    BY <2>1, KeptNext
  <2> QED BY <2>2, <2>3, <2>4 DEF Piece
<1> QED BY <1>2, AlikeUpTo

\* The second edit, which is before the first.
LEMMA SecondEdit ==
    ASSUME NEW doc \in Seq(Nat), NEW own, NEW first, NEW last, Around(doc, own, first, last),
           NEW one, NEW d, Within(one, doc), Extends(own, d, one), InText(d, doc),
           NEW edit, NEW a, NEW b, IsEditOf(doc, edit, a, b), b < first \/ last < a, b < d.from,
           Beside(doc, own, first, last, a), Beside(doc, own, first, last, b),
           NEW two, NEW c, c = Change(a, b, edit.insert), Within(two, doc), Extends(one, c, two)
    PROVE  Fits(ApplyAll(doc, one), edit) /\ Done(ApplyAll(doc, one), edit) = ApplyAll(doc, two)
<1>1. /\ c.from = a /\ c.to = b /\ a \in Nat /\ b \in Nat /\ a <= b
      /\ d.from \in Nat /\ d.to \in Nat /\ d.from <= d.to /\ a < d.from
  BY EditOfHas DEF Change, InText, Offsets
<1>2. /\ first \in Nat /\ last \in Nat
      /\ \A i \in DOMAIN own : own[i].from = first /\ own[i].to \in Nat /\ own[i].to <= last
  BY AroundHas
<1>3. Within(own, doc) /\ IsChanges(own) /\ IsChanges(one)
  BY DEF Around, Within
<1>4. Clear(one, c)
  <2>1. DOMAIN own = 1 .. Len(own) /\ DOMAIN one = 1 .. Len(own) + 1 /\ Len(own) \in Nat
    BY <1>3, WithinHas DEF Extends
  <2>2. ASSUME NEW i \in DOMAIN one PROVE one[i].to < c.from \/ c.to < one[i].from
    <3>1. CASE i = Len(own) + 1
      BY <1>1, <3>1 DEF Extends
    <3>2. CASE i # Len(own) + 1
      <4>1. i \in DOMAIN own /\ one[i] = own[i]
        BY <2>1, <3>2 DEF Extends
      <4> QED BY <1>1, <1>2, <4>1
    <3> QED BY <3>1, <3>2
  <2> QED BY <2>2 DEF Clear
<1>5. UpTo(doc, one, a) = UpTo(doc, own, a)
  BY <1>1, <1>3, BeforeChange
<1>6. UpTo(doc, one, b) = UpTo(doc, own, b)
  BY <1>1, <1>3, BeforeChange
<1>7. PICK now : now = ApplyAll(doc, one)
  OBVIOUS
<1>8. Fits(now, edit) /\ Done(now, edit) = ApplyAll(doc, two)
  BY <1>4, <1>5, <1>6, <1>7, EditAfter
<1> QED BY <1>7, <1>8

-----------------------------------------------------------------------------
(* The order of edits *)

EndsLater(E, doc) == {ab \in E \X E : EndsBefore(ab[1], ab[2], doc)}

\* The edits of more, each at a place of its own, no one before one that ends later.
ArePut(sorted, more, doc, n, p) ==
    /\ \A k \in 1 .. n : p[k] \in 1 .. n
    /\ \A k, l \in 1 .. n : k # l => p[k] # p[l]
    /\ sorted = [k \in 1 .. n |-> more[p[k]]]
    /\ \A k, l \in 1 .. n : k < l => ~EndsBefore(sorted[l], sorted[k], doc)

LEMMA EditsPut ==
    ASSUME NEW E, \A edit \in E : IsEdit(edit), NEW doc \in Seq(Nat), NEW n \in Nat,
           NEW more \in [1 .. n -> E]
    PROVE  \E p : ArePut(SortedEdits(more, doc), more, doc, n, p)
<1>1. PICK R : R = EndsLater(E, doc)
  OBVIOUS
<1>2. \A a, b \in E : <<a, b>> \in R <=> EndsBefore(a, b, doc)
  BY <1>1 DEF EndsLater
<1>3. ASSUME NEW a \in E PROVE posToOffsetOrZero(doc, a.span.end) \in Nat
  <2>1. IsPosition(a.span.end)
    BY DEF IsEdit, IsSpan
  <2> QED BY <2>1, posToOffsetType DEF Offsets
<1>4. IsOrder(R, E)
  <2>1. ASSUME NEW a \in E, NEW b \in E, <<a, b>> \in R PROVE <<b, a>> \notin R
    <3>1. PICK x, y : x = posToOffsetOrZero(doc, a.span.end) /\ y = posToOffsetOrZero(doc, b.span.end)
      OBVIOUS
    <3>2. x \in Nat /\ y \in Nat
      BY <1>3, <3>1
    <3>3. x > y
      BY <1>2, <2>1, <3>1 DEF EndsBefore
    <3>4. ~(y > x)
      BY <3>2, <3>3
    <3> QED BY <1>2, <3>1, <3>4 DEF EndsBefore
  <2>2. ASSUME NEW a \in E, NEW b \in E, NEW c \in E, <<a, b>> \notin R, <<b, c>> \notin R
        PROVE  <<a, c>> \notin R
    <3>1. PICK x, y, z : /\ x = posToOffsetOrZero(doc, a.span.end) /\ y = posToOffsetOrZero(doc, b.span.end)
                         /\ z = posToOffsetOrZero(doc, c.span.end)
      OBVIOUS
    <3>2. x \in Nat /\ y \in Nat /\ z \in Nat
      BY <1>3, <3>1
    <3>3. ~(x > y) /\ ~(y > z)
      BY <1>2, <2>2, <3>1 DEF EndsBefore
    <3>4. ~(x > z)
      BY <3>2, <3>3
    <3> QED BY <1>2, <3>1, <3>4 DEF EndsBefore
  <2> QED BY <2>1, <2>2 DEF IsOrder
<1>5. more \in Seq(E) /\ DOMAIN more = 1 .. n
  OBVIOUS
<1>6. PICK place : place = [i \in DOMAIN more |-> 1 + Cardinality({j \in DOMAIN more :
                              \/ EndsBefore(more[j], more[i], doc)
                              \/ j < i /\ ~EndsBefore(more[i], more[j], doc)})]
  OBVIOUS
<1>7. SortedEdits(more, doc) = [k \in DOMAIN more |-> more[CHOOSE i \in DOMAIN more : place[i] = k]]
  BY <1>6 DEF SortedEdits, StableSort
<1>8. ASSUME NEW i \in DOMAIN more
      PROVE  place[i] = 1 + Cardinality({j \in DOMAIN more : Precedes(more, R, j, i)})
  <2>1. PICK A, B : /\ A = {j \in DOMAIN more : Precedes(more, R, j, i)}
                    /\ B = {j \in DOMAIN more : \/ EndsBefore(more[j], more[i], doc)
                                                \/ j < i /\ ~EndsBefore(more[i], more[j], doc)}
    OBVIOUS
  <2>2. ASSUME NEW j \in DOMAIN more
        PROVE  Precedes(more, R, j, i)
                 <=> EndsBefore(more[j], more[i], doc) \/ (j < i /\ ~EndsBefore(more[i], more[j], doc))
    <3>1. more[i] \in E /\ more[j] \in E
      BY <1>5
    <3> QED BY <1>2, <3>1 DEF Precedes
  <2>3. A = B
    BY <2>1, <2>2
  <2>4. place[i] = 1 + Cardinality(B)
    BY <1>6, <2>1
  <2> QED BY <2>1, <2>3, <2>4
<1>9. PICK sorted : sorted = SortedEdits(more, doc)
  OBVIOUS
<1>10. sorted = [k \in DOMAIN more |-> more[CHOOSE i \in DOMAIN more : place[i] = k]]
  BY <1>7, <1>9
<1>11. PICK p : Puts(more, sorted, R, p)
  BY <1>4, <1>5, <1>8, <1>10, StableSortPuts
<1>12. p \in Bijection(1 .. n, 1 .. n) /\ sorted = [k \in 1 .. n |-> more[p[k]]]
  BY <1>5, <1>11 DEF Puts
<1>13. ASSUME NEW k \in 1 .. n, NEW l \in 1 .. n, k < l PROVE ~EndsBefore(sorted[l], sorted[k], doc)
  <2>1. <<sorted[l], sorted[k]>> \notin R
    BY <1>5, <1>11, <1>13 DEF Puts
  <2>2. sorted \in Seq(E) /\ DOMAIN sorted = DOMAIN more
    BY <1>5, <1>11, PutsType
  <2>3. sorted[l] \in E /\ sorted[k] \in E
    BY <1>5, <2>2
  <2> QED BY <1>2, <2>1, <2>3
<1>14. /\ \A k \in 1 .. n : p[k] \in 1 .. n
       /\ \A k, l \in 1 .. n : k # l => p[k] # p[l]
  BY <1>12 DEF Bijection, Injection, Surjection, IsInjective
<1> QED BY <1>9, <1>12, <1>13, <1>14 DEF ArePut

-----------------------------------------------------------------------------
(* Where edits lead *)

\* The edits can be made, one after another, and the last one gives end.
Leads(doc, list, end) ==
    /\ Fits(doc, list[1])
    /\ Len(list) = 1 => Done(doc, list[1]) = end
    /\ Len(list) = 2 => /\ Fits(Done(doc, list[1]), list[2])
                          /\ Done(Done(doc, list[1]), list[2]) = end

\* On one side of the changes between first and last.
Sides(doc, cs, first, last, a, b) ==
    /\ b < first \/ last < a
    /\ Beside(doc, cs, first, last, a) /\ Beside(doc, cs, first, last, b)

\* Edits that are apart from the item's own changes, and the second before the first.
AreApart(doc, own, first, last, more, n, a, b) ==
    /\ n \in {1, 2} /\ Len(more) = n
    /\ \A k \in 1 .. n : /\ IsEditOf(doc, more[k], a[k], b[k])
                         /\ Sides(doc, own, first, last, a[k], b[k])
                         /\ more[k].insert \in Seq(Nat) /\ Len(more[k].insert) <= 1
    /\ n = 2 => b[2] < a[1]

LEMMA EditsLead ==
    ASSUME NEW doc \in Seq(Nat), NEW own, NEW first, NEW last, Around(doc, own, first, last),
           NEW more, NEW n, NEW a, NEW b, AreApart(doc, own, first, last, more, n, a, b),
           NEW changes, changes = [k \in 1 .. n |-> Change(a[k], b[k], more[k].insert)]
    PROVE  Leads(ApplyAll(doc, own), more, ApplyAll(doc, own \o changes))
<1>1. n \in {1, 2} /\ n \in Nat /\ Len(more) = n /\ 1 \in 1 .. n
  BY DEF AreApart
<1>2. PICK C : C = {changes[k] : k \in 1 .. n}
  OBVIOUS
<1>3. changes \in Seq(C) /\ Len(changes) = n
  <2>1. changes \in [1 .. n -> C]
    BY <1>2
  <2> QED BY <1>1, <2>1
<1>4. ASSUME NEW k \in 1 .. n
      PROVE  /\ changes[k] = Change(a[k], b[k], more[k].insert)
             /\ InText(changes[k], doc) /\ changes[k].insert \in Seq(Nat) /\ Len(changes[k].insert) <= 1
             /\ IsEditOf(doc, more[k], a[k], b[k]) /\ Sides(doc, own, first, last, a[k], b[k])
  <2>1. changes[k] = Change(a[k], b[k], more[k].insert)
    OBVIOUS
  <2>2. changes[k].from = a[k] /\ changes[k].to = b[k] /\ changes[k].insert = more[k].insert
    BY <2>1 DEF Change
  <2>3. IsEditOf(doc, more[k], a[k], b[k]) /\ Sides(doc, own, first, last, a[k], b[k])
        /\ more[k].insert \in Seq(Nat) /\ Len(more[k].insert) <= 1
    BY DEF AreApart
  <2>4. InText(changes[k], doc)
    <3>1. a[k] \in Offsets(doc) /\ b[k] \in Offsets(doc) /\ a[k] <= b[k]
      BY <2>3, EditOfHas
    <3> QED BY <2>2, <3>1 DEF InText
  <2> QED BY <2>1, <2>2, <2>3, <2>4
<1>5. Fit(C, doc)
  BY <1>2, <1>4 DEF Fit
<1>6. Within(own, doc) /\ Len(own) \in Nat
  BY WithinHas DEF Around
<1>7. PICK c, one, all : c = changes[1] /\ one = own \o <<c>> /\ all = own \o changes
  OBVIOUS
<1>8. c \in C /\ <<c>> \in Seq(C) /\ Len(<<c>>) = 1 /\ <<c>>[1] = c
  BY <1>1, <1>2, <1>7
<1>9. Within(one, doc) /\ Extends(own, c, one)
  <2>1. PICK news : news = <<c>>
    OBVIOUS
  <2>2. news \in Seq(C) /\ one = own \o news
    BY <1>7, <1>8, <2>1
  <2>3. Within(one, doc) /\ Followed(own, news, one)
    BY <1>5, <1>6, <2>2, MoreWithin
  <2>4. Len(news) = 1 /\ news[1] = c /\ 1 \in 1 .. Len(news)
    BY <1>8, <2>1
  <2> QED BY <2>3, <2>4 DEF Extends, Followed
<1>10. /\ Within(all, doc) /\ Len(all) = Len(own) + n
       /\ \A i \in 1 .. Len(own) : all[i] = own[i]
       /\ \A i \in 1 .. n : all[Len(own) + i] = changes[i]
  <2>1. Within(all, doc) /\ Followed(own, changes, all)
    BY <1>3, <1>5, <1>6, <1>7, MoreWithin
  <2> QED BY <1>3, <2>1 DEF Followed
<1>11. PICK now, then : now = ApplyAll(doc, own) /\ then = ApplyAll(doc, one)
  OBVIOUS
<1>12. PICK edit, from, to : edit = more[1] /\ from = a[1] /\ to = b[1]
  OBVIOUS
<1>13. /\ c = Change(from, to, edit.insert) /\ IsEditOf(doc, edit, from, to) /\ InText(c, doc)
       /\ Sides(doc, own, first, last, from, to)
  BY <1>1, <1>4, <1>7, <1>12
<1>14. Fits(now, edit) /\ Done(now, edit) = then
  BY <1>9, <1>11, <1>13, FirstEdit DEF Sides
<1>15. CASE n = 1
  <2>1. Extends(own, c, all)
    BY <1>1, <1>7, <1>10, <1>15 DEF Extends
  <2>2. Done(now, edit) = ApplyAll(doc, all)
    BY <1>10, <1>11, <1>13, <2>1, FirstEdit DEF Sides
  <2> QED BY <1>1, <1>7, <1>11, <1>12, <1>14, <1>15, <2>2 DEF Leads
<1>16. CASE n = 2
  <2>1. PICK next, d, start, end : next = more[2] /\ d = changes[2] /\ start = a[2] /\ end = b[2]
    OBVIOUS
  <2>2. 2 \in 1 .. n
    BY <1>16
  <2>3. /\ d = Change(start, end, next.insert) /\ IsEditOf(doc, next, start, end)
        /\ Sides(doc, own, first, last, start, end)
    BY <1>4, <2>1, <2>2
  <2>4. end < c.from
    <3>1. end < from
      BY <1>12, <1>16, <2>1 DEF AreApart
    <3>2. c.from = from
      BY <1>13 DEF Change
    <3> QED BY <3>1, <3>2
  <2>5. Extends(one, d, all)
    <3>1. PICK m : m = Len(own)
      OBVIOUS
    <3>2. /\ m \in Nat /\ Len(one) = m + 1 /\ Len(all) = m + 2 /\ one[m + 1] = c /\ all[m + 1] = c
          /\ all[m + 2] = d
      BY <1>1, <1>6, <1>7, <1>9, <1>10, <1>16, <2>1, <2>2, <3>1 DEF Extends
    <3>3. \A i \in 1 .. m : one[i] = all[i]
      BY <1>9, <1>10, <3>1 DEF Extends
    <3>4. \A i \in 1 .. m + 1 : i \in 1 .. m \/ i = m + 1
      BY <3>2
    <3>5. \A i \in 1 .. m + 1 : all[i] = one[i]
      BY <3>2, <3>3, <3>4
    <3>6. m + 2 = (m + 1) + 1
      BY <3>2
    <3> QED BY <3>2, <3>5, <3>6 DEF Extends
  <2>6. Fits(then, next) /\ Done(then, next) = ApplyAll(doc, all)
    BY <1>9, <1>10, <1>11, <1>13, <2>3, <2>4, <2>5, SecondEdit DEF Sides
  <2> QED BY <1>1, <1>7, <1>11, <1>12, <1>14, <1>16, <2>1, <2>6 DEF Leads
<1> QED BY <1>1, <1>15, <1>16

\* Of edits apart from each other, that which ends later when the item's own changes have been
\* made is the later one.
LEMMA EarlierSecond ==
    ASSUME NEW doc \in Seq(Nat), NEW own, NEW first, NEW last, Around(doc, own, first, last),
           NEW e, NEW a, NEW b, IsEditOf(doc, e, a, b), Sides(doc, own, first, last, a, b),
           NEW f, NEW c, NEW d, IsEditOf(doc, f, c, d), Sides(doc, own, first, last, c, d),
           b < c \/ d < a, ~EndsBefore(f, e, ApplyAll(doc, own))
    PROVE  d < a
<1> SUFFICES ASSUME b < c PROVE FALSE
  OBVIOUS
<1>1. /\ a \in Nat /\ b \in Nat /\ c \in Nat /\ d \in Nat /\ a <= b /\ c <= d
      /\ b \in Offsets(doc) /\ d \in Offsets(doc)
      /\ e.span.end = offsetToPos(doc, b) /\ f.span.end = offsetToPos(doc, d)
  BY EditOfHas
<1>2. b < d /\ IsChanges(own)
  BY <1>1 DEF Around, Within
<1>3. PICK now, x, y : now = ApplyAll(doc, own) /\ x = Len(UpTo(doc, own, b)) /\ y = Len(UpTo(doc, own, d))
  OBVIOUS
<1>4. x < y
  <2>1. Len(UpTo(doc, own, b)) < Len(UpTo(doc, own, d))
    BY <1>1, <1>2, BesideInOrder DEF Sides
  <2> QED BY <1>3, <2>1
<1>5. x \in Nat /\ y \in Nat
  <2>1. UpTo(doc, own, b) \in Seq(Nat)
    BY <1>1, <1>2, UpToType
  <2>2. UpTo(doc, own, d) \in Seq(Nat)
    BY <1>1, <1>2, UpToType
  <2> QED BY <1>3, <2>1, <2>2
<1>6. posToOffset(now, e.span.end) = x
  <2>1. Begins(UpTo(doc, own, b), now)
    BY <1>1, <1>2, <1>3, AppliedFront
  <2> QED BY <1>1, <1>3, <2>1, PlaceThen DEF Sides
<1>7. posToOffset(now, f.span.end) = y
  <2>1. Begins(UpTo(doc, own, d), now)
    BY <1>1, <1>2, <1>3, AppliedFront
  <2> QED BY <1>1, <1>3, <2>1, PlaceThen DEF Sides
<1>8. posToOffsetOrZero(now, e.span.end) = x /\ posToOffsetOrZero(now, f.span.end) = y
  BY <1>5, <1>6, <1>7 DEF posToOffsetOrZero, Undefined
<1>9. ~(y > x)
  BY <1>3, <1>8 DEF EndsBefore
<1> QED BY <1>4, <1>5, <1>9

-----------------------------------------------------------------------------
(* What is accepted *)

LEMMA ExtraIs ==
    ASSUME NEW doc \in Seq(Nat), NEW edit \in ExtrasOf(doc)
    PROVE  \E a, b : IsEditOf(doc, edit, a, b)
<1>1. CASE \E o \in Offsets(doc) : edit = Edit(doc, o, o, <<Fresh>>)
  <2>1. PICK o \in Offsets(doc) : edit = Edit(doc, o, o, <<Fresh>>)
    BY <1>1
  <2>2. IsEditOf(doc, edit, o, o)
    BY <2>1 DEF IsEditOf, InText, Edit, Offsets
  <2> QED BY <2>2
<1>2. CASE \E o \in 1 .. Len(doc) : edit = Edit(doc, o - 1, o, <<>>)
  <2>1. PICK o \in 1 .. Len(doc) : edit = Edit(doc, o - 1, o, <<>>)
    BY <1>2
  <2>2. IsEditOf(doc, edit, o - 1, o)
    BY <2>1 DEF IsEditOf, InText, Edit, Offsets
  <2> QED BY <2>2
<1> QED BY <1>1, <1>2 DEF ExtrasOf

\* The item's own changes are around where it begins and the last of them ends.
LEMMA OwnAround ==
    ASSUME TextInv, CompletionsInv, popup.open, popup.doc = text, MayChange(1),
           NEW insert \in Insertions, NEW own \in OwnChanges(insert),
           \A i \in DOMAIN own : own[i].from <= own[i].to,
           NEW first, NEW last, first = own[1].from, last = own[Len(own)].to
    PROVE  /\ Around(text, own, first, last)
           /\ \A i \in DOMAIN own : own[i].insert \in {insert, <<>>}
<1> DEFINE EditFrom(from, to) == ChangeOf(text, Edit(popup.doc, from, to, insert))
<1>1. text \in Seq(Nat) /\ popup.pos \in DOMAIN text /\ Len(text) \in Nat
  BY DEF TextInv, CompletionsInv
<1>2. popup.pos \in Offsets(text) /\ popup.pos - 1 \in Offsets(text) /\ popup.pos \in Nat
  BY <1>1 DEF Offsets
<1>3. IsInsert(insert)
  BY DEF Insertions, IsInsert
<1>4. /\ Sound(own) /\ 1 \in DOMAIN own
      /\ own[1].from \in Offsets(text) /\ own[1].to \in Offsets(text)
      /\ own[1].insert = insert
      /\ \A i \in DOMAIN own : own[i].from = own[1].from
  BY <1>3, OwnChangesType
<1>5. ASSUME NEW from \in Offsets(text), NEW to \in Offsets(text), from <= to
      PROVE  EditFrom(from, to) = Change(from, to, insert)
  <2>1. PICK edit : edit = Edit(text, from, to, insert)
    OBVIOUS
  <2>2. IsEditOf(text, edit, from, to) /\ edit.insert = insert
    BY <1>5, <2>1 DEF IsEditOf, InText, Edit
  <2> QED BY <1>1, <2>1, <2>2, ChangeIs
\* What is left to show.
<1>6. ASSUME DOMAIN own \in {{1}, {1, 2}}, last \in Offsets(text), own[1].to <= last,
             \A i \in DOMAIN own : own[i].to \in Offsets(text) /\ own[i].to <= last,
             \A i \in DOMAIN own : own[i].insert \in {insert, <<>>}
      PROVE  Around(text, own, first, last)
  <2>1. IsChanges(own) /\ IsShort(own)
    BY <1>4 DEF Sound, IsNew
  <2>2. \A i \in DOMAIN own : InText(own[i], text)
    BY <1>4, <1>6 DEF InText
  <2>3. Within(own, text)
    BY <2>1, <2>2 DEF Within
  <2>4. first \in Offsets(text) /\ first <= own[1].to /\ own[1].to \in Offsets(text)
    BY <1>4
  <2>5. first <= last
    BY <1>1, <1>6, <2>4 DEF Offsets
  <2>6. InText([from |-> first, to |-> last], text)
    BY <1>6, <2>4, <2>5 DEF InText
  <2> QED BY <1>4, <1>6, <2>3, <2>6 DEF Around
<1>7. ASSUME NEW c, own = <<c>> PROVE Around(text, own, first, last)
  <2>1. DOMAIN own = {1} /\ own[1] = c /\ Len(own) = 1
    BY <1>7
  <2>2. last = own[1].to /\ \A i \in DOMAIN own : i = 1
    BY <2>1
  <2>3. last \in Offsets(text) /\ last <= last
    BY <1>4, <2>2 DEF Offsets
  <2> QED BY <1>4, <1>6, <2>1, <2>2, <2>3
<1>8. CASE \E from \in {popup.pos - 1, popup.pos} : own = <<EditFrom(from, popup.pos)>>
  <2>1. PICK c : own = <<c>>
    BY <1>8
  <2>2. Around(text, own, first, last)
    BY <1>7, <2>1
  <2>3. \A i \in DOMAIN own : i = 1
    BY <2>1
  <2> QED BY <1>4, <2>2, <2>3
<1>9. CASE own = <<Change(popup.from, popup.to, insert)>>
  <2>1. PICK c : own = <<c>>
    BY <1>9
  <2>2. Around(text, own, first, last)
    BY <1>7, <2>1
  <2>3. \A i \in DOMAIN own : i = 1
    BY <2>1
  <2> QED BY <1>4, <2>2, <2>3
<1>10. CASE \E to \in {popup.pos, popup.pos + 1} \cap Offsets(popup.doc) :
              own = <<EditFrom(popup.pos - 1, popup.pos),
                      [EditFrom(popup.pos - 1, to) EXCEPT !.insert = <<>>]>>
  <2>1. PICK to \in {popup.pos, popup.pos + 1} \cap Offsets(popup.doc) :
          own = <<EditFrom(popup.pos - 1, popup.pos),
                  [EditFrom(popup.pos - 1, to) EXCEPT !.insert = <<>>]>>
    BY <1>10
  <2>2. to \in Offsets(text) /\ popup.pos <= to /\ popup.pos - 1 <= popup.pos /\ popup.pos - 1 <= to
    BY <1>2
  <2>3. EditFrom(popup.pos - 1, popup.pos) = Change(popup.pos - 1, popup.pos, insert)
    BY <1>2, <1>5, <2>2
  <2>4. EditFrom(popup.pos - 1, to) = Change(popup.pos - 1, to, insert)
    BY <1>2, <1>5, <2>2
  <2>5. PICK c, d : /\ c = Change(popup.pos - 1, popup.pos, insert)
                    /\ d = [Change(popup.pos - 1, to, insert) EXCEPT !.insert = <<>>]
    OBVIOUS
  <2>6. c.to = popup.pos /\ c.insert = insert /\ d.to = to /\ d.insert = <<>>
    BY <2>5 DEF Change
  <2>7. own = <<c, d>>
    BY <2>1, <2>3, <2>4, <2>5
  <2>8. DOMAIN own = {1, 2} /\ own[1] = c /\ own[2] = d /\ Len(own) = 2
    BY <2>7
  <2>9. last = to /\ \A i \in DOMAIN own : own[i] = c \/ own[i] = d
    BY <2>6, <2>8
  <2>10. to <= to
    BY <2>2 DEF Offsets
  <2>11. \A i \in DOMAIN own : own[i].to \in Offsets(text) /\ own[i].to <= last
    BY <1>2, <2>2, <2>6, <2>9, <2>10
  <2>12. \A i \in DOMAIN own : own[i].insert \in {insert, <<>>}
    BY <2>6, <2>9
  <2>13. Around(text, own, first, last)
    BY <1>6, <2>2, <2>6, <2>8, <2>9, <2>11, <2>12
  <2> QED BY <2>12, <2>13
<1> QED BY <1>8, <1>9, <1>10 DEF OwnChanges

LEMMA ApartSides ==
    ASSUME NEW own, NEW more, Apart(own, more), text \in Seq(Nat), NEW first, NEW last,
           first = own[1].from, last = own[Len(own)].to, Around(text, own, first, last),
           NEW insert, own[1].insert = insert, \A i \in DOMAIN own : own[i].insert \in {insert, <<>>},
           NEW i \in DOMAIN more, NEW a, NEW b, IsEditOf(text, more[i], a, b)
    PROVE  Sides(text, own, first, last, a, b)
<1>1. /\ a \in Nat /\ b \in Nat /\ a <= b /\ more[i].span.start = offsetToPos(text, a)
      /\ first \in Nat /\ last \in Nat /\ first <= last
  BY EditOfHas, AroundHas
<1>2. PICK edit : edit = more[i]
  OBVIOUS
<1>3. ChangeOf(text, edit).to = b
  <2>1. ChangeOf(text, edit) = Change(a, b, edit.insert)
    BY <1>2, ChangeIs
  <2> QED BY <2>1 DEF Change
<1>4. LineAt(text, first) = LineAt(text, last)
  BY DEF Apart
<1>5. \/ ChangeOf(text, edit).to < first
      \/ edit.span.start.line > offsetToPos(text, last).line /\ own[1].insert # <<Break>>
  BY <1>2 DEF Apart
<1>6. CASE b < first
  BY <1>1, <1>6 DEF Sides, Beside
<1>7. CASE edit.span.start.line > offsetToPos(text, last).line /\ own[1].insert # <<Break>>
  <2>1. LineAt(text, a) > LineAt(text, last)
    BY <1>1, <1>2, <1>7 DEF offsetToPos
  <2>2. LineAt(text, a) \in Nat /\ LineAt(text, b) \in Nat /\ LineAt(text, last) \in Nat
    BY <1>1, LineAtType
  <2>3. LineAt(text, a) <= LineAt(text, b)
    BY <1>1, LineAtGrows
  <2>4. LineAt(text, last) < LineAt(text, a) /\ LineAt(text, last) < LineAt(text, b)
    BY <2>1, <2>2, <2>3
  <2>5. last < a
    <3> SUFFICES ASSUME a <= last PROVE FALSE
      BY <1>1
    <3>1. LineAt(text, a) <= LineAt(text, last)
      BY <1>1, LineAtGrows
    <3> QED BY <2>1, <2>2, <3>1
  <2>6. <<Break>> # <<>>
    OBVIOUS
  <2>7. \A j \in DOMAIN own : own[j].insert # <<Break>>
    BY <1>7, <2>6
  <2> QED BY <1>4, <2>4, <2>5, <2>7 DEF Sides, Beside
<1> QED BY <1>3, <1>5, <1>6, <1>7

\* An item's additional edits lead to what the language server meant.
GoalInv == extras # <<>> /\ goal.known => Leads(text, extras, goal.doc)

LEMMA AcceptLeads == ASSUME TextInv, CompletionsInv, AcceptAny PROVE GoalInv'
<1> SUFFICES ASSUME extras' # <<>>, goal'.known PROVE Leads(text', extras', goal'.doc)
  BY DEF GoalInv
<1>0. PICK n \in 0 .. 2 : \E more \in [1 .. n -> ExtrasOf(popup.doc)] : Accept(more)
  BY DEF AcceptAny
<1>1. PICK more \in [1 .. n -> ExtrasOf(popup.doc)] : Accept(more)
  BY <1>0
<1>2. PICK insert \in Insertions : \E own \in OwnChanges(insert) :
        /\ \A i \in DOMAIN own : own[i].from <= own[i].to
        /\ LET cursor == own[1].from + Len(insert)
           IN Dispatch(Transaction(own, <<cursor, cursor>>, "none"))
        /\ extras' = Inserting(SortedEdits(more, text'))
        /\ goal' = IF more # <<>> /\ Apart(own, more)
                   THEN [known |-> TRUE,
                         doc |-> ApplyAll(text, own \o [i \in DOMAIN more |->
                                                          ChangeOf(text, extras'[i])])]
                   ELSE NoGoal
  BY <1>1 DEF Accept
<1>3. PICK own \in OwnChanges(insert) :
        /\ \A i \in DOMAIN own : own[i].from <= own[i].to
        /\ LET cursor == own[1].from + Len(insert)
           IN Dispatch(Transaction(own, <<cursor, cursor>>, "none"))
        /\ extras' = Inserting(SortedEdits(more, text'))
        /\ goal' = IF more # <<>> /\ Apart(own, more)
                   THEN [known |-> TRUE,
                         doc |-> ApplyAll(text, own \o [i \in DOMAIN more |->
                                                          ChangeOf(text, extras'[i])])]
                   ELSE NoGoal
  BY <1>2
<1>4. more # <<>> /\ Apart(own, more)
  BY <1>3 DEF NoGoal
<1>5. PICK changes : changes = [i \in DOMAIN more |-> ChangeOf(text, extras'[i])]
  OBVIOUS
<1>6. goal'.doc = ApplyAll(text, own \o changes)
  BY <1>3, <1>4, <1>5
<1>7. text' = ApplyAll(text, own)
  BY <1>3 DEF Dispatch, ViewUpdate, Transaction
<1>8. /\ text \in Seq(Nat) /\ popup.open /\ popup.doc = text /\ edits \in Nat /\ setup.changes \in Nat
      /\ edits + (1 + Len(more)) <= setup.changes
  BY <1>1, <1>4, SetupAssumption DEF TextInv, Accept, MayChange, Apart
<1>9. DOMAIN more = 1 .. n /\ Len(more) = n /\ n \in {1, 2} /\ n \in Nat
  <2>1. n = 0 => more = <<>>
    OBVIOUS
  <2>2. n \in {1, 2}
    BY <1>4, <2>1
  <2> QED BY <2>2
<1>10. MayChange(1)
  BY <1>8, <1>9 DEF MayChange
<1>11. PICK first, last : first = own[1].from /\ last = own[Len(own)].to
  OBVIOUS
<1>12. Around(text, own, first, last) /\ \A i \in DOMAIN own : own[i].insert \in {insert, <<>>}
  BY <1>3, <1>8, <1>10, <1>11, OwnAround
<1>13. own[1].insert = insert
  <2>1. IsInsert(insert)
    BY DEF Insertions, IsInsert
  <2> QED BY <1>8, <1>10, <2>1, OwnChangesType
\* The edits, in the order in which they are made.
<1>14. PICK E : E = ExtrasOf(text)
  OBVIOUS
<1>15. more \in [1 .. n -> E] /\ \A edit \in E : IsEdit(edit)
  BY <1>8, <1>14, ExtrasOfType
<1>16. PICK sorted : sorted = SortedEdits(more, text')
  OBVIOUS
<1>17. text' \in Seq(Nat)
  <2>1. IsChanges(own)
    BY <1>12, AroundHas, <1>8
  <2> QED BY <1>7, <1>8, <2>1, AppliedType
<1>18. PICK p : ArePut(sorted, more, text', n, p)
  <2>1. n \in Nat
    BY <1>9
  <2> QED BY <1>15, <1>16, <1>17, <2>1, EditsPut
<1>19. /\ \A k \in 1 .. n : p[k] \in 1 .. n
       /\ \A k, l \in 1 .. n : k # l => p[k] # p[l]
  BY <1>18 DEF ArePut
<1>20. sorted \in [1 .. n -> E] /\ \A k \in 1 .. n : sorted[k] = more[p[k]]
  BY <1>15, <1>18, <1>19 DEF ArePut
<1>21. PICK a : a = [k \in 1 .. n |-> CHOOSE x : \E y : IsEditOf(text, sorted[k], x, y)]
  OBVIOUS
<1>22. PICK b : b = [k \in 1 .. n |-> CHOOSE y : IsEditOf(text, sorted[k], a[k], y)]
  OBVIOUS
<1>23. ASSUME NEW k \in 1 .. n PROVE IsEditOf(text, sorted[k], a[k], b[k])
  <2>1. \E x, y : IsEditOf(text, sorted[k], x, y)
    BY <1>8, <1>14, <1>20, ExtraIs
  <2>2. \E y : IsEditOf(text, sorted[k], a[k], y)
    BY <1>21, <2>1
  <2> QED BY <1>22, <2>2
<1>24. ASSUME NEW k \in 1 .. n PROVE Sides(text, own, first, last, a[k], b[k])
  <2>1. p[k] \in DOMAIN more /\ IsEditOf(text, more[p[k]], a[k], b[k])
    BY <1>9, <1>19, <1>20, <1>23
  <2> QED BY <1>4, <1>8, <1>11, <1>12, <1>13, <2>1, ApartSides
<1>25. n = 2 => b[2] < a[1]
  <2> SUFFICES ASSUME n = 2 PROVE b[2] < a[1]
    OBVIOUS
  <2>1. 1 \in 1 .. n /\ 2 \in 1 .. n /\ 1 < 2 /\ 1 # 2
    OBVIOUS
  <2>2. PICK i, j : i = p[1] /\ j = p[2]
    OBVIOUS
  <2>3. i \in DOMAIN more /\ j \in DOMAIN more /\ i # j /\ sorted[1] = more[i] /\ sorted[2] = more[j]
    BY <1>9, <1>19, <1>20, <2>1, <2>2
  <2>4. \/ ChangeOf(text, more[i]).to < ChangeOf(text, more[j]).from
        \/ ChangeOf(text, more[j]).to < ChangeOf(text, more[i]).from
    BY <1>4, <2>3 DEF Apart
  <2>5. /\ ChangeOf(text, sorted[1]) = Change(a[1], b[1], sorted[1].insert)
        /\ ChangeOf(text, sorted[2]) = Change(a[2], b[2], sorted[2].insert)
    BY <1>8, <1>23, <2>1, ChangeIs
  <2>6. b[1] < a[2] \/ b[2] < a[1]
    BY <2>3, <2>4, <2>5 DEF Change
  <2>7. ~EndsBefore(sorted[2], sorted[1], ApplyAll(text, own))
    BY <1>7, <1>18, <2>1 DEF ArePut
  <2> QED BY <1>8, <1>12, <1>23, <1>24, <2>1, <2>6, <2>7, EarlierSecond
<1>26. PICK all : all = Inserting(sorted)
  OBVIOUS
<1>27. extras' = all /\ Len(all) = n /\ DOMAIN all = 1 .. n
  <2>1. Len(all) = n /\ DOMAIN all = 1 .. n
    BY <1>9, <1>15, <1>20, <1>26, InsertingType
  <2> QED BY <1>3, <1>16, <1>26, <2>1
<1>28. ASSUME NEW k \in 1 .. n
       PROVE  all[k].span = sorted[k].span /\ all[k].insert \in Seq(Nat) /\ Len(all[k].insert) <= 1
  <2>1. PICK edit, i : edit = sorted[k] /\ i = IF edit.insert = <<>> THEN <<>> ELSE <<Fresh + 2 * k>>
    OBVIOUS
  <2>2. all[k] = [edit EXCEPT !.insert = i] /\ IsEdit(edit)
    <3>1. DOMAIN sorted = 1 .. n
      BY <1>20
    <3> QED BY <1>15, <1>20, <1>26, <2>1, <3>1 DEF Inserting
  <2>3. all[k].insert = i /\ all[k].span = edit.span
    BY <2>2 DEF IsEdit
  <2>4. i \in Seq(Nat) /\ Len(i) <= 1
    <3>1. PICK c : c = Fresh + 2 * k
      OBVIOUS
    <3>2. c \in Nat
      <4>1. Fresh \in Nat /\ k \in Nat
        BY FreshType
      <4> QED BY <3>1, <4>1
    <3>3. i = <<>> \/ i = <<c>>
      BY <2>1, <3>1
    <3>4. CASE i = <<>>
      BY <3>4
    <3>5. CASE i = <<c>>
      BY <3>2, <3>5
    <3> QED BY <3>3, <3>4, <3>5
  <2> QED BY <2>1, <2>3, <2>4
<1>29. AreApart(text, own, first, last, all, n, a, b)
  <2>1. ASSUME NEW k \in 1 .. n PROVE IsEditOf(text, all[k], a[k], b[k])
    BY <1>23, <1>28 DEF IsEditOf
  <2> QED BY <1>9, <1>24, <1>25, <1>27, <1>28, <2>1 DEF AreApart
<1>30. changes = [k \in 1 .. n |-> Change(a[k], b[k], all[k].insert)]
  <2>1. ASSUME NEW k \in 1 .. n PROVE ChangeOf(text, all[k]) = Change(a[k], b[k], all[k].insert)
    <3>1. IsEditOf(text, all[k], a[k], b[k])
      BY <1>29 DEF AreApart
    <3> QED BY <1>8, <3>1, ChangeIs
  <2>2. changes = [k \in 1 .. n |-> ChangeOf(text, all[k])]
    BY <1>5, <1>9, <1>27
  <2> QED BY <2>1, <2>2
<1>31. Leads(ApplyAll(text, own), all, ApplyAll(text, own \o changes))
  BY <1>8, <1>12, <1>29, <1>30, EditsLead
<1> QED BY <1>6, <1>7, <1>27, <1>31

LEMMA ExtraLeads ==
    ASSUME ExtrasInv, GoalInv, AcceptNext
    PROVE  GoalInv' /\ (extras' = <<>> /\ goal.known => text' = goal.doc)
<1> SUFFICES ASSUME goal.known
             PROVE  /\ extras' # <<>> => Leads(text', extras', goal.doc)
                    /\ extras' = <<>> => text' = goal.doc
  BY DEF GoalInv, AcceptNext
<1>1. extras # <<>> /\ Leads(text, extras, goal.doc) /\ goal' = goal
  BY DEF GoalInv, AcceptNext
<1>2. PICK E : extras \in Seq(E)
  BY DEF ExtrasInv
<1>3. Len(extras) \in {1, 2} /\ 1 \in DOMAIN extras
  <2>1. Len(extras) <= 2
    BY DEF ExtrasInv
  <2>2. PICK list, n : list = extras /\ n = Len(list)
    OBVIOUS
  <2>3. list \in Seq(E) /\ list # <<>> /\ n <= 2
    BY <1>1, <1>2, <2>1, <2>2
  <2>4. n \in Nat /\ n # 0 /\ DOMAIN list = 1 .. n
    BY <2>2, <2>3
  <2>5. n \in {1, 2} /\ 1 \in 1 .. n
    BY <2>3, <2>4
  <2> QED BY <2>2, <2>4, <2>5
<1>4. PICK d : d = Doing(text, extras[1])
  OBVIOUS
<1>5. d.from <= d.to /\ d.from = posToOffsetOrZero(text, extras[1].span.start)
      /\ d.to = EditTo(d.from, posToOffset(text, extras[1].span.end))
      /\ d = Change(d.from, d.to, extras[1].insert)
  BY <1>1, <1>4 DEF Leads, Fits, Doing, Change
<1>6. /\ Dispatch(Transaction(<<Change(d.from, d.to, extras[1].insert)>>, <<>>, "none"))
      /\ extras' = Tail(extras)
  BY <1>5 DEF AcceptNext
<1>7. text' = Done(text, extras[1])
  <2>1. text' = ApplyAll(text, <<Change(d.from, d.to, extras[1].insert)>>)
    BY <1>6 DEF Dispatch, ViewUpdate, Transaction
  <2> QED BY <1>4, <1>5, <2>1 DEF Done
<1>10. PICK list, rest : list = extras /\ rest = Tail(list)
  OBVIOUS
<1>11. /\ list \in Seq(E) /\ Len(list) \in {1, 2} /\ rest \in Seq(E) /\ Len(rest) = Len(list) - 1
       /\ \A i \in 1 .. Len(rest) : rest[i] = list[i + 1]
  <2>1. list \in Seq(E) /\ Len(list) \in {1, 2} /\ list # <<>>
    BY <1>1, <1>2, <1>3, <1>10
  <2> QED BY <1>10, <2>1
<1>8. CASE Len(extras) = 1
  <2>1. extras' = <<>>
    <3>1. Len(list) = 1
      BY <1>8, <1>10
    <3>2. Len(rest) = 0
      BY <1>11, <3>1
    <3>3. rest = <<>>
      BY <1>11, <3>2
    <3> QED BY <1>6, <1>10, <3>3
  <2>2. text' = goal.doc
    BY <1>1, <1>7, <1>8 DEF Leads
  <2> QED BY <2>1, <2>2
<1>9. CASE Len(extras) = 2
  <2>1. Len(extras') = 1 /\ extras'[1] = extras[2] /\ extras' # <<>>
    <3>1. Len(list) = 2
      BY <1>9, <1>10
    <3>2. Len(rest) = 1 /\ 1 \in 1 .. Len(rest)
      BY <1>11, <3>1
    <3>3. rest[1] = list[2]
      BY <1>11, <3>2
    <3>4. rest # <<>>
      BY <1>11, <3>2
    <3> QED BY <1>6, <1>10, <3>2, <3>3, <3>4
  <2>2. Fits(text', extras[2]) /\ Done(text', extras[2]) = goal.doc
    BY <1>1, <1>7, <1>9 DEF Leads
  <2>3. Leads(text', extras', goal.doc)
    BY <2>1, <2>2 DEF Leads
  <2> QED BY <2>1, <2>3
<1> QED BY <1>3, <1>8, <1>9

LEMMA GoalKeeps ==
    ASSUME PlacesInv, GoalInv, [Next]_vars
    PROVE  GoalInv' /\ (extras # <<>> /\ extras' = <<>> /\ goal.known => text' = goal.doc)
<1>1. CASE AcceptNext
  BY <1>1, ExtraLeads DEF PlacesInv
<1>2. CASE AcceptAny /\ extras = <<>>
  BY <1>2, AcceptLeads DEF PlacesInv
<1>3. CASE extras = <<>> /\ UNCHANGED acceptanceVars
  BY <1>3 DEF GoalInv, acceptanceVars
<1>4. CASE UNCHANGED acceptanceVars /\ text' = text
  BY <1>4 DEF GoalInv, acceptanceVars
<1>5. CASE Continuation
  <2>1. CASE AcceptNext
    BY <1>1, <2>1
  <2>2. CASE /\ (\E n \in Requests : SignatureLocks(n)) \/ CompletionLocks
             /\ UNCHANGED commandVars
    <3>1. ViewKept
      BY <2>2, OwnSteps
    <3> QED BY <1>4, <2>2, <3>1 DEF ViewKept, commandVars
  <2>3. CASE (\E n \in Finds : FindLocks(n)) /\ UNCHANGED acceptanceVars
    <3>1. text' = text
      BY <2>3 DEF FindLocks, DispatchNothing, ViewKept
    <3> QED BY <1>4, <2>3, <3>1
  <2> QED BY <1>5, <2>1, <2>2, <2>3 DEF Continuation
<1>6. CASE Quiescent /\ Event
  <2>1. extras = <<>>
    BY <1>6 DEF Quiescent
  <2>2. CASE AcceptAny
    BY <1>2, <2>1, <2>2
  <2>3. CASE UNCHANGED acceptanceVars
    BY <1>3, <2>1, <2>3
  <2>4. AcceptAny \/ UNCHANGED acceptanceVars
    BY <1>6 DEF Event, Type, Delete, Move, Foreign, User, commandVars
  <2> QED BY <2>2, <2>3, <2>4
<1>7. CASE UNCHANGED vars
  BY <1>4, <1>7 DEF vars, viewVars
<1> QED BY <1>5, <1>6, <1>7 DEF Next

\* When they are apart, on lines of their own or before what the item itself changes, an item's
\* additional edits, made one after another, the later ones first, each in the text that the others
\* have left, give what all would at once (completions.ts:249-300).
THEOREM EditsAreAsAtOnce == Spec => EditsAsIfAtOnce
<1>1. Init => GoalInv
  BY DEF Init, AcceptanceInit, GoalInv
<1>2. PlacesInv /\ GoalInv /\ [Next]_vars => GoalInv'
  BY GoalKeeps
<1>3. PlacesInv /\ GoalInv /\ [Next]_vars
        => [extras # <<>> /\ extras' = <<>> /\ goal.known => text' = goal.doc]_<<viewVars, extras>>
  BY GoalKeeps
<1> QED BY <1>1, <1>2, <1>3, PlacesStart, PlacesKeep, PTL DEF Spec, EditsAsIfAtOnce
=============================================================================
