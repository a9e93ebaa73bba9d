----------------------------- MODULE Signatures -----------------------------
(***************************************************************************)
(* Signature help (signatures.ts): a request for each trigger character    *)
(* and, while the tooltip is shown, for a selection that has stayed where  *)
(* it is for a while; the tooltip at the position that was asked about.    *)
(***************************************************************************)
EXTENDS View

CONSTANTS
    MaxAttempts,   \* maxAttempts
    MaxRequests    \* bound: calls of startRequest

ASSUME AttemptAssumption == MaxAttempts \in Nat \ {0}
ASSUME RequestAssumption == MaxRequests \in Nat

Requests == 1 .. MaxRequests

\* What the language server knows: null, no signatures, or a signature and its
\* active parameter.
Null == <<>>
Results == {Null, <<"none">>} \cup ({"f", "g"} \X {0, 1})
Found(result) == Len(result) = 2

Stages == {"none", "delay", "locking", "asked", "over"}

VARIABLES
    started,   \* calls of startRequest so far
    request,   \* each call of startRequest, with its object {pos, drop}
    active,    \* activeRequest, 0 if null
    delayed,   \* the timeout delayedRequest is pending
    tooltip,   \* signatureState, and the request that set it
    moved      \* history: the calls of startRequest before the last selection

signatureVars == <<started, request, active, delayed, tooltip, moved>>

\* anchor is history: the character before the cursor.
NoRequest == [stage |-> "none", head |-> 0, pos |-> 0, drop |-> FALSE, attempts |-> 0,
              anchor |-> Break]
NoTooltip(n) == [by |-> n, data |-> Null, pos |-> 0, anchor |-> Break]

SignatureTypeOK ==
    /\ started \in 0 .. MaxRequests
    /\ request \in [Requests -> [stage : Stages, head : Nat \cup {Undefined},
                                 pos : Nat \cup {Undefined}, drop : BOOLEAN,
                                 attempts : 0 .. MaxAttempts, anchor : Nat]]
    /\ active \in 0 .. started
    /\ delayed \in BOOLEAN
    /\ tooltip \in [by : 0 .. started, data : Results, pos : Nat, anchor : Nat]
    /\ moved \in 0 .. started

SignatureInit ==
    /\ started = 0
    /\ request = [n \in Requests |-> NoRequest]
    /\ active = 0
    /\ delayed = FALSE
    /\ tooltip = NoTooltip(0)
    /\ moved = 0

Shown == tooltip.data # Null

-----------------------------------------------------------------------------
(* update, and startRequest up to its first await *)

\* A new selection drops the active request, a change moves its position.
UnselectedLeft(r, tr) == [r EXCEPT !.pos = Mapped(tr, @)]
Unselected(r, tr) ==
    IF SelectionSet(tr) THEN [r EXCEPT !.drop = TRUE] ELSE [r EXCEPT !.pos = Mapped(tr, @)]
Updated(tr) == [n \in Requests |-> IF n = active THEN Unselected(request[n], tr) ELSE request[n]]

\* Retrigger characters count while the tooltip is shown.
Triggers(tr) == DocChanged(tr) /\ (tr.typed = "trigger" \/ (tr.typed = "retrigger" /\ Shown))

\* A new request drops the one before.
Superseded(r) == [r EXCEPT !.drop = TRUE]

\* startRequest at offset head of doc, with the requests as an update left them.
StartRequest(requests, current, doc, head) ==
    /\ started' = started + 1
    /\ request' = [n \in Requests |->
                     IF n = started'
                     THEN [NoRequest EXCEPT !.stage = "delay", !.head = head, !.pos = head,
                                            !.anchor = IF head \in DOMAIN doc THEN doc[head] ELSE Break]
                     ELSE IF n = current THEN Superseded(requests[n]) ELSE requests[n]]
    /\ active' = started'
    /\ delayed' = FALSE

TooltipUnmapped(tr) == tooltip
TooltipMapped(tr) == [tooltip EXCEPT !.pos = IF Shown THEN Mapped(tr, @) ELSE @]

MayTrigger(tr) == Enabled("signatureHelp") /\ Triggers(tr) => started < MaxRequests

\* The plugin's update for tr, after the field's.
SignatureUpdate(tr) ==
    IF ~Enabled("signatureHelp") THEN UNCHANGED signatureVars
    ELSE LET current == IF SelectionSet(tr) THEN 0 ELSE active
         IN /\ tooltip' = TooltipMapped(tr)
            /\ moved' = IF SelectionSet(tr) THEN started ELSE moved
            /\ IF Triggers(tr)
               THEN StartRequest(Updated(tr), current, text', selection'[2])
               ELSE /\ request' = Updated(tr)
                    /\ active' = current
                    /\ delayed' = (delayed \/ (Shown /\ SelectionSet(tr)))
                    /\ UNCHANGED started

\* The timeout of 250 ms.
DelayedRequest ==
    /\ delayed
    /\ started < MaxRequests
    /\ StartRequest(request, active, text, Cursor)
    /\ ViewKept /\ LockKept
    /\ UNCHANGED <<tooltip, moved>>

-----------------------------------------------------------------------------
(* The rest of startRequest *)

Signature(n) == Waiter("signatureHelp", n)
Become(n, stage) == request' = [request EXCEPT ![n].stage = stage]

\* requestWithLock, for the position of an offset that may no longer be in the
\* document: offsetToPos throws, which ends the request.
Ask(n) ==
    \/ /\ Throws(text, request[n].head)
       /\ Become(n, "over") /\ LockKept
    \/ /\ ~Throws(text, request[n].head) /\ Synced
       /\ Become(n, "asked") /\ LockTaken
    \/ /\ ~Throws(text, request[n].head) /\ ~Synced
       /\ Become(n, "locking") /\ LockAwaited(Signature(n))

\* The timeout of 150 ms.
SignatureDelay(n) ==
    /\ request[n].stage = "delay"
    /\ ViewKept
    /\ Ask(n)
    /\ UNCHANGED <<started, active, delayed, tooltip, moved>>

\* Its changes are sent: requestWithLock goes on; or that failed, or was aborted.
SignatureLocks(n) ==
    /\ request[n].stage = "locking" /\ Resumes(Signature(n))
    /\ ViewKept
    /\ \/ Become(n, "asked") /\ LockTaken
       \/ Become(n, "over") /\ LockKept
    /\ UNCHANGED <<started, active, delayed, tooltip, moved>>

SameSignatures(a, b) == a[1] = b[1]

\* The tooltip that the result of request n leaves.
Result(n, result) ==
    LET r == request[n]
    IN IF r.drop THEN tooltip
       ELSE IF ~Found(result) THEN IF Shown THEN NoTooltip(n) ELSE tooltip
       ELSE IF tooltip.data = result THEN tooltip
       ELSE IF Found(tooltip.data) /\ SameSignatures(tooltip.data, result)
            THEN [tooltip EXCEPT !.by = n, !.data = result]
       ELSE [by |-> n, data |-> result, pos |-> r.pos, anchor |-> r.anchor]

Attempts(n) == request[n].attempts + 1

\* An answer: null is asked for again, maxAttempts times, with the lock once more.
SignatureAnswer(n) == \E result \in Results :
    /\ request[n].stage = "asked"
    /\ ViewKept
    /\ LET again == result = Null /\ Attempts(n) < MaxAttempts
           throws == again /\ Throws(text, request[n].head)
       IN /\ request' = [request EXCEPT ![n].attempts = Attempts(n),
                            ![n].stage = IF again /\ ~throws THEN "asked" ELSE "over"]
          /\ tooltip' = IF again THEN tooltip ELSE Result(n, result)
          /\ IF again /\ ~throws THEN LockRetaken ELSE LockLeft
    /\ UNCHANGED <<started, active, delayed, moved>>

\* requestWithLock throws: an error, or the lock's timeout.
SignatureFails(n) ==
    /\ request[n].stage = "asked"
    /\ ViewKept
    /\ Become(n, "over") /\ LockLeft
    /\ UNCHANGED <<started, active, delayed, tooltip, moved>>

SignatureStep ==
    \/ DelayedRequest
    \/ \E n \in Requests : SignatureDelay(n) \/ SignatureAnswer(n) \/ SignatureFails(n)

SignatureResumes == \E n \in Requests : request[n].stage = "locking" /\ Resumes(Signature(n))

-----------------------------------------------------------------------------
(* Properties *)

\* "lags a bit while the LSP is processing updates" (signatures.ts:27): only the
\* last request ever changes the tooltip, and only while the selection is what it
\* was when it was sent, however late the answers of others come (62-76, 127, 147).
LatestSignature ==
    [][<<tooltip'.by, tooltip'.data>> # <<tooltip.by, tooltip.data>> =>
         tooltip'.by = started /\ moved < started]_<<viewVars, signatureVars>>

\* "Display the signature tooltip for a specific position" (signatures.ts:270): it
\* stays behind the character that was before the cursor, wherever others edit
\* while it is asked for and shown, as long as that is there (71-75, 252-256).
TooltipStays ==
    /\ tooltip.pos \in Offsets(text)
    /\ \A i \in DOMAIN text : tooltip.anchor = text[i] /\ text[i] # Break => tooltip.pos = i

\* Every request is over in the end, although it is sent again and again while
\* there is no result (signatures.ts:131-145), unless the job it awaits is dropped.
SignaturesEnd ==
    \A n \in Requests :
        request[n].stage = "delay" ~> request[n].stage = "over" \/ Signature(n) \in stranded
=============================================================================
