----------------------------- MODULE InlayHints -----------------------------
(***************************************************************************)
(* Inlay hints (inlayHints.ts): after a pause in the edits the hints of    *)
(* the whole document are asked for, without the document lock, by a       *)
(* queue that sends one request at a time.                                 *)
(***************************************************************************)
EXTENDS View

CONSTANTS
    ClearOnEdit,  \* clearOnEdit
    MaxJobs       \* bound: jobs in #requestQueue at a time

ASSUME ClearAssumption == ClearOnEdit \in BOOLEAN
ASSUME JobAssumption == MaxJobs \in Nat \ {0}

VARIABLES
    refresh,  \* the timeout #debounceTimeoutId is pending
    jobs,     \* #requestQueue, those that run included
    hints     \* inlayHints, and the last job that is over

hintVars == <<refresh, jobs, hints>>

\* A job: endOfDocPos, whether it runs; history: the edits there were when it
\* began, and those the language server had been sent by then.
NewJob(end) == [end |-> end, runs |-> FALSE, edits |-> 0, sent |-> 0]
Jobs == [end : -1 .. Len(setup.text) + 2 * MaxEdits, runs : BOOLEAN,
         edits : 0 .. MaxEdits, sent : 0 .. MaxEdits]

\* of: the text the hints are of, 0 for null; cleared since then; edits, sent: those of
\* the last job that had an answer, and whether its request failed.
InlayHintsTypeOK ==
    /\ refresh \in BOOLEAN
    /\ jobs \in Seq(Jobs) /\ Len(jobs) <= MaxJobs
    /\ hints \in [of : 0 .. MaxEdits + 1, cleared : BOOLEAN,
                  edits : -1 .. MaxEdits, sent : 0 .. MaxEdits, failed : BOOLEAN]

\* The constructor asks for the first hints.
InlayHintsInit ==
    /\ refresh = Enabled("inlayHints")
    /\ jobs = <<>>
    /\ hints = [of |-> 0, cleared |-> FALSE, edits |-> -1, sent |-> 0,
                failed |-> FALSE]

-----------------------------------------------------------------------------

HintsTimeoutOnce(tr) == refresh \/ (DocChanged(tr) /\ jobs = <<>>)
HintsTimeout(tr) == refresh \/ DocChanged(tr)

\* The plugin's update for tr.
InlayHintsUpdate(tr) ==
    IF ~Enabled("inlayHints") THEN UNCHANGED hintVars
    ELSE /\ refresh' = HintsTimeout(tr)
         /\ hints' = [hints EXCEPT !.cleared = @ \/ (ClearOnEdit /\ DocChanged(tr))]
         /\ UNCHANGED jobs

\* The debounce timeout: the end of the document is taken now, and used when the
\* job runs.
HintsRefresh ==
    /\ refresh
    /\ Len(jobs) < MaxJobs
    /\ refresh' = FALSE
    /\ jobs' = Append(jobs, NewJob(Len(text) - 1))
    /\ UNCHANGED hints
    /\ ViewKept /\ LockKept

\* PQueue({ concurrency: 1 })
MayRunAtOnce(i) == TRUE
MayRun(i) == \A j \in DOMAIN jobs : ~jobs[j].runs

Without(i) == SubSeq(jobs, 1, i - 1) \o SubSeq(jobs, i + 1, Len(jobs))

Over(i, failed) ==
    [hints EXCEPT !.edits = jobs[i].edits, !.sent = jobs[i].sent, !.failed = failed]

\* The queue runs a job: its request, of what the language server has by now.
\* offsetToPos throws if the document does not have that end.
HintsRequest(i) ==
    /\ i \in DOMAIN jobs
    /\ ~jobs[i].runs
    /\ \A j \in 1 .. i - 1 : jobs[j].runs
    /\ MayRun(i)
    /\ IF Throws(text, jobs[i].end)
       THEN jobs' = Without(i)
       ELSE jobs' = [jobs EXCEPT ![i].runs = TRUE, ![i].edits = edits, ![i].sent = sent]
    /\ UNCHANGED <<refresh, hints>>
    /\ ViewKept /\ LockKept

\* The answer, null or hints, is shown by an empty transaction; or the request fails.
HintsAnswer(i) ==
    /\ i \in DOMAIN jobs
    /\ jobs[i].runs
    /\ jobs' = Without(i)
    /\ \/ hints' = [Over(i, FALSE) EXCEPT !.of = jobs[i].sent + 1, !.cleared = FALSE]
       \/ hints' = Over(i, TRUE)
    /\ UNCHANGED refresh
    /\ ViewKept /\ LockKept

InlayHintsStep ==
    \/ HintsRefresh
    \/ \E i \in 1 .. MaxJobs : HintsRequest(i) \/ HintsAnswer(i)

-----------------------------------------------------------------------------
(* Properties *)

\* "we want to make sure we apply them in the order we sent them, not the order
\* they return" (inlayHints.ts:60-62): the hints shown are never of an earlier
\* text than those before.
HintsInOrder == [][hints'.of >= hints.of]_hints

\* Hints "only start showing up after this long" (inlayHints.ts:40): the hints shown
\* in the end are those of the last text, however edits, timeouts and answers
\* alternate, unless the request failed, the document is empty, or an extension's
\* lock held the last text back when it was asked about (99-111).
HintsRefreshed ==
    <>[](Enabled("inlayHints") =>
            \/ text = <<>>
            \/ hints.edits = edits /\ hints.failed
            \/ hints.edits = edits /\ hints.sent < edits /\ setup.features # {"inlayHints"}
            \/ hints.of = edits + 1 /\ ~hints.cleared)
=============================================================================
