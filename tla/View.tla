------------------------------- MODULE View -------------------------------
(***************************************************************************)
(* The editor view that the extensions of one plugin share: its document   *)
(* and selection, changed by transactions, and the document lock that      *)
(* requestWithLock takes.  DocSync models the lock and its queue step by   *)
(* step; here a call of syncChanges is one step.                           *)
(***************************************************************************)
EXTENDS Text

CONSTANTS
    Setups,   \* editors: the features that are not disabled, the document to begin
              \* with, bounds on the edits of the user and others, on all changes,
              \* and on the calls of handleFindReferences, and whether
              \* there are completions of all kinds
    MaxEdits  \* bound: transactions that change the document, in all setups

Features == {"signatureHelp", "inlayHints", "references", "renames", "contextMenu",
             "completion"}

ASSUME EditAssumption == MaxEdits \in Nat
ASSUME SetupAssumption ==
    \A s \in Setups : /\ s.features \subseteq Features
                      /\ s.text \in Seq(0 .. Len(s.text))
                      /\ \A i, j \in DOMAIN s.text : s.text[i] = s.text[j] => i = j \/ s.text[i] = Break
                      /\ s.edits \in 0 .. s.changes
                      /\ s.changes \in 0 .. MaxEdits /\ s.finds \in Nat
                      /\ s.sorting \in BOOLEAN

VARIABLES
    setup,      \* the editor
    text,       \* the document
    selection,  \* <<anchor, head>> of the main selection
    edits,      \* changes of the document so far
    sent,       \* those the language server has been sent
    known,      \* the document as it has it
    lastSent,   \* #lastSentChanges
    paused,     \* the sync queue is paused: somebody holds the lock
    held,       \* the job in the paused queue, by who awaits it
    stranded    \* those whose job was dropped from it: it never settles

syncVars == <<sent, known, lastSent, held, stranded>>
viewVars == <<setup, text, selection, edits, sent, known, lastSent, held, stranded, paused>>

Enabled(feature) == feature \in setup.features
Cursor == selection[2]

\* Who may await a job: a call of doWithLock of an extension; nobody awaits an
\* update's; or there is no job.
Waiter(feature, n) == <<feature, n>>
Waiters == Features \X Nat
Update == <<"update", 0>>
Nothing == <<"nothing", 0>>

ViewTypeOK ==
    /\ setup \in Setups
    /\ text \in Seq(Nat)
    /\ selection \in (Offsets(text) \cup {Undefined}) \X (Offsets(text) \cup {Undefined})
    /\ edits \in 0 .. MaxEdits
    /\ sent \in 0 .. edits
    /\ known \in Seq(Nat)
    /\ (sent = edits => known = text)
    /\ lastSent \in Seq(Nat)
    /\ paused \in BOOLEAN
    /\ held \in Waiters \cup {Update, Nothing}
    /\ stranded \subseteq Waiters

ViewInit ==
    /\ setup \in Setups
    /\ text = setup.text
    /\ selection = <<Len(text), Len(text)>>
    /\ edits = 0
    /\ sent = 0
    /\ known = setup.text
    /\ lastSent = <<>>
    /\ paused = FALSE
    /\ held = Nothing
    /\ stranded = {}

-----------------------------------------------------------------------------
(* Transactions: changes, the selection they set, if any, and the kind of  *)
(* character the user has typed.                                           *)

Kinds == {"none", "plain", "trigger", "retrigger"}

Transaction(changes, selects, typed) ==
    [changes |-> changes, selects |-> selects, typed |-> typed]

DocChanged(tr) == tr.changes # <<>>
SelectionSet(tr) == tr.selects # <<>>

\* The offset o of the document after tr.
NotMapped(tr, o) == o
Mapped(tr, o) == IF o = Undefined THEN o ELSE Len(UpTo(text, tr.changes, o))

\* The view takes tr: a selection that tr does not set is mapped.
ViewUpdate(tr) ==
    /\ text' = ApplyAll(text, tr.changes)
    /\ selection' = IF SelectionSet(tr) THEN tr.selects
                    ELSE [i \in 1 .. 2 |-> Mapped(tr, selection[i])]
    /\ edits' = IF DocChanged(tr) THEN edits + 1 ELSE edits
    /\ UNCHANGED setup

ViewKept == UNCHANGED <<setup, text, selection, edits>>

-----------------------------------------------------------------------------
(* The lock.  Each step keeps, awaits, takes or leaves it. *)

\* A job runs: the document is sent as it is by then.
Sends == sent' = edits' /\ known' = text' /\ lastSent' = text'

\* syncChanges, called by w: nothing, if the document is the one that was sent last;
\* otherwise its job takes the place of the one in the queue, or runs at once.
SyncChanges(w) ==
    \/ /\ text' = lastSent
       /\ UNCHANGED syncVars
    \/ /\ text' # lastSent /\ paused
       /\ held' = w
       /\ stranded' = stranded \cup ({held} \cap Waiters)
       /\ UNCHANGED <<sent, known, lastSent>>
    \/ /\ text' # lastSent /\ ~paused
       /\ Sends
       /\ UNCHANGED <<held, stranded>>

\* LSCore.update has changes sent.
LockKept == /\ paused' = paused
            /\ \/ edits' = edits /\ UNCHANGED syncVars
               \/ edits' # edits /\ SyncChanges(Update)

\* doWithLock waits for its job and until the queue is idle, then pauses it.
Synced == ~paused \/ (text = lastSent /\ held = Nothing)
LockAwaited(w) == paused' = paused /\ SyncChanges(w)
Resumes(w) == Synced /\ w \notin stranded
LockTaken == paused' = TRUE /\ SyncChanges(Update)

\* start() and syncChanges(): the job that was held runs.
Started ==
    /\ held' = Nothing
    /\ \/ held = Nothing /\ text' = lastSent /\ UNCHANGED <<sent, known, lastSent>>
       \/ (held # Nothing \/ text' # lastSent) /\ Sends
    /\ UNCHANGED stranded

\* Its end, or its timeout, starts the queue, whoever else has paused it.
LockForgotten == LockKept
LockLeft == paused' = FALSE /\ Started

\* One request after another.
LockRetaken == paused' = TRUE /\ Started

-----------------------------------------------------------------------------
(* What the language server answers with: ranges of the document it has. *)

Span(start, end) == [start |-> start, end |-> end]
SpansOf(doc) ==
    {Span(offsetToPos(doc, ab[1]), offsetToPos(doc, ab[2])) :
        ab \in {range \in Offsets(doc) \X Offsets(doc) : range[1] <= range[2]}}

MayEdit == edits < setup.edits
MayChange(n) == edits + n <= setup.changes

\* Characters that have never been in the document: no transaction inserts more than two.
Fresh == Len(setup.text) + 2 * edits + 1
=============================================================================
