------------------------------ MODULE Renames ------------------------------
(***************************************************************************)
(* Renaming (renames.ts): the word that may be renamed is asked for, the   *)
(* dialog asks for its new name, and the edits that the language server    *)
(* answers with are applied (applyWorkspaceEdit).  None of the requests    *)
(* holds the document lock, so that the document may have changed when     *)
(* its positions come back.                                                *)
(***************************************************************************)
EXTENDS Plugins

VARIABLES
    prepare,  \* handleRename, once it has asked
    dialog,   \* renameDialogField: empty, or the offset of the symbol
    rename,   \* onComplete, once it has asked
    astray    \* history: the last word to rename was one of an earlier document

renameVars == <<prepare, dialog, rename, astray>>

NoPrepare == [asking |-> FALSE, pos |-> 0, doc |-> <<>>]
NoRename == [asking |-> FALSE, spans |-> <<>>]

RenamesTypeOK ==
    /\ prepare \in [asking : BOOLEAN, pos : Nat, doc : Seq(Nat)]
    /\ Len(dialog) <= 1
    /\ rename.asking \in BOOLEAN /\ Len(rename.spans) <= 2
    /\ astray \in BOOLEAN

RenamesInit ==
    /\ prepare = NoPrepare
    /\ dialog = <<>>
    /\ rename = NoRename
    /\ astray = FALSE

-----------------------------------------------------------------------------
(* handleRename *)

\* state.wordAt, which throws outside the document; every line is a word here.
Word(doc, pos) == {o \in Offsets(doc) : LineAt(doc, o) = LineAt(doc, pos)}
IsWord(doc, pos) == ~Throws(doc, pos) /\ Cardinality(Word(doc, pos)) > 1
WordSpan(doc, pos) ==
    LET line == LineAt(doc, pos)
    IN Span([line |-> line, character |-> 0],
            [line |-> line, character |-> Cardinality(Word(doc, pos)) - 1])

Prepare(pos) ==
    /\ Enabled("renames")
    /\ ~prepare.asking
    /\ IsWord(text, pos)
    /\ prepare' = [asking |-> TRUE, pos |-> pos, doc |-> known]
    /\ UNCHANGED <<dialog, rename, astray>>
    /\ LockKept

\* The dialog opens with the word selected; posToOffset(...)! may be undefined.
OpenDialog(span) ==
    LET start == posToOffset(text, span.start)
    IN /\ dialog' = <<start>>
       /\ astray' = (prepare.doc # text)
       /\ Dispatch(Select(start, posToOffset(text, span.end)))

\* A range (with or without placeholder); "defaultBehavior", or prepareRenameFallback
\* after an error, both for the word that is there by now; or nothing.
PrepareAnswer ==
    /\ prepare.asking
    /\ prepare' = NoPrepare
    /\ \/ \E span \in SpansOf(prepare.doc) : OpenDialog(span)
       \/ IsWord(text, prepare.pos) /\ OpenDialog(WordSpan(text, prepare.pos))
       \/ UNCHANGED <<dialog, astray>> /\ DispatchNothing
    /\ UNCHANGED rename
    /\ LockKept

-----------------------------------------------------------------------------
(* The dialog, whose offset no change moves *)

Dismiss ==
    /\ dialog # <<>>
    /\ dialog' = <<>>
    /\ Dispatch(Select(Cursor, Cursor))
    /\ UNCHANGED <<prepare, rename, astray>>
    /\ LockKept

\* onComplete: the dialog stays.
CompleteRename ==
    /\ dialog # <<>> /\ ~Throws(text, dialog[1])
    /\ ~rename.asking
    /\ \E spans \in SpansOf(known) \X SpansOf(known) :
         /\ posToOffset(known, spans[1].end) < posToOffset(known, spans[2].start)
         /\ \E n \in 1 .. 2 : rename' = [asking |-> TRUE, spans |-> SubSeq(spans, 1, n)]
    /\ UNCHANGED <<prepare, dialog, astray>>
    /\ DispatchNothing /\ LockKept

\* applyWorkspaceEdit: the positions, of whatever document, are those of this one.
\* The update throws if one has no start or ends before it.
WorkspaceChanges(spans) ==
    LET EditOf(span, insert) ==
            LET from == posToOffset(text, span.start)
            IN Change(from, EditTo(from, posToOffset(text, span.end)), insert)
    IN [i \in DOMAIN spans |-> EditOf(spans[Len(spans) + 1 - i], <<Fresh + i - 1>>)]
Applicable(changes) ==
    \A i \in DOMAIN changes : changes[i].from # Undefined /\ changes[i].from <= changes[i].to

RenameAnswer ==
    /\ rename.asking
    /\ rename' = NoRename
    /\ LET changes == WorkspaceChanges(rename.spans)
       IN \/ /\ Applicable(changes) /\ MayChange(1)
             /\ Dispatch(Transaction(changes, <<>>, "none"))
          \/ DispatchNothing      \* null, an error, or an update that throws
    /\ UNCHANGED <<prepare, dialog, astray>>
    /\ LockKept

RenameKey == DispatchNothing /\ Prepare(Cursor)

RenamesStep == RenameKey \/ PrepareAnswer \/ Dismiss \/ CompleteRename \/ RenameAnswer
=============================================================================
