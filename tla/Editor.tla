------------------------------- MODULE Editor -------------------------------
(***************************************************************************)
(* An editor with the extensions of languageServerWithClient (setup.ts):   *)
(* signature help, inlay hints, completions, references, renames and the   *)
(* context menu, of which setup says which are not disabled.  The user,    *)
(* others who edit the document, timers and answers act on one view.       *)
(***************************************************************************)
EXTENDS ContextMenu, Acceptance

vars == <<viewVars, pluginVars, acceptanceVars, referenceVars, renameVars, menu>>
commandVars == <<acceptanceVars, referenceVars, renameVars, menu>>

TypeOK ==
    /\ ViewTypeOK /\ SignatureTypeOK /\ InlayHintsTypeOK /\ CompletionsTypeOK
    /\ AcceptanceTypeOK /\ ReferencesTypeOK /\ RenamesTypeOK /\ ContextMenuTypeOK

Init ==
    /\ ViewInit /\ SignatureInit /\ InlayHintsInit /\ CompletionsInit
    /\ AcceptanceInit /\ ReferencesInit /\ RenamesInit /\ ContextMenuInit

-----------------------------------------------------------------------------
(* The user and others *)

First == IF selection[1] < selection[2] THEN selection[1] ELSE selection[2]
Last == IF selection[1] < selection[2] THEN selection[2] ELSE selection[1]

User(tr) == Dispatch(tr) /\ LockKept /\ UNCHANGED commandVars

\* A character, or a line break, replaces the selection.
Type ==
    /\ MayEdit /\ First # Undefined
    /\ \E typed \in Kinds :
         LET insert == IF typed = "none" THEN <<Break>> ELSE <<Fresh>>
         IN User(Transaction(<<Change(First, Last, insert)>>, <<First + 1, First + 1>>, typed))

\* Backspace.
Delete ==
    /\ MayEdit /\ First # Undefined
    /\ LET from == IF First < Last THEN First ELSE First - 1
       IN /\ from >= 0
          /\ User(Transaction(<<Change(from, Last, <<>>)>>, <<from, from>>, "none"))

Move == \E o \in Offsets(text) : User(Select(o, o))

\* A change that does not set the selection: somebody else's, or a program's.
Foreign ==
    /\ MayEdit
    /\ \/ \E o \in Offsets(text) :
            User(Transaction(<<Change(o, o, <<Fresh>>)>>, <<>>, "none"))
       \/ \E o \in DOMAIN text :
            User(Transaction(<<Change(o - 1, o, <<>>)>>, <<>>, "none"))

-----------------------------------------------------------------------------

\* What runs before any other event.
Continuation ==
    \/ (\E n \in Requests : SignatureLocks(n))
          /\ UNCHANGED <<hintVars, completionVars, commandVars>>
    \/ CompletionLocks /\ UNCHANGED <<signatureVars, hintVars, commandVars>>
    \/ (\E n \in Finds : FindLocks(n)) /\ UNCHANGED <<acceptanceVars, renameVars, menu>>
    \/ AcceptNext /\ UNCHANGED <<referenceVars, renameVars, menu>>

Quiescent ==
    /\ extras = <<>>
    /\ ~SignatureResumes
    /\ ~(query.stage = "locking" /\ Resumes(Query))
    /\ \A n \in Finds : ~(find[n].stage = "locking" /\ Resumes(Reference(n)))

Event ==
    \/ Type \/ Delete \/ Move \/ Foreign
    \/ SignatureStep /\ UNCHANGED <<hintVars, completionVars, commandVars>>
    \/ InlayHintsStep /\ UNCHANGED <<signatureVars, completionVars, commandVars>>
    \/ CompletionStep /\ UNCHANGED <<signatureVars, hintVars, commandVars>>
    \/ AcceptAny /\ UNCHANGED <<referenceVars, renameVars, menu>>
    \/ ReferencesStep /\ UNCHANGED <<acceptanceVars, renameVars, menu>>
    \/ RenamesStep /\ UNCHANGED <<acceptanceVars, referenceVars, menu>>
    \/ ContextMenuStep /\ UNCHANGED acceptanceVars

Next == Continuation \/ (Quiescent /\ Event)

Spec == Init /\ [][Next]_vars

\* Timers fire and requests return or throw: doWithLock has a timeout, and the
\* inlay hints' connection answers or closes (Client, RequestsSettle).  Whoever waits
\* for the lock relies on those who hold it.
Fairness ==
    /\ WF_vars(Continuation)
    /\ \A n \in Requests :
         WF_vars(Quiescent
                   /\ (SignatureDelay(n) \/ SignatureAnswer(n) \/ SignatureFails(n))
                   /\ UNCHANGED <<hintVars, completionVars, commandVars>>)
    /\ WF_vars(Quiescent /\ InlayHintsStep
                 /\ UNCHANGED <<signatureVars, completionVars, commandVars>>)
    /\ WF_vars(Quiescent /\ (CompletionAnswer \/ CompletionFails)
                 /\ UNCHANGED <<signatureVars, hintVars, commandVars>>)
    /\ \A n \in Finds :
         WF_vars(Quiescent /\ (FindAnswer(n) \/ FindFails(n))
                   /\ UNCHANGED <<acceptanceVars, renameVars, menu>>)

FairSpec == Spec /\ Fairness

-----------------------------------------------------------------------------
(* Properties *)

\* Nothing selects what is not in the document, although places to go to come
\* from documents that have changed since (references.ts:292-300, 374-383),
\* except a word to rename that comes too late (renames.ts:230-231).
SelectionInText == astray \/ selection \in Offsets(text) \X Offsets(text)

\* Whoever waits for the document lock, which one extension after another takes, is
\* served in the end, or told that it failed, however often requests are repeated
\* under it (signatures.ts:131-145, completions.ts:103-113, references.ts:183-277),
\* unless somebody else calls syncChanges while it waits: the last to call is
\* always served.
WaitersServed == SignaturesEnd /\ QueriesResume /\ FindsEnd
=============================================================================
