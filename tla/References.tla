----------------------------- MODULE References -----------------------------
(***************************************************************************)
(* Finding references and definitions (references.ts): a request with the  *)
(* document lock, whose answer opens a panel, or goes to the only place it *)
(* has found, in this document or another.                                 *)
(***************************************************************************)
EXTENDS Plugins

CONSTANT MaxFinds   \* bound: calls of handleFindReferences in all setups

ASSUME FindAssumption == MaxFinds \in Nat /\ \A s \in Setups : s.finds <= MaxFinds

Finds == 1 .. MaxFinds

VARIABLES
    find,   \* the calls of handleFindReferences
    panel   \* referencePanel: empty, or the range of the reference in this document

referenceVars == <<find, panel>>

Outcomes == {"none", "thrown", "reported", "silent", "external", "hopped", "panel"}

\* doc is the document that the language server was asked about.
NoFind == [stage |-> "none", goToIfOneOption |-> FALSE, outcome |-> "none", doc |-> <<>>]

ReferencesTypeOK ==
    /\ \A n \in Finds : /\ find[n].stage \in {"none", "locking", "asked", "over"}
                        /\ find[n].outcome \in Outcomes
                        /\ find[n].stage = "over" <=> find[n].outcome # "none"
    /\ Len(panel) <= 1

ReferencesInit ==
    /\ find = [n \in Finds |-> NoFind]
    /\ panel = <<>>

-----------------------------------------------------------------------------
(* handleFindReferences *)

\* The lock is taken; what is found is of the document as it is now.
Asked(n, goes) ==
    find' = [find EXCEPT ![n] = [NoFind EXCEPT !.stage = "asked", !.goToIfOneOption = goes,
                                               !.doc = text]]

Reference(n) == Waiter("references", n)
Ends(n, outcome) == find' = [find EXCEPT ![n] = [NoFind EXCEPT !.stage = "over", !.outcome = outcome]]

\* _reportError: the plugin's constructor leaves #onError undefined, whatever the
\* application gives it.
OnError == FALSE
ReportError(n) == Ends(n, IF OnError THEN "reported" ELSE "silent")

\* At offset pos, which a context menu may have kept for long: offsetToPos throws
\* before the try if it is not in the document.
FindReferences(pos, goes) ==
    \E n \in 1 .. setup.finds :
        /\ find[n].stage = "none" /\ \A m \in 1 .. n - 1 : find[m].stage # "none"
        /\ \/ /\ ReportError(n)           \* the server is not capable of it
              /\ LockKept
           \/ /\ Throws(text, pos)
              /\ Ends(n, "thrown") /\ LockKept
           \/ /\ ~Throws(text, pos) /\ Synced
              /\ Asked(n, goes) /\ LockTaken
           \/ /\ ~Throws(text, pos) /\ ~Synced
              /\ find' = [find EXCEPT ![n].stage = "locking", ![n].goToIfOneOption = goes]
              /\ LockAwaited(Reference(n))
        /\ UNCHANGED panel

FindLocks(n) ==
    /\ find[n].stage = "locking" /\ Resumes(Reference(n))
    /\ DispatchNothing
    /\ \/ Asked(n, find[n].goToIfOneOption) /\ LockTaken
       \/ ReportError(n) /\ LockKept
    /\ UNCHANGED panel

\* hopToDefinition: a head that is undefined is where the anchor is.
HopTo(range) ==
    LET anchor == posToOffsetOrZero(text, range.start)
    IN Select(anchor, EditTo(anchor, posToOffset(text, range.end)))

\* Nothing is found; or one place, to go to; or the panel shows what is found.
FindAnswer(n) ==
    /\ find[n].stage = "asked"
    /\ \/ /\ ReportError(n)
          /\ UNCHANGED panel /\ DispatchNothing
       \/ /\ find[n].goToIfOneOption
          /\ UNCHANGED panel
          /\ \/ Ends(n, "external") /\ DispatchNothing
             \/ /\ Ends(n, "hopped")
                /\ \E span \in SpansOf(find[n].doc) : Dispatch(HopTo(span))
       \/ /\ Ends(n, "panel")
          /\ \E span \in SpansOf(find[n].doc) : panel' = <<span>>
          /\ DispatchNothing
    /\ LockLeft

\* requestWithLock throws.
FindFails(n) ==
    /\ find[n].stage = "asked"
    /\ DispatchNothing
    /\ LockLeft
    /\ ReportError(n)
    /\ UNCHANGED panel

-----------------------------------------------------------------------------
(* The shortcuts, the click and the panel *)

Shortcut == /\ Enabled("references")
            /\ DispatchNothing
            /\ \E goes \in BOOLEAN : FindReferences(Cursor, goes)

\* posAtCoords(...) || undefined: a click at offset 0 stands for the cursor.
ModClick == /\ Enabled("references")
            /\ DispatchNothing
            /\ \E pos \in Offsets(text) : FindReferences(IF pos = 0 THEN Cursor ELSE pos, TRUE)

ClosePanel ==
    /\ panel # <<>>
    /\ panel' = <<>>
    /\ UNCHANGED find
    /\ DispatchNothing /\ LockKept

\* goToReference: the document may have changed since; an offset that is undefined,
\* or 0, goes nowhere and leaves the panel.
GoToReference ==
    /\ panel # <<>>
    /\ LET start == posToOffset(text, panel[1].start)
           end == posToOffset(text, panel[1].end)
       IN /\ start > 0 /\ end > 0
          /\ Dispatch(Select(start, end))
    /\ panel' = <<>>
    /\ UNCHANGED find
    /\ LockKept

ReferencesStep ==
    \/ Shortcut \/ ModClick \/ ClosePanel \/ GoToReference
    \/ \E n \in Finds : FindAnswer(n) \/ FindFails(n)

-----------------------------------------------------------------------------
(* Properties *)

\* Every call of handleFindReferences that waits or has asked is over in the end
\* (references.ts:183-277), whoever holds the lock and whatever fails, unless the
\* job it awaits is dropped.
FindsEnd ==
    \A n \in Finds : find[n].stage \in {"locking", "asked"} ~>
        find[n].stage = "over" \/ Reference(n) \in stranded
=============================================================================
