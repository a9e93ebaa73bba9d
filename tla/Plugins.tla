------------------------------ MODULE Plugins ------------------------------
(***************************************************************************)
(* A transaction reaches the view and the update of every plugin at once.  *)
(***************************************************************************)
EXTENDS Signatures, InlayHints, Completions

pluginVars == <<signatureVars, hintVars, completionVars>>

\* view.dispatch, without what becomes of the lock.
Dispatch(tr) ==
    /\ ViewUpdate(tr)
    /\ MayTrigger(tr)
    /\ SignatureUpdate(tr)
    /\ InlayHintsUpdate(tr)
    /\ CompletionUpdate(tr)

\* A transaction of effects or annotations alone, and code that dispatches none.
DispatchNothing == ViewKept /\ UNCHANGED pluginVars

Select(anchor, head) == Transaction(<<>>, <<anchor, head>>, "none")
=============================================================================
