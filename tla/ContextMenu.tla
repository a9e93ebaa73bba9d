---------------------------- MODULE ContextMenu ----------------------------
(***************************************************************************)
(* The context menu (contextMenu.ts): it keeps the offset of the click,    *)
(* which its callbacks use whatever has become of the document.            *)
(***************************************************************************)
EXTENDS References, Renames

VARIABLE menu   \* contextMenuField: empty, or the offset of the menu that is shown

ContextMenuTypeOK == Len(menu) <= 1

ContextMenuInit == menu = <<>>

\* A right click at a symbol: not two blanks, nor the end.
RightClick ==
    /\ Enabled("contextMenu")
    /\ \E pos \in Offsets(text) :
         /\ \E i \in DOMAIN text : i \in {pos + 1, pos + 2} /\ text[i] # Break
         /\ menu' = <<pos>>
    /\ DispatchNothing /\ LockKept
    /\ UNCHANGED <<referenceVars, renameVars>>

\* dismiss removes the menu from the page.
DismissMenu ==
    /\ menu # <<>>
    /\ menu' = <<>>
    /\ DispatchNothing /\ LockKept
    /\ UNCHANGED <<referenceVars, renameVars>>

\* handleContextMenu's callbacks leave the menu to whoever renders it.
MenuReferences ==
    /\ menu # <<>>
    /\ DispatchNothing
    /\ \E goes \in BOOLEAN : FindReferences(menu[1], goes)
    /\ UNCHANGED <<menu, renameVars>>

MenuRename ==
    /\ menu # <<>>
    /\ DispatchNothing
    /\ Prepare(menu[1])
    /\ UNCHANGED <<menu, referenceVars>>

ContextMenuStep == RightClick \/ DismissMenu \/ MenuReferences \/ MenuRename
=============================================================================
