------------------------------ MODULE MCEditor ------------------------------
(* Small editors for TLC. *)
EXTENDS Editor

Setup(features, doc, max, total, finds) ==
    [features |-> features, text |-> doc, edits |-> max, changes |-> total, finds |-> finds,
     sorting |-> FALSE]

\* Extensions act on each other through the lock, the selection and their commands.
MCSetups == {
    Setup({"signatureHelp"}, <<1>>, 1, 1, 0),
    Setup({"signatureHelp"}, <<>>, 2, 2, 0),
    Setup({"inlayHints"}, <<1>>, 2, 2, 0),
    Setup({"inlayHints", "references"}, <<1>>, 1, 1, 1),
    Setup({"references"}, <<1, 0>>, 1, 1, 2),
    Setup({"references"}, <<>>, 2, 2, 2),
    Setup({"signatureHelp", "references"}, <<>>, 1, 1, 1),
    Setup({"completion", "references"}, <<1>>, 1, 1, 1),
    Setup({"contextMenu"}, <<1>>, 1, 1, 1),
    Setup({"renames"}, <<1>>, 1, 1, 0),
    Setup({"renames", "contextMenu"}, <<1>>, 0, 1, 0),
    [Setup({"completion"}, <<1>>, 0, 0, 0) EXCEPT !.sorting = TRUE],
    Setup({"completion"}, <<1>>, 1, 2, 0),
    Setup({"completion"}, <<1, 0>>, 0, 2, 0),
    Setup({"completion"}, <<1, 2>>, 0, 3, 0)}

\* The items of one answer, in every order.
MCSorting == {[Setup({"completion"}, <<1>>, 0, 0, 0) EXCEPT !.sorting = TRUE]}
=============================================================================
