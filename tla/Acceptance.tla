----------------------------- MODULE Acceptance -----------------------------
(***************************************************************************)
(* Accepting a completion (toCodemirrorCompletion's apply): its own edit,  *)
(* then its additional ones, a transaction each.                           *)
(***************************************************************************)
EXTENDS Plugins

VARIABLES
    extras,  \* additionalTextEdits that are still to be applied
    goal     \* history: what the language server meant the document to become

acceptanceVars == <<extras, goal>>

NoGoal == [known |-> FALSE, doc |-> <<>>]

AcceptanceTypeOK == Len(extras) <= 2 /\ goal.known \in BOOLEAN

AcceptanceInit ==
    /\ extras = <<>>
    /\ goal = NoGoal

-----------------------------------------------------------------------------

\* An edit of the language server, in positions of the document it knew.
Edit(doc, from, to, insert) ==
    [span |-> Span(offsetToPos(doc, from), offsetToPos(doc, to)), insert |-> insert]

Insertions == {<<Fresh>>, <<Break>>}

\* Additional edits insert or remove one character.
ExtrasOf(doc) ==
    {Edit(doc, o, o, <<Fresh>>) : o \in Offsets(doc)}
        \cup {Edit(doc, o - 1, o, <<>>) : o \in 1 .. Len(doc)}

ChangeOf(doc, edit) ==
    Change(posToOffsetOrZero(doc, edit.span.start), posToOffsetOrZero(doc, edit.span.end),
           edit.insert)

\* What the item does itself: replaces the range of its textEdit, the longer one of
\* an InsertReplaceEdit too, or what CodeMirror has matched.
OwnChanges(insert) ==
    LET EditFrom(from, to) == ChangeOf(text, Edit(popup.doc, from, to, insert))
    IN {<<EditFrom(from, popup.pos)>> : from \in {popup.pos - 1, popup.pos}}
       \cup {<<EditFrom(popup.pos - 1, popup.pos),
               [EditFrom(popup.pos - 1, to) EXCEPT !.insert = <<>>]>> :
                 to \in {popup.pos, popup.pos + 1} \cap Offsets(popup.doc)}
       \cup {<<Change(popup.from, popup.to, insert)>>}

\* sortedEdits, by their ends in the document as the item's own edit has left it.
EndsBeforeAscending(a, b, doc) ==
    posToOffsetOrZero(doc, a.span.end) < posToOffsetOrZero(doc, b.span.end)
EndsBefore(a, b, doc) ==
    posToOffsetOrZero(doc, a.span.end) > posToOffsetOrZero(doc, b.span.end)
SortedEdits(more, doc) == StableSort(more, LAMBDA a, b : EndsBefore(a, b, doc))

\* What they insert is new, each in a transaction of its own after the item's.
Inserting(more) ==
    [k \in DOMAIN more |-> [more[k] EXCEPT !.insert = IF @ = <<>> THEN <<>> ELSE <<Fresh + 2 * k>>]]

\* The additional edits are apart from each other, and from the item's own
\* edit, which they precede or are on lines below of.
Apart(own, more) ==
    LET first == own[1].from
        last == own[Len(own)].to
        Of(edit) == ChangeOf(text, edit)
        Below(edit) == edit.span.start.line > offsetToPos(text, last).line
    IN /\ popup.doc = text
       /\ LineAt(text, first) = LineAt(text, last)
       /\ \A i \in DOMAIN more :
            \/ Of(more[i]).to < first
            \/ Below(more[i]) /\ own[1].insert # <<Break>>
       /\ \A i, j \in DOMAIN more :
            i # j => \/ Of(more[i]).to < Of(more[j]).from
                     \/ Of(more[j]).to < Of(more[i]).from

\* An item is accepted: its own edit, unless that throws.
Accept(more) ==
    /\ popup.open /\ popup.options # <<>>
    /\ MayChange(1 + Len(more))
    /\ \E insert \in Insertions : \E own \in OwnChanges(insert) :
         /\ \A i \in DOMAIN own : own[i].from <= own[i].to
         /\ LET cursor == own[1].from + Len(insert)
            IN Dispatch(Transaction(own, <<cursor, cursor>>, "none"))
         /\ extras' = Inserting(SortedEdits(more, text'))
         /\ goal' = IF more # <<>> /\ Apart(own, more)
                    THEN [known |-> TRUE,
                          doc |-> ApplyAll(text, own \o [i \in DOMAIN more |->
                                                           ChangeOf(text, extras'[i])])]
                    ELSE NoGoal
    /\ LockKept

AcceptAny ==
    \E n \in 0 .. 2 : \E more \in [1 .. n -> ExtrasOf(popup.doc)] : Accept(more)

\* The next of the additional edits, in the document that the others have left;
\* one that throws ends the loop.
AcceptNext ==
    /\ extras # <<>>
    /\ LET edit == extras[1]
           from == posToOffsetOrZero(text, edit.span.start)
           to == EditTo(from, posToOffset(text, edit.span.end))
       IN IF from <= to
          THEN /\ Dispatch(Transaction(<<Change(from, to, edit.insert)>>, <<>>, "none"))
               /\ extras' = Tail(extras)
          ELSE DispatchNothing /\ extras' = <<>>
    /\ UNCHANGED goal
    /\ LockKept

-----------------------------------------------------------------------------
(* Properties *)

\* "Apply edits in reverse order of position (bottom of document to top of
\* document) in case there are overlapping edits" (completions.ts:275-276): edits
\* that are all meant for the document as it was give, one after another, what
\* they would at once, if they do not touch each other and those after the item's
\* own are on lines below.
EditsAsIfAtOnce ==
    [][extras # <<>> /\ extras' = <<>> /\ goal.known => text' = goal.doc]_<<viewVars, extras>>
=============================================================================
