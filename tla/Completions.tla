---------------------------- MODULE Completions ----------------------------
(***************************************************************************)
(* Completions (completions.ts) up to their list: the query with the       *)
(* document lock, and how the items are filtered and sorted.  CodeMirror   *)
(* calls handleCompletion and keeps the list.                              *)
(***************************************************************************)
EXTENDS View

CONSTANTS
    MaxItems,  \* bound: items of an answer
    MaxText    \* bound: different sortTexts

ASSUME ItemAssumption == MaxItems \in Nat /\ MaxText \in Nat \ {0}

\* An item: the place of its sortText, or label, in the alphabet; whether its
\* label begins with the word before the cursor or it has a textEdit.
Texts == 1 .. MaxText
Items == [text : Texts, preselect : BOOLEAN, kept : BOOLEAN]
Item == [text |-> 1, preselect |-> FALSE, kept |-> TRUE]

VARIABLES
    query,   \* handleCompletion with its context, once it has asked
    popup    \* the list of completions

completionVars == <<query, popup>>

\* doc and pos are those of the context; from and to have been mapped since, lost:
\* CodeMirror does not want the answer any more.
NoQuery == [stage |-> "none", doc |-> <<>>, pos |-> 0, from |-> 0, to |-> 0, lost |-> FALSE]
NoPopup == [open |-> FALSE, doc |-> <<>>, pos |-> 0, from |-> 0, to |-> 0,
            answer |-> [items |-> <<>>, token |-> "none", starts |-> {}],
            options |-> <<>>]

CompletionsTypeOK ==
    /\ query \in [stage : {"none", "locking", "asked"}, doc : Seq(Nat), pos : Nat,
                  from : Nat, to : Nat, lost : BOOLEAN]
    /\ popup.from <= popup.to /\ popup.to \in Offsets(text)

CompletionsInit ==
    /\ query = NoQuery
    /\ popup = NoPopup

-----------------------------------------------------------------------------
(* sortCompletionItems *)

\* The sequence s in a stable order.
StableSort(s, Before(_, _)) ==
    LET place == [i \in DOMAIN s |-> 1 + Cardinality({j \in DOMAIN s :
                                        \/ Before(s[j], s[i])
                                        \/ j < i /\ ~Before(s[i], s[j])})]
    IN [k \in DOMAIN s |-> s[CHOOSE i \in DOMAIN s : place[i] = k]]

Preselected(a, b) == a.preselect /\ ~b.preselect
ByText(a, b) == a.text < b.text
Prefixed(a, b, starts) == \/ a.text \in starts /\ b.text \notin starts
                          \/ (a.text \in starts <=> b.text \in starts) /\ ByText(a, b)

KeptOf(items) == Joined([i \in DOMAIN items |-> IF items[i].kept THEN <<items[i]>> ELSE <<>>])
FilteredForAny(items, token) == IF token # "none" THEN KeptOf(items) ELSE items
Filtered(items, token) == IF token = "word" THEN KeptOf(items) ELSE items

Sorted(items, token, starts) ==
    LET sorted == StableSort(StableSort(items, Preselected), ByText)
    IN IF token = "none" THEN sorted
       ELSE StableSort(sorted, LAMBDA a, b : Prefixed(a, b, starts))

sortCompletionItems(items, token, starts) == Sorted(Filtered(items, token), token, starts)

-----------------------------------------------------------------------------
(* handleCompletion *)

\* The user types on, or moves, and CodeMirror gives the list up; others' changes
\* move it.
CompletionUpdate(tr) ==
    IF SelectionSet(tr)
    THEN /\ query' = [query EXCEPT !.lost = TRUE]
         /\ popup' = NoPopup
    ELSE /\ query' = IF query.lost THEN query
                     ELSE [query EXCEPT !.from = Mapped(tr, @), !.to = Mapped(tr, @)]
         /\ popup' = [popup EXCEPT !.from = Mapped(tr, @), !.to = Mapped(tr, @)]

\* getCompletionTriggerKind: there is a character before the cursor, which is a
\* trigger or part of a word.
MayComplete(doc, pos) == pos > 0 /\ doc[pos] # Break

Query == Waiter("completion", 0)

\* Asked for, or typed for, where nothing is selected; one at a time.
Complete ==
    /\ ViewKept
    /\ Enabled("completion")
    /\ query.stage = "none"
    /\ selection[1] = Cursor
    /\ Cursor \in Offsets(text) /\ MayComplete(text, Cursor)
    /\ LET asked == [NoQuery EXCEPT !.doc = text, !.pos = Cursor, !.from = Cursor - 1, !.to = Cursor]
       IN \/ Synced /\ query' = [asked EXCEPT !.stage = "asked"] /\ LockTaken
          \/ ~Synced /\ query' = [asked EXCEPT !.stage = "locking"] /\ LockAwaited(Query)
    /\ popup' = NoPopup

CompletionLocks ==
    /\ ViewKept
    /\ query.stage = "locking" /\ Resumes(Query)
    /\ \/ query' = [query EXCEPT !.stage = "asked"] /\ LockTaken
       \/ query' = NoQuery /\ LockKept
    /\ UNCHANGED popup

\* starts are the texts that begin with the token, which is one character or none.
Answers ==
    IF setup.sorting
    THEN [items : UNION {[1 .. n -> Items] : n \in 0 .. MaxItems},
          token : {"none", "word", "other"}, starts : SUBSET Texts]
    ELSE [items : {<<>>, <<Item>>}, token : {"none", "word"}, starts : {{}}]

Popup(answer) ==
    [open |-> TRUE, doc |-> query.doc, pos |-> query.pos,
     from |-> IF answer.token = "none" THEN query.to ELSE query.from, to |-> query.to,
     answer |-> answer,
     options |-> sortCompletionItems(answer.items, answer.token, answer.starts)]

\* No result, or a list, unless CodeMirror does not want it any more.
CompletionAnswer ==
    /\ ViewKept
    /\ query.stage = "asked"
    /\ query' = NoQuery
    /\ \E answer \in Answers :
         popup' = IF query.lost \/ answer.items = <<>> THEN NoPopup ELSE Popup(answer)
    /\ LockLeft

CompletionFails ==
    /\ ViewKept
    /\ query.stage = "asked"
    /\ query' = NoQuery
    /\ LockLeft
    /\ UNCHANGED popup

CompletionStep == Complete \/ CompletionAnswer \/ CompletionFails

-----------------------------------------------------------------------------
(* Properties *)

\* A query that waits goes on, or fails, unless the job it awaits is dropped.
QueriesResume == query.stage = "locking" ~> query.stage # "locking" \/ Query \in stranded

\* Of two items, one is better than the other if it is before it by one of the
\* three criteria and after it by none (matching the prefix depends on the text
\* that is sorted by).
Better(a, b, answer) ==
    LET Matches(item) == answer.token # "none" /\ item.text \in answer.starts
    IN /\ b.preselect => a.preselect
       /\ a.text <= b.text
       /\ Matches(b) => Matches(a)
       /\ <<a.preselect, a.text>> # <<b.preselect, b.text>>

\* Whichever of the three criteria counts most, "sortCompletionItems" keeps to all
\* of them by one sort after another: a better item comes first, none is lost or
\* doubled, and only those that do not match a word are left out
\* (completions.ts:387-451).
BetterItemsFirst ==
    LET answer == popup.answer
        Count(s, item) == Cardinality({i \in DOMAIN s : s[i] = item})
    IN /\ \A i, j \in DOMAIN popup.options :
            i < j => ~Better(popup.options[j], popup.options[i], answer)
       /\ \A item \in Items : Count(popup.options, item) =
            IF answer.token = "word" /\ ~item.kept THEN 0 ELSE Count(answer.items, item)

\* "1. Preselected items first" (completions.ts:381-386, 410): they are sorted
\* first, and the sorts by text and by prefix after that undo it.
PreselectedFirst ==
    \A i, j \in DOMAIN popup.options :
        i < j /\ popup.options[j].preselect => popup.options[i].preselect
=============================================================================
