------------------------------- MODULE Text -------------------------------
(***************************************************************************)
(* Documents, the positions of the language server in them (utils.ts), and *)
(* CodeMirror's changes of a document.                                     *)
(*                                                                         *)
(* A document is a sequence of characters: Break is the line break, every  *)
(* other character a positive number, which nothing but properties looks   *)
(* at.  Offsets count from 0; a position is a line and a character in it,  *)
(* both from 0.                                                            *)
(***************************************************************************)
EXTENDS Integers, Sequences, FiniteSets

Break == 0

\* What the program calls undefined; no offset.
Undefined == -1

Offsets(doc) == 0 .. Len(doc)

-----------------------------------------------------------------------------
(* Positions *)

\* doc.lines, doc.lineAt(o).number - 1 and doc.line(line + 1).from of CodeMirror.
Lines(doc) == 1 + Cardinality({i \in DOMAIN doc : doc[i] = Break})
LineAt(doc, o) == Cardinality({i \in 1 .. o : doc[i] = Break})
From(doc, line) ==
    CHOOSE o \in Offsets(doc) : LineAt(doc, o) = line /\ (o = 0 \/ doc[o] = Break)

\* The end of doc counts as the first character of a line after the last.
NextLine(doc, p) == IF p.character = 0 THEN Len(doc) ELSE Undefined

InDocUnchecked(doc, o) == o
InDoc(doc, o) == IF o > Len(doc) THEN Undefined ELSE o

\* A character past the end of its line stands for one of the lines below.
posToOffset(doc, p) ==
    IF p.line >= Lines(doc) THEN NextLine(doc, p)
    ELSE InDoc(doc, From(doc, p.line) + p.character)

posToOffsetOrZero(doc, p) ==
    IF posToOffset(doc, p) = Undefined THEN 0 ELSE posToOffset(doc, p)

\* lineAt throws for an offset that is not in doc.
Throws(doc, o) == o \notin Offsets(doc)
offsetToPos(doc, o) ==
    [line |-> LineAt(doc, o), character |-> o - From(doc, LineAt(doc, o))]

-----------------------------------------------------------------------------
(* Changes: insert replaces what is between from and to. *)

Change(from, to, insert) == [from |-> from, to |-> to, insert |-> insert]

\* FlattenSeq, as a function that one can prove about.
Joined(seqs) ==
    LET joined[i \in 0 .. Len(seqs)] == IF i = 0 THEN <<>> ELSE joined[i - 1] \o seqs[i]
    IN joined[Len(seqs)]

\* What the changes from one of froms to an offset insert.
Inserted(cs, froms, to) ==
    Joined([i \in DOMAIN cs |->
              IF cs[i].from \in froms /\ cs[i].to = to THEN cs[i].insert ELSE <<>>])

\* All changes of a transaction are changes of the document it starts from; those that
\* overlap delete what any of them does.
Kept(doc, cs, k) ==
    IF \E i \in DOMAIN cs : cs[i].from < k /\ k <= cs[i].to THEN <<>> ELSE <<doc[k]>>

\* What becomes of what is before offset o.  ChangeDesc.mapPos, with its default
\* association, maps o to the end of it: text inserted at o comes after it.
UpTo(doc, cs, o) ==
    Joined([k \in 1 .. o |-> Inserted(cs, {k - 1}, k - 1) \o Kept(doc, cs, k)
                               \o Inserted(cs, 0 .. k - 1, k)])

ApplyAll(doc, cs) == UpTo(doc, cs, Len(doc)) \o Inserted(cs, {Len(doc)}, Len(doc))

\* The offset of an edit that a language server asks for; CodeMirror takes from
\* for a missing to.
EditTo(from, to) == IF to = Undefined THEN from ELSE to
=============================================================================
