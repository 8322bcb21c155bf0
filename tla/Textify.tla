------------------------------ MODULE Textify ------------------------------
(***************************************************************************)
(* The plain text that internal/web/textify.go derives from an HTML body,  *)
(* as pure operators.                                                      *)
(*                                                                         *)
(* A document is the sequence of tokens that a walk over the tree of       *)
(* html.Parse meets: the kind of an element where it begins and "end"      *)
(* where it ends, "br", and for a text node its words and its white space. *)
(* A text is a sequence of lines, a line a sequence of fields, a field a   *)
(* sequence of words that nothing separates.                               *)
(***************************************************************************)
EXTENDS Naturals, FiniteSets, FiniteSetsExt, Sequences, SequencesExt, Orders

\* block stands for textifyBlockTags other than li, item for li, cell for td and
\* th, drop for the elements that are left out, inline for every other one.
Elements == {"block", "item", "cell", "drop", "inline"}
Blocks   == {"block", "item"}
Markup   == Elements \cup {"end", "br", "space"}

Newline == "\n"
Blank   == " "

\* Every element that begins ends, in the right order.
Depth(doc, k) == Cardinality({j \in 1 .. k - 1 : doc[j] \in Elements})
                   - Cardinality({j \in 1 .. k - 1 : doc[j] = "end"})
WellFormed(doc) == /\ \A k \in DOMAIN doc : doc[k] = "end" => Depth(doc, k) > 0
                   /\ Depth(doc, Len(doc) + 1) = 0

\* The words of a document are told apart, and from what walk writes around them.
Document(doc) ==
  /\ WellFormed(doc)
  /\ \A k \in DOMAIN doc : doc[k] \notin Markup =>
       /\ doc[k] \notin {Newline, Blank, "-"}
       /\ \A j \in DOMAIN doc : doc[j] = doc[k] => j = k

-----------------------------------------------------------------------------
(* htmlToText.                                                             *)

\* What walk writes before the children of an element, and after them.
Before == [block |-> <<Newline>>, item |-> <<Newline, "-", Blank>>, cell |-> <<Blank, Blank>>,
           drop |-> << >>, inline |-> << >>]
After(t) == IF t \in Blocks THEN <<Newline>> ELSE << >>

\* Mutant: a newline in a text node is written as it is.
collapseSpaceNot(doc, k) == IF doc[k] = "space" THEN <<Newline>> ELSE <<doc[k]>>

\* collapseSpace: of white space in a text node one blank remains.
collapseSpace(doc, k) ==
  IF doc[k] # "space" THEN <<doc[k]>>
  ELSE IF k > 1 /\ doc[k - 1] = "space" THEN << >> ELSE <<Blank>>

\* One token: w.open are the elements around it, w.out what is written so far.
Walk(doc, w, k) ==
  LET t      == doc[k]
      hidden == \E j \in DOMAIN w.open : w.open[j] = "drop"
      write(s) == IF hidden THEN w.out ELSE w.out \o s
  IN  CASE t \in Elements -> [open |-> Append(w.open, t), out |-> write(Before[t])]
        [] t = "end"      -> [open |-> Front(w.open), out |-> write(After(Last(w.open)))]
        [] t = "br"       -> [open |-> w.open, out |-> write(<<Newline>>)]
        [] OTHER          -> [open |-> w.open, out |-> write(collapseSpace(doc, k))]

\* What walk has written in the end.
Written(doc) ==
  LET w[k \in 0 .. Len(doc)] == IF k = 0 THEN [open |-> << >>, out |-> << >>]
                                ELSE Walk(doc, w[k - 1], k)
  IN  w[Len(doc)].out

\* The pieces of s between the separators, without the empty ones.
Starts(s, sep)  == {i \in DOMAIN s : s[i] # sep /\ (i > 1 => s[i - 1] = sep)}
Piece(s, sep, i) == SubSeq(s, i, Max({j \in i .. Len(s) : \A k \in i .. j : s[k] # sep}))
Pieces(s, sep)  == LET at == InOrder(Starts(s, sep))
                   IN  [n \in DOMAIN at |-> Piece(s, sep, at[n])]

\* normalizeText: trimmed lines, none of them empty.
normalizeText(s) ==
  LET lines == Pieces(s, Newline)
      full  == InOrder({l \in DOMAIN lines : Pieces(lines[l], Blank) # << >>})
  IN  [n \in DOMAIN full |-> Pieces(lines[full[n]], Blank)]

\* htmlToText.  html.Parse may refuse the body, and then there is no text.
htmlToText(parsed, doc) == IF parsed THEN normalizeText(Written(doc)) ELSE << >>

-----------------------------------------------------------------------------
(* The reference: what the markup says of the words, by the kinds of       *)
(* elements above.                                                         *)

\* Element j is around token k, or is the one that k ends.
Around(doc, j, k) == /\ doc[j] \in Elements
                     /\ j < k
                     /\ \A m \in j + 1 .. k : Depth(doc, m) > Depth(doc, j)

Visible(doc, k) == ~\E j \in 1 .. k - 1 : Around(doc, j, k) /\ doc[j] = "drop"

\* The element that token k begins or ends.
Element(doc, k) ==
  IF doc[k] # "end" THEN doc[k]
  ELSE doc[CHOOSE j \in 1 .. k - 1 : Around(doc, j, k) /\ Depth(doc, k) = Depth(doc, j) + 1]

\* A line ends between tokens a and b; there is white space or a new cell.
Broken(doc, a, b) ==
  \E k \in a + 1 .. b - 1 : Visible(doc, k) /\ Element(doc, k) \in Blocks \cup {"br"}
Spaced(doc, a, b) ==
  \E k \in a + 1 .. b - 1 : Visible(doc, k) /\ doc[k] \in {"space", "cell"}

WordsOf(doc) == {k \in DOMAIN doc : doc[k] \notin Markup /\ Visible(doc, k)}

\* The places (line, field, position) of a word in a text.
Places(text, w) ==
  UNION {UNION {{<<l, f, x>> : x \in {y \in DOMAIN text[l][f] : text[l][f][y] = w}}
                : f \in DOMAIN text[l]} : l \in DOMAIN text}

\* Each visible word has one place in the text, a hidden one has none; words that
\* follow each other are on the same line unless a block begins or ends, or a line
\* breaks, between them, and run together only if nothing separates them.
Reads(doc, text) ==
  /\ \A k \in DOMAIN doc : doc[k] \notin Markup =>
       Cardinality(Places(text, doc[k])) = IF Visible(doc, k) THEN 1 ELSE 0
  /\ \A a, b \in WordsOf(doc) : a < b =>
       \A p \in Places(text, doc[a]), q \in Places(text, doc[b]) :
         IF Broken(doc, a, b) THEN p[1] < q[1]
         ELSE /\ p[1] = q[1]
              /\ IF Spaced(doc, a, b) THEN p[2] < q[2]
                 ELSE p[2] = q[2] /\ p[3] < q[3]
=============================================================================
