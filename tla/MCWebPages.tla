----------------------------- MODULE MCWebPages -----------------------------
(***************************************************************************)
(* Sites for TLC: four messages to page through; or one message, with any  *)
(* short header, any few parts, or any short HTML body; or no message and  *)
(* any short Accept-Language header.                                       *)
(***************************************************************************)
EXTENDS WebPages

CONSTANTS a, b, c, d

MCIds == {a, b, c, d}

Upto(n, S) == UNION {[1 .. k -> S] : k \in 0 .. n}

L(field, spam) == [field |-> field, spam |-> spam]
P(type, attach, known, empty) ==
  [type |-> type, attach |-> attach, known |-> known, empty |-> empty]
Plain == P("plain", FALSE, TRUE, FALSE)
Html  == P("html", FALSE, TRUE, FALSE)

M(date, head, action, torn, complains, parts, parsed, doc) ==
  [date |-> date, head |-> head, action |-> action, torn |-> torn,
   complains |-> complains, parts |-> parts, parsed |-> parsed, doc |-> doc]

Ordinary(date) ==
  M(date, <<L("date", FALSE)>>, "inbox", FALSE, FALSE, <<Plain>>, TRUE, << >>)

\* b and c have the same date.
Paging == {[mail |-> (a :> Ordinary(1)) @@ (b :> Ordinary(2)) @@ (c :> Ordinary(2))
                       @@ (d :> Ordinary(3)),
            accept |-> << >>]}

One(m) == [mail |-> (a :> m), accept |-> << >>]

HeadLines == {L("status", TRUE), L("status", FALSE), L("fold", TRUE), L("fold", FALSE),
              L("junk", FALSE), L("date", FALSE)}
Heads == {One(M(1, h, action, torn, FALSE, <<Plain>>, TRUE, << >>)) :
            h \in Upto(2, HeadLines), action \in {"spam", "inbox"}, torn \in BOOLEAN}

Kinds == {Plain, Html, P("html", FALSE, TRUE, TRUE), P("plain", FALSE, FALSE, FALSE),
          P("multipart", FALSE, TRUE, FALSE), P("multipart", TRUE, TRUE, FALSE),
          P("data", TRUE, TRUE, FALSE), P("data", TRUE, TRUE, TRUE),
          P("data", TRUE, FALSE, FALSE)}
PartSites == {One(M(1, << >>, "inbox", FALSE, complains, parts, ~complains, <<"w1">>)) :
                complains \in BOOLEAN, parts \in Upto(3, Kinds)}

\* Documents of at most five tokens, their words told apart.
Tokens == {"block", "item", "cell", "drop", "inline", "end", "br", "space", "word"}
Name(t) == [k \in DOMAIN t |-> IF t[k] = "word" THEN <<"w1", "w2", "w3", "w4", "w5">>[k]
                               ELSE t[k]]
Docs == {Name(t) : t \in {u \in Upto(5, Tokens) : WellFormed(u)}}
TextSites == {One(M(1, << >>, "inbox", FALSE, FALSE, <<Html>>, TRUE, doc)) : doc \in Docs}

Langs == [tag : {"zh", "en", "other"}, param : {"none"}, q : {10}]
           \cup [tag : {"zh", "en"}, param : {"q"}, q : {-10, 0, 5, 10}]
           \cup [tag : {"en"}, param : {"bad", "else"}, q : {10}]
LangSites == {[mail |-> [i \in {} |-> 0], accept |-> h] : h \in Upto(2, Langs)}

MCSites == Paging \cup Heads \cup PartSites \cup TextSites \cup LangSites
=============================================================================
