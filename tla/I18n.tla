-------------------------------- MODULE I18n --------------------------------
(***************************************************************************)
(* The choice of the language in internal/web/i18n.go, as pure operators.  *)
(* An Accept-Language header is the sequence of its entries; a weight is   *)
(* counted in tenths.                                                      *)
(***************************************************************************)
EXTENDS Integers, Sequences, SequencesExt

Languages   == {"zh", "en"}
defaultLang == "zh"

\* An entry of the header: what its tag begins with, and the parameter behind it:
\* none, a weight, a weight that is no number, or another one.
Entry == [tag : Languages \cup {"other"}, param : {"none", "q", "bad", "else"}, q : Int]

Weight(e) == CASE e.param = "none" -> 10
               [] e.param = "q"    -> e.q
               [] OTHER            -> 0

\* Mutant: of equal weights the last one wins.
BetterLast(best, e) ==
  IF e.tag \in Languages /\ Weight(e) >= best.q
  THEN [lang |-> e.tag, q |-> Weight(e)] ELSE best

\* One round of the loop of negotiateLang.
Better(best, e) ==
  IF e.tag \in Languages /\ Weight(e) > best.q
  THEN [lang |-> e.tag, q |-> Weight(e)] ELSE best

\* The language, or "" if none appears.
negotiateLang(header) == FoldLeft(Better, [lang |-> "", q |-> -10], header).lang

\* catalogFor: the cookie, then the header, then the default.
catalogFor(cookie, header) ==
  IF cookie \in Languages THEN cookie
  ELSE IF negotiateLang(header) \in Languages THEN negotiateLang(header)
  ELSE defaultLang

-----------------------------------------------------------------------------
\* The reference: the entries that nobody is preferred to, and the first of them.
Preferred(header) ==
  LET known == {k \in DOMAIN header : header[k].tag \in Languages /\ Weight(header[k]) > -10}
      best  == {k \in known : \A j \in known : Weight(header[j]) <= Weight(header[k])}
  IN  IF best = {} THEN defaultLang
      ELSE header[CHOOSE k \in best : \A j \in best : k <= j].tag
=============================================================================
