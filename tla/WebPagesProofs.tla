--------------------------- MODULE WebPagesProofs ---------------------------
(***************************************************************************)
(* Proofs about the web pages, for any mail and any number of messages on  *)
(* a page: they are in the language that the user prefers, they show the   *)
(* verdict on a message, the list leaves no message out, an attachment is  *)
(* the one that was listed, the text made from HTML reads like the         *)
(* document, and links hold.                                               *)
(***************************************************************************)
EXTENDS WebPages, FiniteSetTheorems, WellFoundedInduction, TLAPS

-----------------------------------------------------------------------------
(* The inductive invariant.                                                *)

\* Only what the site has arrives.
Stored ==
  /\ site \in Sites
  /\ box \in [Ids -> Store!Status]
  /\ \A i \in Ids : box[i] # "absent" => i \in DOMAIN mail

\* The page is about messages that have arrived, and its view is that of its message.
Current ==
  LET arrived(i) == i \in Ids /\ box[i] # "absent"
  IN  /\ page.url.to = "list" => /\ page.url.n \in Int
                                 /\ \A k \in DOMAIN page.entries : arrived(page.entries[k].id)
      /\ page.url.to = "mail" =>
           /\ arrived(page.url.id)
           /\ LET m == walkMessage(mail[page.url.id].parts)
              IN  /\ page.view.html = (m.html # 0) /\ page.view.attach = m.attach
                  /\ page.view.text = TextOf(page.url.id)

\* A redirection leads to the list, or back to the page.
Redirected ==
  todo # NoUrl => todo = ListUrl(0) \/ (todo = page.url /\ page.url.to \in {"list", "mail"})

\* An attachment that is served belongs to the message on the page, and was listed.
Answered ==
  got.url.to = "attach" =>
    /\ page.url.to = "mail"
    /\ got.url.n \in Nat /\ got.url.n + 1 \in DOMAIN page.view.attach
    /\ LET m == mail[page.url.id] IN got.part \in {0, Served(m.parts, m.complains, got.url.n)}

\* On the way through the list, a message that was there at the start and has not
\* been seen is behind as many newer ones as the pages so far have room for.
Ahead(i)   == {j \in Live : Summary(j, FALSE).date > Summary(i, FALSE).date}
OwnDate(i) == \A j \in DOMAIN mail \ {i} : Summary(i, FALSE).date # Summary(j, FALSE).date
Underway ==
  /\ walk \in [at : Nat, start : SUBSET Ids, seen : SUBSET Ids]
  /\ walk.at > 0 =>
       /\ walk.start \subseteq Live
       /\ \A i \in walk.start \ walk.seen :
            OwnDate(i) => Cardinality(Ahead(i)) >= walk.at * PageSize

IInv == Stored /\ Current /\ Redirected /\ Answered /\ Underway

-----------------------------------------------------------------------------
(* Natural numbers.                                                        *)

\* A set of natural numbers that is not empty has a least element.
LEMMA LeastNat ==
  ASSUME NEW S \in SUBSET Nat, S # {}
  PROVE  \E i \in S : \A j \in S : i <= j
<1> DEFINE R == OpToRel(<, Nat)
<1>1. IsWellFoundedOn(R, Nat)
  BY NatLessThanWellFounded
<1>2. \A i, j \in Nat : j < i => <<j, i>> \in R
  BY DEF OpToRel
<1> HIDE DEF R
<1>3. PICK i \in S : \A j \in S : ~(<<j, i>> \in R)
  BY <1>1, WFMin
<1>4. \A j \in S : ~(j < i)
  BY <1>2, <1>3
<1> QED BY <1>3, <1>4

\* Induction, with a set in the place of a predicate.
LEMMA SetInduction ==
  ASSUME NEW S \in SUBSET Nat, 0 \in S, \A n \in S : n + 1 \in S
  PROVE  S = Nat
<1> SUFFICES ASSUME Nat \ S # {} PROVE FALSE
  OBVIOUS
<1>1. PICK i \in Nat \ S : \A j \in Nat \ S : i <= j
  BY LeastNat
<1>2. i # 0 /\ i - 1 \in Nat
  BY <1>1
<1>3. i - 1 \in S
  BY <1>1, <1>2
<1> QED BY <1>1, <1>2, <1>3

\* Min of a set of natural numbers.
LEMMA MinNat ==
  ASSUME NEW S \in SUBSET Nat, S # {}
  PROVE  Min(S) \in S /\ \A j \in S : Min(S) <= j
BY LeastNat DEF Min

\* Max of a set of bounded ones.
LEMMA MaxNat ==
  ASSUME NEW n \in Nat, NEW S \in SUBSET (1 .. n), S # {}
  PROVE  Max(S) \in S /\ \A j \in S : Max(S) >= j
<1> DEFINE T == {n - i : i \in S}
<1>1. T \in SUBSET Nat /\ T # {}
  <2>1. \A i \in S : n - i \in Nat
    OBVIOUS
  <2>2. T # {}
    <3>1. PICK i \in S : TRUE
      OBVIOUS
    <3> QED BY <3>1
  <2> QED BY <2>1, <2>2
<1>2. PICK t \in T : \A u \in T : t <= u
  BY <1>1, LeastNat
<1>3. PICK i \in S : t = n - i
  BY <1>2
<1>4. \A j \in S : i >= j
  <2> SUFFICES ASSUME NEW j \in S PROVE i >= j
    OBVIOUS
  <2>1. n - i <= n - j
    BY <1>2, <1>3
  <2> QED BY <2>1
<1> QED BY <1>4 DEF Max

-----------------------------------------------------------------------------
(* The loop of negotiateLang.                                              *)

NoLang == [lang |-> "", q |-> -10]

\* What the fold over a header computes, from the set of entries it has seen.
Round(g, h, s) == IF s = {} THEN NoLang ELSE Better(g[s \ {Max(s)}], h[Max(s)])
Rounds(h) == CHOOSE g : g = [s \in SUBSET DOMAIN h |-> Round(g, h, s)]

\* negotiateLang is the result of the last round.
LEMMA NegotiateRounds ==
  ASSUME NEW h
  PROVE  negotiateLang(h) = Rounds(h)[DOMAIN h].lang
BY DEF negotiateLang, FoldLeft, MapThenFoldSet, Rounds, Round, NoLang

\* The rounds are well defined.
LEMMA RoundsExist ==
  ASSUME NEW h, NEW n \in Nat
  PROVE  \E g : g = [s \in SUBSET (1 .. n) |-> Round(g, h, s)]
<1> DEFINE S == {k \in Nat : \E g : g = [s \in SUBSET (1 .. k) |-> Round(g, h, s)]}
<1>1. 0 \in S
  <2> DEFINE g == [s \in SUBSET (1 .. 0) |-> NoLang]
  <2>1. SUBSET (1 .. 0) = {{}}
    OBVIOUS
  <2>2. g = [s \in SUBSET (1 .. 0) |-> Round(g, h, s)]
    BY <2>1 DEF Round
  <2> QED BY <2>2
<1>2. ASSUME NEW k \in S PROVE k + 1 \in S
  <2>1. PICK f : f = [s \in SUBSET (1 .. k) |-> Round(f, h, s)]
    OBVIOUS
  <2> DEFINE g == [s \in SUBSET (1 .. k + 1) |-> Round(f, h, s)]
  <2>2. \A s \in SUBSET (1 .. k) : g[s] = f[s]
    <3>1. SUBSET (1 .. k) \subseteq SUBSET (1 .. k + 1)
      OBVIOUS
    <3> QED BY <2>1, <3>1
  <2>3. ASSUME NEW s \in SUBSET (1 .. k + 1), s # {}
        PROVE  s \ {Max(s)} \in SUBSET (1 .. k)
    <3>0. k \in Nat /\ k + 1 \in Nat
      OBVIOUS
    <3> HIDE DEF S, g
    <3>1. Max(s) \in s /\ \A j \in s : Max(s) >= j
      BY <2>3, <3>0, MaxNat
    <3>2. ASSUME NEW j \in s \ {Max(s)} PROVE j \in 1 .. k
      <4>1. j \in 1 .. k + 1 /\ Max(s) \in 1 .. k + 1 /\ Max(s) >= j /\ Max(s) # j
        BY <3>1
      <4> QED BY <3>0, <4>1
    <3> QED BY <3>2
  <2>4. \A s \in SUBSET (1 .. k + 1) : Round(f, h, s) = Round(g, h, s)
    <3> HIDE DEF g
    <3> QED BY <2>2, <2>3 DEF Round
  <2>5. g = [s \in SUBSET (1 .. k + 1) |-> Round(g, h, s)]
    BY <2>4
  <2> HIDE DEF g
  <2> QED BY <2>5
<1>3. S = Nat
  <2> HIDE DEF S
  <2>1. S \in SUBSET Nat
    BY DEF S
  <2> QED BY <1>1, <1>2, <2>1, SetInduction
<1> QED BY <1>3

\* One entry after the other.
LEMMA RoundByRound ==
  ASSUME NEW h \in Seq(Entry)
  PROVE  /\ Rounds(h)[1 .. 0] = NoLang
         /\ \A k \in 1 .. Len(h) : Rounds(h)[1 .. k] = Better(Rounds(h)[1 .. k - 1], h[k])
<1> DEFINE n == Len(h)
           g == Rounds(h)
<1>1. n \in Nat /\ DOMAIN h = 1 .. n
  OBVIOUS
<1>2. g = [s \in SUBSET (1 .. n) |-> Round(g, h, s)]
  BY <1>1, RoundsExist DEF Rounds
<1> HIDE DEF g, n
<1>3. g[1 .. 0] = NoLang
  <2>1. 1 .. 0 = {}
    OBVIOUS
  <2> QED BY <1>2, <2>1 DEF Round
<1>4. ASSUME NEW k \in 1 .. n
      PROVE  g[1 .. k] = Better(g[1 .. k - 1], h[k])
  <2>1. 1 .. k \in SUBSET (1 .. n) /\ 1 .. k # {}
    BY <1>1
  <2>2. Max(1 .. k) = k
    <3>1. k \in Nat /\ k \in 1 .. k
      BY <1>1
    <3>2. Max(1 .. k) \in 1 .. k /\ \A j \in 1 .. k : Max(1 .. k) >= j
      BY <2>1, <3>1, MaxNat
    <3> QED BY <3>1, <3>2
  <2>3. (1 .. k) \ {k} = 1 .. k - 1
    BY <1>1
  <2>4. g[1 .. k] = Round(g, h, 1 .. k)
    BY <1>2, <2>1
  <2> QED BY <2>1, <2>2, <2>3, <2>4 DEF Round
<1> QED BY <1>3, <1>4 DEF g, n

\* The entries up to k that count, and those that nobody is preferred to.
KnownTo(h, k) == {i \in 1 .. k : h[i].tag \in Languages /\ Weight(h[i]) > -10}
BestTo(h, k)  == {i \in KnownTo(h, k) : \A j \in KnownTo(h, k) : Weight(h[j]) <= Weight(h[i])}

\* After k rounds, best holds the first of the entries that nobody is preferred to.
BestIs(best, h, k) ==
  \/ KnownTo(h, k) = {} /\ best = NoLang
  \/ \E i \in BestTo(h, k) : /\ \A j \in BestTo(h, k) : i <= j
                             /\ best = [lang |-> h[i].tag, q |-> Weight(h[i])]

\* Weights are integers.
LEMMA Weights ==
  ASSUME NEW h \in Seq(Entry), NEW i \in 1 .. Len(h)
  PROVE  Weight(h[i]) \in Int
<1>1. h[i] \in Entry
  OBVIOUS
<1> QED BY <1>1 DEF Weight, Entry

\* A round keeps to that.
LEMMA BetterRound ==
  ASSUME NEW h \in Seq(Entry), NEW k \in 1 .. Len(h), NEW best, BestIs(best, h, k - 1)
  PROVE  BestIs(Better(best, h[k]), h, k)
<1> DEFINE w(i) == Weight(h[i])
           counts(i) == h[i].tag \in Languages /\ w(i) > -10
<1>0. k \in Nat /\ k - 1 \in Nat /\ \A i \in 1 .. k : w(i) \in Int
  BY Weights
<1>1. \A i : i \in KnownTo(h, k) <=> i \in KnownTo(h, k - 1) \/ (i = k /\ counts(k))
  BY <1>0 DEF KnownTo
<1>2. \A i \in KnownTo(h, k - 1) : i \in Nat /\ i < k /\ w(i) \in Int /\ w(i) > -10
  BY <1>0 DEF KnownTo
<1>3. w(k) \in Int
  BY <1>0
<1>4. \A m : \A i : i \in BestTo(h, m) <=>
                      i \in KnownTo(h, m) /\ \A j \in KnownTo(h, m) : w(j) <= w(i)
  BY DEF BestTo
<1>5. Better(best, h[k]) = IF h[k].tag \in Languages /\ w(k) > best.q
                           THEN [lang |-> h[k].tag, q |-> w(k)] ELSE best
  BY DEF Better
<1>6. CASE KnownTo(h, k - 1) = {} /\ best = NoLang
  <2>1. best.q = -10
    BY <1>6 DEF NoLang
  <2>2. CASE counts(k)
    <3>1. KnownTo(h, k) = {k}
      BY <1>1, <1>6, <2>2
    <3>2. BestTo(h, k) = {k}
      <4> HIDE DEF w
      <4> QED BY <1>3, <1>4, <3>1
    <3>3. Better(best, h[k]) = [lang |-> h[k].tag, q |-> Weight(h[k])]
      BY <1>5, <2>1, <2>2
    <3> QED BY <1>0, <3>2, <3>3 DEF BestIs
  <2>3. CASE ~counts(k)
    <3>1. KnownTo(h, k) = {}
      BY <1>1, <1>6, <2>3
    <3>2. Better(best, h[k]) = best
      BY <1>5, <2>1, <2>3
    <3> QED BY <1>6, <3>1, <3>2 DEF BestIs
  <2> QED BY <2>2, <2>3
<1>7. ASSUME NEW i \in BestTo(h, k - 1), \A j \in BestTo(h, k - 1) : i <= j,
             best = [lang |-> h[i].tag, q |-> Weight(h[i])]
      PROVE  BestIs(Better(best, h[k]), h, k)
  <2>0. best.q = w(i)
    BY <1>7
  <2>1. /\ i \in KnownTo(h, k - 1) /\ \A j \in KnownTo(h, k - 1) : w(j) <= w(i)
        /\ i \in Nat /\ i < k /\ w(i) \in Int /\ w(i) > -10
    BY <1>2, <1>4
  <2>2. CASE counts(k) /\ w(k) > w(i)
    <3>1. \A j : j \in BestTo(h, k) <=> j = k
      <4>1. \A j \in KnownTo(h, k) : w(j) <= w(k)
        <5> HIDE DEF w
        <5> QED BY <1>1, <1>2, <1>3, <2>1, <2>2
      <4>2. k \in KnownTo(h, k)
        BY <1>1, <2>2
      <4>3. ASSUME NEW j \in KnownTo(h, k - 1) PROVE ~(w(k) <= w(j))
        <5>1. w(j) <= w(i) /\ w(j) \in Int
          BY <1>2, <2>1
        <5> HIDE DEF w
        <5> QED BY <1>3, <2>1, <2>2, <5>1
      <4> QED BY <1>1, <1>4, <4>1, <4>2, <4>3
    <3>2. Better(best, h[k]) = [lang |-> h[k].tag, q |-> Weight(h[k])]
      BY <1>5, <2>0, <2>2
    <3> QED BY <1>0, <3>1, <3>2 DEF BestIs
  <2>3. CASE ~(counts(k) /\ w(k) > w(i))
    <3>1. Better(best, h[k]) = best
      <4> HIDE DEF w
      <4> QED BY <1>3, <1>5, <2>0, <2>1, <2>3 DEF w
    <3>2. i \in BestTo(h, k)
      <4>1. i \in KnownTo(h, k)
        BY <1>1, <2>1
      <4>2. counts(k) => w(k) <= w(i)
        <5> HIDE DEF w
        <5> QED BY <1>3, <2>1, <2>3
      <4> QED BY <1>1, <1>4, <2>1, <4>1, <4>2
    <3>3. ASSUME NEW j \in BestTo(h, k) PROVE i <= j
      <4>1. CASE j = k
        BY <1>0, <2>1, <4>1
      <4>2. CASE j # k
        <5>1. j \in KnownTo(h, k - 1) /\ \A m \in KnownTo(h, k - 1) : w(m) <= w(j)
          BY <1>1, <1>4, <3>3, <4>2
        <5> QED BY <1>4, <1>7, <5>1
      <4> QED BY <4>1, <4>2
    <3> QED BY <1>7, <3>1, <3>2, <3>3 DEF BestIs
  <2> QED BY <2>2, <2>3
<1> QED BY <1>6, <1>7 DEF BestIs

\* After all rounds.
LEMMA BestFound ==
  ASSUME NEW h \in Seq(Entry)
  PROVE  BestIs(Rounds(h)[1 .. Len(h)], h, Len(h))
<1> DEFINE S == {k \in Nat : k <= Len(h) => BestIs(Rounds(h)[1 .. k], h, k)}
<1>1. 0 \in S
  <2>1. KnownTo(h, 0) = {}
    BY DEF KnownTo
  <2> QED BY <2>1, RoundByRound DEF BestIs
<1>2. ASSUME NEW k \in S PROVE k + 1 \in S
  <2> SUFFICES ASSUME k + 1 <= Len(h)
               PROVE  BestIs(Rounds(h)[1 .. k + 1], h, k + 1)
    OBVIOUS
  <2>0. k \in Nat /\ Len(h) \in Nat
    OBVIOUS
  <2>1. k + 1 \in 1 .. Len(h) /\ (k + 1) - 1 = k
    BY <2>0
  <2>2. BestIs(Rounds(h)[1 .. k], h, k)
    BY <2>0
  <2>3. Rounds(h)[1 .. k + 1] = Better(Rounds(h)[1 .. k], h[k + 1])
    <3>1. Rounds(h)[1 .. k + 1] = Better(Rounds(h)[1 .. (k + 1) - 1], h[k + 1])
      BY <2>1, RoundByRound
    <3> QED BY <2>1, <3>1
  <2> HIDE DEF S
  <2>4. BestIs(Rounds(h)[1 .. k], h, (k + 1) - 1)
    BY <2>1, <2>2
  <2> QED BY <2>1, <2>3, <2>4, BetterRound
<1>3. S = Nat
  <2> HIDE DEF S
  <2>1. S \in SUBSET Nat
    BY DEF S
  <2> QED BY <1>1, <1>2, <2>1, SetInduction
<1>4. Len(h) \in S
  BY <1>3
<1> QED BY <1>4

\* negotiateLang, and catalogFor with it, finds the language that the reference
\* says is preferred, for every Accept-Language header.
THEOREM NegotiationCorrect ==
  ASSUME NEW h \in Seq(Entry), NEW c, c \notin Languages
  PROVE  catalogFor(c, h) = Preferred(h)
<1> DEFINE known == {k \in DOMAIN h : h[k].tag \in Languages /\ Weight(h[k]) > -10}
           best  == {k \in known : \A j \in known : Weight(h[j]) <= Weight(h[k])}
           final == Rounds(h)[1 .. Len(h)]
<1>1. known = KnownTo(h, Len(h)) /\ best = BestTo(h, Len(h))
  BY DEF KnownTo, BestTo
<1>2. negotiateLang(h) = final.lang
  <2>1. DOMAIN h = 1 .. Len(h)
    OBVIOUS
  <2> QED BY <2>1, NegotiateRounds
<1>3. Preferred(h) = IF best = {} THEN defaultLang
                     ELSE h[CHOOSE k \in best : \A j \in best : k <= j].tag
  BY DEF Preferred
<1>4. BestIs(final, h, Len(h))
  BY BestFound
<1>5. best \in SUBSET Nat /\ best \subseteq known
  OBVIOUS
<1> HIDE DEF best, final
<1>6. CASE known = {} /\ final = NoLang
  <2>1. best = {} /\ negotiateLang(h) = ""
    BY <1>2, <1>5, <1>6 DEF NoLang
  <2> QED BY <1>3, <2>1 DEF catalogFor, Languages
<1>7. ASSUME NEW i \in best, \A j \in best : i <= j,
             final = [lang |-> h[i].tag, q |-> Weight(h[i])]
      PROVE  catalogFor(c, h) = Preferred(h)
  <2>1. h[i].tag \in Languages
    BY <1>5
  <2>2. (CHOOSE k \in best : \A j \in best : k <= j) = i
    <3> DEFINE l == CHOOSE k \in best : \A j \in best : k <= j
    <3>1. l \in best /\ \A j \in best : l <= j
      BY <1>7
    <3> HIDE DEF l
    <3>2. l <= i /\ i <= l /\ l \in Nat /\ i \in Nat
      BY <1>5, <1>7, <3>1
    <3>3. l = i
      BY <3>2
    <3> QED BY <3>3 DEF l
  <2>3. negotiateLang(h) = h[i].tag
    BY <1>2, <1>7
  <2> QED BY <1>3, <2>1, <2>2, <2>3 DEF catalogFor
<1> QED BY <1>1, <1>4, <1>6, <1>7 DEF BestIs
-----------------------------------------------------------------------------
(* The language of the pages.                                              *)

\* What LanguageShown rests on: the choice is one of the languages, or none has
\* been made.
LanguageInv ==
  /\ cookie \in Languages \cup {None}
  /\ site \in Sites
  /\ LanguageShown

\* catalogFor finds the language that LanguageShown asks for.
LEMMA CatalogShown ==
  ASSUME cookie \in Languages \cup {None}, site \in Sites
  PROVE  catalogFor(cookie, site.accept) =
           IF cookie # None THEN cookie ELSE Preferred(site.accept)
<1>1. site.accept \in Seq(Entry)
  BY SitesAssumption DEF IsSite
<1>2. None \notin Languages
  BY NoneAssumption
<1>3. CASE cookie = None
  BY <1>1, <1>2, <1>3, NegotiationCorrect
<1>4. CASE cookie # None
  BY <1>4 DEF catalogFor
<1> QED BY <1>3, <1>4

\* The URLs of the pages that LanguageShown is not about.
LEMMA NotFoundUrl == NotFound.url.to = "404" /\ NewPage(NoUrl).url.to = "none"
BY DEF NotFound, NewPage, Url, NoUrl

\* A page is in the language that the user chose last, or else in the one that his
\* browser prefers: handleLang's redirection is followed before another page shows.
THEOREM LanguageShownCorrect == Spec => []LanguageShown
<1>1. Init => LanguageInv
  BY NotFoundUrl DEF Init, LanguageInv, LanguageShown
<1>2. LanguageInv /\ [Next]_vars => LanguageInv'
  <2> SUFFICES ASSUME LanguageInv, [Next]_vars PROVE LanguageInv'
    OBVIOUS
  <2> USE DEF LanguageInv
  <2>1. ASSUME UNCHANGED <<site, cookie>>, page'.lang = catalogFor(cookie, site.accept)
        PROVE  LanguageInv'
    BY <2>1, CatalogShown DEF LanguageShown
  <2>2. ASSUME UNCHANGED <<site, cookie, page, todo>> PROVE LanguageInv'
    BY <2>2 DEF LanguageShown
  <2>3. ASSUME UNCHANGED <<site, cookie>>, page' = NotFound PROVE LanguageInv'
    BY <2>3, NotFoundUrl DEF LanguageShown
  <2>4. ASSUME NEW url, handleList(url) PROVE LanguageInv'
    <3>1. page'.lang = catalogFor(cookie, site.accept)
      BY <2>4 DEF handleList, NewPage
    <3> QED BY <2>1, <2>4, <3>1 DEF handleList
  <2>5. ASSUME NEW url, handleView(url) PROVE LanguageInv'
    <3>1. page'.lang = catalogFor(cookie, site.accept) \/ page' = NotFound
      BY <2>5 DEF handleView, NewPage
    <3> QED BY <2>1, <2>3, <2>5, <3>1 DEF handleView
  <2>6. ASSUME NEW url, handleHTML(url) \/ handleAttach(url) PROVE LanguageInv'
    BY <2>2, <2>6 DEF handleHTML, handleAttach, Fetch
  <2>7. ASSUME NEW url, handleDelete(url) PROVE LanguageInv'
    <3>1. ListUrl(0) # NoUrl
      BY DEF ListUrl, NoUrl, Url
    <3>2. CASE todo' = ListUrl(0)
      BY <2>7, <3>1, <3>2 DEF handleDelete, LanguageShown
    <3>3. CASE page' = NotFound
      BY <2>3, <2>7, <3>3 DEF handleDelete
    <3> QED BY <2>7, <3>2, <3>3 DEF handleDelete
  <2>8. CASE handleLang
    <3>1. \E l \in Languages : l # page.lang
      BY DEF Languages
    <3>2. cookie' \in Languages
      BY <2>8, <3>1 DEF handleLang
    <3>3. todo' # NoUrl
      BY <2>8 DEF handleLang, NoUrl, Url
    <3> QED BY <2>8, <3>2, <3>3 DEF handleLang, LanguageShown
  <2>9. CASE Others
    BY <2>2, <2>9 DEF Others
  <2>10. CASE UNCHANGED vars
    BY <2>2, <2>10 DEF vars
  <2> QED BY <2>4, <2>5, <2>6, <2>7, <2>8, <2>9, <2>10 DEF Next, Serve
<1>3. LanguageInv => LanguageShown
  BY DEF LanguageInv
<1> QED BY <1>1, <1>2, <1>3, PTL DEF Spec
-----------------------------------------------------------------------------
(* The order of the list.                                                  *)

\* The parts of Sorted, by name.
Fits(e, s, k) == /\ \A j \in 1 .. k - 1 : s[j].date >= e.date
                 /\ \A j \in k .. Len(s) : s[j].date <= e.date
Insert(e, S) ==
  UNION {{InsertAt(s, k, e) : k \in {j \in 1 .. Len(s) + 1 : Fits(e, s, j)}} : s \in S}
Stage(g, T) == IF T = {} THEN {<< >>}
               ELSE LET x == CHOOSE x \in T : TRUE IN Insert(x, g[T \ {x}])
Stages(E) == CHOOSE g : g = [T \in SUBSET E |-> Stage(g, T)]

\* Sorted is the last stage.
LEMMA SortedStages == ASSUME NEW E PROVE Sorted(E) = Stages(E)[E]
BY DEF Sorted, FoldSet, MapThenFoldSet, Stages, Stage, Insert, Fits

\* The subsets with at most n elements.
Small(E, n) == {T \in SUBSET E : Cardinality(T) <= n}

\* What is left of a set without the element that is chosen is smaller.
LEMMA Smaller ==
  ASSUME NEW E, IsFiniteSet(E), NEW n \in Nat, NEW T \in Small(E, n + 1), T # {}, NEW x \in T
  PROVE  T \ {x} \in Small(E, n)
<1>1. IsFiniteSet(T) /\ T \in SUBSET E /\ Cardinality(T) <= n + 1
  BY FS_Subset DEF Small
<1>2. Cardinality(T) \in Nat /\ Cardinality(T \ {x}) = Cardinality(T) - 1
  BY <1>1, FS_CardinalityType, FS_RemoveElement
<1> QED BY <1>1, <1>2 DEF Small

\* The stages are well defined.
LEMMA StagesExist ==
  ASSUME NEW E, IsFiniteSet(E)
  PROVE  Stages(E) = [T \in SUBSET E |-> Stage(Stages(E), T)]
<1> DEFINE S == {n \in Nat : \E g : g = [T \in Small(E, n) |-> Stage(g, T)]}
<1>1. 0 \in S
  <2> DEFINE g == [T \in Small(E, 0) |-> {<< >>}]
  <2>1. \A T \in Small(E, 0) : T = {}
    <3> SUFFICES ASSUME NEW T \in Small(E, 0) PROVE T = {}
      OBVIOUS
    <3>1. IsFiniteSet(T) /\ Cardinality(T) <= 0
      BY FS_Subset DEF Small
    <3> QED BY <3>1, FS_CardinalityType, FS_EmptySet
  <2>2. g = [T \in Small(E, 0) |-> Stage(g, T)]
    BY <2>1 DEF Stage
  <2> QED BY <2>2
<1>2. ASSUME NEW n \in S PROVE n + 1 \in S
  <2>0. n \in Nat /\ n + 1 \in Nat
    OBVIOUS
  <2>1. PICK f : f = [T \in Small(E, n) |-> Stage(f, T)]
    OBVIOUS
  <2> DEFINE g == [T \in Small(E, n + 1) |-> Stage(f, T)]
  <2>2. \A T \in Small(E, n) : g[T] = f[T]
    <3>1. \A T \in Small(E, n) : T \in Small(E, n + 1)
      <4> SUFFICES ASSUME NEW T \in Small(E, n) PROVE T \in Small(E, n + 1)
        OBVIOUS
      <4>1. T \in SUBSET E /\ Cardinality(T) <= n /\ Cardinality(T) \in Nat
        BY FS_Subset, FS_CardinalityType DEF Small
      <4> QED BY <2>0, <4>1 DEF Small
    <3> QED BY <2>1, <3>1
  <2>3. ASSUME NEW T \in Small(E, n + 1), T # {}
        PROVE  T \ {CHOOSE x \in T : TRUE} \in Small(E, n)
    <3> HIDE DEF S, g
    <3>1. (CHOOSE x \in T : TRUE) \in T
      BY <2>3
    <3> QED BY <2>0, <2>3, <3>1, Smaller
  <2>4. \A T \in Small(E, n + 1) : Stage(f, T) = Stage(g, T)
    <3> HIDE DEF g
    <3> SUFFICES ASSUME NEW T \in Small(E, n + 1), T # {} PROVE Stage(f, T) = Stage(g, T)
      BY DEF Stage
    <3> DEFINE rest == T \ {CHOOSE x \in T : TRUE}
    <3>1. f[rest] = g[rest]
      BY <2>2, <2>3
    <3> QED BY <3>1 DEF Stage
  <2>5. g = [T \in Small(E, n + 1) |-> Stage(g, T)]
    BY <2>4
  <2> HIDE DEF g
  <2> QED BY <2>0, <2>5
<1>3. S = Nat
  <2> HIDE DEF S
  <2>1. S \in SUBSET Nat
    BY DEF S
  <2> QED BY <1>1, <1>2, <2>1, SetInduction
<1>4. Small(E, Cardinality(E)) = SUBSET E
  BY FS_Subset DEF Small
<1>5. Cardinality(E) \in S
  BY <1>3, FS_CardinalityType
<1>6. \E g : g = [T \in SUBSET E |-> Stage(g, T)]
  BY <1>4, <1>5
<1> QED BY <1>6 DEF Stages
\* What InsertAt does.
LEMMA Inserted ==
  ASSUME NEW U, NEW s \in Seq(U), NEW k \in 1 .. Len(s) + 1, NEW x \in U
  PROVE  /\ InsertAt(s, k, x) \in Seq(U)
         /\ Len(InsertAt(s, k, x)) = Len(s) + 1
         /\ \A j \in 1 .. Len(s) + 1 :
              InsertAt(s, k, x)[j] = IF j < k THEN s[j] ELSE IF j = k THEN x ELSE s[j - 1]
<1> DEFINE before == SubSeq(s, 1, k - 1)
           after  == SubSeq(s, k, Len(s))
<1>0. Len(s) \in Nat /\ k \in Nat
  OBVIOUS
<1>1. before \in Seq(U) /\ Len(before) = k - 1 /\ \A j \in 1 .. k - 1 : before[j] = s[j]
  BY <1>0
<1>2. after \in Seq(U) /\ Len(after) = Len(s) - k + 1
        /\ \A j \in 1 .. Len(s) - k + 1 : after[j] = s[k + j - 1]
  BY <1>0
<1>3. InsertAt(s, k, x) = before \o <<x>> \o after
  BY DEF InsertAt
<1> HIDE DEF before, after
<1>4. <<x>> \in Seq(U) /\ Len(<<x>>) = 1 /\ <<x>>[1] = x
  OBVIOUS
<1> DEFINE front == before \o <<x>>
<1>5. /\ front \in Seq(U) /\ Len(front) = k
      /\ \A j \in 1 .. k : front[j] = IF j < k THEN s[j] ELSE x
  BY <1>0, <1>1, <1>4
<1> HIDE DEF front
<1>6. front \o after \in Seq(U) /\ Len(front \o after) = Len(s) + 1
  BY <1>0, <1>2, <1>5
<1>7. ASSUME NEW j \in 1 .. Len(s) + 1
      PROVE  (front \o after)[j] = IF j < k THEN s[j] ELSE IF j = k THEN x ELSE s[j - 1]
  <2>1. CASE j <= k
    BY <1>0, <1>2, <1>5, <2>1
  <2>2. CASE j > k
    <3>1. (front \o after)[j] = after[j - k]
      BY <1>0, <1>2, <1>5, <2>2
    <3>2. j - k \in 1 .. Len(s) - k + 1 /\ k + (j - k) - 1 = j - 1
      BY <1>0, <2>2
    <3>3. after[j - k] = s[j - 1]
      BY <1>2, <3>2
    <3> QED BY <1>0, <2>2, <3>1, <3>3
  <2>3. j <= k \/ j > k
    BY <1>0
  <2> QED BY <2>1, <2>2, <2>3
<1> QED BY <1>3, <1>6, <1>7 DEF front

\* s lists the members of T, each once, newest first.
Arranged(s, T) ==
  /\ s \in Seq(T)
  /\ \A x \in T : \E k \in 1 .. Len(s) : s[k] = x
  /\ \A j, k \in 1 .. Len(s) : s[j] = s[k] => j = k
  /\ \A j, k \in 1 .. Len(s) : j < k => s[j].date >= s[k].date

\* Inserting an entry where it fits keeps to that.
LEMMA InsertArranged ==
  ASSUME NEW T, \A y \in T : y.date \in Nat, NEW x \in T,
         NEW s, Arranged(s, T \ {x}), NEW k \in 1 .. Len(s) + 1, Fits(x, s, k)
  PROVE  Arranged(InsertAt(s, k, x), T)
<1>0. s \in Seq(T)
  BY DEF Arranged
<1> DEFINE r == InsertAt(s, k, x)
           n == Len(s)
<1>1. s \in Seq(T) /\ n \in Nat /\ k \in Nat
  BY <1>0
<1>2. \A j \in 1 .. n : s[j] \in T /\ s[j] # x
  BY DEF Arranged
<1>3. /\ r \in Seq(T) /\ Len(r) = n + 1
      /\ \A j \in 1 .. n + 1 : r[j] = IF j < k THEN s[j] ELSE IF j = k THEN x ELSE s[j - 1]
  <2> HIDE DEF r, n
  <2>1. /\ InsertAt(s, k, x) \in Seq(T) /\ Len(InsertAt(s, k, x)) = Len(s) + 1
        /\ \A j \in 1 .. Len(s) + 1 :
             InsertAt(s, k, x)[j] = IF j < k THEN s[j] ELSE IF j = k THEN x ELSE s[j - 1]
    BY <1>0, Inserted
  <2> QED BY <2>1 DEF r, n
<1> HIDE DEF r
<1>4. ASSUME NEW y \in T PROVE \E j \in 1 .. n + 1 : r[j] = y
  <2>1. CASE y = x
    BY <1>1, <1>3, <2>1
  <2>2. CASE y # x
    <3>1. PICK j \in 1 .. n : s[j] = y
      BY <2>2 DEF Arranged
    <3>2. CASE j < k
      <4>1. j \in 1 .. n + 1
        BY <1>1
      <4>2. r[j] = y
        BY <1>3, <3>1, <3>2, <4>1
      <4> QED BY <4>1, <4>2
    <3>3. CASE j >= k
      <4>1. j + 1 \in 1 .. n + 1 /\ ~(j + 1 < k) /\ j + 1 # k /\ (j + 1) - 1 = j
        BY <1>1, <3>3
      <4> QED BY <1>3, <3>1, <4>1
    <3> QED BY <1>1, <3>2, <3>3
  <2> QED BY <2>1, <2>2
<1>5. ASSUME NEW i \in 1 .. n + 1, NEW j \in 1 .. n + 1, r[i] = r[j] PROVE i = j
  <2> DEFINE at(m) == IF m < k THEN m ELSE m - 1
  <2>1. \A m \in 1 .. n + 1 : m # k => at(m) \in 1 .. n /\ r[m] = s[at(m)] /\ r[m] # x
    BY <1>1, <1>2, <1>3
  <2>2. r[k] = x
    BY <1>1, <1>3
  <2>3. CASE i = k \/ j = k
    BY <1>5, <2>1, <2>2, <2>3
  <2>4. CASE i # k /\ j # k
    <3>1. at(i) = at(j)
      <4>1. at(i) \in 1 .. n /\ at(j) \in 1 .. n /\ s[at(i)] = s[at(j)]
        BY <1>5, <2>1, <2>4
      <4> HIDE DEF at
      <4> QED BY <4>1 DEF Arranged
    <3> QED BY <1>1, <2>4, <3>1
  <2> QED BY <2>3, <2>4
<1>6. ASSUME NEW i \in 1 .. n + 1, NEW j \in 1 .. n + 1, i < j PROVE r[i].date >= r[j].date
  <2>1. CASE j < k
    <3>1. r[i] = s[i] /\ r[j] = s[j] /\ i \in 1 .. n /\ j \in 1 .. n
      BY <1>1, <1>3, <1>6, <2>1
    <3> QED BY <1>6, <3>1 DEF Arranged
  <2>2. CASE j = k
    <3>1. r[i] = s[i] /\ r[j] = x /\ i \in 1 .. k - 1
      BY <1>1, <1>3, <1>6, <2>2
    <3> QED BY <3>1 DEF Fits
  <2>3. CASE j > k
    <3>0. r[j] = s[j - 1] /\ j - 1 \in 1 .. n /\ j - 1 \in k .. n
      BY <1>1, <1>3, <2>3
    <3>1. CASE i < k
      <4>1. r[i] = s[i] /\ i \in 1 .. n /\ i < j - 1
        BY <1>1, <1>3, <2>3, <3>1
      <4> QED BY <3>0, <4>1 DEF Arranged
    <3>2. CASE i = k
      <4>1. r[i] = x
        BY <1>1, <1>3, <3>2
      <4>2. s[j - 1].date <= x.date
        BY <3>0 DEF Fits
      <4>3. s[j - 1].date \in Nat /\ x.date \in Nat
        BY <1>2, <3>0
      <4> QED BY <3>0, <4>1, <4>2, <4>3
    <3>3. CASE i > k
      <4>1. r[i] = s[i - 1] /\ i - 1 \in 1 .. n /\ i - 1 < j - 1
        BY <1>1, <1>3, <1>6, <3>3
      <4> QED BY <3>0, <4>1 DEF Arranged
    <3> QED BY <1>1, <3>1, <3>2, <3>3
  <2> QED BY <1>1, <2>1, <2>2, <2>3
<1> QED BY <1>3, <1>4, <1>5, <1>6 DEF Arranged, r

\* Every result of Sorted lists the entries, each once, newest first.
LEMMA SortedArranged ==
  ASSUME NEW E, IsFiniteSet(E), \A x \in E : x.date \in Nat, NEW s \in Sorted(E)
  PROVE  Arranged(s, E)
<1> DEFINE g == Stages(E)
           S == {n \in Nat : \A T \in Small(E, n) : \A t \in g[T] : Arranged(t, T)}
<1>0. \A T \in SUBSET E : g[T] = Stage(g, T)
  BY StagesExist
<1> HIDE DEF g
<1>1. ASSUME NEW t \in g[{}] PROVE Arranged(t, {})
  <2>1. t = << >>
    BY <1>0, <1>1 DEF Stage
  <2> QED BY <2>1 DEF Arranged
<1>2. 0 \in S
  <2> SUFFICES ASSUME NEW T \in Small(E, 0) PROVE T = {}
    BY <1>1
  <2>1. IsFiniteSet(T) /\ Cardinality(T) <= 0
    BY FS_Subset DEF Small
  <2> QED BY <2>1, FS_CardinalityType, FS_EmptySet
<1>3. ASSUME NEW n \in S PROVE n + 1 \in S
  <2>0. n \in Nat /\ n + 1 \in Nat
    OBVIOUS
  <2> SUFFICES ASSUME NEW T \in Small(E, n + 1), NEW t \in g[T] PROVE Arranged(t, T)
    BY <2>0
  <2>1. CASE T = {}
    BY <1>1, <2>1
  <2>2. CASE T # {}
    <3> DEFINE x == CHOOSE x \in T : TRUE
    <3>1. x \in T /\ T \in SUBSET E
      BY <2>2 DEF Small
    <3>2. t \in Insert(x, g[T \ {x}])
      BY <1>0, <2>2, <3>1 DEF Stage
    <3> HIDE DEF x
    <3>3. T \ {x} \in Small(E, n)
      BY <2>0, <3>1, Smaller
    <3>4. PICK u \in g[T \ {x}] : \E k \in 1 .. Len(u) + 1 : Fits(x, u, k) /\ t = InsertAt(u, k, x)
      BY <3>2 DEF Insert
    <3>5. Arranged(u, T \ {x})
      BY <3>3, <3>4
    <3>6. \A y \in T : y.date \in Nat
      BY <3>1
    <3> HIDE DEF S
    <3> QED BY <3>1, <3>4, <3>5, <3>6, InsertArranged
  <2> QED BY <2>1, <2>2
<1>4. S = Nat
  <2> HIDE DEF S
  <2>1. S \in SUBSET Nat
    BY DEF S
  <2> QED BY <1>2, <1>3, <2>1, SetInduction
<1>5. E \in Small(E, Cardinality(E)) /\ Cardinality(E) \in S
  BY <1>4, FS_CardinalityType DEF Small
<1>6. s \in g[E]
  BY SortedStages DEF g
<1> QED BY <1>5, <1>6
-----------------------------------------------------------------------------
(* The verdict in the header.                                              *)

\* What SpamShown means by marked.
Marked(m) == \/ m.action = "spam"
             \/ \E k \in Folded(<<Other>> \o m.head, 1) \ {1} : m.head[k - 1].spam

\* The elements of a concatenation.
LEMMA Concat ==
  ASSUME NEW U, NEW s \in Seq(U), NEW t \in Seq(U)
  PROVE  /\ s \o t \in Seq(U) /\ Len(s \o t) = Len(s) + Len(t)
         /\ \A k \in 1 .. Len(s) : (s \o t)[k] = s[k]
         /\ \A k \in 1 .. Len(t) : (s \o t)[k + Len(s)] = t[k]
OBVIOUS

\* The line with the verdict.
LEMMA StatusLine ==
  ASSUME NEW action
  PROVE  /\ SpamStatusHeader(action).field = "status"
         /\ SpamStatusHeader(action).spam <=> action = "spam"
BY DEF SpamStatusHeader

\* The lines of the header that is stored.
LEMMA InjectedLines ==
  ASSUME NEW m \in Mail
  PROVE  LET H == injectHeaders(m.action, m.head)
         IN  /\ H \in Seq(Line) /\ Len(H) = Len(m.head) + 2
             /\ H[1] = Other /\ H[2] = SpamStatusHeader(m.action)
             /\ \A k \in 1 .. Len(m.head) : H[k + 2] = m.head[k]
<1> DEFINE own == <<Other, SpamStatusHeader(m.action)>>
<1>1. m.head \in Seq(Line)
  BY DEF Mail
<1>2. Other \in Line /\ SpamStatusHeader(m.action) \in Line
  BY DEF Other, SpamStatusHeader, Line
<1>3. own \in Seq(Line) /\ Len(own) = 2 /\ own[1] = Other /\ own[2] = SpamStatusHeader(m.action)
  BY <1>2
<1>4. injectHeaders(m.action, m.head) = own \o m.head
  BY DEF injectHeaders
<1> HIDE DEF own
<1> DEFINE head == m.head
           H == own \o head
<1>5. head \in Seq(Line) /\ Len(head) \in Nat
  BY <1>1
<1> HIDE DEF head
<1>6. /\ H \in Seq(Line) /\ Len(H) = 2 + Len(head)
      /\ \A k \in 1 .. 2 : H[k] = own[k]
      /\ \A k \in 1 .. Len(head) : H[k + 2] = head[k]
  <2>1. /\ H \in Seq(Line) /\ Len(H) = Len(own) + Len(head)
        /\ \A k \in 1 .. Len(own) : H[k] = own[k]
        /\ \A k \in 1 .. Len(head) : H[k + Len(own)] = head[k]
    <3>1. own \in Seq(Line) /\ head \in Seq(Line)
      BY <1>3, <1>5
    <3> QED BY ONLY <3>1, Concat
  <2> QED BY <1>3, <2>1, Zenon
<1>7. 2 + Len(head) = Len(head) + 2 /\ H[1] = own[1] /\ H[2] = own[2]
  BY <1>5, <1>6
<1> HIDE DEF H
<1> QED BY <1>3, <1>4, <1>6, <1>7 DEF H, head

\* The first X-Spam-Status of a beginning of that header is the server's own.
LEMMA FirstStatus ==
  ASSUME NEW m \in Mail, NEW P \in Seq(Line), 2 <= Len(P), Len(P) <= Len(m.head) + 2,
         \A k \in 1 .. Len(P) : P[k] = injectHeaders(m.action, m.head)[k]
  PROVE  SaysSpam(P) <=> Parses(P) /\ \E k \in Folded(P, 2) : P[k].spam
<1> DEFINE status == {k \in DOMAIN P : P[k].field = "status"}
<1>1. Len(P) \in Nat /\ DOMAIN P = 1 .. Len(P) /\ 1 \in 1 .. Len(P) /\ 2 \in 1 .. Len(P)
  OBVIOUS
<1>2. P[1].field = "other" /\ P[2].field = "status"
  <2>1. P[1] = Other /\ P[2] = SpamStatusHeader(m.action)
    BY <1>1, InjectedLines
  <2> QED BY <2>1, StatusLine DEF Other
<1>3. 2 \in status /\ status \in SUBSET Nat /\ \A k \in status : k # 1 /\ k >= 1
  BY <1>1, <1>2
<1> HIDE DEF status
<1>4. Min(status) = 2
  <2>1. Min(status) \in status /\ Min(status) <= 2
    BY <1>3, MinNat
  <2>2. Min(status) \in Nat /\ Min(status) >= 1 /\ Min(status) # 1
    BY <1>3, <2>1
  <2> QED BY <2>1, <2>2
<1>5. SaysSpam(P) <=> Has(P, "status") /\ \E k \in Folded(P, Min(status)) : P[k].spam
  BY DEF SaysSpam, status
<1>6. Has(P, "status") <=> Parses(P)
  BY <1>1, <1>2 DEF Has
<1> QED BY <1>4, <1>5, <1>6

\* What a beginning of the header says about the verdict.
LEMMA PrefixVerdict ==
  ASSUME NEW m \in Mail, NEW P \in Seq(Line), 2 <= Len(P), Len(P) <= Len(m.head) + 2,
         \A k \in 1 .. Len(P) : P[k] = injectHeaders(m.action, m.head)[k]
  PROVE  /\ Parses(P) /\ m.action = "spam" => SaysSpam(P)
         /\ SaysSpam(P) => Marked(m)
         /\ Len(P) = Len(m.head) + 2 /\ Parses(P) /\ Marked(m) => SaysSpam(P)
<1> DEFINE head == m.head
           G == <<Other>> \o head
           n == Len(head)
<1>0. head \in Seq(Line) /\ n \in Nat /\ Len(P) \in Nat
  BY DEF Mail
<1>1. G \in Seq(Line) /\ Len(G) = n + 1 /\ \A k \in 1 .. n : G[k + 1] = head[k]
  <2>1. Other \in Line
    BY DEF Other, Line
  <2>2. <<Other>> \in Seq(Line) /\ Len(<<Other>>) = 1
    BY <2>1
  <2> QED BY <1>0, <2>2
<1> HIDE DEF G
<1>2. P[2].spam <=> m.action = "spam"
  <2>1. 2 \in 1 .. Len(P)
    BY <1>0
  <2>2. P[2] = SpamStatusHeader(m.action)
    BY <2>1, InjectedLines
  <2> QED BY <2>2, StatusLine
<1>3. \A k \in 3 .. Len(P) : P[k] = head[k - 2] /\ k - 2 \in 1 .. n
  <2> SUFFICES ASSUME NEW k \in 3 .. Len(P) PROVE P[k] = head[k - 2] /\ k - 2 \in 1 .. n
    OBVIOUS
  <2>1. k - 2 \in 1 .. n /\ (k - 2) + 2 = k /\ k \in 1 .. Len(P)
    BY <1>0
  <2> QED BY <2>1, InjectedLines
<1>4. \A k \in 2 .. n + 1 : G[k] = head[k - 1]
  <2> SUFFICES ASSUME NEW k \in 2 .. n + 1 PROVE G[k] = head[k - 1]
    OBVIOUS
  <2>1. k - 1 \in 1 .. n /\ (k - 1) + 1 = k
    BY <1>0
  <2> QED BY <1>1, <2>1
<1> HIDE DEF head, n
<1>5. \A j \in 3 .. Len(P) : P[j] = G[j - 1] /\ j - 1 \in 2 .. n + 1
  <2> SUFFICES ASSUME NEW j \in 3 .. Len(P) PROVE P[j] = G[j - 1] /\ j - 1 \in 2 .. n + 1
    OBVIOUS
  <2>1. j - 1 \in 2 .. n + 1 /\ (j - 1) - 1 = j - 2
    BY <1>0, <1>3
  <2> QED BY <1>3, <1>4, <2>1
<1>6. ASSUME NEW j \in 3 .. Len(P)
      PROVE  j \in Folded(P, 2) <=> j - 1 \in Folded(G, 1)
  <2>0. j - 1 \in 1 .. n + 1 /\ j \in 2 .. Len(P) /\ j \in Nat
    BY <1>0, <1>5
  <2>1. j \in Folded(P, 2) <=> \A k \in 3 .. j : P[k].field = "fold"
    BY <2>0 DEF Folded
  <2>2. j - 1 \in Folded(G, 1) <=> \A k \in 2 .. j - 1 : G[k].field = "fold"
    BY <1>1, <2>0 DEF Folded
  <2>3. ASSUME \A k \in 3 .. j : P[k].field = "fold", NEW k \in 2 .. j - 1
        PROVE  G[k].field = "fold"
    <3>1. k + 1 \in 3 .. j /\ (k + 1) - 1 = k /\ k + 1 \in 3 .. Len(P)
      BY <1>0, <2>0
    <3>2. P[k + 1] = G[(k + 1) - 1]
      BY <1>5, <3>1
    <3> QED BY <2>3, <3>1, <3>2
  <2>4. ASSUME \A k \in 2 .. j - 1 : G[k].field = "fold", NEW k \in 3 .. j
        PROVE  P[k].field = "fold"
    <3>1. k - 1 \in 2 .. j - 1 /\ k \in 3 .. Len(P)
      BY <1>0, <2>0
    <3> QED BY <1>5, <2>4, <3>1
  <2> QED BY <2>1, <2>2, <2>3, <2>4
<1>7. SaysSpam(P) <=> Parses(P) /\ \E k \in Folded(P, 2) : P[k].spam
  BY FirstStatus
<1>8. 2 \in Folded(P, 2)
  BY <1>0 DEF Folded
<1>9. Parses(P) /\ m.action = "spam" => SaysSpam(P)
  BY <1>2, <1>7, <1>8
<1>10. Marked(m) <=> m.action = "spam" \/ \E k \in Folded(G, 1) \ {1} : head[k - 1].spam
  BY DEF Marked, G, head
<1>11. ASSUME SaysSpam(P) PROVE Marked(m)
  <2>1. PICK k \in Folded(P, 2) : P[k].spam
    BY <1>7, <1>11
  <2>2. CASE k = 2
    BY <1>2, <1>10, <2>1, <2>2
  <2>3. CASE k # 2
    <3>1. k \in 3 .. Len(P)
      BY <1>0, <2>3 DEF Folded
    <3>2. k - 1 \in Folded(G, 1) /\ k - 1 # 1 /\ (k - 1) - 1 = k - 2
      BY <1>0, <1>6, <3>1
    <3>3. head[(k - 1) - 1].spam
      BY <1>3, <2>1, <3>1, <3>2
    <3> QED BY <1>10, <3>2, <3>3
  <2> QED BY <2>2, <2>3
<1>12. ASSUME Len(P) = n + 2, Parses(P), Marked(m) PROVE SaysSpam(P)
  <2>1. CASE m.action = "spam"
    BY <1>9, <1>12, <2>1
  <2>2. ASSUME NEW k \in Folded(G, 1) \ {1}, head[k - 1].spam PROVE SaysSpam(P)
    <3>1. k \in 2 .. n + 1
      BY <1>0, <1>1 DEF Folded
    <3>2. k + 1 \in 3 .. Len(P) /\ (k + 1) - 1 = k /\ (k + 1) - 2 = k - 1
      BY <1>0, <1>12, <3>1
    <3>3. k + 1 \in Folded(P, 2) /\ P[k + 1].spam
      BY <1>3, <1>6, <2>2, <3>2
    <3> QED BY <1>7, <1>12, <3>3
  <2> QED BY <1>10, <1>12, <2>1, <2>2
<1> QED BY <1>9, <1>11, <1>12 DEF n, head
-----------------------------------------------------------------------------
(* The store.                                                              *)

Arrived(i) == i \in Ids /\ box[i] # "absent"

\* What no step undoes.
Grows ==
  /\ UNCHANGED site
  /\ box' \in [Ids -> Store!Status]
  /\ \A i \in Ids : /\ box[i] # "absent" => box'[i] # "absent"
                    /\ box'[i] # "absent" => box[i] # "absent" \/ i \in DOMAIN mail

\* A message that has arrived is one of the site's.
LEMMA ArrivedMail ==
  ASSUME Stored, NEW i, Arrived(i)
  PROVE  i \in DOMAIN mail /\ mail[i] \in Mail
<1>1. i \in DOMAIN mail /\ site \in Sites
  BY DEF Stored, Arrived
<1>2. mail \in [DOMAIN mail -> Mail]
  BY <1>1, SitesAssumption DEF IsSite, mail
<1> QED BY <1>1, <1>2

\* Messages that can be opened have arrived.
LEMMA LiveArrived == \A i \in Live : Arrived(i)
BY DEF Live, Arrived

\* The operations of Mailbox.
LEMMA BecomeGrows ==
  ASSUME Stored, UNCHANGED site, NEW i, NEW from, NEW to \in {"unread", "read", "deleted"},
         Store!Become(i, from, to), "absent" \notin from \/ i \in DOMAIN mail
  PROVE  Grows
<1>1. box' = [box EXCEPT ![i] = to] /\ box[i] \in from
  BY DEF Store!Become
<1>2. to \in Store!Status /\ to # "absent"
  BY DEF Store!Status
<1> QED BY <1>1, <1>2 DEF Grows, Stored

\* Open and Missed.
LEMMA OpenGrows ==
  ASSUME Stored, UNCHANGED site, NEW i, Open(i) \/ Missed(i)
  PROVE  Grows
<1>1. CASE Open(i)
  BY <1>1 DEF Open, Live, Stored, Grows, Store!Status
<1>2. CASE UNCHANGED box
  BY <1>2 DEF Stored, Grows
<1>3. CASE Store!MarkRead(i)
  BY <1>3, BecomeGrows DEF Store!MarkRead
<1> QED BY <1>1, <1>2, <1>3 DEF Missed

\* Every step.
LEMMA NextGrows ==
  ASSUME Stored, [Next]_vars
  PROVE  Grows
<1>1. ASSUME NEW url, handleList(url) PROVE Grows
  <2>1. PICK moved \in {{}} \cup {{i} : i \in {j \in Ids : box[j] = "unread"}} :
          box' = [i \in Ids |-> IF i \in moved THEN "read" ELSE box[i]]
    BY <1>1 DEF handleList
  <2>2. UNCHANGED site
    BY <1>1 DEF handleList
  <2>3. \A i \in moved : box[i] = "unread"
    OBVIOUS
  <2>4. "read" \in Store!Status /\ box \in [Ids -> Store!Status]
    BY DEF Stored, Store!Status
  <2> QED BY <2>1, <2>2, <2>3, <2>4 DEF Grows
<1>2. ASSUME NEW url, handleView(url) PROVE Grows
  BY <1>2, OpenGrows DEF handleView
<1>3. ASSUME NEW url, handleHTML(url) \/ handleAttach(url) PROVE Grows
  BY <1>3, OpenGrows DEF handleHTML, handleAttach, Fetch
<1>4. ASSUME NEW url, handleDelete(url) PROVE Grows
  <2>1. UNCHANGED site
    BY <1>4 DEF handleDelete
  <2>2. CASE Store!Remove(url.id)
    BY <2>1, <2>2, BecomeGrows DEF Store!Remove
  <2>3. CASE Missed(url.id)
    BY <2>1, <2>3, OpenGrows
  <2> QED BY <1>4, <2>2, <2>3 DEF handleDelete
<1>5. CASE UNCHANGED <<site, box>>
  BY <1>5 DEF Stored, Grows
<1>6. CASE Others
  <2>1. UNCHANGED site
    BY <1>6 DEF Others
  <2>2. CASE \E i \in DOMAIN mail : Store!Deliver(i)
    BY <2>1, <2>2, BecomeGrows DEF Store!Deliver
  <2>3. CASE \E i \in Ids : Store!MarkRead(i)
    BY <2>1, <2>3, BecomeGrows DEF Store!MarkRead
  <2>4. CASE \E i \in Ids : Store!Remove(i)
    BY <2>1, <2>4, BecomeGrows DEF Store!Remove
  <2> QED BY <1>6, <2>2, <2>3, <2>4 DEF Others
<1>7. handleLang \/ UNCHANGED vars => UNCHANGED <<site, box>>
  BY DEF handleLang, vars
<1> QED BY <1>1, <1>2, <1>3, <1>4, <1>5, <1>6, <1>7 DEF Next, Serve

\* What that keeps.
LEMMA GrowsStored ==
  ASSUME Stored, Grows
  PROVE  Stored' /\ \A i : Arrived(i) => Arrived(i)'
BY DEF Stored, Grows, Arrived, mail
-----------------------------------------------------------------------------
(* What List returns.                                                      *)

\* A header as List reads it, if it parses, is a beginning of the one stored.
LEMMA PeekedPrefix ==
  ASSUME NEW m \in Mail, NEW torn, Parses(Peeked(injectHeaders(m.action, m.head), torn))
  PROVE  LET P == Peeked(injectHeaders(m.action, m.head), torn)
         IN  /\ P \in Seq(Line) /\ 2 <= Len(P) /\ Len(P) <= Len(m.head) + 2
             /\ \A k \in 1 .. Len(P) : P[k] = injectHeaders(m.action, m.head)[k]
<1> DEFINE H == injectHeaders(m.action, m.head)
           P == Peeked(H, torn)
           cut == SubSeq(H, 1, PeekLines)
           junk == [field |-> "junk", spam |-> FALSE]
<1>1. H \in Seq(Line) /\ Len(H) = Len(m.head) + 2 /\ Len(H) >= 2 /\ Len(H) \in Nat
  <2>1. m.head \in Seq(Line)
    BY DEF Mail
  <2>2. Len(m.head) \in Nat
    BY <2>1
  <2> QED BY <2>2, InjectedLines
<1> HIDE DEF H
<1>2. CASE Len(H) <= PeekLines
  <2>1. P = H
    BY <1>2 DEF Peeked
  <2> QED BY <1>1, <2>1 DEF H
<1>3. CASE ~(Len(H) <= PeekLines)
  <2>1. PeekLines \in Nat /\ PeekLines >= 2 /\ PeekLines <= Len(H)
    BY <1>1, <1>3, PeekAssumption
  <2>2. cut \in Seq(Line) /\ Len(cut) = PeekLines /\ \A k \in 1 .. PeekLines : cut[k] = H[k]
    BY <1>1, <2>1
  <2> HIDE DEF cut
  <2>3. CASE torn
    <3>1. P = cut \o <<junk>>
      BY <1>3, <2>3 DEF Peeked, cut
    <3>2. junk \in Line
      BY DEF Line
    <3> HIDE DEF junk
    <3>3. <<junk>> \in Seq(Line) /\ Len(<<junk>>) = 1 /\ <<junk>>[1] = junk
      BY <3>2
    <3>4. DOMAIN P = 1 .. PeekLines + 1 /\ P[PeekLines + 1] = junk
      BY <2>1, <2>2, <3>1, <3>3
    <3>5. PeekLines + 1 \in DOMAIN P
      BY <2>1, <3>4
    <3>6. junk.field = "junk"
      BY DEF junk
    <3> QED BY <3>4, <3>5, <3>6 DEF Parses, H
  <2>4. CASE ~torn
    <3>1. P = cut \o << >>
      BY <1>3, <2>4 DEF Peeked, cut
    <3>2. cut \o << >> = cut
      BY <2>2
    <3>3. P = cut
      BY <3>1, <3>2
    <3>4. PeekLines <= Len(m.head) + 2
      BY <1>1, <2>1
    <3> HIDE DEF P
    <3> QED BY <2>1, <2>2, <3>3, <3>4 DEF P, H
  <2> QED BY <2>3, <2>4
<1> QED BY <1>2, <1>3 DEF H

\* What an entry of the list says of its message.
Tells(e) ==
  /\ Arrived(e.id)
  /\ e.date \in Nat
  /\ e.filled => (mail[e.id].action = "spam" => e.spam) /\ (e.spam => Marked(mail[e.id]))

\* Entries with headers do.
LEMMA SummaryTells ==
  ASSUME Stored, NEW i, Arrived(i), NEW again
  PROVE  Summary(i, again).id = i /\ Tells(Summary(i, again))
<1> DEFINE P == Peeked(Header(i), mail[i].torn)
           e == Summary(i, again)
<1>1. mail[i] \in Mail
  BY ArrivedMail
<1>2. mail[i].date \in Nat
  BY <1>1 DEF Mail
<1>3. ASSUME Parses(P)
      PROVE  (mail[i].action = "spam" => SaysSpam(P)) /\ (SaysSpam(P) => Marked(mail[i]))
  <2>1. P = Peeked(injectHeaders(mail[i].action, mail[i].head), mail[i].torn)
    BY DEF Header
  <2> QED BY <1>1, <1>3, <2>1, PeekedPrefix, PrefixVerdict
<1>4. /\ e.id = i /\ e.filled = Parses(P) /\ e.spam = SaysSpam(P)
      /\ e.date = IF Has(P, "date") THEN mail[i].date ELSE 0
  BY DEF Summary
<1> HIDE DEF e, P
<1>5. e.date \in Nat
  BY <1>2, <1>4
<1> QED BY <1>3, <1>4, <1>5 DEF Tells, e

\* The image of a finite set.
LEMMA FiniteImage ==
  ASSUME NEW S, IsFiniteSet(S), NEW f, f \in [S -> {f[x] : x \in S}]
  PROVE  IsFiniteSet({f[x] : x \in S})
<1>1. f \in Surjection(S, {f[x] : x \in S})
  BY DEF Surjection
<1> QED BY <1>1, FS_Surjection

\* There are finitely many entries, and each tells what it should.
LEMMA EntriesTell ==
  ASSUME Stored, NEW moved \in SUBSET Live, NEW bare \in SUBSET moved
  PROVE  /\ IsFiniteSet(Entries(moved, bare))
         /\ \A e \in Entries(moved, bare) : Tells(e)
<1>1. \A S \in SUBSET Live : IsFiniteSet(S)
  BY SitesAssumption, FS_Subset DEF Live
<1>2. ASSUME NEW S \in SUBSET Live, NEW again PROVE IsFiniteSet({Summary(i, again) : i \in S})
  <2> DEFINE f == [i \in S |-> Summary(i, again)]
  <2>1. {f[i] : i \in S} = {Summary(i, again) : i \in S} /\ f \in [S -> {f[i] : i \in S}]
    OBVIOUS
  <2> HIDE DEF f
  <2> QED BY <1>1, <2>1, FiniteImage, SMTT(40)
<1>3. IsFiniteSet({Bare(i) : i \in bare})
  <2> DEFINE f == [i \in bare |-> Bare(i)]
  <2>1. {f[i] : i \in bare} = {Bare(i) : i \in bare} /\ f \in [bare -> {f[i] : i \in bare}]
    OBVIOUS
  <2> HIDE DEF f
  <2>2. bare \in SUBSET Live
    OBVIOUS
  <2>3. IsFiniteSet(bare)
    BY <1>1, <2>2
  <2>4. IsFiniteSet({f[i] : i \in bare})
    BY <2>1, <2>3, FiniteImage
  <2> QED BY <2>1, <2>4
<1>4. IsFiniteSet(Entries(moved, bare))
  <2>1. Live \ bare \in SUBSET Live
    OBVIOUS
  <2>2. IsFiniteSet({Summary(i, FALSE) : i \in Live \ bare})
          /\ IsFiniteSet({Summary(i, TRUE) : i \in moved})
    BY <1>2, <2>1
  <2> QED BY <1>3, <2>2, FS_Union DEF Entries
<1>5. \A i \in Live : Arrived(i)
  BY LiveArrived
<1>6. \A i \in Live : \A again : Tells(Summary(i, again))
  BY <1>5, SummaryTells
<1>7. \A i \in Live : Tells(Bare(i))
  BY <1>5 DEF Tells, Bare
<1> QED BY <1>4, <1>6, <1>7 DEF Entries
-----------------------------------------------------------------------------
(* The pages of the list.                                                  *)

\* The parts of handleList, by name.
Start(p)       == (p - 1) * PageSize
Shown(msgs, p) == SubSeq(msgs, Start(p) + 1, Min({Start(p) + PageSize, Len(msgs)}))

\* The pages have room for all messages, and the number asked for is one of theirs.
LEMMA ClampedFits ==
  ASSUME NEW n \in Int, NEW total \in Nat
  PROVE  /\ Pages(total) \in Nat \ {0}
         /\ Clamped(n, Pages(total)) \in 1 .. Pages(total)
         /\ total <= Pages(total) * PageSize
<1>0. PageSize \in Nat /\ PageSize >= 1
  BY PageSizeAssumption
<1>1. Pages(total) \in Nat \ {0} /\ total <= Pages(total) * PageSize
  <2>1. CASE total = 0
    BY <1>0, <2>1 DEF Pages
  <2>2. CASE total # 0
    <3> DEFINE a == total + PageSize - 1
    <3>1. a \in Nat /\ a >= PageSize
      BY <1>0, <2>2
    <3>2. Pages(total) = a \div PageSize
      BY <2>2 DEF Pages
    <3> HIDE DEF a
    <3>3. /\ a \div PageSize \in Nat /\ a \div PageSize >= 1
          /\ a < (a \div PageSize) * PageSize + PageSize
      BY <1>0, <3>1
    <3> DEFINE b == (a \div PageSize) * PageSize
    <3>4. b \in Nat
      BY <1>0, <3>3
    <3>5. a < b + PageSize
      BY <3>3
    <3> HIDE DEF b
    <3>6. total <= b
      BY <1>0, <3>4, <3>5 DEF a
    <3> QED BY <3>2, <3>3, <3>6 DEF b
  <2> QED BY <2>1, <2>2
<1>2. Clamped(n, Pages(total)) \in 1 .. Pages(total)
  BY <1>1 DEF Clamped
<1> QED BY <1>1, <1>2

\* Page p shows the messages from place Start(p) + 1 on, as many as it has room for.
LEMMA ShownFits ==
  ASSUME NEW U, NEW msgs \in Seq(U), NEW p \in Nat \ {0}
  PROVE  /\ Start(p) \in Nat
         /\ \A k \in DOMAIN Shown(msgs, p) :
              k \in Nat /\ Start(p) + k \in 1 .. Len(msgs) /\ Shown(msgs, p)[k] = msgs[Start(p) + k]
         /\ \A q \in 1 .. Len(msgs) :
              Start(p) < q /\ q <= Start(p) + PageSize =>
                \E k \in DOMAIN Shown(msgs, p) : Shown(msgs, p)[k] = msgs[q]
<1> DEFINE a == Start(p)
           b == Min({a + PageSize, Len(msgs)})
           n == Len(msgs)
<1>0. PageSize \in Nat /\ n \in Nat
  BY PageSizeAssumption
<1>1. a \in Nat
  <2>1. p - 1 \in Nat
    OBVIOUS
  <2> QED BY <1>0, <2>1 DEF Start
<1> HIDE DEF a
<1>2. b \in Nat /\ b <= n /\ b <= a + PageSize /\ (b = n \/ b = a + PageSize)
  <2> DEFINE S == {a + PageSize, n}
  <2>1. S \in SUBSET Nat /\ S # {} /\ n \in S /\ a + PageSize \in S
    BY <1>0, <1>1
  <2>2. \A x \in S : x = a + PageSize \/ x = n
    OBVIOUS
  <2>3. b = Min(S)
    OBVIOUS
  <2> HIDE DEF S, b
  <2>4. b \in S /\ \A x \in S : b <= x
    BY <2>1, <2>3, MinNat
  <2> QED BY <2>1, <2>2, <2>4
<1>3. Shown(msgs, p) = SubSeq(msgs, a + 1, b)
  BY DEF Shown, a
<1> HIDE DEF b
<1>4. SubSeq(msgs, a + 1, b) = [k \in 1 .. b - (a + 1) + 1 |-> msgs[a + 1 + k - 1]]
  BY <1>0, <1>1, <1>2
<1>5. ASSUME NEW k \in DOMAIN Shown(msgs, p)
      PROVE  k \in Nat /\ a + k \in 1 .. n /\ Shown(msgs, p)[k] = msgs[a + k]
  <2>1. k \in 1 .. b - (a + 1) + 1 /\ Shown(msgs, p)[k] = msgs[a + 1 + k - 1]
    BY <1>3, <1>4, <1>5
  <2>2. a + 1 + k - 1 = a + k /\ k \in Nat /\ a + k \in 1 .. n
    BY <1>0, <1>1, <1>2, <2>1
  <2> QED BY <2>1, <2>2
<1>6. ASSUME NEW q \in 1 .. n, a < q, q <= a + PageSize
      PROVE  \E k \in DOMAIN Shown(msgs, p) : Shown(msgs, p)[k] = msgs[q]
  <2>1. q - a \in 1 .. b - (a + 1) + 1 /\ a + 1 + (q - a) - 1 = q
    BY <1>0, <1>1, <1>2, <1>6
  <2>2. q - a \in DOMAIN Shown(msgs, p) /\ Shown(msgs, p)[q - a] = msgs[q]
    BY <1>3, <1>4, <2>1
  <2> QED BY <2>2
<1> QED BY <1>1, <1>5, <1>6 DEF a, n
-----------------------------------------------------------------------------
(* The numbers of the attachments.                                         *)

\* A set of indices is finite.
LEMMA FiniteIndices ==
  ASSUME NEW n \in Nat, NEW S \in SUBSET (1 .. n)
  PROVE  IsFiniteSet(S) /\ S \in SUBSET Nat /\ 0 \notin S
<1>1. 1 \in Int /\ n \in Int
  OBVIOUS
<1>2. IsFiniteSet(1 .. n)
  BY <1>1, FS_Interval
<1>3. IsFiniteSet(S)
  BY <1>2, FS_Subset
<1>4. S \in SUBSET Nat /\ 0 \notin S
  OBVIOUS
<1> QED BY <1>3, <1>4

\* The members of S below k.
Below(S, k) == {j \in S : j < k}

\* The numbers below another one are fewer.
LEMMA RankUnique ==
  ASSUME NEW S \in SUBSET Nat, IsFiniteSet(S), NEW k \in S, NEW l \in S,
         Cardinality(Below(S, k)) = Cardinality(Below(S, l))
  PROVE  k = l
<1>1. ASSUME NEW a \in S, NEW b \in S, a < b,
             Cardinality(Below(S, a)) = Cardinality(Below(S, b))
      PROVE  FALSE
  <2>1. IsFiniteSet(Below(S, b)) /\ Below(S, a) \in SUBSET Below(S, b)
    <3>1. Below(S, b) \in SUBSET S
      BY DEF Below
    <3>2. \A j \in S : j < a => j < b
      BY <1>1
    <3> QED BY <3>1, <3>2, FS_Subset DEF Below
  <2>2. Below(S, a) = Below(S, b)
    BY <1>1, <2>1, FS_Subset
  <2>3. a \in Below(S, b) /\ a \notin Below(S, a)
    BY <1>1 DEF Below
  <2> QED BY <2>2, <2>3
<1>2. k < l \/ l < k \/ k = l
  OBVIOUS
<1> QED BY <1>1, <1>2

\* For each n below the size of S there is a member with n members below it.
LEMMA RankExists ==
  ASSUME NEW S \in SUBSET Nat, IsFiniteSet(S), NEW n \in Nat, n < Cardinality(S)
  PROVE  \E k \in S : Cardinality(Below(S, k)) = n
<1> DEFINE N == {m \in Nat : m < Cardinality(S) => \E k \in S : Cardinality(Below(S, k)) = m}
<1>0. Cardinality(S) \in Nat
  BY FS_CardinalityType
<1>1. 0 \in N
  <2> SUFFICES ASSUME 0 < Cardinality(S) PROVE \E k \in S : Cardinality(Below(S, k)) = 0
    OBVIOUS
  <2>1. S # {}
    BY <1>0, FS_EmptySet
  <2>2. PICK k \in S : \A j \in S : k <= j
    BY <2>1, LeastNat
  <2>3. \A j \in S : ~(j < k)
    BY <2>2
  <2>4. Below(S, k) = {}
    BY <2>3 DEF Below
  <2> QED BY <2>4, FS_EmptySet
<1>2. ASSUME NEW m \in N PROVE m + 1 \in N
  <2>0. m \in Nat /\ m + 1 \in Nat
    OBVIOUS
  <2> SUFFICES ASSUME m + 1 < Cardinality(S) PROVE \E k \in S : Cardinality(Below(S, k)) = m + 1
    BY <2>0
  <2>1. PICK l \in S : Cardinality(Below(S, l)) = m
    BY <1>0, <2>0
  <2> HIDE DEF N
  <2> DEFINE T == Below(S, l) \cup {l}
             above == {j \in S : j > l}
  <2>2. IsFiniteSet(Below(S, l)) /\ l \notin Below(S, l)
    <3>1. Below(S, l) \in SUBSET S
      BY DEF Below
    <3> QED BY <3>1, FS_Subset DEF Below
  <2>3. Cardinality(T) = m + 1
    BY <2>1, <2>2, FS_AddElement
  <2>4. above # {}
    <3> SUFFICES ASSUME above = {} PROVE FALSE
      OBVIOUS
    <3>1. S \subseteq T /\ T \subseteq S
      BY DEF Below
    <3>2. S = T
      BY <3>1
    <3> QED BY <1>0, <2>0, <2>3, <3>2
  <2>5. PICK k \in above : \A j \in above : k <= j
    BY <2>4, LeastNat
  <2>6. k \in S /\ k > l
    BY <2>5
  <2>7. Below(S, k) = T
    <3>1. ASSUME NEW j \in Below(S, k) PROVE j \in T
      <4>1. j \in S /\ j < k /\ ~(j > l)
        BY <2>5, <2>6, <3>1 DEF Below
      <4> QED BY <4>1 DEF Below
    <3>2. ASSUME NEW j \in T PROVE j \in Below(S, k)
      BY <2>6, <3>2 DEF Below
    <3> QED BY <3>1, <3>2
  <2> QED BY <2>3, <2>6, <2>7
<1>3. N = Nat
  <2> HIDE DEF N
  <2>1. N \in SUBSET Nat
    BY DEF N
  <2> QED BY <1>1, <1>2, <2>1, SetInduction
<1> QED BY <1>3

\* So InOrder is defined.
LEMMA InOrderRank ==
  ASSUME NEW S \in SUBSET Nat, IsFiniteSet(S)
  PROVE  /\ Cardinality(S) \in Nat /\ DOMAIN InOrder(S) = 1 .. Cardinality(S)
         /\ \A n \in 1 .. Cardinality(S) :
              InOrder(S)[n] \in S /\ Cardinality(Below(S, InOrder(S)[n])) = n - 1
<1>1. Cardinality(S) \in Nat /\ DOMAIN InOrder(S) = 1 .. Cardinality(S)
  BY FS_CardinalityType DEF InOrder
<1> SUFFICES ASSUME NEW n \in 1 .. Cardinality(S)
             PROVE  InOrder(S)[n] \in S /\ Cardinality(Below(S, InOrder(S)[n])) = n - 1
  BY <1>1
<1>2. n - 1 \in Nat /\ n - 1 < Cardinality(S)
  BY <1>1
<1>3. \E k \in S : Cardinality(Below(S, k)) = n - 1
  BY <1>2, RankExists
<1>4. InOrder(S)[n] = CHOOSE k \in S : Cardinality(Below(S, k)) = n - 1
  BY DEF InOrder, Below
<1> QED BY <1>3, <1>4

\* handleAttach serves the part that walkMessage gave the number, and there is one.
LEMMA ServedAsListed ==
  ASSUME NEW parts \in Seq(Part), NEW n \in Nat, n + 1 \in DOMAIN Attached(parts)
  PROVE  /\ Served(parts, FALSE, n) = Attached(parts)[n + 1]
         /\ Attached(parts)[n + 1] # 0
<1> DEFINE att(k) == parts[k].known /\ parts[k].attach
           K == {k \in DOMAIN parts : att(k)}
           A == {k \in Walked(parts) : parts[k].attach}
           x == Attached(parts)[n + 1]
<1>0. DOMAIN parts = 1 .. Len(parts) /\ Len(parts) \in Nat
  OBVIOUS
<1>1. IsFiniteSet(K) /\ K \in SUBSET Nat /\ 0 \notin K
  <2>1. K \in SUBSET (1 .. Len(parts))
    BY <1>0
  <2> QED BY <1>0, <2>1, FiniteIndices
<1>2. A \in SUBSET K
  BY DEF Walked
<1>3. IsFiniteSet(A) /\ A \in SUBSET Nat
  BY <1>1, <1>2, FS_Subset
<1>4. Attached(parts) = InOrder(A)
  BY DEF Attached
<1>5. ASSUME NEW k \in A, NEW j \in K, j < k PROVE j \in A
  <2>1. k \in 1 .. Len(parts) /\ j \in 1 .. Len(parts) /\ att(j)
    BY <1>0, <1>2
  <2>2. \A i \in 1 .. j - 1 : i \in 1 .. k - 1
    BY <1>5, <2>1
  <2>3. \A i \in 1 .. k - 1 :
          ~(parts[i].known /\ parts[i].attach /\ parts[i].type = "multipart")
    BY DEF Walked
  <2> QED BY <1>0, <2>1, <2>2, <2>3 DEF Walked
<1>6. \A k \in K : Below(K, k) = {j \in 1 .. k - 1 : att(j)}
  <2> SUFFICES ASSUME NEW k \in K PROVE Below(K, k) = {j \in 1 .. k - 1 : att(j)}
    OBVIOUS
  <2>1. k \in 1 .. Len(parts)
    BY <1>0
  <2>2. \A j : j \in 1 .. k - 1 <=> j \in 1 .. Len(parts) /\ j < k
    BY <1>0, <2>1
  <2> HIDE DEF att
  <2> QED BY <1>0, <2>2 DEF Below
<1>7. Served(parts, FALSE, n) =
        First({k \in K : Cardinality({j \in 1 .. k - 1 : att(j)}) = n})
  <2>1. {k \in DOMAIN parts : /\ parts[k].known /\ parts[k].attach
                              /\ Cardinality({j \in 1 .. k - 1 : att(j)}) = n}
          = {k \in K : Cardinality({j \in 1 .. k - 1 : att(j)}) = n}
    OBVIOUS
  <2> QED BY <2>1 DEF Served
<1> HIDE DEF att, K, A
<1>8. \A k \in A : Below(A, k) = Below(K, k)
  BY <1>2, <1>5 DEF Below
<1>9. x \in A /\ Cardinality(Below(A, x)) = n
  <2>1. n + 1 \in 1 .. Cardinality(A) /\ (n + 1) - 1 = n
    BY <1>3, <1>4, InOrderRank
  <2> QED BY <1>3, <1>4, <2>1, InOrderRank
<1> HIDE DEF x
<1>10. x \in K /\ Cardinality(Below(K, x)) = n
  BY <1>2, <1>8, <1>9
<1> DEFINE found == {k \in K : Cardinality({j \in 1 .. k - 1 : att(j)}) = n}
<1>11. found = {x}
  <2>1. ASSUME NEW k \in K, Cardinality(Below(K, k)) = n PROVE k = x
    BY <1>1, <1>10, <2>1, RankUnique
  <2> QED BY <1>6, <1>10, <2>1
<1>12. x \in Nat /\ x # 0
  BY <1>1, <1>10
<1> HIDE DEF found
<1>13. First(found) = x
  <2>1. found \in SUBSET Nat /\ found # {}
    BY <1>11, <1>12
  <2>2. Min(found) \in found
    BY <2>1, MinNat
  <2> QED BY <1>11, <2>1, <2>2 DEF First
<1> QED BY <1>7, <1>12, <1>13 DEF found, x

\* The numbers count from 1.
LEMMA AttachedDomain ==
  ASSUME NEW parts \in Seq(Part), NEW k \in DOMAIN Attached(parts)
  PROVE  k \in Nat /\ k >= 1
<1> DEFINE A == {j \in Walked(parts) : parts[j].attach}
<1>1. A \in SUBSET (1 .. Len(parts)) /\ Len(parts) \in Nat
  BY DEF Walked
<1>2. IsFiniteSet(A) /\ A \in SUBSET Nat
  BY <1>1, FiniteIndices, ZenonT(60)
<1>3. Attached(parts) = InOrder(A)
  BY DEF Attached
<1> HIDE DEF A
<1>4. Cardinality(A) \in Nat /\ k \in 1 .. Cardinality(A)
  BY <1>2, <1>3, InOrderRank
<1> QED BY <1>4

-----------------------------------------------------------------------------
(* The pieces of normalizeText.                                            *)

\* InOrder ascends, and leaves nothing out.
LEMMA InOrderAscends ==
  ASSUME NEW S \in SUBSET Nat, IsFiniteSet(S)
  PROVE  /\ \A n, m \in DOMAIN InOrder(S) : n < m => InOrder(S)[n] < InOrder(S)[m]
         /\ \A k \in S : \E n \in DOMAIN InOrder(S) : InOrder(S)[n] = k
<1> DEFINE b == InOrder(S)
<1>1. /\ Cardinality(S) \in Nat /\ DOMAIN b = 1 .. Cardinality(S)
      /\ \A n \in 1 .. Cardinality(S) : b[n] \in S /\ Cardinality(Below(S, b[n])) = n - 1
  BY InOrderRank
<1> HIDE DEF b
<1>2. \A k \in S : Below(S, k) \in SUBSET S /\ IsFiniteSet(Below(S, k))
  BY FS_Subset DEF Below
<1>3. ASSUME NEW n \in DOMAIN b, NEW m \in DOMAIN b, n < m PROVE b[n] < b[m]
  <2>1. b[n] \in S /\ b[m] \in S /\ b[n] \in Nat /\ b[m] \in Nat
    BY <1>1
  <2> SUFFICES ASSUME b[m] <= b[n] PROVE FALSE
    BY <2>1
  <2>2. \A j \in S : j < b[m] => j < b[n]
    BY <2>1
  <2>3. Below(S, b[m]) \in SUBSET Below(S, b[n])
    BY <2>2 DEF Below
  <2>4. Cardinality(Below(S, b[m])) <= Cardinality(Below(S, b[n]))
    BY <1>2, <2>1, <2>3, FS_Subset
  <2>5. m - 1 <= n - 1
    BY <1>1, <2>4
  <2> QED BY <1>1, <1>3, <2>5
<1>4. ASSUME NEW k \in S PROVE \E n \in DOMAIN b : b[n] = k
  <2> DEFINE c == Cardinality(Below(S, k))
  <2>1. c \in Nat
    BY <1>2, FS_CardinalityType
  <2>2. k \notin Below(S, k)
    BY DEF Below
  <2>3. Below(S, k) # S
    BY <2>2
  <2>4. c < Cardinality(S)
    BY <1>1, <1>2, <2>1, <2>3, FS_Subset
  <2>5. c + 1 \in 1 .. Cardinality(S) /\ (c + 1) - 1 = c
    BY <1>1, <2>1, <2>4
  <2>6. PICK l \in S : l = b[c + 1] /\ Cardinality(Below(S, l)) = Cardinality(Below(S, k))
    BY <1>1, <2>5
  <2>7. l = k
    BY <2>6, RankUnique
  <2> QED BY <1>1, <2>5, <2>6, <2>7
<1> QED BY <1>3, <1>4 DEF b

\* A piece begins at i, ends before the next separator, and has none in it.
LEMMA PieceAt ==
  ASSUME NEW T, NEW s \in Seq(T), NEW sep, NEW i \in Starts(s, sep)
  PROVE  /\ i \in 1 .. Len(s)
         /\ Piece(s, sep, i) \in Seq(T)
         /\ \E e \in i .. Len(s) :
              /\ Len(Piece(s, sep, i)) = e - i + 1
              /\ \A x \in 1 .. e - i + 1 : Piece(s, sep, i)[x] = s[i + x - 1]
              /\ \A k \in i .. e : s[k] # sep
              /\ \A j \in i .. Len(s) : (\A k \in i .. j : s[k] # sep) => j <= e
<1>1. i \in 1 .. Len(s) /\ s[i] # sep /\ Len(s) \in Nat
  BY DEF Starts
<1> DEFINE R == {j \in i .. Len(s) : \A k \in i .. j : s[k] # sep}
           e == Max(R)
<1>2. R \in SUBSET (1 .. Len(s)) /\ i \in R
  BY <1>1
<1>3. e \in R /\ \A j \in R : e >= j
  <2> HIDE DEF R
  <2> QED BY <1>1, <1>2, MaxNat
<1>4. Piece(s, sep, i) = SubSeq(s, i, e)
  BY DEF Piece
<1> HIDE DEF e
<1>5. e \in i .. Len(s) /\ e \in Int /\ \A k \in i .. e : s[k] # sep
  BY <1>3
<1>6. \A j \in i .. Len(s) : (\A k \in i .. j : s[k] # sep) => j <= e
  BY <1>1, <1>3, <1>5
<1> HIDE DEF R
<1>7. /\ SubSeq(s, i, e) \in Seq(T)
      /\ Len(SubSeq(s, i, e)) = e - i + 1
      /\ \A x \in 1 .. e - i + 1 : SubSeq(s, i, e)[x] = s[i + x - 1]
  BY <1>1, <1>5
<1> QED BY <1>1, <1>4, <1>5, <1>6, <1>7

\* P are the pieces of s, b the positions where they begin.
Cuts(s, sep, P, b) ==
  /\ \A n \in DOMAIN P :
       /\ n \in Nat /\ b[n] \in Nat
       /\ \E h \in Nat : DOMAIN P[n] = 1 .. h
       /\ \A x \in DOMAIN P[n] :
            b[n] + x - 1 \in DOMAIN s /\ P[n][x] = s[b[n] + x - 1] /\ P[n][x] # sep
  /\ \A i \in DOMAIN s : s[i] # sep =>
       \E n \in DOMAIN P : \E x \in DOMAIN P[n] : i = b[n] + x - 1
  /\ \A n, m \in DOMAIN P : n < m =>
       \A x \in DOMAIN P[n], y \in DOMAIN P[m] :
         \E k \in b[n] + x .. b[m] + y - 2 : s[k] = sep

\* Pieces, which stands for strings.Split and strings.Fields, cuts s at the separators.
LEMMA PiecesCut ==
  ASSUME NEW T, NEW s \in Seq(T), NEW sep
  PROVE  /\ Pieces(s, sep) \in Seq(Seq(T))
         /\ Cuts(s, sep, Pieces(s, sep), InOrder(Starts(s, sep)))
<1> DEFINE S == Starts(s, sep)
           b == InOrder(S)
           P == Pieces(s, sep)
<1>0. Len(s) \in Nat /\ DOMAIN s = 1 .. Len(s)
  OBVIOUS
<1>1. S \in SUBSET (1 .. Len(s))
  BY DEF Starts
<1>2. IsFiniteSet(S) /\ S \in SUBSET Nat
  <2> HIDE DEF S
  <2> QED BY <1>0, <1>1, FiniteIndices
<1>3. /\ Cardinality(S) \in Nat /\ DOMAIN b = 1 .. Cardinality(S)
      /\ \A n \in DOMAIN b : b[n] \in S
  <2> HIDE DEF S
  <2> QED BY <1>2, InOrderRank
<1>4. /\ \A n, m \in DOMAIN b : n < m => b[n] < b[m]
      /\ \A k \in S : \E n \in DOMAIN b : b[n] = k
  <2> HIDE DEF S
  <2> QED BY <1>2, InOrderAscends
<1>5. P = [n \in DOMAIN b |-> Piece(s, sep, b[n])]
  BY DEF Pieces
<1> HIDE DEF b, P
<1>6. \A n \in DOMAIN b : b[n] \in Starts(s, sep)
  BY <1>3
<1>7. \A n \in DOMAIN b : Piece(s, sep, b[n]) \in Seq(T)
  BY <1>6, PieceAt
<1>8. P \in Seq(Seq(T)) /\ DOMAIN P = DOMAIN b
  BY <1>3, <1>5, <1>7
<1> DEFINE End(n, e) ==
             /\ e \in b[n] .. Len(s)
             /\ Len(P[n]) = e - b[n] + 1 /\ DOMAIN P[n] = 1 .. e - b[n] + 1
             /\ \A x \in 1 .. e - b[n] + 1 : P[n][x] = s[b[n] + x - 1]
             /\ \A k \in b[n] .. e : s[k] # sep
             /\ \A j \in b[n] .. Len(s) : (\A k \in b[n] .. j : s[k] # sep) => j <= e
<1>9. \A n \in DOMAIN b : b[n] \in 1 .. Len(s) /\ \E e \in Int : End(n, e)
  <2> SUFFICES ASSUME NEW n \in DOMAIN b
               PROVE  b[n] \in 1 .. Len(s) /\ \E e \in Int : End(n, e)
    OBVIOUS
  <2>1. P[n] = Piece(s, sep, b[n]) /\ b[n] \in Starts(s, sep) /\ P[n] \in Seq(T)
    BY <1>5, <1>6, <1>7
  <2>2. b[n] \in 1 .. Len(s)
    BY <2>1, PieceAt
  <2>3. PICK e \in b[n] .. Len(s) :
              /\ Len(P[n]) = e - b[n] + 1
              /\ \A x \in 1 .. e - b[n] + 1 : P[n][x] = s[b[n] + x - 1]
              /\ \A k \in b[n] .. e : s[k] # sep
              /\ \A j \in b[n] .. Len(s) : (\A k \in b[n] .. j : s[k] # sep) => j <= e
    BY <2>1, PieceAt, SMTT(40)
  <2>4. e \in Int /\ DOMAIN P[n] = 1 .. e - b[n] + 1
    BY <1>0, <2>1, <2>2, <2>3
  <2>5. End(n, e)
    BY <2>3, <2>4
  <2> QED BY <2>2, <2>4, <2>5
<1>10. ASSUME NEW n \in DOMAIN P
       PROVE  /\ n \in Nat /\ b[n] \in Nat
              /\ \E h \in Nat : DOMAIN P[n] = 1 .. h
              /\ \A x \in DOMAIN P[n] :
                   b[n] + x - 1 \in DOMAIN s /\ P[n][x] = s[b[n] + x - 1] /\ P[n][x] # sep
  <2>1. PICK e \in Int : End(n, e)
    BY <1>8, <1>9
  <2>2. b[n] \in 1 .. Len(s)
    BY <1>8, <1>9
  <2>3. ASSUME NEW x \in DOMAIN P[n]
        PROVE  b[n] + x - 1 \in b[n] .. e /\ P[n][x] = s[b[n] + x - 1]
    BY <2>1, <2>2
  <2>4. \A k \in b[n] .. e : k \in DOMAIN s /\ s[k] # sep
    BY <1>0, <2>1, <2>2
  <2>5. n \in Nat /\ \E h \in Nat : DOMAIN P[n] = 1 .. h
    <3>1. n \in Nat
      BY <1>3, <1>8
    <3>2. e - b[n] + 1 \in Nat /\ DOMAIN P[n] = 1 .. e - b[n] + 1
      BY <2>1, <2>2
    <3> QED BY <3>1, <3>2
  <2> QED BY <2>2, <2>3, <2>4, <2>5
<1>11. ASSUME NEW i \in DOMAIN s, s[i] # sep
       PROVE  \E n \in DOMAIN P : \E x \in DOMAIN P[n] : i = b[n] + x - 1
  <2> DEFINE U == {j \in 1 .. i : \A k \in j .. i : s[k] # sep}
  <2>0. i \in 1 .. Len(s) /\ i \in Nat
    BY <1>0
  <2>1. U \in SUBSET Nat /\ i \in U
    BY <1>11, <2>0
  <2>2. PICK j \in U : \A k \in U : j <= k
    <3> HIDE DEF U
    <3> QED BY <2>1, LeastNat
  <2>3. j \in 1 .. i /\ j \in Nat /\ \A k \in j .. i : s[k] # sep
    BY <2>2
  <2>4. ASSUME j > 1 PROVE s[j - 1] = sep
    <3> SUFFICES ASSUME s[j - 1] # sep PROVE FALSE
      OBVIOUS
    <3>1. \A k \in j - 1 .. i : k = j - 1 \/ k \in j .. i
      BY <2>0, <2>3
    <3>2. j - 1 \in U
      BY <2>3, <2>4, <3>1
    <3> HIDE DEF U
    <3> QED BY <2>2, <2>3, <3>2
  <2>5. j \in S
    BY <1>0, <2>0, <2>3, <2>4 DEF Starts
  <2>6. PICK n \in DOMAIN b : b[n] = j
    BY <1>4, <2>5
  <2>7. PICK e \in Int : End(n, e)
    BY <1>9
  <2>8. i <= e
    BY <1>0, <2>0, <2>3, <2>6, <2>7
  <2>9. i - j + 1 \in DOMAIN P[n] /\ i = b[n] + (i - j + 1) - 1
    BY <2>0, <2>3, <2>6, <2>7, <2>8
  <2> QED BY <1>8, <2>9
<1>12. ASSUME NEW n \in DOMAIN P, NEW m \in DOMAIN P, n < m,
              NEW x \in DOMAIN P[n], NEW y \in DOMAIN P[m]
       PROVE  \E k \in b[n] + x .. b[m] + y - 2 : s[k] = sep
  <2>1. PICK e \in Int : End(n, e)
    BY <1>8, <1>9
  <2>2. PICK f \in Int : End(m, f)
    BY <1>8, <1>9
  <2>3. b[n] \in 1 .. Len(s) /\ b[m] \in 1 .. Len(s) /\ b[n] < b[m]
    BY <1>4, <1>8, <1>9, <1>12
  <2>4. s[b[m] - 1] = sep
    BY <1>6, <1>8, <2>3 DEF Starts
  <2>5. x \in 1 .. e - b[n] + 1 /\ y \in 1 .. f - b[m] + 1
    BY <2>1, <2>2
  <2>6. b[m] - 1 >= b[n] + x
    <3> SUFFICES ASSUME b[m] - 1 < b[n] + x PROVE FALSE
      BY <2>3, <2>5
    <3>1. b[m] - 1 \in b[n] .. e
      BY <2>3, <2>5, SMTT(40)
    <3> QED BY <2>1, <2>4, <3>1
  <2>7. b[m] - 1 \in b[n] + x .. b[m] + y - 2
    BY <2>3, <2>5, <2>6, SMTT(40)
  <2> QED BY <2>4, <2>7
<1>13. Cuts(s, sep, P, b)
  <2> HIDE DEF End
  <2> QED BY <1>10, <1>11, <1>12 DEF Cuts
<1> QED BY <1>8, <1>13 DEF P, b

\* The elements of a sequence.
LEMMA ElementOf ==
  ASSUME NEW S, NEW q \in Seq(S), NEW i \in DOMAIN q
  PROVE  q[i] \in S /\ i \in Nat
OBVIOUS

\* The position of character x of field f of a line that begins at a, and whose
\* fields begin, in the line, at c.
Spot(a, c, f, x) == a + c[f] + x - 2

\* The line that begins at position a of s has the fields P.
LineLays(s, a, P, c) ==
  /\ \A f \in DOMAIN P : f \in Nat /\ \A x \in DOMAIN P[f] :
       /\ x \in Nat /\ Spot(a, c, f, x) \in DOMAIN s
       /\ P[f][x] = s[Spot(a, c, f, x)] /\ P[f][x] \notin {Newline, Blank}
  /\ \A f, g \in DOMAIN P : \A x \in DOMAIN P[f], y \in DOMAIN P[g] :
       /\ \A k \in Spot(a, c, f, x) .. Spot(a, c, g, y) : s[k] # Newline
       /\ f < g => \E k \in Spot(a, c, f, x) + 1 .. Spot(a, c, g, y) - 1 : s[k] = Blank
       /\ f = g => /\ \A k \in Spot(a, c, f, x) .. Spot(a, c, g, y) : s[k] # Blank
                   /\ x <= y <=> Spot(a, c, f, x) <= Spot(a, c, g, y)

\* s has the lines of the text, which begin at b.
Lays(s, text, b, c) ==
  /\ \A l \in DOMAIN text : l \in Nat /\ LineLays(s, b[l], text[l], c[l])
  /\ \A i \in DOMAIN s : s[i] \notin {Newline, Blank} =>
       \E l \in DOMAIN text : \E f \in DOMAIN text[l] : \E x \in DOMAIN text[l][f] :
         i = Spot(b[l], c[l], f, x)
  /\ \A l, m \in DOMAIN text : l < m =>
       \A f \in DOMAIN text[l], g \in DOMAIN text[m] :
       \A x \in DOMAIN text[l][f], y \in DOMAIN text[m][g] :
         \E k \in Spot(b[l], c[l], f, x) + 1 .. Spot(b[m], c[m], g, y) - 1 : s[k] = Newline

\* The line is in s from position a on.
LineAt(s, a, line) ==
  /\ \E h \in Nat : DOMAIN line = 1 .. h
  /\ \A z \in DOMAIN line :
       a + z - 1 \in DOMAIN s /\ line[z] = s[a + z - 1] /\ line[z] # Newline

\* Where a character of a field is.
LEMMA FieldIn ==
  ASSUME NEW a \in Nat, NEW line, NEW P, NEW c, Cuts(line, Blank, P, c),
         NEW f \in DOMAIN P, NEW x \in DOMAIN P[f]
  PROVE  /\ c[f] \in Nat /\ x \in Nat
         /\ c[f] + x - 1 \in DOMAIN line
         /\ P[f][x] = line[c[f] + x - 1] /\ P[f][x] # Blank
         /\ Spot(a, c, f, x) = a + (c[f] + x - 1) - 1
<1>1. x \in Nat /\ c[f] \in Nat
  BY DEF Cuts
<1>2. Spot(a, c, f, x) = a + (c[f] + x - 1) - 1
  BY <1>1 DEF Spot
<1> QED BY <1>1, <1>2 DEF Cuts

\* The fields P of such a line.
LEMMA FieldsCut ==
  ASSUME NEW s, NEW a \in Nat, NEW line, NEW P, NEW c,
         LineAt(s, a, line), Cuts(line, Blank, P, c)
  PROVE  LineLays(s, a, P, c)
<1>1. \A f \in DOMAIN P : f \in Nat /\ \E h \in Nat : DOMAIN P[f] = 1 .. h
  BY DEF Cuts
<1>3. ASSUME NEW f \in DOMAIN P, NEW x \in DOMAIN P[f]
      PROVE  /\ x \in Nat /\ Spot(a, c, f, x) \in DOMAIN s
             /\ P[f][x] = s[Spot(a, c, f, x)] /\ P[f][x] \notin {Newline, Blank}
  <2>1. PICK z \in DOMAIN line :
          x \in Nat /\ P[f][x] = line[z] /\ P[f][x] # Blank /\ Spot(a, c, f, x) = a + z - 1
    BY FieldIn
  <2> QED BY <2>1 DEF LineAt
<1>4. ASSUME NEW f \in DOMAIN P, NEW g \in DOMAIN P,
             NEW x \in DOMAIN P[f], NEW y \in DOMAIN P[g]
      PROVE  /\ \A k \in Spot(a, c, f, x) .. Spot(a, c, g, y) : s[k] # Newline
             /\ f < g => \E k \in Spot(a, c, f, x) + 1 .. Spot(a, c, g, y) - 1 : s[k] = Blank
             /\ f = g => /\ \A k \in Spot(a, c, f, x) .. Spot(a, c, g, y) : s[k] # Blank
                         /\ x <= y <=> Spot(a, c, f, x) <= Spot(a, c, g, y)
  <2>1. PICK u \in DOMAIN line : /\ u = c[f] + x - 1 /\ c[f] \in Nat /\ x \in Nat
                                 /\ Spot(a, c, f, x) = a + u - 1
    BY FieldIn
  <2>2. PICK v \in DOMAIN line : /\ v = c[g] + y - 1 /\ c[g] \in Nat /\ y \in Nat
                                 /\ Spot(a, c, g, y) = a + v - 1
    BY FieldIn
  <2>3. u \in Nat /\ v \in Nat /\ \A k \in u .. v : k \in DOMAIN line
    BY DEF LineAt
  <2>4. \A k \in u .. v : s[a + k - 1] = line[k] /\ s[a + k - 1] # Newline
    BY <2>3 DEF LineAt
  <2>5. ASSUME NEW k \in Spot(a, c, f, x) .. Spot(a, c, g, y)
        PROVE  k \in Int /\ k - a + 1 \in u .. v /\ a + (k - a + 1) - 1 = k
    BY <2>1, <2>2, <2>3
  <2>6. \A k \in Spot(a, c, f, x) .. Spot(a, c, g, y) : s[k] # Newline
    BY <2>4, <2>5
  <2>7. ASSUME f < g
        PROVE  \E k \in Spot(a, c, f, x) + 1 .. Spot(a, c, g, y) - 1 : s[k] = Blank
    <3>1. PICK k \in c[f] + x .. c[g] + y - 2 : line[k] = Blank
      BY <2>7 DEF Cuts
    <3>2. k \in Int /\ k \in u .. v
      BY <2>1, <2>2, <2>3, <3>1
    <3>3. s[a + k - 1] = Blank
      BY <2>4, <3>1, <3>2
    <3>4. a + k - 1 \in Spot(a, c, f, x) + 1 .. Spot(a, c, g, y) - 1
      BY <2>1, <2>2, <3>1, <3>2
    <3> QED BY <3>3, <3>4
  <2>8. ASSUME f = g, NEW k \in Spot(a, c, f, x) .. Spot(a, c, g, y) PROVE s[k] # Blank
    <3>1. PICK i \in u .. v : i = k - a + 1 /\ a + i - 1 = k
      BY <2>5
    <3>2. s[k] = line[i]
      BY <2>4, <3>1
    <3>3. PICK z \in x .. y : z = i - c[f] + 1 /\ c[f] + z - 1 = i
      BY <2>1, <2>2, <2>3, <2>8
    <3>4. x \in DOMAIN P[f] /\ y \in DOMAIN P[f]
      BY <2>8
    <3>5. z \in DOMAIN P[f]
      BY <1>1, <3>4
    <3>6. line[c[f] + z - 1] # Blank
      BY <3>5, FieldIn
    <3> QED BY <3>2, <3>3, <3>6
  <2>9. f = g => (x <= y <=> Spot(a, c, f, x) <= Spot(a, c, g, y))
    BY <2>1, <2>2
  <2> QED BY <2>6, <2>7, <2>8, <2>9
<1> QED BY <1>1, <1>3, <1>4 DEF LineLays

\* normalizeText keeps what is no separator, breaks lines where s does and fields
\* where s has white space, and nowhere else.
LEMMA Normalized ==
  ASSUME NEW T, NEW s \in Seq(T)
  PROVE  \E b, c : Lays(s, normalizeText(s), b, c)
<1> DEFINE lines == Pieces(s, Newline)
           B     == InOrder(Starts(s, Newline))
           F(l)  == Pieces(lines[l], Blank)
           C(l)  == InOrder(Starts(lines[l], Blank))
           G     == {l \in DOMAIN lines : F(l) # << >>}
           o     == InOrder(G)
           text  == normalizeText(s)
           b     == [n \in DOMAIN o |-> B[o[n]]]
           c     == [n \in DOMAIN o |-> C(o[n])]
<1>1. lines \in Seq(Seq(T)) /\ Cuts(s, Newline, lines, B)
  BY PiecesCut
<1> HIDE DEF lines, B
<1>2. \A l \in DOMAIN lines : lines[l] \in Seq(T)
  BY <1>1
<1>3. \A l \in DOMAIN lines : F(l) \in Seq(Seq(T)) /\ Cuts(lines[l], Blank, F(l), C(l))
  BY <1>2, PiecesCut
<1>4. text = [n \in DOMAIN o |-> F(o[n])]
  BY DEF normalizeText, lines
<1> HIDE DEF F, C, text
<1>5. IsFiniteSet(G) /\ G \in SUBSET Nat
  <2>1. Len(lines) \in Nat /\ G \in SUBSET (1 .. Len(lines))
    BY <1>1
  <2> HIDE DEF G
  <2> QED BY <2>1, FiniteIndices
<1>6. /\ Cardinality(G) \in Nat /\ DOMAIN o = 1 .. Cardinality(G)
      /\ \A n \in DOMAIN o : o[n] \in G
  <2> HIDE DEF G
  <2> QED BY <1>5, InOrderRank
<1>7. /\ \A n, m \in DOMAIN o : n < m => o[n] < o[m]
      /\ \A k \in G : \E n \in DOMAIN o : o[n] = k
  <2> HIDE DEF G
  <2> QED BY <1>5, InOrderAscends
<1> HIDE DEF o
<1>8. \A n \in DOMAIN o : o[n] \in DOMAIN lines
  BY <1>6
<1>9. DOMAIN text = DOMAIN o /\ \A n \in DOMAIN o : text[n] = F(o[n])
  BY <1>4
<1>10. \A n \in DOMAIN o : b[n] = B[o[n]] /\ c[n] = C(o[n])
  OBVIOUS
<1> HIDE DEF b, c
<1>11. ASSUME NEW n \in DOMAIN o
       PROVE  /\ b[n] \in Nat /\ LineAt(s, b[n], lines[o[n]])
              /\ Cuts(lines[o[n]], Blank, text[n], c[n])
  <2>1. o[n] \in DOMAIN lines /\ text[n] = F(o[n]) /\ b[n] = B[o[n]] /\ c[n] = C(o[n])
    BY <1>8, <1>9, <1>10
  <2>2. b[n] \in Nat /\ LineAt(s, b[n], lines[o[n]])
    BY <1>1, <2>1 DEF Cuts, LineAt
  <2> QED BY <1>3, <2>1, <2>2
<1>12. \A n \in DOMAIN o : LineLays(s, b[n], text[n], c[n])
  BY <1>11, FieldsCut
<1>13. ASSUME NEW i \in DOMAIN s, s[i] \notin {Newline, Blank}
       PROVE  \E n \in DOMAIN text : \E f \in DOMAIN text[n] : \E x \in DOMAIN text[n][f] :
                i = Spot(b[n], c[n], f, x)
  <2>1. PICK l \in DOMAIN lines : \E z \in DOMAIN lines[l] : i = B[l] + z - 1
    BY <1>1, <1>13 DEF Cuts
  <2>2. PICK z \in DOMAIN lines[l] : i = B[l] + z - 1 /\ lines[l][z] = s[i]
    BY <1>1, <2>1 DEF Cuts
  <2>3. PICK f \in DOMAIN F(l) : \E x \in DOMAIN F(l)[f] : z = C(l)[f] + x - 1
    BY <1>3, <1>13, <2>2 DEF Cuts
  <2>4. l \in G
    BY <2>3
  <2>5. PICK n \in DOMAIN o : o[n] = l
    BY <1>7, <2>4
  <2>6. text[n] = F(l) /\ b[n] = B[l] /\ c[n] = C(l)
    BY <1>9, <1>10, <2>5
  <2>7. PICK x \in DOMAIN text[n][f] : f \in DOMAIN text[n] /\ z = c[n][f] + x - 1
    BY <2>3, <2>6
  <2>8. Spot(b[n], c[n], f, x) = b[n] + (c[n][f] + x - 1) - 1
    BY <1>11, <2>7, FieldIn
  <2>9. i = Spot(b[n], c[n], f, x)
    BY <2>2, <2>6, <2>7, <2>8
  <2> QED BY <1>9, <2>7, <2>9
<1>14. ASSUME NEW n \in DOMAIN o, NEW m \in DOMAIN o, n < m,
              NEW f \in DOMAIN text[n], NEW g \in DOMAIN text[m],
              NEW x \in DOMAIN text[n][f], NEW y \in DOMAIN text[m][g]
       PROVE  \E k \in Spot(b[n], c[n], f, x) + 1 .. Spot(b[m], c[m], g, y) - 1 : s[k] = Newline
  <2>1. o[n] < o[m] /\ o[n] \in DOMAIN lines /\ o[m] \in DOMAIN lines
        /\ b[n] = B[o[n]] /\ b[m] = B[o[m]]
    BY <1>7, <1>8, <1>10, <1>14
  <2>2. PICK u \in DOMAIN lines[o[n]] : Spot(b[n], c[n], f, x) = b[n] + u - 1
    BY <1>11, FieldIn
  <2>3. PICK v \in DOMAIN lines[o[m]] : Spot(b[m], c[m], g, y) = b[m] + v - 1
    BY <1>11, FieldIn
  <2>4. PICK k \in b[n] + u .. b[m] + v - 2 : s[k] = Newline
    BY <1>1, <2>1 DEF Cuts
  <2>5. u \in Nat /\ v \in Nat /\ b[n] \in Nat /\ b[m] \in Nat
    <3>1. lines[o[n]] \in Seq(T) /\ lines[o[m]] \in Seq(T)
      BY <1>2, <2>1
    <3> QED BY <1>11, <3>1, ElementOf
  <2>6. k \in Spot(b[n], c[n], f, x) + 1 .. Spot(b[m], c[m], g, y) - 1
    BY <2>2, <2>3, <2>4, <2>5, SMTT(40)
  <2> QED BY <2>4, <2>6
<1>15. \A n \in DOMAIN o : n \in Nat
  BY <1>6
<1>16. Lays(s, text, b, c)
  <2>1. \A l \in DOMAIN text : l \in Nat /\ LineLays(s, b[l], text[l], c[l])
    BY <1>9, <1>12, <1>15
  <2>2. \A l, m \in DOMAIN text : l < m =>
          \A f \in DOMAIN text[l], g \in DOMAIN text[m] :
          \A x \in DOMAIN text[l][f], y \in DOMAIN text[m][g] :
            \E k \in Spot(b[l], c[l], f, x) + 1 .. Spot(b[m], c[m], g, y) - 1 : s[k] = Newline
    <3> SUFFICES ASSUME NEW l \in DOMAIN text, NEW m \in DOMAIN text, l < m,
                        NEW f \in DOMAIN text[l], NEW g \in DOMAIN text[m],
                        NEW x \in DOMAIN text[l][f], NEW y \in DOMAIN text[m][g]
                 PROVE  \E k \in Spot(b[l], c[l], f, x) + 1 .. Spot(b[m], c[m], g, y) - 1 :
                          s[k] = Newline
      BY Zenon
    <3>1. l \in DOMAIN o /\ m \in DOMAIN o
      BY <1>9
    <3> QED BY <1>14, <3>1
  <2> QED BY <1>13, <2>1, <2>2, Zenon DEF Lays
<1> QED BY <1>16 DEF text

-----------------------------------------------------------------------------
(* The walk of htmlToText.                                                 *)

NoWalks == [open |-> << >>, out |-> << >>]
WalkTo(doc, w, k) == IF k = 0 THEN NoWalks ELSE Walk(doc, w[k - 1], k)
Walks(doc) == CHOOSE w : w = [k \in 0 .. Len(doc) |-> WalkTo(doc, w, k)]

\* Written is the result of the last step.
LEMMA WrittenWalks ==
  ASSUME NEW doc
  PROVE  Written(doc) = Walks(doc)[Len(doc)].out
BY DEF Written, Walks, WalkTo, NoWalks

\* The steps of the walk are well defined.
LEMMA WalksExist ==
  ASSUME NEW doc, NEW n \in Nat
  PROVE  \E w : w = [k \in 0 .. n |-> WalkTo(doc, w, k)]
<1> DEFINE S == {m \in Nat : \E w : w = [k \in 0 .. m |-> WalkTo(doc, w, k)]}
<1>1. 0 \in S
  <2> DEFINE g == [k \in 0 .. 0 |-> NoWalks]
  <2>1. g = [k \in 0 .. 0 |-> WalkTo(doc, g, k)]
    BY DEF WalkTo
  <2> QED BY <2>1
<1>2. ASSUME NEW m \in S PROVE m + 1 \in S
  <2>0. m \in Nat /\ m + 1 \in Nat
    OBVIOUS
  <2>1. PICK f : f = [k \in 0 .. m |-> WalkTo(doc, f, k)]
    OBVIOUS
  <2> DEFINE g == [k \in 0 .. m + 1 |-> WalkTo(doc, f, k)]
  <2>2. \A k \in 0 .. m : g[k] = f[k]
    <3>1. 0 .. m \subseteq 0 .. m + 1
      BY <2>0
    <3> QED BY <2>1, <3>1
  <2>3. \A k \in 0 .. m + 1 : WalkTo(doc, f, k) = WalkTo(doc, g, k)
    <3>1. \A k \in 0 .. m + 1 : k # 0 => k - 1 \in 0 .. m
      BY <2>0
    <3> HIDE DEF g
    <3> QED BY <2>2, <3>1 DEF WalkTo
  <2>4. g = [k \in 0 .. m + 1 |-> WalkTo(doc, g, k)]
    BY <2>3
  <2> HIDE DEF g
  <2> QED BY <2>0, <2>4
<1>3. S = Nat
  <2> HIDE DEF S
  <2>1. S \in SUBSET Nat
    BY DEF S
  <2> QED BY <1>1, <1>2, <2>1, SetInduction
<1> QED BY <1>3

\* One token after the other.
LEMMA StepByStep ==
  ASSUME NEW doc \in Seq(STRING)
  PROVE  /\ Walks(doc)[0] = NoWalks
         /\ \A k \in 1 .. Len(doc) : Walks(doc)[k] = Walk(doc, Walks(doc)[k - 1], k)
<1> DEFINE n == Len(doc)
           g == Walks(doc)
<1>1. n \in Nat
  OBVIOUS
<1>2. g = [k \in 0 .. n |-> WalkTo(doc, g, k)]
  <2>1. \E w : w = [k \in 0 .. n |-> WalkTo(doc, w, k)]
    BY <1>1, WalksExist
  <2> QED BY <2>1 DEF Walks
<1> HIDE DEF g, n
<1>3. \A k \in 0 .. n : g[k] = WalkTo(doc, g, k)
  BY <1>2
<1>4. 0 \in 0 .. n /\ \A k \in 1 .. n : k \in 0 .. n /\ k # 0
  BY <1>1
<1> QED BY <1>3, <1>4 DEF WalkTo, g, n

-----------------------------------------------------------------------------
(* The elements around a token.                                            *)

\* How many members of X there are up to k.
LEMMA CountStep ==
  ASSUME NEW X, NEW k \in Nat \ {0}
  PROVE  LET c(i) == Cardinality({j \in 1 .. i - 1 : j \in X})
         IN  c(1) = 0 /\ c(k) \in Nat /\ c(k + 1) = c(k) + IF k \in X THEN 1 ELSE 0
<1> DEFINE A(i) == {j \in 1 .. i - 1 : j \in X}
<1>1. A(1) = {}
  OBVIOUS
<1>2. IsFiniteSet(A(k))
  <2>1. k - 1 \in Nat /\ A(k) \in SUBSET (1 .. k - 1)
    OBVIOUS
  <2> HIDE DEF A
  <2> QED BY <2>1, FiniteIndices
<1>3. k \notin A(k) /\ A(k + 1) = IF k \in X THEN A(k) \cup {k} ELSE A(k)
  OBVIOUS
<1> HIDE DEF A
<1>4. Cardinality(A(k)) \in Nat /\ Cardinality(A(1)) = 0
  BY <1>1, <1>2, FS_CardinalityType, FS_EmptySet
<1>5. Cardinality(A(k + 1)) = Cardinality(A(k)) + IF k \in X THEN 1 ELSE 0
  <2>1. Cardinality(A(k) \cup {k}) = Cardinality(A(k)) + 1
    BY <1>2, <1>3, FS_AddElement
  <2>2. CASE k \in X
    BY <1>3, <2>1, <2>2
  <2>3. CASE k \notin X
    BY <1>3, <1>4, <2>3
  <2> QED BY <2>2, <2>3
<1> QED BY <1>4, <1>5 DEF A

\* An element that begins is one deeper, one that ends is one up.
LEMMA DepthStep ==
  ASSUME NEW doc \in Seq(STRING), NEW k \in 1 .. Len(doc)
  PROVE  /\ Depth(doc, 1) = 0 /\ Depth(doc, k) \in Int
         /\ doc[k] \in Elements => Depth(doc, k + 1) = Depth(doc, k) + 1
         /\ doc[k] = "end" => Depth(doc, k + 1) = Depth(doc, k) - 1
         /\ doc[k] \notin Elements \cup {"end"} => Depth(doc, k + 1) = Depth(doc, k)
<1> DEFINE X == {j \in Nat : doc[j] \in Elements}
           Y == {j \in Nat : doc[j] = "end"}
           c(i) == Cardinality({j \in 1 .. i - 1 : j \in X})
           d(i) == Cardinality({j \in 1 .. i - 1 : j \in Y})
<1>0. k \in Nat \ {0}
  OBVIOUS
<1>1. c(1) = 0 /\ c(k) \in Nat /\ c(k + 1) = c(k) + IF k \in X THEN 1 ELSE 0
  <2> HIDE DEF X
  <2> QED BY <1>0, CountStep
<1>2. d(1) = 0 /\ d(k) \in Nat /\ d(k + 1) = d(k) + IF k \in Y THEN 1 ELSE 0
  <2> HIDE DEF Y
  <2> QED BY <1>0, CountStep
<1>3. \A i \in Nat \ {0} : Depth(doc, i) = c(i) - d(i)
  <2> SUFFICES ASSUME NEW i \in Nat \ {0} PROVE Depth(doc, i) = c(i) - d(i)
    OBVIOUS
  <2>1. \A j \in 1 .. i - 1 : (j \in X <=> doc[j] \in Elements) /\ (j \in Y <=> doc[j] = "end")
    OBVIOUS
  <2> HIDE DEF X, Y
  <2>2. /\ {j \in 1 .. i - 1 : j \in X} = {j \in 1 .. i - 1 : doc[j] \in Elements}
        /\ {j \in 1 .. i - 1 : j \in Y} = {j \in 1 .. i - 1 : doc[j] = "end"}
    BY <2>1
  <2> QED BY <2>2 DEF Depth
<1>4. (k \in X <=> doc[k] \in Elements) /\ (k \in Y <=> doc[k] = "end")
  BY <1>0
<1>5. "end" \notin Elements
  BY DEF Elements
<1> HIDE DEF X, Y, c, d
<1>6. Depth(doc, 1) = c(1) - d(1) /\ Depth(doc, k) = c(k) - d(k)
      /\ Depth(doc, k + 1) = c(k + 1) - d(k + 1)
  BY <1>0, <1>3
<1> QED BY <1>1, <1>2, <1>4, <1>5, <1>6

\* The elements around token k, from the outside to the inside.
Stack(doc, open, k) ==
  /\ open \in Seq(Elements)
  /\ Len(open) = Depth(doc, k)
  /\ \A d \in 1 .. Len(open) : \E j \in 1 .. k - 1 :
       doc[j] = open[d] /\ Around(doc, j, k) /\ Depth(doc, j) = d - 1

\* The walk keeps the elements around the next token.
LEMMA StackStep ==
  ASSUME NEW doc \in Seq(STRING), WellFormed(doc), NEW k \in 1 .. Len(doc), NEW w,
         Stack(doc, w.open, k)
  PROVE  Stack(doc, Walk(doc, w, k).open, k + 1)
<1> DEFINE o == w.open
           t == doc[k]
<1>0. k \in Nat /\ k + 1 \in Nat /\ o \in Seq(Elements) /\ Len(o) \in Nat /\ Len(o) = Depth(doc, k)
  BY DEF Stack
<1>1. /\ t \in Elements => Depth(doc, k + 1) = Depth(doc, k) + 1
      /\ t = "end" => Depth(doc, k + 1) = Depth(doc, k) - 1
      /\ t \notin Elements \cup {"end"} => Depth(doc, k + 1) = Depth(doc, k)
  BY DepthStep
<1>2. /\ t \in Elements => Walk(doc, w, k).open = Append(o, t)
      /\ t = "end" => Walk(doc, w, k).open = Front(o)
      /\ t \notin Elements \cup {"end"} => Walk(doc, w, k).open = o
  BY DEF Walk, Elements
<1> HIDE DEF o, t
<1>3. ASSUME NEW d \in 1 .. Len(o), d <= Depth(doc, k + 1)
      PROVE  \E j \in 1 .. (k + 1) - 1 :
               doc[j] = o[d] /\ Around(doc, j, k + 1) /\ Depth(doc, j) = d - 1
  <2>1. PICK j \in 1 .. k - 1 : doc[j] = o[d] /\ Around(doc, j, k) /\ Depth(doc, j) = d - 1
    BY DEF Stack, o
  <2>2. Depth(doc, k + 1) \in Int
    BY <1>0, <1>1
  <2>3. Depth(doc, k + 1) > Depth(doc, j)
    BY <1>0, <1>3, <2>1, <2>2
  <2>4. \A m \in j + 1 .. k + 1 : m \in j + 1 .. k \/ m = k + 1
    BY <1>0
  <2>5. Around(doc, j, k + 1)
    BY <1>0, <2>1, <2>3, <2>4 DEF Around
  <2>6. j \in 1 .. (k + 1) - 1
    BY <1>0
  <2> QED BY <2>1, <2>5, <2>6
<1>4. CASE t \in Elements
  <2> DEFINE p == Append(o, t)
  <2>1. p \in Seq(Elements) /\ Len(p) = Len(o) + 1 /\ p[Len(o) + 1] = t
        /\ \A d \in 1 .. Len(o) : p[d] = o[d]
    BY <1>0, <1>4
  <2> HIDE DEF p
  <2>2. Around(doc, k, k + 1) /\ k \in 1 .. (k + 1) - 1
    <3>1. \A m \in k + 1 .. k + 1 : m = k + 1
      BY <1>0
    <3>2. Depth(doc, k + 1) > Depth(doc, k)
      BY <1>0, <1>1, <1>4
    <3> QED BY <1>0, <1>4, <3>1, <3>2 DEF Around, t
  <2>3. \A d \in 1 .. Len(p) : \E j \in 1 .. (k + 1) - 1 :
          doc[j] = p[d] /\ Around(doc, j, k + 1) /\ Depth(doc, j) = d - 1
    <3> SUFFICES ASSUME NEW d \in 1 .. Len(p)
                 PROVE  \E j \in 1 .. (k + 1) - 1 :
                          doc[j] = p[d] /\ Around(doc, j, k + 1) /\ Depth(doc, j) = d - 1
      OBVIOUS
    <3>1. CASE d = Len(o) + 1
      <4>1. doc[k] = p[d] /\ Depth(doc, k) = d - 1
        BY <1>0, <2>1, <3>1 DEF t
      <4> QED BY <2>2, <4>1
    <3>2. CASE d # Len(o) + 1
      <4>1. d \in 1 .. Len(o) /\ d <= Depth(doc, k + 1) /\ p[d] = o[d]
        BY <1>0, <1>1, <1>4, <2>1, <3>2
      <4> QED BY <1>3, <4>1
    <3> QED BY <3>1, <3>2
  <2> QED BY <1>0, <1>1, <1>2, <1>4, <2>1, <2>3 DEF Stack, p
<1>5. CASE t = "end"
  <2> DEFINE p == Front(o)
  <2>0. Len(o) > 0
    BY <1>0, <1>5 DEF WellFormed, t
  <2>1. p \in Seq(Elements) /\ Len(p) = Len(o) - 1 /\ \A d \in 1 .. Len(p) : p[d] = o[d]
    BY <1>0, <2>0 DEF Front
  <2> HIDE DEF p
  <2>2. \A d \in 1 .. Len(p) : d \in 1 .. Len(o) /\ d <= Depth(doc, k + 1) /\ p[d] = o[d]
    BY <1>0, <1>1, <1>5, <2>0, <2>1
  <2>3. Len(p) = Depth(doc, k + 1)
    BY <1>0, <1>1, <1>5, <2>1
  <2> QED BY <1>2, <1>3, <1>5, <2>1, <2>2, <2>3, ZenonT(60) DEF Stack, p
<1>6. CASE t \notin Elements \cup {"end"}
  <2>1. \A d \in 1 .. Len(o) : d <= Depth(doc, k + 1)
    BY <1>0, <1>1, <1>6
  <2>2. Len(o) = Depth(doc, k + 1)
    BY <1>0, <1>1, <1>6
  <2> QED BY <1>0, <1>2, <1>3, <1>6, <2>1, <2>2 DEF Stack
<1> QED BY <1>4, <1>5, <1>6

\* Of two elements around a token, the outer one is less deep.
LEMMA AroundUnique ==
  ASSUME NEW doc \in Seq(STRING), NEW k \in 1 .. Len(doc),
         NEW i \in 1 .. k - 1, NEW j \in 1 .. k - 1,
         Around(doc, i, k), Around(doc, j, k), Depth(doc, i) = Depth(doc, j)
  PROVE  i = j
<1>1. ASSUME NEW p \in 1 .. k - 1, NEW q \in 1 .. k - 1, p < q, Around(doc, p, k),
             Depth(doc, p) = Depth(doc, q)
      PROVE  FALSE
  <2>1. q \in p + 1 .. k /\ q \in 1 .. Len(doc)
    BY <1>1
  <2>2. Depth(doc, q) > Depth(doc, p)
    BY <1>1, <2>1 DEF Around
  <2>3. Depth(doc, q) \in Int
    BY <2>1, DepthStep
  <2> QED BY <1>1, <2>2, <2>3
<1>2. i < j \/ j < i \/ i = j
  OBVIOUS
<1> QED BY <1>1, <1>2

\* The stack tells what is visible, and which element ends.
LEMMA StackReads ==
  ASSUME NEW doc \in Seq(STRING), WellFormed(doc), NEW k \in 1 .. Len(doc), NEW open,
         Stack(doc, open, k), \A j \in 1 .. k : Depth(doc, j) \in Nat
  PROVE  /\ (\E d \in DOMAIN open : open[d] = "drop") <=> ~Visible(doc, k)
         /\ doc[k] = "end" => Last(open) = Element(doc, k) /\ Element(doc, k) \in Elements
<1>0. /\ open \in Seq(Elements) /\ DOMAIN open = 1 .. Len(open) /\ Len(open) \in Nat
      /\ Len(open) = Depth(doc, k) /\ k \in Nat
  BY DEF Stack
<1>1. ASSUME NEW d \in DOMAIN open
      PROVE  \E j \in 1 .. k - 1 : doc[j] = open[d] /\ Around(doc, j, k) /\ Depth(doc, j) = d - 1
  BY <1>0 DEF Stack
<1>2. ASSUME NEW i \in 1 .. k - 1, Around(doc, i, k)
      PROVE  Depth(doc, i) + 1 \in DOMAIN open /\ open[Depth(doc, i) + 1] = doc[i]
  <2>1. Depth(doc, i) \in Nat /\ Depth(doc, k) > Depth(doc, i)
    <3>1. i \in 1 .. k /\ k \in i + 1 .. k
      BY <1>0
    <3> QED BY <1>2, <3>1 DEF Around
  <2>2. PICK d \in DOMAIN open : d = Depth(doc, i) + 1
    BY <1>0, <2>1
  <2>3. PICK j \in 1 .. k - 1 : doc[j] = open[d] /\ Around(doc, j, k) /\ Depth(doc, j) = d - 1
    BY <1>1
  <2>4. Depth(doc, i) = Depth(doc, j)
    BY <2>1, <2>2, <2>3
  <2>5. i = j
    BY <1>2, <2>3, <2>4, AroundUnique
  <2> QED BY <2>2, <2>3, <2>5
<1>3. (\E d \in DOMAIN open : open[d] = "drop") <=> ~Visible(doc, k)
  BY <1>1, <1>2 DEF Visible
<1>4. ASSUME doc[k] = "end"
      PROVE  Last(open) = Element(doc, k) /\ Element(doc, k) \in Elements
  <2> DEFINE Q(j) == Around(doc, j, k) /\ Depth(doc, k) = Depth(doc, j) + 1
             i == CHOOSE j \in 1 .. k - 1 : Q(j)
  <2>1. Depth(doc, k) > 0
    BY <1>4 DEF WellFormed
  <2>2. Len(open) \in DOMAIN open
    BY <1>0, <2>1
  <2>3. \E j \in 1 .. k - 1 : Q(j)
    <3>1. PICK j \in 1 .. k - 1 :
            doc[j] = open[Len(open)] /\ Around(doc, j, k) /\ Depth(doc, j) = Len(open) - 1
      BY <1>1, <2>2
    <3>2. Depth(doc, k) = Depth(doc, j) + 1
      BY <1>0, <3>1
    <3> QED BY <3>1, <3>2
  <2>4. Element(doc, k) = doc[i]
    BY <1>4 DEF Element
  <2>5. i \in 1 .. k - 1 /\ Q(i)
    BY <2>3
  <2> HIDE DEF i
  <2>6. open[Depth(doc, k)] = doc[i]
    BY <1>2, <2>5
  <2>7. open[Len(open)] \in Elements
    BY <1>0, <2>2
  <2> QED BY <1>0, <2>4, <2>6, <2>7 DEF Last
<1> QED BY <1>3, <1>4

-----------------------------------------------------------------------------
(* What the walk writes.                                                   *)

\* The characters of a text.
Chars == STRING \cup {Newline, Blank, "-"}

\* For token k.
Emit(doc, k) ==
  IF ~Visible(doc, k) THEN << >>
  ELSE CASE doc[k] \in Elements -> Before[doc[k]]
         [] doc[k] = "end"      -> After(Element(doc, k))
         [] doc[k] = "br"       -> <<Newline>>
         [] OTHER               -> collapseSpace(doc, k)

\* What the walk writes around the words is told apart.
LEMMA Separators == Newline # Blank /\ Newline # "-" /\ Blank # "-"
BY Zenon DEF Newline, Blank

\* So are the kinds of tokens.
LEMMA TokenKinds == /\ "end" \notin Elements /\ "br" \notin Elements /\ "space" \notin Elements
               /\ Blocks \subseteq Elements /\ Elements \subseteq Markup /\ "cell" \in Elements
               /\ "item" \in Elements /\ "item" \in Blocks /\ "cell" \notin Blocks
               /\ {"end", "br", "space"} \subseteq Markup
BY DEF Elements, Blocks, Markup

\* What is written for an element.
LEMMA BeforeAfter ==
  ASSUME NEW t \in Elements
  PROVE  /\ Before[t] \in Seq(Chars) /\ After(t) \in Seq(Chars)
         /\ t \in Blocks => /\ 1 \in DOMAIN Before[t] /\ Before[t][1] = Newline
                            /\ 1 \in DOMAIN After(t) /\ After(t)[1] = Newline
         /\ t \notin Blocks => DOMAIN After(t) = {}
         /\ t = "cell" => 1 \in DOMAIN Before[t] /\ Before[t][1] = Blank
         /\ \A x \in DOMAIN Before[t] :
              /\ Before[t][x] = Newline => t \in Blocks
              /\ Before[t][x] = Blank => t \in {"item", "cell"}
              /\ Before[t][x] \in {Newline, Blank, "-"}
         /\ \A x \in DOMAIN After(t) : After(t)[x] = Newline
<1>0. Newline \in Chars /\ Blank \in Chars /\ "-" \in Chars
  BY DEF Chars
<1>1. After(t) \in Seq(Chars)
      /\ (t \in Blocks => 1 \in DOMAIN After(t) /\ After(t)[1] = Newline)
      /\ (t \notin Blocks => DOMAIN After(t) = {})
      /\ \A x \in DOMAIN After(t) : After(t)[x] = Newline
  <2>1. CASE t \in Blocks
    <3>1. After(t) = <<Newline>>
      BY <2>1 DEF After
    <3> QED BY <1>0, <2>1, <3>1
  <2>2. CASE t \notin Blocks
    <3>1. After(t) = << >>
      BY <2>2 DEF After
    <3> QED BY <2>2, <3>1
  <2> QED BY <2>1, <2>2
<1>2. CASE t = "block"
  <2>1. Before[t] = <<Newline>>
    BY <1>2 DEF Before
  <2> QED BY <1>0, <1>1, <1>2, <2>1, Separators DEF Blocks
<1>3. CASE t = "item"
  <2>1. Before[t] = <<Newline, "-", Blank>>
    BY <1>3 DEF Before
  <2> QED BY <1>0, <1>1, <1>3, <2>1, Separators DEF Blocks
<1>4. CASE t = "cell"
  <2>1. Before[t] = <<Blank, Blank>>
    BY <1>4 DEF Before
  <2> QED BY <1>0, <1>1, <1>4, <2>1, Separators DEF Blocks
<1>5. CASE t \in {"drop", "inline"}
  <2>1. Before[t] = << >>
    BY <1>5 DEF Before
  <2> QED BY <1>0, <1>1, <1>5, <2>1, Separators DEF Blocks
<1> QED BY <1>2, <1>3, <1>4, <1>5 DEF Elements

\* e is what the reference makes of token k.
EmitFits(doc, k, e) ==
  /\ e \in Seq(Chars)
  /\ \A x \in DOMAIN e :
       /\ Visible(doc, k)
       /\ \/ e[x] \in {Newline, Blank, "-"}
          \/ x = 1 /\ e[x] = doc[k] /\ doc[k] \notin Markup
       /\ e[x] = Newline => Element(doc, k) \in Blocks \cup {"br"}
       /\ e[x] = Blank => doc[k] \in {"space", "item", "cell"}
  /\ Visible(doc, k) /\ Element(doc, k) \in Blocks \cup {"br"} =>
       1 \in DOMAIN e /\ e[1] = Newline
  /\ Visible(doc, k) /\ doc[k] \in {"space", "cell"}
       /\ ~(doc[k] = "space" /\ k > 1 /\ doc[k - 1] = "space") =>
       1 \in DOMAIN e /\ e[1] = Blank
  /\ Visible(doc, k) /\ doc[k] \notin Markup => Len(e) = 1 /\ e[1] = doc[k]

\* What the walk writes for a token is what the reference makes of it.
LEMMA EmitReads ==
  ASSUME NEW doc \in Seq(STRING), Document(doc), NEW k \in 1 .. Len(doc),
         doc[k] = "end" => Element(doc, k) \in Elements
  PROVE  EmitFits(doc, k, Emit(doc, k))
<1> DEFINE e == Emit(doc, k)
           t == doc[k]
<1>0. t \in Chars /\ Newline \in Chars /\ Blank \in Chars /\ << >> \in Seq(Chars)
  BY DEF Chars
<1>1. CASE ~Visible(doc, k)
  <2>1. e = << >>
    BY <1>1 DEF Emit
  <2> QED BY <1>0, <1>1, <2>1 DEF EmitFits
<1>2. CASE Visible(doc, k) /\ t \in Elements
  <2>1. e = Before[t] /\ Element(doc, k) = t
    BY <1>2, TokenKinds DEF Emit, Element
  <2>2. t \in Markup /\ t # "space" /\ t # "br"
    BY <1>2, TokenKinds
  <2> HIDE DEF e, t
  <2>3. /\ e \in Seq(Chars)
        /\ t \in Blocks \cup {"br"} => 1 \in DOMAIN e /\ e[1] = Newline
        /\ t = "cell" => 1 \in DOMAIN e /\ e[1] = Blank
        /\ \A x \in DOMAIN e :
             /\ e[x] = Newline => t \in Blocks
             /\ e[x] = Blank => t \in {"item", "cell"}
             /\ e[x] \in {Newline, Blank, "-"}
    BY <1>2, <2>1, <2>2, BeforeAfter
  <2> QED BY <1>2, <2>1, <2>2, <2>3 DEF EmitFits, e, t
<1>3. CASE Visible(doc, k) /\ t = "end"
  <2>1. e = After(Element(doc, k)) /\ Element(doc, k) \in Elements
    BY <1>3, TokenKinds DEF Emit
  <2>2. t \in Markup /\ t \notin {"space", "cell"}
    BY <1>3, TokenKinds
  <2>3. Element(doc, k) # "br"
    BY <2>1, TokenKinds
  <2> HIDE DEF e, t
  <2>4. /\ e \in Seq(Chars)
        /\ Element(doc, k) \in Blocks \cup {"br"} => 1 \in DOMAIN e /\ e[1] = Newline
        /\ \A x \in DOMAIN e : e[x] = Newline /\ Element(doc, k) \in Blocks
    BY <2>1, <2>3, BeforeAfter
  <2> QED BY <1>3, <2>2, <2>4, Separators DEF EmitFits, e, t
<1>4. CASE Visible(doc, k) /\ t = "br"
  <2>1. e = <<Newline>> /\ Element(doc, k) = t
    BY <1>4, TokenKinds DEF Emit, Element
  <2>2. t \in Markup /\ t \notin {"space", "cell"}
    BY <1>4, TokenKinds
  <2> HIDE DEF e
  <2> QED BY <1>0, <1>4, <2>1, <2>2, Separators DEF EmitFits, e
<1>5. CASE Visible(doc, k) /\ t \notin Elements \cup {"end", "br"}
  <2>1. e = collapseSpace(doc, k) /\ Element(doc, k) = t
    BY <1>5, TokenKinds DEF Emit, Element
  <2>2. t \notin Blocks \cup {"br", "cell"}
    BY <1>5, TokenKinds
  <2>3. CASE t = "space"
    <3>1. e = IF k > 1 /\ doc[k - 1] = "space" THEN << >> ELSE <<Blank>>
      BY <2>1, <2>3 DEF collapseSpace
    <3>2. t \in Markup
      BY <2>3, TokenKinds
    <3> HIDE DEF e
    <3>3. CASE k > 1 /\ doc[k - 1] = "space"
      <4>1. e = << >>
        BY <3>1, <3>3
      <4> QED BY <1>0, <1>5, <2>1, <2>2, <2>3, <3>2, <3>3, <4>1 DEF EmitFits, e
    <3>4. CASE ~(k > 1 /\ doc[k - 1] = "space")
      <4>1. e = <<Blank>>
        BY <3>1, <3>4
      <4> QED BY <1>0, <1>5, <2>1, <2>2, <2>3, <3>2, <4>1, Separators DEF EmitFits, e
    <3> QED BY <3>3, <3>4
  <2>4. CASE t # "space"
    <3>1. e = <<t>>
      BY <2>1, <2>4 DEF collapseSpace
    <3>2. t \notin Markup
      BY <1>5, <2>4 DEF Markup
    <3>3. t \notin {Newline, Blank, "-"}
      BY <3>2 DEF Document
    <3> HIDE DEF e
    <3> QED BY <1>0, <1>5, <2>1, <2>2, <2>4, <3>1, <3>2, <3>3 DEF EmitFits, e
  <2> QED BY <2>3, <2>4
<1> QED BY <1>1, <1>2, <1>3, <1>4, <1>5

\* A step writes what its token stands for.
LEMMA WalkEmits ==
  ASSUME NEW doc \in Seq(STRING), WellFormed(doc), NEW k \in 1 .. Len(doc), NEW w,
         Stack(doc, w.open, k), \A j \in 1 .. k : Depth(doc, j) \in Nat,
         w.out \in Seq(Chars)
  PROVE  Walk(doc, w, k).out = w.out \o Emit(doc, k)
<1>1. /\ (\E d \in DOMAIN w.open : w.open[d] = "drop") <=> ~Visible(doc, k)
      /\ doc[k] = "end" => Last(w.open) = Element(doc, k)
  BY StackReads
<1>2. w.out \o << >> = w.out
  OBVIOUS
<1>3. CASE doc[k] \in Elements
  BY <1>1, <1>2, <1>3, TokenKinds DEF Walk, Emit
<1>4. CASE doc[k] = "end"
  BY <1>1, <1>2, <1>4, TokenKinds DEF Walk, Emit
<1>5. CASE doc[k] = "br"
  BY <1>1, <1>2, <1>5, TokenKinds DEF Walk, Emit
<1>6. CASE doc[k] \notin Elements \cup {"end", "br"}
  BY <1>1, <1>2, <1>6 DEF Walk, Emit
<1> QED BY <1>3, <1>4, <1>5, <1>6

\* So it is all along the document.
LEMMA WalkedOut ==
  ASSUME NEW doc \in Seq(STRING), Document(doc)
  PROVE  /\ Walks(doc)[0].out = << >>
         /\ \A k \in 0 .. Len(doc) : Walks(doc)[k].out \in Seq(Chars)
         /\ \A k \in 1 .. Len(doc) :
              /\ doc[k] = "end" => Element(doc, k) \in Elements
              /\ Walks(doc)[k].out = Walks(doc)[k - 1].out \o Emit(doc, k)
<1> DEFINE n == Len(doc)
           W == Walks(doc)
           Good(k) == /\ W[k].out \in Seq(Chars)
                      /\ Stack(doc, W[k].open, k + 1)
                      /\ Depth(doc, k + 1) \in Nat
           Done(k) == /\ doc[k] = "end" => Element(doc, k) \in Elements
                      /\ W[k].out = W[k - 1].out \o Emit(doc, k)
           S == {m \in Nat : m <= n => /\ \A k \in 0 .. m : Good(k)
                                       /\ \A k \in 1 .. m : Done(k)}
<1>0. n \in Nat /\ WellFormed(doc)
  BY DEF Document
<1>1. W[0] = NoWalks /\ \A k \in 1 .. n : W[k] = Walk(doc, W[k - 1], k)
  BY StepByStep
<1> HIDE DEF W, n
<1>2. 0 \in S
  <2>1. Depth(doc, 1) = 0
    <3>1. {j \in 1 .. 1 - 1 : doc[j] \in Elements} = {} /\ {j \in 1 .. 1 - 1 : doc[j] = "end"} = {}
      OBVIOUS
    <3>2. Cardinality({}) = 0
      BY FS_EmptySet
    <3> QED BY <3>1, <3>2 DEF Depth
  <2>2. W[0].out = << >> /\ W[0].open = << >>
    BY <1>1 DEF NoWalks
  <2>3. Stack(doc, W[0].open, 0 + 1)
    <3>1. 0 + 1 = 1 /\ << >> \in Seq(Elements) /\ Len(<< >>) = 0 /\ 1 .. 0 = {}
      OBVIOUS
    <3> QED BY <2>1, <2>2, <3>1 DEF Stack
  <2>4. Good(0)
    <3>1. 0 + 1 = 1 /\ << >> \in Seq(Chars)
      OBVIOUS
    <3> QED BY <2>1, <2>2, <2>3, <3>1
  <2> HIDE DEF Good, Done
  <2>5. \A k \in 0 .. 0 : k = 0
    OBVIOUS
  <2>6. 1 .. 0 = {}
    OBVIOUS
  <2> QED BY <2>4, <2>5, <2>6
<1>3. ASSUME NEW m \in S PROVE m + 1 \in S
  <2>0. m \in Nat /\ m + 1 \in Nat
    OBVIOUS
  <2> SUFFICES ASSUME m + 1 <= n
               PROVE  (\A k \in 0 .. m + 1 : Good(k)) /\ (\A k \in 1 .. m + 1 : Done(k))
    BY <2>0
  <2>1. m + 1 \in 1 .. n /\ m <= n /\ (m + 1) - 1 = m
    BY <1>0, <2>0
  <2>2. (\A k \in 0 .. m : Good(k)) /\ (\A k \in 1 .. m : Done(k))
    BY <2>1
  <2>3. Good(m)
    BY <2>0, <2>2
  <2>4. \A j \in 1 .. m + 1 : Depth(doc, j) \in Nat
    <3> SUFFICES ASSUME NEW j \in 1 .. m + 1 PROVE Depth(doc, j) \in Nat
      OBVIOUS
    <3>1. j - 1 \in 0 .. m /\ (j - 1) + 1 = j
      BY <2>0
    <3>2. Good(j - 1)
      BY <2>2, <3>1
    <3> QED BY <3>1, <3>2
  <2> HIDE DEF S
  <2>5. W[m + 1] = Walk(doc, W[m], m + 1)
    BY <1>1, <2>1
  <2>6. W[m + 1].out = W[m].out \o Emit(doc, m + 1)
    <3>1. m + 1 \in 1 .. Len(doc) /\ Stack(doc, W[m].open, m + 1) /\ W[m].out \in Seq(Chars)
      BY <2>1, <2>3 DEF n
    <3>2. Walk(doc, W[m], m + 1).out = W[m].out \o Emit(doc, m + 1)
      BY <1>0, <2>4, <3>1, WalkEmits
    <3> QED BY <2>5, <3>2
  <2>7. doc[m + 1] = "end" => Element(doc, m + 1) \in Elements
    BY <1>0, <2>1, <2>3, <2>4, StackReads DEF n
  <2>8. Done(m + 1)
    BY <2>1, <2>6, <2>7
  <2>9. Good(m + 1)
    <3>1. Stack(doc, W[m + 1].open, (m + 1) + 1)
      BY <1>0, <2>1, <2>3, <2>5, StackStep DEF n
    <3>2. Depth(doc, (m + 1) + 1) \in Nat
      <4>1. Len(W[m + 1].open) \in Nat
        BY <3>1 DEF Stack
      <4> QED BY <3>1, <4>1 DEF Stack
    <3>3. Emit(doc, m + 1) \in Seq(Chars)
      BY <2>1, <2>7, EmitReads DEF n, EmitFits
    <3>4. W[m + 1].out \in Seq(Chars)
      BY <2>3, <2>6, <3>3
    <3> QED BY <3>1, <3>2, <3>4
  <2> HIDE DEF Good, Done
  <2>10. /\ \A k \in 0 .. m + 1 : k \in 0 .. m \/ k = m + 1
         /\ \A k \in 1 .. m + 1 : k \in 1 .. m \/ k = m + 1
    BY <2>0
  <2> QED BY <2>2, <2>8, <2>9, <2>10
<1>4. S = Nat
  <2> HIDE DEF S
  <2>1. S \in SUBSET Nat
    BY DEF S
  <2> QED BY <1>2, <1>3, <2>1, SetInduction
<1>5. (\A k \in 0 .. n : Good(k)) /\ (\A k \in 1 .. n : Done(k))
  <2> HIDE DEF Good, Done
  <2>1. n \in S
    BY <1>0, <1>4
  <2> QED BY <1>0, <2>1
<1>6. W[0].out = << >>
  BY <1>1 DEF NoWalks
<1>7. /\ \A k \in 0 .. n : W[k].out \in Seq(Chars)
      /\ \A k \in 1 .. n : /\ doc[k] = "end" => Element(doc, k) \in Elements
                          /\ W[k].out = W[k - 1].out \o Emit(doc, k)
  BY <1>5
<1> QED BY <1>6, <1>7 DEF n, W

\* Where the parts of a sequence are.
LEMMA Joined ==
  ASSUME NEW U, NEW q \in Seq(U), NEW r \in Seq(U), NEW z, z = q \o r
  PROVE  /\ Len(z) = Len(q) + Len(r)
         /\ \A i \in 1 .. Len(q) : z[i] = q[i]
         /\ \A x \in 1 .. Len(r) : z[Len(q) + x] = r[x]
OBVIOUS

\* O[n] is written piece by piece.
Pieced(T, n, O, E) ==
  /\ O[0] = << >>
  /\ \A k \in 0 .. n : O[k] \in Seq(T)
  /\ \A k \in 1 .. n : E[k] \in Seq(T) /\ O[k] = O[k - 1] \o E[k]

\* Each of its positions belongs to one piece.
LEMMA PieceByPiece ==
  ASSUME NEW T, NEW n \in Nat, NEW O, NEW E, Pieced(T, n, O, E)
  PROVE  /\ \A k, m \in 0 .. n : k <= m => Len(O[k]) <= Len(O[m])
         /\ \A k \in 1 .. n :
              /\ Len(O[k]) = Len(O[k - 1]) + Len(E[k])
              /\ \A x \in 1 .. Len(E[k]) : O[n][Len(O[k - 1]) + x] = E[k][x]
         /\ \A i \in 1 .. Len(O[n]) : \E k \in 1 .. n :
              i - Len(O[k - 1]) \in 1 .. Len(E[k])
<1> DEFINE Pre(k, m) == /\ Len(O[k]) <= Len(O[m])
                        /\ \A i \in 1 .. Len(O[k]) : O[m][i] = O[k][i]
           S == {m \in Nat : m <= n => \A k \in 0 .. m : Pre(k, m)}
<1>0. /\ \A k \in 0 .. n : O[k] \in Seq(T) /\ Len(O[k]) \in Nat
      /\ \A k \in 1 .. n : E[k] \in Seq(T) /\ Len(E[k]) \in Nat
      /\ \A k \in 1 .. n : k - 1 \in 0 .. n /\ k \in 0 .. n
  <2>1. \A q \in Seq(T) : Len(q) \in Nat
    OBVIOUS
  <2>2. \A k \in 1 .. n : k - 1 \in 0 .. n /\ k \in 0 .. n
    OBVIOUS
  <2> QED BY <2>1, <2>2, Zenon DEF Pieced
<1>1. \A k \in 1 .. n : /\ Len(O[k]) = Len(O[k - 1]) + Len(E[k])
                        /\ \A i \in 1 .. Len(O[k - 1]) : O[k][i] = O[k - 1][i]
                        /\ \A x \in 1 .. Len(E[k]) : O[k][Len(O[k - 1]) + x] = E[k][x]
  <2> SUFFICES ASSUME NEW k \in 1 .. n
               PROVE  /\ Len(O[k]) = Len(O[k - 1]) + Len(E[k])
                      /\ \A i \in 1 .. Len(O[k - 1]) : O[k][i] = O[k - 1][i]
                      /\ \A x \in 1 .. Len(E[k]) : O[k][Len(O[k - 1]) + x] = E[k][x]
    OBVIOUS
  <2>1. O[k - 1] \in Seq(T) /\ E[k] \in Seq(T) /\ O[k] = O[k - 1] \o E[k]
    BY <1>0 DEF Pieced
  <2>2. /\ Len(O[k]) = Len(O[k - 1]) + Len(E[k])
        /\ \A i \in 1 .. Len(O[k - 1]) : O[k][i] = O[k - 1][i]
        /\ \A x \in 1 .. Len(E[k]) : O[k][Len(O[k - 1]) + x] = E[k][x]
    <3> DEFINE q == O[k - 1]
               r == E[k]
               z == O[k]
    <3>1. q \in Seq(T) /\ r \in Seq(T) /\ z = q \o r
      BY <2>1
    <3> HIDE DEF q, r, z
    <3>2. /\ Len(z) = Len(q) + Len(r)
          /\ \A i \in 1 .. Len(q) : z[i] = q[i]
          /\ \A x \in 1 .. Len(r) : z[Len(q) + x] = r[x]
      BY <3>1, Joined
    <3> QED BY <3>2 DEF q, r, z
  <2> QED BY <2>2
<1>2. 0 \in S
  <2>1. \A k \in 0 .. 0 : k = 0
    OBVIOUS
  <2>2. Len(O[0]) \in Nat
    BY DEF Pieced
  <2> QED BY <2>1, <2>2
<1>3. ASSUME NEW m \in S PROVE m + 1 \in S
  <2>0. m \in Nat /\ m + 1 \in Nat
    OBVIOUS
  <2> SUFFICES ASSUME m + 1 <= n, NEW k \in 0 .. m + 1 PROVE Pre(k, m + 1)
    BY <2>0
  <2>1. m + 1 \in 1 .. n /\ m \in 0 .. n /\ (m + 1) - 1 = m /\ k \in 0 .. n
    BY <2>0
  <2>2. CASE k = m + 1
    BY <1>0, <2>1, <2>2
  <2>3. CASE k # m + 1
    <3>1. k \in 0 .. m
      BY <2>0, <2>3
    <3>2. Pre(k, m)
      BY <2>0, <2>1, <3>1
    <3>3. Pre(m, m + 1)
      <4>1. /\ Len(O[m + 1]) = Len(O[(m + 1) - 1]) + Len(E[m + 1])
            /\ \A i \in 1 .. Len(O[(m + 1) - 1]) : O[m + 1][i] = O[(m + 1) - 1][i]
        BY <1>1, <2>1
      <4>2. Len(O[m]) \in Nat /\ Len(E[m + 1]) \in Nat
        BY <1>0, <2>1
      <4>3. \A p, q \in Nat : p <= p + q
        OBVIOUS
      <4> QED BY <2>1, <4>1, <4>2, <4>3, Zenon
    <3> HIDE DEF S
    <3>4. Len(O[k]) \in Nat /\ Len(O[m]) \in Nat /\ Len(O[m + 1]) \in Nat
      BY <1>0, <2>1
    <3> QED BY <3>2, <3>3, <3>4
  <2> QED BY <2>2, <2>3
<1>4. S = Nat
  <2> HIDE DEF S
  <2>1. S \in SUBSET Nat
    BY DEF S
  <2> QED BY <1>2, <1>3, <2>1, SetInduction
<1>5. ASSUME NEW k \in 0 .. n, NEW m \in 0 .. n, k <= m PROVE Pre(k, m)
  <2>1. m \in S /\ m <= n /\ k \in 0 .. m
    BY <1>4, <1>5
  <2> HIDE DEF Pre
  <2> QED BY <2>1
<1>6. ASSUME NEW k \in 1 .. n, NEW x \in 1 .. Len(E[k])
      PROVE  O[n][Len(O[k - 1]) + x] = E[k][x]
  <2>1. Pre(k, n)
    BY <1>0, <1>5
  <2>2. Len(O[k - 1]) + x \in 1 .. Len(O[k])
    <3>1. Len(O[k - 1]) \in Nat /\ Len(E[k]) \in Nat /\ Len(O[k]) = Len(O[k - 1]) + Len(E[k])
      BY <1>0, <1>1
    <3>2. \A p, q, r \in Nat : \A y \in 1 .. q : r = p + q => p + y \in 1 .. r
      OBVIOUS
    <3>3. Len(O[k]) \in Nat
      BY <1>0
    <3> QED BY <3>1, <3>2, <3>3, Zenon
  <2> QED BY <1>1, <2>1, <2>2
<1>7. ASSUME NEW i \in 1 .. Len(O[n])
      PROVE  \E k \in 1 .. n : i - Len(O[k - 1]) \in 1 .. Len(E[k])
  <2> DEFINE U == {k \in 0 .. n : i <= Len(O[k])}
  <2>0. i \in Nat /\ i >= 1
    BY <1>0
  <2>1. U \in SUBSET Nat /\ n \in U
    BY <1>0, <2>0
  <2>2. PICK k \in U : \A m \in U : k <= m
    <3> HIDE DEF U
    <3> QED BY <2>1, LeastNat
  <2>3. k \in 0 .. n /\ i <= Len(O[k])
    BY <2>2
  <2>4. k # 0
    <3>1. Len(O[0]) = 0
      BY DEF Pieced
    <3> QED BY <2>0, <2>3, <3>1
  <2>5. k \in 1 .. n /\ k - 1 \in 0 .. n /\ k - 1 < k
    BY <2>3, <2>4
  <2>6. k - 1 \notin U
    <3> HIDE DEF U
    <3> QED BY <2>2, <2>5
  <2>7. Len(O[k - 1]) < i
    <3>1. Len(O[k - 1]) \in Nat
      BY <1>0, <2>5
    <3> QED BY <2>0, <2>5, <2>6, <3>1
  <2>8. Len(O[k]) = Len(O[k - 1]) + Len(E[k]) /\ Len(O[k - 1]) \in Nat /\ Len(E[k]) \in Nat
    BY <1>0, <1>1, <2>5
  <2>9. i - Len(O[k - 1]) \in 1 .. Len(E[k])
    <3>1. \A p, q, r, y \in Nat : r = p + q /\ p < y /\ y <= r => y - p \in 1 .. q
      OBVIOUS
    <3>2. Len(O[k]) \in Nat
      BY <1>0, <2>3
    <3> QED BY <2>0, <2>3, <2>7, <2>8, <3>1, <3>2, Zenon
  <2> QED BY <2>5, <2>9
<1>8. \A k \in 1 .. n : Len(O[k]) = Len(O[k - 1]) + Len(E[k])
  BY <1>1
<1>9. \A k, m \in 0 .. n : k <= m => Len(O[k]) <= Len(O[m])
  BY <1>5
<1> HIDE DEF S, Pre
<1>10. \A k \in 1 .. n : /\ Len(O[k]) = Len(O[k - 1]) + Len(E[k])
                         /\ \A x \in 1 .. Len(E[k]) : O[n][Len(O[k - 1]) + x] = E[k][x]
  BY <1>6, <1>8
<1>11. \A i \in 1 .. Len(O[n]) : \E k \in 1 .. n : i - Len(O[k - 1]) \in 1 .. Len(E[k])
  BY <1>7
<1> QED BY <1>9, <1>10, <1>11

\* s shows the visible words of the document, that of token k at L[k], and between
\* them the breaks and blanks of the reference.
Marks(doc, s, L) ==
  /\ \A k \in DOMAIN doc : doc[k] \notin Markup =>
       /\ doc[k] \notin {Newline, Blank}
       /\ \A i \in DOMAIN s : s[i] = doc[k] <=> Visible(doc, k) /\ i = L[k]
       /\ Visible(doc, k) => L[k] \in DOMAIN s
  /\ \A a, b \in WordsOf(doc) : a < b =>
       /\ L[a] < L[b]
       /\ Broken(doc, a, b) <=> \E i \in L[a] + 1 .. L[b] - 1 : s[i] = Newline
       /\ ~Broken(doc, a, b) =>
            (Spaced(doc, a, b) <=> \E i \in L[a] + 1 .. L[b] - 1 : s[i] = Blank)

\* White space does not hide anything.
LEMMA SpaceVisible ==
  ASSUME NEW doc \in Seq(STRING), NEW k \in 2 .. Len(doc), doc[k - 1] = "space",
         Visible(doc, k)
  PROVE  Visible(doc, k - 1)
<1> SUFFICES ASSUME NEW j \in 1 .. (k - 1) - 1, Around(doc, j, k - 1), doc[j] = "drop"
             PROVE  FALSE
  BY DEF Visible
<1>1. Depth(doc, k) = Depth(doc, k - 1)
  <2>1. k - 1 \in 1 .. Len(doc) /\ (k - 1) + 1 = k
    OBVIOUS
  <2>2. doc[k - 1] \notin Elements \cup {"end"}
    BY DEF Elements
  <2> QED BY <2>1, <2>2, DepthStep
<1>2. j \in 1 .. k - 1 /\ j < k /\ k - 1 \in j + 1 .. k - 1
  BY DEF Around
<1>3. \A m \in j + 1 .. k : m \in j + 1 .. k - 1 \/ m = k
  BY <1>2
<1>4. Around(doc, j, k)
  BY <1>1, <1>2, <1>3 DEF Around
<1> QED BY <1>2, <1>4 DEF Visible

\* The walk writes the visible words and the separators of the reference between
\* them, each at its place.
LEMMA WrittenMarks ==
  ASSUME NEW doc \in Seq(STRING), Document(doc)
  PROVE  Written(doc) \in Seq(Chars) /\ \E L : Marks(doc, Written(doc), L)
<1> DEFINE n == Len(doc)
           O == [k \in 0 .. n |-> Walks(doc)[k].out]
           E == [k \in 1 .. n |-> Emit(doc, k)]
           L == [k \in 0 .. n |-> Len(O[k])]
           s == Written(doc)
<1>0. n \in Nat /\ DOMAIN doc = 1 .. n
  OBVIOUS
<1>1. \A k \in 1 .. n : doc[k] = "end" => Element(doc, k) \in Elements
  BY WalkedOut
<1>2. \A k \in 1 .. n : E[k] = Emit(doc, k) /\ E[k] \in Seq(Chars)
  BY <1>1, EmitReads DEF EmitFits
<1>3. \A k \in 0 .. n : O[k] \in Seq(Chars)
  BY WalkedOut
<1>4. O[0] = << >> /\ s = O[n] /\ \A k \in 1 .. n : O[k] = O[k - 1] \o E[k]
  <2>1. 0 \in 0 .. n /\ n \in 0 .. n /\ \A k \in 1 .. n : k - 1 \in 0 .. n /\ k \in 0 .. n
    BY <1>0
  <2> QED BY <2>1, WalkedOut, WrittenWalks
<1> HIDE DEF O, E
<1>5. /\ \A k, m \in 0 .. n : k <= m => Len(O[k]) <= Len(O[m])
      /\ \A k \in 1 .. n :
           /\ Len(O[k]) = Len(O[k - 1]) + Len(E[k])
           /\ \A x \in 1 .. Len(E[k]) : O[n][Len(O[k - 1]) + x] = E[k][x]
      /\ \A i \in 1 .. Len(O[n]) : \E k \in 1 .. n :
           i - Len(O[k - 1]) \in 1 .. Len(E[k])
  <2>1. \A k \in 1 .. n : E[k] \in Seq(Chars) /\ O[k] = O[k - 1] \o E[k]
    BY <1>2, <1>4
  <2> HIDE DEF n
  <2>2. Pieced(Chars, n, O, E)
    BY <1>3, <1>4, <2>1 DEF Pieced
  <2> QED BY <1>0, <2>2, PieceByPiece
<1>6. s \in Seq(Chars) /\ DOMAIN s = 1 .. L[n] /\ Len(s) = L[n]
  BY <1>0, <1>3, <1>4
<1>7. /\ \A k \in 0 .. n : L[k] \in Nat
      /\ \A k, m \in 0 .. n : k <= m => L[k] <= L[m]
      /\ \A k \in 1 .. n : L[k] = L[k - 1] + Len(E[k]) /\ Len(E[k]) \in Nat
                           /\ k - 1 \in 0 .. n /\ k \in 0 .. n
  <2>1. \A k \in 1 .. n : k - 1 \in 0 .. n /\ k \in 0 .. n
    BY <1>0
  <2>2. \A k \in 0 .. n : L[k] = Len(O[k]) /\ Len(O[k]) \in Nat
    BY <1>3
  <2>3. \A k \in 1 .. n : Len(E[k]) \in Nat
    BY <1>2
  <2> QED BY <1>5, <2>1, <2>2, <2>3
<1>8. \A k \in 1 .. n : \A x \in 1 .. Len(E[k]) : s[L[k - 1] + x] = E[k][x]
  <2>1. \A k \in 1 .. n : L[k - 1] = Len(O[k - 1])
    BY <1>7
  <2> QED BY <1>4, <1>5, <2>1
<1>9. ASSUME NEW i \in 1 .. L[n]
      PROVE  \E k \in 1 .. n : \E x \in 1 .. Len(E[k]) :
               i = L[k - 1] + x /\ s[i] = E[k][x]
  <2>1. L[n] = Len(O[n])
    BY <1>0
  <2>2. PICK k \in 1 .. n : i - Len(O[k - 1]) \in 1 .. Len(E[k])
    BY <1>5, <2>1
  <2>3. L[k - 1] = Len(O[k - 1]) /\ L[k - 1] \in Nat /\ Len(E[k]) \in Nat
    BY <1>7
  <2>4. PICK x \in 1 .. Len(E[k]) : x = i - L[k - 1]
    BY <2>2, <2>3
  <2>5. L[n] \in Nat
    BY <1>0, <1>7
  <2>6. i = L[k - 1] + x
    BY <2>3, <2>4, <2>5
  <2> QED BY <1>8, <2>6
<1> HIDE DEF L, s
<1>10. \A k \in 1 .. n : EmitFits(doc, k, E[k]) /\ DOMAIN E[k] = 1 .. Len(E[k])
  BY <1>1, <1>2, EmitReads
<1>11. ASSUME NEW k \in 1 .. n, doc[k] \notin Markup
       PROVE  /\ doc[k] \notin {Newline, Blank, "-"}
              /\ \A j \in 1 .. n : doc[j] = doc[k] => j = k
  BY <1>0, <1>11 DEF Document
<1>12. ASSUME NEW k \in 1 .. n, doc[k] \notin Markup, Visible(doc, k)
       PROVE  L[k] = L[k - 1] + 1 /\ L[k] \in 1 .. L[n] /\ s[L[k]] = doc[k]
  <2>1. Len(E[k]) = 1 /\ E[k][1] = doc[k]
    BY <1>10, <1>12 DEF EmitFits
  <2>2. L[k] = L[k - 1] + 1 /\ L[k - 1] \in Nat /\ L[k] <= L[n] /\ L[n] \in Nat
    <3>1. k \in 0 .. n /\ n \in 0 .. n /\ k <= n
      BY <1>0
    <3> QED BY <1>7, <2>1, <3>1
  <2>3. s[L[k - 1] + 1] = doc[k]
    BY <1>8, <2>1
  <2> QED BY <2>2, <2>3
<1>13. ASSUME NEW k \in 1 .. n, doc[k] \notin Markup, NEW i \in 1 .. L[n], s[i] = doc[k]
       PROVE  Visible(doc, k) /\ i = L[k]
  <2>1. PICK j \in 1 .. n : \E x \in 1 .. Len(E[j]) : i = L[j - 1] + x /\ s[i] = E[j][x]
    BY <1>9
  <2>2. PICK x \in 1 .. Len(E[j]) : i = L[j - 1] + x /\ s[i] = E[j][x]
    BY <2>1
  <2>3. x = 1 /\ E[j][x] = doc[j] /\ Visible(doc, j)
    <3>1. E[j][x] \notin {Newline, Blank, "-"}
      BY <1>11, <1>13, <2>2
    <3> QED BY <1>10, <2>2, <3>1 DEF EmitFits
  <2>4. j = k
    BY <1>11, <1>13, <2>2, <2>3
  <2> QED BY <1>12, <1>13, <2>2, <2>3, <2>4
\* What is written between two words belongs to a token between them.
<1>14. ASSUME NEW a \in WordsOf(doc), NEW b \in WordsOf(doc), a < b
       PROVE  /\ a \in 1 .. n /\ b \in 1 .. n /\ L[a] < L[b]
              /\ \A i \in L[a] + 1 .. L[b] - 1 :
                   \E k \in a + 1 .. b - 1 : \E x \in DOMAIN E[k] : s[i] = E[k][x]
              /\ \A k \in a + 1 .. b - 1 : k \in 1 .. n
                   /\ \A x \in DOMAIN E[k] :
                        \E i \in L[a] + 1 .. L[b] - 1 : s[i] = E[k][x]
  <2>1. /\ a \in 1 .. n /\ doc[a] \notin Markup /\ Visible(doc, a)
        /\ b \in 1 .. n /\ doc[b] \notin Markup /\ Visible(doc, b)
    BY <1>0 DEF WordsOf
  <2>2. L[b] = L[b - 1] + 1 /\ L[b - 1] \in Nat /\ L[a] \in Nat /\ L[b] \in Nat /\ L[n] \in Nat
    BY <1>0, <1>7, <1>12, <2>1
  <2>3. L[a] <= L[b - 1] /\ L[b] <= L[n]
    <3>1. a \in 0 .. n /\ b - 1 \in 0 .. n /\ a <= b - 1 /\ b \in 0 .. n /\ n \in 0 .. n /\ b <= n
      BY <1>0, <1>14, <2>1
    <3> QED BY <1>7, <3>1
  <2>4. ASSUME NEW i \in L[a] + 1 .. L[b] - 1
        PROVE  \E k \in a + 1 .. b - 1 : \E x \in DOMAIN E[k] : s[i] = E[k][x]
    <3>1. i \in 1 .. L[n] /\ i \in Nat
      BY <2>2, <2>3
    <3>2. PICK k \in 1 .. n : \E x \in 1 .. Len(E[k]) : i = L[k - 1] + x /\ s[i] = E[k][x]
      BY <1>9, <3>1
    <3>3. PICK x \in 1 .. Len(E[k]) : i = L[k - 1] + x /\ s[i] = E[k][x]
      BY <3>2
    <3>4. L[k - 1] \in Nat /\ L[k] \in Nat /\ L[k] = L[k - 1] + Len(E[k]) /\ Len(E[k]) \in Nat
          /\ k - 1 \in 0 .. n /\ k \in 0 .. n
      BY <1>7
    <3>5. L[k - 1] < i /\ i <= L[k]
      BY <3>3, <3>4, SMTT(40)
    <3>6. ~(k <= a)
      <4> SUFFICES ASSUME k <= a PROVE FALSE
        OBVIOUS
      <4>1. L[k] <= L[a]
        BY <1>7, <2>1, <3>4
      <4> QED BY <2>2, <3>1, <3>4, <3>5, <4>1
    <3>7. ~(b <= k)
      <4> SUFFICES ASSUME b <= k PROVE FALSE
        OBVIOUS
      <4>1. b - 1 \in 0 .. n /\ b - 1 <= k - 1
        BY <1>0, <2>1
      <4>2. L[b - 1] <= L[k - 1]
        BY <1>7, <3>4, <4>1
      <4> QED BY <2>2, <3>1, <3>4, <3>5, <4>2
    <3>8. k \in a + 1 .. b - 1
      BY <2>1, <3>6, <3>7
    <3>9. x \in DOMAIN E[k]
      BY <1>10
    <3> QED BY <3>3, <3>8, <3>9
  <2>5. ASSUME NEW k \in a + 1 .. b - 1
        PROVE  k \in 1 .. n /\ \A x \in DOMAIN E[k] :
                                 \E i \in L[a] + 1 .. L[b] - 1 : s[i] = E[k][x]
    <3>1. k \in 1 .. n
      BY <1>0, <2>1
    <3> SUFFICES ASSUME NEW x \in DOMAIN E[k]
                 PROVE  \E i \in L[a] + 1 .. L[b] - 1 : s[i] = E[k][x]
      BY <3>1
    <3>2. x \in 1 .. Len(E[k])
      BY <1>10, <3>1
    <3>3. s[L[k - 1] + x] = E[k][x]
      BY <1>8, <3>1, <3>2
    <3>4. L[k - 1] \in Nat /\ L[k] \in Nat /\ L[k] = L[k - 1] + Len(E[k]) /\ Len(E[k]) \in Nat
      BY <1>7, <3>1
    <3>5. L[a] <= L[k - 1] /\ L[k] <= L[b - 1]
      <4>1. a \in 0 .. n /\ b - 1 \in 0 .. n /\ k - 1 \in 0 .. n /\ k \in 0 .. n
            /\ a <= k - 1 /\ k <= b - 1
        BY <1>0, <2>1
      <4> QED BY <1>7, <4>1
    <3>6. L[k - 1] + x \in L[a] + 1 .. L[b] - 1
      <4>1. x \in Nat /\ 1 <= x /\ L[k - 1] + x <= L[k]
        BY <3>2, <3>4
      <4>2. \A p, q, y, t, u, v \in Nat :
              1 <= y /\ p <= q /\ q + y <= t /\ t <= u /\ v = u + 1 => q + y \in p + 1 .. v - 1
        OBVIOUS
      <4> QED BY <2>2, <3>4, <3>5, <4>1, <4>2
    <3> QED BY <3>3, <3>6
  <2>6. L[a] < L[b]
    BY <2>2, <2>3
  <2> QED BY <2>1, <2>4, <2>5, <2>6
<1>15. ASSUME NEW a \in WordsOf(doc), NEW b \in WordsOf(doc), a < b
       PROVE  Broken(doc, a, b) <=> \E i \in L[a] + 1 .. L[b] - 1 : s[i] = Newline
  <2>1. ASSUME Broken(doc, a, b) PROVE \E i \in L[a] + 1 .. L[b] - 1 : s[i] = Newline
    <3>1. PICK k \in a + 1 .. b - 1 : Visible(doc, k) /\ Element(doc, k) \in Blocks \cup {"br"}
      BY <2>1 DEF Broken
    <3>2. k \in 1 .. n
      BY <1>14, <1>15
    <3>3. 1 \in DOMAIN E[k] /\ E[k][1] = Newline
      BY <1>10, <3>1, <3>2 DEF EmitFits
    <3>4. \A x \in DOMAIN E[k] : \E i \in L[a] + 1 .. L[b] - 1 : s[i] = E[k][x]
      BY <1>14, <1>15
    <3> QED BY <3>3, <3>4
  <2>2. ASSUME NEW i \in L[a] + 1 .. L[b] - 1, s[i] = Newline PROVE Broken(doc, a, b)
    <3>1. PICK k \in a + 1 .. b - 1 : \E x \in DOMAIN E[k] : s[i] = E[k][x]
      BY <1>14, <1>15
    <3>2. k \in 1 .. n
      BY <1>14, <1>15
    <3>3. Visible(doc, k) /\ Element(doc, k) \in Blocks \cup {"br"}
      BY <1>10, <2>2, <3>1, <3>2 DEF EmitFits
    <3> QED BY <3>3 DEF Broken
  <2> QED BY <2>1, <2>2
<1>16. ASSUME NEW a \in WordsOf(doc), NEW b \in WordsOf(doc), a < b, ~Broken(doc, a, b)
       PROVE  Spaced(doc, a, b) <=> \E i \in L[a] + 1 .. L[b] - 1 : s[i] = Blank
  <2>0. a \in 1 .. n /\ b \in 1 .. n /\ doc[a] \notin Markup
    BY <1>0 DEF WordsOf
  <2>1. ASSUME Spaced(doc, a, b) PROVE \E i \in L[a] + 1 .. L[b] - 1 : s[i] = Blank
    <3> DEFINE U == {k \in a + 1 .. b - 1 : Visible(doc, k) /\ doc[k] \in {"space", "cell"}}
    <3>1. U \in SUBSET Nat /\ U # {}
      BY <2>0, <2>1 DEF Spaced
    <3>2. PICK k \in U : \A m \in U : k <= m
      <4> HIDE DEF U
      <4> QED BY <3>1, LeastNat
    <3>3. k \in a + 1 .. b - 1 /\ k \in 1 .. n /\ Visible(doc, k) /\ doc[k] \in {"space", "cell"}
      BY <1>0, <2>0, <3>2
    <3>4. ASSUME doc[k - 1] = "space" PROVE FALSE
      <4>1. k - 1 # a
        BY <2>0, <3>4, TokenKinds
      <4>2. k - 1 \in a + 1 .. b - 1 /\ k \in 2 .. Len(doc) /\ k - 1 < k
        BY <2>0, <3>3, <4>1
      <4>3. Visible(doc, k - 1)
        BY <3>3, <3>4, <4>2, SpaceVisible
      <4>4. k - 1 \in U
        BY <3>4, <4>2, <4>3
      <4> HIDE DEF U
      <4> QED BY <3>2, <3>3, <4>2, <4>4
    <3>5. 1 \in DOMAIN E[k] /\ E[k][1] = Blank
      BY <1>10, <3>3, <3>4 DEF EmitFits
    <3>6. \A x \in DOMAIN E[k] : \E i \in L[a] + 1 .. L[b] - 1 : s[i] = E[k][x]
      BY <1>14, <1>16, <3>3
    <3> QED BY <3>5, <3>6
  <2>2. ASSUME NEW i \in L[a] + 1 .. L[b] - 1, s[i] = Blank PROVE Spaced(doc, a, b)
    <3>1. PICK k \in a + 1 .. b - 1 : \E x \in DOMAIN E[k] : s[i] = E[k][x]
      BY <1>14, <1>16
    <3>2. k \in 1 .. n
      BY <1>14, <1>16
    <3>3. Visible(doc, k) /\ doc[k] \in {"space", "item", "cell"}
      BY <1>10, <2>2, <3>1, <3>2 DEF EmitFits
    <3>4. doc[k] # "item"
      <4> SUFFICES ASSUME doc[k] = "item" PROVE FALSE
        OBVIOUS
      <4>1. Element(doc, k) = "item"
        BY DEF Element
      <4>2. Broken(doc, a, b)
        BY <3>3, <4>1, TokenKinds DEF Broken
      <4> QED BY <1>16, <4>2
    <3> QED BY <3>3, <3>4 DEF Spaced
  <2> QED BY <2>1, <2>2
<1>17. Marks(doc, s, L)
  <2>1. ASSUME NEW k \in DOMAIN doc, doc[k] \notin Markup
        PROVE  /\ doc[k] \notin {Newline, Blank}
               /\ \A i \in DOMAIN s : s[i] = doc[k] <=> Visible(doc, k) /\ i = L[k]
               /\ Visible(doc, k) => L[k] \in DOMAIN s
    <3>1. k \in 1 .. n /\ DOMAIN s = 1 .. L[n]
      BY <1>0, <1>6
    <3>2. doc[k] \notin {Newline, Blank}
      BY <1>11, <2>1, <3>1
    <3>3. Visible(doc, k) => L[k] \in DOMAIN s /\ s[L[k]] = doc[k]
      BY <1>12, <2>1, <3>1
    <3>4. \A i \in DOMAIN s : s[i] = doc[k] => Visible(doc, k) /\ i = L[k]
      BY <1>13, <2>1, <3>1
    <3> QED BY <3>2, <3>3, <3>4
  <2>2. ASSUME NEW a \in WordsOf(doc), NEW b \in WordsOf(doc), a < b
        PROVE  /\ L[a] < L[b]
               /\ Broken(doc, a, b) <=> \E i \in L[a] + 1 .. L[b] - 1 : s[i] = Newline
               /\ ~Broken(doc, a, b) =>
                    (Spaced(doc, a, b) <=> \E i \in L[a] + 1 .. L[b] - 1 : s[i] = Blank)
    BY <1>14, <1>15, <1>16, <2>2, Zenon
  <2> QED BY <2>1, <2>2 DEF Marks
<1> QED BY <1>6, <1>17 DEF s

-----------------------------------------------------------------------------
(* The text reads like the document.                                       *)

\* Places are in the order of their positions, and differ as the separators between
\* them say.
LEMMA SpotOrder ==
  ASSUME NEW U, NEW s \in Seq(U), NEW text, NEW b, NEW c, Lays(s, text, b, c),
         NEW l \in DOMAIN text, NEW f \in DOMAIN text[l], NEW x \in DOMAIN text[l][f],
         NEW m \in DOMAIN text, NEW g \in DOMAIN text[m], NEW y \in DOMAIN text[m][g],
         NEW i, NEW j, i = Spot(b[l], c[l], f, x), j = Spot(b[m], c[m], g, y)
  PROVE  /\ i \in DOMAIN s /\ s[i] = text[l][f][x]
         /\ i = j => l = m /\ f = g /\ x = y
         /\ i < j => IF \E k \in i + 1 .. j - 1 : s[k] = Newline THEN l < m
                     ELSE l = m /\ IF \E k \in i + 1 .. j - 1 : s[k] = Blank THEN f < g
                                   ELSE f = g /\ x < y
<1>1. /\ l \in Nat /\ LineLays(s, b[l], text[l], c[l])
      /\ m \in Nat /\ LineLays(s, b[m], text[m], c[m])
  BY DEF Lays
<1>2. /\ f \in Nat /\ x \in Nat /\ i \in DOMAIN s /\ s[i] = text[l][f][x]
      /\ g \in Nat /\ y \in Nat /\ j \in DOMAIN s
  BY <1>1, Zenon DEF LineLays
<1>3. i \in Nat /\ j \in Nat
  BY <1>2, ElementOf
<1>10. \A o, r \in DOMAIN text : o < r =>
         \A h \in DOMAIN text[o], e \in DOMAIN text[r] :
         \A z \in DOMAIN text[o][h], d \in DOMAIN text[r][e] :
           \E k \in Spot(b[o], c[o], h, z) + 1 .. Spot(b[r], c[r], e, d) - 1 : s[k] = Newline
  BY DEF Lays
<1> DEFINE u == Spot(b[l], c[l], f, x)
           v == Spot(b[m], c[m], g, y)
<1>11. /\ l < m => \E k \in u + 1 .. v - 1 : s[k] = Newline
       /\ m < l => \E k \in v + 1 .. u - 1 : s[k] = Newline
  <2>1. ASSUME l < m PROVE \E k \in u + 1 .. v - 1 : s[k] = Newline
    BY <1>10, <2>1
  <2>2. ASSUME m < l PROVE \E k \in v + 1 .. u - 1 : s[k] = Newline
    BY <1>10, <2>2
  <2> QED BY <2>1, <2>2
<1>12. i = u /\ j = v
  OBVIOUS
<1> HIDE DEF u, v
<1>4. l < m => \E k \in i + 1 .. j - 1 : s[k] = Newline
  BY <1>11, <1>12
<1>5. m < l => \E k \in j + 1 .. i - 1 : s[k] = Newline
  BY <1>11, <1>12
<1>6. ASSUME l = m
      PROVE  /\ \A k \in i .. j : s[k] # Newline
             /\ f < g => \E k \in i + 1 .. j - 1 : s[k] = Blank
             /\ g < f => \E k \in j + 1 .. i - 1 : s[k] = Blank
             /\ f = g => /\ \A k \in i .. j : s[k] # Blank
                         /\ x <= y <=> i <= j
                         /\ y <= x <=> j <= i
  <2>1. /\ g \in DOMAIN text[l] /\ y \in DOMAIN text[l][g] /\ j = Spot(b[l], c[l], g, y)
    BY <1>6
  <2>2. \A h, e \in DOMAIN text[l] : \A z \in DOMAIN text[l][h], d \in DOMAIN text[l][e] :
          /\ \A k \in Spot(b[l], c[l], h, z) .. Spot(b[l], c[l], e, d) : s[k] # Newline
          /\ h < e => \E k \in Spot(b[l], c[l], h, z) + 1 .. Spot(b[l], c[l], e, d) - 1 : s[k] = Blank
          /\ h = e => /\ \A k \in Spot(b[l], c[l], h, z) .. Spot(b[l], c[l], e, d) : s[k] # Blank
                      /\ z <= d <=> Spot(b[l], c[l], h, z) <= Spot(b[l], c[l], e, d)
    BY <1>1, Zenon DEF LineLays
  <2> DEFINE su == Spot(b[l], c[l], f, x)
             sv == Spot(b[l], c[l], g, y)
  <2>3. /\ \A k \in su .. sv : s[k] # Newline
        /\ f < g => \E k \in su + 1 .. sv - 1 : s[k] = Blank
        /\ f = g => /\ \A k \in su .. sv : s[k] # Blank
                    /\ x <= y <=> su <= sv
    BY <2>1, <2>2, Zenon
  <2>4. /\ g < f => \E k \in sv + 1 .. su - 1 : s[k] = Blank
        /\ g = f => (y <= x <=> sv <= su)
    BY <2>1, <2>2, Zenon
  <2>5. i = su /\ j = sv
    BY <2>1
  <2> HIDE DEF su, sv
  <2> QED BY <2>3, <2>4, <2>5
<1>7. i = j => l = m /\ f = g /\ x = y
  <2> SUFFICES ASSUME i = j PROVE l = m /\ f = g /\ x = y
    OBVIOUS
  <2>1. l = m
    BY <1>1, <1>3, <1>4, <1>5
  <2>2. f = g
    BY <1>2, <1>3, <1>6, <2>1
  <2> QED BY <1>2, <1>3, <1>6, <2>1, <2>2
<1>8. ASSUME i < j, \E k \in i + 1 .. j - 1 : s[k] = Newline PROVE l < m
  <2>1. PICK k \in i + 1 .. j - 1 : s[k] = Newline
    BY <1>8
  <2>2. k \in i .. j
    BY <1>3
  <2>3. l # m
    BY <1>6, <2>1, <2>2
  <2>4. ~(m < l)
    BY <1>3, <1>5, <1>8
  <2> QED BY <1>1, <2>3, <2>4
<1>9. ASSUME i < j, ~\E k \in i + 1 .. j - 1 : s[k] = Newline
      PROVE  l = m /\ IF \E k \in i + 1 .. j - 1 : s[k] = Blank THEN f < g
                      ELSE f = g /\ x < y
  <2>1. l = m
    BY <1>1, <1>3, <1>4, <1>5, <1>9
  <2>2. ~(g < f)
    BY <1>3, <1>6, <1>9, <2>1
  <2>3. ASSUME NEW k \in i + 1 .. j - 1, s[k] = Blank PROVE f < g
    <3>1. k \in i .. j
      BY <1>3
    <3> QED BY <1>2, <1>6, <2>1, <2>2, <2>3, <3>1
  <2>4. ASSUME ~\E k \in i + 1 .. j - 1 : s[k] = Blank PROVE f = g /\ x < y
    <3>1. f = g
      BY <1>2, <1>6, <2>1, <2>2, <2>4
    <3> QED BY <1>2, <1>3, <1>6, <1>9, <2>1, <3>1
  <2> QED BY <2>1, <2>3, <2>4
<1> QED BY <1>2, <1>7, <1>8, <1>9

\* A position has one place.
LEMMA SpotUnique ==
  ASSUME NEW U, NEW s \in Seq(U), NEW text, NEW b, NEW c, Lays(s, text, b, c),
         NEW l \in DOMAIN text, NEW f \in DOMAIN text[l], NEW x \in DOMAIN text[l][f],
         NEW m \in DOMAIN text, NEW g \in DOMAIN text[m], NEW y \in DOMAIN text[m][g],
         Spot(b[l], c[l], f, x) = Spot(b[m], c[m], g, y)
  PROVE  l = m /\ f = g /\ x = y
<1>1. PICK i, j : i = Spot(b[l], c[l], f, x) /\ j = Spot(b[m], c[m], g, y)
  OBVIOUS
<1>2. i = j
  BY <1>1
<1>3. i = j => l = m /\ f = g /\ x = y
  BY <1>1, SpotOrder
<1> QED BY <1>2, <1>3

\* The places of a word.
LEMMA PlacesAre ==
  ASSUME NEW text, NEW w, NEW p
  PROVE  p \in Places(text, w) <=>
           \E l \in DOMAIN text : \E f \in DOMAIN text[l] : \E x \in DOMAIN text[l][f] :
             p = <<l, f, x>> /\ text[l][f][x] = w
<1> DEFINE A(l, f) == {<<l, f, x>> : x \in {y \in DOMAIN text[l][f] : text[l][f][y] = w}}
           B(l)    == UNION {A(l, f) : f \in DOMAIN text[l]}
<1>1. \A l, f : p \in A(l, f) <=> \E x \in DOMAIN text[l][f] : p = <<l, f, x>> /\ text[l][f][x] = w
  BY Zenon
<1>2. Places(text, w) = UNION {B(l) : l \in DOMAIN text}
  BY DEF Places
<1> HIDE DEF A
<1>3. \A l : p \in B(l) <=> \E f \in DOMAIN text[l] : p \in A(l, f)
  BY Zenon
<1> HIDE DEF B
<1>4. p \in Places(text, w) <=> \E l \in DOMAIN text : p \in B(l)
  BY <1>2, Zenon
<1>5. \A l : p \in B(l) <=> \E f \in DOMAIN text[l] : \E x \in DOMAIN text[l][f] :
                               p = <<l, f, x>> /\ text[l][f][x] = w
  <2> TAKE l
  <2>1. p \in B(l) <=> \E f \in DOMAIN text[l] : p \in A(l, f)
    BY <1>3
  <2>2. \A f : p \in A(l, f) <=> \E x \in DOMAIN text[l][f] : p = <<l, f, x>> /\ text[l][f][x] = w
    BY <1>1
  <2> QED BY <2>1, <2>2
<1> QED BY <1>4, <1>5

\* What normalizeText makes of that reads like the document.
LEMMA MarksRead ==
  ASSUME NEW doc \in Seq(STRING), NEW s \in Seq(Chars), NEW L, Marks(doc, s, L)
  PROVE  Reads(doc, normalizeText(s))
<1> DEFINE text == normalizeText(s)
<1>1. PICK b, c : Lays(s, text, b, c)
  BY Normalized
<1> HIDE DEF text
<1>2. ASSUME NEW k \in DOMAIN doc, doc[k] \notin Markup, NEW p \in Places(text, doc[k])
      PROVE  /\ Visible(doc, k)
             /\ \E l \in DOMAIN text : \E f \in DOMAIN text[l] : \E x \in DOMAIN text[l][f] :
                  p = <<l, f, x>> /\ L[k] = Spot(b[l], c[l], f, x)
  <2>1. PICK l \in DOMAIN text : \E f \in DOMAIN text[l] : \E x \in DOMAIN text[l][f] :
               p = <<l, f, x>> /\ text[l][f][x] = doc[k]
    BY PlacesAre
  <2>2. PICK f \in DOMAIN text[l] : \E x \in DOMAIN text[l][f] :
               p = <<l, f, x>> /\ text[l][f][x] = doc[k]
    BY <2>1
  <2>3. PICK x \in DOMAIN text[l][f] : p = <<l, f, x>> /\ text[l][f][x] = doc[k]
    BY <2>2
  <2>4. PICK i : i = Spot(b[l], c[l], f, x)
    OBVIOUS
  <2>5. i \in DOMAIN s /\ s[i] = doc[k]
    BY <1>1, <2>3, <2>4, SpotOrder
  <2>6. Visible(doc, k) /\ i = L[k]
    BY <1>2, <2>5 DEF Marks
  <2> QED BY <2>3, <2>4, <2>6
<1>3. ASSUME NEW k \in DOMAIN doc, doc[k] \notin Markup
      PROVE  Cardinality(Places(text, doc[k])) = IF Visible(doc, k) THEN 1 ELSE 0
  <2>1. CASE Visible(doc, k)
    <3>1. L[k] \in DOMAIN s /\ s[L[k]] = doc[k] /\ s[L[k]] \notin {Newline, Blank}
      BY <1>3, <2>1 DEF Marks
    <3>2. PICK l \in DOMAIN text : \E f \in DOMAIN text[l] : \E x \in DOMAIN text[l][f] :
                 L[k] = Spot(b[l], c[l], f, x)
      BY <1>1, <3>1 DEF Lays
    <3>3. PICK f \in DOMAIN text[l] : \E x \in DOMAIN text[l][f] : L[k] = Spot(b[l], c[l], f, x)
      BY <3>2
    <3>4. PICK x \in DOMAIN text[l][f] : L[k] = Spot(b[l], c[l], f, x)
      BY <3>3
    <3>5. text[l][f][x] = doc[k]
      BY <1>1, <3>1, <3>4, SpotOrder
    <3>6. <<l, f, x>> \in Places(text, doc[k])
      BY <3>5, PlacesAre
    <3>7. ASSUME NEW p \in Places(text, doc[k]) PROVE p = <<l, f, x>>
      <4>1. PICK m \in DOMAIN text : \E g \in DOMAIN text[m] : \E y \in DOMAIN text[m][g] :
                   p = <<m, g, y>> /\ L[k] = Spot(b[m], c[m], g, y)
        BY <1>2, <1>3
      <4>2. PICK g \in DOMAIN text[m] : \E y \in DOMAIN text[m][g] :
                   p = <<m, g, y>> /\ L[k] = Spot(b[m], c[m], g, y)
        BY <4>1
      <4>3. PICK y \in DOMAIN text[m][g] : p = <<m, g, y>> /\ L[k] = Spot(b[m], c[m], g, y)
        BY <4>2
      <4>4. l = m /\ f = g /\ x = y
        <5>1. Spot(b[l], c[l], f, x) = Spot(b[m], c[m], g, y)
          BY <3>4, <4>3
        <5> QED BY <1>1, <5>1, SpotUnique
      <4> QED BY <4>3, <4>4
    <3>8. Places(text, doc[k]) = {<<l, f, x>>}
      BY <3>6, <3>7, Zenon
    <3> QED BY <2>1, <3>8, FS_Singleton
  <2>2. CASE ~Visible(doc, k)
    <3>1. Places(text, doc[k]) = {}
      BY <1>2, <1>3, <2>2
    <3> QED BY <2>2, <3>1, FS_EmptySet
  <2> QED BY <2>1, <2>2
<1>4. ASSUME NEW k \in WordsOf(doc), NEW n \in WordsOf(doc), k < n,
             NEW p \in Places(text, doc[k]), NEW q \in Places(text, doc[n])
      PROVE  IF Broken(doc, k, n) THEN p[1] < q[1]
             ELSE /\ p[1] = q[1]
                  /\ IF Spaced(doc, k, n) THEN p[2] < q[2]
                     ELSE p[2] = q[2] /\ p[3] < q[3]
  <2>0. k \in DOMAIN doc /\ doc[k] \notin Markup /\ n \in DOMAIN doc /\ doc[n] \notin Markup
    BY DEF WordsOf
  <2>1. PICK l \in DOMAIN text : \E f \in DOMAIN text[l] : \E x \in DOMAIN text[l][f] :
               p = <<l, f, x>> /\ L[k] = Spot(b[l], c[l], f, x)
    BY <1>2, <2>0
  <2>2. PICK f \in DOMAIN text[l] : \E x \in DOMAIN text[l][f] :
               p = <<l, f, x>> /\ L[k] = Spot(b[l], c[l], f, x)
    BY <2>1
  <2>3. PICK x \in DOMAIN text[l][f] : p = <<l, f, x>> /\ L[k] = Spot(b[l], c[l], f, x)
    BY <2>2
  <2>4. PICK m \in DOMAIN text : \E g \in DOMAIN text[m] : \E y \in DOMAIN text[m][g] :
               q = <<m, g, y>> /\ L[n] = Spot(b[m], c[m], g, y)
    BY <1>2, <2>0
  <2>5. PICK g \in DOMAIN text[m] : \E y \in DOMAIN text[m][g] :
               q = <<m, g, y>> /\ L[n] = Spot(b[m], c[m], g, y)
    BY <2>4
  <2>6. PICK y \in DOMAIN text[m][g] : q = <<m, g, y>> /\ L[n] = Spot(b[m], c[m], g, y)
    BY <2>5
  <2>7. L[k] < L[n] => IF \E i \in L[k] + 1 .. L[n] - 1 : s[i] = Newline THEN l < m
                       ELSE l = m /\ IF \E i \in L[k] + 1 .. L[n] - 1 : s[i] = Blank THEN f < g
                                     ELSE f = g /\ x < y
    BY <1>1, <2>3, <2>6, SpotOrder
  <2>8. /\ L[k] < L[n]
        /\ Broken(doc, k, n) <=> \E i \in L[k] + 1 .. L[n] - 1 : s[i] = Newline
        /\ ~Broken(doc, k, n) =>
             (Spaced(doc, k, n) <=> \E i \in L[k] + 1 .. L[n] - 1 : s[i] = Blank)
    BY <1>4, Zenon DEF Marks
  <2>9. IF Broken(doc, k, n) THEN l < m
        ELSE l = m /\ IF Spaced(doc, k, n) THEN f < g ELSE f = g /\ x < y
    BY <2>7, <2>8, Zenon
  <2>10. p[1] = l /\ p[2] = f /\ p[3] = x /\ q[1] = m /\ q[2] = g /\ q[3] = y
    BY <2>3, <2>6
  <2> QED BY <2>9, <2>10, Zenon
<1>5. Reads(doc, text)
  <2>1. \A k \in DOMAIN doc : doc[k] \notin Markup =>
          Cardinality(Places(text, doc[k])) = IF Visible(doc, k) THEN 1 ELSE 0
    BY <1>3
  <2>2. \A k, n \in WordsOf(doc) : k < n =>
          \A p \in Places(text, doc[k]), q \in Places(text, doc[n]) :
            IF Broken(doc, k, n) THEN p[1] < q[1]
            ELSE /\ p[1] = q[1]
                 /\ IF Spaced(doc, k, n) THEN p[2] < q[2]
                    ELSE p[2] = q[2] /\ p[3] < q[3]
    BY <1>4, Zenon
  <2> QED BY <2>1, <2>2, Zenon DEF Reads
<1> QED BY <1>5 DEF text

\* htmlToText, for every document that html.Parse returns: each visible word once, in
\* the lines and fields that the markup gives.
THEOREM HtmlToTextReads ==
  ASSUME NEW doc \in Seq(STRING), Document(doc)
  PROVE  Reads(doc, htmlToText(TRUE, doc))
<1>1. Written(doc) \in Seq(Chars) /\ \E L : Marks(doc, Written(doc), L)
  BY WrittenMarks
<1>2. Reads(doc, normalizeText(Written(doc)))
  BY <1>1, MarksRead
<1> QED BY <1>2 DEF htmlToText

-----------------------------------------------------------------------------
(* The steps.                                                              *)

\* What a request may be, by the page that the browser shows.
LEMMA Requested ==
  ASSUME Stored, Current, Redirected, NEW url \in Requests
  PROVE  /\ url.to = "list" => url.n \in Int
         /\ url.to = "mail" =>
              \/ page.url.to = "list" /\ \E k \in DOMAIN page.entries : url.id = page.entries[k].id
              \/ page.url.to = "mail" /\ url.id = page.url.id
         /\ url.to \in {"html", "attach", "delete"} =>
              page.url.to = "mail" /\ url.id = page.url.id /\ todo = NoUrl
         /\ url.to = "html" => page.view.html
         /\ url.to = "attach" => url.n \in Nat /\ url.n + 1 \in DOMAIN page.view.attach
<1>0. \A to, id, n : Url(to, id, n).to = to /\ Url(to, id, n).id = id /\ Url(to, id, n).n = n
  BY DEF Url
<1>1. \A n : ListUrl(n).to = "list" /\ ListUrl(n).n = n
  BY <1>0 DEF ListUrl
<1>2. CASE todo # NoUrl
  <2>1. url = todo
    BY <1>2 DEF Requests
  <2>2. url = ListUrl(0) \/ (url = page.url /\ page.url.to \in {"list", "mail"})
    BY <1>2, <2>1 DEF Redirected
  <2> QED BY <1>1, <2>2 DEF Current
<1>3. CASE todo = NoUrl
  <2>1. CASE url \in {ListUrl(p) : p \in TypedPages}
    <3>1. url.to = "list" /\ url.n \in Int
      BY <1>1, <2>1, TypedPagesAssumption
    <3> QED BY <3>1
  <2>2. CASE page.url.to = "list" /\ url \in ListLinks
    <3>1. CASE \E k \in DOMAIN page.entries : url = Url("mail", page.entries[k].id, 0)
      BY <1>0, <2>2, <3>1
    <3>2. CASE \E p \in {page.url.n - 1, page.url.n + 1} \cap 1 .. page.pages : url = ListUrl(p)
      <4>1. page.url.n \in Int
        BY <2>2 DEF Current
      <4>2. url.to = "list" /\ url.n \in {page.url.n - 1, page.url.n + 1}
        BY <1>1, <3>2
      <4> QED BY <4>1, <4>2
    <3> QED BY <2>2, <3>1, <3>2 DEF ListLinks
  <2>3. CASE page.url.to = "mail" /\ url \in ViewLinks
    <3>1. CASE url = ListUrl(0)
      BY <1>1, <3>1
    <3>2. CASE url = Url("delete", page.url.id, 0)
      BY <1>0, <1>3, <2>3, <3>2
    <3>3. CASE page.view.html /\ url = Url("html", page.url.id, 0)
      BY <1>0, <1>3, <2>3, <3>3
    <3>4. ASSUME NEW k \in DOMAIN page.view.attach, url = Url("attach", page.url.id, k - 1)
          PROVE  url.to = "attach" /\ url.id = page.url.id /\ url.n \in Nat
                   /\ url.n + 1 \in DOMAIN page.view.attach
      <4>1. page.view.attach = Attached(mail[page.url.id].parts)
        BY <2>3 DEF Current, walkMessage
      <4>2. k \in Nat /\ k >= 1
        <5>1. mail[page.url.id] \in Mail
          BY <2>3, ArrivedMail DEF Current, Arrived
        <5>2. mail[page.url.id].parts \in Seq(Part)
          BY <5>1 DEF Mail
        <5> QED BY <3>4, <4>1, <5>2, AttachedDomain
      <4>3. url.n = k - 1 /\ (k - 1) + 1 = k /\ k - 1 \in Nat
        BY <1>0, <3>4, <4>2
      <4> QED BY <1>0, <3>4, <4>3
    <3>5. \/ url = ListUrl(0) \/ url = Url("delete", page.url.id, 0)
          \/ page.view.html /\ url = Url("html", page.url.id, 0)
          \/ \E k \in DOMAIN page.view.attach : url = Url("attach", page.url.id, k - 1)
      BY <2>3 DEF ViewLinks
    <3> QED BY <1>3, <2>3, <3>1, <3>2, <3>3, <3>4, <3>5
  <2>4. url \in Links \cup {ListUrl(p) : p \in TypedPages}
    BY <1>3 DEF Requests
  <2>5. url \in Links => \/ page.url.to = "list" /\ url \in ListLinks
                         \/ page.url.to = "mail" /\ url \in ViewLinks
    BY DEF Links
  <2> QED BY <2>1, <2>2, <2>3, <2>4, <2>5
<1> QED BY <1>2, <1>3

\* A listing is of messages that can be opened.
Listing(moved, bare) == moved \in SUBSET Live /\ bare \in SUBSET moved

\* handleList shows one page of what List returns, and sets the history.
PageOf(url, msgs)  == Clamped(url.n, Pages(Len(msgs)))
ShownOf(url, msgs) == Shown(msgs, PageOf(url, msgs))
Lists(url, moved, bare, msgs) ==
  /\ page'.url = ListUrl(PageOf(url, msgs)) /\ page'.pages = Pages(Len(msgs))
  /\ page'.entries = [k \in DOMAIN ShownOf(url, msgs) |->
                        [id |-> ShownOf(url, msgs)[k].id, filled |-> ShownOf(url, msgs)[k].filled,
                         spam |-> ShownOf(url, msgs)[k].spam]]
  /\ walk' = Walking(PageOf(url, msgs),
                     {ShownOf(url, msgs)[k].id : k \in DOMAIN ShownOf(url, msgs)}, moved)
  /\ box' = [i \in Ids |-> IF i \in moved THEN "read" ELSE box[i]]

LEMMA ListStep ==
  ASSUME Stored, NEW url, url.n \in Int, handleList(url)
  PROVE  \E moved, bare, msgs :
           /\ Listing(moved, bare) /\ Arranged(msgs, Entries(moved, bare))
           /\ Len(msgs) \in Nat /\ PageOf(url, msgs) \in Nat \ {0}
           /\ PageOf(url, msgs) <= Pages(Len(msgs))
           /\ Lists(url, moved, bare, msgs)
<1>1. PICK moved \in {{}} \cup {{i} : i \in {j \in Ids : box[j] = "unread"}} :
      \E bare \in SUBSET moved : \E msgs \in Sorted(Entries(moved, bare)) :
        Lists(url, moved, bare, msgs)
  BY ZenonT(60) DEF handleList, Lists, PageOf, ShownOf, Shown, Start, NewPage
<1>2. moved \in SUBSET Live
  BY DEF Live
<1>3. \A bare \in SUBSET moved : Listing(moved, bare)
  BY <1>2 DEF Listing
<1>4. ASSUME NEW bare \in SUBSET moved, NEW msgs \in Sorted(Entries(moved, bare))
      PROVE  /\ Arranged(msgs, Entries(moved, bare))
             /\ Len(msgs) \in Nat /\ PageOf(url, msgs) \in Nat \ {0}
             /\ PageOf(url, msgs) <= Pages(Len(msgs))
  <2>1. IsFiniteSet(Entries(moved, bare)) /\ \A e \in Entries(moved, bare) : e.date \in Nat
    BY <1>2, EntriesTell DEF Tells
  <2>2. Arranged(msgs, Entries(moved, bare))
    BY <2>1, SortedArranged
  <2>3. Len(msgs) \in Nat
    BY <2>2 DEF Arranged
  <2>4. Pages(Len(msgs)) \in Nat /\ PageOf(url, msgs) \in 1 .. Pages(Len(msgs))
    BY <2>3, ClampedFits DEF PageOf
  <2>5. PageOf(url, msgs) \in Nat \ {0} /\ PageOf(url, msgs) <= Pages(Len(msgs))
    BY <2>4
  <2> QED BY <2>2, <2>3, <2>5
<1> QED BY <1>1, <1>3, <1>4

\* Each entry on the page after handleList is one that List returned.
LEMMA ListEntries ==
  ASSUME Stored, NEW url, url.n \in Int, handleList(url)
  PROVE  \A k \in DOMAIN page'.entries :
           \E e : /\ Tells(e)
                  /\ page'.entries[k].id = e.id
                  /\ page'.entries[k].filled = e.filled
                  /\ page'.entries[k].spam = e.spam
<1>1. PICK moved, bare, msgs :
           /\ Listing(moved, bare) /\ Arranged(msgs, Entries(moved, bare))
           /\ PageOf(url, msgs) \in Nat \ {0}
           /\ Lists(url, moved, bare, msgs)
  BY ListStep
<1> DEFINE p     == PageOf(url, msgs)
           shown == Shown(msgs, p)
<1>2. msgs \in Seq(Entries(moved, bare))
  BY <1>1 DEF Arranged
<1>3. \A e \in Entries(moved, bare) : Tells(e)
  BY <1>1, EntriesTell DEF Listing
<1>4. ASSUME NEW k \in DOMAIN shown PROVE shown[k] \in Entries(moved, bare)
  <2>1. Start(p) + k \in 1 .. Len(msgs) /\ shown[k] = msgs[Start(p) + k]
    BY <1>1, <1>2, ShownFits
  <2> QED BY <1>2, <2>1
<1>5. page'.entries = [k \in DOMAIN shown |->
                         [id |-> shown[k].id, filled |-> shown[k].filled, spam |-> shown[k].spam]]
  BY <1>1 DEF Lists, ShownOf
<1> HIDE DEF shown
<1> QED BY <1>3, <1>4, <1>5

\* handleView shows the message that was opened, or says that it is not found.
LEMMA ViewStep ==
  ASSUME NEW url, handleView(url)
  PROVE  \/ page' = NotFound
         \/ /\ url.id \in Live
            /\ page'.url = url /\ page'.entries = << >>
            /\ page'.view.spam = SaysSpam(Header(url.id))
            /\ LET m == walkMessage(mail[url.id].parts)
               IN  page'.view.html = (m.html # 0) /\ page'.view.attach = m.attach
            /\ page'.view.text = TextOf(url.id)
<1> DEFINE m == walkMessage(mail[url.id].parts)
           v == [spam |-> SaysSpam(Header(url.id)), text |-> TextOf(url.id),
                 html |-> m.html # 0, attach |-> m.attach]
<1>1. CASE page' = NotFound
  BY <1>1
<1>2. CASE /\ url.id \in Live
           /\ page' = [NewPage(url) EXCEPT !.lang = catalogFor(cookie, site.accept), !.view = v]
  <2>1. v.spam = SaysSpam(Header(url.id)) /\ v.html = (m.html # 0) /\ v.attach = m.attach
        /\ v.text = TextOf(url.id)
    BY Zenon
  <2> HIDE DEF v
  <2>2. page'.view = v /\ page'.url = url /\ page'.entries = << >>
    BY <1>2 DEF NewPage
  <2> QED BY <1>2, <2>1, <2>2
<1> QED BY <1>1, <1>2 DEF handleView, Open

\* The other pages have no entries.
LEMMA OtherPages ==
  /\ NotFound.entries = << >> /\ NewPage(NoUrl).entries = << >>
  /\ NotFound.url.to = "404" /\ NewPage(NoUrl).url.to = "none"
BY DEF NotFound, NewPage, Url, NoUrl

\* A step leaves the page as it is, or shows another.
LEMMA PageSteps ==
  ASSUME [Next]_vars
  PROVE  \/ UNCHANGED page
         \/ page' = NotFound
         \/ \E url \in Requests : url.to = "list" /\ handleList(url)
         \/ \E url \in Requests : url.to = "mail" /\ handleView(url)
<1>1. ASSUME NEW url \in Requests, Serve(url)
      PROVE  \/ UNCHANGED page \/ page' = NotFound
             \/ url.to = "list" /\ handleList(url)
             \/ url.to = "mail" /\ handleView(url)
  <2>1. handleList(url) => url.to = "list"
    BY DEF handleList
  <2>2. handleView(url) => url.to = "mail"
    BY DEF handleView
  <2>3. handleHTML(url) \/ handleAttach(url) => UNCHANGED page
    BY DEF handleHTML, handleAttach, Fetch
  <2>4. handleDelete(url) => UNCHANGED page \/ page' = NotFound
    BY DEF handleDelete
  <2>5. \/ handleList(url) \/ handleView(url) \/ handleHTML(url)
        \/ handleAttach(url) \/ handleDelete(url)
    BY <1>1 DEF Serve
  <2> QED BY <2>1, <2>2, <2>3, <2>4, <2>5, Zenon
<1>2. handleLang \/ Others \/ UNCHANGED vars => UNCHANGED page
  BY DEF handleLang, Others, vars
<1> QED BY <1>1, <1>2 DEF Next

\* The page stays about messages that have arrived.
LEMMA CurrentStep ==
  ASSUME Stored, Current, Redirected, [Next]_vars
  PROVE  Current'
<1>0. Stored' /\ (\A i : Arrived(i) => Arrived(i)') /\ UNCHANGED site
  BY NextGrows, GrowsStored DEF Grows
<1>5. \A i : TextOf(i)' = TextOf(i) /\ mail' = mail
  BY <1>0, Zenon DEF TextOf, mail
<1>1. CASE UNCHANGED page
  BY <1>0, <1>1, <1>5 DEF Current, Arrived
<1>2. CASE page' = NotFound
  BY <1>2, OtherPages DEF Current
<1>3. ASSUME NEW url \in Requests, url.to = "list", handleList(url) PROVE Current'
  <2>1. url.n \in Int
    BY <1>3, Requested
  <2>2. \A k \in DOMAIN page'.entries : Arrived(page'.entries[k].id)
    BY <1>3, <2>1, ListEntries DEF Tells
  <2>3. \A k \in DOMAIN page'.entries : (Arrived(page.entries[k].id))'
    BY <1>0, <2>2 DEF Arrived
  <2>4. page'.url.to = "list" /\ page'.url.n \in Int
    <3>1. PICK p \in Nat : page'.url = ListUrl(p)
      BY <1>3, <2>1, ListStep DEF Lists
    <3> QED BY <3>1 DEF ListUrl, Url
  <2> QED BY <2>3, <2>4 DEF Current, Arrived
<1>4. ASSUME NEW url \in Requests, url.to = "mail", handleView(url), page' # NotFound PROVE Current'
  <2>1. /\ url.id \in Live /\ page'.url = url
        /\ LET m == walkMessage(mail[url.id].parts)
           IN  page'.view.html = (m.html # 0) /\ page'.view.attach = m.attach
        /\ page'.view.text = TextOf(url.id)
    BY <1>4, ViewStep
  <2>2. Arrived(url.id)'
    BY <1>0, <2>1, LiveArrived
  <2> QED BY <1>4, <1>5, <2>1, <2>2 DEF Current, Arrived
<1> QED BY <1>1, <1>2, <1>3, <1>4, PageSteps

\* A redirection keeps leading to the list or back to the page.
LEMMA RedirectedStep ==
  ASSUME Stored, Current, Redirected, [Next]_vars
  PROVE  Redirected'
<1>1. CASE todo' = NoUrl
  BY <1>1 DEF Redirected
<1>2. CASE UNCHANGED <<page, todo>>
  BY <1>2 DEF Redirected
<1>3. ASSUME NEW url \in Requests, handleDelete(url) PROVE Redirected'
  <2>1. todo = NoUrl
    BY <1>3, Requested DEF handleDelete
  <2>2. todo' = ListUrl(0) \/ UNCHANGED todo
    BY <1>3 DEF handleDelete
  <2> QED BY <2>1, <2>2 DEF Redirected
<1>4. CASE handleLang
  BY <1>4, ZenonT(60) DEF handleLang, Redirected
<1>5. ASSUME NEW url, handleList(url) \/ handleView(url) PROVE todo' = NoUrl
  BY <1>5 DEF handleList, handleView
<1>6. ASSUME NEW url, handleHTML(url) \/ handleAttach(url) PROVE UNCHANGED <<page, todo>>
  BY <1>6 DEF handleHTML, handleAttach, Fetch
<1>7. Others \/ UNCHANGED vars => UNCHANGED <<page, todo>>
  BY DEF Others, vars
<1> QED BY <1>1, <1>2, <1>3, <1>4, <1>5, <1>6, <1>7 DEF Next, Serve

\* What Fetch answers.
LEMMA FetchStep ==
  ASSUME NEW url, NEW part, Fetch(url, part)
  PROVE  /\ UNCHANGED <<site, page>>
         /\ got'.url = url
         /\ \/ url.id \in Live /\ got'.part = part
            \/ Missed(url.id) /\ got'.part = 0
BY DEF Fetch, Open

\* The answer about an attachment stays one about the message on the page.
LEMMA AnsweredStep ==
  ASSUME Stored, Current, Redirected, Answered, [Next]_vars
  PROVE  Answered'
<1>1. CASE got' = NoAnswer
  BY <1>1 DEF Answered, NoAnswer, NoUrl, Url
<1>2. CASE UNCHANGED <<site, page, got>>
  BY <1>2 DEF Answered, mail
<1>3. ASSUME NEW url \in Requests, handleHTML(url) PROVE Answered'
  <2>1. got'.url.to = "html"
    BY <1>3, FetchStep DEF handleHTML
  <2> QED BY <2>1 DEF Answered
<1>4. ASSUME NEW url \in Requests, handleAttach(url) PROVE Answered'
  <2>0. url.to = "attach"
    BY <1>4 DEF handleAttach
  <2>1. /\ page.url.to = "mail" /\ url.id = page.url.id
        /\ url.n \in Nat /\ url.n + 1 \in DOMAIN page.view.attach
    BY <2>0, Requested
  <2> DEFINE s == Served(mail[url.id].parts, mail[url.id].complains, url.n)
  <2>2. UNCHANGED <<site, page>> /\ got'.url = url /\ got'.part \in {0, s}
    BY <1>4, FetchStep DEF handleAttach
  <2>3. mail' = mail
    BY <2>2 DEF mail
  <2>4. s = Served(mail[page.url.id].parts, mail[page.url.id].complains, url.n)
    BY <2>1, ZenonT(60)
  <2> HIDE DEF s
  <2> QED BY <2>1, <2>2, <2>3, <2>4 DEF Answered
<1>5. ASSUME NEW url, handleList(url) \/ handleView(url) \/ handleDelete(url)
      PROVE  got' = NoAnswer
  BY <1>5 DEF handleList, handleView, handleDelete
<1>6. handleLang => got' = NoAnswer
  BY DEF handleLang
<1>7. Others \/ UNCHANGED vars => UNCHANGED <<site, page, got>>
  BY DEF Others, vars
<1> QED BY <1>1, <1>2, <1>3, <1>4, <1>5, <1>6, <1>7 DEF Next, Serve
-----------------------------------------------------------------------------
(* The way through the list.                                               *)

\* The place of a message in the list, if no other has its date, is behind the newer
\* ones.
LEMMA Place ==
  ASSUME Stored, NEW msgs, Arranged(msgs, Entries({}, {})), NEW i \in Live, OwnDate(i)
  PROVE  \E q \in 1 .. Len(msgs) : msgs[q].id = i /\ Cardinality(Ahead(i)) = q - 1
<1> DEFINE S(j) == Summary(j, FALSE)
<1>1. \A e : e \in Entries({}, {}) <=> \E j \in Live : e = S(j)
  BY DEF Entries
<1>2. \A j \in Live : S(j).id = j /\ S(j).date \in Nat /\ j \in DOMAIN mail
  BY LiveArrived, SummaryTells, ArrivedMail DEF Tells
<1>3. \A j \in Live : j # i => S(j).date # S(i).date
  BY <1>2 DEF OwnDate
<1>4. \A j : j \in Ahead(i) <=> j \in Live /\ S(j).date > S(i).date
  BY DEF Ahead
<1> HIDE DEF S
<1>5. Len(msgs) \in Nat /\ \A k \in 1 .. Len(msgs) : msgs[k] \in Entries({}, {})
  BY DEF Arranged
<1>6. \A k \in 1 .. Len(msgs) : msgs[k].id \in Live /\ msgs[k] = S(msgs[k].id)
  BY <1>1, <1>2, <1>5
<1>7. PICK q \in 1 .. Len(msgs) : msgs[q] = S(i)
  BY <1>1 DEF Arranged
<1> DEFINE f == [k \in 1 .. q - 1 |-> msgs[k].id]
<1>8. \A k \in 1 .. q - 1 : k \in 1 .. Len(msgs) /\ k < q
  BY <1>5
<1>9. ASSUME NEW k \in 1 .. q - 1 PROVE f[k] \in Ahead(i)
  <2>1. k \in 1 .. Len(msgs) /\ k < q /\ f[k] = msgs[k].id
    BY <1>8
  <2>2. msgs[k].date >= S(i).date
    BY <1>7, <2>1 DEF Arranged
  <2>3. msgs[k].id # i
    <3>1. msgs[k] = msgs[q] => k = q
      BY <2>1 DEF Arranged
    <3> QED BY <1>5, <1>6, <1>7, <2>1, <3>1
  <2>4. S(msgs[k].id).date \in Nat /\ S(i).date \in Nat /\ S(msgs[k].id).date # S(i).date
    BY <1>2, <1>3, <1>6, <2>1, <2>3
  <2>5. S(msgs[k].id).date > S(i).date
    BY <1>6, <2>1, <2>2, <2>4
  <2> QED BY <1>4, <1>6, <2>1, <2>5
<1>10. ASSUME NEW j \in Ahead(i) PROVE \E k \in 1 .. q - 1 : f[k] = j
  <2>1. j \in Live /\ S(j).date > S(i).date
    BY <1>4
  <2>2. PICK k \in 1 .. Len(msgs) : msgs[k] = S(j)
    BY <1>1, <2>1 DEF Arranged
  <2>3. msgs[k].id = j /\ S(j).date \in Nat /\ S(i).date \in Nat
    BY <1>2, <2>1, <2>2
  <2>4. ~(S(i).date >= S(j).date) /\ S(i) # S(j)
    BY <2>1, <2>3
  <2>5. q < k => msgs[q].date >= msgs[k].date
    BY DEF Arranged
  <2>6. ~(q < k) /\ q # k
    BY <1>7, <2>2, <2>4, <2>5
  <2>7. k \in 1 .. q - 1
    BY <1>5, <2>6
  <2> QED BY <2>3, <2>7
<1>11. ASSUME NEW j \in 1 .. q - 1, NEW k \in 1 .. q - 1, f[j] = f[k] PROVE j = k
  <2>1. j \in 1 .. Len(msgs) /\ k \in 1 .. Len(msgs) /\ msgs[j].id = msgs[k].id
    BY <1>8, <1>11
  <2>2. msgs[j] = msgs[k]
    BY <1>6, <2>1
  <2> QED BY <2>1, <2>2 DEF Arranged
<1>12. f \in Bijection(1 .. q - 1, Ahead(i))
  <2>1. f \in [1 .. q - 1 -> Ahead(i)]
    BY <1>9
  <2> HIDE DEF f
  <2>2. f \in Injection(1 .. q - 1, Ahead(i))
    BY <1>11, <2>1 DEF Injection, IsInjective
  <2>3. f \in Surjection(1 .. q - 1, Ahead(i))
    BY <1>10, <2>1 DEF Surjection
  <2> QED BY <2>2, <2>3 DEF Bijection
<1> HIDE DEF f
<1>13. Cardinality(Ahead(i)) = q - 1
  <2>1. 1 \in Int /\ q - 1 \in Int /\ q - 1 >= 0
    BY <1>5
  <2>2. IsFiniteSet(1 .. q - 1) /\ Cardinality(1 .. q - 1) = IF 1 > q - 1 THEN 0 ELSE q - 1 - 1 + 1
    BY <2>1, FS_Interval
  <2>3. Cardinality(1 .. q - 1) = q - 1
    BY <2>1, <2>2
  <2>4. ExistsBijection(1 .. q - 1, Ahead(i))
    BY <1>12 DEF ExistsBijection
  <2> QED BY <2>2, <2>3, <2>4, FS_Bijection
<1>14. msgs[q].id = i
  BY <1>2, <1>7
<1> QED BY <1>13, <1>14

\* A listing takes the walk one page on.
LEMMA WalkListed ==
  ASSUME Stored, Underway, NEW url, url.n \in Int, handleList(url)
  PROVE  Underway' /\ WalkComplete'
<1>1. PICK moved, bare, msgs :
           /\ Listing(moved, bare) /\ Arranged(msgs, Entries(moved, bare))
           /\ Len(msgs) \in Nat /\ PageOf(url, msgs) \in Nat \ {0}
           /\ PageOf(url, msgs) <= Pages(Len(msgs))
           /\ Lists(url, moved, bare, msgs)
  BY ListStep
<1> DEFINE p     == PageOf(url, msgs)
           shown == Shown(msgs, p)
           ids   == {shown[k].id : k \in DOMAIN shown}
           total == Len(msgs)
<1>2. walk' = Walking(p, ids, moved) /\ page'.pages = Pages(total)
  BY <1>1 DEF Lists, ShownOf
<1>3. p \in Nat \ {0} /\ total \in Nat
  BY <1>1
<1>4. ids \subseteq Ids
  <2>1. msgs \in Seq(Entries(moved, bare))
    BY <1>1 DEF Arranged
  <2>2. \A e \in Entries(moved, bare) : e.id \in Ids
    BY <1>1, EntriesTell DEF Listing, Tells, Arrived
  <2>3. \A k \in DOMAIN shown : Start(p) + k \in 1 .. total /\ shown[k] = msgs[Start(p) + k]
    BY <1>1, <2>1, ShownFits
  <2> HIDE DEF shown
  <2> QED BY <2>1, <2>2, <2>3
<1> HIDE DEF p, ids
<1>5. CASE walk' = NoWalk
  <2>1. walk' \in [at : Nat, start : SUBSET Ids, seen : SUBSET Ids] /\ walk'.at = 0
    BY <1>5 DEF NoWalk
  <2> QED BY <2>1 DEF Underway, WalkComplete
<1>6. ASSUME walk' # NoWalk PROVE Underway' /\ WalkComplete'
  <2>1. /\ moved = {}
        /\ \/ p = 1 /\ walk' = [at |-> 1, start |-> Live, seen |-> ids]
           \/ /\ p > 1 /\ p = walk.at + 1
              /\ walk' = [walk EXCEPT !.at = p, !.seen = @ \cup ids]
    BY <1>2, <1>6 DEF Walking
  <2>2. bare = {} /\ Arranged(msgs, Entries({}, {})) /\ UNCHANGED <<site, box>>
    <3>1. bare = {}
      BY <1>1, <2>1 DEF Listing
    <3>2. box' = [i \in Ids |-> box[i]]
      BY <1>1, <2>1 DEF Lists
    <3> QED BY <1>1, <2>1, <3>1, <3>2 DEF Stored, handleList
  <2>3. Start(p) \in Nat /\ Start(p) + PageSize = p * PageSize /\ PageSize \in Nat
    BY <1>3, PageSizeAssumption DEF Start
  <2>4. /\ walk' \in [at : Nat, start : SUBSET Ids, seen : SUBSET Ids]
        /\ walk'.at = p /\ walk'.start \subseteq Live /\ ids \subseteq walk'.seen
        /\ \A i \in walk'.start \ walk'.seen : OwnDate(i) => Cardinality(Ahead(i)) >= Start(p)
    <3>1. CASE p = 1 /\ walk' = [at |-> 1, start |-> Live, seen |-> ids]
      <4>1. Start(p) = 0
        BY <2>3, <3>1
      <4>2. Live \subseteq Ids
        BY DEF Live
      <4>3. \A i \in Live : OwnDate(i) => Cardinality(Ahead(i)) >= 0
        <5> SUFFICES ASSUME NEW i \in Live PROVE Cardinality(Ahead(i)) \in Nat
          OBVIOUS
        <5>1. Ahead(i) \in SUBSET Ids
          BY DEF Ahead, Live
        <5> QED BY <5>1, SitesAssumption, FS_Subset, FS_CardinalityType
      <4> QED BY <1>4, <3>1, <4>1, <4>2, <4>3
    <3>2. CASE /\ p > 1 /\ p = walk.at + 1
               /\ walk' = [walk EXCEPT !.at = p, !.seen = @ \cup ids]
      <4>1. walk \in [at : Nat, start : SUBSET Ids, seen : SUBSET Ids]
        BY DEF Underway
      <4>2. walk.at \in Nat /\ walk.at > 0 /\ walk.at = p - 1
        BY <1>3, <3>2, <4>1
      <4>3. /\ walk'.at = p /\ walk'.start = walk.start /\ walk'.seen = walk.seen \cup ids
            /\ walk' \in [at : Nat, start : SUBSET Ids, seen : SUBSET Ids]
        BY <1>3, <1>4, <3>2, <4>1
      <4>4. walk.at * PageSize = Start(p)
        BY <4>2 DEF Start
      <4> QED BY <4>2, <4>3, <4>4 DEF Underway
    <3> QED BY <2>1, <3>1, <3>2
  <2>5. ASSUME NEW i \in walk'.start \ walk'.seen, OwnDate(i)
        PROVE  \E q \in 1 .. total : Cardinality(Ahead(i)) = q - 1 /\ q > p * PageSize
    <3>1. PICK q \in 1 .. total : msgs[q].id = i /\ Cardinality(Ahead(i)) = q - 1
      BY <2>2, <2>4, <2>5, Place
    <3>2. q > Start(p)
      BY <1>3, <2>3, <2>4, <2>5, <3>1
    <3>3. ~(q <= Start(p) + PageSize)
      <4> SUFFICES ASSUME q <= Start(p) + PageSize PROVE FALSE
        OBVIOUS
      <4>1. msgs \in Seq(Entries({}, {}))
        BY <2>2 DEF Arranged
      <4>2. PICK k \in DOMAIN shown : shown[k] = msgs[q]
        BY <1>3, <3>1, <3>2, <4>1, ShownFits
      <4>3. i \in ids
        BY <3>1, <4>2 DEF ids
      <4> QED BY <2>4, <4>3
    <3> QED BY <1>3, <2>3, <3>1, <3>3
  <2>6. \A i \in walk'.start \ walk'.seen : OwnDate(i) => Cardinality(Ahead(i)) >= p * PageSize
    <3> SUFFICES ASSUME NEW i \in walk'.start \ walk'.seen, OwnDate(i)
                 PROVE  Cardinality(Ahead(i)) >= p * PageSize
      OBVIOUS
    <3>1. PICK q \in 1 .. total : Cardinality(Ahead(i)) = q - 1 /\ q > p * PageSize
      BY <2>5
    <3>2. p * PageSize \in Nat
      BY <1>3, <2>3
    <3> QED BY <1>3, <3>1, <3>2
  <2>7. UNCHANGED Live /\ \A i : Ahead(i)' = Ahead(i) /\ OwnDate(i)' = OwnDate(i)
    BY <2>2 DEF Live, Ahead, OwnDate, Summary, Header, mail
  <2>8. Underway'
    BY <2>4, <2>6, <2>7 DEF Underway
  <2>9. ASSUME p = page'.pages, NEW i \in walk'.start, OwnDate(i) PROVE i \in walk'.seen
    <3> SUFFICES ASSUME i \notin walk'.seen PROVE FALSE
      OBVIOUS
    <3>1. PICK q \in 1 .. total : q > p * PageSize
      BY <2>5, <2>9
    <3>2. total <= p * PageSize /\ p * PageSize \in Nat
      <4>1. total <= Pages(total) * PageSize
        BY <1>3, ClampedFits
      <4> QED BY <1>2, <1>3, <2>3, <2>9, <4>1
    <3> QED BY <1>3, <3>1, <3>2
  <2>10. WalkComplete'
    BY <2>4, <2>7, <2>9 DEF WalkComplete, OwnDate
  <2> QED BY <2>8, <2>10
<1> QED BY <1>5, <1>6
\* More mail only puts the messages further behind.
LEMMA WalkKept ==
  ASSUME Underway, UNCHANGED <<site, walk>>, Live \subseteq Live'
  PROVE  Underway'
<1>1. \A j : Summary(j, FALSE)' = Summary(j, FALSE)
  BY DEF Summary, Header, mail
<1>2. \A i : OwnDate(i)' = OwnDate(i)
  BY <1>1 DEF OwnDate, mail
<1>3. ASSUME NEW i PROVE /\ Cardinality(Ahead(i)) \in Nat /\ Cardinality(Ahead(i)') \in Nat
                         /\ Cardinality(Ahead(i)) <= Cardinality(Ahead(i)')
  <2>1. Ahead(i) \in SUBSET Ahead(i)'
    <3>1. Ahead(i)' = {j \in Live' : Summary(j, FALSE).date > Summary(i, FALSE).date}
      BY DEF Ahead, Summary, Header, mail
    <3> QED BY <3>1 DEF Ahead
  <2>2. Ahead(i)' \in SUBSET Ids
    BY DEF Ahead, Live
  <2>3. IsFiniteSet(Ahead(i)')
    BY <2>2, SitesAssumption, FS_Subset
  <2> QED BY <2>1, <2>3, FS_Subset, FS_CardinalityType
<1>4. ASSUME walk.at > 0, NEW i \in walk.start \ walk.seen, OwnDate(i)
      PROVE  Cardinality(Ahead(i)') >= walk.at * PageSize
  <2>1. Cardinality(Ahead(i)) >= walk.at * PageSize
    BY <1>4 DEF Underway
  <2>2. walk.at * PageSize \in Nat
    <3>1. walk.at \in Nat
      BY DEF Underway
    <3> QED BY <3>1, PageSizeAssumption
  <2> QED BY <1>3, <2>1, <2>2
<1> QED BY <1>2, <1>4 DEF Underway

\* Opening, or looking for, a message removes none.
LEMMA OpenKeeps ==
  ASSUME Stored, NEW i, Open(i) \/ Missed(i)
  PROVE  Live \subseteq Live'
<1>1. CASE box' = [box EXCEPT ![i] = "read"]
  BY <1>1 DEF Stored, Live
<1>2. CASE UNCHANGED box
  BY <1>2 DEF Live
<1> QED BY <1>1, <1>2 DEF Open, Missed, Store!MarkRead, Store!Become

\* Every step but a listing ends the walk, or leaves it and its page alone.
LEMMA WalkSteps ==
  ASSUME Stored, [Next]_vars
  PROVE  \/ \E url \in Requests : url.to = "list" /\ handleList(url)
         \/ walk' = NoWalk
         \/ UNCHANGED <<site, page, walk>> /\ Live \subseteq Live'
<1>1. ASSUME NEW url, handleHTML(url) \/ handleAttach(url)
      PROVE  UNCHANGED <<site, page, walk>> /\ Live \subseteq Live'
  BY <1>1, OpenKeeps DEF handleHTML, handleAttach, Fetch
<1>2. ASSUME NEW url, handleView(url) \/ handleDelete(url) PROVE walk' = NoWalk
  BY <1>2 DEF handleView, handleDelete
<1>3. handleLang \/ UNCHANGED vars => UNCHANGED <<site, page, walk, box>>
  BY DEF handleLang, vars
<1>4. UNCHANGED box => Live \subseteq Live'
  BY DEF Live
<1>5. CASE Others
  <2>1. UNCHANGED <<site, page>>
    BY <1>5 DEF Others
  <2>2. CASE \E i \in DOMAIN mail : Store!Deliver(i) /\ UNCHANGED walk
    BY <2>1, <2>2 DEF Store!Deliver, Store!Become, Stored, Live
  <2>3. CASE \E i \in Ids : Store!MarkRead(i) /\ UNCHANGED walk
    BY <2>1, <2>3 DEF Store!MarkRead, Store!Become, Stored, Live
  <2> QED BY <1>5, <2>2, <2>3 DEF Others
<1>6. ASSUME NEW url, handleList(url) PROVE url.to = "list"
  BY <1>6 DEF handleList
<1> QED BY <1>1, <1>2, <1>3, <1>4, <1>5, <1>6 DEF Next, Serve

\* The walk goes on as it should.
LEMMA WalkStep ==
  ASSUME Stored, Current, Redirected, Underway, WalkComplete, [Next]_vars
  PROVE  Underway' /\ WalkComplete'
<1>1. ASSUME NEW url \in Requests, url.to = "list", handleList(url)
      PROVE  Underway' /\ WalkComplete'
  BY <1>1, Requested, WalkListed
<1>2. CASE walk' = NoWalk
  <2>1. walk' \in [at : Nat, start : SUBSET Ids, seen : SUBSET Ids] /\ walk'.at = 0
    BY <1>2 DEF NoWalk
  <2> QED BY <2>1 DEF Underway, WalkComplete
<1>3. CASE UNCHANGED <<site, page, walk>> /\ Live \subseteq Live'
  <2>1. Underway'
    BY <1>3, WalkKept
  <2>2. WalkComplete'
    BY <1>3 DEF WalkComplete, Summary, Header, mail
  <2> QED BY <2>1, <2>2
<1> QED BY <1>1, <1>2, <1>3, WalkSteps

-----------------------------------------------------------------------------
(* The theorems.                                                           *)

\* Initially nothing has arrived, and nothing is shown.
LEMMA InitInv == Init => IInv /\ WalkComplete
<1> SUFFICES ASSUME Init PROVE IInv /\ WalkComplete
  OBVIOUS
<1>1. Stored
  BY DEF Init, Store!Init, Store!Status, Stored
<1>2. Current
  BY OtherPages DEF Init, Current
<1>3. Redirected
  BY DEF Init, Redirected
<1>4. Answered
  BY DEF Init, Answered, NoAnswer, NoUrl, Url
<1>5. Underway /\ WalkComplete
  <2>1. walk \in [at : Nat, start : SUBSET Ids, seen : SUBSET Ids] /\ walk.at = 0
    BY DEF Init, NoWalk
  <2> QED BY <2>1 DEF Underway, WalkComplete
<1> QED BY <1>1, <1>2, <1>3, <1>4, <1>5 DEF IInv

\* The pages, the answers and the walk are about what the store has, whatever mail
\* arrives and whatever other requests read and delete.
THEOREM Invariance == Spec => [](IInv /\ WalkComplete)
<1>1. IInv /\ WalkComplete /\ [Next]_vars => (IInv /\ WalkComplete)'
  <2> SUFFICES ASSUME IInv, WalkComplete, [Next]_vars PROVE (IInv /\ WalkComplete)'
    OBVIOUS
  <2>1. Stored /\ Current /\ Redirected /\ Answered /\ Underway
    BY DEF IInv
  <2>2. Stored'
    BY <2>1, NextGrows, GrowsStored
  <2>3. Current' /\ Redirected' /\ Answered'
    BY <2>1, CurrentStep, RedirectedStep, AnsweredStep
  <2>4. Underway' /\ WalkComplete'
    BY <2>1, WalkStep
  <2> QED BY <2>2, <2>3, <2>4 DEF IInv
<1> QED BY <1>1, InitInv, PTL DEF Spec

\* Who walks through the list from page 1 to the last sees every message that was
\* there when he began.
THEOREM WalkCompleteCorrect == Spec => []WalkComplete
<1> QED BY Invariance, PTL

\* The download behind an entry of the list of attachments is that attachment.
THEOREM AttachAsListedCorrect == Spec => []AttachAsListed
<1>1. IInv => AttachAsListed
  <2> SUFFICES ASSUME IInv, got.url.to = "attach", got.part # 0
               PROVE  got.part = page.view.attach[got.url.n + 1]
    BY DEF AttachAsListed
  <2> DEFINE m == mail[page.url.id]
  <2>1. /\ page.url.to = "mail" /\ got.url.n \in Nat
        /\ got.url.n + 1 \in DOMAIN page.view.attach
        /\ got.part = Served(m.parts, m.complains, got.url.n)
    BY DEF IInv, Answered
  <2>2. m \in Mail /\ page.view.attach = Attached(m.parts)
    BY <2>1, ArrivedMail DEF IInv, Current, Arrived, walkMessage
  <2>3. m.parts \in Seq(Part) /\ m.complains \in BOOLEAN
    BY <2>2 DEF Mail
  <2> HIDE DEF m
  <2>4. m.complains = FALSE
    <3>1. m.complains = TRUE => Served(m.parts, m.complains, got.url.n) = 0
      BY DEF Served
    <3> QED BY <2>1, <2>3, <3>1
  <2> QED BY <2>1, <2>2, <2>3, <2>4, ServedAsListed
<1> QED BY <1>1, Invariance, PTL

\* The text on the page of a message without a plain text reads like its HTML body, if
\* html.Parse accepts it.
THEOREM TextReadsCorrect == Spec => []TextReads
<1>1. IInv => TextReads
  <2> DEFINE i == page.url.id
             m == walkMessage(mail[i].parts)
  <2> SUFFICES ASSUME IInv, page.url.to = "mail", page.view.html, mail[i].parsed,
                      \A p \in Walked(mail[i].parts) : mail[i].parts[p].type # "plain"
               PROVE  Reads(mail[i].doc, page.view.text)
    BY DEF TextReads
  <2>1. /\ Arrived(i) /\ page.view.text = TextOf(i) /\ page.view.html = (m.html # 0)
    BY DEF IInv, Current, Arrived
  <2>2. mail[i] \in Mail /\ Document(mail[i].doc)
    <3>1. site \in Sites /\ i \in DOMAIN site.mail
      BY <2>1 DEF IInv, Stored, Arrived, mail
    <3>2. IsSite(site)
      BY <3>1, SitesAssumption
    <3> QED BY <3>1, <3>2 DEF IsSite, mail
  <2>3. mail[i].doc \in Seq(STRING) /\ mail[i].parsed = TRUE
    BY <2>2 DEF Mail
  <2>4. m.text = 0
    <3> DEFINE D == {k \in Walked(mail[i].parts) : /\ ~mail[i].parts[k].attach
                                                   /\ mail[i].parts[k].type = "plain"
                                                   /\ ~mail[i].parts[k].empty}
    <3>1. D = {}
      OBVIOUS
    <3>2. m.text = First(D)
      BY DEF walkMessage, Body
    <3> QED BY <3>1, <3>2 DEF First
  <2>5. TextOf(i) = htmlToText(TRUE, mail[i].doc)
    BY <2>1, <2>3, <2>4 DEF TextOf
  <2> QED BY <2>1, <2>2, <2>3, <2>5, HtmlToTextReads
<1> QED BY <1>1, Invariance, PTL

\* A message is shown as spam, in the list and on its page, as the policy has it.
THEOREM SpamShownCorrect == Spec => []SpamShown
<1> DEFINE Entry1(e) == e.filled => /\ mail[e.id].action = "spam" => e.spam
                                    /\ e.spam => Marked(mail[e.id])
           View1 == page.url.to = "mail" /\ Parses(mail[page.url.id].head) =>
                      (page.view.spam <=> Marked(mail[page.url.id]))
<1>0. SpamShown <=> (\A k \in DOMAIN page.entries : Entry1(page.entries[k])) /\ View1
  BY DEF SpamShown, Marked
<1>1. Init => SpamShown
  <2>1. Init => page.entries = << >> /\ page.url.to = "none"
    BY OtherPages DEF Init
  <2>2. page.entries = << >> => DOMAIN page.entries = {}
    OBVIOUS
  <2> QED BY <1>0, <2>1, <2>2
<1>2. IInv /\ SpamShown /\ [Next]_vars => SpamShown'
  <2> SUFFICES ASSUME IInv, SpamShown, [Next]_vars PROVE SpamShown'
    OBVIOUS
  <2>0. Stored /\ Current /\ Redirected
    BY DEF IInv
  <2>1. UNCHANGED site
    BY <2>0, NextGrows, ZenonT(60) DEF Grows
  <2>2. CASE UNCHANGED page
    BY <2>1, <2>2 DEF SpamShown, mail
  <2>3. (SpamShown <=> (\A k \in DOMAIN page.entries : Entry1(page.entries[k])) /\ View1)'
    BY DEF SpamShown, Marked
  <2>4. CASE page' = NotFound
    BY <2>3, <2>4, OtherPages
  <2>5. ASSUME NEW url \in Requests, url.to = "list", handleList(url) PROVE SpamShown'
    <3>1. url.n \in Int
      BY <2>0, <2>5, Requested
    <3>2. page'.url.to = "list"
      <4>1. PICK p : page'.url = ListUrl(p)
        BY <2>0, <2>5, <3>1, ListStep DEF Lists
      <4> QED BY <4>1 DEF ListUrl, Url
    <3>3. ASSUME NEW k \in DOMAIN page'.entries PROVE Entry1(page'.entries[k])
      <4>1. PICK e : /\ Tells(e) /\ page'.entries[k].id = e.id
                     /\ page'.entries[k].filled = e.filled /\ page'.entries[k].spam = e.spam
        BY <2>0, <2>5, <3>1, ListEntries
      <4> QED BY <4>1 DEF Tells
    <3>4. \A k \in DOMAIN page'.entries : (Entry1(page.entries[k]))'
      BY <2>1, <3>3 DEF mail
    <3> QED BY <2>3, <3>2, <3>4
  <2>6. ASSUME NEW url \in Requests, url.to = "mail", handleView(url), page' # NotFound
        PROVE  SpamShown'
    <3> DEFINE m == mail[url.id]
    <3>1. /\ url.id \in Live /\ page'.url = url /\ page'.entries = << >>
          /\ page'.view.spam = SaysSpam(Header(url.id))
      BY <2>6, ViewStep
    <3>2. m \in Mail
      BY <2>0, <3>1, LiveArrived, ArrivedMail
    <3>3. ASSUME Parses(m.head) PROVE page'.view.spam <=> Marked(m)
      <4> DEFINE H == injectHeaders(m.action, m.head)
      <4> HIDE DEF m
      <4>1. m.head \in Seq(Line)
        BY <3>2 DEF Mail
      <4>2. /\ H \in Seq(Line) /\ Len(H) = Len(m.head) + 2
            /\ H[1] = Other /\ H[2] = SpamStatusHeader(m.action)
            /\ \A k \in 1 .. Len(m.head) : H[k + 2] = m.head[k]
        BY <3>2, InjectedLines
      <4> HIDE DEF H
      <4>3. Len(m.head) \in Nat /\ DOMAIN H = 1 .. Len(m.head) + 2
              /\ DOMAIN m.head = 1 .. Len(m.head)
        BY <4>1, <4>2
      <4>4. Parses(H)
        <5> SUFFICES ASSUME NEW k \in DOMAIN H PROVE H[k].field # "junk"
          BY DEF Parses
        <5>1. CASE k <= 2
          <6>1. k = 1 \/ k = 2
            BY <4>3, <5>1
          <6> QED BY <4>2, <6>1, StatusLine DEF Other
        <5>2. CASE k > 2
          <6>1. k - 2 \in 1 .. Len(m.head) /\ (k - 2) + 2 = k
            BY <4>3, <5>2
          <6>2. H[k] = m.head[k - 2]
            BY <4>2, <6>1
          <6> QED BY <3>3, <4>3, <6>1, <6>2 DEF Parses
        <5>3. k <= 2 \/ k > 2
          BY <4>3
        <5> QED BY <5>1, <5>2, <5>3
      <4>5. SaysSpam(H) <=> Marked(m)
        <5>1. H \in Seq(Line) /\ 2 <= Len(H) /\ Len(H) = Len(m.head) + 2
                /\ Len(H) <= Len(m.head) + 2
          BY <4>2, <4>3
        <5>2. \A k \in 1 .. Len(H) : H[k] = injectHeaders(m.action, m.head)[k]
          BY DEF H
        <5> QED BY <3>2, <4>4, <5>1, <5>2, PrefixVerdict
      <4>6. Header(url.id) = H
        BY DEF Header, H, m
      <4> QED BY <3>1, <4>5, <4>6
    <3> HIDE DEF m
    <3>4. View1'
      BY <2>1, <3>1, <3>3 DEF m, mail, Marked
    <3>5. DOMAIN page'.entries = {}
      BY <3>1
    <3> QED BY <2>3, <3>4, <3>5
  <2> QED BY <2>2, <2>4, <2>5, <2>6, PageSteps
<1> QED BY <1>1, <1>2, Invariance, PTL DEF Spec
\* A message that has arrived is missed only with an excuse.
LEMMA MissedExcused ==
  ASSUME Stored, NEW i, Arrived(i), Missed(i)
  PROVE  Excused(i)
<1>1. box[i] \in Store!Status /\ i \in Ids /\ box[i] # "absent"
  BY DEF Stored, Arrived
<1>2. CASE i \notin Live
  BY <1>1, <1>2 DEF Live, Store!Status, Excused
<1>3. CASE Store!MarkRead(i)
  BY <1>1, <1>3 DEF Store!MarkRead, Store!Become, Stored, Excused
<1> QED BY <1>2, <1>3 DEF Missed

\* "Not found" is the answer for a message that has arrived, and was missed.
LEMMA NotFoundStep ==
  ASSUME Stored, Current, Redirected, NEW url \in Requests,
         handleView(url) \/ handleDelete(url), page' = NotFound
  PROVE  Arrived(url.id) /\ Missed(url.id)
<1>1. url.to \in {"mail", "delete"}
  BY DEF handleView, handleDelete
<1>2. \/ page.url.to = "list" /\ \E k \in DOMAIN page.entries : url.id = page.entries[k].id
      \/ page.url.to = "mail" /\ url.id = page.url.id
  BY <1>1, Requested
<1>3. Arrived(url.id)
  BY <1>2 DEF Current, Arrived
<1>4. CASE handleView(url)
  <2>1. url.to = "mail"
    BY <1>4 DEF handleView
  <2>2. page'.url # url
    BY <2>1, OtherPages
  <2>3. Missed(url.id) \/ page'.url = url
    BY <1>4 DEF handleView, NewPage
  <2> QED BY <1>3, <2>2, <2>3
<1>5. CASE handleDelete(url)
  <2>1. page # page'
    BY <1>2, OtherPages
  <2>2. Missed(url.id)
    BY <1>5, <2>1 DEF handleDelete
  <2> QED BY <1>3, <2>2
<1> QED BY <1>4, <1>5

\* An answer without a part is for a message that was missed, or that message.Read
\* complains about.
LEMMA EmptyAnswer ==
  ASSUME Stored, Current, Redirected, Next, got' # got, got' # NoAnswer, got'.part = 0
  PROVE  /\ page.url.to = "mail"
         /\ \/ Missed(page.url.id)
            \/ got'.url.to = "attach" /\ mail[page.url.id].complains
<1>1. \A url : ~handleList(url) /\ ~handleView(url) /\ ~handleDelete(url)
  BY DEF handleList, handleView, handleDelete
<1>2. ~handleLang /\ ~Others
  BY DEF handleLang, Others
<1>3. PICK url \in Requests : handleHTML(url) \/ handleAttach(url)
  BY <1>1, <1>2 DEF Next, Serve
<1>4. url.to \in {"html", "attach"}
  BY <1>3 DEF handleHTML, handleAttach
<1>5. page.url.to = "mail" /\ url.id = page.url.id
  BY <1>4, Requested
<1> DEFINE m == mail[page.url.id]
<1>6. m \in Mail /\ page.view.attach = Attached(m.parts)
        /\ page.view.html = (walkMessage(m.parts).html # 0)
  BY <1>5, ArrivedMail DEF Current, Arrived, walkMessage
<1>7. m.parts \in Seq(Part) /\ m.complains \in BOOLEAN
  BY <1>6 DEF Mail
<1>8. CASE handleHTML(url)
  <2>1. url.to = "html" /\ Fetch(url, walkMessage(m.parts).html)
    BY <1>5, <1>8 DEF handleHTML
  <2>2. page.view.html
    BY <2>1, Requested
  <2>3. walkMessage(m.parts).html # 0
    BY <1>6, <2>2
  <2> HIDE DEF m
  <2>4. Missed(url.id)
    BY <2>1, <2>3, FetchStep
  <2> QED BY <1>5, <2>4
<1>9. CASE handleAttach(url)
  <2>1. url.to = "attach" /\ Fetch(url, Served(m.parts, m.complains, url.n))
    BY <1>5, <1>9 DEF handleAttach
  <2>2. url.n \in Nat /\ url.n + 1 \in DOMAIN page.view.attach
    BY <2>1, Requested
  <2> HIDE DEF m
  <2>3. got'.url.to = "attach"
    BY <2>1, FetchStep
  <2>4. Missed(url.id) \/ Served(m.parts, m.complains, url.n) = 0
    BY <2>1, FetchStep
  <2>5. Served(m.parts, m.complains, url.n) = 0 => m.complains
    <3> SUFFICES ASSUME ~m.complains PROVE Served(m.parts, m.complains, url.n) # 0
      OBVIOUS
    <3>1. m.complains = FALSE
      BY <1>7
    <3>2. Served(m.parts, FALSE, url.n) # 0
      BY <1>6, <1>7, <2>2, ServedAsListed
    <3> QED BY <3>1, <3>2
  <2> QED BY <1>5, <2>3, <2>4, <2>5 DEF m
<1> QED BY <1>3, <1>8, <1>9, ZenonT(60)

\* No link on a page is dead, but for what others do to the message meanwhile and
\* for attachments of a message that message.Read complains about.
THEOREM LinksHoldCorrect == Spec => LinksHold
<1>1. IInv /\ [Next]_vars => [LinkStep]_vars
  <2> SUFFICES ASSUME IInv, Next PROVE LinkStep
    OBVIOUS
  <2>0. Stored /\ Current /\ Redirected
    BY DEF IInv
  <2>1. page.url.to = "mail" => Arrived(page.url.id)
    BY <2>0 DEF Current, Arrived
  <2>2. ASSUME NEW url \in Requests, handleView(url) \/ handleDelete(url), page' = NotFound
        PROVE  Excused(url.id)
    <3>1. Arrived(url.id) /\ Missed(url.id)
      BY <2>0, <2>2, NotFoundStep
    <3> QED BY <2>0, <3>1, MissedExcused
  <2>3. ASSUME got' # got, got' # NoAnswer, got'.part = 0
        PROVE  \/ Excused(page.url.id)
               \/ got'.url.to = "attach" /\ mail[page.url.id].complains
    BY <2>0, <2>1, <2>3, EmptyAnswer, MissedExcused
  <2> QED BY <2>2, <2>3 DEF LinkStep
<1> QED BY <1>1, Invariance, PTL DEF Spec, LinksHold
=============================================================================
