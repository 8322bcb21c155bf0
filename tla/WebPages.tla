------------------------------ MODULE WebPages ------------------------------
(***************************************************************************)
(* The pages of the web interface, internal/web/web.go, as one user sees   *)
(* them: the page in the browser, the links on it, and the handlers that   *)
(* answer when a link is followed.  Meanwhile mail arrives, and other      *)
(* requests read and delete messages; the store is the one of Mailbox.     *)
(*                                                                         *)
(* The user is logged in: WebSession is about that.                        *)
(***************************************************************************)
EXTENDS MailContent, Textify, I18n

CONSTANTS
  Ids,            \* the messages that may arrive
  Sites,          \* what may arrive for whom; see IsSite
  PageSize,       \* listPageSize
  TypedPages,     \* values of ?p= that the user may type, 0 for one that is no number
  None            \* no message, no request

ASSUME PageSizeAssumption == PageSize \in Nat \ {0}
ASSUME TypedPagesAssumption == TypedPages \subseteq Int
ASSUME NoneAssumption == None \notin Ids \cup Languages

\* A message: its date, the header that the sender wrote and the verdict on it,
\* whether List's read of the header ends in the name of a field, whether
\* message.Read complains about the message, its parts, whether html.Parse accepts
\* its HTML body, and that body.
Mail == [date : Nat, head : Seq(Line), action : {"spam", "inbox"}, torn : BOOLEAN,
         complains : BOOLEAN, parts : Seq(Part), parsed : BOOLEAN, doc : Seq(STRING)]

\* x.mail[i] is message i; x.accept is the Accept-Language header of the browser.
IsSite(x) == /\ DOMAIN x.mail \subseteq Ids
             /\ x.mail \in [DOMAIN x.mail -> Mail]
             /\ \A i \in DOMAIN x.mail : Document(x.mail[i].doc)
             /\ x.accept \in Seq(Entry)
ASSUME SitesAssumption == IsFiniteSet(Ids) /\ \A x \in Sites : IsSite(x)

VARIABLES
  site,           \* a member of Sites, one for each behaviour
  box,            \* the mail store: see Mailbox
  cookie,         \* the language cookie, or None
  page,           \* the page that the browser shows
  todo,           \* the URL that the browser has been redirected to, or None
  got,            \* the last answer about a part of the page's message
  walk            \* history: the pages of the list seen since the first, by
                  \* following the link to the next one; see Walking

vars == <<site, box, cookie, page, todo, got, walk>>

Store == INSTANCE Mailbox

mail    == site.mail
Live    == {i \in Ids : box[i] \in {"unread", "read"}}

-----------------------------------------------------------------------------
(* URLs and pages.                                                         *)

Url(to, id, n) == [to |-> to, id |-> id, n |-> n]
ListUrl(p)     == Url("list", None, p)
NoUrl          == Url("none", None, 0)

\* A page: entries and pages are those of a list, view is that of a message.
NoView       == [spam |-> FALSE, text |-> << >>, html |-> FALSE, attach |-> << >>]
NewPage(url) == [url |-> url, lang |-> defaultLang, entries |-> << >>, pages |-> 1,
                 view |-> NoView]
NotFound     == NewPage(Url("404", None, 0))

\* The part that was sent, or 0 for 404.
NoAnswer == [url |-> NoUrl, part |-> 0]

NoWalk == [at |-> 0, start |-> {}, seen |-> {}]

\* The links of list.html: the messages, and the neighbouring pages.
ListLinks == {Url("mail", page.entries[k].id, 0) : k \in DOMAIN page.entries}
               \cup {ListUrl(p) : p \in {page.url.n - 1, page.url.n + 1} \cap 1 .. page.pages}

\* The links of view.html.
ViewLinks == {ListUrl(0), Url("delete", page.url.id, 0)}
               \cup {Url("attach", page.url.id, k - 1) : k \in DOMAIN page.view.attach}
               \cup IF page.view.html THEN {Url("html", page.url.id, 0)} ELSE {}

Links == CASE page.url.to = "list" -> ListLinks
           [] page.url.to = "mail" -> ViewLinks
           [] OTHER                -> {}

\* The user follows a link or types a URL; a redirection is followed at once.
Requests == IF todo # NoUrl THEN {todo}
            ELSE Links \cup {ListUrl(p) : p \in TypedPages}

-----------------------------------------------------------------------------
(* The store.                                                              *)

\* Store.Open, or Delete, finds nothing; or another request moves the message to
\* cur/ after locate has found it in new/.
Missed(i) == \/ i \notin Live /\ UNCHANGED box
             \/ Store!MarkRead(i)

\* Store.Open.
Open(i) == /\ i \in Live
           /\ box' = [box EXCEPT ![i] = "read"]

Header(i) == injectHeaders(mail[i].action, mail[i].head)

\* fillHeaders of what List reads of a message, unless the header does not parse;
\* again marks the second entry of a message that was moved from new/ to cur/ under
\* the eyes of List.
Summary(i, again) ==
  LET head == Peeked(Header(i), mail[i].torn)
  IN  [id |-> i, again |-> again, filled |-> Parses(head), spam |-> SaysSpam(head),
       date |-> IF Has(head, "date") THEN mail[i].date ELSE 0]

\* An entry without headers: the file was moved before List opened it.
Bare(i) == [id |-> i, again |-> FALSE, filled |-> FALSE, spam |-> FALSE, date |-> 0]

\* The entries of a listing during which the messages in moved were moved, those
\* in bare before they were opened.
Entries(moved, bare) ==
  {Summary(i, FALSE) : i \in Live \ bare} \cup {Bare(i) : i \in bare}
    \cup {Summary(i, TRUE) : i \in moved}

\* Newest first; sort.Slice leaves the order of equal dates open.  The results are
\* built by inserting one entry after the other.
Sorted(E) ==
  LET fits(e, s, k) == /\ \A j \in 1 .. k - 1 : s[j].date >= e.date
                       /\ \A j \in k .. Len(s) : s[j].date <= e.date
      insert(e, S) == UNION {{InsertAt(s, k, e) : k \in {j \in 1 .. Len(s) + 1 : fits(e, s, j)}}
                             : s \in S}
  IN  FoldSet(insert, {<< >>}, E)

-----------------------------------------------------------------------------
(* The handlers.                                                           *)

\* Mutant: a page that is not full does not count.
PagesFull(total) == IF total < PageSize THEN 1 ELSE total \div PageSize

\* The number of pages.
Pages(total) == IF total = 0 THEN 1 ELSE (total + PageSize - 1) \div PageSize

Clamped(p, pages) == CASE p < 1     -> 1
                       [] p > pages -> pages
                       [] OTHER     -> p

\* The history: from page 1 on, the messages seen, as long as each page is the one
\* behind the last, nothing is removed, and no listing shows a message twice.
Walking(p, shown, moved) ==
  CASE moved = {} /\ p = 1 -> [at |-> 1, start |-> Live, seen |-> shown]
    [] moved = {} /\ p > 1 /\ p = walk.at + 1 ->
         [walk EXCEPT !.at = p, !.seen = @ \cup shown]
    [] OTHER -> NoWalk

\* handleList.
handleList(url) ==
  /\ url.to = "list"
  /\ \E moved \in {{}} \cup {{i} : i \in {j \in Ids : box[j] = "unread"}} :
     \E bare \in SUBSET moved :
     \E msgs \in Sorted(Entries(moved, bare)) :
       LET total == Len(msgs)
           pages == Pages(total)
           p     == Clamped(url.n, pages)
           start == (p - 1) * PageSize
           shown == SubSeq(msgs, start + 1, Min({start + PageSize, total}))
       IN  /\ page' = [NewPage(ListUrl(p)) EXCEPT
                         !.lang = catalogFor(cookie, site.accept),
                         !.entries = [k \in DOMAIN shown |->
                                        [id |-> shown[k].id, filled |-> shown[k].filled,
                                         spam |-> shown[k].spam]],
                         !.pages = pages]
           /\ walk' = Walking(p, {shown[k].id : k \in DOMAIN shown}, moved)
           /\ box' = [i \in Ids |-> IF i \in moved THEN "read" ELSE box[i]]
  /\ todo' = NoUrl
  /\ got' = NoAnswer
  /\ UNCHANGED <<site, cookie>>

\* The text of the message: its own, or one derived from the HTML body.
TextOf(i) ==
  LET m == walkMessage(mail[i].parts)
  IN  IF m.text = 0 /\ m.html # 0 THEN htmlToText(mail[i].parsed, mail[i].doc) ELSE << >>

\* handleView.
handleView(url) ==
  /\ url.to = "mail"
  /\ \/ /\ Open(url.id)
        /\ LET m == walkMessage(mail[url.id].parts)
           IN  page' = [NewPage(url) EXCEPT
                          !.lang = catalogFor(cookie, site.accept),
                          !.view = [spam |-> SaysSpam(Header(url.id)), text |-> TextOf(url.id),
                                    html |-> m.html # 0, attach |-> m.attach]]
     \/ Missed(url.id) /\ page' = NotFound
  /\ todo' = NoUrl
  /\ got' = NoAnswer
  /\ walk' = NoWalk
  /\ UNCHANGED <<site, cookie>>

\* The frame with the HTML body, or the download of an attachment: the answer
\* goes to a part of the page, which stays as it is.
Fetch(url, part) ==
  /\ \/ Open(url.id) /\ got' = [url |-> url, part |-> part]
     \/ Missed(url.id) /\ got' = [url |-> url, part |-> 0]
  /\ UNCHANGED <<site, cookie, page, todo, walk>>

handleHTML(url) ==
  /\ url.to = "html"
  /\ Fetch(url, walkMessage(mail[url.id].parts).html)

handleAttach(url) ==
  /\ url.to = "attach"
  /\ Fetch(url, Served(mail[url.id].parts, mail[url.id].complains, url.n))

\* handleDelete: removed, and on to the list.
handleDelete(url) ==
  /\ url.to = "delete"
  /\ \/ Store!Remove(url.id) /\ todo' = ListUrl(0) /\ UNCHANGED page
     \/ Missed(url.id) /\ page' = NotFound /\ UNCHANGED todo
  /\ got' = NoAnswer
  /\ walk' = NoWalk
  /\ UNCHANGED <<site, cookie>>

\* handleLang, by the link on the page to the other language: the choice is
\* recorded, and the browser goes back to the page.
handleLang ==
  /\ todo = NoUrl
  /\ page.url.to \in {"list", "mail"}
  /\ cookie' = CHOOSE l \in Languages : l # page.lang
  /\ todo' = page.url
  /\ got' = NoAnswer
  /\ UNCHANGED <<site, box, page, walk>>

-----------------------------------------------------------------------------
(* What others do to the store.                                            *)

Others ==
  /\ \/ \E i \in DOMAIN mail : Store!Deliver(i) /\ UNCHANGED walk
     \/ \E i \in Ids : Store!MarkRead(i) /\ UNCHANGED walk
     \/ \E i \in Ids : Store!Remove(i) /\ walk' = NoWalk
  /\ UNCHANGED <<site, cookie, page, todo, got>>

Init ==
  /\ site \in Sites
  /\ Store!Init
  /\ cookie = None
  /\ page = NewPage(NoUrl)
  /\ todo = NoUrl
  /\ got = NoAnswer
  /\ walk = NoWalk

\* The routes of New.
Serve(url) == \/ handleList(url) \/ handleView(url) \/ handleHTML(url)
              \/ handleAttach(url) \/ handleDelete(url)

Next == \/ \E url \in Requests : Serve(url)
        \/ handleLang
        \/ Others

Spec == Init /\ [][Next]_vars

-----------------------------------------------------------------------------
(* Properties.                                                             *)

\* Who goes through the list from its first page to its last, link by link, sees
\* every message that was there when he began, however much mail comes in between:
\* messages only move down the list.  Excepted are removals, a listing in which a
\* message that is just being opened appears twice, and messages with equal dates,
\* whose order may change from page to page.
WalkComplete ==
  LET ownDate(i) == \A j \in DOMAIN mail \ {i} : Summary(i, FALSE).date # Summary(j, FALSE).date
  IN  walk.at > 0 /\ walk.at = page.pages => {i \in walk.start : ownDate(i)} \subseteq walk.seen

\* A link on the page shown leads to "not found" only if the very message that it is
\* about has been deleted since, or another request opens it for the first time at
\* that moment; or for an attachment of a message that message.Read complains about,
\* which handleView shows and handleAttach does not serve.
Excused(i) == box[i] = "deleted" \/ (box[i] = "unread" /\ box'[i] = "read")
LinkStep ==
  /\ \A url \in Requests :
       page' = NotFound /\ (handleView(url) \/ handleDelete(url)) => Excused(url.id)
  /\ got' # got /\ got' # NoAnswer /\ got'.part = 0 =>
       \/ Excused(page.url.id)
       \/ got'.url.to = "attach" /\ mail[page.url.id].complains
LinksHold == [][LinkStep]_vars

\* The download behind an entry of the list of attachments is that attachment:
\* handleView and handleAttach number the parts in the same way, whatever parts
\* they skip.
AttachAsListed ==
  got.url.to = "attach" /\ got.part # 0 => got.part = page.view.attach[got.url.n + 1]

\* A message that the policy marks as spam has the badge in the list and on its
\* page, and one that it lets pass has none, whatever X-Spam-Status the sender
\* writes; unless the message begins with a continuation line, which then belongs
\* to the injected header, or its header cannot be parsed.
SpamShown ==
  LET sender(i) == mail[i].head
      marked(i) == \/ mail[i].action = "spam"
                   \/ \E k \in Folded(<<Other>> \o sender(i), 1) \ {1} : sender(i)[k - 1].spam
  IN  /\ \A k \in DOMAIN page.entries :
           LET e == page.entries[k]
           IN  e.filled => (mail[e.id].action = "spam" => e.spam) /\ (e.spam => marked(e.id))
      /\ page.url.to = "mail" /\ Parses(sender(page.url.id)) =>
           (page.view.spam <=> marked(page.url.id))

\* A message without a plain text, whose HTML body html.Parse accepts, shows the words
\* of that body, each once and none that is left out, in lines that end where an
\* element of textifyBlockTags or a br is, and apart where there is white space.
TextReads ==
  page.url.to = "mail" =>
    LET i == page.url.id
    IN  page.view.html /\ mail[i].parsed
          /\ (\A p \in Walked(mail[i].parts) : mail[i].parts[p].type # "plain")
          => Reads(mail[i].doc, page.view.text)

\* A page is in the language that the user chose last, and before he has chosen in
\* the one that his browser prefers.
LanguageShown ==
  todo = NoUrl /\ page.url.to \in {"list", "mail"} =>
    page.lang = IF cookie # None THEN cookie ELSE Preferred(site.accept)
=============================================================================
