# Verification of airmx

airmx is a personal mail server in one process: an SMTP receiver on one port, a
web interface on another, a maildir on disk between them. This directory holds
TLA+ models of its parts, the TLC runs that check them, and TLAPS proofs of the
properties that matter most.

## 1. The system

| Part | State | Operations | Talks to |
| --- | --- | --- | --- |
| Mail store (`internal/maildir`) | the directories `<recipient>/{tmp,new,cur}`; no lock, nothing in memory | Deliver, List, Open, Delete, Reader | called by SMTP sessions and web requests, all at once |
| SMTP receiver (`internal/smtpserver/server.go`) | one session per connection: sender, recipients | NewSession, Mail, Rcpt, Data, Reset, Logout | go-smtp calls it; it calls mailauth, the store, OnDeliver |
| Certificate cache (`internal/smtpserver/tls.go`) | certificate, expiry, two modification times, under an RWMutex | NewCertReloader, GetCertificate, reload | TLS handshakes; an external tool replaces the files |
| Message authentication (`internal/mailauth`) | none between messages | Check (SPF, DKIM, DMARC), Policy.Decide | the DNS, through libraries |
| Web Push (`internal/push`) | map of subscriptions under a mutex, and a JSON file | New, Subscribe, Unsubscribe, Notify | web handlers, OnDeliver, the vendors' push services |
| Web sessions (`internal/web/auth.go`) | none: the session is in the cookie | login, logout, requireAuth | browsers |
| Web pages (`internal/web/web.go`, `i18n.go`, `textify.go`) | none | list, view, HTML, attachments, delete, language | the store |
| Browser scripts (`internal/web/static`) | the state of a button or a dialog | toggle push, show a notification, confirm | web handlers, the browser |
| Configuration and start (`config.go`, `main.go`) | the configuration, read once | LoadConfig, Validate, AcceptsRecipient, exit on a signal | everything |

What is hard about it:

* *Concurrency without locks.* Deliver, List, Open and Delete work on the same
  directories, each with several system calls. A message moves from `new/` to
  `cur/` under the eyes of the others.
* *Check, then act.* locate returns a path that is used later; GetCertificate
  copies the cached values, looks at the files, and reloads without the lock;
  Notify works on a copy of the map.
* *Partial failure.* Data serves one recipient after the other; a save may fail
  after the map has changed; two certificate files are replaced one by one.
* *Restarts.* main exits on a signal without waiting for anybody.
* *Retries.* An SMTP client that does not get its answer tries again while the
  first session may still be at work.
* *DNS answers* that come, fail to come, or change between attempts.
* *Two readers of one message.* The verdict is written into the header by one part
  and read back by two others; attachments are numbered by one walk and fetched by
  another.
* *Pages grow old.* What a tab shows was true when it was loaded; the store, the
  subscriptions and the configuration file go on changing.

## 2. The modules

| Module | Models | Notes |
| --- | --- | --- |
| `Mailbox` | what the store promises | the abstract specification: each message is absent, unread, read or deleted |
| `Maildir` | `maildir.go` | one action per system call; implements `Mailbox` |
| `CertReloader` | `tls.go` | with the tool that renews the files, and the clock |
| `MailAuth` | `auth.go` of mailauth | pure operators and the sequence of checks around them |
| `MailTransfer` | what a client may rely on | the abstract specification: the addresses of a message are open, served or refused, and mailboxes hold copies |
| `Smtp` | `server.go`, `AcceptsRecipient` | with clients that retry; Deliver is atomic, as `Maildir` shows; implements `MailTransfer` |
| `Push` | `push.go` and its two HTTP handlers | with restarts and a push service that retires endpoints |
| `PushToggle` | `push.js` | extends `Push`: the tabs of a browser against that server |
| `WebSession` | `auth.go` of web | with browsers and changes of the configuration |
| `MailContent` | `injectHeaders`, `headerOf`, `walkMessage`, the search of `handleAttach` | pure operators on headers and parts |
| `Orders` | – | sets of numbers in ascending order, for the two around it |
| `Textify` | `textify.go` | pure operators, with a reference definition of what the markup says |
| `I18n` | `catalogFor`, `negotiateLang` | pure operators, with a reference definition |
| `WebPages` | the handlers of `web.go`, `handleLang`, the links of the templates | extends the three above; its store is `Mailbox` |
| `Process` | `main.go`, `config.go`, the start of the servers | with systemd and an administrator |
| `MaildirProofs`, `CertReloaderProofs`, `MailAuthProofs`, `SmtpProofs`, `WebSessionProofs`, `ProcessProofs` | – | theorems about the module of that name, and their proofs |
| `PushProofs` | – | theorems about `Push` and `PushToggle` |
| `WebPagesProofs` | – | theorems about `WebPages`, `I18n`, `MailContent` and `Textify` |
| `MC…` | – | constants and symmetry sets for TLC, where a cfg alone does not do |

Definitions have the names of the functions they stand for; an action that is one
step of a function begins with its name (`DeliverRename`, `ListEntry`). A
goroutine is a *frame*: the step it takes next and its local variables.
Definitions called "Mutant" in a comment are wrong on purpose: each replaces the
definition below it in a check that the properties can tell the two apart.

### Maildir

`tmp`, `new`, `cur` map a recipient to the names in its directory, `made` is the
set of recipients with a directory, `data` says whether a file is complete.
Deliver takes six steps (directories, exclusive creation, write and sync, close,
rename, or the removal after an error). Open, Delete and Reader share the steps of
locate: one `os.Stat` per directory, recipient by recipient, and then the access
to the path found. List reads a directory, opens its entries one by one, and goes
on. Each system call named in `Faults` may fail. `Crash` forgets every frame and
keeps the files. Assumed: names are unique (the code takes the clock in
nanoseconds, the process id, the host and 32 random bits), and a directory is read
in one step.

The history variables say what Deliver returned (`acked`, `failed`), what was
deleted (`removed`), and which messages were there all the time since a request or
a listing began (`wlive`, `llive`).

### CertReloader

A certificate is the number of its renewal. The tool issues new ones, replaces
either file by the newest or removes it, in any order, at any time; time makes
certificates come near their expiry. A handshake takes the read lock, looks at the
expiry and the two modification times, and runs reload, in which the two reads,
the publication and the two stats are separate steps. `lapped` says that the files
last changed while somebody was between the first read and the end of reload;
`quiet[h]` that nothing has disturbed h since it began. Every replacement gets a
modification time of its own (the clock of the file system is fine enough).
main, when its first load fails, exits and is started again by systemd.

### MailAuth

The four steps of Check and Decide, each with every answer that the libraries can
give. A domain has a lower-case form and an organizational domain, or none. Which
properties of a message matter is what the code looks at: the domain of the
envelope sender, the sequence of signatures with their domains and verdicts, the
domain of the From header.

### Smtp

A connection carries one session; a client (external) sends MAIL, a RCPT for each
address it still has to deliver, and DATA. Data reads and checks the message, and
is answered at once with 552 or 554, or enters the loop over the recipients. In
the loop the store may fail, the client may give up, which the session does not
notice until it answers, and the process may be killed; `MaxTroubles` bounds the
number of such events. `troubled` is the set of messages that an attempt left in
doubt. The verdict on a message may be different in every attempt.

`MailTransfer` is the same seen from outside: no sessions, no transactions, only
the answers that a client has for each address and the copies in the mailboxes. An
address is settled once; 250 means that the copy is there and 55x that none is; a copy
is stored for an open address, and once. What is left of these promises for a message
in doubt is in the guards of `Store` and `Refuse`: a retry may store a second copy, and
a refused address may have one that nobody told the client about.

### Push

A request takes the mutex, changes the map, writes the temporary file and renames
it; the mutex is held all along. A Notify copies the map, and a goroutine per
subscription sends; the push service answers, does not answer, or reports the
endpoint gone, whereupon the goroutine runs Unsubscribe. The process may be killed
between any two steps, and loads the file when it starts.

### WebSession

A sealed cookie is a key and a payload; the key is that of the password at the
time of sealing. User names are sequences of the parts between bars, so that
`strings.Cut` is modelled by what it does to a payload.

### PushToggle

A browser has at most one push subscription, and tabs, each with the button of
`push.js`: what it shows, and the click it is busy with. A click posts a request,
which is a call of `Push`; the request may not arrive, the answer may be lost while
the handler goes on, the server may be killed meanwhile. `AnswerOff` is the rest of
a click after the answer: `sub.unsubscribe()`, which may fail, and the new look at
the subscription. The push service may retire the subscription, with or without
the browser's notice. `told[t]` is the endpoint about which the last click on t has
said something that nothing has disturbed since: no click in another tab, no
request about it given up earlier and still at work, no retirement.

### MailContent, Textify, I18n

A header is a sequence of lines: a status field, a date, another field, a
continuation, or a line without a colon, at which `mail.ReadMessage` gives up.
List reads `PeekLines` lines, and the cut may leave the beginning of a field name.
The parts of a message are in the order of `Entity.Walk`; a part of unknown charset
or encoding is passed over by both walks. An attachment that is itself a multipart is
read to its end by walkMessage, and go-message then ends the walk with an error;
handleAttach reads only the part it is asked for.

html.Parse accepts an HTML body or returns an error (it gives up on elements that are
nested too deeply, for instance), after which htmlToText returns no text.
An HTML document is the sequence of tokens of a walk over its tree; its words are
labels, each of which occurs once, so that a place in the text can be traced back to
one in the document (the code looks at no word, only at white space). `Walk` is one
node of htmlToText, `Written` the output of all of them, and `normalizeText` takes it
apart at newlines and then at blanks (`Pieces`), without the empty pieces.
`Reads` is the reference, from the document alone: each visible word once, in order,
on a line of its own after a block or a break, apart from its neighbour where white
space or a cell is between them. It takes the kinds of elements from the code: what is a
block is what `textifyBlockTags` lists. Elements that a browser shows as blocks and the
table does not list (`dt`, `dd`, `form`) run on, and the newlines of a `pre` collapse like
other white space; the properties say nothing against either. A language header is a sequence of entries with
weights in tenths; `Preferred` is the reference.

### WebPages

One user with one tab: `page` is the page shown, `Links` are the links on it, and a
step follows one of them (or types a page number, or changes the language) and is
the whole handler. Between two steps others deliver, read and delete messages, as
`Mailbox` allows; `Maildir` refines it. Three races inside one handler are kept as
choices: Open and Delete may miss a message that is moved to `cur/` just then
(`Missed`), and List may show a message that is being moved twice, or once
without headers and once with them (`Entries`). The order of equal dates is a choice
of every listing. `walk` is the history of a user who turns page after page.

### Process

The file may be edited at any time; a start reads, validates and normalises it, and
runs the two servers, which find their port free or not, and the certificate there
or not. Each sends what it returned to `errCh`; main takes an error and fails, or a
signal and stops. systemd starts a failed service again, not a stopped one
(`airmx.service`). Of an address only its parts in normal form matter, and whether
it is written that way; Validate's normal form and AcceptsRecipient's are both in
the model.

## 3. The runs

`tlc -workers 2 -config X.cfg MCModule`

| Run | Module | Result | Shows |
| --- | --- | --- | --- |
| `MaildirFaults` | `MCMaildir` | holds | what Deliver returned is true after any failure and restart |
| `MaildirReaders` | `MCMaildir` | holds | no reader sees an incomplete message if writes do not fail; locate and List miss nothing; refinement of `Mailbox` |
| `MaildirShortWrite` | `MCMaildir` | **violated** | a failed write is not noticed (`maildir.go:71`) |
| `CertReloader` | `CertReloader` | holds | which certificate a handshake presents, and that it gets one |
| `CertReloaderStale` | `CertReloader` | **violated** | a renewal during a reload goes unnoticed (`tls.go:81`) |
| `MailAuth` | `MCMailAuth` | holds | results against the reference definition of alignment |
| `Smtp` | `MCSmtp` | holds | what a 250, a 451 and a 55x are worth; every address that can be served is answered for good; refinement of `MailTransfer` |
| `Push` | `Push` | holds | answered requests keep their meaning, no call hangs |
| `PushToggle` | `MCPushToggle` | holds | a click that succeeds tells the truth, and goes on doing so |
| `WebSession` | `MCWebSession` | holds | who is shown a page, and for how long |
| `WebPages` | `MCWebPages` | holds | paging, links, attachments, the spam badge, the derived text, the language |
| `Process` | `MCProcess` | holds | which recipients a running server accepts; `errCh` has room for every error sent to it (`main.go:69`); it never runs by half, and comes back |

The violated ones state what a comment or the example configuration says;
`PROJECT.json` quotes it under "findings".

Where a property has a proviso, the code does something else without it, or something
that its comments contradict:

* `ProvenSpared`: all valid signatures are aligned. checkDKIM returns the first
  signature that verifies (`mailauth/auth.go:126`) and checkDMARC looks at no other,
  so that a message with an aligned signature behind an unaligned one fails DMARC,
  while `config.example.yaml:50` speaks of "neither SPF nor DKIM passed with an
  aligned domain".
* `UnprovenGetsDmarcFail`: no lookup of SPF or of a DKIM key failed. "DNS/parse errors
  must not penalize the sender", says `mailauth/auth.go:97`, and checkSPF returns
  StatusNone; but checkDMARC counts that like a check that did not pass
  (`auth.go:166`), so that an unsigned message from an aligned envelope sender gets
  `dmarc_fail` because of the failed lookup, a permanent refusal in
  `config.example.yaml:52`. A key that cannot be looked up is treated like an invalid
  signature (`auth.go:126`), with the same effect.
* `TextReads`: html.Parse accepts the body. Otherwise htmlToText returns the empty string
  (`textify.go:26`) and the page has the frame with the HTML body only.
* `StorableSettled`: no recipient has a slash in its name. Under a wildcard such an
  address is accepted at RCPT (`config.go:118`) and refused by Store.Deliver every
  time (`server.go:110`); the recipients before it in the envelope get another copy
  with each attempt.
* `LoginLasts`: the user name has no bar. `strings.Cut` (`web/auth.go:80`) takes the
  payload apart inside such a name, and a fresh login is not accepted.
* `LinksHold`: message.Read does not complain. handleView shows such a message with its
  attachments ("walk whatever we got", `web.go:220`), handleAttach answers 404
  (`web.go:438`). And a message that another request opens for the first time at the
  same moment may be "not found": Open does not look in `cur/` again.
* `WalkComplete`: equal dates, and a listing that meets a message twice, may push a
  message from the next page to the one already seen.
* `SpamShown`: a message that begins with a continuation line continues the injected
  X-Spam-Status, and a header that does not parse shows no badge
  (`web.go:382`, `maildir.go:125`).
* `Recovers`: the two listen addresses differ. Validate does not compare them.
* `ButtonTruth`: the history that `told` keeps. A request that was given up may reach
  the server after a later one of the same tab.

Bounds, and why they do:

* *Maildir*: the interesting cases need one message that moves, and another actor
  between two of its steps. `MaildirReaders` has one message, two recipients (so that
  locate and List go on to the next), two requests and a listing, and lets the renames
  and removals fail. `MaildirFaults` has two messages, one of them malformed, with one
  recipient and one request, and all nine failures. The theorems remove the bounds.
* *CertReloader*: two handshakes and a renewal, enough for a reload that overtakes
  another while the files change under both.
* *MailAuth*: one organizational domain in two spellings and with a subdomain, two
  public suffixes, at most two signatures: one that decides and one next to it.
  The two policies give each failing check an action that differs from the default.
* *Smtp*: two connections (an abandoned session and the retry), one trouble, and a
  message of each kind: an envelope of three addresses, two of which are the same
  account, that takes two transactions with MaxRecipients 2; a name with a slash; a
  message that is too large; an address that is refused. Deadlock is not checked:
  clients that are done stop.
* *Push*: two endpoints, two handlers, one notification at a time with a sender per
  endpoint; the state is finite without a bound.
* *WebSession*: days instead of seconds, sessions of two days, four days in all; a
  name with a bar and one without.
* *PushToggle*: two endpoints (a subscription and its successor), two tabs, two
  handlers (a request given up and the next one), one notification at a time, all
  failures of `Push`.
* *WebPages*: pages of two entries and four messages, two with the same date, so that
  there is a page between the first and the last; headers of at most two lines from the
  sender, behind two injected ones, with three lines read, so that the cut falls into
  them; every sequence of at most three parts of nine kinds; every well-formed document
  of at most five tokens; language headers of at most two entries. The four kinds of
  variety are independent of each other in the code, and each is combined with a
  plain choice of the others.
* *Process*: a correct configuration and ten variations, one for each check of
  Validate, and four things that can be out of order outside. `errCh` holds two errors;
  the model needs no bound.

Fairness. `CertReloader`: a goroutine that has begun a handshake goes on, and waiters
for the RWMutex get it (Go's locks do not starve waiters): strong fairness of
each goroutine. A handshake need not begin. `Smtp`: weak fairness of each
connection, since the code has no step that waits for another session, and strong
fairness of MAIL for each message: clients are independent of each other, and each
has to retry after 451 or a lost connection. `Push`: strong fairness of each
goroutine, which needs the mutex; a send ends by notifyTimeout; neither requests nor
notifications have to begin. `Process`: weak fairness of systemd's restart, of the
select for an error, and of each server's start; nobody has to edit, repair, stop or
start anything.
Nothing is assumed about crashes, failures, or the certificate tool.

Symmetry is used in `MaildirReaders` and in `PushToggle`, whose properties are all
safety.

## 4. The proofs

`tlapm M.tla`

`MaildirProofs`, for every number of messages, recipients and goroutines, and every
set of failing calls:

* `TypeCorrect`, `DeliverOutcomeCorrect`, `LocateCorrect`, `ListCorrect`, and
  `StoredCorrect` (under the assumption that "write" is not among the failures);
* `Refinement`: `Spec => RefinesMailbox`.

All rest on one inductive invariant, `IInv` in `MaildirProofs`: a message is in one
directory (`OnePlace`), a deleted one is gone (`NotBoth`), a name in the hands of a
Deliver or unused is nowhere else (`FreshNames`). For locate, `Seeking` says that a
message that has been there all along is either with a recipient still to be looked
at, or with the present one and in `cur/`: it can leave the directory just visited
only towards the one to be visited next, because `new/` comes first. `Showing` says
the same of a listing, entry by entry: an entry whose file has moved before it is
opened, and is therefore listed without headers, will be met again in `cur/`.

`CertReloaderProofs`, for every number of handshakes and renewals: `TypeCorrect`,
`FreshWhenQuietCorrect`, `ReloadServesDiskCorrect`. The invariant says who holds the
lock and that the cache then holds what he loaded (`LockHeld`), that nobody loads
an older certificate unless the files were replaced under him (`Current`), that
recorded modification times are never reused (`Mods`), and that equal modification
times imply an equal certificate unless the files last changed during a reload
(`Coherent`).

`PushProofs`, for every number of endpoints, handlers, notifications and tabs:

* `AnswersHoldCorrect`. `IInv`: who is between the change of the map and the
  rename holds the mutex, and nobody else does (`LockHeld`); only requests subscribe,
  and a goroutine of Notify removes only an endpoint that is gone (`Purpose`); during a
  save the map is as the call made it, and the temporary file, once written, is a copy
  of it (`Saving`); no request is about an endpoint of which an answer says something
  (`Unasked`).
* `ButtonTruthCorrect`. `ToggleInv` adds that a busy tab has a handler of its own
  (`OwnHandler`), that a tab whose click may tell something is alone (`Undisturbed`),
  and what is true of a click on its way (`UnderWay`) and after it (`Settled`).

`WebSessionProofs`, for all users, passwords and times: `PageIsEntitledCorrect` and
`LoginLastsCorrect`. The invariant: every cookie anywhere was sealed by a login with
the password of its key (`Issued`, `JarIssued`), and while the history says that a
login lasts, the browser has the very cookie that it issued (`LoginKept`). What `strings.Cut`
does to a payload is a lemma on sequences.

`MailAuthProofs`, for all domains, policies and numbers of signatures:
`UnprovenGetsDmarcFailCorrect` and `ProvenSparedCorrect`. The invariant `Computed`
says which results are there after each check. The signature that checkDKIM returns
is the least valid one, which exists because the natural numbers are well-founded.

`SmtpProofs`, for every number of connections, messages, addresses and troubles:
`AckedIsStoredCorrect`, `StoredIsWantedCorrect`, `NotifiedIsCompleteCorrect`,
`ExactlyOnceCorrect`. The invariant follows one transaction: a session whose client
has gone leaves its message in doubt (`Session`); its recipients are the accounts of
addresses that the allowlist accepts and the client has not settled, each account
once unless two addresses lead to it (`Envelope`, `Unique`); what the loop has not
stored it is still going to (`Loop`). And it relates transactions: a client hands a
message over on one connection at a time (`Sole`), an address is settled in one way
(`Accounting`), and a copy of a message in no doubt is there because the client knows
of it or is about to be told (`Explained`, `Served`).

The same invariant carries `Refinement`, `Spec => RefinesTransfer`: one iteration of the
loop that stores is a `Store`, a refused RCPT and the answers 552 and 554 are a `Refuse`,
250 is a `Serve`, and every other step, a crash of the process among them, is a `Fail`
or changes nothing that a client or a mailbox shows. That the guards of `Store` and
`Refuse` hold is where `Explained` is needed: without it a retry after 250 could store
again.

`ProcessProofs`, for all configuration files and addresses:
`AcceptsAsWrittenCorrect`, from the fact that the configuration at work is the result
of LoadConfig and Validate on the file (`Configured`), and `ErrorsFitCorrect`, from the
count of servers that have returned (`Counted`).

`WebPagesProofs`, for every number of messages, page size, header, part list,
HTML body and Accept-Language header:

* `NegotiationCorrect`: negotiateLang returns the language that `Preferred` defines;
  `LanguageShownCorrect`: every page is in the language that was chosen or negotiated
  (`LanguageInv`).
* `WalkCompleteCorrect`. `IInv` says what a page was made from (`Stored`,
  `Current`, `Redirected`, `Answered`), and of a walk that a message not yet seen has at
  least `at * PageSize` newer ones before it (`Underway`): a delivery can only add to
  them, a removal begins the history anew, and so the message is on a page still to
  come. It needs that sorting and cutting into pages lose nothing: `SortedArranged`
  (every result of the sort is a permutation, newest first), `ClampedFits`, `ShownFits`.
* `AttachAsListedCorrect`: both walks count the same parts up to the one they stop at
  (`InOrderRank`, `ServedAsListed`).
* `SpamShownCorrect`: the cut after `PeekLines` lines does not change the verdict that
  the header gives (`PrefixVerdict`, `PeekedPrefix`, `EntriesTell`).
* `HtmlToTextReads`, and from it `TextReadsCorrect`: for every document that html.Parse
  returns, htmlToText puts
  each visible word once into the text, a hidden one nowhere, and lines and fields end
  where the document says. The argument has three parts. The walk keeps, token by token,
  the elements around it (`Stack`), so that what it writes for a token is what the
  reference makes of it (`StackReads`, `EmitReads`, `WalkEmits`). The output is the
  concatenation of what is written for each token (`PieceByPiece`); hence every visible
  word has one position in it, with a newline between two words exactly where
  `Broken` holds, and a blank exactly where `Spaced` does on the same line (`Marks`,
  `WrittenMarks`): the "- " of an item puts a blank too, but always behind a newline.
  And cutting keeps every character that is no separator, in order, with a separator
  between two pieces and none inside (`PiecesCut`, `FieldsCut`, `Normalized`), so that
  the place of a word follows from its position (`SpotOrder`, `MarksRead`).
* `LinksHoldCorrect`, an action property: a followed link is answered with "not found"
  only where `Excused` says so of the message that the link is about, which is on the
  page and has therefore arrived (`NotFoundStep`, `MissedExcused`).

The induction theorems of the library have an operator as parameter, which the
provers cannot instantiate. Where a loop of the code is a fold or a recursive function
(negotiateLang, the sort of the list, the walk of htmlToText), `SetInduction` and
`LeastNat` of `WebPagesProofs` take its place: they speak of a set of natural numbers and follow from the existence of a least element
(`WFMin`), and the property proved by induction is given as such a set.

Assumptions on constants are the named `ASSUME`s of the modules. Most say that None
and the other placeholders are not elements of the sets they are added to, that bounds
are natural numbers, and that constants have their types. The others:

* `LowerAssumption`: the lower-case form of a lower-case domain is that domain
  (`strings.ToLower` on domain names).
* `UsernamesAssumption`: a user name is a non-empty sequence of the parts between bars,
  as every string is.
* `PeekAssumption`: List reads at least two lines. The two header fields that the server
  writes itself are shorter than headerPeekBytes, 64 KiB; a domain in a From field
  longer than that is not covered.
* `TypedPagesAssumption`: what `strconv.Atoi` returns is an integer.
* `SitesAssumption`: a mailbox holds finitely many messages; every element of a document
  ends, as in a tree, and its words are told apart.
* `AccountAssumption`: an address belongs to one account, the one that AcceptsRecipient's
  normal form names.

Only model-checked:

* the liveness properties (`HandshakeAnswered`, `StorableSettled`, `CallsReturn`,
  `OneFailsAllExit`, `Recovers`), which rest on fairness and are beyond the prover.

## 5. Not modelled

* Presentation: dates, sizes, avatars, icons, the catalogues, the templates but for
  their links, `withBaseTargetBlank`, security and cache headers.
* Text that nothing reads back: Authentication-Results, the body of a notification,
  log lines, the decoding of subjects and senders.
* `sw.js`, which shows what it is sent and keeps no state, and `modal.js`, a dialog
  whose promise is resolved once.
* The commands hashpw and genpushkey, which print.
* The HTML parser and the MIME library: `Textify` begins with the tree, `MailContent`
  with the sequence of parts.
* A power failure. The models restart after a kill of the process, when the file
  system keeps what it was told; neither Deliver nor saveLocked syncs a directory,
  and saveLocked does not sync the file.
* Errors that the code lets happen and no property is about: the lookups that fail (see
  the proviso of `UnprovenGetsDmarcFail` in section 3); List answers an error when the
  data directory cannot be read.
* Idle connections: go-smtp is given no timeouts.
* Build files, styles, workflows.

## 6. Plan

Order of work: the store first (everything else rests on it), then the certificate
cache (the only shared memory with a lock that is given up in between), then the
SMTP path, then push, then the web, then the process around them.

Done: all modules of section 2, and the proofs of section 4: every safety property and
every refinement that a passing run checks is a theorem.

Next: a composition of `Smtp` with the steps of `Maildir` below one `Deliver`, whose two
refinements are proved apart so far.
