---------------------------- MODULE MailContent ----------------------------
(***************************************************************************)
(* What the program reads out of a message, as pure operators: the verdict *)
(* that the SMTP receiver writes into the header (server.go) and that the  *)
(* store (maildir.go) and the page (web.go) read back, and the parts that  *)
(* the page shows and numbers.                                             *)
(***************************************************************************)
EXTENDS Naturals, FiniteSets, FiniteSetsExt, Sequences, SequencesExt, Orders

CONSTANT PeekLines      \* headerPeekBytes, counted in lines

\* The headers that the server writes itself are shorter than headerPeekBytes.
ASSUME PeekAssumption == PeekLines \in Nat /\ PeekLines >= 2

-----------------------------------------------------------------------------
(* The header: a line is an X-Spam-Status field, a Date field, another     *)
(* field, the continuation of the line before it, or has no colon; spam    *)
(* says that it contains "action=spam".                                    *)

Line == [field : {"status", "date", "other", "fold", "junk"}, spam : BOOLEAN]

Other == [field |-> "other", spam |-> FALSE]

\* SpamStatusHeader, of which only the action is read back.
SpamStatusHeader(action) == [field |-> "status", spam |-> action = "spam"]

\* Mutant: the headers are put behind those of the message.
injectHeadersBehind(action, head) == head \o <<Other, SpamStatusHeader(action)>>

\* Authentication-Results, X-Spam-Status, then the message as it came.
injectHeaders(action, head) == <<Other, SpamStatusHeader(action)>> \o head

\* mail.ReadMessage gives up at a line without a colon.
Parses(head) == \A k \in DOMAIN head : head[k].field # "junk"

Has(head, field) == Parses(head) /\ \E k \in DOMAIN head : head[k].field = field

\* Field k of the header with the lines that continue it.
Folded(head, k) ==
  {j \in k .. Len(head) : \A m \in k + 1 .. j : head[m].field = "fold"}

\* Whether the first X-Spam-Status, the one that Get returns, says spam.
SaysSpam(head) ==
  /\ Has(head, "status")
  /\ LET first == Min({k \in DOMAIN head : head[k].field = "status"})
     IN  \E k \in Folded(head, first) : head[k].spam

\* What List reads of a header: its first PeekLines lines, the last of which is
\* cut in the name of the field or behind it.
Peeked(head, torn) ==
  IF Len(head) <= PeekLines THEN head
  ELSE SubSeq(head, 1, PeekLines)
         \o IF torn THEN <<[field |-> "junk", spam |-> FALSE]>> ELSE << >>

-----------------------------------------------------------------------------
(* The parts, in the order of Entity.Walk.  A part has a type; it is an    *)
(* attachment or not, by disposition or file name; it can be decoded or    *)
(* its charset or encoding is unknown; its body is empty, or is not.       *)

Part == [type : {"multipart", "plain", "html", "data"}, attach : BOOLEAN,
         known : BOOLEAN, empty : BOOLEAN]

\* The parts that the callback of walkMessage works on.  Each attachment is read
\* to the end; behind a multipart that was, Walk finds no further part.
Walked(parts) ==
  {k \in DOMAIN parts :
     /\ parts[k].known
     /\ \A j \in 1 .. k - 1 :
          ~(parts[j].known /\ parts[j].attach /\ parts[j].type = "multipart")}

First(S) == IF S = {} THEN 0 ELSE Min(S)

\* The first inline part of a type that is not empty, or 0.
Body(parts, type) ==
  First({k \in Walked(parts) :
           ~parts[k].attach /\ parts[k].type = type /\ ~parts[k].empty})

\* Mutant: a part without content gets no number.
AttachedFull(parts) ==
  InOrder({k \in Walked(parts) : parts[k].attach /\ ~parts[k].empty})

\* The attachments that walkMessage lists; their numbers count from 0.
Attached(parts) == InOrder({k \in Walked(parts) : parts[k].attach})

walkMessage(parts) ==
  [text |-> Body(parts, "plain"), html |-> Body(parts, "html"), attach |-> Attached(parts)]

\* Mutant: numbers count from 1.
ServedFromOne(parts, complains, want) ==
  IF complains THEN 0
  ELSE First({k \in DOMAIN parts :
                /\ parts[k].known /\ parts[k].attach
                /\ Cardinality({j \in 1 .. k : parts[j].known /\ parts[j].attach}) = want})

\* handleAttach: the part with number want, or 0.  Parts are counted up to it, and
\* none of them is read before.
Served(parts, complains, want) ==
  IF complains THEN 0
  ELSE First({k \in DOMAIN parts :
                /\ parts[k].known /\ parts[k].attach
                /\ Cardinality({j \in 1 .. k - 1 : parts[j].known /\ parts[j].attach}) = want})
=============================================================================
