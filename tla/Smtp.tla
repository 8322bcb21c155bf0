-------------------------------- MODULE Smtp --------------------------------
(***************************************************************************)
(* The SMTP receiver of internal/smtpserver/server.go, with the clients    *)
(* that hand it messages.  The server runs one goroutine per connection;   *)
(* a session collects the envelope, and Data stores the message for one    *)
(* recipient after the other before it answers.                            *)
(*                                                                         *)
(* A command and its answer are one step, except for DATA: while Data runs *)
(* the client may give up waiting (and try again on another connection,    *)
(* while the old session goes on), the disk may fail, and the process may  *)
(* be killed.  There are at most MaxTroubles such events.                  *)
(*                                                                         *)
(* Store.Deliver is atomic here, which is what Maildir shows of it, and    *)
(* the outcome of mailauth.Check and Policy.Decide, which MailAuth models, *)
(* may be different every time that a message is tried.                    *)
(***************************************************************************)
EXTENDS Naturals, Sequences

CONSTANTS
  Conns,          \* connections, and the goroutines that serve them
  Msgs,           \* messages that clients have to deliver
  Addrs,          \* addresses, as clients write them
  Accounts,       \* addresses in lower case
  Account,        \* Account[a]: the lower-case form of a
  Wanted,         \* Wanted[m]: the addresses that message m is for
  Domain,         \* Domain[b]: the domain of account b
  Exact,          \* Config.Recipients: the accounts listed
  Wildcards,      \* Config.Recipients: the domains listed as "*@domain"
  Slashed,        \* the accounts with a slash or backslash in their name
  TooLarge,       \* the messages longer than MaxMessageBytes
  MaxRecipients,  \* smtp.Server.MaxRecipients
  MaxTroubles,    \* bound: failures, lost connections and restarts
  None            \* no message

ASSUME AccountAssumption ==
  /\ Account \in [Addrs -> Accounts]
  /\ Wanted \in [Msgs -> SUBSET Addrs]
  /\ Exact \subseteq Accounts /\ Slashed \subseteq Accounts
  /\ None \notin Msgs
ASSUME BoundsAssumption == MaxRecipients \in Nat \ {0} /\ MaxTroubles \in Nat

VARIABLES
  conn,           \* conn[c]: the connection and its session
  left,           \* left[m]: the addresses whose fate the client does not know
  acked,          \* acked[m]: the addresses that the client was told are served
  refused,        \* refused[m]: the addresses that were refused for good
  stored,         \* stored[m]: the accounts whose maildir holds a copy of m
  twice,          \* history: twice[m]: those that were given more than one
  notices,        \* history: the calls of OnDeliver, with the message and the
                  \* recipients of the session
  troubled,       \* history: the messages that an earlier attempt left in doubt
  troubles        \* the number of troubles so far

mailboxes == <<stored, twice>>
client    == <<left, acked, refused>>
vars      == <<conn, client, mailboxes, notices, troubled, troubles>>

-----------------------------------------------------------------------------
Steps   == {"closed", "command", "deliver", "reply"}
Replies == {0, 250, 451, 552, 554}

\* alive: the client is still there.  msg: the message under way, which stands
\* for its envelope sender (session.mailFrom) too.  rcpts: session.rcpts.
\* named: the addresses accepted in this transaction, as the client knows them.
\* todo: the recipients that the loop of Data has yet to serve.
Conn == [step : Steps, alive : BOOLEAN, msg : Msgs \cup {None}, rcpts : Seq(Accounts),
         named : SUBSET Addrs, todo : Seq(Accounts), code : Replies]

Closed == [step |-> "closed", alive |-> FALSE, msg |-> None, rcpts |-> << >>,
           named |-> {}, todo |-> << >>, code |-> 0]

Attempted(m) == \E c \in Conns : conn[c].alive /\ conn[c].msg = m
Waiting(m)   == left[m] # {} /\ ~Attempted(m)

Set(c, k) == conn' = [conn EXCEPT ![c] = k]

AtCommand(c) == conn[c].step = "command"

\* Config.AcceptsRecipient.
AcceptsRecipient(a) == Account[a] \in Exact \/ Domain[Account[a]] \in Wildcards

\* What a trouble leaves behind.
Trouble(ms) == /\ troubles < MaxTroubles
               /\ troubles' = troubles + 1
               /\ troubled' = troubled \cup (ms \cap Msgs)

-----------------------------------------------------------------------------
(* The commands.                                                           *)

NewSession(c) ==
  /\ conn[c].step = "closed"
  /\ \E m \in Msgs : Waiting(m)
  /\ Set(c, [Closed EXCEPT !.step = "command", !.alive = TRUE])
  /\ UNCHANGED <<client, mailboxes, notices, troubled, troubles>>

Mail(c, m) ==
  /\ AtCommand(c)
  /\ conn[c].msg = None
  /\ Waiting(m)
  /\ Set(c, [conn[c] EXCEPT !.msg = m])
  /\ UNCHANGED <<client, mailboxes, notices, troubled, troubles>>

\* An address that is not on the allowlist is answered with 550.
Rcpt(c, a) ==
  LET k == conn[c] IN
  /\ AtCommand(c)
  /\ k.msg # None
  /\ a \in left[k.msg] \ k.named
  /\ Len(k.rcpts) < MaxRecipients
  /\ \/ /\ AcceptsRecipient(a)
        /\ Set(c, [k EXCEPT !.rcpts = Append(@, Account[a]), !.named = @ \cup {a}])
        /\ UNCHANGED client
     \/ /\ ~AcceptsRecipient(a)
        /\ left' = [left EXCEPT ![k.msg] = @ \ {a}]
        /\ refused' = [refused EXCEPT ![k.msg] = @ \cup {a}]
        /\ UNCHANGED <<conn, acked>>
  /\ UNCHANGED <<mailboxes, notices, troubled, troubles>>

\* The client has named every recipient that fits.
Named(c) == \/ left[conn[c].msg] \subseteq conn[c].named
            \/ Len(conn[c].rcpts) = MaxRecipients

\* Mutant: the recipients of the session are kept.
ResetKeepingRcpts(k) == [k EXCEPT !.msg = None, !.named = {}]

\* session.Reset, and the client's view of it.
Reset(k) == [k EXCEPT !.msg = None, !.rcpts = << >>, !.named = {}]

\* Every recipient was refused: RSET.
Rset(c) ==
  /\ AtCommand(c)
  /\ conn[c].msg # None
  /\ conn[c].named = {} /\ Named(c)
  /\ Set(c, Reset(conn[c]))
  /\ UNCHANGED <<client, mailboxes, notices, troubled, troubles>>

Logout(c) ==
  /\ AtCommand(c)
  /\ conn[c].msg = None
  /\ \A m \in Msgs : ~Waiting(m)
  /\ Set(c, Closed)
  /\ UNCHANGED <<client, mailboxes, notices, troubled, troubles>>

-----------------------------------------------------------------------------
(* Data.                                                                   *)

Answer(k, n) == [k EXCEPT !.step = "reply", !.code = n, !.todo = << >>]

\* Mutant: the verdict is looked at after the message has been stored.
DataLate(c) ==
  LET k == conn[c] IN
  /\ AtCommand(c)
  /\ k.msg # None /\ k.named # {} /\ Named(c)
  /\ \/ k.msg \in TooLarge /\ Set(c, Answer(k, 552)) /\ UNCHANGED mailboxes
     \/ /\ k.msg \notin TooLarge
        /\ Set(c, Answer(k, 554))
        /\ stored' = [stored EXCEPT ![k.msg] = @ \cup {k.rcpts[1]}]
        /\ UNCHANGED twice
     \/ /\ k.msg \notin TooLarge
        /\ Set(c, [k EXCEPT !.step = "deliver", !.todo = k.rcpts])
        /\ UNCHANGED mailboxes
  /\ UNCHANGED <<client, notices, troubled, troubles>>

\* Mutant: a message that is too large is answered like an internal error.
DataLargeRetried(c) ==
  LET k == conn[c] IN
  /\ AtCommand(c)
  /\ k.msg # None /\ k.named # {} /\ Named(c)
  /\ \/ k.msg \in TooLarge /\ Set(c, Answer(k, 451))
     \/ k.msg \notin TooLarge /\ Set(c, Answer(k, 554))
     \/ k.msg \notin TooLarge /\ Set(c, [k EXCEPT !.step = "deliver", !.todo = k.rcpts])
  /\ UNCHANGED <<client, mailboxes, notices, troubled, troubles>>

\* The message is read in full, checked, and rejected or taken.
Data(c) ==
  LET k == conn[c] IN
  /\ AtCommand(c)
  /\ k.msg # None /\ k.named # {} /\ Named(c)
  /\ \/ k.msg \in TooLarge /\ Set(c, Answer(k, 552))
     \/ k.msg \notin TooLarge /\ Set(c, Answer(k, 554))
     \/ k.msg \notin TooLarge /\ Set(c, [k EXCEPT !.step = "deliver", !.todo = k.rcpts])
  /\ UNCHANGED <<client, mailboxes, notices, troubled, troubles>>

\* Mutant: the error is logged, and Data returns nil.
DeliverFailedSwallowed(c) ==
  /\ conn[c].step = "deliver"
  /\ conn[c].todo # << >>
  /\ \/ /\ Head(conn[c].todo) \in Slashed
        /\ troubled' = troubled \cup {conn[c].msg}
        /\ UNCHANGED troubles
     \/ Trouble({conn[c].msg})
  /\ Set(c, Answer(conn[c], 250))
  /\ UNCHANGED <<client, mailboxes, notices>>

\* Mutant: the copies for the recipients of the session are taken back.
DeliverFailedUndone(c) ==
  LET k == conn[c] IN
  /\ k.step = "deliver" /\ k.todo # << >>
  /\ Trouble({k.msg})
  /\ stored' = [stored EXCEPT ![k.msg] = @ \ {k.rcpts[i] : i \in DOMAIN k.rcpts}]
  /\ Set(c, Answer(k, 451))
  /\ UNCHANGED <<client, twice, notices>>

\* Store.Deliver fails: it refuses the name, or the disk is to blame.
DeliverFailed(c) ==
  /\ conn[c].step = "deliver"
  /\ conn[c].todo # << >>
  /\ \/ /\ Head(conn[c].todo) \in Slashed
        /\ troubled' = troubled \cup {conn[c].msg}
        /\ UNCHANGED troubles
     \/ Trouble({conn[c].msg})
  /\ Set(c, Answer(conn[c], 451))
  /\ UNCHANGED <<client, mailboxes, notices>>

\* Store.Deliver succeeds for the next recipient.
Deliver(c) ==
  LET m == conn[c].msg
      b == Head(conn[c].todo)
  IN
  /\ conn[c].step = "deliver"
  /\ conn[c].todo # << >>
  /\ b \notin Slashed
  /\ stored' = [stored EXCEPT ![m] = @ \cup {b}]
  /\ twice' = [twice EXCEPT ![m] = IF b \in stored[m] THEN @ \cup {b} ELSE @]
  /\ Set(c, [conn[c] EXCEPT !.todo = Tail(@)])
  /\ UNCHANGED <<client, notices, troubled, troubles>>

\* Mutant: OnDeliver is called as soon as one recipient is served.
OnDeliverEarly(c) ==
  /\ conn[c].step = "deliver"
  /\ Len(conn[c].todo) < Len(conn[c].rcpts)
  /\ notices' = notices \cup {<<conn[c].msg, {conn[c].rcpts[i] : i \in DOMAIN conn[c].rcpts}>>}
  /\ Set(c, Answer(conn[c], 250))
  /\ UNCHANGED <<client, mailboxes, troubled, troubles>>

\* The loop is over: OnDeliver is called, and the answer is 250.
OnDeliver(c) ==
  /\ conn[c].step = "deliver"
  /\ conn[c].todo = << >>
  /\ notices' = notices \cup {<<conn[c].msg, {conn[c].rcpts[i] : i \in DOMAIN conn[c].rcpts}>>}
  /\ Set(c, Answer(conn[c], 250))
  /\ UNCHANGED <<client, mailboxes, troubled, troubles>>

\* The server writes the answer and resets the session.  The client, if it still
\* waits, takes 250 for a success, 451 for a reason to try again, the others for a
\* refusal.
Reply(c) ==
  LET k == conn[c] IN
  /\ k.step = "reply"
  /\ \/ /\ ~k.alive
        /\ Set(c, Closed)
        /\ UNCHANGED client
     \/ /\ k.alive
        /\ Set(c, [Reset(k) EXCEPT !.step = "command", !.code = 0])
        /\ left' = [left EXCEPT ![k.msg] = IF k.code = 451 THEN @ ELSE @ \ k.named]
        /\ acked' = [acked EXCEPT ![k.msg] = IF k.code = 250 THEN @ \cup k.named ELSE @]
        /\ refused' = [refused EXCEPT ![k.msg] =
                         IF k.code \in {552, 554} THEN @ \cup k.named ELSE @]
  /\ UNCHANGED <<mailboxes, notices, troubled, troubles>>

-----------------------------------------------------------------------------
(* What may go wrong around the session.                                   *)

\* The client gives up, or the connection breaks.  A session that waits for a
\* command ends; one that is inside Data only finds out when it answers.
GiveUp(c) ==
  /\ conn[c].alive
  /\ Trouble(IF AtCommand(c) THEN {} ELSE {conn[c].msg})
  /\ Set(c, IF AtCommand(c) THEN Closed ELSE [conn[c] EXCEPT !.alive = FALSE])
  /\ UNCHANGED <<client, mailboxes, notices>>

\* The process is killed and started again.
Crash ==
  /\ \E c \in Conns : conn[c].step # "closed"
  /\ Trouble({conn[c].msg : c \in {d \in Conns : ~AtCommand(d)}})
  /\ conn' = [c \in Conns |-> Closed]
  /\ UNCHANGED <<client, mailboxes, notices>>

-----------------------------------------------------------------------------
Init ==
  /\ conn = [c \in Conns |-> Closed]
  /\ left = Wanted
  /\ acked = [m \in Msgs |-> {}]
  /\ refused = [m \in Msgs |-> {}]
  /\ stored = [m \in Msgs |-> {}]
  /\ twice = [m \in Msgs |-> {}]
  /\ notices = {}
  /\ troubled = {}
  /\ troubles = 0

Command(c) == \/ NewSession(c) \/ Rset(c) \/ Logout(c) \/ Data(c)
              \/ \E m \in Msgs : Mail(c, m)
              \/ \E a \in Addrs : Rcpt(c, a)
Serve(c)   == DeliverFailed(c) \/ Deliver(c) \/ OnDeliver(c) \/ Reply(c)

Next == \/ \E c \in Conns : Command(c) \/ Serve(c) \/ GiveUp(c)
        \/ Crash

\* The goroutine of a connection runs, and the client of every message keeps
\* trying: it gets a connection in the end.
Fairness == /\ \A c \in Conns : WF_vars(Command(c) \/ Serve(c))
            /\ \A m \in Msgs : SF_vars(\E c \in Conns : Mail(c, m))

Spec == Init /\ [][Next]_vars /\ Fairness

-----------------------------------------------------------------------------
(* Properties.                                                             *)

\* The types of the variables.
TypeOK ==
  /\ conn \in [Conns -> Conn]
  /\ left \in [Msgs -> SUBSET Addrs]
  /\ acked \in [Msgs -> SUBSET Addrs]
  /\ refused \in [Msgs -> SUBSET Addrs]
  /\ stored \in [Msgs -> SUBSET Accounts]
  /\ twice \in [Msgs -> SUBSET Accounts]
  /\ notices \subseteq Msgs \X SUBSET Accounts
  /\ troubled \subseteq Msgs
  /\ troubles \in 0 .. MaxTroubles

\* Once a client has its 250 the message is in the maildir of each recipient that
\* it named, whatever failed, on whichever connection, before.
AckedIsStored ==
  \A m \in Msgs : \A a \in acked[m] : Account[a] \in stored[m]

\* A message is only ever stored for the recipients of its own envelope, and only
\* for those on the allowlist; what an earlier message of the same connection
\* left in the session does not count.
StoredIsWanted ==
  \A m \in Msgs : \A b \in stored[m] :
    \E a \in Wanted[m] : Account[a] = b /\ AcceptsRecipient(a)

\* A message that no attempt has left in doubt (no 451, no lost answer, no restart)
\* is stored once for an address, and not at all for one that was refused, unless
\* the envelope spells one account in two ways.
ExactlyOnce ==
  \A m \in Msgs \ troubled : \A a \in Wanted[m] :
    (\A b \in Wanted[m] \ {a} : Account[b] # Account[a]) =>
      /\ Account[a] \notin twice[m]
      /\ a \in refused[m] => Account[a] \notin stored[m]

\* "called once after a message has been delivered to all its recipients".
NotifiedIsComplete ==
  \A n \in notices : n[2] \subseteq stored[n[1]]

\* What a client sees of the server, and finds in the mailboxes.
Transfer == INSTANCE MailTransfer WITH
              open <- left, served <- acked, held <- stored, doubt <- troubled,
              Accepted <- {a \in Addrs : AcceptsRecipient(a)}

\* The sessions, with their retries, failures and restarts, keep to the contract of
\* MailTransfer at every step: an answer settles open addresses only, 250 when the
\* copies are there and 55x when there are none, and no answer is taken back; a copy
\* is stored for an open address, and once, unless an attempt went wrong before.
RefinesTransfer == Transfer!Spec

\* Every account of message m is one that Store.Deliver can have a maildir for.
Storable(m) == \A a \in Wanted[m] : Account[a] \notin Slashed

\* When the troubles are over every address of a message is answered for good, for
\* all that other messages are refused and tried again, provided that Store.Deliver
\* can take the names of its recipients.
StorableSettled == \A m \in Msgs : Storable(m) => <>[](left[m] = {})
=============================================================================
