----------------------------- MODULE SmtpProofs -----------------------------
(***************************************************************************)
(* Proofs about the SMTP receiver: whatever the connections do, and however*)
(* often the disk, the client or the process fails, what a client is told  *)
(* is true, and a message reaches the recipients it is for and no others.  *)
(***************************************************************************)
EXTENDS Smtp, TLAPS

-----------------------------------------------------------------------------
(* The inductive invariant.                                                *)

\* Where a session stands: one that waits for a command has its client, one that
\* has a message under way may have lost it, which leaves the message in doubt.
Session(c) ==
  LET k == conn[c] IN
  /\ k.step = "closed" => k = Closed
  /\ k.step = "command" => k.alive
  /\ k.step \in {"deliver", "reply"} => k.msg # None
  /\ k.step = "reply" => k.code # 0
  /\ k.msg = None => k.named = {} /\ k.rcpts = << >>
  /\ ~k.alive /\ k.step # "closed" => k.msg \in troubled

\* At most one address of the envelope of m leads to account b.
Unique(m, b) == \A x, y \in Wanted[m] : Account[x] = b /\ Account[y] = b => x = y

\* The recipients of a session are the accounts of the addresses accepted, which
\* are addresses of its message that the client has not settled.
Envelope(c) ==
  LET k == conn[c] IN
  /\ \A a \in k.named : /\ a \in Wanted[k.msg] /\ AcceptsRecipient(a)
                        /\ \E i \in DOMAIN k.rcpts : k.rcpts[i] = Account[a]
  /\ \A i \in DOMAIN k.rcpts : \E a \in k.named : k.rcpts[i] = Account[a]
  /\ \A i, j \in DOMAIN k.rcpts : Unique(k.msg, k.rcpts[i]) /\ k.rcpts[i] = k.rcpts[j] => i = j
  /\ k.alive /\ k.msg # None => k.named \subseteq left[k.msg]

\* The loop of Data: what is not stored yet is still to be done, and nothing else.
Loop(c) ==
  LET k == conn[c] IN
  /\ k.step = "deliver" =>
       /\ \A i \in DOMAIN k.rcpts : \/ k.rcpts[i] \in stored[k.msg]
                                    \/ \E j \in DOMAIN k.todo : k.todo[j] = k.rcpts[i]
       /\ \A j \in DOMAIN k.todo : \E i \in DOMAIN k.rcpts : k.rcpts[i] = k.todo[j]
       /\ \A i, j \in DOMAIN k.todo : Unique(k.msg, k.todo[i]) /\ k.todo[i] = k.todo[j] => i = j
  /\ k.step = "reply" /\ k.code = 250 =>
       \A i \in DOMAIN k.rcpts : k.rcpts[i] \in stored[k.msg]

\* A client hands a message over on one connection at a time.
Sole == \A c, d \in Conns :
          conn[c].alive /\ conn[d].alive /\ conn[c].msg # None /\ conn[c].msg = conn[d].msg => c = d

\* An address is settled in one way, and then it is not left.
Accounting ==
  \A m \in Msgs : /\ left[m] \subseteq Wanted[m]
                  /\ left[m] \cap acked[m] = {}
                  /\ left[m] \cap refused[m] = {}
                  /\ acked[m] \cap refused[m] = {}

\* Session c has stored m for address a, and is going to answer 250.
Served(c, m, a) ==
  LET k == conn[c] IN
  /\ k.msg = m /\ a \in k.named
  /\ \/ k.step = "deliver" /\ \A j \in DOMAIN k.todo : k.todo[j] # Account[a]
     \/ k.step = "reply" /\ k.code = 250

\* A message in no doubt is stored for an address because a client knows, or will
\* know when the session that stored it answers.
Explained ==
  \A m \in Msgs \ troubled : \A a \in Wanted[m] : Unique(m, Account[a]) =>
    /\ Account[a] \notin twice[m]
    /\ Account[a] \in stored[m] => a \in acked[m] \/ \E c \in Conns : Served(c, m, a)

IInv ==
  /\ TypeOK
  /\ \A c \in Conns : Session(c) /\ Envelope(c) /\ Loop(c)
  /\ Sole /\ Accounting /\ Explained
  /\ AckedIsStored /\ StoredIsWanted /\ NotifiedIsComplete

-----------------------------------------------------------------------------
(* Frames: what a step of one connection leaves alone.                     *)

\* The fields of a connection.
LEMMA Fields ==
  ASSUME TypeOK, NEW c \in Conns
  PROVE  /\ conn[c] \in Conn
         /\ conn[c].step \in Steps /\ conn[c].alive \in BOOLEAN
         /\ conn[c].msg \in Msgs \cup {None} /\ conn[c].code \in Replies
         /\ conn[c].rcpts \in Seq(Accounts) /\ conn[c].todo \in Seq(Accounts)
         /\ conn[c].named \in SUBSET Addrs
BY DEF TypeOK, Conn

\* A connection that has nothing.
LEMMA ClosedTyped == Closed \in Conn
BY DEF Closed, Conn, Steps, Replies

\* What it has not.
LEMMA ClosedFields ==
  /\ Closed.step = "closed" /\ ~Closed.alive /\ Closed.msg = None /\ Closed.named = {}
  /\ Closed.rcpts = << >> /\ Closed.todo = << >> /\ DOMAIN Closed.rcpts = {}
BY DEF Closed

\* A session that is about to answer n.
LEMMA AnswerFields ==
  ASSUME NEW k \in Conn, NEW n \in Replies
  PROVE  /\ Answer(k, n) \in Conn
         /\ Answer(k, n).step = "reply" /\ Answer(k, n).code = n
         /\ Answer(k, n).alive = k.alive /\ Answer(k, n).msg = k.msg
         /\ Answer(k, n).named = k.named /\ Answer(k, n).rcpts = k.rcpts
<1>1. "reply" \in Steps /\ << >> \in Seq(Accounts)
  BY DEF Steps
<1>2. Answer(k, n) \in Conn
  BY <1>1 DEF Answer, Conn
<1> QED BY <1>2 DEF Answer, Conn

\* The step of connection c moves no other one, lets nothing that is stored get
\* lost, and settles addresses of its own message only.
Apart(c) ==
  /\ \A d \in Conns \ {c} : conn'[d] = conn[d]
  /\ troubled \subseteq troubled'
  /\ \A m \in Msgs : stored[m] \subseteq stored'[m]
  /\ \A m \in Msgs : left'[m] = left[m] \/ (conn[c].alive /\ conn[c].msg = m)

\* The other sessions stay as they are.
LEMMA Others ==
  ASSUME IInv, NEW c \in Conns, Apart(c), NEW d \in Conns \ {c}
  PROVE  Session(d)' /\ Envelope(d)' /\ Loop(d)'
<1> USE DEF IInv
<1>1. conn'[d] = conn[d] /\ Session(d) /\ Envelope(d) /\ Loop(d)
  BY DEF Apart
<1>2. conn[d].msg \in Msgs \cup {None}
  BY Fields
<1>3. Session(d)'
  BY <1>1 DEF Session, Apart
<1>4. conn[d].alive /\ conn[d].msg # None => left'[conn[d].msg] = left[conn[d].msg]
  BY <1>2 DEF Apart, Sole
<1>5. Envelope(d)'
  BY <1>1, <1>4 DEF Envelope, Unique, AcceptsRecipient
<1>6. conn[d].step \in {"deliver", "reply"} => conn[d].msg \in Msgs
  BY <1>1, <1>2 DEF Session
<1>7. Loop(d)'
  BY <1>1, <1>6 DEF Loop, Unique, Apart
<1> QED BY <1>3, <1>5, <1>7

\* A session keeps its envelope while Data runs.
LEMMA EnvelopeKept ==
  ASSUME NEW c \in Conns, Envelope(c), left' = left,
         conn'[c].msg = conn[c].msg, conn'[c].named = conn[c].named,
         conn'[c].rcpts = conn[c].rcpts, conn'[c].alive => conn[c].alive
  PROVE  Envelope(c)'
BY DEF Envelope, Unique, AcceptsRecipient

\* Connection c takes up a message only if no client is busy with it.
LEMMA SoleStep ==
  ASSUME Sole, NEW c \in Conns, \A d \in Conns \ {c} : conn'[d] = conn[d],
         conn'[c].alive /\ conn'[c].msg # None =>
           \/ conn[c].alive /\ conn[c].msg = conn'[c].msg
           \/ ~Attempted(conn'[c].msg)
  PROVE  Sole'
<1> SUFFICES ASSUME NEW d \in Conns, NEW e \in Conns, conn'[d].alive, conn'[e].alive,
                    conn'[d].msg # None, conn'[d].msg = conn'[e].msg
             PROVE  d = e
  BY DEF Sole
<1> QED BY DEF Sole, Attempted

\* A step of connection c that neither the client nor the mailboxes see.
LEMMA Quiet ==
  ASSUME IInv, NEW c \in Conns, NEW k \in Conn, conn' = [conn EXCEPT ![c] = k],
         UNCHANGED <<client, mailboxes, notices>>,
         troubled \subseteq troubled', troubled' \subseteq Msgs, troubles' \in 0 .. MaxTroubles,
         Session(c)', Envelope(c)', Loop(c)',
         k.alive /\ k.msg # None =>
           (conn[c].alive /\ conn[c].msg = k.msg) \/ ~Attempted(k.msg),
         \A m \in Msgs \ troubled' : \A a \in Wanted[m] : Served(c, m, a) => Served(c, m, a)'
  PROVE  IInv'
<1> USE DEF IInv
<1>1. conn'[c] = k /\ \A d \in Conns \ {c} : conn'[d] = conn[d]
  BY DEF TypeOK
<1>2. TypeOK'
  BY DEF TypeOK, client, mailboxes
<1>3. Apart(c)
  BY <1>1 DEF Apart, client, mailboxes
<1>4. \A d \in Conns : Session(d)' /\ Envelope(d)' /\ Loop(d)'
  BY <1>3, Others
<1>5. Sole'
  BY <1>1, SoleStep
<1>6. Accounting'
  BY DEF Accounting, client
<1>7. Explained'
  <2> SUFFICES ASSUME NEW m \in Msgs \ troubled', NEW a \in Wanted[m], Unique(m, Account[a])
               PROVE  /\ Account[a] \notin twice[m]
                      /\ Account[a] \in stored[m] =>
                           a \in acked[m] \/ \E d \in Conns : Served(d, m, a)'
    BY DEF Explained, Unique, client, mailboxes
  <2>1. /\ Account[a] \notin twice[m]
        /\ Account[a] \in stored[m] => a \in acked[m] \/ \E d \in Conns : Served(d, m, a)
    BY DEF Explained
  <2>2. ASSUME NEW d \in Conns, Served(d, m, a) PROVE Served(d, m, a)'
    BY <1>1, <2>2 DEF Served
  <2> QED BY <2>1, <2>2
<1>8. AckedIsStored' /\ StoredIsWanted' /\ NotifiedIsComplete'
  BY DEF AckedIsStored, StoredIsWanted, AcceptsRecipient, NotifiedIsComplete, client, mailboxes
<1> QED BY <1>2, <1>4, <1>5, <1>6, <1>7, <1>8

-----------------------------------------------------------------------------
(* The steps that neither the client nor the mailboxes see.                *)

\* Nobody is connected and nothing is stored.
LEMMA InitInv == Init => IInv
<1> SUFFICES ASSUME Init PROVE IInv
  OBVIOUS
<1>1. \A c \in Conns : conn[c] = Closed
  BY DEF Init
<1>2. TypeOK
  <2>1. 0 \in 0 .. MaxTroubles
    BY BoundsAssumption
  <2> QED BY <2>1, ClosedTyped, AccountAssumption DEF Init, TypeOK
<1>3. \A c \in Conns : Session(c) /\ Envelope(c) /\ Loop(c)
  BY <1>1, ClosedFields DEF Session, Envelope, Loop
<1>4. Sole
  BY <1>1, ClosedFields DEF Sole
<1>5. Accounting /\ Explained
  BY DEF Init, Accounting, Explained
<1>6. AckedIsStored /\ StoredIsWanted /\ NotifiedIsComplete
  BY DEF Init, AckedIsStored, StoredIsWanted, NotifiedIsComplete
<1> QED BY <1>2, <1>3, <1>4, <1>5, <1>6 DEF IInv

\* A session that is over, and has stored nothing, leaves nothing behind.
LEMMA CloseInv ==
  ASSUME IInv, NEW c \in Conns, AtCommand(c), conn' = [conn EXCEPT ![c] = Closed],
         UNCHANGED <<client, mailboxes, notices>>,
         troubled \subseteq troubled', troubled' \subseteq Msgs, troubles' \in 0 .. MaxTroubles
  PROVE  IInv'
<1>1. conn'[c] = Closed
  BY DEF IInv, TypeOK
<1>2. Session(c)' /\ Envelope(c)' /\ Loop(c)'
  BY <1>1 DEF Session, Envelope, Loop, Closed
<1>3. \A m, a : ~Served(c, m, a)
  BY DEF Served, AtCommand
<1>4. ~Closed.alive
  BY DEF Closed
<1> QED BY <1>2, <1>3, <1>4, ClosedTyped, Quiet

LEMMA NewSessionInv ==
  ASSUME IInv, NEW c \in Conns, NewSession(c)
  PROVE  IInv'
<1> DEFINE k == [Closed EXCEPT !.step = "command", !.alive = TRUE]
<1>1. /\ k \in Conn /\ k.step = "command" /\ k.alive /\ k.msg = None
      /\ k.named = {} /\ k.rcpts = << >>
  BY ClosedTyped, ClosedFields DEF Conn, Steps
<1>2. conn' = [conn EXCEPT ![c] = k] /\ UNCHANGED <<client, mailboxes, notices, troubled, troubles>>
  BY DEF NewSession, Set
<1> HIDE DEF k
<1>3. conn'[c] = k
  BY <1>2 DEF IInv, TypeOK
<1>4. Session(c)' /\ Envelope(c)' /\ Loop(c)'
  BY <1>1, <1>3 DEF Session, Envelope, Loop
<1>5. \A m, a : ~Served(c, m, a)
  BY DEF Served, NewSession
<1>6. troubled \subseteq Msgs /\ troubles \in 0 .. MaxTroubles
  BY DEF IInv, TypeOK
<1> QED BY <1>1, <1>2, <1>4, <1>5, <1>6, Quiet

LEMMA MailInv ==
  ASSUME IInv, NEW c \in Conns, NEW m \in Msgs, Mail(c, m)
  PROVE  IInv'
<1> DEFINE k == [conn[c] EXCEPT !.msg = m]
<1>0. conn[c] \in Conn /\ Session(c) /\ conn[c].step = "command" /\ conn[c].msg = None
  BY Fields DEF IInv, Mail, AtCommand
<1>1. /\ k \in Conn /\ k.step = "command" /\ k.alive /\ k.msg = m
      /\ k.named = {} /\ k.rcpts = << >>
  BY <1>0 DEF Conn, Session
<1>2. conn' = [conn EXCEPT ![c] = k] /\ UNCHANGED <<client, mailboxes, notices, troubled, troubles>>
  BY DEF Mail, Set
<1> HIDE DEF k
<1>3. conn'[c] = k
  BY <1>2 DEF IInv, TypeOK
<1>4. Session(c)' /\ Envelope(c)' /\ Loop(c)'
  BY <1>1, <1>3, AccountAssumption DEF Session, Envelope, Loop
<1>5. \A n, a : ~Served(c, n, a)
  BY <1>0 DEF Served
<1>6. troubled \subseteq Msgs /\ troubles \in 0 .. MaxTroubles
  BY DEF IInv, TypeOK
<1>7. ~Attempted(m)
  BY DEF Mail, Waiting
<1> QED BY <1>1, <1>2, <1>4, <1>5, <1>6, <1>7, Quiet

LEMMA RsetInv ==
  ASSUME IInv, NEW c \in Conns, Rset(c)
  PROVE  IInv'
<1> DEFINE k == Reset(conn[c])
<1>0. conn[c] \in Conn /\ Session(c) /\ conn[c].step = "command"
  BY Fields DEF IInv, Rset, AtCommand
<1>1. /\ k \in Conn /\ k.step = "command" /\ k.alive /\ k.msg = None
      /\ k.named = {} /\ k.rcpts = << >>
  <2>1. << >> \in Seq(Accounts) /\ conn[c].alive
    BY <1>0 DEF Session
  <2> QED BY <1>0, <2>1 DEF Conn, Reset
<1>2. conn' = [conn EXCEPT ![c] = k] /\ UNCHANGED <<client, mailboxes, notices, troubled, troubles>>
  BY DEF Rset, Set
<1> HIDE DEF k
<1>3. conn'[c] = k
  BY <1>2 DEF IInv, TypeOK
<1>4. Session(c)' /\ Envelope(c)' /\ Loop(c)'
  BY <1>1, <1>3 DEF Session, Envelope, Loop
<1>5. \A m, a : ~Served(c, m, a)
  BY <1>0 DEF Served
<1>6. troubled \subseteq Msgs /\ troubles \in 0 .. MaxTroubles
  BY DEF IInv, TypeOK
<1> QED BY <1>1, <1>2, <1>4, <1>5, <1>6, Quiet

LEMMA LogoutInv ==
  ASSUME IInv, NEW c \in Conns, Logout(c)
  PROVE  IInv'
<1>1. troubled \subseteq Msgs /\ troubles \in 0 .. MaxTroubles
  BY DEF IInv, TypeOK
<1> QED BY <1>1, CloseInv DEF Logout, Set

\* Data turns the message away, or starts its loop with every recipient.
LEMMA DataInv ==
  ASSUME IInv, NEW c \in Conns, Data(c)
  PROVE  IInv'
<1>0. conn[c] \in Conn /\ Session(c) /\ Envelope(c) /\ conn[c].step = "command" /\ conn[c].msg # None
  BY Fields DEF IInv, Data, AtCommand
<1>1. PICK k \in Conn :
        /\ conn' = [conn EXCEPT ![c] = k]
        /\ \/ k.step = "reply" /\ k.code \in {552, 554}
           \/ k.step = "deliver" /\ k.todo = conn[c].rcpts
        /\ k.alive = conn[c].alive /\ k.msg = conn[c].msg
        /\ k.named = conn[c].named /\ k.rcpts = conn[c].rcpts
  <2> DEFINE kr(n) == Answer(conn[c], n)
             kd == [conn[c] EXCEPT !.step = "deliver", !.todo = conn[c].rcpts]
  <2>1. \A n \in {552, 554} :
          /\ kr(n) \in Conn /\ kr(n).step = "reply" /\ kr(n).code = n
          /\ kr(n).alive = conn[c].alive /\ kr(n).msg = conn[c].msg
          /\ kr(n).named = conn[c].named /\ kr(n).rcpts = conn[c].rcpts
    BY <1>0, AnswerFields DEF Replies
  <2>2. /\ kd \in Conn /\ kd.step = "deliver" /\ kd.todo = conn[c].rcpts
        /\ kd.alive = conn[c].alive /\ kd.msg = conn[c].msg
        /\ kd.named = conn[c].named /\ kd.rcpts = conn[c].rcpts
    BY <1>0 DEF Conn, Steps
  <2>3. \/ \E n \in {552, 554} : conn' = [conn EXCEPT ![c] = kr(n)]
        \/ conn' = [conn EXCEPT ![c] = kd]
    BY DEF Data, Set
  <2> HIDE DEF kr, kd
  <2> QED BY <2>1, <2>2, <2>3
<1>2. UNCHANGED <<client, mailboxes, notices, troubled, troubles>>
  BY DEF Data
<1>3. conn'[c] = k
  BY <1>1 DEF IInv, TypeOK
<1>4. Session(c)'
  BY <1>0, <1>1, <1>3 DEF Session
<1>5. Envelope(c)'
  BY <1>0, <1>1, <1>2, <1>3, EnvelopeKept DEF client
<1>6. Loop(c)'
  BY <1>0, <1>1, <1>3 DEF Loop, Envelope, Unique
<1>7. \A m, a : ~Served(c, m, a)
  BY <1>0 DEF Served
<1>8. troubled \subseteq Msgs /\ troubles \in 0 .. MaxTroubles
  BY DEF IInv, TypeOK
<1> QED BY <1>0, <1>1, <1>2, <1>4, <1>5, <1>6, <1>7, <1>8, Quiet DEF Session

\* A trouble is counted, and what it leaves in doubt is remembered.
LEMMA TroubleGrows ==
  ASSUME TypeOK, NEW ms, Trouble(ms)
  PROVE  /\ troubled \subseteq troubled' /\ troubled' \subseteq Msgs
         /\ ms \cap Msgs \subseteq troubled'
         /\ troubles' \in 0 .. MaxTroubles
BY BoundsAssumption DEF TypeOK, Trouble

\* Store.Deliver fails: the answer is 451, and the message is in doubt.
LEMMA DeliverFailedInv ==
  ASSUME IInv, NEW c \in Conns, DeliverFailed(c)
  PROVE  IInv'
<1> DEFINE k == Answer(conn[c], 451)
<1>0. conn[c] \in Conn /\ Session(c) /\ Envelope(c) /\ conn[c].step = "deliver"
  BY Fields DEF IInv, DeliverFailed
<1>1. /\ k \in Conn /\ k.step = "reply" /\ k.code = 451
      /\ k.alive = conn[c].alive /\ k.msg = conn[c].msg
      /\ k.named = conn[c].named /\ k.rcpts = conn[c].rcpts
  BY <1>0, AnswerFields DEF Replies
<1>2. conn' = [conn EXCEPT ![c] = k] /\ UNCHANGED <<client, mailboxes, notices>>
  BY DEF DeliverFailed, Set
<1> HIDE DEF k
<1>3. conn'[c] = k /\ conn[c].msg \in Msgs
  BY <1>0, <1>2, Fields DEF IInv, TypeOK, Session
<1>4. /\ troubled \subseteq troubled' /\ troubled' \subseteq Msgs /\ conn[c].msg \in troubled'
      /\ troubles' \in 0 .. MaxTroubles
  <2>1. CASE Trouble({conn[c].msg})
    BY <1>3, <2>1, TroubleGrows DEF IInv
  <2>2. CASE troubled' = troubled \cup {conn[c].msg} /\ UNCHANGED troubles
    BY <1>3, <2>2 DEF IInv, TypeOK
  <2> QED BY <2>1, <2>2 DEF DeliverFailed
<1>5. Session(c)'
  BY <1>0, <1>1, <1>3, <1>4 DEF Session
<1>6. Envelope(c)'
  BY <1>0, <1>1, <1>2, <1>3, EnvelopeKept DEF client
<1>7. Loop(c)'
  BY <1>1, <1>3 DEF Loop
<1>8. \A m \in Msgs \ troubled' : \A a \in Wanted[m] : ~Served(c, m, a)
  BY <1>4 DEF Served
<1> QED BY <1>1, <1>2, <1>4, <1>5, <1>6, <1>7, <1>8, Quiet

\* The client goes away; a session inside Data goes on.
LEMMA GiveUpInv ==
  ASSUME IInv, NEW c \in Conns, GiveUp(c)
  PROVE  IInv'
<1>1. CASE AtCommand(c)
  BY <1>1, TroubleGrows, CloseInv DEF GiveUp, Set, IInv
<1>2. CASE ~AtCommand(c)
  <2> DEFINE k == [conn[c] EXCEPT !.alive = FALSE]
  <2>0. /\ conn[c] \in Conn /\ Session(c) /\ Envelope(c) /\ Loop(c) /\ conn[c].alive
        /\ conn[c].step \in {"deliver", "reply"}
    BY <1>2, Fields DEF IInv, GiveUp, AtCommand, Session, Steps, Closed
  <2>1. /\ k \in Conn /\ ~k.alive /\ k.step = conn[c].step /\ k.code = conn[c].code
        /\ k.msg = conn[c].msg /\ k.todo = conn[c].todo
        /\ k.named = conn[c].named /\ k.rcpts = conn[c].rcpts
    BY <2>0 DEF Conn
  <2>2. conn' = [conn EXCEPT ![c] = k] /\ UNCHANGED <<client, mailboxes, notices>>
    BY <1>2 DEF GiveUp, Set
  <2> HIDE DEF k
  <2>3. conn'[c] = k /\ conn[c].msg \in Msgs
    BY <2>0, <2>2, Fields DEF IInv, TypeOK, Session
  <2>4. /\ troubled \subseteq troubled' /\ troubled' \subseteq Msgs /\ conn[c].msg \in troubled'
        /\ troubles' \in 0 .. MaxTroubles
    BY <1>2, <2>3, TroubleGrows DEF GiveUp, IInv
  <2>5. Session(c)'
    BY <2>0, <2>1, <2>3, <2>4 DEF Session
  <2>6. Envelope(c)'
    BY <2>0, <2>1, <2>2, <2>3, EnvelopeKept DEF client
  <2>7. Loop(c)'
    BY <2>0, <2>1, <2>2, <2>3 DEF Loop, Unique, mailboxes
  <2>8. \A m \in Msgs \ troubled' : \A a \in Wanted[m] : ~Served(c, m, a)
    BY <2>4 DEF Served
  <2> QED BY <2>1, <2>2, <2>4, <2>5, <2>6, <2>7, <2>8, Quiet
<1> QED BY <1>1, <1>2

\* RCPT TO: an address that is accepted joins the envelope of the session.
LEMMA AcceptInv ==
  ASSUME IInv, NEW c \in Conns, NEW a \in Addrs, Rcpt(c, a), AcceptsRecipient(a)
  PROVE  IInv'
<1> DEFINE K == conn[c]
           q == Append(K.rcpts, Account[a])
           k == [K EXCEPT !.rcpts = q, !.named = @ \cup {a}]
<1>0. /\ K \in Conn /\ K.step = "command" /\ K.msg \in Msgs /\ K.rcpts \in Seq(Accounts)
      /\ K.named \in SUBSET Addrs
      /\ Session(c) /\ Envelope(c) /\ Account[a] \in Accounts
  BY Fields, AccountAssumption DEF IInv, Rcpt, AtCommand
<1>1. /\ k \in Conn /\ k.step = "command" /\ k.alive = K.alive /\ k.msg = K.msg /\ k.todo = K.todo
      /\ k.named = K.named \cup {a} /\ k.rcpts = q
  <2>1. q \in Seq(Accounts) /\ K.named \cup {a} \in SUBSET Addrs
    BY <1>0
  <2> HIDE DEF q, K
  <2> QED BY <1>0, <2>1 DEF Conn
<1>2. conn' = [conn EXCEPT ![c] = k] /\ UNCHANGED <<client, mailboxes, notices, troubled, troubles>>
  BY DEF Rcpt, Set
<1> HIDE DEF k
<1>3. conn'[c] = k
  BY <1>2 DEF IInv, TypeOK
<1>4. Session(c)'
  BY <1>0, <1>1, <1>2, <1>3, AccountAssumption DEF Session
<1>5. a \in left[K.msg] /\ a \notin K.named /\ a \in Wanted[K.msg] /\ K.named \subseteq Wanted[K.msg]
  BY <1>0 DEF Rcpt, IInv, Accounting, Envelope
<1>6. Envelope(c)'
  <2> DEFINE n == Len(K.rcpts)
  <2>1. /\ n \in Nat /\ DOMAIN K.rcpts = 1 .. n /\ DOMAIN k.rcpts = 1 .. n + 1
        /\ k.rcpts[n + 1] = Account[a]
        /\ \A i \in 1 .. n : k.rcpts[i] = K.rcpts[i]
    BY <1>0, <1>1
  <2>0. \A i \in 1 .. n : \E x \in K.named : K.rcpts[i] = Account[x]
    BY <1>0, <2>1 DEF Envelope
  <2> HIDE DEF n, q
  <2>2. \A x \in k.named : /\ x \in Wanted[k.msg] /\ AcceptsRecipient(x)
                           /\ \E i \in DOMAIN k.rcpts : k.rcpts[i] = Account[x]
    <3> SUFFICES ASSUME NEW x \in k.named
                 PROVE  /\ x \in Wanted[k.msg] /\ AcceptsRecipient(x)
                        /\ \E i \in DOMAIN k.rcpts : k.rcpts[i] = Account[x]
      OBVIOUS
    <3>1. CASE x = a
      BY <1>1, <1>5, <2>1, <3>1
    <3>2. CASE x \in K.named
      <4>1. x \in Wanted[K.msg] /\ AcceptsRecipient(x)
        BY <1>0, <3>2 DEF Envelope
      <4>2. PICK i \in 1 .. n : K.rcpts[i] = Account[x]
        BY <1>0, <2>1, <3>2 DEF Envelope
      <4> QED BY <1>1, <2>1, <4>1, <4>2
    <3> QED BY <1>1, <3>1, <3>2
  <2>3. \A i \in DOMAIN k.rcpts : \E x \in k.named : k.rcpts[i] = Account[x]
    <3> SUFFICES ASSUME NEW i \in 1 .. n + 1
                 PROVE  \E x \in k.named : k.rcpts[i] = Account[x]
      BY <2>1
    <3>1. CASE i = n + 1
      BY <1>1, <2>1, <3>1
    <3>2. CASE i \in 1 .. n
      BY <1>1, <2>0, <2>1, <3>2
    <3> QED BY <2>1, <3>1, <3>2
  <2>4. \A i, j \in DOMAIN k.rcpts :
          Unique(k.msg, k.rcpts[i]) /\ k.rcpts[i] = k.rcpts[j] => i = j
    <3> SUFFICES ASSUME NEW i \in 1 .. n + 1, NEW j \in 1 .. n + 1,
                        Unique(K.msg, k.rcpts[i]), k.rcpts[i] = k.rcpts[j]
                 PROVE  i = j
      BY <1>1, <2>1
    <3>1. ASSUME NEW l \in 1 .. n, K.rcpts[l] = Account[a], Unique(K.msg, Account[a])
          PROVE  FALSE
      <4>1. PICK x \in K.named : Account[x] = Account[a]
        BY <2>0, <3>1
      <4>2. x = a
        BY <1>5, <3>1, <4>1 DEF Unique
      <4> QED BY <1>5, <4>1, <4>2
    <3>2. CASE i \in 1 .. n /\ j \in 1 .. n
      BY <1>0, <2>1, <3>2, ZenonT(60) DEF Envelope
    <3>3. CASE i = n + 1 /\ j \in 1 .. n
      BY <2>1, <3>1, <3>3
    <3>4. CASE i \in 1 .. n /\ j = n + 1
      BY <2>1, <3>1, <3>4
    <3> QED BY <2>1, <3>2, <3>3, <3>4
  <2>5. k.alive /\ k.msg # None => k.named \subseteq left[k.msg]
    BY <1>0, <1>1, <1>5, AccountAssumption DEF Envelope
  <2> QED BY <1>2, <1>3, <2>2, <2>3, <2>4, <2>5 DEF Envelope, Unique, AcceptsRecipient, client
<1>7. Loop(c)'
  BY <1>1, <1>3 DEF Loop
<1>8. \A m, x : ~Served(c, m, x)
  BY <1>0 DEF Served
<1>9. troubled \subseteq Msgs /\ troubles \in 0 .. MaxTroubles
  BY DEF IInv, TypeOK
<1>10. K.alive
  BY <1>0 DEF Session
<1> QED BY <1>1, <1>2, <1>4, <1>6, <1>7, <1>8, <1>9, <1>10, Quiet

-----------------------------------------------------------------------------
(* The steps that the client or the mailboxes see.                         *)

\* RCPT TO: an address that is not on the allowlist is refused for good.
LEMMA RefuseInv ==
  ASSUME IInv, NEW c \in Conns, NEW a \in Addrs, Rcpt(c, a), ~AcceptsRecipient(a)
  PROVE  IInv'
<1> USE DEF IInv
<1> DEFINE m == conn[c].msg
<1>1. /\ m \in Msgs /\ conn[c].step = "command" /\ conn[c].alive /\ m # None
      /\ a \in left[m] /\ a \notin conn[c].named
  BY Fields, AccountAssumption DEF Rcpt, AtCommand, Session
<1>2. /\ left' = [left EXCEPT ![m] = @ \ {a}]
      /\ refused' = [refused EXCEPT ![m] = @ \cup {a}]
      /\ UNCHANGED <<conn, acked, mailboxes, notices, troubled, troubles>>
  BY DEF Rcpt
<1> HIDE DEF m
<1>3. \A n \in Msgs : /\ left'[n] = IF n = m THEN left[n] \ {a} ELSE left[n]
                      /\ refused'[n] = IF n = m THEN refused[n] \cup {a} ELSE refused[n]
  BY <1>2 DEF TypeOK
<1>4. TypeOK'
  BY <1>2 DEF TypeOK, mailboxes
<1>5. Apart(c)
  BY <1>1, <1>2, <1>3 DEF Apart, mailboxes, m
<1>6. Session(c)' /\ Loop(c)'
  BY <1>2 DEF Session, Loop, Unique, mailboxes
<1>7. Envelope(c)'
  BY <1>1, <1>2, <1>3 DEF Envelope, Unique, AcceptsRecipient, m
<1>8. \A d \in Conns : Session(d)' /\ Envelope(d)' /\ Loop(d)'
  BY <1>5, <1>6, <1>7, Others
<1>9. Sole'
  BY <1>2 DEF Sole
<1>10. Accounting'
  BY <1>1, <1>2, <1>3 DEF Accounting
<1>11. Explained'
  <2>1. \A d \in Conns : \A n, x : Served(d, n, x) => Served(d, n, x)'
    BY <1>2 DEF Served
  <2> QED BY <1>2, <2>1 DEF Explained, Unique, mailboxes
<1>12. AckedIsStored' /\ StoredIsWanted' /\ NotifiedIsComplete'
  BY <1>2 DEF AckedIsStored, StoredIsWanted, AcceptsRecipient, NotifiedIsComplete, mailboxes
<1> QED BY <1>4, <1>8, <1>9, <1>10, <1>11, <1>12

\* The loop of Data is over: OnDeliver is called, and 250 is the answer.
LEMMA OnDeliverInv ==
  ASSUME IInv, NEW c \in Conns, OnDeliver(c)
  PROVE  IInv'
<1> USE DEF IInv
<1> DEFINE k == Answer(conn[c], 250)
           served == {conn[c].rcpts[i] : i \in DOMAIN conn[c].rcpts}
<1>0. /\ conn[c] \in Conn /\ Session(c) /\ Envelope(c) /\ Loop(c)
      /\ conn[c].step = "deliver" /\ conn[c].todo = << >> /\ conn[c].msg \in Msgs
      /\ conn[c].rcpts \in Seq(Accounts)
  BY Fields DEF OnDeliver, Session
<1>1. /\ k \in Conn /\ k.step = "reply" /\ k.code = 250
      /\ k.alive = conn[c].alive /\ k.msg = conn[c].msg
      /\ k.named = conn[c].named /\ k.rcpts = conn[c].rcpts
  BY <1>0, AnswerFields DEF Replies
<1>2. /\ conn' = [conn EXCEPT ![c] = k] /\ UNCHANGED <<client, mailboxes, troubled, troubles>>
      /\ notices' = notices \cup {<<conn[c].msg, served>>}
  BY DEF OnDeliver, Set
<1> HIDE DEF k
<1>3. conn'[c] = k /\ \A d \in Conns \ {c} : conn'[d] = conn[d]
  BY <1>2 DEF TypeOK
<1>4. served \subseteq stored[conn[c].msg] /\ served \in SUBSET Accounts
  BY <1>0 DEF Loop
<1> HIDE DEF served
<1>5. TypeOK'
  BY <1>0, <1>1, <1>2, <1>4 DEF TypeOK, client, mailboxes
<1>6. Apart(c)
  BY <1>2, <1>3 DEF Apart, client, mailboxes
<1>7. Session(c)'
  BY <1>0, <1>1, <1>2, <1>3 DEF Session
<1>8. Envelope(c)'
  BY <1>0, <1>1, <1>2, <1>3, EnvelopeKept DEF client
<1>9. Loop(c)'
  BY <1>0, <1>1, <1>2, <1>3 DEF Loop, mailboxes
<1>10. \A d \in Conns : Session(d)' /\ Envelope(d)' /\ Loop(d)'
  BY <1>6, <1>7, <1>8, <1>9, Others
<1>11. Sole'
  BY <1>1, <1>3, SoleStep
<1>12. Accounting'
  BY <1>2 DEF Accounting, client
<1>13. ASSUME NEW d \in Conns, NEW m, NEW a, Served(d, m, a)
       PROVE  Served(d, m, a)'
  BY <1>0, <1>1, <1>3, <1>13 DEF Served
<1>14. Explained'
  BY <1>2, <1>13 DEF Explained, Unique, client, mailboxes
<1>15. AckedIsStored' /\ StoredIsWanted'
  BY <1>2 DEF AckedIsStored, StoredIsWanted, AcceptsRecipient, client, mailboxes
<1>16. NotifiedIsComplete'
  BY <1>2, <1>4 DEF NotifiedIsComplete, mailboxes
<1> QED BY <1>5, <1>10, <1>11, <1>12, <1>14, <1>15, <1>16

\* Store.Deliver succeeds for the next recipient of the loop.
LEMMA DeliverInv ==
  ASSUME IInv, NEW c \in Conns, Deliver(c)
  PROVE  IInv'
<1> DEFINE K == conn[c]
           m == K.msg
           b == Head(K.todo)
           k == [K EXCEPT !.todo = Tail(@)]
<1>0. /\ TypeOK /\ K \in Conn /\ Session(c) /\ Envelope(c) /\ Loop(c)
      /\ K.step = "deliver" /\ K.todo # << >> /\ m \in Msgs /\ K.todo \in Seq(Accounts)
      /\ K.rcpts \in Seq(Accounts)
  BY Fields DEF Deliver, Session, IInv
<1>1. /\ b = K.todo[1] /\ b \in Accounts /\ Tail(K.todo) \in Seq(Accounts)
      /\ 1 \in DOMAIN K.todo
      /\ \A j \in DOMAIN Tail(K.todo) : j + 1 \in DOMAIN K.todo /\ Tail(K.todo)[j] = K.todo[j + 1]
      /\ \A j \in DOMAIN K.todo : j = 1 \/ (j - 1 \in DOMAIN Tail(K.todo) /\ K.todo[j] = Tail(K.todo)[j - 1])
      /\ DOMAIN Tail(K.todo) \subseteq Nat
  BY <1>0
<1>2. /\ k \in Conn /\ k.step = "deliver" /\ k.todo = Tail(K.todo) /\ k.alive = K.alive
      /\ k.msg = m /\ k.named = K.named /\ k.rcpts = K.rcpts /\ k.code = K.code
  BY <1>0, <1>1 DEF Conn
<1>3. /\ conn' = [conn EXCEPT ![c] = k]
      /\ stored' = [stored EXCEPT ![m] = @ \cup {b}]
      /\ twice' = [twice EXCEPT ![m] = IF b \in stored[m] THEN @ \cup {b} ELSE @]
      /\ UNCHANGED <<client, notices, troubled, troubles>>
  BY DEF Deliver, Set
<1> HIDE DEF k
<1>4. conn'[c] = k /\ \A d \in Conns \ {c} : conn'[d] = conn[d]
  BY <1>0, <1>3 DEF TypeOK
<1>5. \A n \in Msgs :
        /\ stored'[n] = IF n = m THEN stored[n] \cup {b} ELSE stored[n]
        /\ twice'[n] = IF n = m /\ b \in stored[n] THEN twice[n] \cup {b} ELSE twice[n]
  BY <1>0, <1>3 DEF TypeOK
<1>6. TypeOK'
  <2>1. stored' \in [Msgs -> SUBSET Accounts] /\ twice' \in [Msgs -> SUBSET Accounts]
    <3> HIDE DEF b, m
    <3> QED BY <1>0, <1>1, <1>3 DEF TypeOK
  <2>2. conn' \in [Conns -> Conn]
    BY <1>0, <1>2, <1>3 DEF TypeOK
  <2> QED BY <1>0, <1>3, <2>1, <2>2 DEF TypeOK, client
<1>7. Apart(c)
  BY <1>3, <1>4, <1>5 DEF Apart, client
<1>8. Session(c)'
  BY <1>0, <1>2, <1>3, <1>4 DEF Session
<1>9. Envelope(c)'
  BY <1>0, <1>2, <1>3, <1>4, EnvelopeKept DEF client
<1>10. Loop(c)'
  <2>0. stored'[m] = stored[m] \cup {b}
    BY <1>0, <1>5
  <2>1. \A i \in DOMAIN k.rcpts : \/ k.rcpts[i] \in stored'[m]
                                  \/ \E j \in DOMAIN k.todo : k.todo[j] = k.rcpts[i]
    <3> SUFFICES ASSUME NEW i \in DOMAIN K.rcpts, K.rcpts[i] \notin stored[m], K.rcpts[i] # b
                 PROVE  \E j \in DOMAIN Tail(K.todo) : Tail(K.todo)[j] = K.rcpts[i]
      BY <1>2, <2>0, Zenon
    <3>1. PICK j \in DOMAIN K.todo : K.todo[j] = K.rcpts[i]
      BY <1>0 DEF Loop
    <3>2. j # 1
      BY <1>1, <3>1
    <3> QED BY <1>1, <3>1, <3>2
  <2>2. \A j \in DOMAIN k.todo : \E i \in DOMAIN k.rcpts : k.rcpts[i] = k.todo[j]
    <3>1. \A j \in DOMAIN K.todo : \E i \in DOMAIN K.rcpts : K.rcpts[i] = K.todo[j]
      BY <1>0 DEF Loop
    <3> QED BY <1>1, <1>2, <3>1
  <2>3. \A i, j \in DOMAIN k.todo : Unique(m, k.todo[i]) /\ k.todo[i] = k.todo[j] => i = j
    <3> SUFFICES ASSUME NEW i \in DOMAIN Tail(K.todo), NEW j \in DOMAIN Tail(K.todo),
                        Unique(m, Tail(K.todo)[i]), Tail(K.todo)[i] = Tail(K.todo)[j]
                 PROVE  i = j
      BY <1>2
    <3>1. \A x, y \in DOMAIN K.todo : Unique(m, K.todo[x]) /\ K.todo[x] = K.todo[y] => x = y
      BY <1>0 DEF Loop
    <3>2. i + 1 = j + 1
      BY <1>1, <3>1
    <3>3. i \in Nat /\ j \in Nat
      BY <1>1
    <3> QED BY <3>2, <3>3
  <2> QED BY <1>2, <1>4, <2>1, <2>2, <2>3, ZenonT(60) DEF Loop, Unique
<1>11. \A d \in Conns : Session(d)' /\ Envelope(d)' /\ Loop(d)'
  BY <1>7, <1>8, <1>9, <1>10, Others
<1>12. Sole'
  BY <1>2, <1>4, SoleStep DEF IInv
<1>13. Accounting'
  BY <1>3 DEF IInv, Accounting, client
<1>14. PICK e \in K.named : e \in Wanted[m] /\ AcceptsRecipient(e) /\ Account[e] = b
  <2>1. PICK i \in DOMAIN K.rcpts : K.rcpts[i] = b
    BY <1>0, <1>1 DEF Loop
  <2> QED BY <1>0, <2>1 DEF Envelope
<1>15. Explained'
  <2> SUFFICES ASSUME NEW n \in Msgs \ troubled, NEW a \in Wanted[n], Unique(n, Account[a])
               PROVE  /\ Account[a] \notin twice'[n]
                      /\ Account[a] \in stored'[n] =>
                           a \in acked[n] \/ \E d \in Conns : Served(d, n, a)'
    BY <1>3 DEF Explained, Unique, client
  <2>1. /\ Account[a] \notin twice[n]
        /\ Account[a] \in stored[n] => a \in acked[n] \/ \E d \in Conns : Served(d, n, a)
    BY DEF Explained, IInv
  <2>2. ASSUME NEW d \in Conns, Served(d, n, a) PROVE Served(d, n, a)'
    <3>1. CASE d # c
      BY <1>4, <2>2, <3>1 DEF Served
    <3>2. CASE d = c
      <4>1. K.msg = n /\ a \in K.named /\ \A j \in DOMAIN K.todo : K.todo[j] # Account[a]
        BY <1>0, <2>2, <3>2 DEF Served
      <4>2. \A j \in DOMAIN k.todo : k.todo[j] # Account[a]
        BY <1>1, <1>2, <4>1
      <4> QED BY <1>2, <1>4, <3>2, <4>1, <4>2 DEF Served
    <3> QED BY <3>1, <3>2
  <2>3. CASE n = m /\ b = Account[a]
    <3>1. a = e
      BY <1>14, <2>3 DEF Unique
    <3>2. K.alive
      BY <1>0, <2>3 DEF Session
    <3>3. K.named \subseteq left[m]
      BY <1>0, <3>2, AccountAssumption DEF Envelope
    <3>4. a \notin acked[m]
      BY <1>0, <1>14, <3>1, <3>3 DEF IInv, Accounting
    <3>5. ASSUME NEW d \in Conns, Served(d, n, a) PROVE FALSE
      <4>1. conn[d].msg = m /\ conn[d].step \in {"deliver", "reply"}
        BY <2>3, <3>5 DEF Served
      <4>2. conn[d].alive
        BY <2>3, <4>1 DEF IInv, Session
      <4>3. d = c
        BY <1>0, <3>2, <4>1, <4>2, AccountAssumption DEF IInv, Sole
      <4> QED BY <1>0, <1>1, <2>3, <3>5, <4>3 DEF Served
    <3>6. Account[a] \notin stored[m]
      BY <2>1, <2>3, <3>4, <3>5
    <3>7. \A j \in DOMAIN k.todo : k.todo[j] # b
      <4> SUFFICES ASSUME NEW j \in DOMAIN Tail(K.todo), Tail(K.todo)[j] = b
                   PROVE  FALSE
        BY <1>2
      <4>1. j + 1 \in DOMAIN K.todo /\ K.todo[j + 1] = K.todo[1] /\ j \in Nat /\ j # 0
        BY <1>0, <1>1
      <4>2. Unique(m, K.todo[1])
        BY <1>1, <2>3
      <4>3. j + 1 = 1
        BY <1>0, <1>1, <4>1, <4>2 DEF Loop
      <4> QED BY <4>1, <4>3
    <3>8. Served(c, n, a)'
      BY <1>2, <1>4, <1>14, <2>3, <3>1, <3>7, ZenonT(60) DEF Served
    <3> QED BY <1>5, <2>1, <2>3, <3>6, <3>8
  <2>4. CASE ~(n = m /\ b = Account[a])
    BY <1>5, <2>1, <2>2, <2>4, ZenonT(60)
  <2> QED BY <2>3, <2>4
<1>16. AckedIsStored' /\ NotifiedIsComplete'
  <2>1. \A n \in notices : n[1] \in Msgs
    BY <1>0 DEF TypeOK
  <2> QED BY <1>3, <1>5, <2>1 DEF IInv, AckedIsStored, NotifiedIsComplete, client
<1>17. StoredIsWanted'
  <2> SUFFICES ASSUME NEW n \in Msgs, NEW x \in stored'[n]
               PROVE  \E a \in Wanted[n] : Account[a] = x /\ AcceptsRecipient(a)
    BY DEF StoredIsWanted, AcceptsRecipient
  <2>1. CASE x \in stored[n]
    BY <2>1 DEF IInv, StoredIsWanted
  <2>2. CASE n = m /\ x = b
    BY <1>14, <2>2
  <2> QED BY <1>5, <2>1, <2>2
<1> QED BY <1>6, <1>11, <1>12, <1>13, <1>15, <1>16, <1>17 DEF IInv

\* Nobody waits for the answer: the session is over, and its message in doubt.
LEMMA UnheardInv ==
  ASSUME IInv, NEW c \in Conns, Reply(c), ~conn[c].alive
  PROVE  IInv'
<1>1. /\ conn' = [conn EXCEPT ![c] = Closed]
      /\ UNCHANGED <<client, mailboxes, notices, troubled, troubles>>
  BY DEF Reply, Set
<1>2. conn'[c] = Closed
  BY <1>1 DEF IInv, TypeOK
<1>3. Session(c)' /\ Envelope(c)' /\ Loop(c)'
  BY <1>2, ClosedFields DEF Session, Envelope, Loop
<1>4. conn[c].msg \in troubled
  BY DEF Reply, IInv, Session
<1>5. \A m \in Msgs \ troubled : \A a \in Wanted[m] : ~Served(c, m, a)
  BY <1>4 DEF Served
<1>6. troubled \subseteq Msgs /\ troubles \in 0 .. MaxTroubles
  BY DEF IInv, TypeOK
<1> QED BY <1>1, <1>3, <1>5, <1>6, ClosedTyped, ClosedFields, Quiet

\* The client hears the answer, and settles the addresses of the transaction.
LEMMA HeardInv ==
  ASSUME IInv, NEW c \in Conns, Reply(c), conn[c].alive
  PROVE  IInv'
<1> DEFINE K == conn[c]
           m == K.msg
           k == [Reset(K) EXCEPT !.step = "command", !.code = 0]
<1>0. /\ TypeOK /\ K \in Conn /\ Session(c) /\ Envelope(c) /\ Loop(c)
      /\ K.step = "reply" /\ K.alive /\ m \in Msgs /\ m # None /\ K.named \in SUBSET Addrs
  BY Fields, AccountAssumption DEF Reply, Session, IInv
<1>1. /\ k \in Conn /\ k.step = "command" /\ k.alive /\ k.msg = None
      /\ k.named = {} /\ k.rcpts = << >>
  <2>1. /\ Reset(K) \in Conn /\ Reset(K).alive /\ Reset(K).msg = None
        /\ Reset(K).named = {} /\ Reset(K).rcpts = << >>
    <3>1. << >> \in Seq(Accounts)
      OBVIOUS
    <3> HIDE DEF K
    <3> QED BY <1>0, <3>1 DEF Reset, Conn
  <2>2. "command" \in Steps /\ 0 \in Replies
    BY DEF Steps, Replies
  <2> HIDE DEF K
  <2> QED BY <2>1, <2>2 DEF Conn
<1>2. /\ conn' = [conn EXCEPT ![c] = k]
      /\ left' = [left EXCEPT ![m] = IF K.code = 451 THEN @ ELSE @ \ K.named]
      /\ acked' = [acked EXCEPT ![m] = IF K.code = 250 THEN @ \cup K.named ELSE @]
      /\ refused' = [refused EXCEPT ![m] = IF K.code \in {552, 554} THEN @ \cup K.named ELSE @]
      /\ UNCHANGED <<mailboxes, notices, troubled, troubles>>
  BY DEF Reply, Set
<1> HIDE DEF k
<1>3. conn'[c] = k /\ \A d \in Conns \ {c} : conn'[d] = conn[d]
  BY <1>0, <1>2 DEF TypeOK
<1>4. /\ \A n \in Msgs \ {m} : left'[n] = left[n] /\ acked'[n] = acked[n] /\ refused'[n] = refused[n]
      /\ left'[m] = IF K.code = 451 THEN left[m] ELSE left[m] \ K.named
      /\ acked'[m] = IF K.code = 250 THEN acked[m] \cup K.named ELSE acked[m]
      /\ refused'[m] = IF K.code \in {552, 554} THEN refused[m] \cup K.named ELSE refused[m]
  <2> HIDE DEF K, m
  <2> QED BY <1>0, <1>2 DEF TypeOK
<1>5. TypeOK'
  <2>1. /\ left' \in [Msgs -> SUBSET Addrs] /\ acked' \in [Msgs -> SUBSET Addrs]
        /\ refused' \in [Msgs -> SUBSET Addrs]
    <3> HIDE DEF K, m
    <3> QED BY <1>0, <1>2 DEF TypeOK
  <2>2. conn' \in [Conns -> Conn]
    BY <1>0, <1>1, <1>2 DEF TypeOK
  <2> QED BY <1>0, <1>2, <2>1, <2>2 DEF TypeOK, mailboxes
<1>6. Apart(c)
  BY <1>0, <1>2, <1>3, <1>4 DEF Apart, mailboxes
<1>7. Session(c)' /\ Envelope(c)' /\ Loop(c)'
  BY <1>1, <1>3 DEF Session, Envelope, Loop
<1>8. \A d \in Conns : Session(d)' /\ Envelope(d)' /\ Loop(d)'
  BY <1>6, <1>7, Others
<1>9. Sole'
  BY <1>1, <1>3, SoleStep DEF IInv
<1>10. K.named \subseteq left[m]
  BY <1>0 DEF Envelope
<1>11. Accounting'
  <2> SUFFICES ASSUME NEW n \in Msgs
               PROVE  /\ left'[n] \subseteq Wanted[n] /\ left'[n] \cap acked'[n] = {}
                      /\ left'[n] \cap refused'[n] = {} /\ acked'[n] \cap refused'[n] = {}
    BY DEF Accounting
  <2>1. /\ left[n] \subseteq Wanted[n] /\ left[n] \cap acked[n] = {}
        /\ left[n] \cap refused[n] = {} /\ acked[n] \cap refused[n] = {}
    BY DEF IInv, Accounting
  <2>2. CASE n # m
    BY <1>4, <2>1, <2>2
  <2>3. CASE n = m
    <3>1. CASE K.code = 250
      BY <1>4, <1>10, <2>1, <2>3, <3>1
    <3>2. CASE K.code \in {552, 554}
      BY <1>4, <1>10, <2>1, <2>3, <3>2
    <3>3. CASE K.code \notin {250, 552, 554}
      BY <1>4, <2>1, <2>3, <3>3
    <3> QED BY <3>1, <3>2, <3>3
  <2> QED BY <2>2, <2>3
<1>12. Explained'
  <2> SUFFICES ASSUME NEW n \in Msgs \ troubled, NEW a \in Wanted[n], Unique(n, Account[a])
               PROVE  /\ Account[a] \notin twice[n]
                      /\ Account[a] \in stored[n] =>
                           a \in acked'[n] \/ \E d \in Conns : Served(d, n, a)'
    BY <1>2 DEF Explained, Unique, mailboxes
  <2>1. /\ Account[a] \notin twice[n]
        /\ Account[a] \in stored[n] => a \in acked[n] \/ \E d \in Conns : Served(d, n, a)
    BY DEF Explained, IInv
  <2>2. ASSUME NEW d \in Conns, d # c, Served(d, n, a) PROVE Served(d, n, a)'
    BY <1>3, <2>2 DEF Served
  <2>3. Served(c, n, a) => n = m /\ K.code = 250 /\ a \in K.named
    BY <1>0 DEF Served
  <2>4. acked[n] \subseteq acked'[n] /\ (Served(c, n, a) => a \in acked'[n])
    BY <1>4, <2>3
  <2> QED BY <2>1, <2>2, <2>4
<1>13. AckedIsStored'
  <2>1. K.code = 250 => \A a \in K.named : Account[a] \in stored[m]
    BY <1>0 DEF Envelope, Loop
  <2> QED BY <1>2, <1>4, <2>1 DEF IInv, AckedIsStored, mailboxes
<1>14. StoredIsWanted' /\ NotifiedIsComplete'
  BY <1>2 DEF IInv, StoredIsWanted, AcceptsRecipient, NotifiedIsComplete, mailboxes
<1> QED BY <1>5, <1>8, <1>9, <1>11, <1>12, <1>13, <1>14 DEF IInv

\* The process is killed: every message inside Data is in doubt.
LEMMA CrashInv == ASSUME IInv, Crash PROVE IInv'
<1> USE DEF IInv
<1> DEFINE ms == {conn[c].msg : c \in {d \in Conns : ~AtCommand(d)}}
<1>1. conn' = [c \in Conns |-> Closed] /\ UNCHANGED <<client, mailboxes, notices>> /\ Trouble(ms)
  BY DEF Crash
<1>2. /\ troubled \subseteq troubled' /\ troubled' \subseteq Msgs /\ ms \cap Msgs \subseteq troubled'
      /\ troubles' \in 0 .. MaxTroubles
  BY <1>1, TroubleGrows
<1>3. \A c \in Conns : conn'[c] = Closed
  BY <1>1
<1>4. TypeOK'
  BY <1>1, <1>2, ClosedTyped DEF TypeOK, client, mailboxes
<1>5. \A c \in Conns : Session(c)' /\ Envelope(c)' /\ Loop(c)'
  BY <1>3, ClosedFields DEF Session, Envelope, Loop
<1>6. Sole'
  BY <1>3, ClosedFields DEF Sole
<1>7. Accounting'
  BY <1>1 DEF Accounting, client
<1>8. ASSUME NEW d \in Conns, NEW m \in Msgs \ troubled', NEW a, Served(d, m, a)
      PROVE  FALSE
  BY <1>2, <1>8 DEF Served, AtCommand
<1>9. Explained'
  BY <1>1, <1>2, <1>8 DEF Explained, Unique, client, mailboxes
<1>10. AckedIsStored' /\ StoredIsWanted' /\ NotifiedIsComplete'
  BY <1>1 DEF AckedIsStored, StoredIsWanted, AcceptsRecipient, NotifiedIsComplete, client, mailboxes
<1> QED BY <1>4, <1>5, <1>6, <1>7, <1>9, <1>10

\* The next-state relation.
LEMMA StepInv == ASSUME IInv, [Next]_vars PROVE IInv'
<1>1. ASSUME NEW c \in Conns, Command(c) PROVE IInv'
  BY <1>1, NewSessionInv, RsetInv, LogoutInv, DataInv, MailInv, AcceptInv, RefuseInv DEF Command
<1>2. ASSUME NEW c \in Conns, Serve(c) PROVE IInv'
  BY <1>2, DeliverFailedInv, DeliverInv, OnDeliverInv, UnheardInv, HeardInv DEF Serve
<1>3. CASE UNCHANGED vars
  <2> USE <1>3 DEF vars, client, mailboxes, IInv
  <2>1. TypeOK' /\ Sole' /\ Accounting'
    BY DEF TypeOK, Sole, Accounting
  <2>2. \A c \in Conns : Session(c)' /\ Envelope(c)' /\ Loop(c)'
    BY DEF Session, Envelope, Loop, Unique, AcceptsRecipient
  <2>3. Explained'
    BY DEF Explained, Unique, Served
  <2>4. AckedIsStored' /\ StoredIsWanted' /\ NotifiedIsComplete'
    BY DEF AckedIsStored, StoredIsWanted, AcceptsRecipient, NotifiedIsComplete
  <2> QED BY <2>1, <2>2, <2>3, <2>4
<1> QED BY <1>1, <1>2, <1>3, GiveUpInv, CrashInv DEF Next

-----------------------------------------------------------------------------
(* The theorems.                                                           *)

\* Every state that server.go and its clients can reach satisfies the inductive
\* invariant.
THEOREM Invariance == Spec => []IInv
BY InitInv, StepInv, PTL DEF Spec

\* The types of the variables.
THEOREM TypeCorrect == Spec => []TypeOK
<1>1. IInv => TypeOK
  BY DEF IInv
<1> QED BY Invariance, <1>1, PTL

\* An address that a client was told is served has the message in its maildir:
\* Data answers 250 only after its loop has stored the message for everybody.
THEOREM AckedIsStoredCorrect == Spec => []AckedIsStored
<1>1. IInv => AckedIsStored
  BY DEF IInv
<1> QED BY Invariance, <1>1, PTL

\* Data stores a message for the recipients of its own envelope that Rcpt has
\* accepted, and for nobody that an earlier transaction left in the session.
THEOREM StoredIsWantedCorrect == Spec => []StoredIsWanted
<1>1. IInv => StoredIsWanted
  BY DEF IInv
<1> QED BY Invariance, <1>1, PTL

\* OnDeliver is called with recipients that all have the message.
THEOREM NotifiedIsCompleteCorrect == Spec => []NotifiedIsComplete
<1>1. IInv => NotifiedIsComplete
  BY DEF IInv
<1> QED BY Invariance, <1>1, PTL

\* A message that no attempt has left in doubt is stored once for an address, and
\* not at all for one that was refused.
THEOREM ExactlyOnceCorrect == Spec => []ExactlyOnce
<1>1. IInv => ExactlyOnce
  <2> SUFFICES ASSUME IInv, NEW m \in Msgs \ troubled, NEW a \in Wanted[m],
                      \A b \in Wanted[m] \ {a} : Account[b] # Account[a]
               PROVE  /\ Account[a] \notin twice[m]
                      /\ a \in refused[m] => Account[a] \notin stored[m]
    BY DEF ExactlyOnce
  <2> USE DEF IInv
  <2>1. Unique(m, Account[a])
    BY DEF Unique
  <2>2. /\ Account[a] \notin twice[m]
        /\ Account[a] \in stored[m] => a \in acked[m] \/ \E c \in Conns : Served(c, m, a)
    BY <2>1 DEF Explained
  <2>3. ASSUME NEW c \in Conns, Served(c, m, a) PROVE a \in left[m]
    <3>1. conn[c].msg = m /\ a \in conn[c].named /\ conn[c].step \in {"deliver", "reply"}
      BY <2>3 DEF Served
    <3>2. conn[c].alive
      BY <3>1 DEF Session
    <3> QED BY <3>1, <3>2, AccountAssumption DEF Envelope
  <2> QED BY <2>2, <2>3 DEF Accounting
<1> QED BY Invariance, <1>1, PTL

-----------------------------------------------------------------------------
(* Refinement: every step is one of MailTransfer, or none that a client or *)
(* a mailbox notices.                                                      *)

\* A step that changes neither answers nor mailboxes at most leaves messages in
\* doubt.
LEMMA FailStep ==
  ASSUME UNCHANGED <<client, mailboxes>>, troubled \subseteq troubled', troubled' \subseteq Msgs
  PROVE  Transfer!Fail
BY DEF Transfer!Fail, Transfer!answers, Transfer!boxes, client, mailboxes

\* Own of MailTransfer is Unique of the account.
LEMMA OwnUnique ==
  ASSUME NEW m \in Msgs, NEW a \in Wanted[m], Transfer!Own(m, a)
  PROVE  Unique(m, Account[a])
BY DEF Transfer!Own, Unique

\* A session that works on a message in no doubt has its client, no other session
\* works on that message, and its addresses are open.
LEMMA Undoubted ==
  ASSUME IInv, NEW c \in Conns, conn[c].step \in {"deliver", "reply"}, conn[c].msg \notin troubled
  PROVE  /\ conn[c].named \subseteq left[conn[c].msg]
         /\ \A d \in Conns, a \in Addrs : Served(d, conn[c].msg, a) => d = c
<1>1. conn[c].alive /\ conn[c].msg # None
  BY DEF IInv, Session
<1>2. ASSUME NEW d \in Conns, NEW a \in Addrs, Served(d, conn[c].msg, a) PROVE d = c
  <2>1. conn[d].msg = conn[c].msg /\ conn[d].step \in {"deliver", "reply"}
    BY <1>2 DEF Served
  <2>2. conn[d].alive
    BY <2>1 DEF IInv, Session
  <2> QED BY <1>1, <2>1, <2>2 DEF IInv, Sole
<1> QED BY <1>1, <1>2 DEF IInv, Envelope

\* An open address of a message in no doubt has no copy, unless a session has just
\* stored it.
LEMMA OpenHasNone ==
  ASSUME IInv, NEW m \in Msgs \ troubled, NEW a \in left[m], Transfer!Own(m, a),
         \A c \in Conns : ~Served(c, m, a)
  PROVE  Account[a] \notin stored[m]
<1>1. a \in Wanted[m] /\ a \notin acked[m]
  BY DEF IInv, Accounting
<1>2. Unique(m, Account[a])
  BY <1>1, OwnUnique
<1> QED BY <1>1, <1>2 DEF IInv, Explained

\* Store.Deliver stores a copy for an address of the envelope.
LEMMA DeliverStores ==
  ASSUME IInv, NEW c \in Conns, Deliver(c)
  PROVE  \E m \in Msgs : \E a \in Wanted[m] : Transfer!Store(m, a)
<1> DEFINE K == conn[c]
           m == K.msg
           b == Head(K.todo)
<1>0. /\ TypeOK /\ K \in Conn /\ Session(c) /\ Envelope(c) /\ Loop(c)
      /\ K.step = "deliver" /\ K.todo # << >> /\ m \in Msgs /\ K.todo \in Seq(Accounts)
  BY Fields DEF Deliver, Session, IInv
<1>1. b = K.todo[1] /\ 1 \in DOMAIN K.todo
  BY <1>0
<1>2. PICK a \in K.named : a \in Wanted[m] /\ AcceptsRecipient(a) /\ Account[a] = b
  <2>1. PICK i \in DOMAIN K.rcpts : K.rcpts[i] = b
    BY <1>0, <1>1 DEF Loop
  <2> QED BY <1>0, <2>1 DEF Envelope
<1>3. a \in Addrs
  BY <1>0, <1>2, AccountAssumption
<1>4. ASSUME m \notin troubled PROVE a \in left[m] /\ (Transfer!Own(m, a) => b \notin stored[m])
  <2>1. a \in left[m]
    BY <1>0, <1>2, <1>4, Undoubted
  <2>2. ASSUME NEW d \in Conns, Served(d, m, a) PROVE FALSE
    <3>1. d = c
      BY <1>0, <1>3, <1>4, <2>2, Undoubted
    <3> QED BY <1>0, <1>1, <1>2, <2>2, <3>1 DEF Served
  <2> QED BY <1>0, <1>2, <1>4, <2>1, <2>2, OpenHasNone
<1>5. /\ stored' = [stored EXCEPT ![m] = @ \cup {b}]
      /\ twice' = [twice EXCEPT ![m] = IF b \in stored[m] THEN @ \cup {b} ELSE @]
      /\ UNCHANGED <<client, troubled>>
  BY DEF Deliver
<1>6. UNCHANGED <<Transfer!answers, troubled>>
  BY <1>5 DEF Transfer!answers, client
<1> HIDE DEF m, b
<1>7. Transfer!Store(m, a)
  BY <1>2, <1>3, <1>4, <1>5, <1>6 DEF Transfer!Store
<1> QED BY <1>0, <1>2, <1>7

\* 550: nothing is stored for an account that is not on the allowlist.
LEMMA RcptRefuses ==
  ASSUME IInv, NEW c \in Conns, NEW a \in Addrs, Rcpt(c, a), ~AcceptsRecipient(a)
  PROVE  \E m \in Msgs : \E A \in SUBSET Wanted[m] : Transfer!Refuse(m, A)
<1> DEFINE m == conn[c].msg
<1>1. /\ m \in Msgs /\ a \in left[m]
      /\ left' = [left EXCEPT ![m] = @ \ {a}]
      /\ refused' = [refused EXCEPT ![m] = @ \cup {a}]
      /\ UNCHANGED <<acked, mailboxes, troubled>>
  BY Fields DEF Rcpt, IInv
<1>2. a \in Wanted[m]
  BY <1>1 DEF IInv, Accounting
<1>3. Account[a] \notin stored[m]
  BY <1>1 DEF IInv, StoredIsWanted, AcceptsRecipient
<1>4. UNCHANGED <<acked, Transfer!boxes, troubled>>
  BY <1>1 DEF Transfer!boxes, mailboxes
<1> HIDE DEF m
<1>5. Transfer!Close(m, {a})
  BY <1>1 DEF Transfer!Close
<1>6. Transfer!Refuse(m, {a})
  BY <1>1, <1>3, <1>4, <1>5 DEF Transfer!Refuse
<1> QED BY <1>1, <1>2, <1>6

\* An answer that the client hears settles the addresses of the transaction: 250
\* when every copy is there, 55x when none is, and 451 leaves them open.
LEMMA ReplySettles ==
  ASSUME IInv, NEW c \in Conns, Reply(c), conn[c].alive
  PROVE  Transfer!Next \/ UNCHANGED Transfer!vars
<1> DEFINE K == conn[c]
           m == K.msg
           A == K.named
<1>0. /\ TypeOK /\ K \in Conn /\ Session(c) /\ Envelope(c) /\ Loop(c)
      /\ K.step = "reply" /\ K.alive /\ m \in Msgs /\ m # None /\ A \in SUBSET Addrs
      /\ K.code \in Replies
  BY Fields, AccountAssumption DEF Reply, Session, IInv
<1>1. /\ left' = [left EXCEPT ![m] = IF K.code = 451 THEN @ ELSE @ \ A]
      /\ acked' = [acked EXCEPT ![m] = IF K.code = 250 THEN @ \cup A ELSE @]
      /\ refused' = [refused EXCEPT ![m] = IF K.code \in {552, 554} THEN @ \cup A ELSE @]
      /\ UNCHANGED <<mailboxes, troubled>>
  BY <1>0 DEF Reply
<1>2. A \subseteq left[m] /\ A \in SUBSET Wanted[m]
  BY <1>0 DEF Envelope
<1>3. UNCHANGED <<Transfer!boxes, troubled>>
  BY <1>1 DEF Transfer!boxes, mailboxes
<1>4. /\ left \in [Msgs -> SUBSET Addrs] /\ acked \in [Msgs -> SUBSET Addrs]
      /\ refused \in [Msgs -> SUBSET Addrs]
  BY <1>0 DEF TypeOK
<1>5. CASE K.code = 250
  <2>1. \A a \in A : Account[a] \in stored[m]
    BY <1>0, <1>5 DEF Envelope, Loop
  <2>2. left' = [left EXCEPT ![m] = @ \ A] /\ acked' = [acked EXCEPT ![m] = @ \cup A]
        /\ UNCHANGED refused
    <3> HIDE DEF K, A, m
    <3> QED BY <1>1, <1>4, <1>5
  <2> HIDE DEF m, A
  <2>3. Transfer!Serve(m, A)
    BY <1>2, <1>3, <2>1, <2>2 DEF Transfer!Serve, Transfer!Close
  <2> QED BY <1>0, <1>2, <2>3 DEF Transfer!Next
<1>6. CASE K.code \in {552, 554}
  <2>1. ASSUME m \notin troubled, NEW a \in A, Transfer!Own(m, a) PROVE Account[a] \notin stored[m]
    <3>1. ASSUME NEW d \in Conns, Served(d, m, a) PROVE FALSE
      <4>1. d = c
        BY <1>0, <2>1, <3>1, Undoubted
      <4> QED BY <1>0, <1>6, <3>1, <4>1 DEF Served
    <3> QED BY <1>0, <1>2, <2>1, <3>1, OpenHasNone
  <2>2. left' = [left EXCEPT ![m] = @ \ A] /\ refused' = [refused EXCEPT ![m] = @ \cup A]
        /\ UNCHANGED acked
    <3>1. K.code # 451 /\ K.code # 250
      BY <1>6
    <3> HIDE DEF K, A, m
    <3> QED BY <1>1, <1>4, <1>6, <3>1
  <2> HIDE DEF m, A
  <2>3. Transfer!Refuse(m, A)
    BY <1>2, <1>3, <2>1, <2>2 DEF Transfer!Refuse, Transfer!Close
  <2> QED BY <1>0, <1>2, <2>3 DEF Transfer!Next
<1>7. CASE K.code = 451
  <2>1. UNCHANGED <<left, acked, refused>>
    <3> HIDE DEF K, A, m
    <3> QED BY <1>1, <1>4, <1>7
  <2> QED BY <1>3, <2>1 DEF Transfer!vars, Transfer!answers
<1>8. K.code # 0
  BY <1>0 DEF Session
<1> QED BY <1>0, <1>5, <1>6, <1>7, <1>8 DEF Replies


\* Every other step at most leaves messages in doubt.
LEMMA OtherSteps ==
  ASSUME IInv, NEW c \in Conns,
         \/ NewSession(c) \/ Rset(c) \/ Logout(c) \/ Data(c) \/ OnDeliver(c)
         \/ DeliverFailed(c) \/ GiveUp(c) \/ Crash
         \/ \E m \in Msgs : Mail(c, m)
         \/ \E a \in Addrs : Rcpt(c, a) /\ AcceptsRecipient(a)
         \/ Reply(c) /\ ~conn[c].alive
  PROVE  Transfer!Fail
<1>1. UNCHANGED <<client, mailboxes>>
  BY ZenonT(60) DEF NewSession, Rset, Logout, Data, OnDeliver, DeliverFailed, GiveUp, Crash, Mail, Rcpt, Reply
<1>2. troubled \in SUBSET Msgs
  BY DEF IInv, TypeOK
<1>3. conn[c].step = "deliver" => conn[c].msg \in Msgs
  BY Fields DEF IInv, Session
<1>4. \/ UNCHANGED troubled
      \/ \E ms : troubled' = troubled \cup (ms \cap Msgs)
      \/ conn[c].step = "deliver" /\ troubled' = troubled \cup {conn[c].msg}
  BY DEF NewSession, Rset, Logout, Data, OnDeliver, DeliverFailed, GiveUp, Crash, Mail, Rcpt,
         Reply, Trouble
<1> QED BY <1>1, <1>2, <1>3, <1>4, FailStep, SMTT(40)

\* server.go, with clients that retry, a disk that fails and a process that is
\* killed, implements the contract of MailTransfer: every step that a client or a
\* mailbox notices is one that the contract allows.
THEOREM Refinement == Spec => RefinesTransfer
<1>1. Init => Transfer!Init
  BY DEF Init, Transfer!Init, Transfer!Nothing
<1>2. ASSUME IInv, [Next]_vars PROVE [Transfer!Next]_(Transfer!vars)
  <2>1. CASE UNCHANGED vars
    BY <2>1 DEF vars, client, mailboxes, Transfer!vars, Transfer!answers, Transfer!boxes
  <2>2. ASSUME NEW c \in Conns, Deliver(c) PROVE Transfer!Next
    BY <1>2, <2>2, DeliverStores DEF Transfer!Next
  <2>3. ASSUME NEW c \in Conns, NEW a \in Addrs, Rcpt(c, a), ~AcceptsRecipient(a)
        PROVE  Transfer!Next
    BY <1>2, <2>3, RcptRefuses DEF Transfer!Next
  <2>4. ASSUME NEW c \in Conns, Reply(c), conn[c].alive PROVE [Transfer!Next]_(Transfer!vars)
    BY <1>2, <2>4, ReplySettles
  <2>5. ASSUME NEW c \in Conns, Command(c) \/ Serve(c) \/ GiveUp(c) \/ Crash
        PROVE  [Transfer!Next]_(Transfer!vars)
    <3>1. CASE Deliver(c)
      BY <2>2, <3>1
    <3>2. CASE \E a \in Addrs : Rcpt(c, a) /\ ~AcceptsRecipient(a)
      BY <2>3, <3>2
    <3>3. CASE Reply(c) /\ conn[c].alive
      BY <2>4, <3>3
    <3>4. CASE Transfer!Fail
      BY <3>4 DEF Transfer!Next
    <3> QED BY <1>2, <2>5, <3>1, <3>2, <3>3, <3>4, OtherSteps DEF Command, Serve
  <2>6. Crash => Conns # {}
    BY DEF Crash
  <2> QED BY <1>2, <2>1, <2>5, <2>6 DEF Next
<1> QED BY <1>1, <1>2, Invariance, PTL DEF Spec, RefinesTransfer, Transfer!Spec
=============================================================================
