---------------------------- MODULE MailTransfer ----------------------------
(***************************************************************************)
(* What a client that hands its mail to the server may rely on.  The fate  *)
(* of an address is open until an answer settles it, once and for all; a   *)
(* copy, once in a mailbox, stays.  Smtp implements this specification.    *)
(*                                                                         *)
(* A message is in doubt when an attempt ended without an answer, or with  *)
(* a request to try again.  Then a copy may be stored that its client does *)
(* not know of; otherwise the answers and the mailboxes agree.             *)
(***************************************************************************)
CONSTANTS
  Msgs,           \* the messages that clients have to deliver
  Account,        \* Account[a]: the mailbox that address a leads to
  Wanted,         \* Wanted[m]: the addresses that message m is for
  Accepted        \* the addresses that the server takes mail for

VARIABLES
  open,           \* open[m]: the addresses whose fate is open
  served,         \* served[m]: those that m was delivered to, as the client knows
  refused,        \* refused[m]: those that it was not delivered to
  held,           \* held[m]: the mailboxes with a copy of m
  twice,          \* twice[m]: the mailboxes with more than one
  doubt           \* the messages in doubt

answers == <<open, served, refused>>
boxes   == <<held, twice>>
vars    == <<answers, boxes, doubt>>

Nothing == [m \in Msgs |-> {}]

Init == open = Wanted /\ served = Nothing /\ refused = Nothing
        /\ held = Nothing /\ twice = Nothing /\ doubt = {}

\* No other address of the envelope of m leads to the mailbox of a.
Own(m, a) == \A x \in Wanted[m] \ {a} : Account[x] # Account[a]

\* A copy is stored for an address of the envelope that the server takes mail for.
\* Unless m is in doubt, that address is open, and it is the first copy for it.
Store(m, a) ==
  LET b == Account[a] IN
  /\ a \in Accepted
  /\ m \notin doubt => a \in open[m] /\ (Own(m, a) => b \notin held[m])
  /\ held' = [held EXCEPT ![m] = @ \cup {b}]
  /\ twice' = [twice EXCEPT ![m] = IF b \in held[m] THEN @ \cup {b} ELSE @]
  /\ UNCHANGED <<answers, doubt>>

Close(m, A) == /\ A \subseteq open[m]
               /\ open' = [open EXCEPT ![m] = @ \ A]

\* The client is told that m is delivered to the addresses A: it is.
Serve(m, A) ==
  /\ \A a \in A : Account[a] \in held[m]
  /\ Close(m, A)
  /\ served' = [served EXCEPT ![m] = @ \cup A]
  /\ UNCHANGED <<refused, boxes, doubt>>

\* The client is told that m is not delivered to A.  Unless m is in doubt, it is not.
Refuse(m, A) ==
  /\ m \notin doubt => \A a \in A : Own(m, a) => Account[a] \notin held[m]
  /\ Close(m, A)
  /\ refused' = [refused EXCEPT ![m] = @ \cup A]
  /\ UNCHANGED <<served, boxes, doubt>>

\* Attempts fail.
Fail == /\ doubt \subseteq doubt' /\ doubt' \subseteq Msgs
        /\ UNCHANGED <<answers, boxes>>

Next == \/ Fail
        \/ \E m \in Msgs : \/ \E a \in Wanted[m] : Store(m, a)
                           \/ \E A \in SUBSET Wanted[m] : Serve(m, A) \/ Refuse(m, A)

Spec == Init /\ [][Next]_vars
=============================================================================
