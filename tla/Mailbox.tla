------------------------------ MODULE Mailbox ------------------------------
(***************************************************************************)
(* What the mail store promises, with every operation atomic: a message    *)
(* appears once, unread; it may become read; it may be removed; nothing    *)
(* else ever happens to it.  Maildir implements this specification.        *)
(***************************************************************************)

CONSTANT Ids            \* the identifiers of all messages ever delivered

VARIABLE box            \* box[i] is the status of message i

Status == {"absent", "unread", "read", "deleted"}

Init == box = [i \in Ids |-> "absent"]

Become(i, from, to) == /\ box[i] \in from
                       /\ box' = [box EXCEPT ![i] = to]

\* Store.Deliver succeeded.
Deliver(i) == Become(i, {"absent"}, "unread")

\* Store.Open moved an unread message to cur/.
MarkRead(i) == Become(i, {"unread"}, "read")

\* Store.Delete removed the message.
Remove(i) == Become(i, {"unread", "read"}, "deleted")

Next == \E i \in Ids : Deliver(i) \/ MarkRead(i) \/ Remove(i)

Spec == Init /\ [][Next]_box
=============================================================================
