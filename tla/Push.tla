-------------------------------- MODULE Push --------------------------------
(***************************************************************************)
(* The push subscriptions of internal/push/push.go: a map in memory and a  *)
(* file that is rewritten on every change, both under Service.mu; the HTTP *)
(* handlers that subscribe and unsubscribe endpoints; and Notify, which    *)
(* copies the map, sends without the lock, and removes the endpoints that  *)
(* the push service reports gone.  The process may be killed at any point  *)
(* and is then started again.                                              *)
(*                                                                         *)
(* A subscription is its endpoint, the key of Service.subs; the encryption *)
(* keys that come with it play no role here.                               *)
(***************************************************************************)
EXTENDS Naturals

CONSTANTS
  Endpoints,      \* the endpoints that browsers may register
  Handlers,       \* goroutines of /api/push/subscribe and unsubscribe
  Notifiers,      \* goroutines of notifyPush
  Faults,         \* the system calls of saveLocked that may fail
  None            \* no endpoint, no process, no answer

ASSUME FaultsAssumption == Faults \subseteq {"write", "rename"}
ASSUME NoneAssumption == None \notin Endpoints \cup Handlers \cup (Notifiers \X Endpoints)
ASSUME HandlersAssumption == Handlers \cap (Notifiers \X Endpoints) = {}

VARIABLES
  up,             \* the service runs
  subs,           \* Service.subs
  tmp, file,      \* what push_subscriptions.json.tmp and the file itself list
  lock,           \* who holds Service.mu
  call,           \* call[p]: the Subscribe, Unsubscribe or send that p runs
  gone,           \* the endpoints that the push service has retired
  sure            \* history: sure[e]: what the answers to the requests about e
                  \* say: it is subscribed ("in"), it is not ("out"), or nothing

storage == <<tmp, file>>
vars    == <<up, subs, storage, lock, call, gone, sure>>

-----------------------------------------------------------------------------
\* A goroutine of Notify sends to one endpoint.
Senders == Notifiers \X Endpoints
Procs   == Handlers \cup Senders

Steps == {"idle", "send", "lock", "write", "rename"}

\* op is what p asks of endpoint ep.
Call == [step : Steps, op : {"none", "in", "out"}, ep : Endpoints \cup {None}]
Idle == [step |-> "idle", op |-> "none", ep |-> None]

Goto(p, s) == call' = [call EXCEPT ![p].step = s]

\* Requests of other handlers about the same endpoint are under way.
Contested(p, e) == \E h \in Handlers \ {p} : call[h].ep = e

\* The call of p returns, and a handler answers its request.
Return(p, ok) ==
  /\ call' = [call EXCEPT ![p] = Idle]
  /\ lock' = None
  /\ sure' = IF p \in Handlers /\ ok /\ ~Contested(p, call[p].ep)
             THEN [sure EXCEPT ![call[p].ep] = call[p].op]
             ELSE sure

-----------------------------------------------------------------------------
(* Subscribe and Unsubscribe.                                              *)

\* A request that passes the checks at the top of Subscribe, or of the handler.
\* One that does not is answered at once.
Begin(h, op, e) ==
  /\ up
  /\ call[h] = Idle
  /\ call' = [call EXCEPT ![h] = [step |-> "lock", op |-> op, ep |-> e]]
  /\ sure' = [sure EXCEPT ![e] = "none"]
  /\ UNCHANGED <<up, subs, storage, lock, gone>>

\* mu.Lock, and the change of the map.
Update(p) ==
  /\ call[p].step = "lock"
  /\ lock = None
  /\ lock' = p
  /\ subs' = IF call[p].op = "in" THEN subs \cup {call[p].ep} ELSE subs \ {call[p].ep}
  /\ Goto(p, "write")
  /\ UNCHANGED <<up, storage, gone, sure>>

\* saveLocked: the temporary file is written.
Write(p) ==
  /\ call[p].step = "write"
  /\ tmp' = subs
  /\ Goto(p, "rename")
  /\ UNCHANGED <<up, subs, file, lock, gone, sure>>

\* Mutant: mu stays locked when the file cannot be written.
WriteFailsLocked(p) ==
  /\ "write" \in Faults
  /\ call[p].step = "write"
  /\ tmp' \in SUBSET subs
  /\ call' = [call EXCEPT ![p] = Idle]
  /\ UNCHANGED <<up, subs, file, lock, gone, sure>>

\* A failure leaves a part of it.
WriteFails(p) ==
  /\ "write" \in Faults
  /\ call[p].step = "write"
  /\ tmp' \in SUBSET subs
  /\ Return(p, FALSE)
  /\ UNCHANGED <<up, subs, file, gone>>

\* saveLocked: the rename.
Rename(p) ==
  /\ call[p].step = "rename"
  /\ file' = tmp
  /\ Return(p, TRUE)
  /\ UNCHANGED <<up, subs, tmp, gone>>

RenameFails(p) ==
  /\ "rename" \in Faults
  /\ call[p].step = "rename"
  /\ Return(p, FALSE)
  /\ UNCHANGED <<up, subs, tmp, file, gone>>

-----------------------------------------------------------------------------
(* Notify.                                                                 *)

\* notifyPush calls Notify, which copies the map and starts a goroutine for each
\* subscription in it.  It returns when they have all returned.
Notify(n) ==
  /\ up
  /\ lock = None
  /\ \A e \in Endpoints : call[<<n, e>>] = Idle
  /\ subs # {}
  /\ call' = [p \in Procs |->
                IF \E e \in subs : p = <<n, e>>
                THEN [step |-> "send", op |-> "out", ep |-> p[2]] ELSE call[p]]
  /\ UNCHANGED <<up, subs, storage, lock, gone, sure>>

\* Mutant: every failure to send removes the endpoint.
SendAnyError(p) ==
  /\ call[p].step = "send"
  /\ \/ Goto(p, "lock")
     \/ call' = [call EXCEPT ![p] = Idle]
  /\ UNCHANGED <<up, subs, storage, lock, gone, sure>>

\* The answer is 404 or 410, and Unsubscribe is called; or it is another one, or
\* there is none within notifyTimeout.
Send(p) ==
  /\ call[p].step = "send"
  /\ \/ p[2] \in gone /\ Goto(p, "lock")
     \/ call' = [call EXCEPT ![p] = Idle]
  /\ UNCHANGED <<up, subs, storage, lock, gone, sure>>

-----------------------------------------------------------------------------
\* The push service retires an endpoint: the user revoked the permission.
Retire(e) ==
  /\ e \notin gone
  /\ gone' = gone \cup {e}
  /\ UNCHANGED <<up, subs, storage, lock, call, sure>>

\* The process is killed: all but the files is lost.
Crash ==
  /\ up
  /\ up' = FALSE
  /\ subs' = {}
  /\ lock' = None
  /\ call' = [p \in Procs |-> Idle]
  /\ UNCHANGED <<storage, gone, sure>>

\* New loads the file.
New ==
  /\ ~up
  /\ up' = TRUE
  /\ subs' = file
  /\ UNCHANGED <<storage, lock, call, gone, sure>>

-----------------------------------------------------------------------------
Init ==
  /\ up = FALSE
  /\ subs = {}
  /\ tmp = {}
  /\ file = {}
  /\ lock = None
  /\ call = [p \in Procs |-> Idle]
  /\ gone = {}
  /\ sure = [e \in Endpoints |-> "none"]

Request(h) == \E e \in Endpoints, op \in {"in", "out"} : Begin(h, op, e)
Fail(p)    == WriteFails(p) \/ RenameFails(p)
Save(p)    == Update(p) \/ Write(p) \/ Rename(p) \/ Fail(p)

Next == \/ \E h \in Handlers : Request(h)
        \/ \E p \in Procs : Save(p)
        \/ \E n \in Notifiers : Notify(n)
        \/ \E p \in Senders : Send(p)
        \/ \E e \in Endpoints : Retire(e)
        \/ Crash \/ New

\* A goroutine that runs goes on, and sync.Mutex starves nobody; a send ends by
\* notifyTimeout.
Fairness == /\ \A p \in Handlers : SF_vars(Save(p))
            /\ \A p \in Senders : SF_vars(Save(p) \/ Send(p))

Spec == Init /\ [][Next]_vars /\ Fairness

-----------------------------------------------------------------------------
(* Properties.                                                             *)

\* An endpoint whose last request was Subscribe and succeeded is in the file, and
\* gets the next notification, until its push service retires it; one whose last
\* request was Unsubscribe and succeeded is in neither, and stays out.  Neither a
\* Notify that copied the map earlier, nor a save that fails, nor a restart
\* changes that.
AnswersHold ==
  \A e \in Endpoints :
    /\ sure[e] = "in" /\ e \notin gone => e \in file /\ (up => e \in subs)
    /\ sure[e] = "out" => e \notin file /\ (up => e \notin subs)

\* No call waits forever: neither a request, nor a Notify, whatever the disk and
\* the push service do.
CallsReturn == \A p \in Procs : call[p].step # "idle" ~> call[p].step = "idle"

\* The types of the variables.
TypeOK ==
  /\ up \in BOOLEAN
  /\ subs \in SUBSET Endpoints
  /\ tmp \in SUBSET Endpoints
  /\ file \in SUBSET Endpoints
  /\ lock \in Procs \cup {None}
  /\ call \in [Procs -> Call]
  /\ gone \in SUBSET Endpoints
  /\ sure \in [Endpoints -> {"none", "in", "out"}]
=============================================================================
