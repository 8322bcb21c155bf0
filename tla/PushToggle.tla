----------------------------- MODULE PushToggle -----------------------------
(***************************************************************************)
(* The button of the list page that turns notifications on and off,        *)
(* internal/web/static/push.js, against the server of Push: a browser with *)
(* its push subscription and its tabs, each with a button of its own.      *)
(* Requests and answers may be lost, the server may be down, and the push  *)
(* service may retire the subscription.  Requests of other browsers, about *)
(* other endpoints, are left to Push.                                      *)
(***************************************************************************)
EXTENDS Push

CONSTANT Tabs           \* the tabs of the browser that show the list

VARIABLES
  sub,            \* pushManager.getSubscription(), an endpoint or None
  mine,           \* the endpoints that the browser has ever had
  tab,            \* tab[t]: the button of t and the click that it works on
  reply,          \* reply[h]: the answer of h that a tab has not read yet
  told            \* history: told[t]: the endpoint that t's last click was about,
                  \* once the click has succeeded, if nothing disturbs it; or Pending

browser    == <<sub, mine, tab, reply, told>>
toggleVars == <<vars, browser>>

-----------------------------------------------------------------------------
\* The click of a tab waits for the answer of handler h to a request about ep.
Tab == [on : BOOLEAN, op : {"none", "in", "out"}, ep : Endpoints \cup {None},
        h : Handlers \cup {None}]

Ready(on) == [on |-> on, op |-> "none", ep |-> None, h |-> None]
Busy(t)   == tab[t].op # "none"

\* render.
Render(t, on) == tab' = [tab EXCEPT ![t] = Ready(on)]

\* The promise is rejected: an alert, and the button stays as it is.
Alert(t) == Render(t, tab[t].on)

Untold(t) == told' = [told EXCEPT ![t] = None]

\* The history: a click on t that is about endpoint e, while no other tab, and no
\* request given up earlier, has to do with it, may tell something.
Pending == "pending"
ASSUME PendingAssumption == Pending \notin Endpoints \cup {None}
Clicked(t, e) ==
  told' = [u \in Tabs |->
             IF u = t /\ (\A v \in Tabs \ {t} : ~Busy(v)) /\ (\A h \in Handlers : call[h].ep # e)
             THEN Pending ELSE None]

Told(t) == told' = IF told[t] = Pending THEN [told EXCEPT ![t] = tab[t].ep] ELSE told

\* subscribe() returns the subscription of the browser, or a new one.
Subscription == IF sub # None THEN {sub} ELSE Endpoints \ mine

-----------------------------------------------------------------------------
\* The page is loaded, and the button shows whether there is a subscription.
Load(t) ==
  /\ ~Busy(t)
  /\ tab[t].on # (sub # None)
  /\ Render(t, sub # None)
  /\ Untold(t)
  /\ UNCHANGED <<vars, sub, mine, reply>>

\* A tab that waits has its handler to itself.
Free(h) == \A t \in Tabs : tab[t].h # h

\* postJSON: the request reaches the server, or fails at once.
Post(t, op, e) ==
  \/ \E h \in Handlers : /\ Free(h)
                        /\ Begin(h, op, e)
                        /\ tab' = [tab EXCEPT ![t] = [@ EXCEPT !.op = op, !.ep = e, !.h = h]]
  \/ Alert(t) /\ UNCHANGED vars

\* A click on a button that is on, when there is still a subscription.
ClickOff(t) ==
  /\ ~Busy(t) /\ tab[t].on /\ sub # None
  /\ Post(t, "out", sub)
  /\ Clicked(t, sub)
  /\ UNCHANGED <<sub, mine, reply>>

\* When there is none any more.
ClickStale(t) ==
  /\ ~Busy(t) /\ tab[t].on /\ sub = None
  /\ Render(t, FALSE)
  /\ Untold(t)
  /\ UNCHANGED <<vars, sub, mine, reply>>

\* A click on a button that is off; a permission that is refused changes nothing.
ClickOn(t) ==
  /\ ~Busy(t) /\ ~tab[t].on
  /\ \E e \in Subscription :
       /\ sub' = e
       /\ mine' = mine \cup {e}
       /\ Post(t, "in", e)
       /\ Clicked(t, e)
  /\ UNCHANGED reply

\* Mutant: postJSON does not look at the status of the answer.
AnsweredAny(t) == Busy(t) /\ call[tab[t].h] = Idle

\* The answer, with a status that is ok.
Answered(t) == Busy(t) /\ call[tab[t].h] = Idle /\ reply[tab[t].h] = "ok"

Read(t) == reply' = [reply EXCEPT ![tab[t].h] = "none"]

\* Then the browser drops its subscription, and the push service the endpoint;
\* or the browser cannot reach the push service.
AnswerOff(t) ==
  /\ Answered(t) /\ tab[t].op = "out"
  /\ \/ /\ sub' = IF sub = tab[t].ep THEN None ELSE sub
        /\ gone' = gone \cup {tab[t].ep}
        /\ Render(t, sub' # None)
        /\ Told(t)
     \/ Alert(t) /\ Untold(t) /\ UNCHANGED <<sub, gone>>
  /\ Read(t)
  /\ UNCHANGED <<up, subs, storage, lock, call, sure, mine>>

AnswerOn(t) ==
  /\ Answered(t) /\ tab[t].op = "in"
  /\ Render(t, sub # None)
  /\ IF tab[t].ep \in gone THEN Untold(t) ELSE Told(t)
  /\ Read(t)
  /\ UNCHANGED <<vars, sub, mine>>

\* Another status, or none: the connection is lost, while the handler goes on.
NoAnswer(t) ==
  /\ Busy(t) /\ ~Answered(t)
  /\ Alert(t)
  /\ Untold(t)
  /\ Read(t)
  /\ UNCHANGED <<vars, sub, mine>>

-----------------------------------------------------------------------------
\* The push service retires the subscription; the browser notices, or not yet.
Revoke(e) ==
  /\ Retire(e)
  /\ sub' \in IF sub = e THEN {sub, None} ELSE {sub}
  /\ told' = [t \in Tabs |-> IF told[t] = e THEN None ELSE told[t]]
  /\ UNCHANGED <<mine, tab, reply>>

\* A handler answers; nobody hears it if the tab has given up.
Reply(p, status) ==
  reply' = IF \E t \in Tabs : tab[t].h = p THEN [reply EXCEPT ![p] = status] ELSE reply

Server ==
  /\ \/ \E p \in Procs : Rename(p) /\ Reply(p, "ok")
     \/ \E p \in Procs : Fail(p) /\ Reply(p, "failed")
     \/ \E p \in Procs : (Update(p) \/ Write(p)) /\ UNCHANGED reply
     \/ \E n \in Notifiers : Notify(n) /\ UNCHANGED reply
     \/ \E p \in Senders : Send(p) /\ UNCHANGED reply
     \/ (Crash \/ New) /\ UNCHANGED reply
  /\ UNCHANGED <<sub, mine, tab, told>>

ToggleInit ==
  /\ Init
  /\ sub = None
  /\ mine = {}
  /\ tab = [t \in Tabs |-> Ready(FALSE)]
  /\ reply = [h \in Handlers |-> "none"]
  /\ told = [t \in Tabs |-> None]

Click(t)  == ClickOff(t) \/ ClickStale(t) \/ ClickOn(t)
Settle(t) == AnswerOff(t) \/ AnswerOn(t) \/ NoAnswer(t)

ToggleNext == \/ Server
              \/ \E t \in Tabs : Load(t) \/ Click(t) \/ Settle(t)
              \/ \E e \in Endpoints : Revoke(e)

ToggleSpec == ToggleInit /\ [][ToggleNext]_toggleVars

-----------------------------------------------------------------------------
(* Properties.                                                             *)

\* A click that succeeds tells the truth: if the button is then on, the browser
\* has a subscription and the server keeps it, in memory and on disk, across
\* failing saves and restarts; if it is off, the browser has none and the push
\* service delivers nothing to the old one.  So it remains until another tab is
\* clicked or the push service retires the subscription.
ButtonTruth ==
  \A t \in Tabs : told[t] \in Endpoints =>
    IF tab[t].on
    THEN sub = told[t] /\ sub \in file /\ (up => sub \in subs)
    ELSE sub = None /\ told[t] \in gone

\* The types of the variables.
ToggleTypeOK ==
  /\ sub \in Endpoints \cup {None}
  /\ mine \in SUBSET Endpoints
  /\ tab \in [Tabs -> Tab]
  /\ reply \in [Handlers -> {"none", "ok", "failed"}]
  /\ told \in [Tabs -> Endpoints \cup {None, Pending}]
=============================================================================
