----------------------------- MODULE PushProofs -----------------------------
(***************************************************************************)
(* Proofs about Push and PushToggle, for any number of endpoints, handlers,*)
(* notifications and tabs, and any set of failing system calls.            *)
(***************************************************************************)
EXTENDS PushToggle, TLAPS

-----------------------------------------------------------------------------
(* The inductive invariant.                                                *)

\* Who is inside saveLocked holds the mutex, and nobody else does; a process that
\* does not run has no calls.
LockHeld ==
  /\ \A p \in Procs : call[p].step \in {"write", "rename"} <=> lock = p
  /\ ~up => subs = {} /\ call = [p \in Procs |-> Idle]

\* A call that is under way is about an endpoint; only requests subscribe, and only
\* a goroutine of Notify that was told so removes a subscription of its own accord.
Purpose ==
  /\ \A p \in Procs :
       IF call[p].step = "idle" THEN call[p] = Idle
       ELSE call[p].ep \in Endpoints /\ call[p].op \in {"in", "out"}
  /\ \A h \in Handlers : call[h].step # "send"
  /\ \A p \in Senders : call[p].step # "idle" =>
       /\ call[p].op = "out" /\ call[p].ep = p[2]
       /\ call[p].step # "send" => call[p].ep \in gone

\* Between the change of the map and the rename the map is as the call made it,
\* and the temporary file, once written, is a copy of it.
Saving ==
  \A p \in Procs :
    /\ call[p].step \in {"write", "rename"} => (call[p].ep \in subs <=> call[p].op = "in")
    /\ call[p].step = "rename" => tmp = subs

\* An endpoint about which the answers say something is in nobody's hands.
Unasked == \A e \in Endpoints : sure[e] # "none" => \A h \in Handlers : call[h].ep # e

IInv == TypeOK /\ LockHeld /\ Purpose /\ Saving /\ Unasked /\ AnswersHold

\* A busy tab waits for a handler of its own, which works on its request or has
\* returned; an answer that nobody waits for is thrown away.
OwnHandler ==
  /\ \A t \in Tabs : IF Busy(t) THEN tab[t].h \in Handlers /\ tab[t].ep \in Endpoints
                     ELSE tab[t].h = None
  /\ \A t, u \in Tabs : Busy(t) /\ tab[t].h = tab[u].h => t = u
  /\ \A t \in Tabs : Busy(t) =>
       \/ call[tab[t].h] = Idle
       \/ call[tab[t].h].ep = tab[t].ep /\ call[tab[t].h].op = tab[t].op
  /\ \A h \in Handlers : reply[h] # "none" =>
       call[h] = Idle /\ \E t \in Tabs : tab[t].h = h

\* A tab whose last click may tell something is alone.
Undisturbed ==
  \A t \in Tabs :
    /\ told[t] # None => \A u \in Tabs \ {t} : ~Busy(u)
    /\ told[t] \in Endpoints => ~Busy(t)

\* A click under way: nobody else asks about its endpoint, the subscription of the
\* browser is what it was, and an answer that is ok is what the server knows.
UnderWay ==
  \A t \in Tabs : told[t] = Pending /\ Busy(t) =>
    LET e == tab[t].ep
    IN  /\ \A h \in Handlers \ {tab[t].h} : call[h].ep # e
        /\ tab[t].op = "in" /\ e \notin gone => sub = e
        /\ tab[t].op = "out" => sub \in {e, None}
        /\ reply[tab[t].h] = "ok" => sure[e] = tab[t].op

\* What a click that has succeeded tells.
Settled ==
  \A t \in Tabs : told[t] \in Endpoints =>
    IF tab[t].on
    THEN sub = told[t] /\ sub \notin gone /\ sure[sub] = "in"
    ELSE sub = None /\ told[t] \in gone

ToggleInv == IInv /\ ToggleTypeOK /\ OwnHandler /\ Undisturbed /\ UnderWay /\ Settled

-----------------------------------------------------------------------------
(* Push.                                                                   *)

\* The goroutines, and a call that is not under way.
LEMMA Goroutines ==
  /\ Handlers \subseteq Procs /\ Senders \subseteq Procs
  /\ None \notin Procs
  /\ \A h \in Handlers : h \notin Senders
  /\ \A p \in Senders : p[2] \in Endpoints
  /\ Idle \in Call /\ Idle.step = "idle" /\ Idle.ep = None /\ Idle.op = "none"
  /\ None \notin Endpoints
<1>1. None \notin Endpoints /\ None \notin Procs
  BY NoneAssumption DEF Procs, Senders
<1>2. \A h \in Handlers : h \notin Senders
  BY HandlersAssumption DEF Senders
<1>3. \A p \in Senders : p[2] \in Endpoints
  BY DEF Senders
<1>4. Idle \in Call /\ Idle.step = "idle" /\ Idle.ep = None /\ Idle.op = "none"
  BY DEF Idle, Call, Steps
<1> QED BY <1>1, <1>2, <1>3, <1>4 DEF Procs

\* Init establishes the invariant.
LEMMA InitInv == Init => IInv
<1> SUFFICES ASSUME Init PROVE IInv
  OBVIOUS
<1> USE Goroutines
<1>1. TypeOK
  BY DEF Init, TypeOK
<1>2. LockHeld
  BY DEF Init, LockHeld
<1>3. Purpose
  BY DEF Init, Purpose
<1>4. Saving
  BY DEF Init, Saving
<1>5. Unasked /\ AnswersHold
  BY DEF Init, Unasked, AnswersHold
<1> QED BY <1>1, <1>2, <1>3, <1>4, <1>5 DEF IInv

\* The new call of one goroutine leaves those of the others alone.
LEMMA OneCall ==
  ASSUME TypeOK, NEW p \in Procs, NEW k \in Call, call' = [call EXCEPT ![p] = k]
  PROVE  /\ call' \in [Procs -> Call]
         /\ call'[p] = k
         /\ \A q \in Procs \ {p} : call'[q] = call[q]
BY DEF TypeOK

\* The same for a step forward in one call.
LEMMA OneGoto ==
  ASSUME TypeOK, NEW p \in Procs, NEW s \in Steps, Goto(p, s)
  PROVE  /\ call' \in [Procs -> Call]
         /\ call'[p].step = s /\ call'[p].op = call[p].op /\ call'[p].ep = call[p].ep
         /\ \A q \in Procs \ {p} : call'[q] = call[q]
<1>1. call[p] \in Call /\ DOMAIN call = Procs
  BY DEF TypeOK
<1>2. [call[p] EXCEPT !.step = s] \in Call
  BY <1>1 DEF Call
<1>3. call' = [call EXCEPT ![p] = [call[p] EXCEPT !.step = s]]
  BY <1>1 DEF Goto
<1>4. /\ [call[p] EXCEPT !.step = s].step = s
      /\ [call[p] EXCEPT !.step = s].op = call[p].op
      /\ [call[p] EXCEPT !.step = s].ep = call[p].ep
  BY <1>1 DEF Call
<1> QED BY <1>2, <1>3, <1>4, OneCall

\* A request begins.
LEMMA BeginInv ==
  ASSUME IInv, NEW h \in Handlers, NEW op \in {"in", "out"}, NEW e \in Endpoints,
         Begin(h, op, e)
  PROVE  IInv'
<1> USE Goroutines DEF IInv
<1> DEFINE k == [step |-> "lock", op |-> op, ep |-> e]
<1>1. k \in Call
  BY DEF Call, Steps
<1>2. /\ call' \in [Procs -> Call] /\ call'[h] = k
      /\ \A q \in Procs \ {h} : call'[q] = call[q]
  BY <1>1, OneCall DEF Begin
<1>3. /\ up /\ up' = up /\ call[h] = Idle
      /\ UNCHANGED <<subs, tmp, file, lock, gone>>
      /\ sure' = [sure EXCEPT ![e] = "none"]
  BY DEF Begin, storage
<1>4. TypeOK'
  BY <1>2, <1>3 DEF TypeOK
<1>5. LockHeld'
  BY <1>2, <1>3 DEF LockHeld
<1>6. Purpose'
  BY <1>2, <1>3 DEF Purpose
<1>7. Saving'
  BY <1>2, <1>3 DEF Saving
<1>8. Unasked' /\ AnswersHold'
  <2>1. \A d \in Endpoints : sure'[d] # "none" => d # e /\ sure'[d] = sure[d]
    BY <1>3 DEF TypeOK
  <2> QED BY <1>2, <1>3, <2>1 DEF Unasked, AnswersHold
<1> QED BY <1>4, <1>5, <1>6, <1>7, <1>8

\* The map is changed.
LEMMA UpdateInv ==
  ASSUME IInv, NEW p \in Procs, Update(p)
  PROVE  IInv'
<1> USE Goroutines DEF IInv
<1> DEFINE e == call[p].ep
<1>1. call[p].step = "lock" /\ lock = None /\ lock' = p
  BY DEF Update
<1>2. /\ call' \in [Procs -> Call]
      /\ call'[p].step = "write" /\ call'[p].op = call[p].op /\ call'[p].ep = call[p].ep
      /\ \A q \in Procs \ {p} : call'[q] = call[q]
  BY OneGoto DEF Update, Steps
<1>3. UNCHANGED <<up, tmp, file, gone, sure>>
  BY DEF Update, storage
<1>4. e \in Endpoints /\ call[p].op \in {"in", "out"}
  BY <1>1 DEF Purpose
<1>5. /\ subs' = IF call[p].op = "in" THEN subs \cup {e} ELSE subs \ {e}
      /\ subs' \in SUBSET Endpoints
  BY <1>4 DEF Update, TypeOK
<1>6. up
  BY <1>1 DEF LockHeld
<1>7. TypeOK'
  BY <1>1, <1>2, <1>3, <1>5 DEF TypeOK
<1>8. LockHeld'
  BY <1>1, <1>2, <1>3, <1>6 DEF LockHeld
<1>9. Purpose'
  BY <1>1, <1>2, <1>3 DEF Purpose
<1>10. Saving'
  BY <1>1, <1>2, <1>3, <1>4, <1>5 DEF Saving, LockHeld
<1>11. Unasked'
  BY <1>2, <1>3 DEF Unasked
<1>12. AnswersHold'
  <2>1. CASE p \in Handlers
    <3>1. sure[e] = "none"
      BY <1>4, <2>1 DEF Unasked, TypeOK
    <3> QED BY <1>3, <1>5, <1>6, <3>1 DEF AnswersHold
  <2>2. CASE p \in Senders
    <3>1. call[p].op = "out" /\ e \in gone
      BY <1>1, <2>2 DEF Purpose
    <3> QED BY <1>3, <1>5, <1>6, <3>1 DEF AnswersHold
  <2> QED BY <2>1, <2>2 DEF Procs
<1> QED BY <1>7, <1>8, <1>9, <1>10, <1>11, <1>12

\* The temporary file is written.
LEMMA WriteInv ==
  ASSUME IInv, NEW p \in Procs, Write(p)
  PROVE  IInv'
<1> USE Goroutines DEF IInv
<1>1. call[p].step = "write" /\ tmp' = subs
  BY DEF Write
<1>2. /\ call' \in [Procs -> Call]
      /\ call'[p].step = "rename" /\ call'[p].op = call[p].op /\ call'[p].ep = call[p].ep
      /\ \A q \in Procs \ {p} : call'[q] = call[q]
  BY OneGoto DEF Write, Steps
<1>3. UNCHANGED <<up, subs, file, lock, gone, sure>>
  BY DEF Write
<1>4. lock = p /\ up
  BY <1>1 DEF LockHeld
<1>5. TypeOK'
  BY <1>1, <1>2, <1>3 DEF TypeOK
<1>6. LockHeld'
  BY <1>1, <1>2, <1>3, <1>4 DEF LockHeld
<1>7. Purpose'
  BY <1>1, <1>2, <1>3 DEF Purpose
<1>8. Saving'
  BY <1>1, <1>2, <1>3, <1>4 DEF Saving, LockHeld
<1>9. Unasked' /\ AnswersHold'
  BY <1>2, <1>3 DEF Unasked, AnswersHold
<1> QED BY <1>5, <1>6, <1>7, <1>8, <1>9

\* A call returns, with its work done or not: all that remains to be shown is what
\* the answers say.
LEMMA ReturnInv ==
  ASSUME IInv, NEW p \in Procs, NEW ok \in BOOLEAN, Return(p, ok),
         call[p].step \in {"write", "rename"},
         UNCHANGED <<up, subs, gone>>, tmp' \in SUBSET Endpoints, file' \in SUBSET Endpoints
  PROVE  /\ TypeOK' /\ LockHeld' /\ Purpose' /\ Saving' /\ Unasked'
         /\ \A d \in Endpoints :
              \/ sure'[d] = sure[d]
              \/ ok /\ d = call[p].ep /\ p \in Handlers /\ sure'[d] = call[p].op
<1> USE Goroutines DEF IInv
<1> DEFINE e == call[p].ep
<1>1. /\ call' \in [Procs -> Call] /\ call'[p] = Idle
      /\ \A q \in Procs \ {p} : call'[q] = call[q]
  BY OneCall DEF Return
<1>2. lock = p /\ up /\ lock' = None
  BY DEF LockHeld, Return
<1>3. e \in Endpoints /\ call[p].op \in {"in", "out"}
  BY DEF Purpose
<1>4. /\ sure' \in [Endpoints -> {"none", "in", "out"}]
      /\ \A d \in Endpoints :
           \/ sure'[d] = sure[d]
           \/ ok /\ d = e /\ p \in Handlers /\ sure'[d] = call[p].op /\ ~Contested(p, e)
  BY <1>3 DEF Return, TypeOK
<1>5. TypeOK'
  BY <1>1, <1>2, <1>4 DEF TypeOK
<1>6. LockHeld'
  BY <1>1, <1>2 DEF LockHeld
<1>7. Purpose'
  BY <1>1 DEF Purpose
<1>8. \A q \in Procs : call'[q].step \notin {"write", "rename"}
  BY <1>1, <1>2 DEF LockHeld
<1>9. Saving'
  BY <1>8 DEF Saving
<1>10. Unasked'
  <2> SUFFICES ASSUME NEW d \in Endpoints, sure'[d] # "none", NEW h \in Handlers
               PROVE  call'[h].ep # d
    BY DEF Unasked
  <2>1. CASE sure'[d] = sure[d]
    BY <1>1, <2>1 DEF Unasked
  <2>2. CASE sure'[d] # sure[d]
    BY <1>1, <1>4, <2>2 DEF Contested
  <2> QED BY <2>1, <2>2
<1> QED BY <1>4, <1>5, <1>6, <1>7, <1>9, <1>10

\* The rename succeeds: the file is a copy of the map.
LEMMA RenameInv ==
  ASSUME IInv, NEW p \in Procs, Rename(p)
  PROVE  IInv'
<1> USE Goroutines DEF IInv
<1>1. /\ call[p].step = "rename" /\ file' = tmp /\ Return(p, TRUE)
      /\ UNCHANGED <<up, subs, tmp, gone>>
  BY DEF Rename
<1>2. /\ TypeOK' /\ LockHeld' /\ Purpose' /\ Saving' /\ Unasked'
      /\ \A d \in Endpoints :
           sure'[d] = sure[d] \/ (d = call[p].ep /\ sure'[d] = call[p].op)
  <2>1. tmp' \in SUBSET Endpoints /\ file' \in SUBSET Endpoints
    BY <1>1 DEF TypeOK
  <2> QED BY <1>1, <2>1, ReturnInv
<1>3. tmp = subs /\ up /\ (call[p].ep \in subs <=> call[p].op = "in")
  BY <1>1 DEF Saving, LockHeld
<1>4. AnswersHold'
  BY <1>1, <1>2, <1>3 DEF AnswersHold
<1> QED BY <1>2, <1>4

\* A save fails: the answer says so, and tells nothing of the endpoint.
LEMMA FailInv ==
  ASSUME IInv, NEW p \in Procs, Fail(p)
  PROVE  IInv'
<1> USE Goroutines DEF IInv
<1>1. /\ call[p].step \in {"write", "rename"} /\ Return(p, FALSE)
      /\ UNCHANGED <<up, subs, file, gone>>
      /\ tmp' \in SUBSET Endpoints /\ file' \in SUBSET Endpoints
  BY DEF Fail, WriteFails, RenameFails, TypeOK
<1>2. /\ TypeOK' /\ LockHeld' /\ Purpose' /\ Saving' /\ Unasked'
      /\ \A d \in Endpoints : sure'[d] = sure[d]
  BY <1>1, ReturnInv
<1>3. AnswersHold'
  BY <1>1, <1>2 DEF AnswersHold
<1> QED BY <1>2, <1>3

\* Notify starts its goroutines.
LEMMA NotifyInv ==
  ASSUME IInv, NEW n \in Notifiers, Notify(n)
  PROVE  IInv'
<1> USE Goroutines DEF IInv
<1>1. /\ up /\ UNCHANGED <<up, subs, tmp, file, lock, gone, sure>>
      /\ \A e \in Endpoints : call[<<n, e>>] = Idle
  BY DEF Notify, storage
<1>2. \A p \in Procs :
        \/ call'[p] = call[p]
        \/ /\ p \in Senders /\ call[p] = Idle
           /\ call'[p] = [step |-> "send", op |-> "out", ep |-> p[2]]
  <2> SUFFICES ASSUME NEW p \in Procs, \E e \in subs : p = <<n, e>>
               PROVE  p \in Senders /\ call[p] = Idle
    BY DEF Notify
  <2>1. PICK e \in Endpoints : p = <<n, e>>
    BY DEF TypeOK
  <2> QED BY <1>1, <2>1 DEF Senders
<1>3. \A p \in Senders : [step |-> "send", op |-> "out", ep |-> p[2]] \in Call
  BY DEF Call, Steps
<1>4. call' \in [Procs -> Call]
  <2>1. DOMAIN call' = Procs /\ call' = [p \in Procs |-> call'[p]]
    BY DEF Notify
  <2> QED BY <1>2, <1>3, <2>1 DEF TypeOK
<1>5. TypeOK'
  BY <1>1, <1>4 DEF TypeOK
<1>6. \A p \in Procs :
        \/ call'[p] = call[p]
        \/ /\ p \in Senders /\ call[p] = Idle
           /\ call'[p].step = "send" /\ call'[p].op = "out" /\ call'[p].ep = p[2]
  <2> DEFINE sending(e) == [step |-> "send", op |-> "out", ep |-> e]
  <2>1. \A e : sending(e).step = "send" /\ sending(e).op = "out" /\ sending(e).ep = e
    OBVIOUS
  <2>2. \A p \in Procs : \/ call'[p] = call[p]
                         \/ p \in Senders /\ call[p] = Idle /\ call'[p] = sending(p[2])
    BY <1>2
  <2> HIDE DEF sending
  <2> SUFFICES ASSUME NEW p \in Procs, call'[p] # call[p]
               PROVE  /\ p \in Senders /\ call[p] = Idle
                      /\ call'[p].step = "send" /\ call'[p].op = "out" /\ call'[p].ep = p[2]
    OBVIOUS
  <2>3. p \in Senders /\ call[p] = Idle /\ call'[p] = sending(p[2])
    BY <2>2
  <2> QED BY <2>1, <2>3
<1>7. LockHeld'
  BY <1>1, <1>6 DEF LockHeld
<1>8. Purpose'
  <2>1. \A p \in Procs : IF call'[p].step = "idle" THEN call'[p] = Idle
                         ELSE call'[p].ep \in Endpoints /\ call'[p].op \in {"in", "out"}
    BY <1>6 DEF Purpose
  <2>2. \A h \in Handlers : call'[h].step # "send"
    BY <1>6 DEF Purpose
  <2>3. \A p \in Senders : call'[p].step # "idle" =>
          /\ call'[p].op = "out" /\ call'[p].ep = p[2]
          /\ call'[p].step # "send" => call'[p].ep \in gone
    BY <1>6 DEF Purpose
  <2> QED BY <1>1, <2>1, <2>2, <2>3 DEF Purpose
<1>9. Saving'
  BY <1>1, <1>6 DEF Saving
<1>10. Unasked' /\ AnswersHold'
  BY <1>1, <1>2 DEF Unasked, AnswersHold
<1> QED BY <1>5, <1>7, <1>8, <1>9, <1>10

\* A notification is sent, or its endpoint found to be gone.
LEMMA SendInv ==
  ASSUME IInv, NEW p \in Senders, Send(p)
  PROVE  IInv'
<1> USE Goroutines DEF IInv
<1>1. p \in Procs /\ call[p].step = "send" /\ UNCHANGED <<up, subs, tmp, file, lock, gone, sure>>
  BY DEF Send, storage
<1>2. /\ call' \in [Procs -> Call]
      /\ \/ call'[p] = Idle
         \/ /\ call'[p].step = "lock" /\ call'[p].op = call[p].op /\ call'[p].ep = call[p].ep
            /\ p[2] \in gone
      /\ \A q \in Procs \ {p} : call'[q] = call[q]
  BY <1>1, OneCall, OneGoto DEF Send, Steps
<1>3. up
  BY <1>1 DEF LockHeld
<1>4. TypeOK'
  BY <1>1, <1>2 DEF TypeOK
<1>5. LockHeld'
  BY <1>1, <1>2, <1>3 DEF LockHeld
<1>6. Purpose'
  BY <1>1, <1>2 DEF Purpose
<1>7. Saving'
  BY <1>1, <1>2 DEF Saving
<1>8. Unasked' /\ AnswersHold'
  BY <1>1, <1>2 DEF Unasked, AnswersHold
<1> QED BY <1>4, <1>5, <1>6, <1>7, <1>8

\* The push service retires endpoints, and nothing else changes.
LEMMA GoneInv ==
  ASSUME IInv, gone \subseteq gone', gone' \in SUBSET Endpoints,
         UNCHANGED <<up, subs, storage, lock, call, sure>>
  PROVE  IInv'
<1> USE DEF IInv
<1>1. TypeOK' /\ LockHeld' /\ Saving' /\ Unasked' /\ AnswersHold'
  BY DEF TypeOK, LockHeld, Saving, Unasked, AnswersHold, storage
<1>2. Purpose'
  BY DEF Purpose
<1> QED BY <1>1, <1>2

\* The process is killed, or started.
LEMMA CrashInv ==
  ASSUME IInv, Crash \/ New
  PROVE  IInv'
<1> USE Goroutines DEF IInv
<1>1. CASE Crash
  <2>1. /\ ~up' /\ subs' = {} /\ lock' = None /\ UNCHANGED <<tmp, file, gone, sure>>
        /\ call' = [p \in Procs |-> Idle]
    BY <1>1 DEF Crash, storage
  <2>2. TypeOK'
    <3>1. up' \in BOOLEAN
      BY <1>1 DEF Crash
    <3> QED BY <2>1, <3>1 DEF TypeOK
  <2>3. LockHeld'
    BY <2>1 DEF LockHeld
  <2>4. Purpose' /\ Saving'
    BY <2>1 DEF Purpose, Saving
  <2>5. Unasked' /\ AnswersHold'
    BY <2>1 DEF Unasked, AnswersHold
  <2> QED BY <2>2, <2>3, <2>4, <2>5
<1>2. CASE New
  <2>1. ~up /\ up' /\ subs' = file /\ UNCHANGED <<tmp, file, lock, call, gone, sure>>
    BY <1>2 DEF New, storage
  <2>2. \A p \in Procs : call[p] = Idle
    BY <2>1 DEF LockHeld
  <2>3. TypeOK'
    BY <2>1 DEF TypeOK
  <2>4. LockHeld' /\ Saving'
    BY <2>1, <2>2 DEF LockHeld, Saving
  <2>5. Purpose' /\ Unasked' /\ AnswersHold'
    BY <2>1 DEF Purpose, Unasked, AnswersHold
  <2> QED BY <2>3, <2>4, <2>5
<1> QED BY <1>1, <1>2

\* Every step preserves the invariant.
LEMMA StepInv == IInv /\ [Next]_vars => IInv'
<1> SUFFICES ASSUME IInv, [Next]_vars PROVE IInv'
  OBVIOUS
<1>1. CASE UNCHANGED vars
  <2>1. UNCHANGED <<up, subs, tmp, file, lock, call, gone, sure>>
    BY <1>1 DEF vars, storage
  <2>2. gone' \in SUBSET Endpoints
    BY <2>1 DEF IInv, TypeOK
  <2> QED BY <2>1, <2>2, GoneInv DEF storage
<1>2. ASSUME NEW h \in Handlers, Request(h) PROVE IInv'
  BY <1>2, BeginInv DEF Request
<1>3. ASSUME NEW p \in Procs, Save(p) PROVE IInv'
  BY <1>3, UpdateInv, WriteInv, RenameInv, FailInv DEF Save
<1>4. ASSUME NEW e \in Endpoints, Retire(e) PROVE IInv'
  BY <1>4, GoneInv DEF Retire, IInv, TypeOK
<1> QED BY <1>1, <1>2, <1>3, <1>4, NotifyInv, SendInv, CrashInv DEF Next

\* The invariant holds in every state.
THEOREM Invariance == Spec => []IInv
BY InitInv, StepInv, PTL DEF Spec

\* An answered Subscribe or Unsubscribe keeps its meaning, in memory and on disk,
\* whatever notifications, failing saves and restarts come after it.
THEOREM AnswersHoldCorrect == Spec => []AnswersHold
<1>1. IInv => AnswersHold
  BY DEF IInv
<1> QED BY <1>1, Invariance, PTL

-----------------------------------------------------------------------------
(* PushToggle.                                                             *)

\* The values that told may have are different from each other.
LEMMA Values ==
  /\ None \notin Handlers /\ None \notin Endpoints
  /\ Pending \notin Endpoints /\ Pending # None
BY Goroutines, PendingAssumption

\* The browser has no subscription, and no tab has been clicked.
LEMMA ToggleInitInv == ToggleInit => ToggleInv
<1> SUFFICES ASSUME ToggleInit PROVE ToggleInv
  OBVIOUS
<1> USE Values
<1>1. IInv
  BY InitInv DEF ToggleInit
<1>2. Ready(FALSE) \in Tab /\ Ready(FALSE).op = "none" /\ Ready(FALSE).h = None
  BY DEF Ready, Tab
<1>3. ToggleTypeOK
  BY <1>2 DEF ToggleInit, ToggleTypeOK
<1>4. OwnHandler
  BY <1>2 DEF ToggleInit, OwnHandler, Busy
<1>5. Undisturbed /\ UnderWay /\ Settled
  BY DEF ToggleInit, Undisturbed, UnderWay, Settled
<1> QED BY <1>1, <1>3, <1>4, <1>5 DEF ToggleInv

\* A tab that gets ready waits for nobody, and leaves the others alone.
LEMMA Rendered ==
  ASSUME ToggleTypeOK, NEW t \in Tabs, NEW on \in BOOLEAN, Render(t, on)
  PROVE  /\ tab' \in [Tabs -> Tab]
         /\ tab'[t].op = "none" /\ tab'[t].h = None /\ tab'[t].on = on
         /\ \A u \in Tabs \ {t} : tab'[u] = tab[u]
<1>1. /\ Ready(on) \in Tab
      /\ Ready(on).op = "none" /\ Ready(on).h = None /\ Ready(on).on = on
  BY DEF Ready, Tab
<1> QED BY <1>1 DEF Render, ToggleTypeOK

\* So it goes on having handlers of their own.
LEMMA RenderedOwn ==
  ASSUME ToggleInv, NEW t \in Tabs, NEW on \in BOOLEAN, Render(t, on), call' = call,
         \/ Busy(t) /\ Read(t)
         \/ ~Busy(t) /\ reply' = reply
  PROVE  OwnHandler' /\ reply' \in [Handlers -> {"none", "ok", "failed"}]
<1> USE Values DEF ToggleInv
<1>1. /\ tab'[t].op = "none" /\ tab'[t].h = None
      /\ \A u \in Tabs \ {t} : tab'[u] = tab[u]
  BY Rendered
<1>2. /\ reply' \in [Handlers -> {"none", "ok", "failed"}]
      /\ \A h \in Handlers : reply'[h] # "none" => reply'[h] = reply[h] /\ tab[t].h # h
  <2>1. CASE Busy(t) /\ Read(t)
    <3>1. tab[t].h \in Handlers
      BY <2>1 DEF OwnHandler
    <3> QED BY <2>1, <3>1 DEF Read, ToggleTypeOK
  <2>2. CASE ~Busy(t) /\ reply' = reply
    BY <2>2 DEF ToggleTypeOK, OwnHandler
  <2> QED BY <2>1, <2>2
<1>3. \A u \in Tabs : IF Busy(u)' THEN tab'[u].h \in Handlers /\ tab'[u].ep \in Endpoints
                      ELSE tab'[u].h = None
  BY <1>1 DEF OwnHandler, Busy
<1>4. \A u, v \in Tabs : Busy(u)' /\ tab'[u].h = tab'[v].h => u = v
  BY <1>1 DEF OwnHandler, Busy
<1>5. \A u \in Tabs : Busy(u)' =>
        \/ call'[tab'[u].h] = Idle
        \/ call'[tab'[u].h].ep = tab'[u].ep /\ call'[tab'[u].h].op = tab'[u].op
  BY <1>1 DEF OwnHandler, Busy
<1>6. \A h \in Handlers : reply'[h] # "none" =>
        call'[h] = Idle /\ \E u \in Tabs : tab'[u].h = h
  BY <1>1, <1>2 DEF OwnHandler
<1> QED BY <1>2, <1>3, <1>4, <1>5, <1>6 DEF OwnHandler

\* The page of a tab is loaded, or a click finds no subscription.
LEMMA LoadInv ==
  ASSUME ToggleInv, NEW t \in Tabs, Load(t) \/ ClickStale(t)
  PROVE  ToggleInv'
<1> USE Values DEF ToggleInv
<1>1. PICK on \in BOOLEAN : Render(t, on)
  BY DEF Load, ClickStale
<1>2. ~Busy(t) /\ UNCHANGED <<vars, sub, mine, reply>> /\ told' = [told EXCEPT ![t] = None]
  BY DEF Load, ClickStale, Untold
<1>3. /\ tab' \in [Tabs -> Tab] /\ tab'[t].op = "none"
      /\ \A u \in Tabs \ {t} : tab'[u] = tab[u]
  BY <1>1, Rendered
<1>4. UNCHANGED <<up, subs, tmp, file, lock, call, gone, sure>>
  BY <1>2 DEF vars, storage
<1>5. IInv'
  BY <1>2, StepInv
<1>6. told' \in [Tabs -> Endpoints \cup {None, Pending}] /\ told'[t] = None
  BY <1>2 DEF ToggleTypeOK
<1>7. \A u \in Tabs \ {t} : told'[u] = told[u]
  BY <1>2 DEF ToggleTypeOK
<1>8. ToggleTypeOK'
  BY <1>2, <1>3, <1>6 DEF ToggleTypeOK
<1>9. OwnHandler'
  BY <1>1, <1>2, <1>4, RenderedOwn
<1>10. Undisturbed'
  BY <1>3, <1>6, <1>7 DEF Undisturbed, Busy
<1>11. UnderWay'
  BY <1>2, <1>3, <1>4, <1>6, <1>7 DEF UnderWay, Busy
<1>12. Settled'
  BY <1>2, <1>3, <1>4, <1>6, <1>7 DEF Settled
<1> QED BY <1>5, <1>8, <1>9, <1>10, <1>11, <1>12

\* A click posts its request, or fails to.
LEMMA PostInv ==
  ASSUME ToggleInv, NEW t \in Tabs, NEW op \in {"in", "out"}, NEW e \in Endpoints,
         ~Busy(t), Post(t, op, e), Clicked(t, e), sub' = e, mine' \in SUBSET Endpoints,
         UNCHANGED reply
  PROVE  ToggleInv'
<1> USE Values DEF ToggleInv
<1>1. /\ told' \in [Tabs -> {None, Pending}]
      /\ \A u \in Tabs : told'[u] # None =>
           /\ u = t
           /\ \A v \in Tabs \ {t} : ~Busy(v)
           /\ \A h \in Handlers : call[h].ep # e
  BY DEF Clicked
<1>2. told' \in [Tabs -> Endpoints \cup {None, Pending}] /\ \A u \in Tabs : told'[u] \notin Endpoints
  BY <1>1
<1>3. Settled'
  BY <1>2 DEF Settled
<1>4. tab[t].h = None
  BY DEF OwnHandler
<1>5. ASSUME NEW h \in Handlers, Free(h), Begin(h, op, e),
             tab' = [tab EXCEPT ![t] = [@ EXCEPT !.op = op, !.ep = e, !.h = h]]
      PROVE  ToggleInv'
  <2> DEFINE k == [tab[t] EXCEPT !.op = op, !.ep = e, !.h = h]
  <2>1. k \in Tab /\ k.op = op /\ k.ep = e /\ k.h = h
    BY DEF Tab, ToggleTypeOK
  <2>2. /\ tab' \in [Tabs -> Tab]
        /\ tab'[t].op = op /\ tab'[t].ep = e /\ tab'[t].h = h
        /\ \A u \in Tabs \ {t} : tab'[u] = tab[u]
    BY <1>5, <2>1 DEF ToggleTypeOK
  <2>3. IInv'
    BY <1>5, BeginInv
  <2>4. /\ call'[h].op = op /\ call'[h].ep = e
        /\ \A q \in Handlers \ {h} : call'[q] = call[q]
    <3>1. [step |-> "lock", op |-> op, ep |-> e] \in Call
      BY DEF Call, Steps
    <3> QED BY <1>5, <3>1, OneCall, Goroutines DEF Begin, IInv
  <2>5. reply[h] = "none" /\ \A u \in Tabs : tab[u].h # h
    BY <1>5 DEF Free, OwnHandler
  <2>6. Busy(t)' /\ \A u \in Tabs \ {t} : Busy(u)' <=> Busy(u)
    BY <2>2 DEF Busy
  <2>7. ToggleTypeOK'
    BY <1>2, <2>2 DEF ToggleTypeOK
  <2>8. OwnHandler'
    <3>1. \A u \in Tabs : IF Busy(u)' THEN tab'[u].h \in Handlers /\ tab'[u].ep \in Endpoints
                          ELSE tab'[u].h = None
      BY <2>2, <2>6 DEF OwnHandler
    <3>2. \A u, v \in Tabs : Busy(u)' /\ tab'[u].h = tab'[v].h => u = v
      BY <2>2, <2>5, <2>6 DEF OwnHandler
    <3>3. \A u \in Tabs : Busy(u)' =>
            \/ call'[tab'[u].h] = Idle
            \/ call'[tab'[u].h].ep = tab'[u].ep /\ call'[tab'[u].h].op = tab'[u].op
      BY <2>2, <2>4, <2>5, <2>6 DEF OwnHandler
    <3>4. \A q \in Handlers : reply'[q] # "none" =>
            call'[q] = Idle /\ \E u \in Tabs : tab'[u].h = q
      BY <1>4, <2>2, <2>4, <2>5 DEF OwnHandler
    <3> QED BY <3>1, <3>2, <3>3, <3>4 DEF OwnHandler
  <2>9. Undisturbed'
    BY <1>1, <1>2, <2>6 DEF Undisturbed
  <2>10. UnderWay'
    BY <1>1, <2>2, <2>4, <2>5 DEF UnderWay
  <2> QED BY <1>3, <2>3, <2>7, <2>8, <2>9, <2>10
<1>6. CASE Alert(t) /\ UNCHANGED vars
  <2>1. tab[t].on \in BOOLEAN
    BY DEF ToggleTypeOK, Tab
  <2>2. /\ tab' \in [Tabs -> Tab] /\ tab'[t].op = "none"
        /\ \A u \in Tabs \ {t} : tab'[u] = tab[u]
    BY <1>6, <2>1, Rendered DEF Alert
  <2>3. IInv'
    BY <1>6, StepInv
  <2>4. OwnHandler'
    BY <1>6, <2>1, RenderedOwn DEF Alert, vars
  <2>5. ToggleTypeOK'
    BY <1>2, <2>2 DEF ToggleTypeOK
  <2>6. Undisturbed'
    BY <1>1, <1>2, <2>2 DEF Undisturbed, Busy
  <2>7. UnderWay'
    BY <1>1, <2>2 DEF UnderWay, Busy
  <2> QED BY <1>3, <2>3, <2>4, <2>5, <2>6, <2>7
<1> QED BY <1>5, <1>6 DEF Post

\* A click on a button that is on, or off.
LEMMA ClickInv ==
  ASSUME ToggleInv, NEW t \in Tabs, Click(t)
  PROVE  ToggleInv'
<1> USE Values DEF ToggleInv
<1>1. CASE ClickOff(t)
  BY <1>1, PostInv DEF ClickOff, ToggleTypeOK
<1>2. CASE ClickOn(t)
  <2>1. PICK e \in Subscription : /\ sub' = e /\ mine' = mine \cup {e}
                                  /\ Post(t, "in", e) /\ Clicked(t, e)
    BY <1>2 DEF ClickOn
  <2>2. e \in Endpoints
    BY DEF Subscription, ToggleTypeOK
  <2> QED BY <1>2, <2>1, <2>2, PostInv DEF ClickOn, ToggleTypeOK
<1> QED BY <1>1, <1>2, LoadInv DEF Click

\* A tab that has read its answer, or given up, is alone with what it tells; the
\* rest of the invariant follows from its not being busy.
LEMMA SettleFrame ==
  ASSUME ToggleInv, NEW t \in Tabs, Busy(t), NEW on \in BOOLEAN, Render(t, on), Read(t),
         call' = call, sub' \in Endpoints \cup {None}, mine' = mine,
         NEW v \in Endpoints \cup {None, Pending}, told' = [told EXCEPT ![t] = v],
         v # None => told[t] # None
  PROVE  /\ ToggleTypeOK' /\ OwnHandler' /\ Undisturbed' /\ UnderWay'
         /\ told'[t] = v /\ tab'[t].on = on
         /\ \A u \in Tabs \ {t} : told'[u] = None
<1> USE Values DEF ToggleInv
<1>1. /\ tab' \in [Tabs -> Tab] /\ tab'[t].op = "none" /\ tab'[t].on = on
      /\ \A u \in Tabs \ {t} : tab'[u] = tab[u]
  BY Rendered
<1>2. OwnHandler' /\ reply' \in [Handlers -> {"none", "ok", "failed"}]
  BY RenderedOwn
<1>3. /\ told' \in [Tabs -> Endpoints \cup {None, Pending}] /\ told'[t] = v
      /\ \A u \in Tabs \ {t} : told'[u] = told[u]
  BY DEF ToggleTypeOK
<1>4. \A u \in Tabs \ {t} : told[u] = None
  BY DEF Undisturbed
<1>5. ToggleTypeOK'
  BY <1>1, <1>2, <1>3 DEF ToggleTypeOK
<1>6. Undisturbed'
  BY <1>1, <1>3, <1>4 DEF Undisturbed, Busy
<1>7. UnderWay'
  BY <1>1, <1>3, <1>4 DEF UnderWay, Busy
<1> QED BY <1>1, <1>2, <1>3, <1>4, <1>5, <1>6, <1>7

\* A click ends.
LEMMA SettleInv ==
  ASSUME ToggleInv, NEW t \in Tabs, Settle(t)
  PROVE  ToggleInv'
<1> USE Values DEF ToggleInv
<1> DEFINE e == tab[t].ep
           v == IF told[t] = Pending THEN e ELSE told[t]
<1>1. Busy(t)
  BY DEF Settle, AnswerOff, AnswerOn, NoAnswer, Answered
<1>2. e \in Endpoints /\ tab[t].on \in BOOLEAN /\ told[t] \notin Endpoints /\ sub \in Endpoints \cup {None}
  BY <1>1 DEF OwnHandler, Undisturbed, ToggleTypeOK, Tab
<1>3. ASSUME Told(t) PROVE told' = [told EXCEPT ![t] = v]
  <2>1. told = [told EXCEPT ![t] = told[t]]
    BY DEF ToggleTypeOK
  <2> QED BY <1>3, <2>1 DEF Told
<1>4. v \in Endpoints \cup {None, Pending} /\ (v # None => told[t] # None)
  BY <1>2 DEF ToggleTypeOK
<1>5. ASSUME NEW on \in BOOLEAN, Render(t, on), Read(t), Untold(t), UNCHANGED <<vars, sub, mine>>
      PROVE  ToggleInv'
  <2>1. IInv' /\ call' = call
    BY <1>5, StepInv DEF vars
  <2>2. /\ ToggleTypeOK' /\ OwnHandler' /\ Undisturbed' /\ UnderWay' /\ told'[t] = None
        /\ \A u \in Tabs \ {t} : told'[u] = None
    BY <1>1, <1>2, <1>5, <2>1, SettleFrame DEF Untold
  <2>3. Settled'
    BY <2>2 DEF Settled
  <2> QED BY <2>1, <2>2, <2>3
<1>6. CASE AnswerOff(t)
  <2>1. Read(t) /\ UNCHANGED <<up, subs, storage, lock, call, sure, mine>> /\ tab[t].op = "out"
    BY <1>6 DEF AnswerOff
  <2>2. CASE /\ sub' = IF sub = e THEN None ELSE sub
             /\ gone' = gone \cup {e}
             /\ Render(t, sub' # None)
             /\ Told(t)
    <3>1. gone' \in SUBSET Endpoints
      BY <1>2, <2>2 DEF IInv, TypeOK
    <3>2. IInv'
      BY <2>1, <2>2, <3>1, GoneInv
    <3> DEFINE on == sub' # None
    <3>3. sub' \in Endpoints \cup {None} /\ on \in BOOLEAN
      BY <1>2, <2>2
    <3> HIDE DEF on
    <3>4. Render(t, on)
      BY <2>2 DEF on
    <3>5. told' = [told EXCEPT ![t] = v]
      BY <1>3, <2>2
    <3>6. /\ ToggleTypeOK' /\ OwnHandler' /\ Undisturbed' /\ UnderWay'
          /\ told'[t] = v /\ tab'[t].on = on
          /\ \A u \in Tabs \ {t} : told'[u] = None
      <4> HIDE DEF v
      <4> QED BY <1>1, <1>4, <2>1, <3>3, <3>4, <3>5, SettleFrame
    <3>7. told[t] = Pending => sub \in {e, None}
      BY <1>1, <2>1 DEF UnderWay
    <3>8. Settled'
      <4> SUFFICES ASSUME told'[t] \in Endpoints
                   PROVE  ~tab'[t].on /\ sub' = None /\ told'[t] \in gone'
        BY <3>6 DEF Settled
      <4>1. told[t] = Pending /\ told'[t] = e
        BY <1>2, <3>6
      <4>2. sub' = None
        BY <2>2, <3>7, <4>1
      <4> QED BY <2>2, <3>6, <4>1, <4>2 DEF on
    <3> QED BY <3>2, <3>6, <3>8
  <2>3. CASE Alert(t) /\ Untold(t) /\ UNCHANGED <<sub, gone>>
    BY <1>2, <1>5, <2>1, <2>3 DEF Alert, vars
  <2> QED BY <1>6, <2>2, <2>3 DEF AnswerOff
<1>7. CASE AnswerOn(t)
  <2> DEFINE on == sub # None
  <2>1. Render(t, on) /\ Read(t) /\ UNCHANGED <<vars, sub, mine>> /\ on \in BOOLEAN
    BY <1>7 DEF AnswerOn
  <2>2. CASE e \in gone
    BY <1>5, <1>7, <2>1, <2>2 DEF AnswerOn
  <2>3. CASE e \notin gone
    <3>1. Told(t)
      BY <1>7, <2>3 DEF AnswerOn
    <3>2. IInv' /\ UNCHANGED <<call, gone, sure>>
      BY <2>1, StepInv DEF vars
    <3>3. told' = [told EXCEPT ![t] = v]
      BY <1>3, <3>1
    <3>4. /\ ToggleTypeOK' /\ OwnHandler' /\ Undisturbed' /\ UnderWay'
          /\ told'[t] = v /\ tab'[t].on = on
          /\ \A u \in Tabs \ {t} : told'[u] = None
      <4> HIDE DEF v, on
      <4> QED BY <1>1, <1>2, <1>4, <2>1, <3>2, <3>3, SettleFrame
    <3>5. told[t] = Pending => sub = e /\ sure[e] = "in"
      BY <1>1, <1>7, <2>3 DEF UnderWay, AnswerOn, Answered
    <3>6. Settled'
      BY <1>2, <2>1, <2>3, <3>2, <3>4, <3>5 DEF Settled
    <3> QED BY <3>2, <3>4, <3>6
  <2> QED BY <2>2, <2>3
<1>8. CASE NoAnswer(t)
  BY <1>2, <1>5, <1>8 DEF NoAnswer, Alert
<1> QED BY <1>6, <1>7, <1>8 DEF Settle

\* The push service retires a subscription.
LEMMA RevokeInv ==
  ASSUME ToggleInv, NEW e \in Endpoints, Revoke(e)
  PROVE  ToggleInv'
<1> USE Values DEF ToggleInv
<1>1. /\ gone' = gone \cup {e} /\ UNCHANGED <<up, subs, storage, lock, call, sure>>
      /\ UNCHANGED <<mine, tab, reply>>
  BY DEF Revoke, Retire
<1>2. /\ sub' \in Endpoints \cup {None}
      /\ sub' # sub => sub = e /\ sub' = None
  BY DEF Revoke, ToggleTypeOK
<1>3. /\ told' \in [Tabs -> Endpoints \cup {None, Pending}]
      /\ \A t \in Tabs : told'[t] # None => told'[t] = told[t] /\ told[t] # e
  BY DEF Revoke, ToggleTypeOK
<1>4. IInv'
  BY <1>1, GoneInv DEF IInv, TypeOK
<1>5. ToggleTypeOK'
  BY <1>1, <1>2, <1>3 DEF ToggleTypeOK
<1>6. OwnHandler' /\ Undisturbed'
  BY <1>1, <1>3 DEF OwnHandler, Undisturbed, Busy
<1>7. UnderWay'
  BY <1>1, <1>2, <1>3 DEF UnderWay, Busy
<1>8. Settled'
  BY <1>1, <1>2, <1>3 DEF Settled
<1> QED BY <1>4, <1>5, <1>6, <1>7, <1>8

\* The server works, and answers nobody: calls go on about the same endpoint, or
\* are lost.
LEMMA SilentInv ==
  ASSUME ToggleInv, IInv', UNCHANGED <<gone, sure, reply, sub, mine, tab, told>>,
         \A h \in Handlers :
           \/ call'[h] = Idle
           \/ call[h] # Idle /\ call'[h].ep = call[h].ep /\ call'[h].op = call[h].op
  PROVE  ToggleInv'
<1> USE Values, Goroutines DEF ToggleInv
<1>1. ToggleTypeOK' /\ Undisturbed' /\ Settled'
  BY DEF ToggleTypeOK, Undisturbed, Settled, Busy
<1>2. OwnHandler'
  BY DEF OwnHandler, Busy
<1>3. UnderWay'
  <2> SUFFICES ASSUME NEW t \in Tabs, told[t] = Pending, Busy(t)
               PROVE  \A h \in Handlers \ {tab[t].h} : call'[h].ep # tab[t].ep
    BY DEF UnderWay, Busy
  <2>1. tab[t].ep \in Endpoints
    BY DEF OwnHandler
  <2>2. \A h \in Handlers \ {tab[t].h} : call[h].ep # tab[t].ep
    BY DEF UnderWay
  <2>3. Idle.ep = None
    BY DEF Idle
  <2> QED BY <2>1, <2>2, <2>3
<1> QED BY <1>1, <1>2, <1>3

\* A call returns, and a handler answers.
LEMMA ReplyInv ==
  ASSUME ToggleInv, IInv', NEW p \in Procs, NEW ok \in BOOLEAN, Return(p, ok),
         Reply(p, IF ok THEN "ok" ELSE "failed"),
         call[p].step \in {"write", "rename"},
         UNCHANGED <<gone, sub, mine, tab, told>>
  PROVE  ToggleInv'
<1> USE Values, Goroutines DEF ToggleInv
<1> DEFINE status == IF ok THEN "ok" ELSE "failed"
<1>1. /\ call'[p] = Idle /\ call[p] # Idle
      /\ \A q \in Procs \ {p} : call'[q] = call[q]
  BY OneCall DEF Return, IInv
<1>2. call[p].ep \in Endpoints
  BY DEF IInv, Purpose
<1>3. \A d \in Endpoints :
        IF ok /\ d = call[p].ep /\ p \in Handlers /\ ~Contested(p, d)
        THEN sure'[d] = call[p].op ELSE sure'[d] = sure[d]
  BY <1>2 DEF Return, IInv, TypeOK
<1>4. /\ reply' \in [Handlers -> {"none", "ok", "failed"}]
      /\ \A h \in Handlers :
           \/ reply'[h] = reply[h]
           \/ h = p /\ reply'[h] = status /\ \E t \in Tabs : tab[t].h = p
  BY DEF Reply, ToggleTypeOK
<1>5. ToggleTypeOK' /\ Undisturbed'
  BY <1>4 DEF ToggleTypeOK, Undisturbed, Busy
<1>6. OwnHandler'
  BY <1>1, <1>4 DEF OwnHandler, Busy
<1>7. UnderWay'
  <2> SUFFICES ASSUME NEW t \in Tabs, told[t] = Pending, Busy(t)
               PROVE  /\ \A h \in Handlers \ {tab[t].h} : call'[h].ep # tab[t].ep
                      /\ reply'[tab[t].h] = "ok" => sure'[tab[t].ep] = tab[t].op
    BY DEF UnderWay, Busy
  <2>1. tab[t].h \in Handlers /\ tab[t].ep \in Endpoints
    BY DEF OwnHandler
  <2>2. \A h \in Handlers \ {tab[t].h} : call[h].ep # tab[t].ep
    BY DEF UnderWay
  <2>3. \A h \in Handlers \ {tab[t].h} : call'[h].ep # tab[t].ep
    BY <1>1, <2>1, <2>2
  <2>4. CASE p = tab[t].h
    <3>1. call[p].ep = tab[t].ep /\ call[p].op = tab[t].op /\ reply[p] = "none"
      BY <1>1, <2>1, <2>4 DEF OwnHandler
    <3>2. ~Contested(p, tab[t].ep)
      BY <2>2, <2>4 DEF Contested
    <3> QED BY <1>3, <1>4, <2>1, <2>3, <2>4, <3>1, <3>2
  <2>5. CASE p # tab[t].h
    <3>1. reply'[tab[t].h] = reply[tab[t].h]
      BY <1>4, <2>1, <2>5
    <3>2. sure'[tab[t].ep] = sure[tab[t].ep]
      BY <1>3, <2>1, <2>2, <2>5
    <3> QED BY <2>3, <3>1, <3>2 DEF UnderWay
  <2> QED BY <2>4, <2>5
<1>8. Settled'
  <2>1. \A d \in Endpoints : sure[d] = "in" => sure'[d] = "in"
    BY <1>3 DEF IInv, Unasked
  <2> QED BY <2>1 DEF Settled
<1> QED BY <1>5, <1>6, <1>7, <1>8

\* A step of the server.
LEMMA ServerInv ==
  ASSUME ToggleInv, Server
  PROVE  ToggleInv'
<1> USE Goroutines DEF ToggleInv
<1>1. UNCHANGED <<sub, mine, tab, told>>
  BY DEF Server
<1>2. ASSUME NEW p \in Procs, Rename(p), Reply(p, "ok") PROVE ToggleInv'
  BY <1>1, <1>2, RenameInv, ReplyInv DEF Rename
<1>3. ASSUME NEW p \in Procs, Fail(p), Reply(p, "failed") PROVE ToggleInv'
  BY <1>1, <1>3, FailInv, ReplyInv DEF Fail, WriteFails, RenameFails
<1>4. ASSUME NEW p \in Procs, Update(p) \/ Write(p), UNCHANGED reply PROVE ToggleInv'
  <2>1. IInv' /\ UNCHANGED <<gone, sure>>
    BY <1>4, UpdateInv, WriteInv DEF Update, Write
  <2>2. /\ call[p] # Idle /\ call'[p].ep = call[p].ep /\ call'[p].op = call[p].op
        /\ \A q \in Procs \ {p} : call'[q] = call[q]
    BY <1>4, OneGoto DEF Update, Write, Steps, IInv
  <2> QED BY <1>1, <1>4, <2>1, <2>2, SilentInv
<1>5. ASSUME NEW n \in Notifiers, Notify(n), UNCHANGED reply PROVE ToggleInv'
  <2>1. IInv' /\ UNCHANGED <<gone, sure>>
    BY <1>5, NotifyInv DEF Notify
  <2>2. \A h \in Handlers : call'[h] = call[h]
    BY <1>5 DEF Notify, IInv, TypeOK, Senders
  <2> QED BY <1>1, <1>5, <2>1, <2>2, SilentInv
<1>6. ASSUME NEW p \in Senders, Send(p), UNCHANGED reply PROVE ToggleInv'
  <2>1. IInv' /\ UNCHANGED <<gone, sure>>
    BY <1>6, SendInv DEF Send
  <2>2. \A h \in Handlers : call'[h] = call[h]
    BY <1>6, OneGoto, OneCall DEF Send, IInv, Steps
  <2> QED BY <1>1, <1>6, <2>1, <2>2, SilentInv
<1>7. ASSUME Crash \/ New, UNCHANGED reply PROVE ToggleInv'
  <2>1. IInv' /\ UNCHANGED <<gone, sure>>
    BY <1>7, CrashInv DEF Crash, New
  <2>2. \A h \in Handlers : call'[h] = Idle \/ call'[h] = call[h]
    BY <1>7 DEF Crash, New
  <2> QED BY <1>1, <1>7, <2>1, <2>2, SilentInv
<1> QED BY <1>2, <1>3, <1>4, <1>5, <1>6, <1>7 DEF Server

\* Every step of browser and server preserves the invariant.
LEMMA ToggleStepInv == ToggleInv /\ [ToggleNext]_toggleVars => ToggleInv'
<1> SUFFICES ASSUME ToggleInv, [ToggleNext]_toggleVars PROVE ToggleInv'
  OBVIOUS
<1>1. CASE UNCHANGED toggleVars
  <2>1. UNCHANGED <<vars, sub, mine, tab, reply, told, call, gone, sure>>
    BY <1>1 DEF toggleVars, browser, vars
  <2>2. IInv'
    BY <2>1, StepInv DEF ToggleInv
  <2> QED BY <2>1, <2>2, SilentInv
<1> QED BY <1>1, ServerInv, LoadInv, ClickInv, SettleInv, RevokeInv DEF ToggleNext

\* The invariant of browser and server holds in every state.
THEOREM ToggleInvariance == ToggleSpec => []ToggleInv
BY ToggleInitInv, ToggleStepInv, PTL DEF ToggleSpec

\* A click that succeeds tells the truth about the browser, the memory and the file
\* of the server, and goes on doing so until another click or the push service
\* interferes.
THEOREM ButtonTruthCorrect == ToggleSpec => []ButtonTruth
<1>1. ToggleInv => ButtonTruth
  <2> SUFFICES ASSUME ToggleInv, NEW t \in Tabs, told[t] \in Endpoints
               PROVE  IF tab[t].on
                      THEN sub = told[t] /\ sub \in file /\ (up => sub \in subs)
                      ELSE sub = None /\ told[t] \in gone
    BY DEF ButtonTruth
  <2> QED BY DEF ToggleInv, Settled, IInv, AnswersHold
<1> QED BY <1>1, ToggleInvariance, PTL
=============================================================================
