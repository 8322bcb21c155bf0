--------------------------- MODULE ProcessProofs ---------------------------
(***************************************************************************)
(* Proofs about the life of the process: a server that runs accepts what   *)
(* the file said when it started, and no error of a server gets lost.      *)
(***************************************************************************)
EXTENDS Process, TLAPS

-----------------------------------------------------------------------------
(* The inductive invariant.                                                *)

\* The configuration in use is what Validate made of a file without error.
Configured == proc = "running" => /\ loaded \in Texts
                                  /\ Valid(loaded)
                                  /\ cfg = Validate(loaded)

\* The servers belong to a process, and errCh holds one error of each that returned.
One(s)  == IF server[s] = "failed" THEN 1 ELSE 0
Counted == /\ proc # "running" => \A s \in Servers : server[s] = "off"
           /\ errs = One("smtp") + One("web")

IInv == TypeOK /\ Configured /\ Counted

-----------------------------------------------------------------------------
(* config.go.                                                              *)

\* Validate changes no recipient but for its form.
LEMMA ValidateRecipients ==
  ASSUME NEW t \in Texts
  PROVE  /\ DOMAIN Validate(t).recipients = DOMAIN t.recipients
         /\ \A k \in DOMAIN t.recipients : Validate(t).recipients[k] = Normal(t.recipients[k])
<1>1. t \in Text
  BY TextsAssumption
<1> QED BY <1>1 DEF Validate, Text

\* Two addresses in normal form are equal if their parts are.
LEMMA NormalEqual ==
  ASSUME NEW r \in Written, NEW a \in Written
  PROVE  /\ Normal(r).local = r.local /\ Normal(r).domain = r.domain /\ Normal(r).plain
         /\ Normal(r) = Normal(a) <=> r.local = a.local /\ r.domain = a.domain
BY DEF Normal, Written

\* AcceptsRecipient, with the configuration that Validate returns, answers by the
\* entries of the file, in any spelling.
LEMMA Accepts ==
  ASSUME NEW t \in Texts, NEW addr \in Addresses
  PROVE  AcceptsRecipient(Validate(t), addr) <=>
           \E k \in DOMAIN t.recipients : /\ t.recipients[k].local \in {"*", addr.local}
                                          /\ t.recipients[k].domain = addr.domain
<1>1. t \in Text /\ addr \in Written
  BY TextsAssumption, AddressesAssumption
<1>2. \A k \in DOMAIN t.recipients : t.recipients[k] \in Written
  BY <1>1 DEF Text
<1> DEFINE c == Validate(t)
<1>3. /\ DOMAIN c.recipients = DOMAIN t.recipients
      /\ \A k \in DOMAIN t.recipients : c.recipients[k] = Normal(t.recipients[k])
  BY ValidateRecipients
<1> HIDE DEF c
<1>4. AcceptsRecipient(c, addr) <=>
        \E k \in DOMAIN t.recipients :
          \/ Normal(t.recipients[k]) = Normal(addr)
          \/ /\ Normal(t.recipients[k]).local = "*" /\ Normal(t.recipients[k]).plain
             /\ Normal(t.recipients[k]).domain = addr.domain
  BY <1>3 DEF AcceptsRecipient
<1>5. \A k \in DOMAIN t.recipients :
        /\ Normal(t.recipients[k]).local = t.recipients[k].local
        /\ Normal(t.recipients[k]).domain = t.recipients[k].domain
        /\ Normal(t.recipients[k]).plain
        /\ Normal(t.recipients[k]) = Normal(addr) <=>
             t.recipients[k].local = addr.local /\ t.recipients[k].domain = addr.domain
  BY <1>1, <1>2, NormalEqual
<1> QED BY <1>4, <1>5 DEF c

-----------------------------------------------------------------------------
(* The inductive invariant.                                                *)

\* The service is stopped.
LEMMA InitInv == Init => IInv
<1> SUFFICES ASSUME Init PROVE IInv
  OBVIOUS
<1>1. TypeOK
  BY DEF Init, TypeOK
<1>2. Configured
  BY DEF Init, Configured
<1>3. Counted
  BY DEF Init, Counted, One, Servers
<1> QED BY <1>1, <1>2, <1>3 DEF IInv

\* The process ends, and its channels with it.
LEMMA ExitInv ==
  ASSUME IInv, NEW how \in {"stopped", "failed"}, Exit(how)
  PROVE  IInv'
<1>1. TypeOK'
  BY DEF IInv, Exit, TypeOK
<1>2. Configured'
  BY DEF Exit, Configured
<1>3. Counted'
  BY DEF Exit, Counted, One, Servers
<1> QED BY <1>1, <1>2, <1>3 DEF IInv

\* main reads the file, or gives up.
LEMMA MainInv ==
  ASSUME IInv, proc # "running", Main
  PROVE  IInv'
<1>1. CASE Exit("failed")
  BY <1>1, ExitInv
<1>2. CASE /\ Valid(text) /\ proc' = "running" /\ cfg' = Validate(text)
           /\ server' = [s \in Servers |-> "starting"]
           /\ loaded' = text
           /\ UNCHANGED <<text, trouble, errs, signal>>
  <2>1. TypeOK'
    BY <1>2 DEF IInv, TypeOK
  <2>2. Configured'
    BY <1>2 DEF IInv, TypeOK, Configured, Valid, Validate, Normal
  <2>3. errs = 0
    BY DEF IInv, Counted, One, Servers
  <2>4. Counted'
    BY <1>2, <2>3 DEF Counted, One, Servers
  <2> QED BY <2>1, <2>2, <2>4 DEF IInv
<1> QED BY <1>1, <1>2 DEF Main

\* Configured and the rest of the types stay while a server changes its state.
LEMMA ServerInv ==
  ASSUME IInv, NEW s \in Servers, NEW state \in {"serving", "failed"},
         server[s] \in {"starting", "serving"},
         server' = [server EXCEPT ![s] = state],
         errs' = IF state = "failed" THEN errs + 1 ELSE errs,
         UNCHANGED <<text, trouble, proc, cfg, signal, loaded>>
  PROVE  IInv'
<1>0. errs \in Nat
  BY Zenon DEF IInv, TypeOK
<1>1. errs' \in Nat
  BY <1>0
<1>2. TypeOK'
  BY <1>1 DEF IInv, TypeOK
<1>3. Configured'
  BY DEF IInv, Configured
<1>4. Counted'
  <2>1. proc = "running"
    BY DEF IInv, Counted
  <2>2. /\ server'[s] = state /\ \A r \in Servers \ {s} : server'[r] = server[r]
        /\ server[s] # "failed"
    BY DEF IInv, TypeOK
  <2>3. errs = One("smtp") + One("web")
    BY DEF IInv, Counted
  <2>4. errs' = One("smtp")' + One("web")'
    <3>1. CASE s = "smtp"
      BY <2>2, <2>3, <3>1 DEF One, Servers
    <3>2. CASE s = "web"
      BY <2>2, <2>3, <3>2 DEF One, Servers
    <3> QED BY <3>1, <3>2 DEF Servers
  <2> QED BY <2>1, <2>4 DEF Counted
<1> QED BY <1>2, <1>3, <1>4 DEF IInv

\* What happens outside, or nothing.
LEMMA OutsideInv ==
  ASSUME IInv, text' \in Texts, trouble' \in SUBSET Troubles, signal' \in BOOLEAN,
         UNCHANGED <<proc, cfg, server, errs, loaded>>
  PROVE  IInv'
<1>1. TypeOK'
  BY DEF IInv, TypeOK
<1>2. Configured' /\ Counted'
  BY DEF IInv, Configured, Counted, One
<1> QED BY <1>1, <1>2 DEF IInv

\* The next-state relation.
LEMMA StepInv == ASSUME IInv, [Next]_vars PROVE IInv'
<1>1. ASSUME NEW s \in Servers, Listen(s) PROVE IInv'
  BY <1>1, ServerInv DEF Listen, Returned
<1>2. ASSUME NEW s \in Servers, Break(s) PROVE IInv'
  BY <1>2, ServerInv DEF Break, Returned
<1>3. CASE Start \/ Restart
  BY <1>3, MainInv DEF Start, Restart
<1>4. CASE SelectError \/ SelectSignal
  BY <1>4, ExitInv DEF SelectError, SelectSignal
<1>5. CASE Edit \/ Kill \/ Trouble \/ UNCHANGED vars
  <2>1. text \in Texts /\ trouble \in SUBSET Troubles /\ signal \in BOOLEAN
    BY Zenon DEF IInv, TypeOK
  <2>2. /\ text' \in Texts /\ trouble' \in SUBSET Troubles /\ signal' \in BOOLEAN
        /\ UNCHANGED <<proc, cfg, server, errs, loaded>>
    BY <1>5, <2>1 DEF Edit, Kill, Trouble, vars
  <2> QED BY <2>2, OutsideInv
<1> QED BY <1>1, <1>2, <1>3, <1>4, <1>5 DEF Next

-----------------------------------------------------------------------------
(* The theorems.                                                           *)

\* Every state that main.go can reach satisfies the inductive invariant.
THEOREM Invariance == Spec => []IInv
BY InitInv, StepInv, PTL DEF Spec

\* A running server accepts the recipients that the file named when LoadConfig read
\* it, in any spelling, and no others, for any file and any address.
THEOREM AcceptsAsWrittenCorrect == Spec => []AcceptsAsWritten
<1>1. IInv => AcceptsAsWritten
  <2> SUFFICES ASSUME IInv, proc = "running" PROVE AcceptsAsWritten
    BY DEF AcceptsAsWritten
  <2>1. loaded \in Texts /\ Valid(loaded) /\ cfg = Validate(loaded)
    BY DEF IInv, Configured
  <2> QED BY <2>1, Accepts DEF AcceptsAsWritten
<1> QED BY Invariance, <1>1, PTL

\* The error of a server that has returned is in errCh, and errCh has room for the
\* errors of both.
THEOREM ErrorsFitCorrect == Spec => []ErrorsFit
<1>1. IInv => ErrorsFit
  BY DEF IInv, Counted, One, Servers, ErrorsFit, Capacity
<1> QED BY Invariance, <1>1, PTL
=============================================================================
