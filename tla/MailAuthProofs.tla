--------------------------- MODULE MailAuthProofs ---------------------------
(***************************************************************************)
(* Proofs about the authentication of messages: the results of the checks  *)
(* and the action of the policy say what the message proves about its From *)
(* domain, for any domains, signatures and policies.                       *)
(***************************************************************************)
EXTENDS MailAuth, WellFoundedInduction, TLAPS

-----------------------------------------------------------------------------
(* The inductive invariant.                                                *)

\* What the steps taken so far have computed stands.
Computed ==
  /\ step # "spf" => r.spf = checkSPF(mail.sender, mail.spf)
  /\ step \notin {"spf", "dkim"} => r.dkim = checkDKIM(mail.err, mail.sigs)
  /\ step \in {"decide", "done"} => r.dmarc = checkDMARC(mail.from, mail.dmarc, r.spf, r.dkim)
  /\ step = "done" => action = Decide(policy, r)

IInv == TypeOK /\ Computed

-----------------------------------------------------------------------------
(* The checks.                                                             *)

\* A set of natural numbers that is not empty has a least element.
LEMMA Least ==
  ASSUME NEW S \in SUBSET Nat, S # {}
  PROVE  \E i \in S : \A j \in S : i <= j
<1> DEFINE R == OpToRel(<, Nat)
<1>1. IsWellFoundedOn(R, Nat)
  BY NatLessThanWellFounded
<1>2. \A i, j \in Nat : j < i => <<j, i>> \in R
  BY DEF OpToRel
<1> HIDE DEF R
<1>3. PICK i \in S : \A j \in S : ~(<<j, i>> \in R)
  BY <1>1, WFMin
<1>4. \A j \in S : ~(j < i)
  BY <1>2, <1>3
<1> QED BY <1>3, <1>4

\* The signatures of a message, and those that verify.
LEMMA Sigs ==
  ASSUME NEW s \in Signatures
  PROVE  /\ \A i \in DOMAIN s : s[i].domain \in Domains
         /\ Passing(s) \in SUBSET Nat
         /\ Passing(s) \subseteq DOMAIN s
<1>1. PICK n \in 0 .. MaxSigs : s \in [1 .. n -> Signature]
  BY DEF Signatures
<1>2. DOMAIN s \subseteq Nat
  BY <1>1
<1> QED BY <1>1, <1>2 DEF Signature, Passing

\* checkDKIM passes if a signature verifies, and then names the domain of one.
LEMMA DkimPass ==
  ASSUME NEW e \in VerifyError, NEW s \in Signatures, e # "error", Passing(s) # {}
  PROVE  /\ checkDKIM(e, s).status = "pass"
         /\ \E i \in Passing(s) : checkDKIM(e, s).domain = s[i].domain
<1> DEFINE first == CHOOSE i \in Passing(s) : \A j \in Passing(s) : i <= j
<1>1. first \in Passing(s)
  BY Sigs, Least
<1>2. s # << >>
  BY DEF Passing
<1>3. checkDKIM(e, s) = [status |-> "pass", domain |-> s[first].domain]
  BY <1>2 DEF checkDKIM
<1> HIDE DEF first
<1> QED BY <1>1, <1>3

\* checkDKIM fails, or finds nothing, if none verifies.
LEMMA DkimOther ==
  ASSUME NEW e \in VerifyError, NEW s \in Signatures, e = "error" \/ Passing(s) = {}
  PROVE  /\ checkDKIM(e, s).status \in {"fail", "none"}
         /\ checkDKIM(e, s).domain = NoDomain
<1>1. CASE e = "error" \/ s = << >>
  <2>1. s = << >> => Passing(s) = {}
    BY DEF Passing
  <2>2. checkDKIM(e, s) = [status |-> "none", domain |-> NoDomain]
    BY <1>1, <2>1 DEF checkDKIM
  <2> QED BY <2>2
<1>2. CASE e # "error" /\ s # << >>
  <2>1. checkDKIM(e, s) = [status |-> "fail", domain |-> NoDomain]
    BY <1>2 DEF checkDKIM
  <2> QED BY <2>1
<1> QED BY <1>1, <1>2

\* What checkSPF returns.
LEMMA SpfReturns ==
  ASSUME NEW d \in Domain, NEW a \in SpfAnswer
  PROVE  /\ checkSPF(d, a) \in SpfResult
         /\ checkSPF(d, a).status = "pass" <=> d # NoDomain /\ a = "pass"
         /\ d # NoDomain => checkSPF(d, a).domain = Lower[d]
BY DomainsAssumption DEF SpfResult, checkSPF, Domain, SpfAnswer

\* What checkDKIM returns.
LEMMA DkimReturns ==
  ASSUME NEW e \in VerifyError, NEW s \in Signatures
  PROVE  checkDKIM(e, s) \in DkimResult
<1> DEFINE first == CHOOSE i \in Passing(s) : \A j \in Passing(s) : i <= j
<1>1. CASE e # "error" /\ Passing(s) # {}
  <2>1. s[first].domain \in Domains
    BY <1>1, Sigs, Least
  <2>2. s # << >>
    BY <1>1 DEF Passing
  <2>3. checkDKIM(e, s) = [status |-> "pass", domain |-> s[first].domain]
    BY <1>1, <2>2 DEF checkDKIM
  <2> HIDE DEF first
  <2> QED BY <2>1, <2>3 DEF Domain, DkimResult
<1>2. CASE e # "error" /\ Passing(s) = {} /\ s # << >>
  BY <1>2 DEF checkDKIM, Domain, DkimResult
<1>3. CASE e = "error" \/ s = << >>
  <2>1. s = << >> => Passing(s) = {}
    BY DEF Passing
  <2>2. checkDKIM(e, s) = [status |-> "none", domain |-> NoDomain]
    BY <1>3, <2>1 DEF checkDKIM
  <2> QED BY <2>2 DEF Domain, DkimResult
<1> QED BY <1>1, <1>2, <1>3

\* aligned, of a domain in any spelling, is the reference's Speaks of it, and of
\* its lower-case form as well.
LEMMA AlignedSpeaks ==
  ASSUME TypeOK, mail.from # NoDomain, NEW d \in Domains, NEW mode \in Mode
  PROVE  /\ aligned(d, mail.from, mode) <=> Speaks(d, mode)
         /\ aligned(Lower[d], mail.from, mode) <=> Speaks(d, mode)
<1>1. PICK c \in Domains : mail.from = Lower[c]
  BY DEF TypeOK, Mail, Results
<1>2. Lower[mail.from] = mail.from /\ Lower[Lower[d]] = Lower[d]
  BY <1>1, LowerAssumption
<1>3. Lower[d] # NoDomain /\ d # NoDomain
  BY DomainsAssumption
<1> QED BY <1>2, <1>3 DEF aligned, Speaks

-----------------------------------------------------------------------------
(* The inductive invariant, one lemma for each action.                     *)

\* What a message starts with.
LEMMA Fresh == NoMail \in Mail /\ NoResults \in Results
<1>1. << >> \in Signatures
  <2>1. 0 \in 0 .. MaxSigs
    BY SigsAssumption
  <2>2. << >> \in [1 .. 0 -> Signature]
    OBVIOUS
  <2> QED BY <2>1, <2>2 DEF Signatures
<1>2. NoMail \in Mail
  BY <1>1 DEF NoMail, Mail, Domain, SpfAnswer, VerifyError, DmarcAnswer
<1> QED BY <1>2 DEF NoResults, Results, SpfResult, DkimResult, Domain

\* No check has run.
LEMMA InitInv == Init => IInv
BY Fresh DEF Init, IInv, TypeOK, Mail, Results, Computed, Step

\* checkSPF has run.
LEMMA SpfInv == ASSUME IInv, RunSPF PROVE IInv'
<1> USE DEF IInv
<1>1. PICK d \in Domain, a \in SpfAnswer :
        /\ mail' = [mail EXCEPT !.sender = d, !.spf = a]
        /\ r' = [r EXCEPT !.spf = checkSPF(d, a)]
  BY DEF RunSPF
<1>2. step' = "dkim" /\ UNCHANGED <<policy, action>>
  BY DEF RunSPF
<1> DEFINE v == checkSPF(d, a)
<1>3. v \in SpfResult
  BY SpfReturns
<1>4. mail'.sender = d /\ mail'.spf = a
  BY <1>1 DEF TypeOK, Mail, Results
<1>5. r' = [r EXCEPT !.spf = v]
  BY <1>1
<1>6. Computed'
  <2>1. r'.spf = v
    BY <1>5 DEF TypeOK, Mail, Results
  <2> QED BY <1>2, <1>4, <2>1 DEF Computed
<1> HIDE DEF v
<1>7. TypeOK'
  BY <1>1, <1>2, <1>3, <1>5 DEF TypeOK, Mail, Results, Step
<1> QED BY <1>6, <1>7

\* checkDKIM has run.
LEMMA DkimInv == ASSUME IInv, RunDKIM PROVE IInv'
<1> USE DEF IInv
<1>1. PICK e \in VerifyError, s \in Signatures :
        /\ mail' = [mail EXCEPT !.err = e, !.sigs = s]
        /\ r' = [r EXCEPT !.dkim = checkDKIM(e, s)]
  BY DEF RunDKIM
<1>2. step = "dkim" /\ step' = "dmarc" /\ UNCHANGED <<policy, action>>
  BY DEF RunDKIM
<1> DEFINE v == checkDKIM(e, s)
<1>3. v \in DkimResult
  BY DkimReturns
<1>4. mail'.sender = mail.sender /\ mail'.spf = mail.spf /\ mail'.err = e /\ mail'.sigs = s
  BY <1>1 DEF TypeOK, Mail, Results
<1>5. r' = [r EXCEPT !.dkim = v]
  BY <1>1
<1>6. Computed'
  <2>1. r'.dkim = v /\ r'.spf = r.spf
    BY <1>5 DEF TypeOK, Mail, Results
  <2> QED BY <1>2, <1>4, <2>1 DEF Computed
<1> HIDE DEF v
<1>7. TypeOK'
  BY <1>1, <1>2, <1>3, <1>5 DEF TypeOK, Mail, Results, Step
<1> QED BY <1>6, <1>7

\* checkDMARC has run.
LEMMA DmarcInv == ASSUME IInv, RunDMARC PROVE IInv'
<1> USE DEF IInv
<1>1. PICK f \in {Lower[d] : d \in Domains} \cup {NoDomain}, a \in DmarcAnswer :
        /\ mail' = [mail EXCEPT !.from = f, !.dmarc = a]
        /\ r' = [r EXCEPT !.dmarc = checkDMARC(f, a, r.spf, r.dkim)]
  BY DEF RunDMARC
<1>2. step = "dmarc" /\ step' = "decide" /\ UNCHANGED <<policy, action>>
  BY DEF RunDMARC
<1> DEFINE v == checkDMARC(f, a, r.spf, r.dkim)
<1>3. v \in {"pass", "fail", "none"}
  BY DEF checkDMARC
<1>4. /\ mail'.sender = mail.sender /\ mail'.spf = mail.spf
      /\ mail'.err = mail.err /\ mail'.sigs = mail.sigs
      /\ mail'.from = f /\ mail'.dmarc = a
  BY <1>1 DEF TypeOK, Mail, Results
<1>5. r' = [r EXCEPT !.dmarc = v]
  BY <1>1
<1>6. Computed'
  <2>1. r'.dmarc = v /\ r'.dkim = r.dkim /\ r'.spf = r.spf
    BY <1>5 DEF TypeOK, Mail, Results
  <2> QED BY <1>2, <1>4, <2>1 DEF Computed
<1> HIDE DEF v
<1>7. TypeOK'
  BY <1>1, <1>2, <1>3, <1>5 DEF TypeOK, Mail, Results, Step
<1> QED BY <1>6, <1>7

\* Decide has run.
LEMMA DecideInv == ASSUME IInv, RunDecide PROVE IInv'
<1> USE DEF IInv
<1>1. policy \in Policy
  BY PoliciesAssumption DEF TypeOK, Mail, Results
<1>2. Decide(policy, r) \in Action
  BY <1>1 DEF Decide, Policy
<1>3. TypeOK'
  BY <1>2 DEF RunDecide, TypeOK, Mail, Results, Step
<1>4. Computed'
  BY DEF RunDecide, Computed
<1> QED BY <1>3, <1>4

\* The next message starts from nothing.
LEMMA NextMessageInv == ASSUME IInv, NextMessage PROVE IInv'
<1>1. TypeOK'
  BY Fresh DEF NextMessage, IInv, TypeOK, Mail, Results, Step
<1>2. Computed'
  BY DEF NextMessage, Computed
<1> QED BY <1>1, <1>2 DEF IInv

-----------------------------------------------------------------------------
\* What Check has computed stands in every state that Check and Decide can reach.
THEOREM Invariance == Spec => []IInv
<1>1. ASSUME IInv, UNCHANGED vars PROVE IInv'
  BY <1>1 DEF vars, IInv, TypeOK, Mail, Results, Computed
<1>2. IInv /\ [Next]_vars => IInv'
  BY <1>1, SpfInv, DkimInv, DmarcInv, DecideInv, NextMessageInv DEF Next
<1> QED BY InitInv, <1>2, PTL DEF Spec

-----------------------------------------------------------------------------
(* What the invariant says of a message whose From domain has a record.    *)

\* The types of what the properties speak of.
LEMMA Parts ==
  ASSUME TypeOK
  PROVE  /\ mail.sender \in Domain /\ mail.spf \in SpfAnswer
         /\ mail.err \in VerifyError /\ mail.sigs \in Signatures
         /\ mail.dmarc.spf \in Mode /\ mail.dmarc.dkim \in Mode
<1>1. /\ mail.sender \in Domain /\ mail.spf \in SpfAnswer
      /\ mail.err \in VerifyError /\ mail.sigs \in Signatures /\ mail.dmarc \in DmarcAnswer
  BY DEF TypeOK, Mail, Results
<1> QED BY <1>1 DEF DmarcAnswer, Mode

\* The part of SPF in checkDMARC is the reference's.
LEMMA SpfPart ==
  ASSUME IInv, HasRecord
  PROVE  r.spf.status = "pass" /\ aligned(r.spf.domain, mail.from, mail.dmarc.spf)
           <=> AlignedSpf
<1> USE DEF IInv
<1>1. r.spf = checkSPF(mail.sender, mail.spf)
  BY DEF Computed, HasRecord
<1>2. r.spf.status = "pass" <=> mail.sender # NoDomain /\ mail.spf = "pass"
  BY <1>1, Parts, SpfReturns
<1>3. ASSUME mail.sender # NoDomain
      PROVE  /\ mail.sender \in Domains
             /\ r.spf.domain = Lower[mail.sender]
  BY <1>1, <1>3, Parts, SpfReturns DEF Domain
<1>4. mail.sender # NoDomain =>
        (aligned(r.spf.domain, mail.from, mail.dmarc.spf) <=> Speaks(mail.sender, mail.dmarc.spf))
  BY <1>3, Parts, AlignedSpeaks DEF HasRecord
<1> QED BY <1>2, <1>3, <1>4, DomainsAssumption DEF AlignedSpf, ProvedBySpf

\* The domain that checkDKIM names is one that the message proves.
LEMMA DkimPart ==
  ASSUME IInv, HasRecord
  PROVE  /\ r.dkim.status = "pass" <=> ProvedByDkim # {}
         /\ r.dkim.status = "pass" =>
              /\ r.dkim.domain \in ProvedByDkim
              /\ aligned(r.dkim.domain, mail.from, mail.dmarc.dkim)
                   <=> Speaks(r.dkim.domain, mail.dmarc.dkim)
<1> USE DEF IInv
<1>1. r.dkim = checkDKIM(mail.err, mail.sigs)
  BY DEF Computed, HasRecord
<1>2. ProvedByDkim # {} <=> mail.err # "error" /\ Passing(mail.sigs) # {}
  BY DEF ProvedByDkim
<1>3. CASE mail.err # "error" /\ Passing(mail.sigs) # {}
  <2>1. r.dkim.status = "pass" /\ \E i \in Passing(mail.sigs) : r.dkim.domain = mail.sigs[i].domain
    BY <1>1, <1>3, Parts, DkimPass
  <2>2. r.dkim.domain \in ProvedByDkim
    BY <1>3, <2>1 DEF ProvedByDkim
  <2>3. r.dkim.domain \in Domains
    BY <2>1, Parts, Sigs
  <2>4. aligned(r.dkim.domain, mail.from, mail.dmarc.dkim) <=> Speaks(r.dkim.domain, mail.dmarc.dkim)
    BY <2>3, Parts, AlignedSpeaks DEF HasRecord
  <2> QED BY <1>2, <1>3, <2>1, <2>2, <2>4
<1>4. CASE mail.err = "error" \/ Passing(mail.sigs) = {}
  <2>1. r.dkim.status \in {"fail", "none"}
    BY <1>1, <1>4, Parts, DkimOther
  <2> QED BY <1>2, <1>4, <2>1
<1> QED BY <1>3, <1>4

\* The verdict of checkDMARC on a record.
LEMMA DmarcPart ==
  ASSUME IInv, HasRecord
  PROVE  r.dmarc = IF \/ AlignedSpf
                      \/ r.dkim.status = "pass" /\ Speaks(r.dkim.domain, mail.dmarc.dkim)
                   THEN "pass" ELSE "fail"
<1>1. r.dmarc = checkDMARC(mail.from, mail.dmarc, r.spf, r.dkim)
  BY DEF IInv, Computed, HasRecord
<1> QED BY <1>1, SpfPart, DkimPart DEF checkDMARC, HasRecord

\* A message whose From domain publishes a record, and that proves to come from no
\* domain that may speak for it though all lookups were answered, gets the action
\* dmarc_fail of the policy.
THEOREM UnprovenGetsDmarcFailCorrect == Spec => []UnprovenGetsDmarcFail
<1>1. IInv => UnprovenGetsDmarcFail
  <2> SUFFICES ASSUME IInv, HasRecord, SpfAnswered, DkimAnswered, ~AlignedSpf, ~AlignedDkim
               PROVE  action = policy.dmarc_fail
    BY DEF UnprovenGetsDmarcFail
  <2>1. r.dmarc = "fail"
    BY DmarcPart, DkimPart DEF AlignedDkim
  <2>2. action = Decide(policy, r)
    BY DEF IInv, Computed, HasRecord
  <2> QED BY <2>1, <2>2 DEF Decide
<1> QED BY Invariance, <1>1, PTL

\* A signed message that proves to come from its From domain is spared dmarc_fail
\* and dkim_fail: only its SPF result can make a difference.
THEOREM ProvenSparedCorrect == Spec => []ProvenSpared
<1>1. IInv => ProvenSpared
  <2> SUFFICES ASSUME IInv, HasRecord, ProvedByDkim # {},
                      AlignedSpf \/ \A d \in ProvedByDkim : Speaks(d, mail.dmarc.dkim)
               PROVE  action = CASE r.spf.status = "fail" -> policy.spf_fail
                                 [] r.spf.status = "softfail" -> policy.spf_softfail
                                 [] OTHER -> policy.default
    BY DEF ProvenSpared
  <2>1. r.dmarc = "pass" /\ r.dkim.status = "pass"
    BY DmarcPart, DkimPart
  <2>2. action = Decide(policy, r)
    BY DEF IInv, Computed, HasRecord
  <2> QED BY <2>1, <2>2 DEF Decide
<1> QED BY Invariance, <1>1, PTL
=============================================================================
