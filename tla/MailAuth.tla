------------------------------ MODULE MailAuth ------------------------------
(***************************************************************************)
(* Message authentication, internal/mailauth/auth.go: Check runs SPF, DKIM *)
(* and DMARC one after the other, each with answers of the DNS that come   *)
(* or fail to come on their own, and Policy.Decide maps the results to the *)
(* delivery action.                                                        *)
(*                                                                         *)
(* A domain is a model value with its lower-case form (Lower) and its      *)
(* organizational domain by the public suffix list (Org).  Of an envelope  *)
(* sender and of a From header only the domain matters, of a signature its *)
(* d= domain and how its verification ends.                                *)
(***************************************************************************)
EXTENDS Naturals, Sequences

CONSTANTS
  Domains,      \* domain names
  Lower,        \* Lower[d]: strings.ToLower
  Org,          \* Org[d]: publicsuffix.EffectiveTLDPlusOne of a lower-case d
  NoDomain,     \* the empty string, and no organizational domain
  MaxSigs,      \* bound: the DKIM signatures of a message
  Policies      \* the policy sections of the configurations considered

Action == {"reject", "spam", "inbox"}
Policy == [dmarc_fail : Action, spf_fail : Action, spf_softfail : Action,
           dkim_fail : Action, default : Action]

ASSUME DomainsAssumption ==
  /\ NoDomain \notin Domains
  /\ Lower \in [Domains -> Domains]
  /\ Org \in [Domains -> Domains \cup {NoDomain}]
ASSUME LowerAssumption == \A d \in Domains : Lower[Lower[d]] = Lower[d]
ASSUME SigsAssumption == MaxSigs \in Nat
ASSUME PoliciesAssumption == Policies \subseteq Policy

VARIABLES
  policy,       \* the Policy in force
  mail,         \* what is received and what the lookups answer
  r,            \* Results
  step,         \* the check to run next
  action        \* what Decide returned

vars == <<policy, mail, r, step, action>>

Domain == Domains \cup {NoDomain}

-----------------------------------------------------------------------------
(* What comes from the client and from the DNS.                            *)

\* The envelope sender: NoDomain stands for an empty or malformed one and for a
\* peer with no IP address.  spf.CheckHost answers, where "neutral" stands for none
\* too and "temperror" for permerror, or returns an error.
SpfAnswer == {"pass", "fail", "softfail", "neutral", "temperror", "error"}

\* A signature verifies, is invalid, or its key could not be looked up.
Signature == [domain : Domains, verdict : {"ok", "invalid", "lookup"}]
Signatures == UNION {[1 .. n -> Signature] : n \in 0 .. MaxSigs}

\* dkim.Verify may fail as a whole, or stop at too many signatures.
VerifyError == {"none", "toomany", "error"}

\* What dmarc.Lookup answers for the From domain.
Mode        == {"strict", "relaxed"}
DmarcAnswer == [found : {"record"}, spf : Mode, dkim : Mode]
                 \cup [found : {"missing", "error"}, spf : {"relaxed"}, dkim : {"relaxed"}]

-----------------------------------------------------------------------------
(* The checks.                                                             *)

\* checkSPF.  An error is StatusNone, as is every answer but the three named.
checkSPF(sender, answer) ==
  IF sender = NoDomain THEN [status |-> "none", domain |-> NoDomain]
  ELSE [status |-> IF answer \in {"pass", "fail", "softfail"} THEN answer ELSE "none",
        domain |-> Lower[sender]]

Passing(sigs) == {i \in DOMAIN sigs : sigs[i].verdict = "ok"}

\* Mutant: an invalid first signature decides.
checkDKIMFirst(err, sigs) ==
  CASE err = "error" \/ sigs = << >> -> [status |-> "none", domain |-> NoDomain]
    [] err # "error" /\ sigs # << >> ->
         IF sigs[1].verdict = "ok" THEN [status |-> "pass", domain |-> sigs[1].domain]
         ELSE [status |-> "fail", domain |-> NoDomain]

\* checkDKIM.  The first signature that verifies names the domain.
checkDKIM(err, sigs) ==
  CASE err = "error" \/ sigs = << >> ->
         [status |-> "none", domain |-> NoDomain]
    [] err # "error" /\ sigs # << >> /\ Passing(sigs) = {} ->
         [status |-> "fail", domain |-> NoDomain]
    [] err # "error" /\ Passing(sigs) # {} ->
         LET first == CHOOSE i \in Passing(sigs) : \A j \in Passing(sigs) : i <= j
         IN  [status |-> "pass", domain |-> sigs[first].domain]

\* Mutant: the errors of EffectiveTLDPlusOne are not looked at.
alignedIgnoringErrors(a, b, mode) ==
  /\ a # NoDomain /\ b # NoDomain
  /\ \/ Lower[a] = Lower[b]
     \/ mode = "relaxed" /\ Org[Lower[a]] = Org[Lower[b]]

aligned(a, b, mode) ==
  /\ a # NoDomain /\ b # NoDomain
  /\ \/ Lower[a] = Lower[b]
     \/ /\ mode = "relaxed"
        /\ Org[Lower[a]] # NoDomain
        /\ Org[Lower[a]] = Org[Lower[b]]

\* checkDMARC.
checkDMARC(from, answer, spf, dkim) ==
  IF from = NoDomain \/ answer.found # "record" THEN "none"
  ELSE IF \/ spf.status = "pass" /\ aligned(spf.domain, from, answer.spf)
          \/ dkim.status = "pass" /\ aligned(dkim.domain, from, answer.dkim)
  THEN "pass"
  ELSE "fail"

\* Policy.Decide.
Decide(p, res) ==
  CASE res.dmarc = "fail" -> p.dmarc_fail
    [] res.dmarc # "fail" /\ res.spf.status = "fail" -> p.spf_fail
    [] res.dmarc # "fail" /\ res.spf.status = "softfail" -> p.spf_softfail
    [] res.dmarc # "fail" /\ res.spf.status \notin {"fail", "softfail"} ->
         IF res.dkim.status = "fail" THEN p.dkim_fail ELSE p.default

-----------------------------------------------------------------------------
(* Check, and Decide after it.                                             *)

NoMail == [sender |-> NoDomain, spf |-> "error", err |-> "none", sigs |-> << >>,
           from |-> NoDomain,
           dmarc |-> [found |-> "missing", spf |-> "relaxed", dkim |-> "relaxed"]]

NoResults == LET none == [status |-> "none", domain |-> NoDomain]
             IN  [spf |-> none, dkim |-> none, dmarc |-> "none"]

Init ==
  /\ policy \in Policies
  /\ mail = NoMail
  /\ r = NoResults
  /\ step = "spf"
  /\ action = "none"

RunSPF ==
  /\ step = "spf"
  /\ \E d \in Domain, a \in SpfAnswer :
       /\ d = NoDomain => a = "error"
       /\ mail' = [mail EXCEPT !.sender = d, !.spf = a]
       /\ r' = [r EXCEPT !.spf = checkSPF(d, a)]
  /\ step' = "dkim"
  /\ UNCHANGED <<policy, action>>

RunDKIM ==
  /\ step = "dkim"
  /\ \E e \in VerifyError, s \in Signatures :
       /\ e # "none" => s # << >>
       /\ mail' = [mail EXCEPT !.err = e, !.sigs = s]
       /\ r' = [r EXCEPT !.dkim = checkDKIM(e, s)]
  /\ step' = "dmarc"
  /\ UNCHANGED <<policy, action>>

\* fromDomain, in lower case or empty, and the lookup of its record.
RunDMARC ==
  /\ step = "dmarc"
  /\ \E f \in {Lower[d] : d \in Domains} \cup {NoDomain}, a \in DmarcAnswer :
       /\ f = NoDomain => a = NoMail.dmarc
       /\ mail' = [mail EXCEPT !.from = f, !.dmarc = a]
       /\ r' = [r EXCEPT !.dmarc = checkDMARC(f, a, r.spf, r.dkim)]
  /\ step' = "decide"
  /\ UNCHANGED <<policy, action>>

RunDecide ==
  /\ step = "decide"
  /\ action' = Decide(policy, r)
  /\ step' = "done"
  /\ UNCHANGED <<policy, mail, r>>

\* The connection goes on to its next message.
NextMessage ==
  /\ step = "done"
  /\ mail' = NoMail
  /\ r' = NoResults
  /\ step' = "spf"
  /\ action' = "none"
  /\ UNCHANGED policy

Next == RunSPF \/ RunDKIM \/ RunDMARC \/ RunDecide \/ NextMessage

Spec == Init /\ [][Next]_vars

-----------------------------------------------------------------------------
(* Properties.                                                             *)

\* The reference: the domains that the message proves to come from, and the ones
\* that may speak for the From domain (RFC 7489, section 3.1).
ProvedBySpf  == {d \in Domains : mail.spf = "pass" /\ d = mail.sender}
ProvedByDkim == {mail.sigs[i].domain :
                  i \in {j \in Passing(mail.sigs) : mail.err # "error"}}

Speaks(d, mode) ==
  LET same(a, b) == a = b /\ a # NoDomain
  IN  \/ same(Lower[d], mail.from)
      \/ mode = "relaxed" /\ same(Org[Lower[d]], Org[mail.from])

HasRecord == step = "done" /\ mail.from # NoDomain /\ mail.dmarc.found = "record"

AlignedSpf  == \E d \in ProvedBySpf : Speaks(d, mail.dmarc.spf)
AlignedDkim == \E d \in ProvedByDkim : Speaks(d, mail.dmarc.dkim)

\* The lookups for SPF and for the signatures did not end in an error.
SpfAnswered  == mail.sender # NoDomain => mail.spf \notin {"temperror", "error"}
DkimAnswered == mail.err # "error" /\ \A i \in DOMAIN mail.sigs : mail.sigs[i].verdict # "lookup"

\* A message whose From domain publishes a record, and that proves to come from
\* no domain that may speak for it though all lookups were answered, is treated as
\* policy.dmarc_fail says, whatever else SPF and DKIM found.  Nothing is said of failed
\* lookups, of which checkSPF has it that they "must not penalize the sender" while
\* checkDMARC counts them like checks that did not pass.
UnprovenGetsDmarcFail ==
  HasRecord /\ SpfAnswered /\ DkimAnswered /\ ~AlignedSpf /\ ~AlignedDkim
    => action = policy.dmarc_fail

\* A signed message that proves to come from its From domain, by SPF or by all of
\* its valid signatures, is spared policy.dmarc_fail, and an invalid signature next
\* to a valid one does it no harm: only the SPF result can make a difference.
ProvenSpared ==
  HasRecord /\ ProvedByDkim # {}
            /\ (AlignedSpf \/ \A d \in ProvedByDkim : Speaks(d, mail.dmarc.dkim))
    => action = CASE r.spf.status = "fail" -> policy.spf_fail
                  [] r.spf.status = "softfail" -> policy.spf_softfail
                  [] OTHER -> policy.default

\* The types of the variables.
Mail == [sender : Domain, spf : SpfAnswer, err : VerifyError, sigs : Signatures,
         from : {Lower[d] : d \in Domains} \cup {NoDomain}, dmarc : DmarcAnswer]
SpfResult  == [status : {"pass", "fail", "softfail", "none"}, domain : Domain]
DkimResult == [status : {"pass", "fail", "none"}, domain : Domain]
Results == [spf : SpfResult, dkim : DkimResult, dmarc : {"pass", "fail", "none"}]
Step == {"spf", "dkim", "dmarc", "decide", "done"}
TypeOK ==
  /\ policy \in Policies
  /\ mail \in Mail
  /\ r \in Results
  /\ step \in Step
  /\ action \in Action \cup {"none"}
=============================================================================
