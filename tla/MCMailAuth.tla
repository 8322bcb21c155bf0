----------------------------- MODULE MCMailAuth -----------------------------
(***************************************************************************)
(* An instance of MailAuth for TLC: a.org in two spellings, a subdomain of *)
(* it, and two names that are public suffixes themselves.                  *)
(***************************************************************************)
EXTENDS MailAuth

CONSTANTS a, A, sub, co, uk

MCDomains == {a, A, sub, co, uk}
MCLower == [d \in MCDomains |-> IF d = A THEN a ELSE d]
MCOrg == [d \in MCDomains |-> IF d \in {a, A, sub} THEN a ELSE NoDomain]

\* The policy of config.example.yaml, and one that is strict about signatures.
MCPolicies ==
  {[dmarc_fail |-> "reject", spf_fail |-> "reject", spf_softfail |-> "spam",
    dkim_fail |-> "inbox", default |-> "inbox"],
   [dmarc_fail |-> "spam", spf_fail |-> "reject", spf_softfail |-> "inbox",
    dkim_fail |-> "reject", default |-> "inbox"]}
=============================================================================
