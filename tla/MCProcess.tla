----------------------------- MODULE MCProcess -----------------------------
(***************************************************************************)
(* Configurations for TLC: one in order, with a wildcard and an entry that *)
(* is not in normal form, and variations of it.                            *)
(***************************************************************************)
EXTENDS Process

W(local, domain, plain) == [local |-> local, domain |-> domain, plain |-> plain]

Keys(public, private) == [public |-> public, private |-> private, missing |-> FALSE]

Policy == [dmarc_fail |-> "reject", spf_fail |-> "reject", spf_softfail |-> "spam",
           dkim_fail |-> "inbox", default |-> "inbox"]

Good == [parses |-> TRUE, domain |-> "mx.a.org", smtp_listen |-> "", web_listen |-> "",
         tls |-> TRUE, recipients |-> <<W("me", "a.org", FALSE), W("*", "b.org", TRUE)>>,
         username |-> "admin", password |-> "bcrypt hash", push |-> Keys("p", "s"),
         policy |-> Policy]

MCTexts ==
  {Good,
   [Good EXCEPT !.web_listen = ":80", !.recipients = <<W("*", "a.org", FALSE)>>, !.push = NoPush],
   [Good EXCEPT !.smtp_listen = ":8080", !.tls = FALSE],
   [Good EXCEPT !.parses = FALSE],
   [Good EXCEPT !.domain = ""],
   [Good EXCEPT !.recipients = << >>],
   [Good EXCEPT !.recipients = <<W("me", "a.org", TRUE), W("you", NoDomain, TRUE)>>],
   [Good EXCEPT !.username = ""],
   [Good EXCEPT !.password = "secret"],
   [Good EXCEPT !.push = Keys("p", "")],
   [Good EXCEPT !.policy.default = "folder"]}

MCAddresses == {W(l, d, p) : l \in {"me", "you"}, d \in {"a.org", "b.org"}, p \in BOOLEAN}
=============================================================================
