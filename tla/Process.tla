------------------------------ MODULE Process ------------------------------
(***************************************************************************)
(* The life of the process: main.go, config.go and the start of the SMTP   *)
(* server.  The administrator edits the configuration file and stops and   *)
(* starts the service; systemd starts it again after a failure             *)
(* (airmx.service, Restart=on-failure); a start reads and validates the    *)
(* file and runs two servers, and main waits for the first of them to      *)
(* return or for a signal.                                                 *)
(*                                                                         *)
(* Of a string that names an address the lower-case trimmed form matters,  *)
(* and whether it is written that way (plain).                             *)
(***************************************************************************)
EXTENDS Naturals, Sequences

CONSTANTS
  Texts,          \* what the administrator may write into the configuration file
  Addresses,      \* the addresses of RCPT commands
  NoDomain,       \* the domain of a string without "@"
  None            \* no configuration

\* An address or a pattern as it may be written.
Written == [local : STRING, domain : STRING \cup {NoDomain}, plain : BOOLEAN]

\* A configuration file, Config as yaml.Unmarshal fills it.
Text ==
  [parses : BOOLEAN, domain : STRING, smtp_listen : STRING, web_listen : STRING,
   tls : BOOLEAN, recipients : Seq(Written), username : STRING, password : STRING,
   push : [public : STRING, private : STRING, missing : BOOLEAN],
   policy : [{"dmarc_fail", "spf_fail", "spf_softfail", "dkim_fail", "default"} -> STRING]]

ASSUME TextsAssumption == None \notin Texts /\ Texts \subseteq Text
ASSUME AddressesAssumption == Addresses \subseteq Written

Servers == {"smtp", "web"}

VARIABLES
  text,           \* the configuration file
  trouble,        \* what is wrong outside: ports taken, files damaged
  proc,           \* "stopped", "failed" or "running"
  cfg,            \* the configuration of the running process
  server,         \* server[s]: "off", "starting", "serving" or "failed"
  errs,           \* the errors in errCh
  signal,         \* a signal is in sigCh
  loaded          \* history: the file as it was when the process started

vars == <<text, trouble, proc, cfg, server, errs, signal, loaded>>

-----------------------------------------------------------------------------
(* config.go.                                                              *)

\* strings.ToLower(strings.TrimSpace(s)).
Normal(s) == [s EXCEPT !.plain = TRUE]

\* Mutant: the normalized entry is not stored.
ValidateForgetful(t) ==
  [t EXCEPT !.smtp_listen = IF @ = "" THEN ":25" ELSE @,
            !.web_listen = IF @ = "" THEN ":8080" ELSE @]

\* The web.push section is missing.
NoPush == [public |-> "", private |-> "", missing |-> TRUE]

\* What Validate makes of a configuration: defaults, and recipients in normal form.
Validate(t) ==
  [t EXCEPT !.smtp_listen = IF @ = "" THEN ":25" ELSE @,
            !.web_listen = IF @ = "" THEN ":8080" ELSE @,
            !.recipients = [k \in DOMAIN @ |-> Normal(@[k])]]

\* LoadConfig can read and parse the file, and Validate finds no error in it.
Valid(t) ==
  /\ t.parses
  /\ t.domain # ""
  /\ t.recipients # << >>
  /\ \A k \in DOMAIN t.recipients : t.recipients[k].domain # NoDomain
  /\ t.username # ""
  /\ t.password = "bcrypt hash"
  /\ t.push # NoPush => t.push.public # "" /\ t.push.private # ""
  /\ \A check \in DOMAIN t.policy : t.policy[check] \in {"reject", "spam", "inbox"}

\* AcceptsRecipient: equal, or under a wildcard "*@domain".
AcceptsRecipient(c, addr) ==
  \E k \in DOMAIN c.recipients :
    LET r == c.recipients[k]
    IN  \/ r = Normal(addr)
        \/ r.local = "*" /\ r.plain /\ r.domain = addr.domain

-----------------------------------------------------------------------------
(* main.go.                                                                *)

\* The process ends.
Exit(how) ==
  /\ proc' = how
  /\ cfg' = None
  /\ server' = [s \in Servers |-> "off"]
  /\ errs' = 0
  /\ signal' = FALSE
  /\ loaded' = None
  /\ UNCHANGED <<text, trouble>>

\* LoadConfig and push.New may fail, and main exits; or the servers are started.
Main ==
  IF Valid(text) /\ ~(text.push # NoPush /\ "subscriptions" \in trouble)
  THEN /\ proc' = "running"
       /\ cfg' = Validate(text)
       /\ server' = [s \in Servers |-> "starting"]
       /\ loaded' = text
       /\ UNCHANGED <<text, trouble, errs, signal>>
  ELSE Exit("failed")

Start   == proc = "stopped" /\ Main
Restart == proc = "failed" /\ Main

\* Mutant: the error of the web server is only logged.
ReturnedLogged(s) ==
  /\ server' = [server EXCEPT ![s] = "failed"]
  /\ errs' = IF s = "web" THEN errs ELSE errs + 1
  /\ UNCHANGED <<text, trouble, proc, cfg, signal, loaded>>

\* The goroutine of a server sends what ListenAndServe returned.
Returned(s) ==
  /\ server' = [server EXCEPT ![s] = "failed"]
  /\ errs' = errs + 1
  /\ UNCHANGED <<text, trouble, proc, cfg, signal, loaded>>

Port(c, s) == IF s = "smtp" THEN c.smtp_listen ELSE c.web_listen

Taken(s) == \/ Port(cfg, s) \in trouble
            \/ \E r \in Servers \ {s} : server[r] = "serving" /\ Port(cfg, r) = Port(cfg, s)

\* NewCertReloader needs the certificate before the SMTP server listens.
NoCertificate(s) == s = "smtp" /\ cfg.tls /\ "certificate" \in trouble

\* Mutant: a certificate that cannot be loaded is waited for.
ListenPatient(s) ==
  /\ server[s] = "starting"
  /\ \/ NoCertificate(s) /\ server' = [server EXCEPT ![s] = "waiting"]
        /\ UNCHANGED <<text, trouble, proc, cfg, errs, signal, loaded>>
     \/ Taken(s) /\ ~NoCertificate(s) /\ Returned(s)
     \/ /\ ~NoCertificate(s) /\ ~Taken(s)
        /\ server' = [server EXCEPT ![s] = "serving"]
        /\ UNCHANGED <<text, trouble, proc, cfg, errs, signal, loaded>>

\* ListenAndServe of either server.
Listen(s) ==
  /\ server[s] = "starting"
  /\ \/ NoCertificate(s) /\ Returned(s)
     \/ Taken(s) /\ ~NoCertificate(s) /\ Returned(s)
     \/ /\ ~NoCertificate(s) /\ ~Taken(s)
        /\ server' = [server EXCEPT ![s] = "serving"]
        /\ UNCHANGED <<text, trouble, proc, cfg, errs, signal, loaded>>

\* Accept fails for good.
Break(s) ==
  /\ server[s] = "serving"
  /\ Port(cfg, s) \in trouble
  /\ Returned(s)

\* Mutant: main waits until both servers have returned.
SelectErrorBoth == proc = "running" /\ errs > 1 /\ Exit("failed")

\* The select at the end of main.
SelectError  == proc = "running" /\ errs > 0 /\ Exit("failed")
SelectSignal == proc = "running" /\ signal /\ Exit("stopped")

-----------------------------------------------------------------------------
(* The administrator and the machine.                                      *)

Edit ==
  /\ text' \in Texts
  /\ UNCHANGED <<trouble, proc, cfg, server, errs, signal, loaded>>

Kill ==
  /\ proc = "running"
  /\ signal' = TRUE
  /\ UNCHANGED <<text, trouble, proc, cfg, server, errs, loaded>>

Troubles == {":25", ":8080", "certificate", "subscriptions"}

Trouble ==
  /\ \E x \in Troubles : trouble' \in {trouble \cup {x}, trouble \ {x}}
  /\ UNCHANGED <<text, proc, cfg, server, errs, signal, loaded>>

Init ==
  /\ text \in Texts
  /\ trouble = {}
  /\ proc = "stopped"
  /\ cfg = None
  /\ server = [s \in Servers |-> "off"]
  /\ errs = 0
  /\ signal = FALSE
  /\ loaded = None

Next == \/ Start \/ Restart \/ SelectError \/ SelectSignal
        \/ \E s \in Servers : Listen(s) \/ Break(s)
        \/ Edit \/ Kill \/ Trouble

\* systemd starts a failed service again; main and the goroutines go on.  A broken
\* listener need not notice at once, and nobody has to start a stopped service.
Fairness == /\ WF_vars(Restart)
            /\ WF_vars(SelectError)
            /\ \A s \in Servers : WF_vars(Listen(s))

Spec == Init /\ [][Next]_vars /\ Fairness

-----------------------------------------------------------------------------
(* Properties.                                                             *)

\* Whatever has become of the file since, a running server accepts the addresses
\* that the file named when it started, written in any case and with blanks around
\* them, and no others; and that file had no error.
AcceptsAsWritten ==
  proc = "running" =>
    /\ Valid(loaded)
    /\ \A addr \in Addresses :
         AcceptsRecipient(cfg, addr) <=>
           \E k \in DOMAIN loaded.recipients :
             /\ loaded.recipients[k].local \in {"*", addr.local}
             /\ loaded.recipients[k].domain = addr.domain

\* The error of a server that has returned waits in errCh, which never holds more
\* than it has room for, so that no server is stuck in sending its own.
Capacity == 2
ErrorsFit == /\ errs <= Capacity
             /\ \A s \in Servers : server[s] = "failed" => errs > 0

\* A process never goes on with one of its servers only: when one has returned,
\* the whole process ends.
OneFailsAllExit == \A s \in Servers : server[s] = "failed" ~> proc # "running"

\* Once the file is right and nothing is wrong outside, both servers come up and
\* stay, whatever failed before, unless somebody stops them.
Sound == /\ Valid(text)
         /\ Validate(text).smtp_listen # Validate(text).web_listen
         /\ trouble = {}
         /\ proc # "stopped"

Recovers == <>[]Sound => <>[](\A s \in Servers : server[s] = "serving")

\* The types of the variables.
TypeOK ==
  /\ text \in Texts
  /\ trouble \in SUBSET Troubles
  /\ proc \in {"stopped", "failed", "running"}
  /\ server \in [Servers -> {"off", "starting", "serving", "failed"}]
  /\ errs \in Nat
  /\ signal \in BOOLEAN
=============================================================================
