---------------------------- MODULE CertReloader ----------------------------
(***************************************************************************)
(* The certificate cache of internal/smtpserver/tls.go: GetCertificate     *)
(* runs in the goroutine of every TLS handshake, and reload reads the pair *)
(* of files that an external tool (Caddy) replaces while the server runs.  *)
(*                                                                         *)
(* A certificate, and the key that belongs to it, is the number of the     *)
(* renewal that issued it.  The tool installs the two files one by one, in *)
(* any order, and may remove one of them before it installs a newer one.   *)
(* Each installation has a modification time of its own, which the number  *)
(* stands for too; that of a missing file is None, Go's zero time.         *)
(***************************************************************************)
EXTENDS Naturals

CONSTANTS
  Handshakes,   \* goroutines that call GetCertificate
  Main,         \* the goroutine that calls NewCertReloader
  MaxVersion,   \* bound: the number of renewals
  None          \* a missing file, and no certificate

ASSUME MaxVersionAssumption == MaxVersion \in Nat
ASSUME MainAssumption == Main \notin Handshakes /\ None \notin Handshakes \cup {Main}
ASSUME NoneAssumption == None \notin Nat

VARIABLES
  issued,       \* the newest certificate that the tool holds
  crt, key,     \* the files on disk
  next,         \* next[f]: the oldest certificate that file f can still become
  nearing,      \* certificates up to this number expire within 24 hours
  cert,         \* CertReloader.cert
  certMod, keyMod,   \* CertReloader.certMod and keyMod
  lock,         \* who holds CertReloader.mu for writing
  up,           \* NewCertReloader has returned
  frame,        \* frame[p]: the step that p is about to take and its locals
  lapped,       \* history: the files last changed while a reload was under way
  quiet         \* history: quiet[p] says that, since p began, the files have
                \* not changed and no reload was under way that read other ones

disk    == <<issued, crt, key, next, nearing>>
cache   == <<cert, certMod, keyMod>>
history == <<lapped, quiet>>
vars    == <<disk, cache, lock, up, frame, history>>

-----------------------------------------------------------------------------
Procs    == Handshakes \cup {Main}
Versions == 0 .. MaxVersion
File     == Versions \cup {None}

Steps == {"idle", "expiry", "crtmod", "keymod", "readcrt", "readkey", "lock",
          "statcrt", "statkey", "final"}

\* old is the certificate, om and ok the modification times that the caller
\* copied first; rc is the certificate file that reload read; out is what the
\* last call returned, and reloaded whether that call went through reload.
Frame == [step : Steps, old : File, om : File, ok : File, rc : File, out : File,
          reloaded : BOOLEAN]

Start(s) == [step |-> s, old |-> None, om |-> None, ok |-> None, rc |-> None,
             out |-> None, reloaded |-> FALSE]

\* reload has read the certificate file and not yet published what it read.
Loading(p) == frame[p].step \in {"readkey", "lock", "statcrt", "statkey"}

Goto(p, s) == frame' = [frame EXCEPT ![p].step = s]

Unlocked == lock = None

-----------------------------------------------------------------------------
(* The external tool and the clock.                                        *)

\* What a change of the files means for the history.
FilesChange ==
  /\ lapped' = (\E p \in Procs : Loading(p))
  /\ quiet' = [p \in Procs |-> FALSE]

Issue ==
  /\ issued < MaxVersion
  /\ issued' = issued + 1
  /\ UNCHANGED <<crt, key, next, nearing, cache, lock, up, frame, history>>

\* The file is replaced by the one of the newest certificate, or removed.
ReplaceCrt ==
  /\ \/ issued >= next.crt /\ crt' = issued /\ next' = [next EXCEPT !.crt = issued + 1]
     \/ crt # None /\ crt' = None /\ next' = next
  /\ FilesChange
  /\ UNCHANGED <<issued, key, nearing, cache, lock, up, frame>>

ReplaceKey ==
  /\ \/ issued >= next.key /\ key' = issued /\ next' = [next EXCEPT !.key = issued + 1]
     \/ key # None /\ key' = None /\ next' = next
  /\ FilesChange
  /\ UNCHANGED <<issued, crt, nearing, cache, lock, up, frame>>

\* The next certificate comes within 24 hours of its expiry.
Age ==
  /\ nearing <= issued
  /\ nearing' = nearing + 1
  /\ UNCHANGED <<issued, crt, key, next, cache, lock, up, frame, history>>

\* Certificate v expires within reloadBeforeExpiry.
Nearing(v) == v < nearing

-----------------------------------------------------------------------------
(* GetCertificate.                                                         *)

\* The read-locked copy of the cached values.
GetCertificate(h) ==
  /\ up
  /\ frame[h].step = "idle"
  /\ Unlocked
  /\ frame' = [frame EXCEPT ![h] = [Start("expiry") EXCEPT !.old = cert,
                                                           !.om = certMod,
                                                           !.ok = keyMod]]
  /\ quiet' = [quiet EXCEPT ![h] = \A p \in Procs \ {h} : Loading(p) => frame[p].rc = crt]
  /\ UNCHANGED <<disk, cache, lock, up, lapped>>

\* Mutant: the modification time of the certificate file is not compared.
CheckCrtSkipped(h) ==
  /\ frame[h].step = "crtmod"
  /\ Goto(h, "keymod")
  /\ UNCHANGED <<disk, cache, lock, up, history>>

\* The expiry, and then the modification times of the two files.
CheckExpiry(h) ==
  /\ frame[h].step = "expiry"
  /\ Goto(h, IF Nearing(frame[h].old) THEN "readcrt" ELSE "crtmod")
  /\ UNCHANGED <<disk, cache, lock, up, history>>

CheckCrt(h) ==
  /\ frame[h].step = "crtmod"
  /\ Goto(h, IF crt # frame[h].om THEN "readcrt" ELSE "keymod")
  /\ UNCHANGED <<disk, cache, lock, up, history>>

CheckKey(h) ==
  /\ frame[h].step = "keymod"
  /\ \/ /\ key # frame[h].ok
        /\ Goto(h, "readcrt")
     \/ /\ key = frame[h].ok
        /\ frame' = [frame EXCEPT ![h] = [Start("idle") EXCEPT !.out = frame[h].old]]
  /\ UNCHANGED <<disk, cache, lock, up, history>>

\* Mutant: the certificate copied before the reload is returned.
FinalOld(h) ==
  /\ frame[h].step = "final"
  /\ Unlocked
  /\ frame' = [frame EXCEPT ![h] = [Start("idle") EXCEPT !.out = frame[h].old,
                                                         !.reloaded = TRUE]]
  /\ UNCHANGED <<disk, cache, lock, up, history>>

\* The read-locked copy of the certificate after a reload, which is returned.
Final(h) ==
  /\ frame[h].step = "final"
  /\ Unlocked
  /\ frame' = [frame EXCEPT ![h] = [Start("idle") EXCEPT !.out = cert, !.reloaded = TRUE]]
  /\ UNCHANGED <<disk, cache, lock, up, history>>

-----------------------------------------------------------------------------
(* reload, called by GetCertificate and, in Main, by NewCertReloader.      *)

\* Mutant: reload is tried again until it works.
FailedRetried(p) == [frame[p] EXCEPT !.step = "readcrt"]

\* The error of reload: a handshake keeps the certificate that it copied; main
\* exits, and systemd starts it again.
Failed(p) ==
  IF p = Main THEN Start("readcrt")
  ELSE [Start("idle") EXCEPT !.out = frame[p].old, !.reloaded = TRUE]

\* tls.LoadX509KeyPair reads the certificate file,
ReadCrt(p) ==
  /\ frame[p].step = "readcrt"
  /\ \/ /\ crt # None
        /\ frame' = [frame EXCEPT ![p] = [@ EXCEPT !.step = "readkey", !.rc = crt]]
     \/ /\ crt = None
        /\ frame' = [frame EXCEPT ![p] = Failed(p)]
  /\ UNCHANGED <<disk, cache, lock, up, history>>

\* reads the key file, and fails unless they belong together.
ReadKey(p) ==
  /\ frame[p].step = "readkey"
  /\ \/ key = frame[p].rc /\ Goto(p, "lock")
     \/ /\ key # frame[p].rc
        /\ frame' = [frame EXCEPT ![p] = Failed(p)]
  /\ UNCHANGED <<disk, cache, lock, up, history>>

\* mu.Lock, and the new certificate and expiry.
Publish(p) ==
  /\ frame[p].step = "lock"
  /\ Unlocked
  /\ lock' = p
  /\ cert' = frame[p].rc
  /\ Goto(p, "statcrt")
  /\ UNCHANGED <<disk, certMod, keyMod, up, history>>

StatCrt(p) ==
  /\ frame[p].step = "statcrt"
  /\ certMod' = crt
  /\ Goto(p, "statkey")
  /\ UNCHANGED <<disk, cert, keyMod, lock, up, history>>

\* The last modification time, and mu.Unlock.  NewCertReloader returns.
StatKey(p) ==
  /\ frame[p].step = "statkey"
  /\ keyMod' = key
  /\ lock' = None
  /\ \/ p = Main /\ up' = TRUE /\ Goto(p, "idle")
     \/ p # Main /\ up' = up /\ Goto(p, "final")
  /\ UNCHANGED <<disk, cert, certMod, history>>

-----------------------------------------------------------------------------
Init ==
  /\ issued = 0
  /\ crt = 0
  /\ key = 0
  /\ next = [crt |-> 1, key |-> 1]
  /\ nearing = 0
  /\ cert = None
  /\ certMod = None
  /\ keyMod = None
  /\ lock = None
  /\ up = FALSE
  /\ frame = [p \in Procs |-> Start(IF p = Main THEN "readcrt" ELSE "idle")]
  /\ lapped = FALSE
  /\ quiet = [p \in Procs |-> FALSE]

Check(h)  == CheckExpiry(h) \/ CheckCrt(h) \/ CheckKey(h) \/ Final(h)
Reload(p) == ReadCrt(p) \/ ReadKey(p) \/ Publish(p) \/ StatCrt(p) \/ StatKey(p)
Tool      == Issue \/ ReplaceCrt \/ ReplaceKey \/ Age

Next == \/ Tool
        \/ \E h \in Handshakes : GetCertificate(h) \/ Check(h)
        \/ \E p \in Procs : Reload(p)

\* The goroutine of a handshake that has begun goes on.  sync.RWMutex starves
\* nobody, so that a goroutine that waits for the lock gets it in the end.
Fairness == \A h \in Handshakes : SF_vars(Check(h) \/ Reload(h))

Spec == Init /\ [][Next]_vars /\ Fairness

-----------------------------------------------------------------------------
(* Properties.                                                             *)

\* The types of the variables.
TypeOK ==
  /\ issued \in Versions /\ crt \in File /\ key \in File
  /\ next \in [crt : Nat, key : Nat]
  /\ nearing \in 0 .. MaxVersion + 1
  /\ cert \in File /\ certMod \in File /\ keyMod \in File
  /\ lock \in Procs \cup {None}
  /\ up \in BOOLEAN
  /\ frame \in [Procs -> Frame]
  /\ lapped \in BOOLEAN
  /\ quiet \in [Procs -> BOOLEAN]

\* The pair on disk can be loaded.
Matching == crt # None /\ key = crt

Returned(h) == frame[h].step = "idle" /\ frame[h].out # None

\* "reloaded automatically when the files change": a handshake during which the
\* files stay as they are presents the certificate on disk, provided that the
\* files did not last change in the middle of a reload.
FreshWhenQuiet ==
  \A h \in Handshakes :
    Returned(h) /\ quiet[h] /\ Matching /\ ~lapped => frame[h].out = crt

\* "or the certificate approaches expiry": whatever happened before, a handshake
\* that decides to reload, while the files stay as they are and nobody is in the
\* middle of loading other ones, presents the certificate on disk.
ReloadServesDisk ==
  \A h \in Handshakes :
    Returned(h) /\ quiet[h] /\ Matching /\ frame[h].reloaded => frame[h].out = crt

\* The unconditional reading of "reloads it when the files change".
ReloadsWhenFilesChange ==
  \A h \in Handshakes : Returned(h) /\ quiet[h] /\ Matching => frame[h].out = crt

\* Once the server is up, whatever happens to the files, every handshake gets an
\* answer, and it is a certificate.
HandshakeAnswered ==
  \A h \in Handshakes : frame[h].step # "idle" ~> Returned(h)
=============================================================================
