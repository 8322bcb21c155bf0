------------------------ MODULE CertReloaderProofs ------------------------
(***************************************************************************)
(* Proofs about CertReloader, for any number of handshakes and renewals.   *)
(***************************************************************************)
EXTENDS CertReloader, TLAPS

-----------------------------------------------------------------------------
(* The inductive invariant.                                                *)

\* mu is held exactly in the two steps that follow the publication.
LockHeld ==
  \A p \in Procs :
    frame[p].step \in {"statcrt", "statkey"} => lock = p /\ cert = frame[p].rc

\* Nobody is loading a certificate file other than the one on disk.
AllCurrent == \A p \in Procs : Loading(p) => frame[p].rc = crt

Current ==
  /\ ~lapped => AllCurrent
  /\ \A p \in Procs : quiet[p] => AllCurrent

\* A modification time that was recorded is never given to another file.
Mods ==
  /\ \A v \in {crt, certMod} : v # None => v < next.crt
  /\ \A v \in {key, keyMod} : v # None => v < next.key
  /\ next.crt <= issued + 1 /\ next.key <= issued + 1

\* The modification times tell the truth about the certificate, unless the files
\* last changed while it was being loaded.
Covers(c, m, k) == Matching /\ ~lapped /\ m = crt /\ k = key => c = crt

Coherent ==
  /\ lock = None => Covers(cert, certMod, keyMod)
  /\ \A p \in Procs : frame[p].step = "statkey" /\ ~lapped => certMod = crt
  /\ \A h \in Handshakes : quiet[h] =>
       /\ frame[h].step \in {"expiry", "crtmod", "keymod"} =>
            Covers(frame[h].old, frame[h].om, frame[h].ok)
       /\ frame[h].step = "keymod" => frame[h].om = crt
       /\ frame[h].step = "final" => cert = crt

IInv == TypeOK /\ LockHeld /\ Current /\ Mods /\ Coherent
          /\ FreshWhenQuiet /\ ReloadServesDisk

\* Init establishes the invariant.
LEMMA InitInv == Init => IInv
<1> SUFFICES ASSUME Init PROVE IInv
  OBVIOUS
<1>1. TypeOK
  <2>1. \A s \in Steps : Start(s) \in Frame
    BY DEF Start, Frame, File
  <2>2. frame \in [Procs -> Frame]
    BY <2>1 DEF Init, Steps
  <2>3. quiet \in [Procs -> BOOLEAN] /\ lapped \in BOOLEAN /\ up \in BOOLEAN
    BY DEF Init
  <2>4. 0 \in Versions /\ 0 \in 0 .. MaxVersion + 1 /\ next \in [crt : Nat, key : Nat]
    BY MaxVersionAssumption DEF Init, Versions
  <2> QED BY <2>2, <2>3, <2>4 DEF Init, TypeOK, File
<1>2. LockHeld /\ Current /\ Coherent /\ FreshWhenQuiet /\ ReloadServesDisk
  BY MainAssumption, NoneAssumption
     DEF Init, LockHeld, Current, AllCurrent, Loading, Coherent, Covers, Matching,
         FreshWhenQuiet, ReloadServesDisk, Returned, Start, Procs
<1>3. Mods
  BY DEF Init, Mods
<1> QED BY <1>1, <1>2, <1>3 DEF IInv

\* Every step preserves the types.
LEMMA TypeStep == TypeOK /\ [Next]_vars => TypeOK'
<1> SUFFICES ASSUME TypeOK, [Next]_vars PROVE TypeOK'
  OBVIOUS
<1> USE MaxVersionAssumption
<1>1. CASE UNCHANGED vars
  BY <1>1 DEF vars, disk, cache, history, TypeOK
<1>2. CASE Issue
  BY <1>2 DEF Issue, TypeOK, Versions, cache, history
<1>3. CASE ReplaceCrt
  BY <1>3 DEF ReplaceCrt, FilesChange, TypeOK, Versions, File, cache
<1>4. CASE ReplaceKey
  BY <1>4 DEF ReplaceKey, FilesChange, TypeOK, Versions, File, cache
<1>5. CASE Age
  BY <1>5 DEF Age, TypeOK, Versions, cache, history
<1>6. ASSUME NEW h \in Handshakes, GetCertificate(h) PROVE TypeOK'
  <2>1. h \in Procs
    BY DEF Procs
  <2>2. [Start("expiry") EXCEPT !.old = cert, !.om = certMod, !.ok = keyMod] \in Frame
    BY DEF Start, Frame, Steps, File, TypeOK
  <2>3. frame' \in [Procs -> Frame]
    BY <1>6, <2>1, <2>2 DEF GetCertificate, TypeOK
  <2>4. quiet' \in [Procs -> BOOLEAN]
    BY <1>6, <2>1 DEF GetCertificate, TypeOK
  <2> QED BY <1>6, <2>3, <2>4 DEF GetCertificate, TypeOK, disk, cache
<1>7. ASSUME NEW p \in Procs,
             NEW f \in Frame,
             frame' = [frame EXCEPT ![p] = f]
      PROVE  frame' \in [Procs -> Frame]
  BY <1>7 DEF TypeOK
<1>8. \A p \in Procs, s \in Steps : [frame[p] EXCEPT !.step = s] \in Frame
  BY DEF TypeOK, Frame
<1>9. ASSUME NEW p \in Procs, NEW s \in Steps, Goto(p, s)
      PROVE  frame' \in [Procs -> Frame]
  BY <1>7, <1>8, <1>9 DEF Goto
<1>10. ASSUME NEW h \in Handshakes, Check(h) PROVE TypeOK'
  <2>1. h \in Procs
    BY DEF Procs
  <2>2. \A v \in File, b \in BOOLEAN :
          /\ [Start("idle") EXCEPT !.out = v] \in Frame
          /\ [Start("idle") EXCEPT !.out = v, !.reloaded = TRUE] \in Frame
    BY DEF Start, Frame, Steps, File
  <2>3. frame[h].old \in File /\ cert \in File
    BY <2>1 DEF TypeOK, Frame
  <2>4. frame' \in [Procs -> Frame]
    BY <1>7, <1>9, <1>10, <2>1, <2>2, <2>3
       DEF Check, CheckExpiry, CheckCrt, CheckKey, Final, Steps
  <2> QED BY <1>10, <2>4 DEF Check, CheckExpiry, CheckCrt, CheckKey, Final, TypeOK,
                             disk, cache, history
<1>11. ASSUME NEW p \in Procs, Reload(p) PROVE TypeOK'
  <2>1. Failed(p) \in Frame
    BY DEF Failed, Start, Frame, Steps, File, TypeOK
  <2>2. [frame[p] EXCEPT !.step = "readkey", !.rc = crt] \in Frame
    BY DEF Frame, Steps, TypeOK
  <2>3. frame[p].rc \in File
    BY DEF TypeOK, Frame
  <2>4. CASE ReadCrt(p)
    <3>1. frame' \in [Procs -> Frame]
      BY <1>7, <2>1, <2>2, <2>4 DEF ReadCrt
    <3> QED BY <2>4, <3>1 DEF ReadCrt, TypeOK, disk, cache, history
  <2>5. CASE ReadKey(p)
    <3>1. frame' \in [Procs -> Frame]
      BY <1>7, <1>9, <2>1, <2>5 DEF ReadKey, Steps
    <3> QED BY <2>5, <3>1 DEF ReadKey, TypeOK, disk, cache, history
  <2>6. CASE Publish(p)
    <3>1. frame' \in [Procs -> Frame]
      BY <1>9, <2>6 DEF Publish, Steps
    <3> QED BY <2>3, <2>6, <3>1 DEF Publish, TypeOK, disk, history
  <2>7. CASE StatCrt(p)
    <3>1. frame' \in [Procs -> Frame]
      BY <1>9, <2>7 DEF StatCrt, Steps
    <3> QED BY <2>7, <3>1 DEF StatCrt, TypeOK, disk, history
  <2>8. CASE StatKey(p)
    <3>1. frame' \in [Procs -> Frame]
      BY <1>9, <2>8 DEF StatKey, Steps
    <3> QED BY <2>8, <3>1 DEF StatKey, TypeOK, disk, history
  <2> QED BY <1>11, <2>4, <2>5, <2>6, <2>7, <2>8 DEF Reload
<1> QED BY <1>1, <1>2, <1>3, <1>4, <1>5, <1>6, <1>10, <1>11 DEF Next, Tool

\* A change of the files ends every quiet period, and keeps the invariant even
\* when it comes in the middle of a reload.
LEMMA FilesStep ==
  ASSUME IInv, TypeOK', ReplaceCrt \/ ReplaceKey
  PROVE  IInv'
<1>1. UNCHANGED <<issued, nearing, cert, certMod, keyMod, lock, up, frame>> /\ FilesChange
  BY DEF ReplaceCrt, ReplaceKey, cache
<1>2. \A p \in Procs : ~quiet'[p]
  BY <1>1 DEF FilesChange
<1>3. LockHeld'
  BY <1>1 DEF IInv, LockHeld
<1>4. ~lapped' => \A p \in Procs : ~Loading(p) /\ ~Loading(p)'
  BY <1>1 DEF FilesChange, Loading
<1>5. Current'
  BY <1>2, <1>4 DEF Current, AllCurrent
<1>6. Mods'
  <2>1. /\ issued \in Nat /\ next \in [crt : Nat, key : Nat] /\ None \notin Nat
        /\ \A v \in {crt, certMod, key, keyMod} : v \in Nat \cup {None}
    BY NoneAssumption, MaxVersionAssumption DEF IInv, TypeOK, Versions, File
  <2>2. CASE ReplaceCrt
    <3>1. \/ crt' = issued /\ next'.crt = issued + 1 /\ next'.key = next.key
             /\ issued >= next.crt
          \/ crt' = None /\ next' = next
      BY <2>1, <2>2 DEF ReplaceCrt
    <3> QED BY <1>1, <2>1, <2>2, <3>1 DEF ReplaceCrt, IInv, Mods
  <2>3. CASE ReplaceKey
    <3>1. \/ key' = issued /\ next'.key = issued + 1 /\ next'.crt = next.crt
             /\ issued >= next.key
          \/ key' = None /\ next' = next
      BY <2>1, <2>3 DEF ReplaceKey
    <3> QED BY <1>1, <2>1, <2>3, <3>1 DEF ReplaceKey, IInv, Mods
  <2> QED BY <2>2, <2>3
<1>7. Matching' => ~(certMod' = crt' /\ keyMod' = key')
  <2>1. CASE crt' = issued /\ issued >= next.crt
    <3>1. certMod = None \/ certMod < next.crt
      BY DEF IInv, Mods
    <3>2. crt' # certMod
      BY <2>1, <3>1, NoneAssumption, MaxVersionAssumption DEF IInv, TypeOK, Versions, File
    <3> QED BY <1>1, <3>2
  <2>2. CASE key' = issued /\ issued >= next.key
    <3>1. keyMod = None \/ keyMod < next.key
      BY DEF IInv, Mods
    <3>2. key' # keyMod
      BY <2>2, <3>1, NoneAssumption, MaxVersionAssumption DEF IInv, TypeOK, Versions, File
    <3> QED BY <1>1, <3>2
  <2>3. CASE crt' = None \/ key' = None
    BY <2>3 DEF Matching
  <2> QED BY <2>1, <2>2, <2>3 DEF ReplaceCrt, ReplaceKey
<1>8. Coherent'
  BY <1>1, <1>2, <1>4, <1>7 DEF Coherent, Covers, Loading, Procs
<1>9. FreshWhenQuiet' /\ ReloadServesDisk'
  BY <1>2 DEF FreshWhenQuiet, ReloadServesDisk, Procs
<1> QED BY <1>3, <1>5, <1>6, <1>8, <1>9 DEF IInv

\* A step that leaves everything but the clock and the newest certificate alone.
LEMMA ClockStep ==
  ASSUME IInv, TypeOK', Issue \/ Age \/ UNCHANGED vars
  PROVE  IInv'
<1>1. /\ UNCHANGED <<crt, key, next, cache, lock, frame, history>>
      /\ issued' \in Nat /\ issued' >= issued
  BY MaxVersionAssumption DEF Issue, Age, vars, disk, IInv, TypeOK, Versions
<1>2. Mods'
  BY <1>1 DEF cache, IInv, Mods, TypeOK, Versions
<1> QED BY <1>1, <1>2 DEF cache, history, IInv, LockHeld, Current, AllCurrent, Loading,
             Coherent, Covers, Matching, FreshWhenQuiet, ReloadServesDisk, Returned

\* A step of a process that is not loading before or after it, leaves the cache
\* and the files alone, and makes nobody quiet, only has to be looked at locally.
LEMMA LocalStep ==
  ASSUME IInv, TypeOK', NEW h \in Procs,
         UNCHANGED <<disk, cache, lock, up, lapped>>,
         \A p \in Procs : p # h => frame'[p] = frame[p] /\ quiet'[p] = quiet[p],
         frame'[h].step \notin {"statcrt", "statkey"},
         Loading(h)' => frame'[h].rc = crt,
         quiet'[h] => AllCurrent,
         h \in Handshakes /\ quiet'[h] =>
           /\ frame'[h].step \in {"expiry", "crtmod", "keymod"} =>
                Covers(frame'[h].old, frame'[h].om, frame'[h].ok)
           /\ frame'[h].step = "keymod" => frame'[h].om = crt
           /\ frame'[h].step = "final" => cert = crt
           /\ Returned(h)' /\ Matching =>
                /\ ~lapped => frame'[h].out = crt
                /\ frame'[h].reloaded => frame'[h].out = crt
  PROVE  IInv'
<1>0. UNCHANGED <<issued, crt, key, next, cert, certMod, keyMod, lock, lapped>>
  BY DEF disk, cache
<1>1. LockHeld'
  BY <1>0 DEF IInv, LockHeld
<1>2. AllCurrent => AllCurrent'
  BY <1>0 DEF AllCurrent, Loading
<1>3. Current'
  BY <1>0, <1>2 DEF IInv, Current
<1>4. Mods'
  BY <1>0 DEF IInv, Mods
<1>5. Coherent'
  <2>1. lock' = None => Covers(cert, certMod, keyMod)'
    BY <1>0 DEF IInv, Coherent, Covers, Matching
  <2>2. \A p \in Procs : frame'[p].step = "statkey" /\ ~lapped' => certMod' = crt'
    BY <1>0 DEF IInv, Coherent
  <2>3. \A g \in Handshakes : quiet'[g] =>
          /\ frame'[g].step \in {"expiry", "crtmod", "keymod"} =>
               Covers(frame[g].old, frame[g].om, frame[g].ok)'
          /\ frame'[g].step = "keymod" => frame'[g].om = crt'
          /\ frame'[g].step = "final" => cert' = crt'
    BY <1>0 DEF IInv, Coherent, Covers, Matching, Procs
  <2> QED BY <2>1, <2>2, <2>3 DEF Coherent
<1>6. FreshWhenQuiet' /\ ReloadServesDisk'
  BY <1>0 DEF IInv, FreshWhenQuiet, ReloadServesDisk, Returned, Matching, Procs
<1> QED BY <1>1, <1>3, <1>4, <1>5, <1>6 DEF IInv

\* A handshake begins, compares, or returns.
LEMMA CheckStep ==
  ASSUME IInv, TypeOK', NEW h \in Handshakes, GetCertificate(h) \/ Check(h)
  PROVE  IInv'
<1>0. h \in Procs /\ frame \in [Procs -> Frame] /\ frame[h] \in Frame
      /\ quiet \in [Procs -> BOOLEAN]
  BY DEF Procs, IInv, TypeOK
<1>1. CASE GetCertificate(h)
  <2>1. /\ frame'[h].step = "expiry" /\ frame'[h].old = cert
        /\ frame'[h].om = certMod /\ frame'[h].ok = keyMod
    BY <1>0, <1>1 DEF GetCertificate, Start
  <2>2. \A p \in Procs : p # h => frame'[p] = frame[p] /\ quiet'[p] = quiet[p]
    BY <1>0, <1>1 DEF GetCertificate
  <2>3. quiet'[h] => AllCurrent
    <3>1. quiet'[h] => \A p \in Procs \ {h} : Loading(p) => frame[p].rc = crt
      BY <1>0, <1>1 DEF GetCertificate
    <3>2. ~Loading(h)
      BY <1>1 DEF GetCertificate, Loading
    <3> QED BY <3>1, <3>2 DEF AllCurrent
  <2>4. Covers(frame'[h].old, frame'[h].om, frame'[h].ok)
    BY <1>1, <2>1 DEF GetCertificate, Unlocked, IInv, Coherent
  <2>5. UNCHANGED <<disk, cache, lock, up, lapped>>
    BY <1>1 DEF GetCertificate
  <2> QED BY <1>0, <2>1, <2>2, <2>3, <2>4, <2>5, LocalStep DEF Loading, Returned
<1>2. CASE Check(h)
  <2>0. /\ UNCHANGED <<disk, cache, lock, up, lapped>> /\ quiet' = quiet
        /\ \A p \in Procs : p # h => frame'[p] = frame[p]
    BY <1>0, <1>2 DEF Check, CheckExpiry, CheckCrt, CheckKey, Final, Goto, history
  <2>1. quiet'[h] => AllCurrent
    BY <1>0, <2>0 DEF IInv, Current
  <2>2. CASE CheckExpiry(h) \/ CheckCrt(h)
    <3>1. /\ frame'[h].step \in {"readcrt", "crtmod", "keymod"}
          /\ frame'[h].step = "keymod" => frame'[h].om = crt
          /\ frame'[h].old = frame[h].old /\ frame'[h].om = frame[h].om
          /\ frame'[h].ok = frame[h].ok
      BY <1>0, <2>2 DEF CheckExpiry, CheckCrt, Goto, Frame
    <3>2. quiet[h] => Covers(frame[h].old, frame[h].om, frame[h].ok)
      BY <2>2 DEF CheckExpiry, CheckCrt, IInv, Coherent
    <3> QED BY <1>0, <2>0, <2>1, <3>1, <3>2, LocalStep DEF Loading, Returned
  <2>3. CASE CheckKey(h) /\ key # frame[h].ok
    <3>1. frame'[h].step = "readcrt"
      BY <1>0, <2>3 DEF CheckKey, Goto, Frame
    <3> QED BY <1>0, <2>0, <2>1, <3>1, LocalStep DEF Loading, Returned
  <2>4. CASE CheckKey(h) /\ key = frame[h].ok
    <3>1. /\ frame'[h].step = "idle" /\ frame'[h].out = frame[h].old
          /\ frame'[h].reloaded = FALSE
      BY <1>0, <2>4 DEF CheckKey, Start
    <3>2. quiet[h] /\ Matching /\ ~lapped => frame[h].old = crt
      BY <2>4 DEF CheckKey, IInv, Coherent, Covers
    <3> QED BY <1>0, <2>0, <2>1, <3>1, <3>2, LocalStep DEF Loading, Returned
  <2>5. CASE Final(h)
    <3>1. frame'[h].step = "idle" /\ frame'[h].out = cert
      BY <1>0, <2>5 DEF Final, Start
    <3>2. quiet[h] => cert = crt
      BY <2>5 DEF Final, IInv, Coherent
    <3> QED BY <1>0, <2>0, <2>1, <3>1, <3>2, LocalStep DEF Loading, Returned
  <2> QED BY <1>2, <2>2, <2>3, <2>4, <2>5 DEF Check, CheckKey
<1> QED BY <1>1, <1>2

\* A process loads the pair, or fails to.
LEMMA LoadStep ==
  ASSUME IInv, TypeOK', NEW p \in Procs, ReadCrt(p) \/ ReadKey(p)
  PROVE  IInv'
<1>0. frame \in [Procs -> Frame] /\ frame[p] \in Frame
  BY DEF IInv, TypeOK
<1>1. /\ UNCHANGED <<disk, cache, lock, up, lapped>> /\ quiet' = quiet
      /\ \A q \in Procs : q # p => frame'[q] = frame[q]
  BY <1>0 DEF ReadCrt, ReadKey, Goto, history
<1>2. quiet'[p] => AllCurrent
  BY <1>1 DEF IInv, Current
<1>3. CASE ReadCrt(p) /\ crt # None
  <2>1. frame'[p].step = "readkey" /\ frame'[p].rc = crt
    BY <1>0, <1>3 DEF ReadCrt, Frame
  <2> QED BY <1>1, <1>2, <2>1, LocalStep DEF Loading, Returned
<1>4. CASE ReadKey(p) /\ key = frame[p].rc
  <2>1. frame'[p].step = "lock" /\ frame'[p].rc = frame[p].rc
    BY <1>0, <1>4 DEF ReadKey, Goto, Frame
  <2>2. Loading(p)
    BY <1>4 DEF ReadKey, Loading
  <2>3. CASE frame[p].rc = crt
    BY <1>1, <1>2, <2>1, <2>3, LocalStep DEF Loading, Returned
  <2>4. CASE frame[p].rc # crt
    <3>1. lapped /\ \A q \in Procs : ~quiet[q]
      BY <2>2, <2>4 DEF IInv, Current, AllCurrent
    <3>2. LockHeld'
      BY <1>1, <2>1 DEF IInv, LockHeld, cache
    <3>3. Mods'
      BY <1>1 DEF IInv, Mods, disk, cache
    <3> QED BY <1>1, <2>1, <3>1, <3>2, <3>3
            DEF IInv, Current, Coherent, Covers, FreshWhenQuiet, ReloadServesDisk,
                disk, cache, Procs
  <2> QED BY <2>3, <2>4
<1>5. CASE frame' = [frame EXCEPT ![p] = Failed(p)]
  <2>1. frame'[p].step \in {"readcrt", "idle"} /\ frame'[p].reloaded \in BOOLEAN
    BY <1>0, <1>5 DEF Failed, Start
  <2>2. CASE Matching
    <3>1. ReadKey(p) /\ frame[p].rc # crt
      BY <1>0, <1>5, <2>1, <2>2 DEF ReadCrt, ReadKey, Goto, Matching, Frame
    <3>2. ~quiet[p]
      BY <3>1 DEF ReadKey, Loading, IInv, Current, AllCurrent
    <3> QED BY <1>1, <1>2, <2>1, <3>2, LocalStep DEF Loading
  <2>3. CASE ~Matching
    BY <1>1, <1>2, <2>1, <2>3, LocalStep DEF Loading
  <2> QED BY <2>2, <2>3
<1> QED BY <1>3, <1>4, <1>5 DEF ReadCrt, ReadKey

\* A process publishes the certificate and the modification times.
LEMMA PublishStep ==
  ASSUME IInv, TypeOK', NEW p \in Procs, Publish(p) \/ StatCrt(p) \/ StatKey(p)
  PROVE  IInv'
<1>0. /\ frame \in [Procs -> Frame] /\ frame[p] \in Frame /\ None \notin Procs
  BY MainAssumption DEF IInv, TypeOK, Procs
<1>1. /\ UNCHANGED <<issued, crt, key, next, lapped, quiet>>
      /\ \A q \in Procs : q # p => frame'[q] = frame[q]
      /\ frame'[p].rc = frame[p].rc
      /\ frame'[p].out = frame[p].out
      /\ frame'[p].reloaded = frame[p].reloaded
  BY <1>0 DEF Publish, StatCrt, StatKey, Goto, disk, history, Frame
<1>2. Loading(p) /\ (AllCurrent => frame[p].rc = crt)
  BY DEF Publish, StatCrt, StatKey, Loading, AllCurrent
<1>3. Current'
  <2>1. AllCurrent => AllCurrent'
    BY <1>1, <1>2 DEF AllCurrent, Loading
  <2> QED BY <1>1, <2>1 DEF IInv, Current
<1>4. (~lapped => frame[p].rc = crt) /\ \A h \in Procs : quiet[h] => frame[p].rc = crt
  BY <1>2 DEF IInv, Current
<1>5. Mods'
  <2>1. certMod' \in {certMod, crt} /\ keyMod' \in {keyMod, key}
    BY DEF Publish, StatCrt, StatKey
  <2> QED BY <1>1, <2>1 DEF IInv, Mods
<1>6. cert' = frame[p].rc
  BY DEF Publish, StatCrt, StatKey, IInv, LockHeld
<1>7. \A q \in Procs : q # p => frame[q].step \notin {"statcrt", "statkey"}
  BY <1>0 DEF Publish, StatCrt, StatKey, Unlocked, IInv, LockHeld
<1>8. LockHeld'
  <2>1. frame'[p].step \in {"statcrt", "statkey"} => lock' = p
    BY <1>0, MainAssumption DEF Publish, StatCrt, StatKey, Goto, Frame, IInv, LockHeld
  <2> QED BY <1>1, <1>6, <1>7, <2>1 DEF LockHeld
<1>9. Coherent'
  <2>1. lock' = None => Covers(cert, certMod, keyMod)'
    BY <1>1, <1>4, <1>6 DEF Covers, Matching
  <2>2. \A q \in Procs : frame'[q].step = "statkey" /\ ~lapped' => certMod' = crt'
    <3>1. frame'[p].step = "statkey" => certMod' = crt'
      BY <1>0, <1>1 DEF Publish, StatCrt, StatKey, Goto, Frame
    <3> QED BY <1>1, <1>7, <3>1
  <2>3. ASSUME NEW h \in Handshakes, quiet'[h]
        PROVE  /\ frame'[h].step \in {"expiry", "crtmod", "keymod"} =>
                    Covers(frame[h].old, frame[h].om, frame[h].ok)'
               /\ frame'[h].step = "keymod" => frame'[h].om = crt'
               /\ frame'[h].step = "final" => cert' = crt'
    <3>1. h \in Procs /\ quiet[h] /\ cert' = crt'
      BY <1>1, <1>4, <1>6, <2>3 DEF Procs
    <3>2. CASE h = p
      <4>1. frame'[p].step \in {"statcrt", "statkey", "idle", "final"}
        BY <1>0 DEF Publish, StatCrt, StatKey, Goto, Frame
      <4> QED BY <3>1, <3>2, <4>1
    <3>3. CASE h # p
      BY <1>1, <3>1, <3>3 DEF IInv, Coherent, Covers, Matching
    <3> QED BY <3>2, <3>3
  <2> QED BY <2>1, <2>2, <2>3 DEF Coherent
<1>10. FreshWhenQuiet' /\ ReloadServesDisk'
  <2>1. \A h \in Handshakes : Returned(h)' => Returned(h) /\ frame'[h] = frame[h]
    <3>1. ASSUME NEW h \in Handshakes, Returned(h)' PROVE h # p
      BY <1>0, <3>1, MainAssumption DEF Publish, StatCrt, StatKey, Goto, Frame, Returned
    <3> QED BY <1>1, <3>1 DEF Returned, Procs
  <2> QED BY <1>1, <2>1 DEF IInv, FreshWhenQuiet, ReloadServesDisk, Matching
<1> QED BY <1>3, <1>5, <1>8, <1>9, <1>10 DEF IInv

\* The three facts that make IInv an inductive invariant.
LEMMA NextInv == IInv /\ [Next]_vars => IInv'
<1> SUFFICES ASSUME IInv, [Next]_vars PROVE IInv'
  OBVIOUS
<1>1. TypeOK'
  BY TypeStep DEF IInv
<1>2. CASE Tool \/ UNCHANGED vars
  BY <1>1, <1>2, FilesStep, ClockStep DEF Tool
<1>3. ASSUME NEW h \in Handshakes, GetCertificate(h) \/ Check(h) PROVE IInv'
  BY <1>1, <1>3, CheckStep
<1>4. ASSUME NEW p \in Procs, Reload(p) PROVE IInv'
  BY <1>1, <1>4, LoadStep, PublishStep DEF Reload
<1> QED BY <1>2, <1>3, <1>4 DEF Next

\* The invariant holds in every state: whoever holds CertReloader.mu is in one of
\* the last two steps of reload, and a reload that nobody disturbed leaves the
\* modification times of exactly the certificate that it cached.
THEOREM Invariance == Spec => []IInv
BY InitInv, NextInv, PTL DEF Spec

\* The variables of the certificate cache keep their types.
THEOREM TypeCorrect == Spec => []TypeOK
<1>1. IInv => TypeOK
  BY DEF IInv
<1> QED BY <1>1, Invariance, PTL

\* A handshake of GetCertificate that sees no change of the files presents the
\* certificate on disk, unless the files last changed in the middle of a reload.
THEOREM FreshWhenQuietCorrect == Spec => []FreshWhenQuiet
<1>1. IInv => FreshWhenQuiet
  BY DEF IInv
<1> QED BY <1>1, Invariance, PTL

\* A handshake that goes through reload presents the certificate on disk if the
\* files stay as they are and nobody is in the middle of loading other ones.
THEOREM ReloadServesDiskCorrect == Spec => []ReloadServesDisk
<1>1. IInv => ReloadServesDisk
  BY DEF IInv
<1> QED BY <1>1, Invariance, PTL
===========================================================================
