-------------------------- MODULE WebSessionProofs --------------------------
(***************************************************************************)
(* Proofs about the sessions of the web interface: a page is shown on a    *)
(* login under the present configuration only, and a login lasts.          *)
(***************************************************************************)
EXTENDS WebSession, TLAPS

-----------------------------------------------------------------------------
(* The inductive invariant.                                                *)

\* A cookie of the name u and the password p that lasts until t.
Issued(c, u, p, t) == c = Cookie(p, Append(u, t), t)

\* A browser has no cookie, or one that some configuration issued.
JarIssued ==
  \A b \in Browsers : \/ jar[b] = NoCookie
                      \/ \E u \in Usernames, p \in Passwords, t \in Nat : Issued(jar[b], u, p, t)

\* The cookie of a login that lasts is the one that the login issued.
LoginKept ==
  \A b \in Browsers : since[b] # None =>
    Issued(jar[b], config.username, config.password, since[b] + MaxAge)

IInv == TypeOK /\ JarIssued /\ LoginKept /\ PageIsEntitled /\ LoginLasts

-----------------------------------------------------------------------------
(* Cookies.                                                                *)

\* The name and the expiry are found again in a payload, if the name has no "|".
LEMMA PayloadParts ==
  ASSUME NEW u \in Usernames, NEW t \in Nat
  PROVE  LET y == Append(u, t)
         IN  /\ Len(u) \in Nat /\ Len(u) > 0
             /\ Len(y) = Len(u) + 1
             /\ Head(y) = u[1]
             /\ Len(Tail(y)) = Len(u)
             /\ Len(u) = 1 => Tail(y)[1] = t /\ u = <<u[1]>>
<1>1. u \in Seq(STRING \cup Nat) /\ u # << >>
  BY UsernamesAssumption
<1>2. Len(u) \in Nat /\ Len(u) > 0
  BY <1>1
<1>3. Append(u, t) \in Seq(STRING \cup Nat) /\ Len(Append(u, t)) = Len(u) + 1
  BY <1>1
<1>4. Append(u, t)[1] = u[1]
  BY <1>1, <1>2
<1>5. Len(Tail(Append(u, t))) = Len(u)
  BY <1>2, <1>3
<1>6. ASSUME Len(u) = 1
      PROVE  Tail(Append(u, t))[1] = t /\ u = <<u[1]>>
  BY <1>1, <1>3, <1>6
<1> QED BY <1>2, <1>3, <1>4, <1>5, <1>6

\* A cookie that is valid names the present user, was issued under the present
\* password, and has not expired.
LEMMA ValidIsIssued ==
  ASSUME TypeOK, NEW u \in Usernames, NEW p \in Passwords, NEW t \in Nat, NEW c,
         Issued(c, u, p, t), validSession(c)
  PROVE  p = config.password /\ u = config.username /\ now <= t
<1>1. /\ c.key = p /\ c.payload = Append(u, t)
  BY DEF Issued, Cookie
<1>2. p = config.password
  BY <1>1 DEF validSession, opens, sessionKey
<1>3. Len(u) = 1
  BY <1>1, PayloadParts DEF validSession, Cut, IsNumber
<1>4. Tail(Append(u, t))[1] = t /\ <<Head(Append(u, t))>> = u
  BY <1>3, PayloadParts
<1>5. now <= t /\ u = config.username
  BY <1>1, <1>4 DEF validSession, Cut
<1> QED BY <1>2, <1>5

\* The cookie that a login issues is valid until it expires.
LEMMA IssuedIsValid ==
  ASSUME TypeOK, NEW t \in Nat, NEW c, now <= t, Len(config.username) = 1,
         Issued(c, config.username, config.password, t)
  PROVE  validSession(c)
<1>1. c.key = config.password /\ c.payload = Append(config.username, t)
  BY DEF Issued, Cookie
<1>2. config.username \in Usernames
  BY DEF TypeOK
<1>3. /\ Len(c.payload) = 2 /\ Len(Tail(c.payload)) = 1 /\ Tail(c.payload)[1] = t
      /\ <<Head(c.payload)>> = config.username
  BY <1>1, <1>2, PayloadParts
<1> QED BY <1>1, <1>3 DEF validSession, opens, sessionKey, Cut, IsNumber

\* A browser without a cookie has no session.
LEMMA NoCookieInvalid == ~validSession(NoCookie)
BY DEF validSession, NoCookie, Cookie

-----------------------------------------------------------------------------
(* The inductive invariant, one lemma for each action.                     *)

\* The clock and the end of a session that begins now are natural numbers.
LEMMA Clock == TypeOK => now \in Nat /\ now + 1 \in Nat /\ now + MaxAge \in Nat
<1>1. TypeOK => now \in Nat
  BY Zenon DEF TypeOK
<1> QED BY <1>1, TimesAssumption

\* Nobody has a cookie.
LEMMA InitInv == Init => IInv
BY DEF Init, IInv, TypeOK, JarIssued, LoginKept, PageIsEntitled, LoginLasts

\* handleLogin issues a cookie of the present configuration, or none.
LEMMA LoginInv ==
  ASSUME IInv, NEW b \in Browsers, Login(b)
  PROVE  IInv'
<1> USE TimesAssumption DEF IInv
<1>0. now \in Nat /\ now + MaxAge \in Nat
  BY Clock
<1>1. config.username \in Usernames /\ config.password \in Passwords
  BY DEF TypeOK
<1>2. UNCHANGED <<now, config>> /\ got'[b] \in {"home", "bad credentials"}
      /\ got' \in [Browsers -> {"none", "home", "bad credentials", "page", "login"}]
      /\ \A d \in Browsers \ {b} : got'[d] = got[d] /\ jar'[d] = jar[d] /\ since'[d] = since[d]
  BY DEF Login, TypeOK
<1>3. \/ jar'[b] = jar[b] /\ since'[b] = since[b]
      \/ /\ since'[b] = now
         /\ Issued(jar'[b], config.username, config.password, now + MaxAge)
  BY DEF Login, TypeOK, Issued, sessionKey
<1>4. TypeOK'
  <2>1. DOMAIN jar' = Browsers /\ since' \in [Browsers -> Nat \cup {None}]
    BY <1>0, ZenonT(60) DEF TypeOK, Login
  <2> QED BY <1>2, <2>1 DEF TypeOK
<1>5. JarIssued'
  <2>1. SUFFICES ASSUME NEW d \in Browsers
                 PROVE  \/ jar'[d] = NoCookie
                        \/ \E u \in Usernames, p \in Passwords, t \in Nat : Issued(jar'[d], u, p, t)
    BY Zenon DEF JarIssued, Issued
  <2>2. CASE jar'[d] = jar[d]
    BY <2>2, Zenon DEF JarIssued
  <2>3. CASE Issued(jar'[d], config.username, config.password, now + MaxAge)
    BY <1>0, <1>1, <2>3, Zenon
  <2> QED BY <1>2, <1>3, <2>2, <2>3, Zenon
<1>6. LoginKept'
  BY <1>2, <1>3 DEF LoginKept, Issued
<1>7. PageIsEntitled'
  BY <1>2 DEF PageIsEntitled
<1>8. LoginLasts'
  BY <1>2 DEF LoginLasts
<1> QED BY <1>4, <1>5, <1>6, <1>7, <1>8

\* requireAuth shows a page on a valid cookie only, and turns away no login that
\* lasts.
LEMMA RequestInv ==
  ASSUME IInv, NEW b \in Browsers, Request(b)
  PROVE  IInv'
<1> USE TimesAssumption DEF IInv
<1>1. /\ UNCHANGED <<now, config, jar, since>>
      /\ \A d \in Browsers \ {b} : got'[d] = got[d]
      /\ got'[b] = IF validSession(Sent(b)) THEN "page" ELSE "login"
  BY DEF Request, TypeOK
<1>2. TypeOK'
  BY <1>1 DEF Request, TypeOK
<1>3. JarIssued' /\ LoginKept'
  BY <1>1 DEF JarIssued, LoginKept, Issued
<1>4. PageIsEntitled'
  <2> SUFFICES ASSUME got'[b] = "page"
               PROVE  /\ jar[b].key = config.password
                      /\ jar[b].payload = Append(config.username, jar[b].until)
                      /\ now <= jar[b].until
    BY <1>1 DEF PageIsEntitled
  <2>1. validSession(jar[b]) /\ jar[b] # NoCookie
    BY <1>1, NoCookieInvalid DEF Sent
  <2>2. PICK u \in Usernames, p \in Passwords, t \in Nat : Issued(jar[b], u, p, t)
    BY <2>1 DEF JarIssued
  <2>3. p = config.password /\ u = config.username /\ now <= t
    BY <2>1, <2>2, ValidIsIssued
  <2> QED BY <2>2, <2>3 DEF Issued, Cookie
<1>5. LoginLasts'
  <2> SUFFICES ASSUME Len(config.username) = 1, got'[b] = "login", since[b] # None,
                      ~(now > since[b] + MaxAge)
               PROVE  FALSE
    BY <1>1 DEF LoginLasts
  <2> DEFINE t == since[b] + MaxAge
  <2>0. since[b] \in Nat
    BY Zenon DEF TypeOK
  <2>1. t \in Nat /\ now <= t
    BY <2>0, Clock
  <2>2. Issued(jar[b], config.username, config.password, t)
    BY DEF LoginKept
  <2>3. jar[b].until = t
    BY <2>2 DEF Issued, Cookie
  <2>4. Sent(b) = jar[b]
    BY <2>1, <2>3, Clock DEF Sent
  <2>5. validSession(jar[b])
    <3> HIDE DEF t
    <3> QED BY <2>1, <2>2, IssuedIsValid
  <2> QED BY <1>1, <2>4, <2>5
<1> QED BY <1>2, <1>3, <1>4, <1>5

\* handleLogout takes the cookie away.
LEMMA LogoutInv ==
  ASSUME IInv, NEW b \in Browsers, Logout(b)
  PROVE  IInv'
<1> USE DEF IInv
<1>1. /\ UNCHANGED <<now, config>>
      /\ jar'[b] = NoCookie /\ got'[b] = "login" /\ since'[b] = None
      /\ \A d \in Browsers \ {b} : got'[d] = got[d] /\ jar'[d] = jar[d] /\ since'[d] = since[d]
  BY DEF Logout, TypeOK
<1>2. TypeOK'
  BY <1>1 DEF Logout, TypeOK
<1>3. JarIssued' /\ LoginKept'
  BY <1>1 DEF JarIssued, LoginKept, Issued
<1>4. PageIsEntitled' /\ LoginLasts'
  BY <1>1 DEF PageIsEntitled, LoginLasts
<1> QED BY <1>2, <1>3, <1>4

\* A new configuration; the cookies stay.
LEMMA RestartInv == ASSUME IInv, Restart PROVE IInv'
<1> USE DEF IInv
<1>1. PICK u \in Usernames, p \in Passwords :
        /\ config' = [username |-> u, password |-> p]
        /\ since' = IF config' = config THEN since ELSE [b \in Browsers |-> None]
  BY DEF Restart
<1>2. UNCHANGED <<now, jar>> /\ got' = [b \in Browsers |-> "none"]
  BY DEF Restart
<1>3. TypeOK'
  BY <1>1, <1>2 DEF TypeOK
<1>4. JarIssued'
  BY <1>2 DEF JarIssued, Issued
<1>5. LoginKept'
  BY <1>1, <1>2 DEF LoginKept, Issued
<1>6. PageIsEntitled' /\ LoginLasts'
  BY <1>2 DEF PageIsEntitled, LoginLasts
<1> QED BY <1>3, <1>4, <1>5, <1>6

\* A day passes.
LEMMA TickInv == ASSUME IInv, Tick PROVE IInv'
<1> USE DEF IInv
<1>0. now' \in Nat
  BY Clock DEF Tick
<1>1. TypeOK'
  BY <1>0 DEF Tick, TypeOK
<1>2. JarIssued' /\ LoginKept'
  BY DEF Tick, JarIssued, LoginKept, Issued
<1>3. PageIsEntitled' /\ LoginLasts'
  BY DEF Tick, PageIsEntitled, LoginLasts
<1> QED BY <1>1, <1>2, <1>3

-----------------------------------------------------------------------------
\* Every state that auth.go can reach satisfies the inductive invariant.
THEOREM Invariance == Spec => []IInv
<1>1. ASSUME IInv, UNCHANGED vars PROVE IInv'
  <2> USE <1>1 DEF vars, IInv
  <2>1. TypeOK'
    BY DEF TypeOK
  <2>2. JarIssued' /\ LoginKept'
    BY DEF JarIssued, LoginKept, Issued
  <2>3. PageIsEntitled' /\ LoginLasts'
    BY DEF PageIsEntitled, LoginLasts
  <2> QED BY <2>1, <2>2, <2>3
<1>2. IInv /\ [Next]_vars => IInv'
  BY <1>1, LoginInv, RequestInv, LogoutInv, RestartInv, TickInv DEF Next
<1> QED BY InitInv, <1>2, PTL DEF Spec

\* requireAuth shows a page only to a browser that logged in as the present user,
\* with the present password, at most sessionMaxAge ago, whatever cookies of
\* earlier configurations the browsers have kept.
THEOREM PageIsEntitledCorrect == Spec => []PageIsEntitled
<1>1. IInv => PageIsEntitled
  BY DEF IInv
<1> QED BY Invariance, <1>1, PTL

\* validSession never turns away, before sessionMaxAge is over, a browser that
\* handleLogin let in, if the user name has no "|".
THEOREM LoginLastsCorrect == Spec => []LoginLasts
<1>1. IInv => LoginLasts
  BY DEF IInv
<1> QED BY Invariance, <1>1, PTL
=============================================================================
