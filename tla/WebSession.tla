----------------------------- MODULE WebSession -----------------------------
(***************************************************************************)
(* The sessions of the web interface, internal/web/auth.go.  The server    *)
(* keeps nothing: a session is a cookie, sealed under a key derived from   *)
(* the password hash, that names the user and the time it expires.  The    *)
(* administrator may change the user name and the password, which takes a  *)
(* restart; browsers keep their cookies meanwhile.                         *)
(*                                                                         *)
(* Time is counted in days.  A password stands for its bcrypt hash, and    *)
(* for the key.  A sealed value opens under its own key only, so that it   *)
(* is the pair of key and payload.  A user name is the sequence of its     *)
(* parts between "|" signs, a payload that of a name with the expiry time  *)
(* behind it.                                                              *)
(***************************************************************************)
EXTENDS Naturals, Sequences

CONSTANTS
  Browsers,       \* browsers, each with a cookie jar
  Usernames,      \* user names that the configuration may hold
  Passwords,      \* passwords that the configuration may hold
  MaxAge,         \* sessionMaxAge, in days
  MaxTime,        \* bound: the last day considered
  None            \* no cookie, no day

ASSUME UsernamesAssumption == Usernames \subseteq Seq(STRING) \ {<< >>}
ASSUME TimesAssumption == MaxAge \in Nat /\ MaxTime \in Nat

VARIABLES
  now,            \* the clock of the server, and of the browsers
  config,         \* web.username and web.password_bcrypt of the running server
  jar,            \* jar[b]: the session cookie of browser b
  got,            \* got[b]: the answer to the last request of b
  since           \* history: since[b]: the day of the last login of b under the
                  \* present configuration, unless it has logged out

vars == <<now, config, jar, got, since>>

-----------------------------------------------------------------------------
Cookie(key, payload, until) == [key |-> key, payload |-> payload, until |-> until]

NoCookie == Cookie(None, << >>, 0)

\* A browser sends a cookie until its MaxAge is over.
Sent(b) == IF jar[b].until >= now THEN jar[b] ELSE NoCookie

\* sessionKey.
sessionKey == config.password

\* The payload at its first "|": the name before it, the expiry behind it, which
\* is a number unless it holds another "|".
Cut(payload) == [user |-> <<Head(payload)>>, expiry |-> Tail(payload)]
IsNumber(expiry) == Len(expiry) = 1

\* Mutant: any key will do.
opensAny(c) == c # NoCookie

\* open fails for another key.
opens(c) == c.key = sessionKey

\* Mutant: the last moment of a session does not count.
validSessionStrict(c) ==
  /\ opens(c)
  /\ Len(c.payload) > 1
  /\ LET p == Cut(c.payload)
     IN  /\ IsNumber(p.expiry)
         /\ now < p.expiry[1]
         /\ p.user = config.username

\* validSession.
validSession(c) ==
  /\ opens(c)
  /\ Len(c.payload) > 1
  /\ LET p == Cut(c.payload)
     IN  /\ IsNumber(p.expiry)
         /\ now <= p.expiry[1]
         /\ p.user = config.username

-----------------------------------------------------------------------------
\* handleLogin, with the right name and password, or with another one.
Login(b) ==
  /\ \/ /\ jar' = [jar EXCEPT ![b] =
                     Cookie(sessionKey, Append(config.username, now + MaxAge), now + MaxAge)]
        /\ got' = [got EXCEPT ![b] = "home"]
        /\ since' = [since EXCEPT ![b] = now]
     \/ /\ got' = [got EXCEPT ![b] = "bad credentials"]
        /\ UNCHANGED <<jar, since>>
  /\ UNCHANGED <<now, config>>

\* requireAuth: a page behind it, or the redirection to the login page.
Request(b) ==
  /\ got' = [got EXCEPT ![b] = IF validSession(Sent(b)) THEN "page" ELSE "login"]
  /\ UNCHANGED <<now, config, jar, since>>

\* handleLogout.
Logout(b) ==
  /\ jar' = [jar EXCEPT ![b] = NoCookie]
  /\ got' = [got EXCEPT ![b] = "login"]
  /\ since' = [since EXCEPT ![b] = None]
  /\ UNCHANGED <<now, config>>

\* The configuration is changed, and the server started again.
Restart ==
  /\ \E u \in Usernames, p \in Passwords :
       /\ config' = [username |-> u, password |-> p]
       /\ since' = IF config' = config THEN since ELSE [b \in Browsers |-> None]
  /\ got' = [b \in Browsers |-> "none"]
  /\ UNCHANGED <<now, jar>>

Tick ==
  /\ now < MaxTime
  /\ now' = now + 1
  /\ got' = [b \in Browsers |-> "none"]
  /\ UNCHANGED <<config, jar, since>>

-----------------------------------------------------------------------------
Init ==
  /\ now = 0
  /\ config \in [username : Usernames, password : Passwords]
  /\ jar = [b \in Browsers |-> NoCookie]
  /\ got = [b \in Browsers |-> "none"]
  /\ since = [b \in Browsers |-> None]

Next == \/ \E b \in Browsers : Login(b) \/ Request(b) \/ Logout(b)
        \/ Restart
        \/ Tick

Spec == Init /\ [][Next]_vars

-----------------------------------------------------------------------------
(* Properties.                                                             *)

\* "Changing the password invalidates all sessions": a browser that is shown a
\* page, with a cookie of whatever age, has logged in with a password that is the
\* present one, as the present user, at most MaxAge days ago.
PageIsEntitled ==
  \A b \in Browsers : got[b] = "page" =>
    /\ jar[b].key = config.password
    /\ jar[b].payload = Append(config.username, jar[b].until)
    /\ now <= jar[b].until

\* A browser that logged in at most MaxAge days ago, and has not logged out, is
\* not sent to the login page while the configuration stays the same, provided
\* that the user name has no "|": strings.Cut takes the payload apart at the first.
LoginLasts ==
  Len(config.username) = 1 =>
    \A b \in Browsers :
      got[b] = "login" => since[b] = None \/ now > since[b] + MaxAge

\* The types of the variables.
TypeOK ==
  /\ now \in Nat
  /\ config \in [username : Usernames, password : Passwords]
  /\ DOMAIN jar = Browsers
  /\ got \in [Browsers -> {"none", "home", "bad credentials", "page", "login"}]
  /\ since \in [Browsers -> Nat \cup {None}]
=============================================================================
