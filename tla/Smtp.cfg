SPECIFICATION Spec
CONSTANTS
  me = me
  Me = Me
  list = list
  slash = slash
  other = other
  m1 = m1
  m2 = m2
  m3 = m3
  m4 = m4
  None = None
  Conns = {c1, c2}
  Msgs = {m1, m2, m3, m4}
  Addrs <- MCAddrs
  Accounts <- MCAccounts
  Account <- MCAccount
  Wanted <- MCWanted
  Domain <- MCDomain
  Exact = {me}
  Wildcards = {"lists"}
  Slashed = {slash}
  TooLarge = {m3}
  MaxRecipients = 2
  MaxTroubles = 1
\* Clients that have handed over everything stop.
CHECK_DEADLOCK FALSE
INVARIANTS AckedIsStored StoredIsWanted ExactlyOnce NotifiedIsComplete
PROPERTIES StorableSettled RefinesTransfer
