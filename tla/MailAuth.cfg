SPECIFICATION Spec
CONSTANTS
  a = a
  A = A
  sub = sub
  co = co
  uk = uk
  Domains <- MCDomains
  Lower <- MCLower
  Org <- MCOrg
  NoDomain = NoDomain
  MaxSigs = 2
  Policies <- MCPolicies
INVARIANTS UnprovenGetsDmarcFail ProvenSpared
