SPECIFICATION Spec
CONSTANTS
  Ids = {i1}
  Recipients = {r1}
  Deliverers = {d1}
  Requests = {w1}
  Listers = {}
  Malformed = {}
  Faults = {"write"}
  None = None
INVARIANTS StoredIsComplete
