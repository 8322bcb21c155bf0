SPECIFICATION Spec
CONSTANTS
  Ids = {i1}
  Recipients = {r1, r2}
  Deliverers = {d1}
  Requests = {w1, w2}
  Listers = {l1}
  Malformed = {}
  Faults = {"rename", "remove"}
  None = None
SYMMETRY Symm
INVARIANTS StoredIsComplete LocateFindsLive ListComplete
PROPERTIES RefinesMailbox
