SPECIFICATION Spec
CONSTANTS
  Ids = {i1, i2}
  Recipients = {r1}
  Deliverers = {d1}
  Requests = {w1}
  Listers = {l1}
  Malformed = {i2}
  Faults = {"mkdir", "create", "write", "close", "rename", "remove", "read", "readdir", "stat"}
  None = None
INVARIANTS TypeOK DeliverOutcome
