SPECIFICATION Spec
CONSTANTS
  Endpoints = {e1, e2}
  Handlers = {h1, h2}
  Notifiers = {n1}
  Faults = {"write", "rename"}
  None = None
INVARIANT AnswersHold
PROPERTY CallsReturn
