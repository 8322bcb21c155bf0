SPECIFICATION ToggleSpec
CONSTANTS
  Endpoints = {e1, e2}
  Handlers = {h1, h2}
  Notifiers = {n1}
  Tabs = {t1, t2}
  Faults = {"write", "rename"}
  None = None
INVARIANT ButtonTruth
SYMMETRY Symmetry
