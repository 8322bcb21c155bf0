SPECIFICATION Spec
CONSTANTS
  Handshakes = {h1}
  Main = main
  MaxVersion = 1
  None = None
INVARIANTS ReloadsWhenFilesChange
