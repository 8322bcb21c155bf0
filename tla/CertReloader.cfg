SPECIFICATION Spec
CONSTANTS
  Handshakes = {h1, h2}
  Main = main
  MaxVersion = 1
  None = None
INVARIANTS FreshWhenQuiet ReloadServesDisk
PROPERTIES HandshakeAnswered
