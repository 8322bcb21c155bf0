SPECIFICATION Spec
CONSTANTS
  a = a
  b = b
  c = c
  d = d
  Ids <- MCIds
  Sites <- MCSites
  PageSize = 2
  PeekLines = 3
  TypedPages = {0, 9}
  None = None
INVARIANTS WalkComplete AttachAsListed SpamShown TextReads LanguageShown
PROPERTY LinksHold
