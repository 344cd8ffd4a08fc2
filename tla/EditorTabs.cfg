\* Two files, three contents; MixedText is empty, so every buffer may be edited.
CONSTANTS
  a = a
  b = b
  Files = {a, b}
  Dir <- OwnDir
  Saved = {b}
  Shared = {a}
  t0 = t0
  t1 = t1
  t2 = t2
  Text = {t0, t1, t2}
  Typed <- TypedInShared
  Others = {t0, t1}
  FirstText = t0
  MixedText = {}
  None = None
  MaxKeys = 2
  MaxCalls = 2
  MaxWrites = 2
SPECIFICATION SpecOfCases
CHECK_DEADLOCK FALSE
INVARIANTS
  BaselineWasOnDisk
  QuietMeansKnown
PROPERTIES
  EditsSurvive
  NoSilentDiscard
