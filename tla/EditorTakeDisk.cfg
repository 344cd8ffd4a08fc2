\* One file: another program changes it and puts it back while it is edited.
CONSTANTS
  a = a
  b = b
  Files = {a}
  Dir <- OwnDir
  Saved = {}
  Shared = {a}
  t0 = t0
  t1 = t1
  t2 = t2
  Text = {t0, t1, t2}
  Typed <- TypedByNobodyElse
  Others = {t0, t1}
  FirstText = t0
  MixedText = {}
  None = None
  MaxKeys = 1
  MaxCalls = 1
  MaxWrites = 2
SPECIFICATION Spec
CHECK_DEADLOCK FALSE
PROPERTIES
  TakenIsDisk
