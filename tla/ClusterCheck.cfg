\* One folder below the root of a bound project and of one that is not.
CONSTANTS
  p = p
  q = q
  d = d
  c = c
  x = x
  n = n
  Projects = {p, q}
  ROOT = ROOT
  None = None
  Failed = Failed
  Folders = {ROOT, d}
  Chain <- AboveFolder
  Contexts = {c, x}
  Namespaces = {n}
  Unset = Unset
  Forms <- Guarded
  Stored <- OneBound
  MaxEdits = 1
  MaxActs = 3
SPECIFICATION PanelSpec
CHECK_DEADLOCK FALSE
INVARIANT
  CheckIsAboutSelection
