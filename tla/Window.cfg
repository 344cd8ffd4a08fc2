\* Two projects; each part of the window on its own bounds.
CONSTANTS
  p = p
  q = q
  d = d
  f = f
  c = c
  x = x
  n = n
  Projects = {p, q}
  ROOT = ROOT
  None = None
  Failed = Failed
  \* git
  Shapes <- CleanThenDirty
  MaxGitChanges = 1
  MaxGitSwitches = 3
  MaxGitOps = 1
  \* file tree: a directory with a hidden file in it
  Paths = {d, f}
  DirPaths = {d}
  Hidden = {f}
  Picked = {f}
  Parent <- InFolder
  MaxListings = 2
  MaxDirChanges = 1
  MaxTreeSteps = 4
  \* health
  Manifests = {d, f}
  MaxLooks = 3
  MaxMoves = 1
  \* bindings, cluster panel, pipeline
  Folders = {ROOT, d}
  Chain <- AboveFolder
  Contexts = {c, x}
  Namespaces = {n}
  Unset = Unset
  Forms <- Guarded
  Stored <- BothBound
  MaxEdits = 1
  MaxActs = 3
  RUN_LOG_LIMIT = 50
  MaxRebinds = 1
  MaxGenerations = 4
  \* terminals
  MaxTabs = 2
  MaxPanes = 2
  MaxResyncs = 1
  MaxTyped = 1
  \* projects and session
  Registered <- BothRegistered
  Files = {f}
  Saved <- KeptTabs
  MaxWork = 2
  MaxSaves = 1
  MaxFails = 1
  \* blame gutter
  Blamed = {d, f}
  HeadLines = 1
  MaxShows = 2
  MaxStrokes = 2
  MaxOutside = 2
  \* file watcher
  Deepest = 2
  MaxNotices = 2
  MaxChurn = 3
SPECIFICATION WindowSpec
CHECK_DEADLOCK FALSE
INVARIANTS
  PanelIsOwn
  QuietStatusIsCurrent
  QuietListingIsCurrent
  HealthIsOwn
  QuietBindingIsCurrent
  MutatesWhatWasShown
  RunIsOwn
  NoOrphanShell
  StatusIsOwn
  RecordSurvives
  QuietStripIsRegistry
  SavedIsShown
  QuietBlameIsOwn
  QuietWatchIsCurrent
