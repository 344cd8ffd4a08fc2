\* Two objects of two resources; an edit, and a change in the cluster.
CONSTANTS
  gA = gA
  gB = gB
  Objects = {1, 2}
  Groups = {gA, gB}
  GroupOf <- TwoGroups
  MaxBackoff = 1
  MaxEdits = 1
  MaxChanges = 1
SPECIFICATION FairSpec
CHECK_DEADLOCK FALSE
INVARIANTS
  VerdictBelongsToRow
  NoEditForgotten
PROPERTIES
  ChangesAnnounced
  PanelCatchesUp
  StopReturns
