------------------------------- MODULE Window -------------------------------
(***************************************************************************)
(* What every part of the window (frontend/src) is parameterised by.       *)
(***************************************************************************)
CONSTANTS
  Projects,  \* the registered projects; a checkout belongs to exactly one
  ROOT,      \* the directory of a checkout itself
  None,      \* null: no project, no path, nothing shown, no answer yet
  Failed     \* the answer of a call that was rejected

ASSUME WindowAssumption == None \notin Projects \cup {ROOT, Failed}
=============================================================================
