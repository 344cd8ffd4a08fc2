------------------------------ MODULE MCWindow ------------------------------
(***************************************************************************)
(* The parts of the window for TLC.  They are hooks beside each other that *)
(* share only which project and which file are on screen, and each module  *)
(* moves those freely; so their interleavings with each other say nothing: *)
(* a behaviour runs one part, and TLC explores each alone.  Two projects;  *)
(* git, the tree and the terminals treat them alike, so there the first    *)
(* one on screen, or with a tab, is called p; in git and the tree the user *)
(* works in p, whose files change, and otherwise only looks at q; and the  *)
(* first tab on screen is f.  The user acts once less when the bindings    *)
(* are edited by hand, or when a call of the strip fails.  In the gutter   *)
(* other programs write and commit f only, and strokes and their changes   *)
(* are three together.  The file watcher, of one checkout, is a part like  *)
(* the others.                                                             *)
(***************************************************************************)
EXTENDS GitStatus, FileTree, HealthPanel, MCClusterPanel, Pipeline, TerminalTabs, Workbench, Blame, Watcher

CONSTANTS f

VARIABLE part  \* the part this behaviour runs

InFolder == [y \in Paths |-> IF y = d THEN ROOT ELSE d]

Clean ==
  [available |-> TRUE, unborn |-> FALSE, detached |-> FALSE, named |-> TRUE,
   upstream |-> TRUE, dirty |-> FALSE]

(* A branch of its own without an upstream, then one with changes.         *)
CleanThenDirty == <<[Clean EXCEPT !.upstream = FALSE], [Clean EXCEPT !.dirty = TRUE]>>

BothRegistered == <<p, q>>

(* The session file keeps tabs of q, which was on screen.                  *)
KeptTabs ==
  [active |-> q,
   projects |-> [r \in Projects |-> IF r = q THEN [editors |-> Files, terminals |-> 1] ELSE None]]

WindowInit ==
  /\ part \in {"git", "tree", "health", "panel", "pipeline", "terminals", "workbench", "blame", "watcher"}
  /\ GitInit /\ TreeInit /\ HealthInit /\ PanelInit /\ PipelineInit /\ TermInit /\ WorkInit /\ BlameInit
  /\ WatcherInit /\ (part # "watcher" => depth = 0)

Git ==
  /\ part = "git" /\ GitNext
  /\ switches = 0 => active' \in {None, p}
  /\ op'.project \in {None, p} /\ repo'[q] = repo[q]
  /\ UNCHANGED <<part, treeVars, healthVars, panelVars, pipelineVars, termVars, workVars, blameVars, watcherVars>>

Tree ==
  /\ part = "tree" /\ TreeNext
  /\ root = None => root' \in {None, p}
  /\ root = q => root' # q \/ steps' = steps
  /\ version'[q] = version[q]
  /\ UNCHANGED <<part, gitVars, healthVars, panelVars, pipelineVars, termVars, workVars, blameVars, watcherVars>>

Health ==
  /\ part = "health" /\ HealthNext
  /\ UNCHANGED <<part, gitVars, treeVars, panelVars, pipelineVars, termVars, workVars, blameVars, watcherVars>>

Panel ==
  /\ part = "panel" /\ PanelNext
  /\ edited' = 0 \/ acts' < MaxActs
  /\ UNCHANGED <<part, gitVars, treeVars, healthVars, pipelineVars, termVars, workVars, blameVars, watcherVars>>

Runs ==
  /\ part = "pipeline" /\ PipelineNext
  /\ UNCHANGED <<part, gitVars, treeVars, healthVars, panelVars, termVars, workVars, blameVars, watcherVars>>

Terminals ==
  /\ part = "terminals" /\ TermNext
  /\ keys = 0 /\ keys' = 1 => tabs'[1].project = p
  /\ UNCHANGED <<part, gitVars, treeVars, healthVars, panelVars, pipelineVars, workVars, blameVars, watcherVars>>

Strip ==
  /\ part = "workbench" /\ WorkNext
  /\ fails' = 0 \/ did' < MaxWork
  /\ UNCHANGED <<part, gitVars, treeVars, healthVars, panelVars, pipelineVars, termVars, blameVars, watcherVars>>

Gutter ==
  /\ part = "blame" /\ BlameNext
  /\ shows = 0 => inFront' \in {None, f}
  /\ heads'[d] = heads[d] /\ (elsewhere' # elsewhere => worktree'[d] = worktree[d])
  /\ strokes' + elsewhere' <= 3
  /\ UNCHANGED <<part, gitVars, treeVars, healthVars, panelVars, pipelineVars, termVars, workVars, watcherVars>>

Disks ==
  /\ part = "watcher" /\ WatcherNext
  /\ UNCHANGED <<part, gitVars, treeVars, healthVars, panelVars, pipelineVars, termVars, workVars, blameVars>>

WindowNext == Git \/ Tree \/ Health \/ Panel \/ Runs \/ Terminals \/ Strip \/ Gutter \/ Disks

WindowVars ==
  <<part, gitVars, treeVars, healthVars, panelVars, pipelineVars, termVars, workVars, blameVars,
    watcherVars>>

WindowSpec == WindowInit /\ [][WindowNext]_WindowVars
=============================================================================
