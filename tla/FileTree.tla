------------------------------ MODULE FileTree ------------------------------
(***************************************************************************)
(* The file tree (frontend lib/tree.ts, lib/projectTrees.ts,               *)
(* lib/useFileTree.ts, lib/events.ts): one tree for every project that has *)
(* been on screen, its directories listed lazily and listed again when the *)
(* event channel names them.  Listings are awaited calls without order.    *)
(***************************************************************************)
EXTENDS Naturals, Sequences, SequencesExt, Window

CONSTANTS
  Paths,       \* the paths inside a checkout
  DirPaths,    \* those that are directories
  Parent,      \* Parent[x]: the directory a path lives in
  Hidden,      \* the paths whose own name begins with a dot
  Picked,      \* bound: the rows the user selects or deletes
  MaxListings,    \* bound: listings under way
  MaxDirChanges,  \* bound: changes made in the checkouts
  MaxTreeSteps     \* bound: what the user does

Dirs == DirPaths \cup {ROOT}

Listing == [status : {"loading", "loaded", "error"}, children : Nat \cup {None}]

TreeState ==
  [dirs : [Dirs -> Listing \cup {None}], expanded : SUBSET Dirs,
   selected : Paths \cup {ROOT, None}, showHidden : BOOLEAN, changedOnly : BOOLEAN]

(* A create, rename or delete in a directory, of the entry gone if any.    *)
Edit == [root : Projects, dir : Dirs, gone : Paths \cup {None}, done : BOOLEAN]

ASSUME TreeAssumption ==
  /\ DirPaths \subseteq Paths /\ Hidden \subseteq Paths /\ Picked \subseteq Paths
  /\ IsFiniteSet(DirPaths)
  /\ ROOT \notin Paths /\ Parent \in [Paths -> Dirs]
  /\ None \notin Paths /\ None \notin Listing /\ None \notin TreeState /\ None \notin Edit
  /\ MaxListings \in Nat /\ MaxDirChanges \in Nat /\ MaxTreeSteps \in Nat

VARIABLES
  root,      \* root: the checkout on screen, or None
  retained,  \* held: seen on screen and not removed since
  trees,     \* trees[r]: the tree kept for r, or None
  calls,     \* the listings under way, oldest first
  edit,      \* the create, rename or delete under way, or None
  listener,  \* the event socket of root is registered
  batch,     \* directories named by the events queued on that socket
  pending,   \* pending[r]: changed directories the watcher has not published
  version,   \* version[r][d]: what directory d of r holds by now
  changes,   \* changes made so far, at most MaxDirChanges
  steps,     \* what the user has done so far, at most MaxTreeSteps
  behind,    \* history: behind[r], listings an event was lost for or that the
             \* answer of an outdated call replaced
  away       \* history: away[r], listed directories that changed while another
             \* project was on screen and were not shown on the return

treeVars == <<root, retained, trees, calls, edit, listener, batch, pending, version, changes, steps,
              behind, away>>

-----------------------------------------------------------------------------
(* One tree (tree.ts).                                                     *)

initialTree ==
  [dirs |-> [d \in Dirs |-> None], expanded |-> {ROOT}, selected |-> None,
   showHidden |-> FALSE, changedOnly |-> FALSE]

(* Every prefix of a path, outermost first, the path itself last.          *)
chain[x \in Paths] == IF Parent[x] = ROOT THEN <<x>> ELSE Append(chain[Parent[x]], x)

ancestry(x) == IF x = ROOT THEN <<>> ELSE chain[x]

(* The directories among them.                                             *)
above(x) == Dirs \cap Range(ancestry(x))

isHidden(x) == x \in Hidden

children(t, d) == IF t.dirs[d] = None THEN None ELSE t.dirs[d].children

(* A row is drawn when its directory's rows are, its directory is expanded *)
(* and lists it, and no filter hides it.                                   *)
visibleRows(t) ==
  {x \in Paths : \A i \in DOMAIN chain[x] :
     LET step == chain[x][i] IN
       /\ Parent[step] \in t.expanded /\ children(t, Parent[step]) # None
       /\ t.showHidden \/ ~isHidden(step)}

(* The directories whose rows are on screen.                               *)
showing(t) == {ROOT} \cup (visibleRows(t) \cap DirPaths \cap t.expanded)

(* Variants named Bug... are the definitions after them with a plausible   *)
(* mistake: here only the root is listed again on the return.              *)
BugOpenDirs(t) == {ROOT}

openDirs(t) == showing(t)

affectedTrackedDirs(t, changed) == {d \in changed : t.dirs[d] # None}

(* withLoading, of each of some directories.                               *)
withLoading(t, dirs) ==
  [t EXCEPT !.dirs = [d \in Dirs |->
     IF d \in dirs THEN [status |-> "loading", children |-> children(t, d)] ELSE t.dirs[d]]]

withListing(t, d, entries) ==
  [t EXCEPT !.dirs[d] = [status |-> "loaded", children |-> entries]]

withError(t, d) ==
  [t EXCEPT !.dirs[d] = [status |-> "error", children |-> children(t, d)]]

expand(t, d) == [t EXCEPT !.expanded = @ \cup {d}]

collapse(t, d) == [t EXCEPT !.expanded = @ \ {d}]

reveal(t, d) ==
  [t EXCEPT !.expanded = @ \cup above(d), !.selected = d,
            !.showHidden = @ \/ \E x \in Range(ancestry(d)) : isHidden(x),
            !.changedOnly = FALSE]

locate(t, x) ==
  [reveal(t, Parent[x]) EXCEPT !.selected = x,
     !.showHidden = @ \/ \E y \in Range(ancestry(x)) : isHidden(y)]

select(t, x) == [t EXCEPT !.selected = x]

restoreTree(t, saved) ==
  [t EXCEPT !.expanded = {ROOT} \cup saved.expanded, !.selected = saved.selected,
            !.showHidden = saved.showHidden, !.changedOnly = saved.changedOnly]

toggleHidden(t) == [t EXCEPT !.showHidden = ~@]

toggleChangedOnly(t) == [t EXCEPT !.changedOnly = ~@]

-----------------------------------------------------------------------------
(* Every project's tree (projectTrees.ts).                                 *)

changedOnlyOf(kept) == \E r \in Projects : kept[r] # None /\ kept[r].changedOnly

treeFor(kept, r) ==
  IF kept[r] # None THEN kept[r] ELSE [initialTree EXCEPT !.changedOnly = changedOnlyOf(kept)]

(* The changed-files filter moves for every project at once.               *)
withTree(kept, r, next) ==
  [s \in Projects |->
     IF s = r THEN next
     ELSE IF kept[s] = None THEN None
     ELSE [kept[s] EXCEPT !.changedOnly = next.changedOnly]]

withoutTree(kept, r) == [kept EXCEPT ![r] = None]

updateTree(kept, r, next) == IF r \in retained' THEN withTree(kept, r, next) ELSE kept

state == IF root = None THEN initialTree ELSE treeFor(trees, root)

-----------------------------------------------------------------------------

TreeInit ==
  /\ root = None /\ retained = {} /\ trees = [r \in Projects |-> None]
  /\ calls = <<>> /\ edit = None /\ listener = FALSE /\ batch = {}
  /\ pending = [r \in Projects |-> {}]
  /\ version = [r \in Projects |-> [d \in Dirs |-> 0]]
  /\ changes = 0 /\ steps = 0
  /\ behind = [r \in Projects |-> {}] /\ away = [r \in Projects |-> {}]

disk == <<pending, version, changes>>

outside == <<disk, edit>>

(* A call is outdated when its answer will be older than what the tree it  *)
(* is for has asked for since: the tree was dropped, or not held when the  *)
(* call was made, or a newer call of the same directory overtook it.       *)
ListCall(r, d) == [root |-> r, dir |-> d, got |-> None, outdated |-> r \notin retained']

Outdate(late) ==
  [i \in DOMAIN calls |-> IF i \in late THEN [calls[i] EXCEPT !.outdated = TRUE] ELSE calls[i]]

(* The listings under way that a newer one of the same directory overtakes *)
(* with their answer already out of date.                                  *)
Overtake(r, dirs) ==
  Outdate({i \in DOMAIN calls :
             calls[i].root = r /\ calls[i].dir \in dirs /\ calls[i].got \notin {None, version'[r][calls[i].dir]}})

(* list for each of some directories of r, whose tree is t so far.         *)
List(r, t, dirs, missed) ==
  /\ Len(calls) + Cardinality(dirs) <= MaxListings
  /\ trees' = updateTree(trees, r, withLoading(t, dirs))
  /\ calls' = Overtake(r, dirs) \o SetToSeq({ListCall(r, d) : d \in dirs})
  /\ behind' = [behind EXCEPT ![r] = @ \ dirs]
  /\ away' = [missed EXCEPT ![r] = @ \ dirs]

UserStep == steps < MaxTreeSteps /\ steps' = steps + 1

(* The project on screen changes: everything it has open is listed.        *)
SwitchTo(r) ==
  /\ UserStep /\ r # root
  /\ root' = r /\ retained' = retained \cup {r}
  /\ listener' = FALSE /\ batch' = {}
  /\ UNCHANGED outside
  /\ LET t    == treeFor(trees, r)
         left == IF root = None THEN away ELSE [away EXCEPT ![root] = @ \cup batch]
     IN  List(r, t, openDirs(t), [left EXCEPT ![r] = @ \ showing(t)])

(* What the user does to the tree on screen.                               *)
OnScreen == root # None /\ UserStep /\ UNCHANGED <<root, retained, listener, batch, outside>>

Expand(d) ==
  /\ OnScreen /\ d \in visibleRows(state)
  /\ List(root, expand(state, d), {d}, away)

Unlisted(x) == {d \in above(x) : state.dirs[d] = None}

Reveal(d) ==
  /\ OnScreen
  /\ List(root, reveal(state, d), Unlisted(d), away)

Locate(x) ==
  /\ OnScreen
  /\ List(root, locate(state, x), Unlisted(Parent[x]), away)

(* The session gives a project its saved shape back, once, on its first    *)
(* activation.                                                             *)
Restore(saved) ==
  /\ OnScreen /\ state.expanded = {ROOT} /\ state.selected = None
  /\ List(root, restoreTree(state, saved), saved.expanded \ {ROOT}, away)

Update(t) ==
  /\ OnScreen
  /\ trees' = updateTree(trees, root, t)
  /\ UNCHANGED <<calls, behind, away>>

SelectRow(x) == x \in visibleRows(state) \ DirPaths /\ Update(select(state, x))

(* The rows of the changed-files filter have no twisties.                  *)
Collapse(d) ==
  /\ d \in visibleRows(state) \cap state.expanded /\ ~state.changedOnly
  /\ Update(collapse(state, d))

ToggleHidden == Update(toggleHidden(state))

ToggleChangedOnly == Update(toggleChangedOnly(state))

CloseTree(r) ==
  /\ UserStep /\ r \in retained
  /\ retained' = retained \ {r}
  /\ trees' = withoutTree(trees, r)
  /\ calls' = Outdate({i \in DOMAIN calls : calls[i].root = r})
  /\ behind' = [behind EXCEPT ![r] = {}] /\ away' = [away EXCEPT ![r] = {}]
  /\ UNCHANGED <<root, listener, batch, outside>>

-----------------------------------------------------------------------------
(* Calls, events and the checkout.                                         *)

AnswerList(i) ==
  /\ calls[i].got = None
  /\ \E got \in {version[calls[i].root][calls[i].dir], Failed} :
       calls' = [calls EXCEPT ![i].got = got]
  /\ UNCHANGED <<root, retained, trees, listener, batch, outside, steps, behind, away>>

DeliverList(i) ==
  /\ calls[i].got # None
  /\ calls' = RemoveAt(calls, i)
  /\ UNCHANGED <<root, retained, listener, batch, outside, steps, away>>
  /\ LET call == calls[i]
         t == treeFor(trees, call.root)
     IN  /\ trees' = updateTree(trees, call.root,
                       IF call.got = Failed THEN withError(t, call.dir) ELSE withListing(t, call.dir, call.got))
         /\ behind' = IF call.outdated THEN [behind EXCEPT ![call.root] = @ \cup {call.dir}] ELSE behind

RegisterTree ==
  /\ root # None /\ ~listener
  /\ listener' = TRUE
  /\ UNCHANGED <<root, retained, trees, calls, batch, outside, steps, behind, away>>

PublishTree(r) ==
  /\ pending[r] # {}
  /\ pending' = [pending EXCEPT ![r] = {}]
  /\ LET listed == affectedTrackedDirs(treeFor(trees, r), pending[r]) IN
       /\ batch'  = IF r = root /\ listener THEN batch \cup pending[r] ELSE batch
       /\ behind' = IF r = root /\ ~listener
                    THEN [behind EXCEPT ![r] = @ \cup pending[r]] ELSE behind
       /\ away'   = IF r = root THEN away ELSE [away EXCEPT ![r] = @ \cup listed]
  /\ UNCHANGED <<root, retained, trees, calls, edit, listener, version, changes, steps>>

(* The event is evicted from a full connection queue.                      *)
EvictTree ==
  /\ batch # {}
  /\ batch' = {}
  /\ behind' = [behind EXCEPT ![root] = @ \cup batch]
  /\ UNCHANGED <<root, retained, trees, calls, listener, outside, steps, away>>

onTree ==
  /\ batch # {}
  /\ batch' = {}
  /\ UNCHANGED <<root, retained, listener, outside, steps>>
  /\ List(root, state, affectedTrackedDirs(state, batch), away)

(* A directory is changed, by another program or by the user's own edit.   *)
Touch(r, d) ==
  /\ changes < MaxDirChanges /\ changes' = changes + 1
  /\ version' = [version EXCEPT ![r][d] = @ + 1]
  /\ pending' = [pending EXCEPT ![r] = @ \cup {d}]

ChangeDir(r, d) ==
  /\ Touch(r, d)
  /\ UNCHANGED <<root, retained, trees, calls, edit, listener, batch, steps, behind, away>>

(* The user creates or renames an entry of a directory on screen, or       *)
(* deletes one (gone); a single edit is under way at a time.               *)
EditEntry(d, gone) ==
  /\ UserStep /\ root # None /\ edit = None
  /\ d \in openDirs(state)
  /\ gone # None => gone \in visibleRows(state) /\ Parent[gone] = d
  /\ edit' = [root |-> root, dir |-> d, gone |-> gone, done |-> FALSE]
  /\ UNCHANGED <<root, retained, trees, calls, listener, batch, disk, behind, away>>

(* The backend's answer; a failed edit only leaves a message.              *)
AnswerEdit ==
  /\ edit # None /\ ~edit.done
  /\ \/ edit' = [edit EXCEPT !.done = TRUE] /\ Touch(edit.root, edit.dir)
     \/ edit' = None /\ UNCHANGED disk
  /\ UNCHANGED <<root, retained, trees, calls, listener, batch, steps, behind, away>>

(* The edit is answered, whichever project is on screen by now: the        *)
(* directory is listed again, and what was deleted is not selected.        *)
DeliverEdit ==
  /\ edit # None /\ edit.done
  /\ edit' = None
  /\ UNCHANGED <<root, retained, listener, batch, disk, steps>>
  /\ LET t == treeFor(trees, edit.root)
         deselects == edit.gone # None /\ t.selected = edit.gone
     IN  List(edit.root, IF deselects THEN select(t, None) ELSE t, {edit.dir}, away)

SavedShapes == [expanded : {DirPaths}, selected : {None}, showHidden : {FALSE}, changedOnly : BOOLEAN]

TreeNext ==
  \/ \E r \in Projects : SwitchTo(r) \/ CloseTree(r) \/ PublishTree(r)
  \/ \E r \in Projects, d \in Dirs : ChangeDir(r, d)
  \/ \E d \in Dirs : Reveal(d) \/ Collapse(d)
  \/ \E d \in Dirs, gone \in Picked \cup {None} : EditEntry(d, gone)
  \/ \E x \in Picked : SelectRow(x)
  \/ AnswerEdit \/ DeliverEdit
  \/ \E d \in DirPaths : Expand(d)
  \/ \E x \in Paths \ DirPaths : Locate(x)
  \/ \E saved \in SavedShapes : Restore(saved)
  \/ ToggleHidden \/ ToggleChangedOnly \/ RegisterTree \/ EvictTree \/ onTree
  \/ \E i \in DOMAIN calls : AnswerList(i) \/ DeliverList(i)

TreeSpec == TreeInit /\ [][TreeNext]_treeVars

-----------------------------------------------------------------------------
(* Properties.                                                             *)

TreeTypeOK ==
  /\ root \in Projects \cup {None} /\ retained \subseteq Projects
  /\ trees \in [Projects -> TreeState \cup {None}]
  /\ pending \in [Projects -> SUBSET Dirs] /\ version \in [Projects -> [Dirs -> Nat]]
  /\ behind \in [Projects -> SUBSET Dirs] /\ away \in [Projects -> SUBSET Dirs]

(* A listed directory of the tree on screen shows what it holds once       *)
(* nothing is under way, unless the listing failed, an event was lost, an  *)
(* older answer came last (one asked for before the project was removed    *)
(* and added again included: the hook's held set knows the project, not    *)
(* which of its trees), or it changed while the project was away.          *)
QuietListingIsCurrent ==
  root # None => \A d \in Dirs :
    LET l == state.dirs[d] IN
    (/\ l # None /\ batch = {} /\ d \notin pending[root]
     /\ \A i \in DOMAIN calls : <<calls[i].root, calls[i].dir>> # <<root, d>>
     /\ d \notin behind[root] \cup away[root])
      => l.status = "error" \/ l.children = version[root][d]
=============================================================================
