----------------------------- MODULE Workbench -----------------------------
(***************************************************************************)
(* The project strip and the saved session (frontend lib/useProjects.ts,   *)
(* lib/projects.ts, lib/useSession.ts, lib/session.ts, App.tsx): the       *)
(* registry's list with one project on screen, the tabs each project gets  *)
(* back the first time it is shown, and the session file written as they   *)
(* change.  Registry calls and saves are awaited and come back in any      *)
(* order.                                                                  *)
(***************************************************************************)
EXTENDS Naturals, Sequences, SequencesExt, Window

CONSTANTS
  Registered, \* the projects registered at launch, in their order
  Files,      \* the files of a checkout an editor tab can be of
  Saved,      \* the session file at launch
  MaxWork,    \* bound: what the user does
  MaxSaves,   \* bound: saves under way at once
  MaxFails    \* bound: calls that fail

(* What a project shows, and what is recorded of it: its editor tabs, and  *)
(* how many terminal tabs.                                                 *)
Record == [editors : SUBSET Files, terminals : Nat]
State  == [active : Projects \cup {None}, projects : [Projects -> Record \cup {None}]]

ASSUME WorkbenchAssumption ==
  /\ Registered \in Seq(Projects) /\ IsInjective(Registered)
  /\ None \notin Seq(Projects) /\ Failed \notin Seq(Projects) /\ None \notin Record
  /\ Saved \in State
  /\ MaxWork \in Nat /\ MaxSaves \in Nat /\ MaxFails \in Nat

VARIABLES
  stored,     \* projects.yaml: the registered projects in order
  list,       \* list: the strip's copy of it
  activeName, \* activeName: the project on screen
  requests,   \* registry calls under way
  loaded,     \* loaded: the session that was on disk at launch, once read
  restoring,  \* restoring: the saved project has not been selected yet
  hydrated,   \* hydrated: projects whose tabs have been put back
  hydrating,  \* restores under way, each a project and its record
  strips,     \* strips[p]: the tabs of p, on screen or not
  current,    \* current: the session as it will next be written
  written,    \* written: the session as it was last written
  timer,      \* timer: a write is due
  saves,      \* saves under way
  onDisk,     \* the session file
  did,        \* what the user has done so far
  fails,      \* calls that have failed so far
  outdated,   \* history: the last list delivered was not the newest
  unsaved,    \* history: the newest save failed, or an older one lands last
  pruned      \* history: projects that were absent from a list on screen

workVars == <<stored, list, activeName, requests, loaded, restoring, hydrated, hydrating, strips,
              current, written, timer, saves, onDisk, did, fails, outdated, unsaved, pruned>>

listVars == <<stored, requests, outdated>>
saveVars     == <<saves, onDisk, unsaved>>

Nothing == [editors |-> {}, terminals |-> 0]

emptySession == [active |-> None, projects |-> [p \in Projects |-> None]]

Request(kind, arg) == [kind |-> kind, arg |-> arg, got |-> None]

WorkInit ==
  /\ stored = Registered /\ list = <<>> /\ activeName = None
  /\ requests = <<Request("list", None)>> /\ outdated = FALSE
  /\ loaded = None /\ restoring = TRUE
  /\ hydrated = {} /\ hydrating = <<>> /\ strips = [p \in Projects |-> Nothing]
  /\ current = emptySession /\ written = emptySession
  /\ timer = FALSE /\ saves = <<>> /\ onDisk = Saved /\ unsaved = FALSE
  /\ did = 0 /\ fails = 0 /\ pruned = {}

-----------------------------------------------------------------------------
(* Recording (session.ts).                                                 *)

projectSession(state, p) == state.projects[p]

(* Variants named Bug... are the definitions after them with a plausible   *)
(* mistake: the project on screen is always read off the strips.           *)
BugRecordFor(p, previous, name) ==
  IF p = name THEN strips'[p] ELSE projectSession(previous, p)

(* What is on screen if this is the project on screen and its tabs have    *)
(* been put back, and what was last recorded otherwise.                    *)
recordFor(p, previous, name) ==
  IF p = name /\ p \in hydrated' THEN strips'[p] ELSE projectSession(previous, p)

(* A project that is not in the list loses its record; an empty list says  *)
(* nothing.                                                                *)
nextSession(previous, names, name) ==
  [active |-> name,
   projects |-> [p \in Projects |->
     IF names = <<>> \/ p \in Range(names) THEN recordFor(p, previous, name) ELSE None]]

(* The recording effect: the first change arms the timer.                  *)
Recorded(previous, names, name) ==
  /\ current' = IF loaded' = None THEN current ELSE nextSession(previous, names, name)
  /\ timer' = (timer \/ (loaded' # None /\ current' # written'))

-----------------------------------------------------------------------------
(* A render: what it shows, and then the effects of useSession.            *)

(* The saved project is selected once, when both it and the list are       *)
(* known, and only then are a project's tabs put back.                     *)
Render(names, chosen, previous) ==
  LET landing == loaded' # None /\ restoring /\ names # <<>>
      name    == IF landing /\ loaded'.active \in Range(names) THEN loaded'.active ELSE chosen
      moved   == landing \/ name # activeName \/ name \notin Range(list)
      wanted  == /\ loaded' # None /\ (landing \/ ~restoring) /\ moved
                 /\ name \in Range(names) \ hydrated'
  IN  /\ list' = names /\ activeName' = name
      /\ restoring' = (restoring /\ ~landing)
      /\ hydrating' = IF wanted THEN Append(hydrating, [project |-> name, record |-> projectSession(previous, name)])
                      ELSE hydrating
      /\ Recorded(previous, names, name)
      /\ pruned' = IF names = <<>> THEN pruned ELSE pruned \cup (Projects \ Range(names))

(* store.load: a session that cannot be read is an empty one.              *)
LoadSession ==
  /\ loaded = None
  /\ \/ loaded' = onDisk /\ UNCHANGED fails
     \/ loaded' = emptySession /\ fails < MaxFails /\ fails' = fails + 1
  /\ written' = loaded'
  /\ UNCHANGED <<listVars, saveVars, hydrated, strips, did>>
  /\ Render(list, activeName, loaded')

BugHydrated == UNCHANGED <<current, timer>>

(* setHydrations: what a restore came to is recorded, changed or not.      *)
Hydration == Recorded(current, list, activeName)

restoredEditors(r) == IF r = None THEN Nothing.editors ELSE r.editors

restoredTerminals(r) == IF r = None THEN Nothing.terminals ELSE r.terminals

(* The files of a restore have been read; those that are gone are left     *)
(* out, and the terminals follow.                                          *)
Hydrate(i) ==
  LET h == hydrating[i] IN
      /\ \E found \in SUBSET restoredEditors(h.record) :
           strips' = [strips EXCEPT ![h.project].editors = @ \cup found,
                                    ![h.project].terminals = @ + restoredTerminals(h.record)]
      /\ hydrated' = hydrated \cup {h.project}
      /\ hydrating' = RemoveAt(hydrating, i)
      /\ UNCHANGED <<listVars, saveVars, list, activeName, loaded, restoring, written, did, fails, pruned>>
      /\ Hydration

-----------------------------------------------------------------------------
(* The user.                                                               *)

WorkStep == did < MaxWork /\ did' = did + 1

(* Tabs of the project on screen are opened and closed.                    *)
Work(tabs) ==
  /\ WorkStep /\ activeName \in Range(list) /\ tabs # strips[activeName]
  /\ strips' = [strips EXCEPT ![activeName] = tabs]
  /\ UNCHANGED <<listVars, saveVars, loaded, hydrated, written, fails>>
  /\ Render(list, activeName, current)

(* A shell ends well and takes its tab with it, on screen or not.          *)
ShellEndsWell(p) ==
  /\ WorkStep /\ strips[p].terminals > 0
  /\ strips' = [strips EXCEPT ![p].terminals = @ - 1]
  /\ UNCHANGED <<listVars, saveVars, loaded, hydrated, written, fails>>
  /\ Render(list, activeName, current)

selectProject(p) ==
  /\ WorkStep /\ p \in Range(list) /\ p # activeName
  /\ UNCHANGED <<listVars, saveVars, loaded, hydrated, strips, written, fails>>
  /\ Render(list, p, current)

commitAdd(p) ==
  /\ WorkStep
  /\ requests' = Append(requests, Request("add", p))
  /\ UNCHANGED <<stored, outdated, saveVars, loaded, hydrated, strips, written, fails>>
  /\ Render(list, activeName, current)

(* The right-hand neighbour of the project that goes, or the left one.     *)
selectionAfterRemove(p) ==
  LET at   == CHOOSE i \in DOMAIN list : list[i] = p
      rest == RemoveAt(list, at)
  IN  IF activeName # p THEN activeName
      ELSE IF rest = <<>> THEN None
      ELSE rest[IF at <= Len(rest) THEN at ELSE Len(rest)]

(* handleRemove: its tabs go at once, its row when the registry agrees.    *)
remove(p) ==
  /\ WorkStep /\ p \in Range(list)
  /\ strips' = [strips EXCEPT ![p] = Nothing]
  /\ requests' = Append(requests, Request("remove", p))
  /\ UNCHANGED <<stored, outdated, saveVars, loaded, hydrated, written, fails>>
  /\ Render(list, selectionAfterRemove(p), current)

(* A drag: the strip shows the order before the registry has agreed.       *)
move(i) ==
  /\ WorkStep /\ i \in 1 .. Len(list) - 1
  /\ LET names == [list EXCEPT ![i] = list[i + 1], ![i + 1] = list[i]] IN
       /\ requests' = Append(requests, Request("reorder", names))
       /\ UNCHANGED <<stored, outdated, saveVars, loaded, hydrated, strips, written, fails>>
       /\ Render(names, activeName, current)

-----------------------------------------------------------------------------
(* The registry: one call at a time, under its mutex.                      *)

Performed(i, names) ==
  /\ stored' = names
  /\ requests' = [requests EXCEPT ![i].got = names]

(* A reorder must name exactly the registered projects; adding a           *)
(* registered one changes nothing, so that each is there once.             *)
accepts(r) ==
  CASE r.kind \in {"list", "add"} -> TRUE
    [] r.kind = "remove"  -> r.arg \in Range(stored)
    [] r.kind = "reorder" -> Range(r.arg) = Range(stored)

effect(r) ==
  CASE r.kind = "list"    -> stored
    [] r.kind = "add"     -> IF r.arg \in Range(stored) THEN stored ELSE Append(stored, r.arg)
    [] r.kind = "remove"  -> RemoveAt(stored, CHOOSE i \in DOMAIN stored : stored[i] = r.arg)
    [] r.kind = "reorder" -> r.arg

PerformRequest(i) ==
  LET r == requests[i] IN
  /\ r.got = None
  /\ \/ accepts(r) /\ Performed(i, effect(r)) /\ UNCHANGED fails
     \/ /\ ~accepts(r) \/ fails < MaxFails
        /\ fails' = IF accepts(r) THEN fails + 1 ELSE fails
        /\ requests' = [requests EXCEPT ![i].got = Failed]
        /\ UNCHANGED stored
  /\ UNCHANGED <<list, activeName, loaded, restoring, hydrated, hydrating, strips, current, written,
                 timer, saveVars, did, outdated, pruned>>

(* A reload keeps the project on screen if it is still there.              *)
selectionAfterReload(names) ==
  IF activeName \in Range(names) THEN activeName
  ELSE IF names = <<>> THEN None ELSE names[1]

BugReloads(r) == r.got # Failed /\ r.kind \in {"add", "remove"}

(* Calls behind which the list is read again: a refused reorder has to     *)
(* take back what it put on screen.                                        *)
reloads(r) == IF r.got = Failed THEN r.kind = "reorder" ELSE r.kind \in {"add", "remove"}

(* Which project is on screen when a call has answered: an added one after *)
(* the reload behind it, whether or not that failed.                       *)
selection(r) ==
  IF r.kind # "list" THEN activeName
  ELSE IF r.arg # None THEN r.arg
  ELSE IF r.got = Failed THEN activeName ELSE selectionAfterReload(r.got)

DeliverRequest(i) ==
  LET r     == requests[i]
      shows == r.got # Failed /\ r.kind \in {"list", "reorder"}
      added == IF r.kind = "add" THEN r.arg ELSE None
  IN  /\ r.got # None
      /\ requests' = RemoveAt(requests, i) \o (IF reloads(r) THEN <<Request("list", added)>> ELSE <<>>)
      /\ outdated' = IF shows THEN r.got # stored ELSE (outdated \/ (r.kind = "list"))
      /\ UNCHANGED <<stored, saveVars, loaded, hydrated, strips, written, did, fails>>
      /\ Render(IF shows THEN r.got ELSE list, selection(r), current)

-----------------------------------------------------------------------------
(* The session file.                                                       *)

(* The timer fires and writes the session as it is by then.                *)
SaveSession ==
  /\ timer /\ Len(saves) < MaxSaves
  /\ timer' = FALSE
  /\ written' = current
  /\ saves' = Append(saves, current)
  /\ unsaved' = FALSE
  /\ UNCHANGED <<listVars, list, activeName, loaded, restoring, hydrated, hydrating, strips,
                 current, onDisk, did, fails, pruned>>

(* Saves land in any order, and a failed one is not tried again.           *)
DeliverSave(i) ==
  /\ saves' = RemoveAt(saves, i)
  /\ \/ /\ onDisk' = saves[i]
        /\ unsaved' = (unsaved \/ (i = Len(saves) /\ i > 1))
        /\ UNCHANGED fails
     \/ /\ fails < MaxFails /\ fails' = fails + 1
        /\ unsaved' = (unsaved \/ i = Len(saves))
        /\ UNCHANGED onDisk
  /\ UNCHANGED <<listVars, list, activeName, loaded, restoring, hydrated, hydrating, strips,
                 current, written, timer, did, pruned>>

Tabs == [editors : SUBSET Files, terminals : 0 .. 1]

WorkNext ==
  \/ LoadSession \/ SaveSession
  \/ \E tabs \in Tabs : Work(tabs)
  \/ \E p \in Projects : ShellEndsWell(p) \/ selectProject(p) \/ commitAdd(p) \/ remove(p)
  \/ \E i \in DOMAIN list : move(i)
  \/ \E i \in DOMAIN hydrating : Hydrate(i)
  \/ \E i \in DOMAIN requests : PerformRequest(i) \/ DeliverRequest(i)
  \/ \E i \in DOMAIN saves : DeliverSave(i)

WorkSpec == WorkInit /\ [][WorkNext]_workVars

-----------------------------------------------------------------------------
(* Properties.                                                             *)

(* The record of a project whose tabs have not been put back is the one    *)
(* that was on disk at launch: neither the strips it shows empty meanwhile *)
(* nor another project's restore or save takes its place (nextSession).    *)
RecordSurvives ==
  loaded # None =>
    \A p \in Projects \ (hydrated \cup pruned) : current.projects[p] = loaded.projects[p]

(* Once no registry call is under way the strip shows what is on disk, in  *)
(* its order, unless the list could not be read or an older answer came    *)
(* last: a refused reorder is taken back, an add or a removal read again.  *)
QuietStripIsRegistry == (requests = <<>> /\ ~outdated) => list = stored

(* Once no write is due or under way the file holds the tabs on screen,    *)
(* a restore that lost some of them included, unless the newest save       *)
(* failed or an older one landed after it.                                 *)
SavedIsShown ==
  (/\ ~timer /\ saves = <<>> /\ ~unsaved
   /\ loaded # None /\ activeName \in hydrated \cap Range(list))
     => onDisk.projects[activeName] = strips[activeName]
=============================================================================
