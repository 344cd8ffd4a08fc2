---------------------------- MODULE ClusterPanel ----------------------------
(***************************************************************************)
(* The Kubernetes sections of the panel (frontend lib/useKube.ts,          *)
(* components/ProjectPanel.tsx, components/FolderBinding.tsx, and the      *)
(* writes of lib/useProjects.ts): the binding of the folder on screen, its *)
(* smoke check, and the forms that write bindings to projects.yaml, which  *)
(* is also edited by hand.  Every call is awaited; answers come in any     *)
(* order.                                                                  *)
(***************************************************************************)
EXTENDS Binding

CONSTANTS
  MaxEdits,  \* bound: edits of projects.yaml by hand
  MaxActs    \* bound: what the user does

(* A resolution under way: for a place, with the answer there is so far.   *)
Asking ==
  [at : [project : Projects, rel : Folders],
   got : {Resolve(k, f) : k \in Kube, f \in Folders} \cup {None, Failed}]

ASSUME PanelAssumption ==
  /\ MaxEdits \in Nat /\ MaxActs \in Nat
  /\ None \notin Kube \cup Scope \cup Asking /\ Failed \notin Kube

VARIABLES
  kubeOf,    \* projects.yaml: the bindings of every project
  strip,     \* projects.list: the copy of them the window holds
  place,     \* the project on screen, or None, and the open file's folder
  shown,     \* useKube's binding
  asking,    \* the resolution under way that is still wanted, or None
  result,    \* the place the verdict on screen is of, or None
  checking,  \* the place whose smoke check is under way, or None
  dialog,    \* bindingFolder, with what the user had done when it opened
  writes,    \* the writes under way
  acts,      \* what the user has done so far
  edited,    \* edits by hand so far
  unseen     \* history: changed without a refresh since it was last resolved

panelVars == <<kubeOf, strip, place, shown, asking, result, checking, dialog, writes, acts, edited, unseen>>

kubeVars == <<shown, asking, result, checking, unseen>>

PanelInit ==
  /\ kubeOf = Stored /\ strip = Stored
  /\ place = [project |-> None, rel |-> ROOT]
  /\ shown = UNBOUND /\ asking = None
  /\ result = None /\ checking = None
  /\ dialog = None /\ writes = <<>>
  /\ acts = 0 /\ edited = 0 /\ unseen = FALSE

-----------------------------------------------------------------------------
(* useKube.                                                                *)

PanelAct == acts < MaxActs /\ acts' = acts + 1

(* The effect on [project, rel, generation]: one resolution is wanted, and *)
(* the answer of the one before it is not.                                 *)
ask(at) == IF at.project = None THEN None ELSE [at |-> at, got |-> None]

(* Another project or another file comes on screen.                        *)
Show(at) ==
  /\ PanelAct /\ at # place
  /\ place' = at
  /\ asking' = ask(at) /\ unseen' = FALSE
  /\ shown' = IF at.project = None THEN UNBOUND ELSE shown
  /\ result' = None
  /\ dialog' = IF at.project = place.project THEN dialog ELSE None
  /\ UNCHANGED <<kubeOf, edited, strip, checking, writes>>

AnswerBinding ==
  /\ asking # None /\ asking.got = None
  /\ \E got \in {Resolve(kubeOf[asking.at.project], asking.at.rel), Failed} :
       asking' = [asking EXCEPT !.got = got]
  /\ UNCHANGED <<kubeOf, edited, strip, place, shown, result, checking, unseen, dialog, writes, acts>>

DeliverBinding ==
  /\ asking # None /\ asking.got # None
  /\ asking' = None
  /\ shown' = IF asking.got = Failed THEN UNBOUND ELSE asking.got
  /\ unseen' = (unseen \/ asking.got = Failed)
  /\ UNCHANGED <<kubeOf, edited, strip, place, result, checking, dialog, writes, acts>>

(* Variants named Bug... are the definitions after them with a plausible   *)
(* mistake: here the write is not followed by a new resolution.            *)
BugRefresh == UNCHANGED <<asking, unseen>>

refresh == asking' = ask(place) /\ unseen' = FALSE

(* The smoke action, offered while the binding shown is a bound one.       *)
check ==
  /\ PanelAct /\ place.project # None /\ isBound(shown) /\ checking = None
  /\ checking' = place
  /\ UNCHANGED <<kubeOf, edited, strip, place, shown, asking, result, unseen, dialog, writes>>

DeliverCheck ==
  /\ checking # None
  /\ checking' = None
  /\ result' \in {checking, None}
  /\ UNCHANGED <<kubeOf, edited, strip, place, shown, asking, unseen, dialog, writes, acts>>

-----------------------------------------------------------------------------
(* Writes.  Each carries what its form and the window's copy said when it  *)
(* was made, reaches the registry at one moment and answers with the       *)
(* project as stored.                                                        *)

Write(w) == PanelAct /\ writes' = Append(writes, w)

Bind(f, form, closes) ==
  [kind |-> "scope", project |-> place.project, folder |-> f, form |-> form, closes |-> closes,
   refreshes |-> TRUE, got |-> None]

(* Every other change of a project sends its settings whole, the overrides *)
(* of its folders included (settingsFor, settingsWithKube).                *)
Settings(p, k, refreshes) ==
  [kind |-> "settings", project |-> p, kube |-> k, closes |-> None, refreshes |-> refreshes, got |-> None]

(* The panel's two fields on the folder on screen: one changes, and the    *)
(* rest of the override is taken from the window's copy.                   *)
onOverride ==
  /\ place.project # None /\ place.rel # ROOT
  /\ LET mine == overrideAt(strip[place.project], place.rel)
     IN  \E form \in withField(IF mine = None THEN inheriting ELSE mine) :
           Write(Bind(place.rel, form, None))
  /\ UNCHANGED <<kubeOf, edited, strip, place, kubeVars, dialog>>

onDefault ==
  /\ place.project # None
  /\ \E k \in withKube(strip[place.project]) : Write(Settings(place.project, k, TRUE))
  /\ UNCHANGED <<kubeOf, edited, strip, place, kubeVars, dialog>>

(* A new name or colour.                                                   *)
rename(p) ==
  /\ Write(Settings(p, strip[p], FALSE))
  /\ UNCHANGED <<kubeOf, edited, strip, place, kubeVars, dialog>>

OpenDialog(f) ==
  /\ PanelAct /\ place.project # None /\ dialog = None /\ f # ROOT
  /\ dialog' = [folder |-> f, id |-> acts]
  /\ UNCHANGED <<kubeOf, edited, strip, place, kubeVars, writes>>

CloseDialog ==
  /\ PanelAct /\ dialog # None
  /\ dialog' = None
  /\ UNCHANGED <<kubeOf, edited, strip, place, kubeVars, writes>>

busy == \E i \in DOMAIN writes : writes[i].closes = dialog.id

(* Save, or Remove override, which binds nothing.                          *)
SaveDialog ==
  /\ dialog # None /\ ~busy
  /\ \E form \in Forms \cup {inheriting} : Write(Bind(dialog.folder, form, dialog.id))
  /\ UNCHANGED <<kubeOf, edited, strip, place, kubeVars, dialog>>

(* BindScope, UnbindScope when nothing is overridden, and Update.          *)
asStored(w) ==
  IF w.kind = "settings" THEN w.kube
  ELSE [kubeOf[w.project] EXCEPT !.scopes[w.folder] = IF overridesNothing(w.form) THEN None ELSE w.form]

PerformWrite(i) ==
  /\ writes[i].got = None
  /\ LET w == writes[i] IN
       \/ /\ kubeOf' = [kubeOf EXCEPT ![w.project] = asStored(w)]
          /\ writes' = [writes EXCEPT ![i].got = asStored(w)]
          /\ unseen' = (unseen \/ (~w.refreshes /\ asStored(w) # kubeOf[w.project]))
       \/ /\ writes' = [writes EXCEPT ![i].got = Failed]
          /\ UNCHANGED <<kubeOf, unseen>>
  /\ UNCHANGED <<edited, strip, place, shown, asking, result, checking, dialog, acts>>

(* The answer takes the place of the window's copy.  A write from the      *)
(* dialog closes whichever dialog is open by then.                         *)
DeliverWrite(i) ==
  /\ writes[i].got # None
  /\ writes' = RemoveAt(writes, i)
  /\ LET w == writes[i] IN
       IF w.got = Failed THEN UNCHANGED <<strip, dialog, asking, unseen>>
       ELSE /\ strip' = [strip EXCEPT ![w.project] = w.got]
            /\ dialog' = IF w.closes # None THEN None ELSE dialog
            /\ IF w.refreshes THEN refresh ELSE UNCHANGED <<asking, unseen>>
  /\ UNCHANGED <<kubeOf, edited, place, shown, result, checking, acts>>

(* projects.yaml is edited by hand.                                        *)
EditByHand(p, f) ==
  /\ edited < MaxEdits /\ f # ROOT
  /\ edited' = edited + 1
  /\ \E form \in Forms : kubeOf' = [kubeOf EXCEPT ![p].scopes[f] = form]
  /\ unseen' = TRUE
  /\ UNCHANGED <<strip, place, shown, asking, result, checking, dialog, writes, acts>>

-----------------------------------------------------------------------------

PanelNext ==
  \/ \E p \in Projects \cup {None}, f \in Folders :
       (p = None => f = ROOT) /\ Show([project |-> p, rel |-> f])
  \/ AnswerBinding \/ DeliverBinding \/ check \/ DeliverCheck
  \/ onOverride \/ onDefault \/ CloseDialog \/ SaveDialog
  \/ \E p \in Projects : rename(p) \/ \E f \in Folders : EditByHand(p, f)
  \/ \E f \in Folders : OpenDialog(f)
  \/ \E i \in DOMAIN writes : PerformWrite(i) \/ DeliverWrite(i)

PanelSpec == PanelInit /\ [][PanelNext]_panelVars

-----------------------------------------------------------------------------
(* Properties.                                                             *)

PanelTypeOK ==
  /\ kubeOf \in [Projects -> Kube] /\ strip \in [Projects -> Kube]
  /\ place.project \in Projects \cup {None} /\ place.rel \in Folders
  /\ dialog \in [folder : Folders, id : Nat] \cup {None}

(* Once nothing is under way the binding on screen is what a call for the  *)
(* folder on screen would be aimed with (useKube's own comment), unless    *)
(* the resolution failed or the bindings were changed since without a      *)
(* refresh: by hand, or by a rename that carried an older copy of them.    *)
QuietBindingIsCurrent ==
  (place.project # None /\ asking = None /\ writes = <<>> /\ ~unseen)
    => shown = Resolve(kubeOf[place.project], place.rel)

(* "Keeping it would leave 'the cluster answered' sitting above a different *)
(* cluster's name": the verdict on screen is about the place on screen.    *)
(* It is asked of places, which is what a check is given, even where two   *)
(* of them resolve to one cluster.                                         *)
CheckIsAboutSelection == result # None => result = place

(* "A UI that read the scopes, changed one and wrote the list back would   *)
(* erase whatever arrived in between": a write of the other settings leaves *)
(* the folder overrides as they are.                                       *)
OverridesSurvive ==
  [][\A i \in DOMAIN writes :
       (writes[i].kind = "settings" /\ kubeOf' # kubeOf /\ edited' = edited
        /\ i \in DOMAIN writes' /\ writes'[i].got # writes[i].got)
         => kubeOf'[writes[i].project].scopes = kubeOf[writes[i].project].scopes]_panelVars
=============================================================================
