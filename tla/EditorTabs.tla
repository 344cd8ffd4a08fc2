----------------------------- MODULE EditorTabs -----------------------------
(***************************************************************************)
(* The editor strip (frontend lib/editorTabs.ts, lib/useEditorTabs.ts,     *)
(* components/EditorTabs.tsx): buffers that the user edits while other     *)
(* programs write the same files.  Every read and write is an awaited      *)
(* backend call, so its answer is taken at one moment and applied at a     *)
(* later one, and answers may overtake each other.                         *)
(***************************************************************************)
EXTENDS Naturals, Sequences, FiniteSets, SequencesExt

CONSTANTS
  Files,      \* the files of one project
  Dir,        \* Dir[f]: the directory a change event names for f
  Saved,      \* the files the session recorded as open
  Shared,     \* the files other programs change
  Text,       \* contents, of a file and of a buffer
  Typed,      \* bound: Typed[f], the contents the user gives the buffer of f
  Others,     \* bound: the contents other programs write
  FirstText,  \* what every file holds at the start
  MixedText,  \* contents with mixed line endings, which may not be edited
  None,       \* no tab, no conflict, no answer yet, no file
  MaxKeys,    \* bound: tabs ever opened
  MaxCalls,   \* bound: backend calls under way
  MaxWrites   \* bound: changes made by other programs

EditorTab ==
  [path : Files, status : {"loading", "ready", "error"},
   content : Text, baseline : Text, readOnly : BOOLEAN, conflict : Text \cup {None},
   saving : BOOLEAN]

Failed == "failed"

ASSUME EditorAssumption ==
  /\ Saved \subseteq Files /\ Shared \subseteq Files /\ IsFiniteSet(Saved)
  /\ FirstText \in Text /\ MixedText \subseteq Text
  /\ Typed \in [Files -> SUBSET Text] /\ Others \subseteq Text
  /\ None \notin Text /\ None \notin Files /\ None \notin EditorTab
  /\ Failed \notin Text /\ Failed # None
  /\ MaxKeys \in Nat /\ MaxCalls \in Nat /\ MaxWrites \in Nat

Keys == 1 .. MaxKeys

VARIABLES
  tab,        \* tab[k]: the tab with key k, or None
  strip,      \* the keys of the open tabs in strip order
  active,     \* activeByProject: the selected key, or 0
  keys,       \* the last key given out
  queue,      \* keys of the dirty tabs waiting for the close prompt
  calls,      \* the backend calls under way, oldest first
  restore,    \* the saved files a restore has still to read, and its tabs
  disk,       \* disk[f]: the content of f, or None when it does not exist
  changed,    \* files changed since the last change event
  writes,     \* changes made by other programs so far
  onDisk,     \* history: what each file has ever held
  late,       \* history: tabs whose last answer was outdated or put aside by a save
  stale       \* history: tabs that kept a conflict their last answer contradicted

vars == <<tab, strip, active, keys, queue, calls, restore, disk, changed, writes,
          onDisk, late, stale>>

history == <<late, stale>>

-----------------------------------------------------------------------------
(* One tab.                                                                *)

newTab(f) ==
  [path |-> f, status |-> "loading", content |-> FirstText, baseline |-> FirstText,
   readOnly |-> FALSE, conflict |-> None, saving |-> FALSE]

isDirty(t) == t.status = "ready" /\ t.content # t.baseline

canSave(t) == isDirty(t) /\ ~t.readOnly /\ ~t.saving /\ t.conflict = None

withLoaded(t, text) ==
  [t EXCEPT !.status = "ready", !.content = text, !.baseline = text,
            !.readOnly = text \in MixedText, !.conflict = None]

withError(t) == [t EXCEPT !.status = "error"]

withEdit(t, text) ==
  IF t.readOnly THEN t ELSE [t EXCEPT !.content = text]

withSaving(t) == [t EXCEPT !.saving = TRUE]

(* Variants named Bug... are the definitions after them with a plausible   *)
(* mistake: here the baseline moves to the buffer as it is by now.         *)
BugSavedBuffer(t, saved) ==
  [t EXCEPT !.baseline = t.content, !.saving = FALSE, !.conflict = None]

withSaved(t, saved) ==
  [t EXCEPT !.baseline = saved, !.saving = FALSE, !.conflict = None]

withSaveFailed(t) == [t EXCEPT !.saving = FALSE]

(* Only the message changes.                                               *)
withReloadFailed(t) == t

(* A tab with a save under way is taken for a clean one.                   *)
BugExternalOverEdits(t, text) ==
  IF t.status # "ready" THEN t
  ELSE IF ~isDirty(t) \/ t.saving THEN withLoaded(t, text)
  ELSE IF text = t.baseline THEN t
  ELSE [t EXCEPT !.conflict = text]

withExternalChange(t, text) ==
  IF t.status # "ready" \/ t.saving THEN t
  ELSE IF ~isDirty(t) THEN withLoaded(t, text)
  ELSE IF text = t.baseline THEN t
  ELSE [t EXCEPT !.conflict = text]

resolveKeepMine(t) == [t EXCEPT !.baseline = t.conflict, !.conflict = None]

resolveTakeDisk(t) ==
  [t EXCEPT !.content = t.conflict, !.baseline = t.conflict, !.conflict = None]

-----------------------------------------------------------------------------
(* The strip.                                                              *)

(* Array.filter: the elements of s that are in S, in the order of s.       *)
filtered(s, S) ==
  LET at      == {i \in DOMAIN s : s[i] \in S}
      upTo(i) == Cardinality({j \in at : j <= i})
  IN  [n \in 1 .. Cardinality(at) |-> s[CHOOSE i \in at : upTo(i) = n]]

Open == Range(strip)

findTab(f) == {k \in Open : tab[k].path = f}

(* The right neighbour takes a closed tab's place, then the left one.      *)
selectionAfterClose(siblings, k, selected) ==
  IF selected # k \/ ~Contains(siblings, k) THEN selected
  ELSE LET remaining == Remove(siblings, k)
           i         == IndexFirstSubSeq(<<k>>, siblings)
       IN  IF remaining = <<>> THEN 0
           ELSE remaining[IF i <= Len(remaining) THEN i ELSE Len(remaining)]

(* Several closes in one event: each sees the strip as last rendered and   *)
(* the selection the one before it left.                                   *)
SelectionAfter(closing) ==
  FoldLeft(LAMBDA selected, k : selectionAfterClose(strip, k, selected),
           active, filtered(strip, closing))

(* The queue is shown without the keys of tabs that are gone.              *)
CloseTabs(closing, asked) ==
  /\ strip' = filtered(strip, Keys \ closing)
  /\ tab' = [k \in Keys |-> IF k \in closing THEN None ELSE tab[k]]
  /\ active' = SelectionAfter(closing)
  /\ queue' = filtered(asked, Keys \ closing)

Call(op, k, f, text) ==
  [op |-> op, key |-> k, path |-> f, text |-> text, got |-> None, closes |-> FALSE,
   outdated |-> FALSE]

Patch(k, t) == tab' = IF k \in Open THEN [tab EXCEPT ![k] = t] ELSE tab

-----------------------------------------------------------------------------

Init ==
  /\ tab = [k \in Keys |-> None]
  /\ strip = <<>> /\ active = 0 /\ keys = 0 /\ queue = <<>> /\ calls = <<>>
  /\ restore = [todo |-> <<>>, opened |-> <<>>, saved |-> None]
  /\ \E gone \in SUBSET Saved : disk = [f \in Files |-> IF f \in gone THEN None ELSE FirstText]
  /\ changed = {} /\ writes = 0
  /\ onDisk = [f \in Files |-> {FirstText}]
  /\ late = {} /\ stale = {}

world == <<disk, changed, writes, onDisk>>

(* open: focus the tab the file has, or a new one that asks for it.        *)
OpenFile(f) ==
  /\ \/ /\ findTab(f) # {}
        /\ active' = filtered(strip, findTab(f))[1]
        /\ UNCHANGED <<tab, strip, keys, calls>>
     \/ /\ findTab(f) = {}
        /\ keys < MaxKeys /\ Len(calls) < MaxCalls
        /\ keys' = keys + 1
        /\ tab' = [tab EXCEPT ![keys'] = newTab(f)]
        /\ strip' = Append(strip, keys')
        /\ active' = keys'
        /\ calls' = Append(calls, Call("load", keys', f, None))
  /\ UNCHANGED <<queue, restore, world, history>>

Select(k) ==
  /\ k \in Open /\ active # k
  /\ active' = k
  /\ UNCHANGED <<tab, strip, keys, queue, calls, restore, world, history>>

(* What the user does in the pane of the selected tab.                     *)
InPane(k) ==
  /\ k = active /\ k \in Open
  /\ UNCHANGED <<strip, active, keys, queue, restore, world>>

Edit(k, text) ==
  /\ InPane(k) /\ tab[k].status = "ready"
  /\ text \in Typed[tab[k].path] \ {tab[k].content}
  /\ Patch(k, withEdit(tab[k], text))
  /\ UNCHANGED <<calls, history>>

KeepMine(k) ==
  /\ InPane(k) /\ tab[k].conflict # None
  /\ Patch(k, resolveKeepMine(tab[k]))
  /\ UNCHANGED <<calls, history>>

TakeDisk(k) ==
  /\ InPane(k) /\ tab[k].conflict # None
  /\ Patch(k, resolveTakeDisk(tab[k]))
  /\ UNCHANGED <<calls, history>>

(* save: what is written is the buffer of this moment.                     *)
StartSave(k, closes) ==
  /\ canSave(tab[k]) /\ Len(calls) < MaxCalls
  /\ tab' = [tab EXCEPT ![k] = withSaving(@)]
  /\ calls' = Append(calls,
                [Call("save", k, tab[k].path, tab[k].content) EXCEPT !.closes = closes])

Save(k) ==
  /\ InPane(k)
  /\ StartSave(k, FALSE)
  /\ UNCHANGED history

-----------------------------------------------------------------------------
(* Closing.  The clean tabs go at once, the dirty ones wait for an answer  *)
(* each.                                                                   *)

requestClose(closing) ==
  LET dirty == {k \in closing : isDirty(tab[k])}
      fresh == filtered(strip, dirty \ Range(queue))
  IN  CloseTabs(closing \ dirty, queue \o fresh)

(* The cross and the tab's menu: Close, Close Others, Close All, Close     *)
(* Saved.                                                                  *)
RequestClose ==
  /\ \E k \in Open : \E closing \in {{k}, Open \ {k}, Open, {o \in Open : ~isDirty(tab[o])}} :
       closing # {} /\ requestClose(closing)
  /\ UNCHANGED <<keys, calls, restore, world, history>>

Cancel ==
  /\ queue # <<>>
  /\ queue' = <<>>
  /\ UNCHANGED <<tab, strip, active, keys, calls, restore, world, history>>

Discard ==
  /\ queue # <<>>
  /\ CloseTabs({Head(queue)}, Tail(queue))
  /\ UNCHANGED <<keys, calls, restore, world, history>>

SaveAndClose ==
  /\ queue # <<>>
  /\ queue' = Tail(queue)
  /\ StartSave(Head(queue), TRUE)
  /\ UNCHANGED <<strip, active, keys, restore, world, history>>

(* closeProject: the project was removed.                                  *)
closeProject ==
  /\ strip # <<>>
  /\ strip' = <<>> /\ active' = 0 /\ queue' = <<>>
  /\ tab' = [k \in Keys |-> None]
  /\ UNCHANGED <<keys, calls, restore, world, history>>

-----------------------------------------------------------------------------
(* restore: the saved files one after the other, those that do not read    *)
(* left out, then the saved selection.                                     *)

Restore ==
  /\ keys = 0 /\ restore.todo = <<>>
  /\ \E todo \in {s \in SetToAllKPermutations(Saved) : s # <<>>} : \E saved \in Range(todo) :
       restore' = [todo |-> todo, opened |-> <<>>, saved |-> saved]
  /\ UNCHANGED <<tab, strip, active, keys, queue, calls, world, history>>

Restoring == \E i \in DOMAIN calls : calls[i].op = "restore"

RestoreNext ==
  /\ restore.todo # <<>> /\ ~Restoring
  /\ LET f == Head(restore.todo) IN
       \/ /\ findTab(f) # {}
          /\ restore' = [restore EXCEPT !.todo = Tail(@)]
          /\ UNCHANGED <<keys, calls>>
       \/ /\ findTab(f) = {}
          /\ keys < MaxKeys /\ Len(calls) < MaxCalls
          /\ keys' = keys + 1
          /\ calls' = Append(calls, Call("restore", keys', f, None))
          /\ UNCHANGED restore
  /\ UNCHANGED <<tab, strip, active, queue, world, history>>

RestoreEnds ==
  /\ restore.todo = <<>> /\ restore.opened # <<>>
  /\ LET chosen == filtered(restore.opened, {o \in Range(restore.opened) : o.path = restore.saved})
     IN  active' = (chosen \o restore.opened)[1].key
  /\ restore' = [todo |-> <<>>, opened |-> <<>>, saved |-> None]
  /\ UNCHANGED <<tab, strip, keys, queue, calls, world, history>>

-----------------------------------------------------------------------------
(* The backend.  A call takes effect, and its answer is delivered later.   *)

AnswerRead(i) ==
  /\ calls[i].got = None /\ calls[i].op # "save"
  /\ calls' = [calls EXCEPT ![i].got =
                 IF disk[calls[i].path] = None THEN Failed ELSE disk[calls[i].path]]
  /\ UNCHANGED <<tab, strip, active, keys, queue, restore, world, history>>

PerformWrite(i) ==
  /\ calls[i].got = None /\ calls[i].op = "save"
  /\ LET f == calls[i].path IN
     \/ /\ calls' = [calls EXCEPT ![i].got = calls[i].text]
        /\ disk' = [disk EXCEPT ![f] = calls[i].text]
        /\ changed' = changed \cup {f}
        /\ onDisk' = [onDisk EXCEPT ![f] = @ \cup {calls[i].text}]
     \/ /\ calls' = [calls EXCEPT ![i].got = Failed]
        /\ UNCHANGED <<disk, changed, onDisk>>
  /\ UNCHANGED <<tab, strip, active, keys, queue, restore, writes, history>>

(* Another program writes or deletes a file.                               *)
ExternalChange(f, text) ==
  /\ f \in Shared /\ writes < MaxWrites /\ text # disk[f]
  /\ writes' = writes + 1
  /\ disk' = [disk EXCEPT ![f] = text]
  /\ changed' = changed \cup {f}
  /\ onDisk' = [onDisk EXCEPT ![f] = IF text = None THEN @ ELSE @ \cup {text}]
  /\ UNCHANGED <<tab, strip, active, keys, queue, calls, restore, history>>

(* Only the selected tab is read again.                                    *)
BugOnlySelected ==
  filtered(strip, {k \in Open : k = active /\ Dir[tab[k].path] \in {Dir[f] : f \in changed}})

tabsInChangedDirs ==
  filtered(strip, {k \in Open : Dir[tab[k].path] \in {Dir[f] : f \in changed}})

(* The change event: every open tab in a changed directory is read again.  *)
TreeEvent ==
  /\ changed # {}
  /\ Len(calls) + Len(tabsInChangedDirs) <= MaxCalls
  /\ changed' = {}
  /\ calls' =
       [i \in DOMAIN calls |->
          IF calls[i].got # None /\ Dir[calls[i].path] \in {Dir[f] : f \in changed}
          THEN [calls[i] EXCEPT !.outdated = TRUE] ELSE calls[i]]
       \o [j \in DOMAIN tabsInChangedDirs |->
             LET k == tabsInChangedDirs[j] IN Call("reconcile", k, tab[k].path, None)]
  /\ UNCHANGED <<tab, strip, active, keys, queue, restore, disk, writes, onDisk, history>>

(* Bookkeeping: an answer that is older than an event, or that came during *)
(* a save, may leave the tab behind the disk; so does one that contradicts *)
(* the conflict on show without replacing it.                              *)
Mark(c, putAside, kept) ==
  /\ late' = IF c.outdated \/ putAside THEN late \cup {c.key} ELSE late \ {c.key}
  /\ stale' = IF kept THEN stale \cup {c.key} ELSE stale \ {c.key}

Deliver(i, op) ==
  /\ i \in DOMAIN calls /\ calls[i].op = op /\ calls[i].got # None
  /\ calls' = RemoveAt(calls, i)
  /\ UNCHANGED <<keys, world>>

DeliverLoad(i) ==
  /\ Deliver(i, "load")
  /\ LET c == calls[i] IN
       /\ Patch(c.key, IF c.got = Failed THEN withError(tab[c.key])
                       ELSE withLoaded(tab[c.key], c.got))
       /\ Mark(c, FALSE, FALSE)
  /\ UNCHANGED <<strip, active, queue, restore>>

DeliverReconcile(i) ==
  /\ Deliver(i, "reconcile")
  /\ LET c == calls[i] IN
       /\ Patch(c.key, IF c.got = Failed THEN withReloadFailed(tab[c.key])
                       ELSE withExternalChange(tab[c.key], c.got))
       /\ Mark(c, c.key \in Open /\ tab[c.key].saving,
                  c.key \in Open /\ tab'[c.key].conflict \notin {None, c.got})
  /\ UNCHANGED <<strip, active, queue, restore>>

DeliverRestore(i) ==
  /\ Deliver(i, "restore")
  /\ LET c == calls[i] IN
       IF c.got = Failed
       THEN /\ restore' = [restore EXCEPT !.todo = Tail(@)]
            /\ UNCHANGED <<tab, strip, history>>
       ELSE /\ tab' = [tab EXCEPT ![c.key] = withLoaded(newTab(c.path), c.got)]
            /\ strip' = Append(strip, c.key)
            /\ restore' = [restore EXCEPT !.todo = Tail(@),
                             !.opened = Append(@, [key |-> c.key, path |-> c.path])]
            /\ Mark(c, FALSE, FALSE)
  /\ UNCHANGED <<active, queue>>

(* The close waits for the write, but not for its success.                 *)
BugCloseAnyway(i) ==
  /\ Deliver(i, "save")
  /\ LET c == calls[i] IN
       IF c.closes
       THEN CloseTabs({c.key}, queue)
       ELSE /\ Patch(c.key, IF c.got = Failed THEN withSaveFailed(tab[c.key])
                            ELSE withSaved(tab[c.key], c.text))
            /\ UNCHANGED <<strip, active, queue>>
  /\ UNCHANGED <<restore, history>>

DeliverSave(i) ==
  /\ Deliver(i, "save")
  /\ LET c == calls[i] IN
       IF c.closes /\ c.got # Failed
       THEN CloseTabs({c.key}, queue)
       ELSE /\ Patch(c.key, IF c.got = Failed THEN withSaveFailed(tab[c.key])
                            ELSE withSaved(tab[c.key], c.text))
            /\ UNCHANGED <<strip, active, queue>>
  /\ UNCHANGED <<restore, history>>

-----------------------------------------------------------------------------

User ==
  \/ \E f \in Files : OpenFile(f)
  \/ \E k \in Keys :
       \/ Select(k) \/ KeepMine(k) \/ TakeDisk(k) \/ Save(k)
       \/ \E text \in Text : Edit(k, text)
  \/ RequestClose \/ Cancel \/ Discard \/ SaveAndClose \/ closeProject

App == Restore \/ RestoreNext \/ RestoreEnds \/ TreeEvent

Backend ==
  \/ \E i \in DOMAIN calls : AnswerRead(i) \/ PerformWrite(i)
  \/ \E f \in Files : \E text \in Others \cup {None} : ExternalChange(f, text)

Deliveries ==
  \E i \in DOMAIN calls :
    DeliverLoad(i) \/ DeliverReconcile(i) \/ DeliverRestore(i) \/ DeliverSave(i)

Next == User \/ App \/ Backend \/ Deliveries

Spec == Init /\ [][Next]_vars

-----------------------------------------------------------------------------
(* Properties.                                                             *)

TypeOK ==
  /\ tab \in [Keys -> EditorTab \cup {None}]
  /\ strip \in Seq(Keys) /\ \A k \in Keys : (k \in Open) <=> tab[k] # None
  /\ active \in Nat /\ keys \in 0 .. MaxKeys
  /\ queue \in Seq(Keys)
  /\ disk \in [Files -> Text \cup {None}]
  /\ onDisk \in [Files -> SUBSET Text]
  /\ changed \subseteq Files /\ late \subseteq Keys /\ stale \subseteq Keys

(* Unsaved edits are only replaced by the user: no answer of the backend,  *)
(* however late and in whatever order, changes the buffer of a dirty tab   *)
(* (withExternalChange, withSaved, withSaveFailed, withLoaded).            *)
EditsSurvive ==
  [][\A k \in Keys :
       (k \in Open /\ isDirty(tab[k]) /\ tab'[k] # None /\ tab'[k].content # tab[k].content)
         => TakeDisk(k) \/ \E text \in Text : Edit(k, text)]_vars

(* What a tab takes for the disk's content the disk has really held, so a  *)
(* tab without the dirty mark holds nothing that was never written: typing *)
(* during a save leaves the tab dirty (withSaved's comment).               *)
BaselineWasOnDisk ==
  \A k \in Open : tab[k].status = "ready" => tab[k].baseline \in onDisk[tab[k].path]

(* A tab with unsaved edits leaves the strip only on Discard, with its     *)
(* project, or when the save it was to be closed after has been written.   *)
NoSilentDiscard ==
  [][\A k \in Open :
       (isDirty(tab[k]) /\ tab'[k] = None) =>
         \/ Discard \/ closeProject
         \/ \E i \in DOMAIN calls :
              /\ DeliverSave(i) /\ calls[i].key = k
              /\ calls[i].closes /\ calls[i].got = calls[i].text]_vars

Quiet(k) ==
  LET f == tab[k].path IN
  /\ Dir[f] \notin {Dir[g] : g \in changed}
  /\ \A i \in DOMAIN calls : calls[i].path # f

(* With no event and no call outstanding for its file, a tab that can be   *)
(* saved agrees with the disk, or says that it does not.  Excused are a    *)
(* tab whose last answer was older than the last event or came during a    *)
(* save, and one that kept its conflict when its last answer contradicted  *)
(* it: a disk back at the baseline, or a file that could not be read, does *)
(* not take the conflict off the screen (withExternalChange,               *)
(* withReloadFailed), so what the user then decides is decided on an old   *)
(* text.                                                                   *)
QuietMeansKnown ==
  \A k \in Open :
    LET f == tab[k].path IN
    (tab[k].status = "ready" /\ k \notin late /\ k \notin stale /\ Quiet(k))
      => \/ tab[k].baseline = disk[f]
         \/ tab[k].conflict # None
         \/ disk[f] = None

(* What resolveTakeDisk's comment says: taking the disk's side discards    *)
(* the edits and adopts what the disk holds.  Asked only where nothing is  *)
(* outstanding and no answer came too late to count.                       *)
TakenIsDisk ==
  [][\A k \in Open :
       (TakeDisk(k) /\ Quiet(k) /\ k \notin late /\ disk[tab[k].path] # None)
         => tab'[k].content = disk[tab[k].path]]_vars
=============================================================================
