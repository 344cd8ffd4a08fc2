------------------------------- MODULE Blame -------------------------------
(***************************************************************************)
(* The blame gutter (frontend lib/useBlame.ts, lib/blameMarks.ts,          *)
(* components/EditorPane.tsx): one blame is held, of the file on screen;   *)
(* it is anchored to the lines of a buffer that matches the disk, and the  *)
(* anchors follow the edits from there.  A line is its text, which also    *)
(* stands for the commit it came with: <<y, n>> is the n-th of y's first.  *)
(***************************************************************************)
EXTENDS Naturals, Sequences, SequencesExt, Window

CONSTANTS
  Blamed,     \* open editor tabs
  HeadLines,  \* lines of each at its first commit
  MaxShows,   \* bound: tab switches
  MaxStrokes, \* bound: edits
  MaxOutside  \* bound: writes and commits by other programs

(* A line, and what git says of it.                                        *)
Line == (Blamed \cup {None}) \X Nat

Commit == Line \cup {None}

ASSUME BlameAssumption ==
  /\ HeadLines \in Nat /\ MaxShows \in Nat /\ MaxStrokes \in Nat /\ MaxOutside \in Nat
  /\ None \notin Blamed
  /\ None \notin [text : Line, commit : Line]
  /\ None \notin [got : Seq(Commit) \cup {None, Failed}, apart : BOOLEAN]

VARIABLES
  worktree, \* worktree[y]: the lines of y on disk
  heads,    \* heads[y]: the lines of y at its last commit
  buffers,  \* buffers[y]: the tab's content, and its baseline
  inFront,  \* the tab on screen, or None
  blame,    \* the blame held, a commit or None for every line, or None
  blaming,  \* the live read, or None; an older one is dropped
  marks,    \* marks[y]: what the editor of y draws
  shows, strokes, elsewhere, \* what has happened so far
  apart     \* history: the blame held is not git's of the tab's baseline: the
            \* file read another way just then, or was committed since

blameVars ==
  <<worktree, heads, buffers, inFront, blame, blaming, marks, shows, strokes, elsewhere, apart>>

(* A new line: the user's, or one of another program's n-th change.        *)
Typed == <<None, 0>>
Foreign(n) == <<None, n>>

(* What git says of lines, by the last commit.                             *)
attribution(head, lines) ==
  [i \in DOMAIN lines |-> IF lines[i] \in Range(head) THEN lines[i] ELSE None]

unanswered == [got |-> None, apart |-> FALSE]

unmarked(lines) == [installed |-> FALSE, anchors |-> [i \in DOMAIN lines |-> None]]

BlameInit ==
  LET head(y) == [n \in 1 .. HeadLines |-> <<y, n>>] IN
  /\ worktree = [y \in Blamed |-> head(y)] /\ heads = worktree
  /\ buffers = [y \in Blamed |-> [content |-> head(y), baseline |-> head(y)]]
  /\ inFront = None /\ blame = None /\ blaming = None
  /\ marks = [y \in Blamed |-> unmarked(head(y))]
  /\ shows = 0 /\ strokes = 0 /\ elsewhere = 0 /\ apart = FALSE

-----------------------------------------------------------------------------
(* The marks (blameMarks.ts).                                              *)

commitAt(b, i) == IF i \in DOMAIN b THEN b[i] ELSE None

(* A blame anchored, by line number, to the text of a buffer.              *)
marksFor(b, lines) ==
  IF b = None THEN unmarked(lines)
  ELSE [installed |-> TRUE,
        anchors |-> [i \in DOMAIN lines |->
          IF commitAt(b, i) = None THEN None ELSE [text |-> lines[i], commit |-> b[i]]]]

accountedFor(m, lines, i) ==
  LET anchor == m.anchors[i] IN
  IF anchor # None /\ anchor.text = lines[i] THEN anchor.commit ELSE None

(* Of two anchors that land on one line, the one that describes it.        *)
keepBest(held, anchor, text) ==
  IF held = None \/ (anchor # None /\ held.text # text /\ anchor.text = text) THEN anchor ELSE held

(* The anchors after one change (movedAnchors): a line put in pushes them  *)
(* down, a line taken out leaves its anchor to its successor, and of a     *)
(* document replaced whole the first one stays.                            *)
inserted(anchors, i) == InsertAt(anchors, i, None)

deleted(anchors, lines, i) ==
  IF i = Len(anchors) THEN Front(anchors)
  ELSE RemoveAt([anchors EXCEPT ![i + 1] = keepBest(anchors[i], @, lines[i + 1])], i)

replaced(anchors, lines) ==
  [i \in DOMAIN lines |-> IF i = 1 /\ anchors # <<>> THEN anchors[1] ELSE None]

-----------------------------------------------------------------------------
(* The pane and the hook (EditorPane.tsx, useBlame.ts).                    *)

blameIsCurrent(tab) == tab.content = tab.baseline

(* Variants named Bug... are the definitions after them with a plausible   *)
(* mistake: only another tab makes the hook read again.                    *)
BugReread(y) == UNCHANGED blaming

(* The baseline of a tab has moved: the blame on screen is read again.     *)
Reread(y) == blaming' = IF y = inFront THEN unanswered ELSE blaming

(* The tab of y becomes tab, its editor's anchors having moved with the    *)
(* text: a buffer that is back to the baseline gets the blame held.        *)
Becomes(y, tab, anchors) ==
  LET held == IF y = inFront THEN blame ELSE None IN
  /\ buffers' = [buffers EXCEPT ![y] = tab]
  /\ marks' = [marks EXCEPT ![y] =
                 IF blameIsCurrent(tab) /\ ~blameIsCurrent(buffers[y])
                 THEN marksFor(held, tab.content) ELSE [@ EXCEPT !.anchors = anchors]]

(* Another tab: its pane is handed the blame held until its own is read.   *)
Present(y) ==
  /\ shows < MaxShows /\ shows' = shows + 1
  /\ y # inFront
  /\ inFront' = y
  /\ blame' = IF y = None THEN None ELSE blame
  /\ blaming' = IF y = None THEN None ELSE unanswered
  /\ marks' = [z \in Blamed |->
       IF z \in {y, inFront} /\ blame # None /\ blameIsCurrent(buffers[z])
       THEN marksFor(IF z = y THEN blame ELSE None, buffers[z].content) ELSE marks[z]]
  /\ UNCHANGED <<worktree, heads, buffers, strokes, elsewhere, apart>>

(* A line is put in, taken out or rewritten: with text of the user's, or   *)
(* with what stood there before.                                           *)
Stroke ==
  /\ strokes < MaxStrokes /\ strokes' = strokes + 1
  /\ inFront # None
  /\ LET tab     == buffers[inFront]
         anchors == marks[inFront].anchors
         texts   == ({Typed} \ Range(heads[inFront])) \cup (Range(tab.baseline) \ Range(tab.content))
         put(lines, moved) == Becomes(inFront, [tab EXCEPT !.content = lines], moved)
     IN  \/ \E i \in 1 .. Len(tab.content) + 1, text \in texts :
              put(InsertAt(tab.content, i, text), inserted(anchors, i))
         \/ \E i \in DOMAIN tab.content :
              \/ put(RemoveAt(tab.content, i), deleted(anchors, tab.content, i))
              \/ \E text \in texts \ {tab.content[i]} : put([tab.content EXCEPT ![i] = text], anchors)
  /\ UNCHANGED <<worktree, heads, inFront, blame, blaming, shows, elsewhere, apart>>

(* A save (EditorTabs has its two halves).                                 *)
SaveBuffer ==
  /\ inFront # None /\ ~blameIsCurrent(buffers[inFront])
  /\ LET lines == buffers[inFront].content IN
       /\ worktree' = [worktree EXCEPT ![inFront] = lines]
       /\ Becomes(inFront, [content |-> lines, baseline |-> lines], marks[inFront].anchors)
  /\ Reread(inFront)
  /\ UNCHANGED <<heads, inFront, blame, shows, strokes, elsewhere, apart>>

(* Another program writes the file: a line more, less or rewritten, or a   *)
(* version back that the tab, or the last commit, has.                     *)
WriteOutside(y) ==
  /\ elsewhere < MaxOutside /\ elsewhere' = elsewhere + 1
  /\ LET lines == worktree[y]
         new   == Foreign(elsewhere')
     IN  \E text \in {InsertAt(lines, i, new) : i \in 1 .. Len(lines) + 1}
                     \cup {RemoveAt(lines, i) : i \in DOMAIN lines}
                     \cup {[lines EXCEPT ![i] = new] : i \in DOMAIN lines}
                     \cup {buffers[y].baseline, heads[y]} :
           worktree' = [worktree EXCEPT ![y] = text]
  /\ UNCHANGED <<heads, buffers, inFront, blame, blaming, marks, shows, strokes, apart>>

(* Somebody commits the file as it is: nothing on disk moves for the tab.  *)
CommitOutside(y) ==
  /\ elsewhere < MaxOutside /\ elsewhere' = elsewhere + 1
  /\ heads[y] # worktree[y] /\ heads' = [heads EXCEPT ![y] = worktree[y]]
  /\ apart' = (apart \/ y = inFront)
  /\ blaming' = IF y = inFront /\ blaming # None
                THEN [blaming EXCEPT !.apart = blaming.got # None] ELSE blaming
  /\ UNCHANGED <<worktree, buffers, inFront, blame, marks, shows, strokes>>

(* A change on disk reaches the tab: a clean one takes it, and the user    *)
(* settles the conflict of a dirty one.                                    *)
AdoptDisk(y) ==
  /\ worktree[y] # buffers[y].baseline
  /\ \/ Becomes(y, [content |-> worktree[y], baseline |-> worktree[y]],
                replaced(marks[y].anchors, worktree[y]))
     \/ /\ ~blameIsCurrent(buffers[y])
        /\ Becomes(y, [buffers[y] EXCEPT !.baseline = worktree[y]], marks[y].anchors)
  /\ Reread(y)
  /\ UNCHANGED <<worktree, heads, inFront, blame, shows, strokes, elsewhere, apart>>

readBlame ==
  /\ blaming # None /\ blaming.got = None
  /\ blaming' \in {[got |-> attribution(heads[inFront], worktree[inFront]),
                   apart |-> worktree[inFront] # buffers[inFront].baseline],
                  [got |-> Failed, apart |-> FALSE]}
  /\ UNCHANGED <<worktree, heads, buffers, inFront, blame, marks, shows, strokes, elsewhere, apart>>

DeliverBlame ==
  /\ blaming # None /\ blaming.got # None
  /\ blaming' = None /\ apart' = blaming.apart
  /\ blame' = IF blaming.got = Failed THEN None ELSE blaming.got
  /\ marks' = [marks EXCEPT ![inFront] =
                 IF blameIsCurrent(buffers[inFront]) /\ (blame # None \/ blame' # None)
                 THEN marksFor(blame', buffers[inFront].content) ELSE @]
  /\ UNCHANGED <<worktree, heads, buffers, inFront, shows, strokes, elsewhere>>

BlameNext ==
  \/ Stroke \/ SaveBuffer \/ readBlame \/ DeliverBlame
  \/ \E y \in Blamed \cup {None} : Present(y)
  \/ \E y \in Blamed : WriteOutside(y) \/ CommitOutside(y) \/ AdoptDisk(y)

BlameSpec == BlameInit /\ [][BlameNext]_blameVars

-----------------------------------------------------------------------------
(* Properties.                                                             *)

(* Once nothing is being read and the buffer on screen is what is on disk, *)
(* every line carries the name git gives it and no other, or none at all   *)
(* if the read failed: whatever was typed, undone, saved, changed outside  *)
(* or looked at before (the installing effect).  Not so where the hook is  *)
(* blind, its key being the baseline alone: git read the file while it was *)
(* otherwise, and it was put back before the tab noticed; or the file was  *)
(* committed since.                                                        *)
QuietBlameIsOwn ==
  (/\ inFront # None /\ blaming = None /\ ~apart
   /\ blameIsCurrent(buffers[inFront]) /\ worktree[inFront] = buffers[inFront].baseline)
    => LET lines == buffers[inFront].content IN
       /\ marks[inFront].installed = (blame # None)
       /\ \A i \in DOMAIN lines :
            accountedFor(marks[inFront], lines, i) =
              IF blame = None THEN None ELSE attribution(heads[inFront], lines)[i]
=============================================================================
