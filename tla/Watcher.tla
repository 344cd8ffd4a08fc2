------------------------------ MODULE Watcher ------------------------------
(***************************************************************************)
(* The file watcher of one checkout (internal/watch/fsnotify.go) and what  *)
(* it keeps current (app/tree.go, tree.ts): the kernel notifies of changes *)
(* in watched directories only, a directory is watched once the watcher    *)
(* has walked to it, and meanwhile the checkout changes.  Directories form *)
(* a chain: number 0 is the root, and n + 1 lives in n.  The batches are   *)
(* delivered here; what loses them is in FileTree and GitStatus.           *)
(***************************************************************************)
EXTENDS Naturals, Sequences, Window

CONSTANTS
  Deepest,    \* bound: the last directory of the chain
  MaxNotices, \* the length of the kernel's queue
  MaxChurn    \* bound: changes of the checkout

VARIABLES
  depth,      \* the directories 0 .. depth exist
  holds,      \* holds[n]: which content directory n has
  nfy,        \* the directories the kernel watches
  notices,    \* notifications queued: where, and the directory created there
  walk,       \* how far addTree is, or None
  pendingDirs,\* pending: changed since the last flush
  flushing,   \* what a flush took and has not published
  listed,     \* listed[n]: the content the tree shows of n, or None
  relisting,  \* listings the tree was told are stale
  churn,      \* changes so far
  overflowed, \* history: the kernel dropped a notification
  overlooked, \* history: changed while unwatched, and not listed since
  blind       \* history: refused a watch, left by a walk that failed, or made
              \* in such a directory, and not watched since

watcherVars == <<depth, holds, nfy, notices, walk, pendingDirs, flushing, listed, relisting,
                 churn, overflowed, overlooked, blind>>

Levels == 0 .. Deepest

Notice == [dir : Levels, created : Levels \cup {None}]

(* Where addTree is: about to watch, or to read, directory at; when it     *)
(* ends, mark is recorded.                                                 *)
Walk == [at : Levels, doing : {"addWatch", "readDir"}, mark : SUBSET Levels]

ASSUME WatcherAssumption ==
  /\ Deepest \in Nat /\ MaxNotices \in Nat /\ MaxChurn \in Nat
  /\ None \notin Levels \cup Walk

WatcherTypeOK ==
  /\ depth \in Levels /\ holds \in [Levels -> Nat] /\ nfy \subseteq Levels
  /\ notices \in Seq(Notice) /\ Len(notices) <= MaxNotices /\ walk \in Walk \cup {None}
  /\ pendingDirs \subseteq Levels /\ flushing \subseteq Levels
  /\ listed \in [Levels -> Nat \cup {None}] /\ relisting \subseteq Levels
  /\ churn \in 0 .. MaxChurn /\ overflowed \in BOOLEAN /\ overlooked \subseteq Levels
  /\ blind \subseteq Levels

(* Start walks the whole checkout, before run and flushLoop begin.  (One   *)
(* whose walk fails returns the error, and there is no watcher.)           *)
addTree(n, mark) == [at |-> n, doing |-> "addWatch", mark |-> mark]

WatcherInit ==
  /\ depth \in Levels /\ holds = [n \in Levels |-> 0]
  /\ nfy = {} /\ notices = <<>> /\ walk = addTree(0, {})
  /\ pendingDirs = {} /\ flushing = {}
  /\ listed = [n \in Levels |-> None] /\ relisting = {}
  /\ churn = 0 /\ overflowed = FALSE /\ overlooked = {} /\ blind = {}

-----------------------------------------------------------------------------
(* The checkout, changed by anyone, and the kernel (external): a change is *)
(* reported by the watches there are at that moment, and dropped when the  *)
(* queue is full.  A directory that is deleted loses its watch.            *)

Changed(dirs) ==
  /\ churn < MaxChurn /\ churn' = churn + 1
  /\ holds' = [n \in Levels |-> IF n \in dirs THEN holds[n] + 1 ELSE holds[n]]

Notify(reported, notice) ==
  LET full == Len(notices) = MaxNotices IN
  /\ notices' = IF reported /\ ~full THEN Append(notices, notice) ELSE notices
  /\ overflowed' = (overflowed \/ (reported /\ full))

ChangeFile ==
  \E n \in 0 .. depth :
    /\ Changed({n}) /\ Notify(n \in nfy, [dir |-> n, created |-> None])
    /\ overlooked' = overlooked \cup ({n} \ nfy)
    /\ UNCHANGED <<depth, nfy, blind>>

MakeDirectory ==
  /\ depth < Deepest /\ depth' = depth + 1
  /\ Changed({depth, depth + 1})
  /\ Notify(depth \in nfy, [dir |-> depth, created |-> depth + 1])
  /\ overlooked' = overlooked \cup ({depth, depth + 1} \ nfy)
  /\ blind' = IF depth \in blind THEN blind \cup {depth + 1} ELSE blind
  /\ UNCHANGED nfy

DeleteDirectory ==
  /\ depth > 0 /\ depth' = depth - 1
  /\ Changed({depth - 1})
  /\ Notify({depth - 1, depth} \cap nfy # {}, [dir |-> depth - 1, created |-> None])
  /\ nfy' = nfy \ {depth} /\ blind' = blind \ {depth}
  /\ overlooked' = overlooked \cup ({depth - 1} \ nfy)

Disk ==
  /\ ChangeFile \/ MakeDirectory \/ DeleteDirectory
  /\ UNCHANGED <<walk, pendingDirs, flushing, listed, relisting>>

-----------------------------------------------------------------------------
(* What a walk that does not go further leaves without a watch.            *)
unreached(from) == {n \in from .. depth : n \notin nfy}

(* run: one notification at a time.  A directory that was created, and is  *)
(* still there, is walked; then the directory it happened in is pending,   *)
(* which is all that happens if it cannot be looked at.                    *)
Handle ==
  /\ walk = None /\ notices # <<>> /\ notices' = Tail(notices)
  /\ LET ev    == Head(notices)
         there == ev.created # None /\ ev.created <= depth
     IN  \/ /\ there /\ walk' = addTree(ev.created, {ev.dir})
            /\ UNCHANGED <<pendingDirs, blind>>
         \/ /\ pendingDirs' = pendingDirs \cup {ev.dir}
            /\ blind' = IF there THEN blind \cup unreached(ev.created) ELSE blind
            /\ UNCHANGED walk
  /\ UNCHANGED <<depth, holds, nfy, flushing, listed, relisting, churn, overflowed, overlooked>>

(* Best effort: a directory that vanished before the watch was added is    *)
(* passed over, and so is one the system refuses to watch.                 *)
AddWatch ==
  /\ walk # None /\ walk.doing = "addWatch"
  /\ LET found == {walk.at} \cap 0 .. depth IN
     \/ nfy' = nfy \cup found /\ blind' = blind \ found
     \/ blind' = blind \cup (found \ nfy) /\ UNCHANGED nfy
  /\ walk' = [walk EXCEPT !.doing = "readDir"]
  /\ UNCHANGED <<depth, holds, notices, pendingDirs, flushing, listed, relisting, churn, overflowed,
                 overlooked>>

(* The walk goes on into the directory found there, or ends.               *)
BugReadDir ==
  /\ walk # None /\ walk.doing = "readDir"
  /\ walk' = None /\ pendingDirs' = pendingDirs \cup walk.mark
  /\ UNCHANGED <<depth, holds, nfy, notices, flushing, listed, relisting, churn, overflowed,
                 overlooked, blind>>

(* A directory that cannot be read, but is there, ends the walk of handle, *)
(* which ignores the error.                                                *)
ReadDir ==
  /\ walk # None /\ walk.doing = "readDir"
  /\ \/ /\ walk.at < depth
        /\ walk' = addTree(walk.at + 1, walk.mark) /\ UNCHANGED <<pendingDirs, blind>>
     \/ /\ walk.at >= depth \/ walk.mark # {}
        /\ walk' = None /\ pendingDirs' = pendingDirs \cup walk.mark
        /\ blind' = blind \cup unreached(walk.at + 1)
  /\ UNCHANGED <<depth, holds, nfy, notices, flushing, listed, relisting, churn, overflowed,
                 overlooked>>

-----------------------------------------------------------------------------
(* flushLoop: the pending set is taken under the lock, published outside.  *)
Flush ==
  /\ flushing = {} /\ pendingDirs # {}
  /\ flushing' = pendingDirs /\ pendingDirs' = {}
  /\ UNCHANGED <<depth, holds, nfy, notices, walk, listed, relisting, churn, overflowed,
                 overlooked, blind>>

(* A tree that tracks a directory of the batch lists it again.             *)
PublishTreeChanged ==
  /\ flushing # {} /\ flushing' = {}
  /\ relisting' = relisting \cup {n \in flushing : listed[n] # None}
  /\ UNCHANGED <<depth, holds, nfy, notices, walk, pendingDirs, listed, churn, overflowed,
                 overlooked, blind>>

(* The tree reads one directory: the user opened it below one that is      *)
(* shown, or its listing is stale.  Of one that is gone it keeps the rows. *)
ListDirectory ==
  \E n \in Levels :
    /\ \/ n \in relisting
       \/ n <= depth /\ \A parent \in Levels : parent + 1 = n => listed[parent] # None
    /\ relisting' = relisting \ {n}
    /\ IF n <= depth
       THEN listed' = [listed EXCEPT ![n] = holds[n]] /\ overlooked' = overlooked \ {n}
       ELSE UNCHANGED <<listed, overlooked>>
    /\ UNCHANGED <<depth, holds, nfy, notices, walk, pendingDirs, flushing, churn, overflowed,
                   blind>>

WatcherNext ==
  \/ Disk \/ Handle \/ AddWatch \/ ReadDir \/ Flush \/ PublishTreeChanged \/ ListDirectory

WatcherSpec == WatcherInit /\ [][WatcherNext]_watcherVars

-----------------------------------------------------------------------------
Settled ==
  notices = <<>> /\ walk = None /\ pendingDirs = {} /\ flushing = {} /\ relisting = {}

(* Once the watcher has caught up, and unless the kernel dropped a         *)
(* notification, every directory there is, is watched, however many were   *)
(* made while one of them was being walked; but for those the system would *)
(* not let it watch or look at (addWatch is best effort, and handle        *)
(* ignores what ends addTree) and what was made in them.  And the tree     *)
(* shows what each holds, except of one that changed before its watch was  *)
(* added, or without one, and that nobody has listed since.  Code:         *)
(* addTree, handle and flush.                                              *)
QuietWatchIsCurrent ==
  Settled /\ ~overflowed =>
    \A n \in 0 .. depth :
      /\ n \in nfy \cup blind
      /\ listed[n] # None /\ n \notin overlooked => listed[n] = holds[n]
=============================================================================
