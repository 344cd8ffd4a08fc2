------------------------------ MODULE GitStatus ------------------------------
(***************************************************************************)
(* The git half of the side panel (frontend lib/useGitStatus.ts,           *)
(* lib/useGitOps.ts, lib/gitOps.ts, lib/events.ts): the status of the      *)
(* project on screen, read again whenever the event channel says it may    *)
(* be out of date, and the operations that change the repository.          *)
(***************************************************************************)
EXTENDS Naturals, Sequences, Window

CONSTANTS
  Shapes,         \* what the status of a repository says as it changes, in turn
  MaxGitChanges,  \* bound: changes made to repositories outside this panel
  MaxGitSwitches, \* bound: project switches
  MaxGitOps       \* bound: operations started

(* What the controls read off a status.                                    *)
Status == [available : BOOLEAN, unborn : BOOLEAN, detached : BOOLEAN,
           named : BOOLEAN, upstream : BOOLEAN, dirty : BOOLEAN]

ASSUME GitAssumption ==
  /\ Shapes \in Seq(Status) /\ Shapes # <<>>
  /\ MaxGitChanges \in Nat /\ MaxGitSwitches \in Nat /\ MaxGitOps \in Nat

VARIABLES
  active,      \* root: the project on screen
  held,        \* held: seen on screen and not removed since
  statuses,    \* statuses[p]: the last reading kept for p, or None
  error,       \* the project whose failed read is shown, or None
  reading,     \* the read in flight: its project and its answer
  stale,       \* stale: another read is wanted after this one
  socket,      \* the event socket: the project it is for, and its state
  event,       \* a git event is queued on that socket
  repo,        \* repo[p]: how often the repository has changed
  unpublished, \* projects with a change the watcher has not published
  missed,      \* history: the last event for the project never reached it
  op,          \* busy: the operation in flight, its project and its outcome
  opError,     \* the project whose failed operation is shown, or None
  branches,    \* the project whose branches are listed, or None
  listing,     \* projects whose branches are being read
  switches,    \* project switches so far
  ops          \* operations started so far

gitVars == <<active, held, statuses, error, reading, stale, socket, event, repo,
             unpublished, missed, op, opError, branches, listing, switches, ops>>

opVars     == <<op, opError, branches, listing, ops>>
readVars   == <<statuses, error, reading, stale>>
socketVars == <<socket, event, missed>>
repoVars   == <<repo, unpublished>>

Idle == [project |-> None, answer |-> None]

GitTypeOK ==
  /\ active \in Projects \cup {None} /\ held \subseteq Projects
  /\ statuses \in [Projects -> Nat \cup {None}]
  /\ reading \in [project : Projects \cup {None}, answer : Nat \cup {None, Failed}]
  /\ socket \in [project : Projects \cup {None}, registered : BOOLEAN]
  /\ repo \in [Projects -> Nat] /\ unpublished \subseteq Projects
  /\ op \in [project : Projects \cup {None}, answer : {None, "done", Failed}]
  /\ listing \subseteq Projects

GitInit ==
  /\ active = None /\ held = {} /\ statuses = [p \in Projects |-> None] /\ error = None
  /\ reading = Idle /\ stale = FALSE
  /\ socket = [project |-> None, registered |-> FALSE] /\ event = FALSE
  /\ repo = [p \in Projects |-> 0]
  /\ unpublished = {} /\ missed = FALSE
  /\ op = Idle /\ opError = None /\ branches = None /\ listing = {}
  /\ switches = 0 /\ ops = 0

-----------------------------------------------------------------------------
(* useGitStatus.  One read in flight and one wanted behind it.             *)

(* Variants named Bug... are the definitions after them with a plausible   *)
(* mistake: here a request that finds a read in flight is dropped.         *)
BugDropRequest(p) ==
  IF reading # Idle THEN UNCHANGED <<reading, stale, missed>>
  ELSE reading' = [project |-> p, answer |-> None] /\ stale' = FALSE /\ missed' = FALSE

(* read, with p the project now on screen.                                 *)
read(p) ==
  IF reading # Idle THEN stale' = TRUE /\ UNCHANGED <<reading, missed>>
  ELSE /\ stale' = FALSE /\ missed' = FALSE
       /\ reading' = [project |-> p, answer |-> None]

(* The status is taken by a git process, at one moment of the read.        *)
AnswerStatus ==
  /\ reading.project # None /\ reading.answer = None
  /\ reading' = [reading EXCEPT !.answer = repo[reading.project]]
  /\ UNCHANGED <<active, held, statuses, error, stale, socketVars, repoVars, opVars, switches>>

AnswerStatusFails ==
  /\ reading.project # None /\ reading.answer = None
  /\ reading' = [reading EXCEPT !.answer = Failed]
  /\ UNCHANGED <<active, held, statuses, error, stale, socketVars, repoVars, opVars, switches>>

(* A failed read is shown whichever project is on screen.                  *)
BugApplyError ==
  LET of == reading.project IN
  /\ statuses' = IF of \in held /\ reading.answer # Failed
                 THEN [statuses EXCEPT ![of] = reading.answer] ELSE statuses
  /\ error' = IF of \notin held THEN error ELSE IF reading.answer = Failed THEN of ELSE None

apply ==
  LET of == reading.project IN
  /\ statuses' = IF of \in held /\ reading.answer # Failed
                 THEN [statuses EXCEPT ![of] = reading.answer] ELSE statuses
  /\ error' = IF of \notin held \/ of # active THEN error
              ELSE IF reading.answer = Failed THEN of ELSE None

DeliverStatus ==
  /\ reading.answer # None
  /\ apply
  /\ stale' = FALSE
  /\ reading' = IF stale /\ active # None THEN [project |-> active, answer |-> None] ELSE Idle
  /\ missed' = (missed /\ ~stale)
  /\ UNCHANGED <<active, held, socket, event, repoVars, opVars, switches>>

(* The effects of a new root: both hooks take it as their target, the old  *)
(* event socket is closed and a new one opened beside the first read.      *)
Switch(p) ==
  /\ switches < MaxGitSwitches /\ p # active
  /\ switches' = switches + 1
  /\ active' = p
  /\ error' = None /\ opError' = None /\ branches' = None
  /\ event' = FALSE
  /\ socket' = [project |-> p, registered |-> FALSE]
  /\ IF p = None THEN UNCHANGED <<held, reading, stale, missed, listing>>
     ELSE /\ held' = held \cup {p}
          /\ read(p)
          /\ listing' = listing \cup {p}
  /\ UNCHANGED <<statuses, repoVars, op, ops>>

(* closeProject: the project is being removed.  It may stay on screen      *)
(* until the registry has answered.                                        *)
CloseProject(p) ==
  /\ p \in held
  /\ held' = held \ {p}
  /\ statuses' = [statuses EXCEPT ![p] = None]
  /\ UNCHANGED <<active, error, reading, stale, socketVars, repoVars, opVars, switches>>

-----------------------------------------------------------------------------
(* The event channel (openEventsSocket, dispatch).                         *)

(* The server registers the connection some time after the socket opened.  *)
Register ==
  /\ socket.project # None /\ ~socket.registered
  /\ socket' = [socket EXCEPT !.registered = TRUE]
  /\ UNCHANGED <<active, held, readVars, event, missed, repoVars, opVars, switches>>

(* The watcher publishes a batch; nobody hears it who is not registered.   *)
Publish(p) ==
  /\ p \in unpublished
  /\ unpublished' = unpublished \ {p}
  /\ event'  = (event \/ (p = socket.project /\ socket.registered))
  /\ missed' = (missed \/ (p = socket.project /\ ~socket.registered))
  /\ UNCHANGED <<active, held, readVars, socket, repo, opVars, switches>>

(* The event is evicted from a full connection queue; the resync that      *)
(* reports it has no handler here.                                         *)
Evict ==
  /\ event
  /\ event' = FALSE /\ missed' = TRUE
  /\ UNCHANGED <<active, held, readVars, socket, repoVars, opVars, switches>>

onGit ==
  /\ event
  /\ event' = FALSE
  /\ read(active)
  /\ UNCHANGED <<active, held, statuses, error, socket, repoVars, opVars, switches>>

-----------------------------------------------------------------------------
(* useGitOps: one operation at a time, on the project it was started in.   *)

emptyStatus ==
  [available |-> TRUE, unborn |-> FALSE, detached |-> FALSE, named |-> FALSE,
   upstream |-> FALSE, dirty |-> FALSE]

status ==
  IF active = None \/ statuses[active] = None THEN emptyStatus
  ELSE Shapes[(statuses[active] % Len(Shapes)) + 1]

checkoutBlockedReason(s) == s.available /\ (s.unborn \/ s.dirty)

pushBlockedReason(s) == s.available /\ (s.unborn \/ s.detached \/ ~s.named)

pullBlockedReason(s) == s.available /\ (s.detached \/ ~s.upstream)

needsUpstream(s) == s.available /\ ~s.detached /\ ~s.unborn /\ s.named /\ ~s.upstream

(* The controls, when they are live.  Branches and remotes come together.  *)
BranchSelect == branches = active /\ ~checkoutBlockedReason(status)

PushControl == ~pushBlockedReason(status) /\ (needsUpstream(status) => branches = active)

BranchBar ==
  status.available /\ (BranchSelect \/ PushControl \/ ~pullBlockedReason(status))

runOp ==
  /\ active # None /\ op = Idle /\ ops < MaxGitOps /\ BranchBar
  /\ ops' = ops + 1
  /\ op' = [project |-> active, answer |-> None]
  /\ opError' = None
  /\ UNCHANGED <<active, held, readVars, socketVars, repoVars, branches, listing, switches>>

(* git ends, and may have changed the repository whether it failed or not. *)
GitEnds ==
  /\ op.project # None /\ op.answer = None
  /\ \E outcome \in {"done", Failed} : op' = [op EXCEPT !.answer = outcome]
  /\ repo' = [repo EXCEPT ![op.project] = @ + 1]
  /\ unpublished' = unpublished \cup {op.project}
  /\ UNCHANGED <<active, held, readVars, socketVars, opError, branches, listing, ops, switches>>

DeliverOp ==
  /\ op.answer # None
  /\ op' = Idle
  /\ opError' = IF op.answer = Failed /\ op.project = active THEN op.project ELSE opError
  /\ IF active = None THEN UNCHANGED <<reading, stale, missed, listing>>
     ELSE read(active) /\ listing' = listing \cup {active}
  /\ UNCHANGED <<active, held, statuses, error, socket, event, repoVars, branches, ops, switches>>

dismissError ==
  /\ opError # None
  /\ opError' = None
  /\ UNCHANGED <<active, held, readVars, socketVars, repoVars, op, branches, listing, ops, switches>>

(* listRefs: branches and remotes, only for the project on screen.         *)
DeliverRefs(p) ==
  /\ p \in listing
  /\ listing' = listing \ {p}
  /\ branches' = IF p = active THEN p ELSE branches
  /\ UNCHANGED <<active, held, readVars, socketVars, repoVars, op, opError, ops, switches>>

-----------------------------------------------------------------------------

(* The user's terminal, or another program, changes the repository.        *)
Change(p) ==
  /\ repo[p] < MaxGitChanges
  /\ repo' = [repo EXCEPT ![p] = @ + 1]
  /\ unpublished' = unpublished \cup {p}
  /\ UNCHANGED <<active, held, readVars, socketVars, opVars, switches>>

GitNext ==
  \/ AnswerStatus \/ AnswerStatusFails \/ DeliverStatus \/ onGit
  \/ Register \/ Evict
  \/ runOp \/ GitEnds \/ DeliverOp \/ dismissError
  \/ \E p \in Projects :
       CloseProject(p) \/ Publish(p) \/ DeliverRefs(p) \/ Change(p)
  \/ \E p \in Projects \cup {None} : Switch(p)

GitSpec == GitInit /\ [][GitNext]_gitVars

-----------------------------------------------------------------------------
(* Properties.                                                             *)

(* What the panel says is about the repository it is said of: a status     *)
(* stored for a project is one its own repository had, and the failures    *)
(* and the branches shown are those of the project on screen, however late *)
(* they arrive (apply, run and listRefs check the target again).           *)
PanelIsOwn ==
  /\ error \in {None, active} /\ opError \in {None, active} /\ branches \in {None, active}
  /\ \A p \in Projects : statuses[p] # None => statuses[p] <= repo[p]

(* Nothing is kept for a project that has been removed, although a read of *)
(* it may have been in flight (held).                                      *)
NothingKeptUnheld == \A p \in Projects : statuses[p] # None => p \in held

(* However changes, reads and operations interleave, once the window is    *)
(* quiet the status on screen describes the repository as it is, unless    *)
(* the read failed, the project is being removed, or the last event never  *)
(* reached the window: the queued re-read makes the last answer the answer *)
(* for the latest state (read's comment).                                  *)
QuietStatusIsCurrent ==
  \A p \in Projects :
    (/\ active = p /\ p \in held /\ error # p
     /\ reading = Idle /\ p \notin unpublished /\ ~event /\ ~missed)
      => statuses[p] = repo[p]
=============================================================================
