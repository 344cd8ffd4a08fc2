----------------------------- MODULE KubeSession -----------------------------
(***************************************************************************)
(* One live cluster watch (internal/kubewatch/session.go, pump.go and      *)
(* plan.go): the run loop that reads what a checkout declares, connects,   *)
(* plans one list-and-watch pump per group of objects and follows them     *)
(* until one fails or the plan is superseded; and the announcer that tells *)
(* the frontend something changed.                                         *)
(*                                                                         *)
(* Objects are numbered in declaration order.  The cluster is the log of   *)
(* its changes: a resource version is a position in it, a list reads the   *)
(* state at its end, a watch delivers the entries after a version one by   *)
(* one.  Setting state under s.mu and the s.changed() that follows it are  *)
(* one step; a watch the server closes cleanly is reopened at the version  *)
(* it had reached, which changes nothing and is left out.                  *)
(***************************************************************************)
EXTENDS Naturals, Sequences, FiniteSets, SequencesExt

CONSTANTS
  Objects,     \* declarable objects: numbers
  Groups,      \* resources, one pump each
  GroupOf,     \* GroupOf[o]: the resource object o is served by
  MaxBackoff,  \* maxBackoff, in seconds (minBackoff is 1)
  MaxEdits,    \* bound of the model: edits of the checkout
  MaxChanges   \* bound of the model: changes in the cluster

ASSUME KubeSessionAssumption ==
  /\ Objects \subseteq Nat
  /\ GroupOf \in [Objects -> Groups]
  /\ MaxBackoff \in Nat \ {0}
  /\ MaxEdits \in Nat /\ MaxChanges \in Nat

VARIABLES
  checkout,   \* the objects the manifests declare against this binding
  edits,      \* how often the checkout has been edited
  fileEvent,  \* a change on disk the watcher has not yet passed to Refresh
  log,        \* the cluster's changes, oldest first
  net,        \* "flaky": reads, connects and watches may fail; "steady": not
  canceled,   \* s.ctx is done
  at,         \* where run is
  backoff,    \* its backoff, in seconds
  result,     \* what cycle is about to return: "nil" or the phase of its error
  planned,    \* the objects the running plan was built for
  rows,       \* s.objects: what the panel shows
  phase,      \* s.phase
  pumps,      \* pumps[g]: where the group's pump is, its version, its rows
  replanned,  \* the channel s.replanned holds a request
  dirty,      \* the channel s.dirty holds a request
  announcer,  \* "waiting", "resting" (rate limit) or "ended"
  unseen      \* the state has changed since the last announcement

worldVars == <<checkout, edits, fileEvent, log, net>>
runVars   == <<at, backoff, result, planned>>
viewVars  == <<rows, phase, dirty, unseen>>
vars      == <<worldVars, canceled, runVars, viewVars, pumps, replanned, announcer>>

Health == {"NotFound", "Current", "Unknown"}
Phases == {"idle", "connecting", "watching", "reconnecting", "unauthorized"}
Errors == {"reconnecting", "unauthorized"}

Stopped == [at |-> "stopped", version |-> 0, names |-> {}]
Running == {"list", "follow", "parked"}

Init ==
  /\ checkout \in SUBSET Objects
  /\ edits = 0 /\ fileEvent = FALSE /\ log = <<>> /\ net = "flaky"
  /\ canceled = FALSE
  /\ at = "sleep" /\ backoff = 0 /\ result = "nil" /\ planned = {}
  /\ rows = <<>> /\ phase = "connecting" /\ dirty = FALSE /\ unseen = FALSE
  /\ pumps = [g \in Groups |-> Stopped]
  /\ replanned = FALSE
  /\ announcer = "waiting"

-----------------------------------------------------------------------------
(* The world: the user's edits, the file watcher, the cluster, the network *)

Edit ==
  /\ edits < MaxEdits
  /\ edits' = edits + 1
  /\ checkout' \in SUBSET Objects
  /\ fileEvent' = TRUE
  /\ UNCHANGED <<log, net, canceled, runVars, viewVars, pumps, replanned, announcer>>

(* Variants named Bug... are the definitions after them with a plausible   *)
(* mistake: here the replan channel has no buffer, and a request nobody    *)
(* waits for is lost.                                                      *)
BugUnbuffered ==
  /\ fileEvent
  /\ fileEvent' = FALSE
  /\ replanned' = (at \in {"follow", "park"})
  /\ UNCHANGED <<checkout, edits, log, net, canceled, runVars, viewVars, pumps, announcer>>

(* Service.Refresh: replan, which never blocks.                            *)
Refresh ==
  /\ fileEvent
  /\ fileEvent' = FALSE
  /\ replanned' = TRUE
  /\ UNCHANGED <<checkout, edits, log, net, canceled, runVars, viewVars, pumps, announcer>>

(* What the cluster says of an object at version v.                        *)
HealthAt(o, v) ==
  LET changes == {i \in 1 .. v : log[i].obj = o}
  IN IF changes = {} THEN "NotFound"
     ELSE log[CHOOSE i \in changes : \A j \in changes : j <= i].health

ClusterChanges(o, h) ==
  /\ Len(log) < MaxChanges
  /\ h # HealthAt(o, Len(log))
  /\ log' = Append(log, [obj |-> o, health |-> h])
  /\ UNCHANGED <<checkout, edits, fileEvent, net, canceled, runVars, viewVars, pumps,
                 replanned, announcer>>

Settles ==
  /\ net = "flaky"
  /\ net' = "steady"
  /\ UNCHANGED <<checkout, edits, fileEvent, log, canceled, runVars, viewVars, pumps,
                 replanned, announcer>>

(* Service.Stop and Shutdown cancel the session and wait for its run loop. *)
Stop ==
  /\ ~canceled
  /\ canceled' = TRUE
  /\ UNCHANGED <<worldVars, runVars, viewVars, pumps, replanned, announcer>>

-----------------------------------------------------------------------------
(* What the panel reads.                                                   *)

Changed == dirty' = TRUE /\ unseen' = TRUE
Same    == UNCHANGED <<dirty, unseen>>

(* setPhase announces only a phase that is a change.                       *)
SetPhase(p) ==
  /\ phase' = p
  /\ IF p # phase THEN Changed ELSE Same

(* mark, for a set of <<object, row>> a pump answers for: the row takes    *)
(* the verdict, if the list still has that row.                            *)
MarkRows(names, health) ==
  LET verdict(i) == CHOOSE n \in names : n[2] = i
      touched    == {n[2] : n \in names} \cap DOMAIN rows
  IN /\ rows' = [i \in DOMAIN rows |->
                   IF i \in touched
                   THEN [rows[i] EXCEPT !.health = health[verdict(i)[1]], !.of = verdict(i)[1]]
                   ELSE rows[i]]
     /\ IF \E i \in touched : rows[i].health # health[verdict(i)[1]] THEN Changed ELSE Same
     /\ UNCHANGED phase

-----------------------------------------------------------------------------
(* run and cycle.                                                          *)

NextBackoff(b) == IF b = 0 THEN 1 ELSE IF 2 * b < MaxBackoff THEN 2 * b ELSE MaxBackoff

(* The end of a cycle, back in run: a canceled session returns, an error   *)
(* sets the phase and backs off, nil rebuilds at once.                     *)
CycleFails(p) ==
  IF canceled
  THEN /\ at' = "done"
       /\ UNCHANGED <<backoff, phase>> /\ Same
  ELSE /\ at' = "sleep"
       /\ backoff' = NextBackoff(backoff)
       /\ SetPhase(p)

CycleRebuilds ==
  IF canceled
  THEN at' = "done" /\ UNCHANGED backoff
  ELSE at' = "sleep" /\ backoff' = 0

(* wait(backoff): it elapses, or the context ends.                         *)
Wake ==
  /\ at = "sleep"
  /\ at' = IF canceled THEN "done" ELSE "declare"
  /\ UNCHANGED <<worldVars, canceled, backoff, result, planned, viewVars, pumps, replanned,
                 announcer>>

(* Declared fails, or its answer becomes the plan: nothing to watch parks  *)
(* the session, anything else connects.                                    *)
Declare ==
  /\ at = "declare"
  /\ \/ /\ net = "flaky"
        /\ CycleFails("reconnecting")
        /\ UNCHANGED <<planned, rows>>
     \/ /\ planned' = checkout
        /\ Changed
        /\ IF checkout = {}
           THEN at' = "park" /\ phase' = "idle" /\ rows' = <<>>
           ELSE at' = "connect" /\ phase' = "connecting" /\ UNCHANGED rows
        /\ UNCHANGED backoff
  /\ UNCHANGED <<worldVars, canceled, result, pumps, replanned, announcer>>

(* plan: one row per declared object in order, one pump per group of the   *)
(* objects the cluster serves; the others are Unknown and nobody's.        *)
Row(o, served) ==
  [obj |-> o, health |-> IF o \in served THEN "NotFound" ELSE "Unknown", of |-> o]

declared == SetToSortSeq(planned, <)

PlanRows(served) == [i \in DOMAIN declared |-> Row(declared[i], served)]

(* Rows nobody answers for are not counted.                                *)
BugRowsMiscounted(g, served) ==
  LET order == SetToSortSeq(served, <)
      names == {<<order[i], i>> : i \in {j \in DOMAIN order : GroupOf[order[j]] = g}}
  IN IF names = {} THEN Stopped ELSE [at |-> "list", version |-> 0, names |-> names]

PlanPump(g, served) ==
  LET names == {<<declared[i], i>> :
                  i \in {j \in DOMAIN declared : declared[j] \in served /\ GroupOf[declared[j]] = g}}
  IN  IF names = {} THEN Stopped ELSE [at |-> "list", version |-> 0, names |-> names]

(* connect fails, or the rows are seeded, the phase is set and the pumps   *)
(* of the plan start.                                                      *)
Connect ==
  /\ at = "connect"
  /\ \/ /\ net = "flaky"
        /\ \E p \in Errors : CycleFails(p)
        /\ UNCHANGED <<rows, pumps>>
     \/ \E served \in SUBSET planned :
          /\ rows' = PlanRows(served)
          /\ pumps' = [g \in Groups |-> PlanPump(g, served)]
          /\ phase' = "watching"
          /\ Changed
          /\ at' = "follow"
          /\ UNCHANGED backoff
  /\ UNCHANGED <<worldVars, canceled, result, planned, replanned, announcer>>

(* follow's select: a pump has failed.                                     *)
FollowFails ==
  /\ at = "follow"
  /\ \E g \in Groups : pumps[g].at = "failed"
  /\ result' \in Errors
  /\ at' = "wind"
  /\ UNCHANGED <<worldVars, canceled, backoff, planned, viewVars, pumps, replanned, announcer>>

(* superseded: the checkout declares other objects than the plan.          *)
BugComparesSize == Cardinality(planned) # Cardinality(checkout)

Superseded == planned # checkout

(* follow's select: a replan was asked for; the plan is superseded when    *)
(* the checkout cannot be read or declares other objects.                  *)
FollowReplanned ==
  /\ at = "follow"
  /\ replanned
  /\ replanned' = FALSE
  /\ \/ /\ net = "flaky"
        /\ at' = "wind" /\ result' = "nil"
        /\ Same
     \/ /\ Changed
        /\ IF Superseded
           THEN at' = "wind" /\ result' = "nil"
           ELSE UNCHANGED <<at, result>>
  /\ UNCHANGED <<worldVars, canceled, backoff, planned, rows, phase, pumps, announcer>>

FollowCanceled ==
  /\ at = "follow"
  /\ canceled
  /\ at' = "wind" /\ result' \in Errors
  /\ UNCHANGED <<worldVars, canceled, backoff, planned, viewVars, pumps, replanned, announcer>>

(* follow has canceled its pumps and waits for every one of them.          *)
WindUp ==
  /\ at = "wind"
  /\ \A g \in Groups : pumps[g].at \notin Running
  /\ pumps' = [g \in Groups |-> Stopped]
  /\ result' = "nil"
  /\ IF result = "nil"
     THEN CycleRebuilds /\ UNCHANGED <<phase, dirty, unseen>>
     ELSE CycleFails(result)
  /\ UNCHANGED <<worldVars, canceled, planned, rows, replanned, announcer>>

(* A parked session only listens for a replan.                             *)
BugDeafPark ==
  /\ at = "park"
  /\ replanned
  /\ replanned' = FALSE
  /\ CycleRebuilds
  /\ UNCHANGED <<worldVars, canceled, result, planned, viewVars, pumps, announcer>>

(* park: idle until a replan, or the end.                                  *)
Unpark ==
  /\ at = "park"
  /\ \/ /\ replanned
        /\ replanned' = FALSE
        /\ CycleRebuilds
     \/ /\ canceled
        /\ at' = "done"
        /\ UNCHANGED <<replanned, backoff>>
  /\ UNCHANGED <<worldVars, canceled, result, planned, viewVars, pumps, announcer>>

-----------------------------------------------------------------------------
(* pump, one per group of the plan.                                        *)

(* The list: it fails, is refused (the rows become Unknown and the pump    *)
(* waits out the cycle), or records every object of the group.             *)
List(g) ==
  LET p == pumps[g]
      here    == [o \in Objects |-> HealthAt(o, Len(log))]
      unknown == [o \in Objects |-> "Unknown"]
  IN /\ p.at = "list"
     /\ \/ /\ net = "flaky"
           /\ pumps' = [pumps EXCEPT ![g].at = "failed"]
           /\ UNCHANGED viewVars
        \/ /\ net = "flaky"
           /\ pumps' = [pumps EXCEPT ![g].at = "parked"]
           /\ MarkRows(p.names, unknown)
        \/ /\ pumps' = [pumps EXCEPT ![g].at = "follow", ![g].version = Len(log)]
           /\ MarkRows(p.names, here)
     /\ UNCHANGED <<worldVars, canceled, runVars, replanned, announcer>>

(* One watch event: the next entry of the log.                             *)
Deliver(g) ==
  LET p == pumps[g]
      v == p.version + 1
      there == [o \in Objects |-> log[v].health]
  IN /\ p.at = "follow"
     /\ v <= Len(log)
     /\ pumps' = [pumps EXCEPT ![g].version = v]
     /\ MarkRows({n \in p.names : n[1] = log[v].obj}, there)
     /\ UNCHANGED <<worldVars, canceled, runVars, replanned, announcer>>

(* The watch cannot be opened, or ends with an error event.                *)
WatchFails(g) ==
  /\ pumps[g].at = "follow"
  /\ net = "flaky"
  /\ pumps' = [pumps EXCEPT ![g].at = "failed"]
  /\ UNCHANGED <<worldVars, canceled, runVars, viewVars, replanned, announcer>>

(* Its context is canceled: follow is winding up, or the session ends.     *)
PumpCanceled(g) ==
  /\ pumps[g].at \in Running
  /\ at = "wind" \/ canceled
  /\ pumps' = [pumps EXCEPT ![g].at = "failed"]
  /\ UNCHANGED <<worldVars, canceled, runVars, viewVars, replanned, announcer>>

-----------------------------------------------------------------------------
(* announce.                                                               *)

Announce ==
  /\ announcer = "waiting"
  /\ dirty
  /\ dirty' = FALSE
  /\ unseen' = FALSE
  /\ announcer' = "resting"
  /\ UNCHANGED <<worldVars, canceled, runVars, rows, phase, pumps, replanned>>

(* The request that came during the rest is thrown away.                   *)
BugRestDrains ==
  /\ announcer = "resting"
  /\ announcer' = "waiting"
  /\ dirty' = FALSE
  /\ UNCHANGED <<worldVars, canceled, runVars, rows, phase, unseen, pumps, replanned>>

Rested ==
  /\ announcer = "resting"
  /\ announcer' = "waiting"
  /\ UNCHANGED <<worldVars, canceled, runVars, viewVars, pumps, replanned>>

AnnouncerEnds ==
  /\ announcer # "ended"
  /\ canceled
  /\ announcer' = "ended"
  /\ UNCHANGED <<worldVars, canceled, runVars, viewVars, pumps, replanned>>

-----------------------------------------------------------------------------

RunStep ==
  \/ Wake \/ Declare \/ Connect \/ FollowFails \/ FollowReplanned \/ FollowCanceled
  \/ WindUp \/ Unpark

PumpStep(g) == List(g) \/ Deliver(g) \/ WatchFails(g) \/ PumpCanceled(g)

AnnouncerStep == Announce \/ Rested \/ AnnouncerEnds

Next ==
  \/ Edit \/ Refresh \/ Settles \/ Stop
  \/ \E o \in Objects, h \in {"NotFound", "Current"} : ClusterChanges(o, h)
  \/ RunStep \/ AnnouncerStep
  \/ \E g \in Groups : PumpStep(g)

Spec == Init /\ [][Next]_vars

(* Goroutines and timers run on, the watcher passes file events to Refresh *)
(* and the network settles in the end; nobody has to edit or stop.  On a   *)
(* steady network every step uses up an edit, a change, a request or a     *)
(* phase of a cycle, so fairness of all of them together will do.          *)
SessionRuns == Refresh \/ RunStep \/ AnnouncerStep \/ \E g \in Groups : PumpStep(g)

Fairness == WF_vars(Settles) /\ WF_vars(SessionRuns)

FairSpec == Spec /\ Fairness

-----------------------------------------------------------------------------
(* Properties.                                                             *)

(* A row shows the verdict on its own object.  Pumps mark rows by number,  *)
(* so the numbers must mean the same objects to the plan, to the pumps and *)
(* to the rows, across rebuilds and with kinds the cluster does not serve. *)
VerdictBelongsToRow == \A i \in DOMAIN rows : rows[i].of = rows[i].obj

(* No edit is forgotten: a plan, running or parked, that nobody has been   *)
(* asked to review is what the checkout declares, however edits, file      *)
(* events, the one-place replan channel and the reading of the checkout    *)
(* interleave.                                                             *)
NoEditForgotten ==
  (at \in {"connect", "follow", "park"} /\ ~replanned /\ ~fileEvent) => planned = checkout

(* A change of what the panel shows is always announced: the one-place     *)
(* channel and the rate limit never lose the last one.                     *)
ChangesAnnounced == unseen ~> (~unseen \/ canceled)

(* Editing is never lost: however an edit, its file event and a rebuild    *)
(* interleave, the panel ends up showing the objects the checkout declares *)
(* and, for each that could be listed, what the cluster says of it.        *)
Readable(i) == \E g \in Groups :
  pumps[g].at # "parked" /\ \E n \in pumps[g].names : n[2] = i

UpToDate ==
  /\ {rows[i].obj : i \in DOMAIN rows} = checkout
  /\ \A i \in DOMAIN rows : Readable(i) => rows[i].health = HealthAt(rows[i].obj, Len(log))

PanelCatchesUp == <>(canceled \/ []UpToDate)

(* Stop "waits for its run loop": the run loop always ends.                *)
StopReturns == canceled ~> at = "done"
=============================================================================
