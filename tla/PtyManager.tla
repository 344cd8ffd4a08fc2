----------------------------- MODULE PtyManager -----------------------------
(***************************************************************************)
(* The registry of PTY sessions (internal/pty/manager.go), called from     *)
(* many goroutines at once: Create for each new tab, Kill from the stream  *)
(* handlers, Shutdown when the window closes.  Each session is the one     *)
(* Create call that makes it.  What PtySession says of one session is      *)
(* abstracted here to its child being alive or reaped.                     *)
(***************************************************************************)
EXTENDS Naturals, FiniteSets

CONSTANT Sessions   \* the Create calls that get as far as a started child

VARIABLES
  create,    \* create[s]: "idle", "started", "registered" or "returned"
  lastID,    \* m.lastID
  id,        \* id[s]: the identifier the session was registered under
  registry,  \* m.sessions
  child,     \* child[s]: "none", "alive" or "reaped"
  killing,   \* killing[s]: who is inside s.kill: "none", "Kill", "Shutdown"
  killed,    \* killed[s]: that call of s.kill has returned
  shutdown,  \* "no", "waiting" for its kills, or "returned"
  batch      \* the sessions Shutdown took from the registry

vars == <<create, lastID, id, registry, child, killing, killed, shutdown, batch>>

TypeOK ==
  /\ create \in [Sessions -> {"idle", "started", "registered", "returned"}]
  /\ lastID \in Nat
  /\ id \in [Sessions -> 0 .. lastID]
  /\ registry \in SUBSET Sessions
  /\ child \in [Sessions -> {"none", "alive", "reaped"}]
  /\ killing \in [Sessions -> {"none", "Kill", "Shutdown"}]
  /\ killed \in [Sessions -> BOOLEAN]
  /\ shutdown \in {"no", "waiting", "returned"}
  /\ batch \in SUBSET Sessions

Init ==
  /\ create = [s \in Sessions |-> "idle"]
  /\ lastID = 0
  /\ id = [s \in Sessions |-> 0]
  /\ registry = {}
  /\ child = [s \in Sessions |-> "none"]
  /\ killing = [s \in Sessions |-> "none"]
  /\ killed = [s \in Sessions |-> FALSE]
  /\ shutdown = "no"
  /\ batch = {}

-----------------------------------------------------------------------------
(* Create: start the child, register the session, start its goroutine.     *)

StartChild(s) ==
  /\ create[s] = "idle"
  /\ create' = [create EXCEPT ![s] = "started"]
  /\ child' = [child EXCEPT ![s] = "alive"]
  /\ UNCHANGED <<lastID, id, registry, killing, killed, shutdown, batch>>

Register(s) ==
  /\ create[s] = "started"
  /\ create' = [create EXCEPT ![s] = "registered"]
  /\ lastID' = lastID + 1
  /\ id' = [id EXCEPT ![s] = lastID + 1]
  /\ registry' = registry \cup {s}
  /\ UNCHANGED <<child, killing, killed, shutdown, batch>>

GoRun(s) ==
  /\ create[s] = "registered"
  /\ create' = [create EXCEPT ![s] = "returned"]
  /\ UNCHANGED <<lastID, id, registry, child, killing, killed, shutdown, batch>>

(* run: the child ends, of its own accord or killed, and is reaped.        *)
Reap(s) ==
  /\ create[s] = "returned"
  /\ child[s] = "alive"
  /\ child' = [child EXCEPT ![s] = "reaped"]
  /\ UNCHANGED <<create, lastID, id, registry, killing, killed, shutdown, batch>>

-----------------------------------------------------------------------------
(* Kill: forget the session under the lock, end its child outside it.  A   *)
(* caller naming a session that is not registered gets ErrNoSuchSession    *)
(* and changes nothing.                                                    *)

(* Variants named Bug... are the definitions after them with a plausible   *)
(* mistake: here the session is killed and stays registered.               *)
BugKillKeeps(s) ==
  /\ s \in registry
  /\ killing' = [killing EXCEPT ![s] = "Kill"]
  /\ UNCHANGED <<create, lastID, id, registry, child, killed, shutdown, batch>>

Kill(s) ==
  /\ s \in registry
  /\ registry' = registry \ {s}
  /\ killing' = [killing EXCEPT ![s] = "Kill"]
  /\ UNCHANGED <<create, lastID, id, child, killed, shutdown, batch>>

(* kill returns once the signal is sent.                                   *)
BugKillNoWait(s) ==
  /\ killing[s] # "none" /\ ~killed[s]
  /\ killed' = [killed EXCEPT ![s] = TRUE]
  /\ UNCHANGED <<create, lastID, id, registry, child, killing, shutdown, batch>>

(* Shutdown's kills never report back.                                     *)
BugKillUnreported(s) ==
  /\ killing[s] = "Kill" /\ ~killed[s]
  /\ child[s] = "reaped"
  /\ killed' = [killed EXCEPT ![s] = TRUE]
  /\ UNCHANGED <<create, lastID, id, registry, child, killing, shutdown, batch>>

(* s.kill returns once done is closed.                                     *)
KillReturns(s) ==
  /\ killing[s] # "none" /\ ~killed[s]
  /\ child[s] = "reaped"
  /\ killed' = [killed EXCEPT ![s] = TRUE]
  /\ UNCHANGED <<create, lastID, id, registry, child, killing, shutdown, batch>>

(* Shutdown: empty the registry under the lock, then kill what it held,    *)
(* concurrently, and wait for every kill.                                  *)
ShutdownBegins ==
  /\ shutdown = "no"
  /\ shutdown' = "waiting"
  /\ batch' = registry
  /\ registry' = {}
  /\ killing' = [s \in Sessions |-> IF s \in registry THEN "Shutdown" ELSE killing[s]]
  /\ UNCHANGED <<create, lastID, id, child, killed>>

ShutdownReturns ==
  /\ shutdown = "waiting"
  /\ \A s \in batch : killed[s]
  /\ shutdown' = "returned"
  /\ UNCHANGED <<create, lastID, id, registry, child, killing, killed, batch>>

-----------------------------------------------------------------------------

Next ==
  \/ \E s \in Sessions :
       StartChild(s) \/ Register(s) \/ GoRun(s) \/ Reap(s) \/ Kill(s) \/ KillReturns(s)
  \/ ShutdownBegins \/ ShutdownReturns

Spec == Init /\ [][Next]_vars

(* Goroutines run on, and a kill ends in SIGKILL (PtySession).             *)
Fairness ==
  /\ \A s \in Sessions :
       /\ WF_vars(Register(s)) /\ WF_vars(GoRun(s))
       /\ WF_vars(killing[s] # "none" /\ Reap(s)) /\ WF_vars(KillReturns(s))
  /\ WF_vars(ShutdownReturns)

FairSpec == Spec /\ Fairness

-----------------------------------------------------------------------------
(* Properties.                                                             *)

(* The ownership contract ("Nothing else removes a session from a          *)
(* Manager"): a live child always has an owner, the Create that is still   *)
(* making it, the registry, or exactly the one caller that is killing it.  *)
NoneForgotten ==
  \A s \in Sessions : child[s] = "alive" =>
    \/ create[s] = "started" /\ s \notin registry /\ killing[s] = "none"
    \/ s \in registry /\ killing[s] = "none"
    \/ s \notin registry /\ killing[s] # "none" /\ ~killed[s]

(* Identifiers are never reused, so a late message for a session that was  *)
(* killed cannot reach another one.                                        *)
IdsUnique ==
  \A s, t \in Sessions : (id[s] # 0 /\ id[s] = id[t]) => s = t

(* Kill and Shutdown return only when the children they took are reaped,   *)
(* whichever of the two got to a session first.                            *)
ReturnedMeansReaped ==
  /\ \A s \in Sessions : killed[s] => child[s] = "reaped"
  /\ shutdown = "returned" => \A s \in batch : child[s] = "reaped"

(* Shutdown is not held up for ever by any child.                          *)
ShutdownEnds == shutdown = "waiting" ~> shutdown = "returned"

(* Shutdown's comment: it is "the reason closing m6t does not leave        *)
(* orphaned shells behind".  Once it has returned no child is alive.       *)
NoOrphanedShells == shutdown = "returned" => \A s \in Sessions : child[s] # "alive"
=============================================================================
