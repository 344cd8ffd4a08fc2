---------------------------- MODULE HealthPanel ----------------------------
(***************************************************************************)
(* The health section of the panel (frontend lib/useHealth.ts,             *)
(* lib/health.ts, lib/events.ts): the state of the objects the open        *)
(* manifest declares, read from a watch the first read starts, and read    *)
(* again whenever the event channel says it may have moved.                *)
(***************************************************************************)
EXTENDS Naturals, Window

CONSTANTS
  Manifests,  \* the manifests of a checkout that can be opened
  MaxLooks,   \* bound: what the user opens
  MaxMoves    \* bound: how often a manifest's objects change state

Places    == [project : Projects, rel : Manifests]
Snapshots == [of : Places, rows : Nat]

ASSUME HealthAssumption ==
  /\ None \notin Manifests \cup Places /\ None \notin Snapshots
  /\ MaxLooks \in Nat /\ MaxMoves \in Nat

VARIABLES
  openRoot,    \* root: the project on screen, or None
  target,      \* target: the place asked about; no project while no file is open
  snapshot,    \* the answer on screen with the place it was asked for, or None
  healthError, \* the place whose failed read is on screen, or None
  asked,       \* the read in flight: its place, or None, and its answer
  again,       \* stale: another read is wanted after this one
  channel,     \* the event socket is registered
  notice,      \* a health event is queued on it
  health,      \* health[p][f]: how often the objects of f have changed state
  watched,     \* the places a read has put under watch
  unsaid,      \* projects with a change no event has told of
  unheard,     \* history: the last event for the project never reached it
  looks        \* places opened so far

healthVars == <<openRoot, target, snapshot, healthError, asked, again, channel, notice,
                health, watched, unsaid, unheard, looks>>

watchVars == <<health, watched, unsaid>>
eventVars == <<channel, notice, unheard>>

Nowhere == [project |-> None, rel |-> None]
Asleep  == [place |-> Nowhere, answer |-> None]
Ask(at) == [place |-> at, answer |-> None]

HealthInit ==
  /\ openRoot = None /\ target = Nowhere /\ snapshot = None /\ healthError = None
  /\ asked = Asleep /\ again = FALSE
  /\ channel = FALSE /\ notice = FALSE /\ unheard = FALSE
  /\ health = [p \in Projects |-> [f \in Manifests |-> 0]] /\ watched = {} /\ unsaid = {}
  /\ looks = 0

-----------------------------------------------------------------------------

(* read: one in flight and one queued behind it; with no file open it ends *)
(* before it asks.                                                         *)
readHealth(at) ==
  IF asked # Asleep THEN again' = TRUE /\ UNCHANGED <<asked, unheard>>
  ELSE /\ again' = FALSE
       /\ IF at.project = None THEN UNCHANGED <<asked, unheard>>
          ELSE asked' = Ask(at) /\ unheard' = FALSE

(* Another project, or another file of it, or none; a new project has an   *)
(* event socket of its own.                                                *)
Look(p, f) ==
  LET at == IF f = None THEN Nowhere ELSE [project |-> p, rel |-> f]
  IN  /\ looks < MaxLooks /\ looks' = looks + 1
      /\ (p = None) => (f = None)
      /\ p # openRoot \/ at # target
      /\ openRoot' = p
      /\ target' = at /\ snapshot' = None /\ healthError' = None
      /\ IF at.project = None THEN UNCHANGED <<asked, again, unheard>> ELSE readHealth(at)
      /\ channel' = (channel /\ p = openRoot) /\ notice' = (notice /\ p = openRoot)
      /\ UNCHANGED watchVars

(* KubeHealth: the place is put under watch, and answered from the session. *)
AnswerHealth ==
  /\ asked.place.project # None /\ asked.answer = None
  /\ \/ /\ asked' = [asked EXCEPT !.answer = health[asked.place.project][asked.place.rel]]
        /\ watched' = watched \cup {asked.place}
     \/ /\ asked' = [asked EXCEPT !.answer = Failed]
        /\ UNCHANGED watched
  /\ UNCHANGED <<openRoot, target, snapshot, healthError, again, eventVars, health, unsaid, looks>>

(* Variants named Bug... are the definitions after them with a plausible   *)
(* mistake: here only the project of the answer is looked at.              *)
BugCurrent(at) == at.project = target.project

(* current: the selection has not moved since the question was asked.        *)
isCurrent(at) == at = target

(* ask's second half: the answer is shown if it is still wanted.           *)
show ==
  IF ~isCurrent(asked.place) THEN UNCHANGED <<snapshot, healthError>>
  ELSE IF asked.answer = Failed
       THEN healthError' = asked.place /\ UNCHANGED snapshot
       ELSE snapshot' = [of |-> asked.place, rows |-> asked.answer] /\ healthError' = None

DeliverHealth ==
  /\ asked.answer # None
  /\ show
  /\ again' = FALSE
  /\ asked' = IF again /\ target.project # None THEN Ask(target) ELSE Asleep
  /\ unheard' = (unheard /\ ~(again /\ target.project # None))
  /\ UNCHANGED <<openRoot, target, channel, notice, watchVars, looks>>

-----------------------------------------------------------------------------
(* The event channel; a health event names the checkout and nothing else.  *)

RegisterHealth ==
  /\ openRoot # None /\ ~channel
  /\ channel' = TRUE
  /\ UNCHANGED <<openRoot, target, snapshot, healthError, asked, again, notice, unheard, watchVars, looks>>

PublishHealth(p) ==
  /\ p \in unsaid
  /\ unsaid' = unsaid \ {p}
  /\ notice'  = (notice \/ (p = openRoot /\ channel))
  /\ unheard' = (unheard \/ (p = openRoot /\ ~channel))
  /\ UNCHANGED <<openRoot, target, snapshot, healthError, asked, again, channel, health, watched, looks>>

(* The event is evicted from a full connection queue; the resync that      *)
(* reports it has no handler here.                                         *)
EvictHealth ==
  /\ notice
  /\ notice' = FALSE /\ unheard' = TRUE
  /\ UNCHANGED <<openRoot, target, snapshot, healthError, asked, again, channel, watchVars, looks>>

onHealth ==
  /\ notice
  /\ notice' = FALSE
  /\ readHealth(target)
  /\ UNCHANGED <<openRoot, target, snapshot, healthError, channel, watchVars, looks>>

(* A watch sees an object of the manifest change state.                    *)
Observe(at) ==
  /\ at \in watched /\ health[at.project][at.rel] < MaxMoves
  /\ health' = [health EXCEPT ![at.project][at.rel] = @ + 1]
  /\ unsaid' = unsaid \cup {at.project}
  /\ UNCHANGED <<openRoot, target, snapshot, healthError, asked, again, eventVars, watched, looks>>

HealthNext ==
  \/ \E p \in Projects \cup {None}, f \in Manifests \cup {None} : Look(p, f)
  \/ AnswerHealth \/ DeliverHealth \/ onHealth \/ RegisterHealth \/ EvictHealth
  \/ \E p \in Projects : PublishHealth(p)
  \/ \E at \in Places : Observe(at)

HealthSpec == HealthInit /\ [][HealthNext]_healthVars

-----------------------------------------------------------------------------
(* Properties.                                                             *)

HealthTypeOK ==
  /\ openRoot \in Projects \cup {None} /\ target \in Places \cup {Nowhere}
  /\ snapshot \in Snapshots \cup {None}
  /\ healthError \in Places \cup {None}
  /\ asked \in [place : Places, answer : Nat \cup {None, Failed}] \cup {Asleep}
  /\ again \in BOOLEAN /\ channel \in BOOLEAN /\ notice \in BOOLEAN /\ unheard \in BOOLEAN
  /\ health \in [Projects -> [Manifests -> Nat]]
  /\ watched \subseteq Places /\ unsaid \subseteq Projects /\ looks \in Nat

(* The rows and the failure on screen are those of the manifest on screen, *)
(* however late an answer comes: anything else "would put one cluster's    *)
(* object states under another cluster's name" (ask's comment).            *)
HealthIsOwn ==
  /\ snapshot # None => snapshot.of = target
  /\ healthError \in {None, target}

(* Once the window is quiet the rows on screen are what the watch last saw *)
(* of the manifest on screen, unless the read failed or the last event     *)
(* never reached the window.                                               *)
QuietHealthIsCurrent ==
  (/\ target # Nowhere /\ asked = Asleep /\ ~notice /\ ~unheard
   /\ target.project \notin unsaid /\ healthError = None)
     => snapshot # None /\ snapshot.rows = health[target.project][target.rel]
=============================================================================
