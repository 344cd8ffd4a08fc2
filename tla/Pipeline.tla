------------------------------ MODULE Pipeline ------------------------------
(***************************************************************************)
(* The diff, confirm and apply pipeline (frontend lib/usePipeline.ts,      *)
(* lib/pipeline.ts, components/PipelineDialog.tsx, over                    *)
(* internal/app/kube.go): read-only steps, a question, one mutation.       *)
(* Every step is a call that is aimed by the registry when it is made, and *)
(* its answer may come after the dialog, or the project, has gone.         *)
(***************************************************************************)
EXTENDS Binding

CONSTANTS
  RUN_LOG_LIMIT, \* how many runs a project's log keeps
  MaxRebinds,    \* bound: changes of the bindings meanwhile
  MaxGenerations \* bound: starts, confirms, closes and project switches

ASSUME PipelineAssumption ==
  RUN_LOG_LIMIT \in Nat /\ MaxRebinds \in Nat /\ MaxGenerations \in Nat

VARIABLES
  bound,      \* projects.yaml: the bindings of every project
  rebinds,    \* changes of it so far
  project,    \* the project on screen, or None
  run,        \* the open run, or None
  generation, \* which run an answer belongs to
  previews,   \* the read-only steps under way
  mutating,   \* the mutations under way
  logs,       \* logs[p]: the runs of this session, newest first
  mutated     \* history: the mutations that reached a cluster

pipelineVars == <<bound, rebinds, project, run, generation, previews, mutating, logs, mutated>>

registryVars == <<bound, rebinds>>

PipelineInit ==
  /\ bound = Stored /\ rebinds = 0
  /\ project = None /\ run = None /\ generation = 0
  /\ previews = {} /\ mutating = {}
  /\ logs = [p \in Projects |-> <<>>] /\ mutated = {}

-----------------------------------------------------------------------------
(* The rules (pipeline.ts, and confirm of kube.go).                        *)

guarded(b) == b.protected

authorized(b, typed) == ~guarded(b) \/ typed = b.context

(* The one condition in front of a mutation, before any process exists.    *)
confirmed(b, typed) == ~b.protected \/ typed = b.context

blocks(exit) == exit # "ok"

logged(m) ==
  LET log == <<m.id>> \o logs[m.run.project] IN
  SubSeq(log, 1, IF Len(log) < RUN_LOG_LIMIT THEN Len(log) ELSE RUN_LOG_LIMIT)

(* The binding the dialog shows, and the one a call of kubectl is given.   *)
resolveBinding(r) == Resolve(bound[r.project], r.path)

(* Variants named Bug... are the definitions after them with a plausible   *)
(* mistake: here a call goes where the project as a whole is bound.        *)
BugAim(r) == Resolve(bound[r.project], ROOT)

aim(r) == resolveBinding(r)

(* The answer of a run that is no longer the open one is shown.            *)
BugBelongs(id) == TRUE

belongs(id) == id = generation

NextGeneration == generation < MaxGenerations /\ generation' = generation + 1

-----------------------------------------------------------------------------

Actions == {"apply", "delete", "diff"}

(* Of a run, asOf and aims are history: how often the bindings had changed *)
(* when its own was resolved, and where its dry run and diff were aimed.   *)
opening(p, path, action) ==
  [project |-> p, path |-> path, action |-> action, phase |-> "previewing",
   binding |-> UNBOUND, passed |-> FALSE, asOf |-> 0, aims |-> {}]

(* Another project: whatever is open is closed.                            *)
SwitchProject(p) ==
  /\ NextGeneration /\ p # project
  /\ project' = p
  /\ run' = None
  /\ UNCHANGED <<registryVars, previews, mutating, logs, mutated>>

(* Offered on the rows of a project that the strip's copy, read at launch  *)
(* or since, says is bound somewhere; the dialog is modal.                 *)
start(path, action) ==
  /\ NextGeneration /\ run = None
  /\ project # None /\ \E copy \in {Stored[project], bound[project]} : hasBinding(copy)
  /\ run' = opening(project, path, action)
  /\ previews' = previews \cup {[id |-> generation', run |-> run', step |-> "binding"]}
  /\ UNCHANGED <<registryVars, project, mutating, logs, mutated>>

(* One read-only step: the binding, the dry run that may block, the diff.  *)
previewed(v, exit) ==
  LET r == v.run IN
  IF exit = Failed THEN [opening(r.project, r.path, r.action) EXCEPT !.phase = "blocked"]
  ELSE CASE v.step = "binding" -> [r EXCEPT !.binding = resolveBinding(r), !.asOf = rebinds]
         [] v.step = "check"   -> [r EXCEPT !.passed = exit = "ok", !.aims = @ \cup {aim(r)},
                                            !.phase = IF blocks(exit) THEN "blocked"
                                                      ELSE IF r.action = "delete" THEN "ready" ELSE @]
         [] v.step = "diff"    -> [r EXCEPT !.phase = "ready", !.aims = @ \cup {aim(r)}]

nextStep(v) == IF v.step = "binding" /\ v.run.action # "diff" THEN "check" ELSE "diff"

(* kubectl is not run for a path that is not bound.                        *)
exits(v) ==
  IF v.step = "binding" THEN {"ok", Failed}
  ELSE IF isBound(aim(v.run)) THEN {"ok", "refused", Failed} ELSE {Failed}

preview(v) ==
  /\ v.run.phase = "previewing"
  /\ \E exit \in exits(v) :
       previews' = (previews \ {v}) \cup
         {[v EXCEPT !.run = previewed(v, exit), !.step = nextStep(v)]}
  /\ UNCHANGED <<registryVars, project, run, generation, mutating, logs, mutated>>

DeliverPreview(v) ==
  /\ v.run.phase # "previewing"
  /\ previews' = previews \ {v}
  /\ run' = IF belongs(v.id) THEN v.run ELSE run
  /\ UNCHANGED <<registryVars, project, generation, mutating, logs, mutated>>

confirm(typed) ==
  /\ NextGeneration
  /\ run # None /\ run.phase = "ready" /\ run.action # "diff" /\ authorized(run.binding, typed)
  /\ run' = [run EXCEPT !.phase = "running"]
  /\ mutating' = mutating \cup {[id |-> generation', run |-> run, typed |-> typed, outcome |-> None]}
  /\ UNCHANGED <<registryVars, project, previews, logs, mutated>>

(* KubeApply and KubeDelete: aim, confirm, and only then a process.        *)
mutate(m) ==
  /\ m.outcome = None
  /\ LET where == aim(m.run)
         may   == confirmed(where, m.typed) /\ isBound(where)
     IN  /\ \E exit \in IF may THEN {"ok", "refused"} ELSE {Failed} :
              mutating' = (mutating \ {m}) \cup {[m EXCEPT !.outcome = exit]}
         /\ mutated' = IF may THEN mutated \cup {[id |-> m.id, run |-> m.run, where |-> where, asOf |-> rebinds]}
                       ELSE mutated
  /\ UNCHANGED <<registryVars, project, run, generation, previews, logs>>

DeliverMutation(m) ==
  /\ m.outcome # None
  /\ mutating' = mutating \ {m}
  /\ logs' = [logs EXCEPT ![m.run.project] = logged(m)]
  /\ run' = IF belongs(m.id) THEN [m.run EXCEPT !.phase = "done"] ELSE run
  /\ UNCHANGED <<registryVars, project, generation, previews, mutated>>

closeRun ==
  /\ NextGeneration
  /\ run # None /\ run.phase # "running"
  /\ run' = None
  /\ UNCHANGED <<registryVars, project, previews, mutating, logs, mutated>>

(* The bindings change: by hand, or by a write of the panel (ClusterPanel) *)
(* that was still under way.                                               *)
Rebind(p, f) ==
  /\ rebinds < MaxRebinds /\ f # ROOT
  /\ rebinds' = rebinds + 1
  /\ \E form \in Forms : bound' = [bound EXCEPT ![p].scopes[f] = form]
  /\ UNCHANGED <<project, run, generation, previews, mutating, logs, mutated>>

-----------------------------------------------------------------------------

PipelineNext ==
  \/ \E p \in Projects \cup {None} : SwitchProject(p)
  \/ \E path \in Folders, action \in Actions : start(path, action)
  \/ \E v \in previews : preview(v) \/ DeliverPreview(v)
  \/ \E typed \in Contexts \cup {Unset} : confirm(typed)
  \/ \E m \in mutating : mutate(m) \/ DeliverMutation(m)
  \/ closeRun
  \/ \E p \in Projects, f \in Folders : Rebind(p, f)

PipelineSpec == PipelineInit /\ [][PipelineNext]_pipelineVars

-----------------------------------------------------------------------------
(* Properties.                                                             *)

IsRun(r) ==
  r \in [project : Projects, path : Folders, action : Actions, passed : BOOLEAN, binding : {r.binding},
         phase : {"previewing", "blocked", "ready", "running", "done"}, asOf : Nat, aims : {r.aims}]

IsPreview(v) == v \in [id : Nat, run : {v.run}, step : {"binding", "check", "diff"}] /\ IsRun(v.run)

IsMutation(m) ==
  m \in [id : Nat, run : {m.run}, typed : {m.typed}, outcome : {m.outcome}] /\ IsRun(m.run)

PipelineTypeOK ==
  /\ project \in Projects \cup {None} /\ generation \in Nat /\ rebinds \in Nat
  /\ run # None => IsRun(run)
  /\ \A v \in previews : IsPreview(v)
  /\ \A m \in mutating : IsMutation(m)
  /\ logs \in [Projects -> Seq(Nat)]

(* A mutation reaches the place its dialog named and its dry run and diff  *)
(* were asked about: each of the four calls resolves its own target, and   *)
(* they agree as long as nobody changes the bindings in between            *)
(* (resolveBinding beside aim, whose comments ask for it).  When somebody  *)
(* does, it may go elsewhere than was shown, but from one protected        *)
(* cluster to another never: both names would have to be the typed one     *)
(* (authorized, and confirm of kube.go).                                   *)
MutatesWhatWasShown ==
  \A m \in mutated :
    /\ m.run.passed
    /\ m.asOf = m.run.asOf => m.where = m.run.binding /\ m.run.aims = {m.where}
    /\ m.run.binding.protected /\ m.where.protected => m.where.context = m.run.binding.context

(* The open run is of the project on screen, and one the user can confirm  *)
(* has passed its dry run, however late previews and outcomes arrive.      *)
RunIsOwn ==
  run # None => /\ run.project = project
                /\ run.phase = "ready" /\ run.action # "diff" => run.passed

(* Every mutation that reached a cluster has its row in the project's log  *)
(* once its call has answered, whether or not its dialog is still open.    *)
EveryMutationLogged ==
  \A m \in mutated : \/ m.id \in Range(logs[m.run.project])
                     \/ Len(logs[m.run.project]) = RUN_LOG_LIMIT
                     \/ \E c \in mutating : c.id = m.id
=============================================================================
