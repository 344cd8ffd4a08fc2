---------------------------- MODULE Panels_proofs ----------------------------
(***************************************************************************)
(* Proofs about the panels of the window that act on the outside: the      *)
(* cluster panel's binding and the runs of the pipeline, for any projects, *)
(* folders, bindings, number of runs and changes of the registry; and the  *)
(* terminal panel, for any number of projects, tabs, panes, resyncs and    *)
(* keystrokes.                                                             *)
(***************************************************************************)
EXTENDS ClusterPanel, Pipeline, TerminalTabs, SequenceTheorems, TLAPS

-----------------------------------------------------------------------------
(* Pipeline.                                                               *)

(* What the EXCEPTs of the model make of a run, a preview, a mutation.     *)
LEMMA RunFields ==
  ASSUME NEW r, IsRun(r), NEW a, NEW b, NEW c
  PROVE  /\ [r EXCEPT !.phase = a]
              \in [project : {r.project}, path : {r.path}, action : {r.action}, passed : {r.passed},
                   binding : {r.binding}, phase : {a}, asOf : {r.asOf}, aims : {r.aims}]
         /\ [r EXCEPT !.passed = b, !.aims = c, !.phase = a]
              \in [project : {r.project}, path : {r.path}, action : {r.action}, passed : {b},
                   binding : {r.binding}, phase : {a}, asOf : {r.asOf}, aims : {c}]
         /\ [r EXCEPT !.phase = a, !.aims = c]
              \in [project : {r.project}, path : {r.path}, action : {r.action}, passed : {r.passed},
                   binding : {r.binding}, phase : {a}, asOf : {r.asOf}, aims : {c}]
         /\ [r EXCEPT !.binding = c, !.asOf = a]
              \in [project : {r.project}, path : {r.path}, action : {r.action}, passed : {r.passed},
                   binding : {c}, phase : {r.phase}, asOf : {a}, aims : {r.aims}]
BY DEF IsRun

LEMMA PreviewFields ==
  ASSUME NEW v, IsPreview(v), NEW r, NEW s
  PROVE  [v EXCEPT !.run = r, !.step = s] \in [id : {v.id}, run : {r}, step : {s}]
BY DEF IsPreview

LEMMA MutationFields ==
  ASSUME NEW m, IsMutation(m), NEW o
  PROVE  [m EXCEPT !.outcome = o] \in [id : {m.id}, run : {m.run}, typed : {m.typed}, outcome : {o}]
BY DEF IsMutation

(* What was resolved is what the path resolves to by the bindings b, and   *)
(* where every step was aimed, if they have not changed since (n).         *)
Resolved(r, b, n) ==
  r.asOf <= n /\ (r.asOf = n => r.binding = Resolve(b[r.project], r.path) /\ r.aims \subseteq {r.binding})

(* How far a preview has come, and what it has seen by then.               *)
PreviewKnows(v, b, n) ==
  /\ v.run.phase \in {"previewing", "blocked", "ready"}
  /\ v.step = "binding" => v.run.aims = {}
  /\ v.run.phase # "blocked" =>
       /\ v.step # "binding" => Resolved(v.run, b, n)
       /\ v.run.phase = "ready" => v.run.aims # {}
       /\ v.run.action # "diff" /\ (v.step = "diff" \/ v.run.phase = "ready") => v.run.passed

(* A read-only step leaves what a run is about alone, and only lets it be  *)
(* confirmed behind a dry run that passed, of the place the dialog names.  *)
LEMMA PreviewedRun ==
  ASSUME NEW v, IsPreview(v), v.run.phase = "previewing", NEW exit, rebinds \in Nat
  PROVE  LET w == [v EXCEPT !.run = previewed(v, exit), !.step = nextStep(v)] IN
         /\ IsPreview(w) /\ w.id = v.id /\ w.run.project = v.run.project
         /\ PreviewKnows(v, bound, rebinds) => PreviewKnows(w, bound, rebinds)
<1> DEFINE r == previewed(v, exit)
           w == [v EXCEPT !.run = r, !.step = nextStep(v)]
           Known == PreviewKnows(v, bound, rebinds)
           aims == v.run.aims \cup {aim(v.run)}
           (* What each step makes of the run.                              *)
           Good == /\ IsRun(r) /\ r.project = v.run.project /\ r.action = v.run.action
                   /\ r.phase \in {"previewing", "blocked", "ready"}
                   /\ Known /\ r.phase # "blocked" =>
                        /\ Resolved(r, bound, rebinds) /\ (r.phase = "ready" => r.aims # {})
                        /\ r.action # "diff" /\ (v.step # "binding" \/ r.phase = "ready") => r.passed
<1>1. IsRun(v.run) /\ v.step \in {"binding", "check", "diff"} /\ v.id \in Nat
  BY DEF IsPreview
<1>2. nextStep(v) \in {"check", "diff"} /\ (nextStep(v) = "diff" /\ v.run.action # "diff" => v.step # "binding")
  BY <1>1 DEF nextStep
<1>3. w \in [id : {v.id}, run : {r}, step : {nextStep(v)}]
  BY PreviewFields
<1>4. Known /\ v.step # "binding" => Resolved(v.run, bound, rebinds)
  BY DEF PreviewKnows
<1> HIDE DEF w
<1>5. Good => /\ IsPreview(w) /\ w.id = v.id /\ w.run.project = v.run.project
              /\ Known => PreviewKnows(w, bound, rebinds)
  <2> HIDE DEF r
  <2> SUFFICES ASSUME Good
               PROVE  /\ IsPreview(w) /\ w.id = v.id /\ w.run.project = v.run.project
                      /\ Known => PreviewKnows(w, bound, rebinds)
    OBVIOUS
  <2>1. IsPreview(w)
    BY <1>1, <1>2, <1>3 DEF IsPreview
  <2>2. Known => PreviewKnows(w, bound, rebinds)
    BY <1>2, <1>3 DEF PreviewKnows
  <2> QED BY <1>3, <2>1, <2>2
<1>6. exit = Failed => Good
  <2> SUFFICES ASSUME exit = Failed PROVE Good
    OBVIOUS
  <2>1. r = [project |-> v.run.project, path |-> v.run.path, action |-> v.run.action, phase |-> "blocked",
             binding |-> UNBOUND, passed |-> FALSE, asOf |-> 0, aims |-> {}]
    BY DEF previewed, opening
  <2> HIDE DEF r
  <2>2. IsRun(r) /\ r.project = v.run.project /\ r.action = v.run.action /\ r.phase = "blocked"
    BY <1>1, <2>1 DEF IsRun
  <2> QED BY <2>2
<1>7. exit # Failed /\ v.step = "binding" => Good
  <2> SUFFICES ASSUME exit # Failed, v.step = "binding" PROVE Good
    OBVIOUS
  <2>1. r = [v.run EXCEPT !.binding = resolveBinding(v.run), !.asOf = rebinds]
    BY DEF previewed
  <2> HIDE DEF r
  <2>2. r \in [project : {v.run.project}, path : {v.run.path}, action : {v.run.action},
               passed : {v.run.passed}, binding : {resolveBinding(v.run)}, phase : {v.run.phase},
               asOf : {rebinds}, aims : {v.run.aims}]
    BY <1>1, <2>1, RunFields
  <2>3. Known => v.run.aims = {}
    BY DEF PreviewKnows
  <2>4. IsRun(r)
    BY <1>1, <2>2 DEF IsRun
  <2>5. Known => Resolved(r, bound, rebinds)
    BY <2>2, <2>3 DEF Resolved, resolveBinding
  <2> QED BY <2>2, <2>4, <2>5
<1>8. ASSUME Known, v.step # "binding", r.project = v.run.project, r.path = v.run.path, r.asOf = v.run.asOf,
             r.binding = v.run.binding, r.aims = aims
      PROVE  Resolved(r, bound, rebinds)
  <2> HIDE DEF r
  <2> QED BY <1>4, <1>8 DEF Resolved, aim, resolveBinding
<1>9. exit # Failed /\ v.step = "check" => Good
  <2> SUFFICES ASSUME exit # Failed, v.step = "check" PROVE Good
    OBVIOUS
  <2> DEFINE passes == exit = "ok"
             phase  == IF blocks(exit) THEN "blocked" ELSE IF v.run.action = "delete" THEN "ready" ELSE "previewing"
  <2>1. r = [v.run EXCEPT !.passed = passes, !.aims = aims, !.phase = phase]
    BY DEF previewed
  <2>2. phase \in {"previewing", "blocked", "ready"} /\ (phase # "blocked" => passes)
    BY DEF blocks
  <2>3. passes \in BOOLEAN /\ aims # {}
    OBVIOUS
  <2> HIDE DEF passes, phase, r, aims
  <2>4. r \in [project : {v.run.project}, path : {v.run.path}, action : {v.run.action},
               passed : {passes}, binding : {v.run.binding}, phase : {phase},
               asOf : {v.run.asOf}, aims : {aims}]
    BY <1>1, <2>1, RunFields, ZenonT(60)
  <2>5. IsRun(r)
    BY <1>1, <2>2, <2>3, <2>4 DEF IsRun
  <2>6. Known => Resolved(r, bound, rebinds)
    BY <1>8, <2>4
  <2>7. r.project = v.run.project /\ r.action = v.run.action /\ r.phase = phase /\ r.aims = aims /\ r.passed = passes
    BY <2>4
  <2> HIDE DEF Known
  <2> QED BY <2>2, <2>3, <2>5, <2>6, <2>7
<1>10. exit # Failed /\ v.step = "diff" => Good
  <2> SUFFICES ASSUME exit # Failed, v.step = "diff" PROVE Good
    OBVIOUS
  <2>1. r = [v.run EXCEPT !.phase = "ready", !.aims = aims]
    BY DEF previewed
  <2>2. aims # {} /\ (Known /\ v.run.action # "diff" => v.run.passed)
    BY DEF PreviewKnows
  <2> HIDE DEF r, aims
  <2>3. r \in [project : {v.run.project}, path : {v.run.path}, action : {v.run.action},
               passed : {v.run.passed}, binding : {v.run.binding}, phase : {"ready"},
               asOf : {v.run.asOf}, aims : {aims}]
    BY <1>1, <2>1, RunFields, ZenonT(60)
  <2>4. IsRun(r)
    BY <1>1, <2>3 DEF IsRun
  <2>5. Known => Resolved(r, bound, rebinds)
    BY <1>8, <2>3
  <2>6. r.project = v.run.project /\ r.action = v.run.action /\ r.phase = "ready" /\ r.aims = aims
        /\ r.passed = v.run.passed
    BY <2>3
  <2> HIDE DEF Known
  <2> QED BY <2>2, <2>4, <2>5, <2>6
<1>11. Good
  BY <1>1, <1>6, <1>7, <1>9, <1>10
<1> QED BY <1>5, <1>11 DEF w

(* logged keeps the newest runs: a log of identifiers, with the new one and*)
(* all of the old ones unless it is full.                                  *)
LEMMA LoggedKeeps ==
  ASSUME NEW m, m.id \in Nat, logs[m.run.project] \in Seq(Nat)
  PROVE  /\ logged(m) \in Seq(Nat)
         /\ \/ Len(logged(m)) = RUN_LOG_LIMIT
            \/ Range(logged(m)) = {m.id} \cup Range(logs[m.run.project])
<1> DEFINE old == logs[m.run.project]
           log == <<m.id>> \o old
<1>1. log \in Seq(Nat) /\ Len(log) = 1 + Len(old)
  BY ConcatProperties
<1>2. Range(log) = {m.id} \cup Range(old)
  <2>1. /\ log[1] = m.id
        /\ \A i \in 1 .. Len(old) : log[i + 1] = old[i]
    BY ConcatProperties
  <2>2. DOMAIN log = 1 .. 1 + Len(old) /\ DOMAIN old = 1 .. Len(old)
    BY <1>1
  <2> HIDE DEF old, log
  <2>3. \A x \in DOMAIN log : log[x] \in {m.id} \cup Range(old)
    <3> SUFFICES ASSUME NEW x \in DOMAIN log, x # 1 PROVE log[x] \in Range(old)
      BY <2>1
    <3>1. x - 1 \in DOMAIN old /\ log[x] = old[x - 1]
      BY <2>1, <2>2, <1>1
    <3> QED BY <3>1 DEF Range
  <2>4. 1 \in DOMAIN log /\ \A x \in DOMAIN old : x + 1 \in DOMAIN log
    BY <2>2 DEF old
  <2>5. \A x \in DOMAIN old : log[x + 1] = old[x]
    BY <2>1, <2>2
  <2> QED BY <2>1, <2>3, <2>4, <2>5 DEF Range
<1> HIDE DEF log
<1>3. CASE Len(log) < RUN_LOG_LIMIT
  <2>1. logged(m) = log
    BY <1>1, <1>3, SubSeqFull DEF logged, log
  <2> QED BY <1>1, <1>2, <2>1
<1>4. CASE ~(Len(log) < RUN_LOG_LIMIT)
  <2>1. logged(m) = SubSeq(log, 1, RUN_LOG_LIMIT)
    BY <1>4 DEF logged, log
  <2> QED BY <1>1, <1>4, <2>1, PipelineAssumption, SubSeqProperties, SMTT(30)
<1> QED BY <1>3, <1>4

(* A full log stays full.                                                  *)
LEMMA FullStaysFull ==
  ASSUME NEW m, m.id \in Nat, logs[m.run.project] \in Seq(Nat), Len(logs[m.run.project]) = RUN_LOG_LIMIT
  PROVE  Len(logged(m)) = RUN_LOG_LIMIT
<1> DEFINE log == <<m.id>> \o logs[m.run.project]
<1>1. log \in Seq(Nat) /\ Len(log) = 1 + RUN_LOG_LIMIT
  BY ConcatProperties
<1>2. logged(m) = SubSeq(log, 1, RUN_LOG_LIMIT)
  BY <1>1, PipelineAssumption DEF logged
<1> HIDE DEF log
<1> QED BY <1>1, <1>2, PipelineAssumption, SubSeqProperties

(* Types, in every reachable state.                                        *)
THEOREM PipelineTypeCorrect == PipelineSpec => []PipelineTypeOK
<1>1. PipelineInit => PipelineTypeOK
  BY DEF PipelineInit, PipelineTypeOK
<1>2. PipelineTypeOK /\ [PipelineNext]_pipelineVars => PipelineTypeOK'
  <2> SUFFICES ASSUME PipelineTypeOK, [PipelineNext]_pipelineVars PROVE PipelineTypeOK'
    OBVIOUS
  <2> USE DEF PipelineTypeOK, registryVars, NextGeneration
  <2>1. ASSUME NEW p \in Projects \cup {None}, SwitchProject(p)
       PROVE  PipelineTypeOK'
    BY <2>1 DEF SwitchProject
  <2>2. ASSUME NEW path \in Folders, NEW action \in Actions, start(path, action)
       PROVE  PipelineTypeOK'
    <3>1. IsRun(run') /\ project \in Projects
      BY <2>2 DEF start, opening, IsRun
    <3>2. \A v \in previews' : IsPreview(v)
      BY <2>2, <3>1 DEF start, IsPreview
    <3> QED BY <2>2, <3>1, <3>2 DEF start
  <2>3. ASSUME NEW v \in previews, preview(v)
       PROVE  PipelineTypeOK'
    <3> PICK exit \in exits(v) :
          previews' = (previews \ {v}) \cup {[v EXCEPT !.run = previewed(v, exit), !.step = nextStep(v)]}
      BY <2>3 DEF preview
    <3>1. IsPreview([v EXCEPT !.run = previewed(v, exit), !.step = nextStep(v)])
      BY <2>3, PreviewedRun DEF preview
    <3> QED BY <2>3, <3>1 DEF preview, IsPreview, IsMutation, IsRun
  <2>4. ASSUME NEW v \in previews, DeliverPreview(v)
       PROVE  PipelineTypeOK'
    BY <2>4 DEF DeliverPreview, IsPreview
  <2>5. ASSUME NEW typed \in Contexts \cup {Unset}, confirm(typed)
       PROVE  PipelineTypeOK'
    <3>1. IsRun(run')
      BY <2>5, RunFields DEF confirm, IsRun
    <3>2. \A m \in mutating' : IsMutation(m)
      BY <2>5 DEF confirm, IsMutation
    <3> QED BY <2>5, <3>1, <3>2 DEF confirm
  <2>6. ASSUME NEW m \in mutating, mutate(m)
       PROVE  PipelineTypeOK'
    <3>1. \A o : IsMutation([m EXCEPT !.outcome = o])
      BY MutationFields DEF IsMutation
    <3> QED BY <2>6, <3>1 DEF mutate
  <2>7. ASSUME NEW m \in mutating, DeliverMutation(m)
       PROVE  PipelineTypeOK'
    <3>1. IsRun(m.run) /\ m.id \in Nat /\ m.run.project \in Projects
      BY DEF IsMutation, IsRun
    <3>2. logs' \in [Projects -> Seq(Nat)]
      BY <2>7, <3>1, LoggedKeeps DEF DeliverMutation
    <3>3. IsRun([m.run EXCEPT !.phase = "done"])
      BY <3>1, RunFields DEF IsRun
    <3> QED BY <2>7, <3>1, <3>2, <3>3 DEF DeliverMutation
  <2>8. CASE closeRun
    BY <2>8 DEF closeRun
  <2>9. ASSUME NEW p \in Projects, NEW f \in Folders, Rebind(p, f)
       PROVE  PipelineTypeOK'
    BY <2>9 DEF Rebind
  <2>10. CASE UNCHANGED pipelineVars
    BY <2>10 DEF pipelineVars
  <2> QED BY <2>1, <2>2, <2>3, <2>4, <2>5, <2>6, <2>7, <2>8, <2>9, <2>10 DEF PipelineNext
<1> QED BY <1>1, <1>2, PTL DEF PipelineSpec

-----------------------------------------------------------------------------
(* The invariants, strengthened: every answer under way that could still be*)
(* shown is about the project on screen, is behind its dry run, and knows  *)
(* where its path resolves to; so does every mutation under way, which the *)
(* name of a protected binding confirmed; and the calls under way are      *)
(* those of the mutations not yet logged.                                  *)

PreviewHolds(v) ==
  /\ v.id \in 0 .. generation /\ (v.id = generation => v.run.project = project)
  /\ PreviewKnows(v, bound, rebinds)

(* What a run knows when the user may confirm it.                          *)
RunKnows(r, b, n) == r.passed /\ r.aims # {} /\ Resolved(r, b, n)

OpenRunKnows == run # None /\ run.phase = "ready" /\ run.action # "diff" => RunKnows(run, bound, rebinds)

MutationHolds(m) ==
  /\ m.id \in 0 .. generation /\ (m.id = generation => m.run.project = project)
  /\ \A n \in mutated \cup mutating : n.id = m.id => n.run = m.run

Confirmed(m, b, n) == RunKnows(m.run, b, n) /\ authorized(m.run.binding, m.typed)

PipelineInv ==
  /\ RunIsOwn /\ OpenRunKnows /\ MutatesWhatWasShown /\ EveryMutationLogged
  /\ \A v \in previews : PreviewHolds(v)
  /\ \A m \in mutating : MutationHolds(m) /\ Confirmed(m, bound, rebinds)
  /\ \A n \in mutated : n.id \in 0 .. generation

(* Whatever leaves the bindings alone leaves a run what it knows; after a  *)
(* change nobody knows anything any more.                                  *)
LEMMA KnowledgeKeeps ==
  ASSUME NEW b, NEW n \in Nat, NEW c
  PROVE  /\ \A v : IsPreview(v) /\ PreviewKnows(v, b, n) => PreviewKnows(v, c, n + 1)
         /\ \A r : IsRun(r) /\ RunKnows(r, b, n) => RunKnows(r, c, n + 1)
         /\ \A m : IsMutation(m) /\ Confirmed(m, b, n) => Confirmed(m, c, n + 1)
<1>1. ASSUME NEW r, IsRun(r), Resolved(r, b, n) PROVE Resolved(r, c, n + 1)
  <2>1. r.asOf \in Nat /\ r.asOf <= n
    BY <1>1 DEF IsRun, Resolved
  <2> QED BY <2>1 DEF Resolved
<1>2. \A r : IsRun(r) /\ RunKnows(r, b, n) => RunKnows(r, c, n + 1)
  BY <1>1 DEF RunKnows
<1>3. \A v : IsPreview(v) /\ PreviewKnows(v, b, n) => PreviewKnows(v, c, n + 1)
  BY <1>1 DEF PreviewKnows, IsPreview
<1>4. \A m : IsMutation(m) /\ Confirmed(m, b, n) => Confirmed(m, c, n + 1)
  BY <1>2 DEF Confirmed, IsMutation
<1> QED BY <1>2, <1>3, <1>4

LEMMA PipelineInvariant == PipelineSpec => []PipelineInv
<1>1. PipelineInit => PipelineInv
  BY DEF PipelineInit, PipelineInv, RunIsOwn, OpenRunKnows, MutatesWhatWasShown, EveryMutationLogged
<1>2. PipelineTypeOK /\ PipelineInv /\ [PipelineNext]_pipelineVars => PipelineInv'
  <2> SUFFICES ASSUME PipelineTypeOK, PipelineInv, [PipelineNext]_pipelineVars PROVE PipelineInv'
    OBVIOUS
  <2> USE WindowAssumption
      DEF PipelineTypeOK, PipelineInv, RunIsOwn, OpenRunKnows, MutatesWhatWasShown,
          EveryMutationLogged, PreviewHolds, MutationHolds, NextGeneration, belongs, registryVars
  <2> HIDE DEF MutatesWhatWasShown
  <2>1. ASSUME NEW p \in Projects \cup {None}, SwitchProject(p)
       PROVE  PipelineInv'
    <3>1. MutatesWhatWasShown'
      BY <2>1 DEF SwitchProject, MutatesWhatWasShown
    <3> QED BY <2>1, <3>1 DEF SwitchProject
  <2>2. ASSUME NEW path \in Folders, NEW action \in Actions, start(path, action)
       PROVE  PipelineInv'
    <3>1. MutatesWhatWasShown'
      BY <2>2 DEF start, MutatesWhatWasShown
    <3> DEFINE v == [id |-> generation', run |-> run', step |-> "binding"]
    <3>2. previews' = previews \cup {v} /\ run' = opening(project, path, action) /\ UNCHANGED registryVars
      BY <2>2 DEF start
    <3>3. PreviewKnows(v, bound', rebinds')
      BY <3>2 DEF PreviewKnows, opening
    <3>4. \A o \in previews' : PreviewKnows(o, bound', rebinds')
      BY <3>2, <3>3
    <3> QED BY <2>2, <3>1, <3>2, <3>4 DEF start, opening
  <2>3. ASSUME NEW v \in previews, preview(v)
       PROVE  PipelineInv'
    <3> PICK exit \in exits(v) :
          previews' = (previews \ {v}) \cup {[v EXCEPT !.run = previewed(v, exit), !.step = nextStep(v)]}
      BY <2>3 DEF preview
    <3> DEFINE w == [v EXCEPT !.run = previewed(v, exit), !.step = nextStep(v)]
    <3>1. IsPreview(w) /\ PreviewHolds(w)
      BY <2>3, PreviewedRun DEF preview
    <3> HIDE DEF w
    <3>2. UNCHANGED <<registryVars, project, run, generation, mutating, logs, mutated>>
      BY <2>3 DEF preview
    <3>3. PreviewKnows(w, bound', rebinds')
      BY <3>1, <3>2, KnowledgeKeeps
    <3>4. \A o \in previews' : PreviewHolds(o)'
      BY <3>1, <3>2, <3>3 DEF w
    <3>5. MutatesWhatWasShown'
      BY <3>2 DEF MutatesWhatWasShown
    <3> QED BY <3>2, <3>4, <3>5
  <2>4. ASSUME NEW v \in previews, DeliverPreview(v)
       PROVE  PipelineInv'
    <3>1. /\ previews' = previews \ {v} /\ run' = (IF v.id = generation THEN v.run ELSE run)
          /\ UNCHANGED <<registryVars, project, generation, mutating, logs, mutated>>
      BY <2>4 DEF DeliverPreview
    <3>2. v.run.phase = "ready" /\ v.run.action # "diff" => v.run.passed /\ RunKnows(v.run, bound, rebinds)
      <4>1. v.run.phase = "ready" /\ v.run.action # "diff" => RunKnows(v.run, bound, rebinds)
        BY <2>4 DEF DeliverPreview, PreviewKnows, RunKnows, IsPreview, nextStep
      <4> QED BY <3>1, <4>1, KnowledgeKeeps DEF IsPreview, RunKnows
    <3>3. MutatesWhatWasShown'
      BY <3>1 DEF MutatesWhatWasShown
    <3>4. RunIsOwn' /\ OpenRunKnows'
      BY <3>1, <3>2
    <3> QED BY <3>1, <3>3, <3>4
  <2>5. ASSUME NEW typed \in Contexts \cup {Unset}, confirm(typed)
       PROVE  PipelineInv'
    <3>1. run'.project = run.project /\ run'.phase = "running" /\ run # None
      BY <2>5, RunFields DEF confirm
    <3>2. RunIsOwn' /\ OpenRunKnows'
      BY <2>5, <3>1 DEF confirm
    <3> DEFINE c == [id |-> generation', run |-> run, typed |-> typed, outcome |-> None]
    <3>3. /\ mutating' = mutating \cup {c}
          /\ UNCHANGED <<registryVars, project, previews, logs, mutated>>
      BY <2>5 DEF confirm
    <3>4. IsMutation(c) /\ Confirmed(c, bound, rebinds)
      BY <2>5 DEF confirm, Confirmed, IsMutation
    <3>5. \A m \in mutating' : Confirmed(m, bound', rebinds')
      BY <3>3, <3>4, KnowledgeKeeps
    <3>6. \A m \in mutating' : MutationHolds(m)'
      BY <2>5 DEF confirm
    <3>7. MutatesWhatWasShown'
      BY <3>3 DEF MutatesWhatWasShown
    <3> HIDE DEF c
    <3> QED BY <2>5, <3>2, <3>3, <3>5, <3>6, <3>7 DEF confirm, c
  <2>6. ASSUME NEW m \in mutating, mutate(m)
       PROVE  PipelineInv'
    <3> DEFINE may == confirmed(aim(m.run), m.typed) /\ isBound(aim(m.run))
               hit == [id |-> m.id, run |-> m.run, where |-> aim(m.run), asOf |-> rebinds]
    <3>1. PICK o : mutating' = (mutating \ {m}) \cup {[m EXCEPT !.outcome = o]}
      BY <2>6 DEF mutate
    <3> DEFINE answered == [m EXCEPT !.outcome = o]
    <3>2. /\ answered.id = m.id /\ answered.run = m.run /\ answered.typed = m.typed
          /\ mutating' = (mutating \ {m}) \cup {answered}
      BY <3>1, MutationFields
    <3>3. mutated' = IF may THEN mutated \cup {hit} ELSE mutated
      BY <2>6 DEF mutate
    <3>4. ASSUME may
          PROVE  /\ hit.run.passed
                 /\ hit.asOf = hit.run.asOf => hit.where = hit.run.binding /\ hit.run.aims = {hit.where}
                 /\ hit.run.binding.protected /\ hit.where.protected
                      => hit.where.context = hit.run.binding.context
      <4>1. Confirmed(m, bound, rebinds)
        OBVIOUS
      <4>2. m.run.passed /\ m.run.aims # {}
        BY <4>1 DEF Confirmed, RunKnows
      <4>3. rebinds = m.run.asOf => aim(m.run) = m.run.binding /\ m.run.aims = {aim(m.run)}
        BY <4>1, <4>2 DEF Confirmed, RunKnows, Resolved, aim, resolveBinding
      <4>4. m.run.binding.protected /\ aim(m.run).protected => aim(m.run).context = m.run.binding.context
        BY <3>4, <4>1 DEF confirmed, Confirmed, authorized, guarded
      <4> QED BY <4>2, <4>3, <4>4
    <3>5. hit.id = m.id /\ hit.run = m.run
      OBVIOUS
    <3>6. UNCHANGED <<registryVars, project, run, generation, previews, logs>>
      BY <2>6 DEF mutate
    <3> HIDE DEF may, hit, answered
    <3>7. MutatesWhatWasShown'
      BY <3>3, <3>4 DEF MutatesWhatWasShown
    <3>8. EveryMutationLogged'
      BY <2>6, <3>2, <3>3, <3>5 DEF mutate
    <3>9. \A n \in mutated' : n.id \in 0 .. generation
      BY <3>3, <3>5
    <3>10. \A c \in mutating' : c.id \in 0 .. generation /\ (c.id = generation => c.run.project = project)
      BY <3>2
    <3>11. \A c \in mutating', n \in mutated' \cup mutating' : n.id = c.id => n.run = c.run
      BY <3>2, <3>3, <3>5
    <3>12. Confirmed(m, bound', rebinds')
      BY <3>6
    <3>13. Confirmed(answered, bound', rebinds')
      BY <3>2, <3>12 DEF Confirmed, RunKnows, Resolved, resolveBinding, authorized, guarded
    <3> QED BY <3>2, <3>6, <3>7, <3>8, <3>9, <3>10, <3>11, <3>13
  <2>7. ASSUME NEW m \in mutating, DeliverMutation(m)
       PROVE  PipelineInv'
    <3>1. m.id \in Nat /\ m.run.project \in Projects
      BY DEF IsMutation, IsRun
    <3>2. RunIsOwn' /\ OpenRunKnows'
      <4>1. LET r == [m.run EXCEPT !.phase = "done"] IN r.project = m.run.project /\ r.phase = "done"
        BY RunFields DEF IsMutation
      <4> QED BY <2>7, <4>1 DEF DeliverMutation
    <3>3. EveryMutationLogged'
      <4> SUFFICES ASSUME NEW n \in mutated,
                          n.id \notin Range(logs[n.run.project]'), Len(logs[n.run.project]') # RUN_LOG_LIMIT
                   PROVE  \E c \in mutating' : c.id = n.id
        BY <2>7 DEF DeliverMutation
      <4>1. logs' = [logs EXCEPT ![m.run.project] = logged(m)] /\ mutating' = mutating \ {m}
        BY <2>7 DEF DeliverMutation
      <4>2. CASE n.run.project # m.run.project
        <5>1. logs[n.run.project]' = logs[n.run.project]
          BY <4>1, <4>2
        <5> QED BY <4>1, <4>2, <5>1
      <4>3. CASE n.run.project = m.run.project
        <5>1. logs[n.run.project]' = logged(m)
          BY <3>1, <4>1, <4>3
        <5>2. Range(logged(m)) = {m.id} \cup Range(logs[n.run.project]) /\ n.id # m.id
          BY <3>1, <4>3, <5>1, LoggedKeeps
        <5>3. Len(logs[n.run.project]) # RUN_LOG_LIMIT
          BY <3>1, <4>3, <5>1, FullStaysFull
        <5> QED BY <4>1, <5>1, <5>2, <5>3
      <4> QED BY <4>2, <4>3
    <3>4. MutatesWhatWasShown'
      BY <2>7 DEF DeliverMutation, MutatesWhatWasShown
    <3> QED BY <2>7, <3>2, <3>3, <3>4 DEF DeliverMutation
  <2>8. CASE closeRun
    <3>1. MutatesWhatWasShown'
      BY <2>8 DEF closeRun, MutatesWhatWasShown
    <3> QED BY <2>8, <3>1 DEF closeRun
  <2>9. ASSUME NEW p \in Projects, NEW f \in Folders, Rebind(p, f)
       PROVE  PipelineInv'
    <3>1. /\ rebinds' = rebinds + 1
          /\ UNCHANGED <<project, run, generation, previews, mutating, logs, mutated>>
      BY <2>9 DEF Rebind
    <3>2. /\ \A v \in previews : PreviewKnows(v, bound', rebinds')
          /\ run # None /\ RunKnows(run, bound, rebinds) => RunKnows(run, bound', rebinds')
          /\ \A m \in mutating : Confirmed(m, bound', rebinds')
      BY <3>1, KnowledgeKeeps
    <3>3. MutatesWhatWasShown'
      BY <3>1 DEF MutatesWhatWasShown
    <3> QED BY <3>1, <3>2, <3>3
  <2>10. CASE UNCHANGED pipelineVars
    <3>1. UNCHANGED <<registryVars, project, run, generation, previews, mutating, logs, mutated>>
      BY <2>10 DEF pipelineVars, registryVars
    <3>2. MutatesWhatWasShown'
      BY <3>1 DEF MutatesWhatWasShown
    <3> QED BY <3>1, <3>2
  <2> QED BY <2>1, <2>2, <2>3, <2>4, <2>5, <2>6, <2>7, <2>8, <2>9, <2>10 DEF PipelineNext
<1> QED BY <1>1, <1>2, PipelineTypeCorrect, PTL DEF PipelineSpec

(* A mutation reaches the place its dialog named and its dry run and diff  *)
(* were asked about, unless the bindings changed after the dialog resolved *)
(* it; and never goes from one protected cluster to another, whatever      *)
(* changed.                                                                *)
THEOREM AlwaysMutatesWhatWasShown == PipelineSpec => []MutatesWhatWasShown
BY PipelineInvariant, PTL DEF PipelineInv

(* The open run is the project's own and never confirmable without a dry run*)
(* that passed, however late answers come (the generation).                *)
THEOREM RunAlwaysOwn == PipelineSpec => []RunIsOwn
BY PipelineInvariant, PTL DEF PipelineInv

(* A mutation is logged when it answers, whoever still looks (record).     *)
THEOREM MutationsAlwaysLogged == PipelineSpec => []EveryMutationLogged
BY PipelineInvariant, PTL DEF PipelineInv

-----------------------------------------------------------------------------
(* ClusterPanel.                                                           *)

WriteUnderWay ==
  [kind : {"scope"}, project : Projects, folder : Folders, form : Scope, closes : Nat \cup {None},
   refreshes : {TRUE}, got : Kube \cup {None, Failed}]
  \cup [kind : {"settings"}, project : Projects, kube : Kube, closes : {None},
        refreshes : BOOLEAN, got : Kube \cup {None, Failed}]

(* Types: a resolution is always for the place on screen, and a dialog is  *)
(* only open over a project.                                               *)
PanelTypes ==
  /\ kubeOf \in [Projects -> Kube] /\ strip \in [Projects -> Kube]
  /\ place \in [project : Projects \cup {None}, rel : Folders]
  /\ asking \in Asking \cup {None} /\ (asking # None => asking.at = place)
  /\ dialog \in [folder : Folders, id : Nat] \cup {None}
  /\ dialog # None => place.project # None
  /\ writes \in Seq(WriteUnderWay)
  /\ acts \in Nat

(* Every change the panel makes of bindings leaves bindings.               *)
LEMMA FolderBound ==
  ASSUME NEW k \in Kube, NEW f \in Folders, NEW s \in Scope \cup {None}
  PROVE  [k EXCEPT !.scopes[f] = s] \in Kube
BY DEF Kube

LEMMA ControlsMakeBindings ==
  ASSUME NEW k \in Kube, NEW own \in Scope
  PROVE  withKube(k) \subseteq Kube /\ withField(own) \subseteq Scope /\ inheriting \in Scope
<1>1. ASSUME NEW c \in Contexts \cup {Unset}, NEW n \in Namespaces \cup {Unset}
      PROVE  [own EXCEPT !.context = c] \in Scope /\ [own EXCEPT !.namespace = n] \in Scope
  BY DEF Scope
<1>2. withKube(k) \subseteq Kube
  <2>1. ASSUME NEW cn \in (Contexts \cup {Unset}) \X (Namespaces \cup {Unset})
        PROVE  [k EXCEPT !.context = cn[1], !.namespace = IF @ = Unset THEN cn[2] ELSE @] \in Kube
    <3>1. cn[1] \in Contexts \cup {Unset} /\ cn[2] \in Namespaces \cup {Unset}
      OBVIOUS
    <3> QED BY <3>1 DEF Kube
  <2>2. ASSUME NEW n \in Namespaces \cup {Unset} PROVE [k EXCEPT !.namespace = n] \in Kube
    BY DEF Kube
  <2>3. [k EXCEPT !.protected = ~@] \in Kube
    BY DEF Kube
  <2>4. {[k EXCEPT !.context = cn[1], !.namespace = IF @ = Unset THEN cn[2] ELSE @] :
           cn \in (Contexts \cup {Unset}) \X (Namespaces \cup {Unset})} \subseteq Kube
    BY <2>1, ZenonT(60)
  <2>5. {[k EXCEPT !.namespace = n] : n \in Namespaces \cup {Unset}} \subseteq Kube
    BY <2>2
  <2>6. withKube(k) =
          {[k EXCEPT !.context = cn[1], !.namespace = IF @ = Unset THEN cn[2] ELSE @] :
             cn \in (Contexts \cup {Unset}) \X (Namespaces \cup {Unset})}
          \cup {[k EXCEPT !.namespace = n] : n \in Namespaces \cup {Unset}}
          \cup {[k EXCEPT !.protected = ~@]}
    BY DEF withKube
  <2> QED BY <2>3, <2>4, <2>5, <2>6
<1>3. withField(own) \subseteq Scope
  BY <1>1 DEF withField
<1>4. inheriting \in Scope
  BY DEF inheriting, Scope
<1> QED BY <1>2, <1>3, <1>4

LEMMA StoredIsBindings ==
  ASSUME PanelTypes, NEW w \in WriteUnderWay
  PROVE  w.project \in Projects /\ asStored(w) \in Kube /\ asStored(w) \notin {None, Failed}
<1>1. w.project \in Projects /\ kubeOf[w.project] \in Kube
  BY DEF WriteUnderWay, PanelTypes
<1>2. asStored(w) \in Kube
  <2>1. CASE w.kind = "settings"
    BY <2>1 DEF asStored, WriteUnderWay
  <2>2. CASE w.kind # "settings"
    <3> DEFINE override == IF overridesNothing(w.form) THEN None ELSE w.form
    <3>1. w.folder \in Folders /\ override \in Scope \cup {None}
      BY <2>2 DEF WriteUnderWay
    <3>2. asStored(w) = [kubeOf[w.project] EXCEPT !.scopes[w.folder] = override]
      BY <2>2 DEF asStored
    <3> HIDE DEF override
    <3> QED BY <1>1, <3>1, <3>2, FolderBound
  <2> QED BY <2>1, <2>2
<1> QED BY <1>1, <1>2, PanelAssumption

LEMMA ElementsAre ==
  ASSUME NEW S, NEW s \in Seq(S)
  PROVE  Len(s) \in Nat /\ DOMAIN s = 1 .. Len(s) /\ \A i \in 1 .. Len(s) : s[i] \in S
BY LenProperties, ElementOfSeq

(* Taking one out leaves the others, each where it was or one place sooner. *)
LEMMA OthersRemain ==
  ASSUME NEW S, NEW s \in Seq(S), NEW i \in DOMAIN s
  PROVE  /\ RemoveAt(s, i) \in Seq(S)
         /\ \A j \in DOMAIN s \ {i} : \E m \in DOMAIN RemoveAt(s, i) : RemoveAt(s, i)[m] = s[j]
<1> DEFINE before == SubSeq(s, 1, i - 1)
           after  == SubSeq(s, i + 1, Len(s))
<1>1. /\ Len(s) \in Nat /\ i \in Int /\ DOMAIN s = 1 .. Len(s) /\ i \in 1 .. Len(s)
      /\ \A j \in 1 .. Len(s) : s[j] \in S
  BY ElementsAre
<1>2. /\ before \in Seq(S) /\ Len(before) = i - 1
      /\ \A j \in 1 .. i - 1 : before[j] = s[j]
  BY <1>1, SubSeqProperties
<1>3. /\ after \in Seq(S) /\ Len(after) = Len(s) - i
      /\ \A j \in 1 .. Len(s) - i : after[j] = s[i + j]
  BY <1>1, SubSeqProperties, SMTT(30)
<1>4. RemoveAt(s, i) = before \o after
  BY DEF RemoveAt
<1> HIDE DEF before, after
<1>5. /\ before \o after \in Seq(S) /\ DOMAIN (before \o after) = 1 .. Len(s) - 1
      /\ \A j \in 1 .. Len(s) - 1 :
           (before \o after)[j] = IF j <= i - 1 THEN before[j] ELSE after[j - (i - 1)]
  <2>1. /\ before \o after \in Seq(S) /\ Len(before \o after) = Len(before) + Len(after)
        /\ \A j \in 1 .. Len(before) + Len(after) : (before \o after)[j] =
             IF j <= Len(before) THEN before[j] ELSE after[j - Len(before)]
    BY <1>2, <1>3, ConcatProperties
  <2>2. Len(before) + Len(after) = Len(s) - 1
    BY <1>1, <1>2, <1>3
  <2> QED BY <1>2, <2>1, <2>2, LenProperties
<1>6. ASSUME NEW j \in DOMAIN s \ {i}
      PROVE  \E m \in 1 .. Len(s) - 1 : (before \o after)[m] = s[j]
  <2>0. j \in 1 .. Len(s) /\ (j < i \/ j > i)
    BY <1>1
  <2>1. CASE j < i
    <3>1. j \in 1 .. Len(s) - 1 /\ j <= i - 1 /\ j \in 1 .. i - 1
      BY <1>1, <2>0, <2>1
    <3> QED BY <1>2, <1>5, <3>1
  <2>2. CASE j > i
    <3>1. /\ j - 1 \in 1 .. Len(s) - 1 /\ ~(j - 1 <= i - 1) /\ j - 1 - (i - 1) = j - i
          /\ j - i \in 1 .. Len(s) - i /\ i + (j - i) = j
      BY <1>1, <2>0, <2>2
    <3>2. (before \o after)[j - 1] = after[j - i]
      BY <1>5, <3>1
    <3> QED BY <1>3, <3>1, <3>2
  <2> QED BY <2>0, <2>1, <2>2
<1> QED BY <1>4, <1>5, <1>6

LEMMA WritesPerformed ==
  ASSUME PanelTypes, NEW i \in DOMAIN writes, NEW g \in Kube \cup {Failed}
  PROVE  /\ [writes EXCEPT ![i].got = g] \in Seq(WriteUnderWay)
         /\ DOMAIN [writes EXCEPT ![i].got = g] = DOMAIN writes
         /\ [writes EXCEPT ![i].got = g][i] = [writes[i] EXCEPT !.got = g]
         /\ \A j \in DOMAIN writes \ {i} : [writes EXCEPT ![i].got = g][j] = writes[j]
<1>1. /\ i \in 1 .. Len(writes) /\ writes[i] \in WriteUnderWay /\ writes \in Seq(WriteUnderWay)
      /\ DOMAIN writes = 1 .. Len(writes)
  BY ElementsAre DEF PanelTypes
<1>2. [writes[i] EXCEPT !.got = g] \in WriteUnderWay
  BY <1>1 DEF WriteUnderWay
<1>3. [writes EXCEPT ![i].got = g] = [writes EXCEPT ![i] = [writes[i] EXCEPT !.got = g]]
  OBVIOUS
<1>4. [writes EXCEPT ![i] = [writes[i] EXCEPT !.got = g]] \in Seq(WriteUnderWay)
  BY <1>1, <1>2, ExceptSeq
<1> QED BY <1>1, <1>3, <1>4

LEMMA PanelTypesCorrect == PanelSpec => []PanelTypes
<1>1. PanelInit => PanelTypes
  BY BindingAssumption DEF PanelInit, PanelTypes
<1>2. PanelTypes /\ [PanelNext]_panelVars => PanelTypes'
  <2> SUFFICES ASSUME PanelTypes, [PanelNext]_panelVars PROVE PanelTypes'
    OBVIOUS
  <2>a. /\ place \in [project : Projects \cup {None}, rel : Folders]
        /\ place.project # None => ask(place) \in Asking /\ ask(place).at = place
        /\ place.project = None => ask(place) = None
    BY DEF PanelTypes, ask, Asking
  <2>b. \A w \in WriteUnderWay : Write(w) => acts' \in Nat /\ writes' \in Seq(WriteUnderWay)
    BY AppendProperties DEF Write, PanelAct, PanelTypes
  <2>1. ASSUME NEW p \in Projects \cup {None}, NEW f \in Folders, Show([project |-> p, rel |-> f])
        PROVE  PanelTypes'
    BY <2>1 DEF Show, PanelAct, ask, Asking, PanelTypes
  <2>2. CASE AnswerBinding
    <3>1. PICK got \in {Resolve(kubeOf[asking.at.project], asking.at.rel), Failed} :
            asking' = [asking EXCEPT !.got = got]
      BY <2>2 DEF AnswerBinding
    <3>2. asking \in Asking /\ kubeOf[asking.at.project] \in Kube /\ asking.at.rel \in Folders
      BY <2>2 DEF AnswerBinding, PanelTypes, Asking
    <3>3. asking' \in Asking /\ asking'.at = asking.at
      BY <3>1, <3>2 DEF Asking
    <3> QED BY <2>2, <3>3 DEF AnswerBinding, PanelTypes
  <2>3. CASE DeliverBinding
    BY <2>3 DEF DeliverBinding, PanelTypes
  <2>4. CASE check
    BY <2>4 DEF check, PanelAct, PanelTypes
  <2>5. CASE DeliverCheck
    BY <2>5 DEF DeliverCheck, PanelTypes
  <2>6. CASE onOverride
    <3> DEFINE mine == overrideAt(strip[place.project], place.rel)
               own  == IF mine = None THEN inheriting ELSE mine
    <3>1. place.project \in Projects /\ place.rel \in Folders /\ strip[place.project] \in Kube
      BY <2>6 DEF onOverride, PanelTypes
    <3>2. own \in Scope
      BY <3>1 DEF overrideAt, Kube, inheriting, Scope
    <3>3. PICK form \in withField(own) : Write(Bind(place.rel, form, None))
      BY <2>6 DEF onOverride
    <3> HIDE DEF own, mine
    <3>4. Bind(place.rel, form, None) \in WriteUnderWay
      BY <3>1, <3>2, <3>3, ControlsMakeBindings DEF Bind, WriteUnderWay
    <3> QED BY <2>b, <2>6, <3>3, <3>4 DEF onOverride, kubeVars, PanelTypes
  <2>7. CASE onDefault
    <3>1. place.project \in Projects /\ strip[place.project] \in Kube
      BY <2>7 DEF onDefault, PanelTypes
    <3>2. PICK k \in withKube(strip[place.project]) : Write(Settings(place.project, k, TRUE))
      BY <2>7 DEF onDefault
    <3>3. inheriting \in Scope
      BY DEF inheriting, Scope
    <3>4. Settings(place.project, k, TRUE) \in WriteUnderWay
      BY <3>1, <3>2, <3>3, ControlsMakeBindings DEF Settings, WriteUnderWay
    <3> QED BY <2>b, <2>7, <3>2, <3>4 DEF onDefault, kubeVars, PanelTypes
  <2>8. ASSUME NEW p \in Projects, rename(p) PROVE PanelTypes'
    <3>1. Settings(p, strip[p], FALSE) \in WriteUnderWay
      BY DEF Settings, WriteUnderWay, PanelTypes
    <3> QED BY <2>b, <2>8, <3>1 DEF rename, kubeVars, PanelTypes
  <2>9. ASSUME NEW f \in Folders, OpenDialog(f) PROVE PanelTypes'
    BY <2>9 DEF OpenDialog, PanelAct, kubeVars, PanelTypes
  <2>10. CASE CloseDialog
    BY <2>10 DEF CloseDialog, PanelAct, kubeVars, PanelTypes
  <2>11. CASE SaveDialog
    <3>1. PICK form \in Forms \cup {inheriting} : Write(Bind(dialog.folder, form, dialog.id))
      BY <2>11 DEF SaveDialog
    <3>2. form \in Scope
      <4>1. inheriting \in Scope
        BY DEF inheriting, Scope
      <4> QED BY <3>1, <4>1, BindingAssumption
    <3>3. place.project \in Projects /\ dialog.folder \in Folders /\ dialog.id \in Nat
      BY <2>11 DEF SaveDialog, PanelTypes
    <3>4. Bind(dialog.folder, form, dialog.id) \in WriteUnderWay
      BY <3>2, <3>3 DEF Bind, WriteUnderWay
    <3> QED BY <2>b, <2>11, <3>1, <3>4 DEF SaveDialog, kubeVars, PanelTypes
  <2>12. ASSUME NEW i \in DOMAIN writes, PerformWrite(i) PROVE PanelTypes'
    <3>1. writes[i] \in WriteUnderWay
      BY ElementsAre DEF PanelTypes
    <3>2. writes[i].project \in Projects /\ asStored(writes[i]) \in Kube
      BY <3>1, StoredIsBindings
    <3>3. writes' \in Seq(WriteUnderWay)
      BY <2>12, <3>2, WritesPerformed DEF PerformWrite
    <3>4. kubeOf' \in [Projects -> Kube]
      BY <2>12, <3>2 DEF PerformWrite, PanelTypes
    <3> QED BY <2>12, <3>3, <3>4 DEF PerformWrite, PanelTypes
  <2>13. ASSUME NEW i \in DOMAIN writes, DeliverWrite(i) PROVE PanelTypes'
    <3>1. writes[i] \in WriteUnderWay /\ writes' \in Seq(WriteUnderWay)
      BY <2>13, ElementsAre, OthersRemain DEF DeliverWrite, PanelTypes
    <3>2. strip' \in [Projects -> Kube]
      BY <2>13, <3>1 DEF DeliverWrite, WriteUnderWay, PanelTypes
    <3>3. asking' \in Asking \cup {None} /\ (asking' # None => asking'.at = place)
      BY <2>a, <2>13 DEF DeliverWrite, refresh, PanelTypes
    <3>4. dialog' \in {None, dialog} /\ UNCHANGED <<kubeOf, place, acts>>
      BY <2>13 DEF DeliverWrite
    <3> QED BY <3>1, <3>2, <3>3, <3>4 DEF PanelTypes
  <2>14. ASSUME NEW p \in Projects, NEW f \in Folders, EditByHand(p, f) PROVE PanelTypes'
    <3>1. PICK form \in Forms : kubeOf' = [kubeOf EXCEPT ![p].scopes[f] = form]
      BY <2>14 DEF EditByHand
    <3>2. kubeOf' = [kubeOf EXCEPT ![p] = [kubeOf[p] EXCEPT !.scopes[f] = form]]
      BY <3>1
    <3>3. kubeOf[p] \in Kube /\ form \in Scope
      BY <3>1, BindingAssumption DEF PanelTypes
    <3>4. [kubeOf[p] EXCEPT !.scopes[f] = form] \in Kube
      BY <3>3, FolderBound
    <3> QED BY <2>14, <3>2, <3>4 DEF EditByHand, PanelTypes
  <2>15. CASE UNCHANGED panelVars
    BY <2>15 DEF panelVars, PanelTypes
  <2> QED BY <2>1, <2>2, <2>3, <2>4, <2>5, <2>6, <2>7, <2>8, <2>9, <2>10, <2>11, <2>12, <2>13,
             <2>14, <2>15 DEF PanelNext
<1> QED BY <1>1, <1>2, PTL DEF PanelSpec

(* While the bindings have not changed unseen, what is on screen is theirs, *)
(* or an answer for the place on screen is on its way, or a write that has *)
(* been performed will have it asked for again.                            *)
Current == Resolve(kubeOf[place.project], place.rel)

WillAsk == \E i \in DOMAIN writes : writes[i].refreshes /\ writes[i].got \notin {None, Failed}

ShownOrWillBe ==
  place.project # None /\ ~unseen =>
    \/ asking # None /\ asking.got \in {None, Failed, Current}
    \/ WillAsk
    \/ asking = None /\ shown = Current

LEMMA BindingInvariant == PanelSpec => []ShownOrWillBe
<1>1. PanelInit => ShownOrWillBe
  BY DEF PanelInit, ShownOrWillBe
<1>2. ShownOrWillBe /\ PanelTypes /\ PanelTypes' /\ [PanelNext]_panelVars => ShownOrWillBe'
  <2> SUFFICES ASSUME ShownOrWillBe, PanelTypes, PanelTypes', [PanelNext]_panelVars,
                      place'.project # None, ~unseen'
               PROVE  \/ asking' # None /\ asking'.got \in {None, Failed, Current'}
                      \/ WillAsk'
                      \/ asking' = None /\ shown' = Current'
    BY DEF ShownOrWillBe
  <2>a. \A at \in [project : Projects, rel : Folders] : ask(at) # None /\ ask(at).got = None
    BY WindowAssumption, PanelAssumption DEF ask, Asking
  <2>b. place' \in [project : Projects, rel : Folders]
    BY DEF PanelTypes
  (* A write that is made adds to those under way and changes nothing else. *)
  <2>c. ASSUME NEW w, Write(w), UNCHANGED <<kubeOf, place, kubeVars>>
        PROVE  \/ asking' # None /\ asking'.got \in {None, Failed, Current'}
               \/ WillAsk'
               \/ asking' = None /\ shown' = Current'
    <3>1. /\ writes' = Append(writes, w) /\ writes \in Seq(WriteUnderWay)
          /\ DOMAIN writes = 1 .. Len(writes) /\ Len(writes) \in Nat
      BY <2>c, ElementsAre DEF Write, PanelTypes
    <3>2. \A i \in DOMAIN writes : i \in DOMAIN writes' /\ writes'[i] = writes[i]
      BY <3>1
    <3>3. WillAsk => WillAsk'
      BY <3>2 DEF WillAsk
    <3> QED BY <2>c, <3>3 DEF ShownOrWillBe, kubeVars, Current
  <2>1. ASSUME NEW at, Show(at)
        PROVE  asking' # None /\ asking'.got = None
    BY <2>1, <2>a, <2>b DEF Show
  <2>2. CASE AnswerBinding
    <3>1. PICK got \in {Resolve(kubeOf[asking.at.project], asking.at.rel), Failed} :
            asking' = [asking EXCEPT !.got = got]
      BY <2>2 DEF AnswerBinding
    <3>2. asking \in Asking /\ asking.at = place /\ UNCHANGED <<kubeOf, place>>
          /\ kubeOf[place.project] \in Kube /\ place.rel \in Folders
      BY <2>2, <2>b DEF AnswerBinding, PanelTypes
    <3>3. asking' \in Asking /\ asking'.got = got
      BY <3>1, <3>2 DEF Asking
    <3> QED BY <3>1, <3>2, <3>3, PanelAssumption DEF Current
  <2>3. CASE DeliverBinding
    BY <2>3 DEF DeliverBinding, ShownOrWillBe, Current, WillAsk
  <2>4. CASE check \/ DeliverCheck
    BY <2>4 DEF check, DeliverCheck, ShownOrWillBe, Current, WillAsk
  <2>5. CASE onOverride \/ onDefault \/ SaveDialog \/ \E p \in Projects : rename(p)
    <3>1. PICK w : Write(w)
      BY <2>5 DEF onOverride, onDefault, SaveDialog, rename
    <3>2. UNCHANGED <<kubeOf, place, kubeVars>>
      BY <2>5 DEF onOverride, onDefault, SaveDialog, rename
    <3> QED BY <2>c, <3>1, <3>2
  <2>6. CASE CloseDialog \/ \E f \in Folders : OpenDialog(f)
    BY <2>6 DEF CloseDialog, OpenDialog, kubeVars, ShownOrWillBe, Current, WillAsk
  <2>7. ASSUME NEW i \in DOMAIN writes, PerformWrite(i)
        PROVE  \/ asking' # None /\ asking'.got \in {None, Failed, Current'}
               \/ WillAsk'
               \/ asking' = None /\ shown' = Current'
    <3> DEFINE w == writes[i]
    <3>1. w \in WriteUnderWay /\ UNCHANGED <<place, asking, shown>> /\ w.got = None
      BY <2>7, ElementsAre DEF PerformWrite, PanelTypes
    <3>2. w.project \in Projects /\ asStored(w) \in Kube /\ asStored(w) \notin {None, Failed}
      BY <3>1, StoredIsBindings
    <3>3. ASSUME NEW g \in Kube \cup {Failed}, writes' = [writes EXCEPT ![i].got = g]
          PROVE  /\ WillAsk => WillAsk'
                 /\ g # Failed /\ w.refreshes => WillAsk'
      <4>1. /\ DOMAIN writes' = DOMAIN writes /\ writes'[i] = [w EXCEPT !.got = g]
            /\ \A j \in DOMAIN writes \ {i} : writes'[j] = writes[j]
        BY <3>3, WritesPerformed
      <4>2. [w EXCEPT !.got = g].refreshes = w.refreshes /\ [w EXCEPT !.got = g].got = g
        BY <3>1 DEF WriteUnderWay
      <4>3. g # None
        BY PanelAssumption, WindowAssumption
      <4> QED BY <3>1, <4>1, <4>2, <4>3 DEF WillAsk
    <3>4. CASE writes' = [writes EXCEPT ![i].got = Failed] /\ UNCHANGED <<kubeOf, unseen>>
      BY <3>1, <3>3, <3>4 DEF ShownOrWillBe, Current
    <3>5. CASE /\ kubeOf' = [kubeOf EXCEPT ![w.project] = asStored(w)]
               /\ writes' = [writes EXCEPT ![i].got = asStored(w)]
               /\ unseen' = (unseen \/ (~w.refreshes /\ asStored(w) # kubeOf[w.project]))
      <4>1. ~unseen /\ (w.refreshes \/ asStored(w) = kubeOf[w.project])
        BY <3>5
      <4>2. (WillAsk => WillAsk') /\ (w.refreshes => WillAsk')
        BY <3>2, <3>3, <3>5
      <4>3. asStored(w) = kubeOf[w.project] => kubeOf' = kubeOf
        BY <3>2, <3>5 DEF PanelTypes
      <4> QED BY <3>1, <4>1, <4>2, <4>3 DEF ShownOrWillBe, Current
    <3> QED BY <2>7, <3>4, <3>5 DEF PerformWrite
  <2>8. ASSUME NEW i \in DOMAIN writes, DeliverWrite(i)
        PROVE  \/ asking' # None /\ asking'.got \in {None, Failed, Current'}
               \/ WillAsk'
               \/ asking' = None /\ shown' = Current'
    <3> DEFINE w == writes[i]
    <3>1. /\ UNCHANGED <<kubeOf, place, shown>> /\ writes' = RemoveAt(writes, i)
          /\ writes \in Seq(WriteUnderWay)
      BY <2>8 DEF DeliverWrite, PanelTypes
    <3>2. CASE w.got # Failed /\ w.refreshes
      BY <2>8, <2>a, <2>b, <3>1, <3>2 DEF DeliverWrite, refresh
    <3>3. CASE w.got = Failed \/ ~w.refreshes
      <4>1. UNCHANGED <<asking, unseen>>
        BY <2>8, <3>3 DEF DeliverWrite
      <4>2. \A j \in DOMAIN writes \ {i} : \E m \in DOMAIN writes' : writes'[m] = writes[j]
        BY <3>1, OthersRemain
      <4>3. WillAsk => WillAsk'
        BY <3>3, <4>2 DEF WillAsk
      <4> QED BY <3>1, <4>1, <4>3 DEF ShownOrWillBe, Current
    <3> QED BY <3>2, <3>3
  <2>9. ASSUME NEW p \in Projects, NEW f \in Folders, EditByHand(p, f) PROVE FALSE
    BY <2>9 DEF EditByHand
  <2>10. CASE UNCHANGED panelVars
    BY <2>10 DEF panelVars, ShownOrWillBe, Current, WillAsk
  <2> QED BY <2>1, <2>2, <2>3, <2>4, <2>5, <2>6, <2>7, <2>8, <2>9, <2>10 DEF PanelNext
<1> QED BY <1>1, <1>2, PanelTypesCorrect, PTL DEF PanelSpec

(* Once nothing is under way the binding on screen is what a call for the  *)
(* folder on screen would be aimed with, for any projects, folders,        *)
(* bindings and writes, answered in any order (useKube's own comment).     *)
THEOREM QuietBinding == PanelSpec => []QuietBindingIsCurrent
<1>1. ShownOrWillBe => QuietBindingIsCurrent
  BY DEF ShownOrWillBe, QuietBindingIsCurrent, WillAsk, Current
<1> QED BY <1>1, BindingInvariant, PTL

-----------------------------------------------------------------------------
(* TerminalTabs: no shell is left running that nobody can reach, and a     *)
(* tab's status is its own session's.                                      *)
(* What the operations of a session make of its fields.                    *)

LEMMA FreshSession ==
  ASSUME NEW k \in Keys, NEW autorun \in BOOLEAN
  PROVE  LET s == session(k, autorun) IN
         /\ s \in TerminalSession
         /\ s.tab = k /\ s.asked /\ s.socket = None /\ ~s.wired
         /\ ~s.closeRequested /\ ~s.ended /\ ~s.disposed
<1>1. /\ <<>> \in Seq(Nat) /\ 0 \in Nat
  OBVIOUS
<1> QED  BY <1>1 DEF session, TerminalSession

LEMMA AttachFields ==
  ASSUME NEW s \in TerminalSession
  PROVE  /\ attach(s) \in TerminalSession
         /\ attach(s).tab = s.tab /\ attach(s).asked = s.asked
         /\ attach(s).socket = "connecting" /\ attach(s).wired
         /\ attach(s).closeRequested = s.closeRequested
         /\ attach(s).ended = s.ended /\ attach(s).disposed = s.disposed
  BY DEF attach, TerminalSession

LEMMA DetachFields ==
  ASSUME NEW s \in TerminalSession
  PROVE  /\ detach(s) \in TerminalSession
         /\ detach(s).tab = s.tab /\ detach(s).asked = s.asked
         /\ detach(s).socket = None /\ ~detach(s).wired
         /\ detach(s).closeRequested = s.closeRequested
         /\ detach(s).ended = s.ended /\ detach(s).disposed = s.disposed
  BY DEF detach, TerminalSession

LEMMA CloseFields ==
  ASSUME NEW s \in TerminalSession
  PROVE  /\ close(s) \in TerminalSession
         /\ close(s).tab = s.tab /\ close(s).asked = s.asked
         /\ close(s).socket = s.socket /\ close(s).wired = s.wired
         /\ close(s).closeRequested
         /\ close(s).ended = s.ended /\ close(s).disposed = s.disposed
  BY DEF close, TerminalSession

(* A session disposed of keeps its socket only to send the close that      *)
(* waits for it.                                                           *)
LEMMA DisposeFields ==
  ASSUME NEW s \in TerminalSession
  PROVE  /\ dispose(s) \in TerminalSession
         /\ dispose(s).tab = s.tab /\ dispose(s).asked = s.asked
         /\ dispose(s).socket = IF deliverPendingClose(s) THEN s.socket ELSE None
         /\ ~dispose(s).wired
         /\ dispose(s).closeRequested = s.closeRequested
         /\ dispose(s).ended = s.ended /\ dispose(s).disposed
<1>1. CASE deliverPendingClose(s)
  BY <1>1 DEF dispose, TerminalSession
<1>2. CASE ~deliverPendingClose(s)
  BY <1>2, DetachFields, ZenonT(60) DEF dispose, TerminalSession
<1> QED  BY <1>1, <1>2

LEMMA SendFields ==
  ASSUME NEW s \in TerminalSession, NEW data \in Nat
  PROVE  /\ send(s, data) \in TerminalSession
         /\ send(s, data).tab = s.tab /\ send(s, data).asked = s.asked
         /\ send(s, data).socket = s.socket /\ send(s, data).wired = s.wired
         /\ send(s, data).closeRequested = s.closeRequested
         /\ send(s, data).ended = s.ended /\ send(s, data).disposed = s.disposed
<1>1. Append(s.sent, data) \in Seq(Nat) /\ Append(s.pending, data) \in Seq(Nat)
  BY DEF TerminalSession
<1> QED  BY <1>1 DEF send, TerminalSession

LEMMA FlushFields ==
  ASSUME NEW s \in TerminalSession
  PROVE  /\ flush(s) \in TerminalSession
         /\ flush(s).tab = s.tab /\ flush(s).asked = s.asked
         /\ flush(s).socket = s.socket /\ flush(s).wired = s.wired
         /\ flush(s).closeRequested = s.closeRequested
         /\ flush(s).ended = s.ended /\ flush(s).disposed = s.disposed
<1>1. s.sent \o s.pending \in Seq(Nat) /\ <<>> \in Seq(Nat)
  BY DEF TerminalSession
<1> QED  BY <1>1 DEF flush, TerminalSession

-----------------------------------------------------------------------------
(* The invariant.                                                          *)

(* The session a tab on the strip has registered is a mounted one, and a   *)
(* mounted one is registered for its tab.                                  *)
Registered ==
  /\ \A k \in Keys : sessions[k] # None => sessions[k] \in DOMAIN panes
  /\ \A i \in DOMAIN panes :
       ~panes[i].disposed => tabs[panes[i].tab] # None /\ sessions[panes[i].tab] = i

(* A session that still waits for its shell has nothing else.              *)
Waiting ==
  \A i \in DOMAIN panes :
    panes[i].asked => panes[i].socket = None /\ shells[i] = "none" /\ ~panes[i].ended

(* A session disposed of listens to nothing and sends nothing but a close. *)
Retired ==
  \A i \in DOMAIN panes : panes[i].wired \/ panes[i].socket = "open" => ~panes[i].disposed

(* The shell of a session that ended has ended, or its socket failed.      *)
Ended ==
  \A i \in DOMAIN panes : panes[i].ended => shells[i] # "alive" \/ i \in cut

(* A running shell has a socket: open, or coming up to be used or to send  *)
(* the close that ends the shell.                                          *)
Carried ==
  \A i \in DOMAIN panes :
    shells[i] = "alive" /\ i \notin cut \cup closing =>
      \/ panes[i].socket = "open"
      \/ panes[i].socket = "connecting" /\ (panes[i].wired \/ panes[i].closeRequested)

TermInv == TermTypeOK /\ Registered /\ Waiting /\ Retired /\ Ended /\ Carried /\ StatusIsOwn

(* Every session on screen is another: no two tabs share one.              *)
LEMMA OwnSession ==
  ASSUME TermInv, NEW k \in Keys, tabs[k] # None
  PROVE  /\ sessions[k] \in DOMAIN panes /\ panes[sessions[k]].tab = k
         /\ ~panes[sessions[k]].disposed
         /\ panes[sessions[k]] \in TerminalSession
  BY DEF TermInv, TermTypeOK, Registered, StatusIsOwn

LEMMA InitInv == TermInit => TermInv
<1> SUFFICES ASSUME TermInit PROVE TermInv
  OBVIOUS
<1> USE TerminalAssumption DEF TermInit
<1>1. panes \in Seq(TerminalSession) /\ Len(panes) <= MaxPanes /\ DOMAIN panes = {}
  OBVIOUS
<1>2. TermTypeOK
  BY <1>1 DEF TermTypeOK, Keys, Panes
<1> QED  BY <1>1, <1>2 DEF TermInv, Registered, Waiting, Retired, Ended, Carried, StatusIsOwn

LEMMA PaneFacts ==
  ASSUME TermInv
  PROVE  /\ DOMAIN panes = 1 .. Len(panes) /\ Len(panes) \in Nat /\ DOMAIN panes \subseteq Panes
         /\ \A j \in DOMAIN panes : panes[j] \in TerminalSession /\ panes[j].tab \in Keys
<1> USE DEF TermInv
<1>1. DOMAIN panes = 1 .. Len(panes) /\ Len(panes) \in Nat
  BY LenProperties DEF TermTypeOK
<1>2. \A j \in DOMAIN panes : panes[j] \in TerminalSession
  BY <1>1, ElementOfSeq DEF TermTypeOK
<1>3. DOMAIN panes \subseteq Panes
  BY <1>1, TerminalAssumption DEF TermTypeOK, Panes
<1> QED  BY <1>1, <1>2, <1>3 DEF TerminalSession

(* A step that puts s in the place of pane i's session, which stays what   *)
(* it is to its tab, and reports a status that is true of it.              *)
StepsTo(i, s) ==
  /\ panes' = [panes EXCEPT ![i] = s]
  /\ s.tab = panes[i].tab /\ s.disposed = panes[i].disposed
  /\ keys' = keys /\ sessions' = sessions
  /\ shells' \in [Panes -> {"none", "alive", "clean", "broken"}]
  /\ \A j \in Panes \ {i} : shells'[j] = shells[j]
  /\ cut' \in {cut, cut \cup {i}}
  /\ closing' \subseteq closing \cup {i} /\ closing \subseteq closing' \cup {i}
  /\ s.asked => s.socket = None /\ shells'[i] = "none" /\ ~s.ended
  /\ s.wired \/ s.socket = "open" => ~s.disposed
  /\ s.ended => shells'[i] # "alive" \/ i \in cut'
  /\ shells'[i] = "alive" /\ i \notin cut' \cup closing' =>
       s.socket = "open" \/ (s.socket = "connecting" /\ (s.wired \/ s.closeRequested))
  /\ \/ tabs' = tabs
     \/ ~s.disposed /\ \E status \in {"running", "exited", "failed"} : tabs' = statusPatch(s.tab, status)
  /\ ~s.disposed =>
       LET status == tabs'[s.tab].status IN
       /\ status = "starting" => s.asked
       /\ status = "running"  => shells'[i] # "none" /\ ~s.ended
       /\ status = "exited"   => shells'[i] = "broken" /\ s.ended
       /\ status = "failed"   => shells'[i] = "none" \/ i \in cut'

LEMMA OnePane ==
  ASSUME TermInv, NEW i \in DOMAIN panes, NEW s \in TerminalSession, StepsTo(i, s)
  PROVE  TermInv'
<1> USE DEF TermInv, StepsTo
<1>0. /\ DOMAIN panes = 1 .. Len(panes) /\ Len(panes) \in Nat /\ DOMAIN panes \subseteq Panes
      /\ \A j \in DOMAIN panes : panes[j] \in TerminalSession /\ panes[j].tab \in Keys
  BY PaneFacts
<1>1. /\ panes' \in Seq(TerminalSession) /\ Len(panes') = Len(panes) /\ DOMAIN panes' = DOMAIN panes
      /\ panes'[i] = s /\ \A j \in DOMAIN panes \ {i} : panes'[j] = panes[j]
  BY <1>0, ExceptSeq DEF TermTypeOK
<1>2. /\ tabs' \in [Keys -> TerminalTab \cup {None}]
      /\ \A k \in Keys : (tabs'[k] # None) <=> (tabs[k] # None)
      /\ \A k \in Keys : tabs'[k] # tabs[k] => k = s.tab /\ ~s.disposed
  <2>1. CASE tabs' = tabs
    BY <2>1 DEF TermTypeOK
  <2>2. ASSUME ~s.disposed, NEW status \in {"running", "exited", "failed"}, tabs' = statusPatch(s.tab, status)
        PROVE  <1>2!1 /\ <1>2!2 /\ <1>2!3
    <3>1. s.tab \in Keys /\ tabs[s.tab] \in TerminalTab
      BY <2>2, SMTT(30) DEF Registered, TerminalSession, TermTypeOK
    <3>2. [tabs[s.tab] EXCEPT !.status = status] \in TerminalTab
      BY <3>1 DEF TerminalTab
    <3> QED  BY <2>2, <3>1, <3>2, TerminalAssumption DEF statusPatch, TermTypeOK
  <2> QED  BY <2>1, <2>2
<1>3. TermTypeOK'
  <2>1. closing' \subseteq DOMAIN panes /\ cut' \subseteq DOMAIN panes
    BY DEF TermTypeOK
  <2> QED  BY <1>0, <1>1, <1>2, <2>1 DEF TermTypeOK
<1>4. Registered'
  BY <1>0, <1>1, <1>2 DEF Registered
<1>5. Waiting' /\ Retired' /\ Ended'
  BY <1>0, <1>1 DEF Waiting, Retired, Ended
<1>6. Carried'
  BY <1>0, <1>1 DEF Carried
<1>7. StatusIsOwn'
  <2> SUFFICES ASSUME NEW k \in Keys, tabs'[k] # None
               PROVE  /\ sessions'[k] # None /\ ~panes'[sessions'[k]].disposed
                      /\ panes'[sessions'[k]].tab = k /\ Tells(tabs[k].status, sessions[k])'
    BY DEF StatusIsOwn
  <2>1. tabs[k] # None /\ sessions[k] \in DOMAIN panes /\ panes[sessions[k]].tab = k /\ ~panes[sessions[k]].disposed
    BY <1>2, OwnSession
  <2>2. CASE sessions[k] = i
    BY <1>0, <1>1, <1>2, <2>1, <2>2 DEF Tells, StatusIsOwn
  <2>3. CASE sessions[k] # i
    <3>1. tabs'[k] = tabs[k]
      BY <1>2, <2>1, <2>3 DEF Registered
    <3> QED  BY <1>0, <1>1, <1>2, <2>1, <2>3, <3>1 DEF StatusIsOwn, Tells
  <2> QED  BY <2>2, <2>3
<1> QED  BY <1>3, <1>4, <1>5, <1>6, <1>7

(* What is left of a session when its tab leaves the strip: nothing, or a  *)
(* socket that comes up to send the close.                                 *)
Gone(i) ==
  LET s == panes'[i] IN
  /\ s.disposed /\ ~s.wired /\ s.socket # "open"
  /\ s.tab = panes[i].tab
  /\ s.asked => s.socket = None /\ shells[i] = "none" /\ ~s.ended
  /\ s.ended => shells[i] # "alive" \/ i \in cut
  /\ shells[i] = "alive" /\ i \notin cut \cup closing' => s.socket = "connecting" /\ s.closeRequested

(* The tabs D leave the strip, and their panes unmount.                    *)
Leave(D) ==
  /\ \A k \in D : tabs[k] # None
  /\ keys' = keys /\ shells' = shells /\ cut' = cut
  /\ closing \subseteq closing' /\ closing' \subseteq DOMAIN panes
  /\ tabs' = [k \in Keys |-> IF k \in D THEN None ELSE tabs[k]]
  /\ sessions' = [k \in Keys |-> IF k \in D THEN None ELSE sessions[k]]
  /\ panes' \in Seq(TerminalSession) /\ Len(panes') = Len(panes)
  /\ \A i \in DOMAIN panes : (\E k \in D : sessions[k] = i) => Gone(i)
  /\ \A i \in DOMAIN panes : ~(\E k \in D : sessions[k] = i) => panes'[i] = panes[i]

LEMMA DropTabs ==
  ASSUME TermInv, NEW D \in SUBSET Keys, Leave(D)
  PROVE  TermInv'
<1> USE DEF TermInv, Leave
<1>0. /\ DOMAIN panes = 1 .. Len(panes) /\ Len(panes) \in Nat /\ DOMAIN panes \subseteq Panes
      /\ \A j \in DOMAIN panes : panes[j] \in TerminalSession /\ panes[j].tab \in Keys
  BY PaneFacts
<1>1. DOMAIN panes' = DOMAIN panes
  BY <1>0, LenProperties
<1>2. TermTypeOK'
  BY <1>0, <1>1 DEF TermTypeOK
<1>3. Registered'
  <2>1. ASSUME NEW i \in DOMAIN panes, ~panes'[i].disposed
        PROVE  tabs'[panes'[i].tab] # None /\ sessions'[panes'[i].tab] = i
    <3>1. panes'[i] = panes[i] /\ ~(\E k \in D : sessions[k] = i)
      BY <2>1 DEF Gone
    <3> QED  BY <1>0, <2>1, <3>1 DEF Registered
  <2> QED  BY <1>1, <2>1 DEF Registered
<1>4. Waiting' /\ Retired' /\ Ended' /\ Carried'
  <2> SUFFICES ASSUME NEW i \in DOMAIN panes
               PROVE  /\ panes'[i].asked => panes'[i].socket = None /\ shells[i] = "none" /\ ~panes'[i].ended
                      /\ panes'[i].wired \/ panes'[i].socket = "open" => ~panes'[i].disposed
                      /\ panes'[i].ended => shells[i] # "alive" \/ i \in cut
                      /\ shells[i] = "alive" /\ i \notin cut \cup closing' =>
                           \/ panes'[i].socket = "open"
                           \/ panes'[i].socket = "connecting" /\ (panes'[i].wired \/ panes'[i].closeRequested)
    BY <1>1 DEF Waiting, Retired, Ended, Carried
  <2>1. CASE \E k \in D : sessions[k] = i
    BY <2>1 DEF Gone
  <2>2. CASE ~(\E k \in D : sessions[k] = i)
    BY <2>2 DEF Waiting, Retired, Ended, Carried
  <2> QED  BY <2>1, <2>2
<1>5. StatusIsOwn'
  <2> SUFFICES ASSUME NEW k \in Keys, tabs'[k] # None
               PROVE  /\ sessions'[k] # None /\ ~panes'[sessions'[k]].disposed
                      /\ panes'[sessions'[k]].tab = k /\ Tells(tabs[k].status, sessions[k])'
    BY DEF StatusIsOwn
  <2>1. k \notin D /\ tabs'[k] = tabs[k] /\ sessions'[k] = sessions[k] /\ tabs[k] # None
    OBVIOUS
  <2>2. sessions[k] \in DOMAIN panes /\ panes[sessions[k]].tab = k
    BY <2>1, OwnSession
  <2>3. ~(\E l \in D : sessions[l] = sessions[k])
    <3> SUFFICES ASSUME NEW l \in D, sessions[l] = sessions[k] PROVE FALSE
      OBVIOUS
    <3>1. panes[sessions[l]].tab = l
      BY OwnSession
    <3> QED  BY <2>1, <2>2, <3>1
  <2> QED  BY <2>1, <2>2, <2>3 DEF StatusIsOwn, Tells
<1> QED  BY <1>2, <1>3, <1>4, <1>5

(* A session just mounted for tab k.                                       *)
Fresh(s, k) ==
  /\ s.tab = k /\ s.asked /\ s.socket = None /\ ~s.wired
  /\ ~s.closeRequested /\ ~s.ended /\ ~s.disposed

(* n tabs join the strip, and a pane mounts for each.                      *)
LEMMA NewTabs ==
  ASSUME TermInv, NEW n \in Nat \ {0}, keys + n <= MaxTabs, Len(panes) + n <= MaxPanes,
         shells' = shells, cut' = cut, closing' = closing,
         keys' = keys + n,
         tabs' \in [Keys -> TerminalTab \cup {None}],
         \A k \in keys + 1 .. keys + n : tabs'[k] \in TerminalTab /\ tabs'[k].status = "starting",
         \A k \in Keys \ (keys + 1 .. keys + n) : tabs'[k] = tabs[k],
         sessions' \in [Keys -> Panes \cup {None}],
         \A k \in keys + 1 .. keys + n : sessions'[k] = Len(panes) + k - keys,
         \A k \in Keys \ (keys + 1 .. keys + n) : sessions'[k] = sessions[k],
         panes' \in Seq(TerminalSession), Len(panes') = Len(panes) + n,
         \A i \in DOMAIN panes : panes'[i] = panes[i],
         \A j \in 1 .. n : Fresh(panes'[Len(panes) + j], keys + j)
  PROVE  TermInv'
<1> USE TerminalAssumption DEF TermInv
<1>0. /\ DOMAIN panes = 1 .. Len(panes) /\ Len(panes) \in Nat /\ DOMAIN panes \subseteq Panes
      /\ \A j \in DOMAIN panes : panes[j] \in TerminalSession /\ panes[j].tab \in Keys
      /\ keys \in Nat
  BY PaneFacts DEF TermTypeOK
<1>1. /\ DOMAIN panes' = 1 .. Len(panes) + n
      /\ keys + 1 .. keys + n \subseteq Keys
      /\ DOMAIN panes \subseteq DOMAIN panes'
  BY <1>0, LenProperties DEF Keys
<1>2. TermTypeOK'
  <2>1. \A k \in Keys : tabs'[k] # None => k <= keys'
    BY <1>0 DEF TermTypeOK, Keys
  <2>2. keys' \in 0 .. MaxTabs /\ Len(panes') <= MaxPanes
    BY <1>0
  <2> QED  BY <1>0, <1>1, <2>1, <2>2 DEF TermTypeOK
<1>3. ASSUME NEW i \in DOMAIN panes'
      PROVE  \/ i \in DOMAIN panes /\ panes'[i] = panes[i]
             \/ /\ i - Len(panes) \in 1 .. n /\ i \notin DOMAIN panes
                /\ Fresh(panes'[i], keys + i - Len(panes)) /\ shells[i] = "none"
  <2>1. CASE i \in DOMAIN panes
    BY <2>1
  <2>2. CASE i \notin DOMAIN panes
    <3>1. i - Len(panes) \in 1 .. n /\ i = Len(panes) + (i - Len(panes)) /\ i \in Panes
      BY <1>0, <1>1, <2>2 DEF Panes
    <3>2. Fresh(panes'[Len(panes) + (i - Len(panes))], keys + (i - Len(panes)))
      BY <3>1
    <3>3. keys + (i - Len(panes)) = keys + i - Len(panes)
      BY <1>0, <3>1
    <3> QED  BY <2>2, <3>1, <3>2, <3>3 DEF TermTypeOK
  <2> QED  BY <2>1, <2>2
<1>4. Registered'
  <2>1. ASSUME NEW k \in Keys, sessions'[k] # None PROVE sessions'[k] \in DOMAIN panes'
    <3>1. CASE k \in keys + 1 .. keys + n
      BY <1>0, <1>1, <3>1
    <3>2. CASE k \notin keys + 1 .. keys + n
      BY <1>1, <2>1, <3>2 DEF Registered
    <3> QED  BY <3>1, <3>2
  <2>2. ASSUME NEW i \in DOMAIN panes', ~panes'[i].disposed
        PROVE  tabs'[panes'[i].tab] # None /\ sessions'[panes'[i].tab] = i
    <3>1. CASE i \in DOMAIN panes /\ panes'[i] = panes[i]
      <4>1. panes[i].tab \in Keys /\ tabs[panes[i].tab] # None /\ sessions[panes[i].tab] = i
        BY <1>0, <2>2, <3>1 DEF Registered
      <4>2. panes[i].tab \notin keys + 1 .. keys + n
        BY <1>0, <4>1 DEF TermTypeOK
      <4> QED  BY <3>1, <4>1, <4>2
    <3>2. CASE i - Len(panes) \in 1 .. n /\ Fresh(panes'[i], keys + i - Len(panes))
      <4>1. /\ panes'[i].tab \in keys + 1 .. keys + n
            /\ Len(panes) + panes'[i].tab - keys = i
        BY <1>0, <1>1, <3>2 DEF Fresh
      <4> QED  BY <4>1
    <3> QED  BY <1>3, <3>1, <3>2
  <2> QED  BY <2>1, <2>2 DEF Registered
<1>5. Waiting' /\ Retired' /\ Ended' /\ Carried'
  <2>1. Waiting'
    BY <1>3 DEF Waiting, Fresh
  <2>2. Retired'
    BY <1>3 DEF Retired, Fresh
  <2>3. Ended'
    BY <1>3 DEF Ended, Fresh
  <2>4. Carried'
    BY <1>3 DEF Carried, Fresh
  <2> QED  BY <2>1, <2>2, <2>3, <2>4
<1>6. StatusIsOwn'
  <2> SUFFICES ASSUME NEW k \in Keys, tabs'[k] # None
               PROVE  /\ sessions'[k] # None /\ ~panes'[sessions'[k]].disposed
                      /\ panes'[sessions'[k]].tab = k /\ Tells(tabs[k].status, sessions[k])'
    BY DEF StatusIsOwn
  <2>1. CASE k \in keys + 1 .. keys + n
    <3>1. sessions'[k] \in DOMAIN panes' /\ sessions'[k] \notin DOMAIN panes
      BY <1>0, <1>1, <2>1
    <3>2. Fresh(panes'[sessions'[k]], k)
      <4>1. keys + sessions'[k] - Len(panes) = k
        BY <1>0, <2>1
      <4> QED  BY <1>3, <3>1, <4>1
    <3> QED  BY <2>1, <3>1, <3>2 DEF Fresh, Tells
  <2>2. CASE k \notin keys + 1 .. keys + n
    <3>1. sessions[k] \in DOMAIN panes /\ tabs[k] # None
      BY <2>2, OwnSession
    <3> QED  BY <2>2, <3>1 DEF StatusIsOwn, Tells
  <2> QED  BY <2>1, <2>2
<1> QED  BY <1>2, <1>4, <1>5, <1>6

(* A tab gets another pane for the dead one.                               *)
LEMMA RestartKeeps ==
  ASSUME TermInv, NEW k \in Keys, restart(k)
  PROVE  TermInv'
<1> USE TerminalAssumption DEF TermInv
<1> DEFINE old == sessions[k]
           new == Len(panes) + 1
           closed == [panes EXCEPT ![old] = dispose(@)]
           fresh == session(k, tabs[k].autorun)
<1>0. /\ DOMAIN panes = 1 .. Len(panes) /\ Len(panes) \in Nat /\ DOMAIN panes \subseteq Panes
      /\ \A j \in DOMAIN panes : panes[j] \in TerminalSession /\ panes[j].tab \in Keys
  BY PaneFacts
<1>1. /\ new <= MaxPanes /\ tabs[k] # None /\ tabs[k].status \in {"exited", "failed"}
      /\ tabs' = restartTab(k) /\ panes' = Append(closed, fresh)
      /\ sessions' \in {[sessions EXCEPT ![k] = new], [sessions EXCEPT ![k] = onDetach(new, old)]}
      /\ keys' = keys /\ shells' = shells /\ closing' = closing /\ cut' = cut
  BY DEF restart
<1>2. /\ old \in DOMAIN panes /\ panes[old].tab = k /\ ~panes[old].disposed
      /\ panes[old] \in TerminalSession /\ new \notin DOMAIN panes /\ new \in Panes
  BY <1>0, <1>1, OwnSession DEF Panes
<1>3. sessions' = [sessions EXCEPT ![k] = new]
  BY <1>0, <1>1, <1>2 DEF onDetach
<1>4. tabs[k] \in TerminalTab /\ tabs[k].autorun \in BOOLEAN
  BY <1>1 DEF TermTypeOK, TerminalTab
<1>5. fresh \in TerminalSession /\ Fresh(fresh, k)
  BY <1>4, FreshSession DEF Fresh
<1>6. /\ dispose(panes[old]) \in TerminalSession /\ dispose(panes[old]).tab = k
      /\ dispose(panes[old]).asked = panes[old].asked
      /\ dispose(panes[old]).socket =
           IF deliverPendingClose(panes[old]) THEN panes[old].socket ELSE None
      /\ ~dispose(panes[old]).wired /\ dispose(panes[old]).ended = panes[old].ended
      /\ dispose(panes[old]).disposed
  BY <1>2, DisposeFields
<1>7. /\ closed \in Seq(TerminalSession) /\ Len(closed) = Len(panes)
      /\ \A j \in 1 .. Len(panes) : closed[j] = IF j = old THEN dispose(panes[old]) ELSE panes[j]
  BY <1>0, <1>2, <1>6, ExceptSeq DEF TermTypeOK
<1> HIDE DEF closed, fresh
<1>8. /\ panes' \in Seq(TerminalSession) /\ Len(panes') = Len(panes) + 1
      /\ DOMAIN panes' = DOMAIN panes \cup {new}
      /\ panes'[new] = fresh /\ panes'[old] = dispose(panes[old])
      /\ \A j \in DOMAIN panes \ {old} : panes'[j] = panes[j]
  BY <1>0, <1>1, <1>2, <1>5, <1>7, AppendProperties
<1>9. /\ tabs' \in [Keys -> TerminalTab \cup {None}]
      /\ tabs'[k] # None /\ tabs'[k].status = "starting"
      /\ \A l \in Keys \ {k} : tabs'[l] = tabs[l]
  <2>1. [tabs[k] EXCEPT !.status = "starting", !.generation = @ + 1] \in TerminalTab
    <3> DEFINE next == tabs[k].generation + 1
    <3>1. next \in Nat /\ tabs[k].project \in Projects /\ tabs[k].autorun \in BOOLEAN
      BY <1>4 DEF TerminalTab
    <3> HIDE DEF next
    <3>2. [tabs[k] EXCEPT !.status = "starting", !.generation = next] \in TerminalTab
      BY <1>4, <3>1 DEF TerminalTab
    <3>3. [tabs[k] EXCEPT !.status = "starting", !.generation = @ + 1]
            = [tabs[k] EXCEPT !.status = "starting", !.generation = next]
      BY <1>4 DEF TerminalTab, next
    <3> QED  BY <3>2, <3>3
  <2>2. [tabs[k] EXCEPT !.status = "starting", !.generation = @ + 1].status = "starting"
    BY <1>4 DEF TerminalTab
  <2> QED  BY <1>1, <2>1, <2>2 DEF restartTab, TermTypeOK
<1>10. shells[old] # "alive" \/ old \in cut
  BY <1>1, <1>2 DEF StatusIsOwn, Tells
<1>11. TermTypeOK'
  BY <1>0, <1>1, <1>2, <1>3, <1>8, <1>9 DEF TermTypeOK
<1>12. Registered'
  <2>1. \A l \in Keys : sessions'[l] # None => sessions'[l] \in DOMAIN panes'
    BY <1>3, <1>8 DEF Registered, TermTypeOK
  <2>2. ASSUME NEW i \in DOMAIN panes', ~panes'[i].disposed
        PROVE  tabs'[panes'[i].tab] # None /\ sessions'[panes'[i].tab] = i
    <3>1. CASE i = new
      BY <1>3, <1>5, <1>8, <1>9, <3>1 DEF Fresh, TermTypeOK
    <3>2. CASE i \in DOMAIN panes \ {old}
      <4>1. panes[i].tab # k
        BY <1>8, <2>2, <3>2 DEF Registered
      <4> QED  BY <1>0, <1>3, <1>8, <1>9, <2>2, <3>2, <4>1 DEF Registered, TermTypeOK
    <3> QED  BY <1>6, <1>8, <2>2, <3>1, <3>2
  <2> QED  BY <2>1, <2>2 DEF Registered
<1>13. Waiting' /\ Retired' /\ Ended' /\ Carried'
  <2>1. shells[new] = "none"
    BY <1>2 DEF TermTypeOK
  <2>2. Waiting'
    <3> SUFFICES ASSUME NEW i \in DOMAIN panes', panes'[i].asked
                 PROVE  panes'[i].socket = None /\ shells[i] = "none" /\ ~panes'[i].ended
      BY <1>1 DEF Waiting
    <3>1. CASE i = new
      BY <1>5, <1>8, <2>1, <3>1 DEF Fresh
    <3>2. CASE i = old
      BY <1>2, <1>6, <1>8, <3>2 DEF Waiting
    <3>3. CASE i \in DOMAIN panes \ {old}
      BY <1>8, <3>3 DEF Waiting
    <3> QED  BY <1>8, <3>1, <3>2, <3>3
  <2>3. Retired'
    BY <1>5, <1>6, <1>8 DEF Retired, Fresh, deliverPendingClose
  <2>4. Ended'
    BY <1>1, <1>2, <1>5, <1>6, <1>8 DEF Ended, Fresh
  <2>5. Carried'
    BY <1>1, <1>8, <1>10, <2>1 DEF Carried
  <2> QED  BY <2>2, <2>3, <2>4, <2>5
<1>14. StatusIsOwn'
  <2> SUFFICES ASSUME NEW l \in Keys, tabs'[l] # None
               PROVE  /\ sessions'[l] # None /\ ~panes'[sessions'[l]].disposed
                      /\ panes'[sessions'[l]].tab = l /\ Tells(tabs[l].status, sessions[l])'
    BY DEF StatusIsOwn
  <2>1. CASE l = k
    BY <1>0, <1>3, <1>5, <1>8, <1>9, <2>1 DEF Fresh, Tells, TermTypeOK
  <2>2. CASE l # k
    <3>1. /\ sessions[l] \in DOMAIN panes \ {old} /\ tabs[l] # None
          /\ sessions'[l] = sessions[l] /\ tabs'[l] = tabs[l]
      BY <1>2, <1>3, <1>9, <2>2, OwnSession DEF TermTypeOK
    <3> QED  BY <1>1, <1>8, <3>1 DEF StatusIsOwn, Tells
  <2> QED  BY <2>1, <2>2
<1> QED  BY <1>11, <1>12, <1>13, <1>14

LEMMA CreateKeeps ==
  ASSUME TermInv, NEW p \in Projects, NEW autorun \in BOOLEAN, create(p, autorun)
  PROVE  TermInv'
<1> USE TerminalAssumption
<1>1. keys \in Nat /\ keys' = keys + 1 /\ keys' \in Keys /\ Len(panes) \in Nat /\ Len(panes) + 1 <= MaxPanes
  BY PaneFacts DEF create, TermInv, TermTypeOK, Keys
<1>2. newTab(p, autorun) \in TerminalTab /\ newTab(p, autorun).status = "starting"
  BY DEF newTab, TerminalTab
<1>3. session(keys', autorun) \in TerminalSession /\ Fresh(session(keys', autorun), keys')
  BY <1>1, FreshSession DEF Fresh
<1>4. /\ panes' \in Seq(TerminalSession) /\ Len(panes') = Len(panes) + 1
      /\ \A i \in DOMAIN panes : panes'[i] = panes[i]
      /\ panes'[Len(panes) + 1] = session(keys', autorun)
  BY <1>3, AppendProperties, PaneFacts DEF create, TermInv, TermTypeOK
<1>5. /\ tabs' \in [Keys -> TerminalTab \cup {None}] /\ sessions' \in [Keys -> Panes \cup {None}]
      /\ tabs'[keys + 1] = newTab(p, autorun) /\ sessions'[keys + 1] = Len(panes) + 1
      /\ \A k \in Keys \ {keys + 1} : tabs'[k] = tabs[k] /\ sessions'[k] = sessions[k]
  BY <1>1, <1>2 DEF create, TermInv, TermTypeOK, Panes
<1>6. shells' = shells /\ cut' = cut /\ closing' = closing /\ keys + 1 <= MaxTabs
  BY <1>1 DEF create, Keys
<1>7. keys + 1 .. keys + 1 = {keys + 1}
  BY <1>1
<1> HIDE DEF create
<1> QED
  <2>1. \A k \in keys + 1 .. keys + 1 : /\ tabs'[k] \in TerminalTab /\ tabs'[k].status = "starting"
                                      /\ sessions'[k] = Len(panes) + k - keys
    BY <1>1, <1>2, <1>5, <1>7
  <2>2. \A j \in 1 .. 1 : Fresh(panes'[Len(panes) + j], keys + j)
    BY <1>1, <1>3, <1>4
  <2> QED  BY <1>1, <1>4, <1>5, <1>6, <1>7, <2>1, <2>2, NewTabs

LEMMA RestoreKeeps ==
  ASSUME TermInv, NEW p \in Projects, NEW n \in 2 .. MaxTabs, restore(p, n)
  PROVE  TermInv'
<1> USE TerminalAssumption
<1> DEFINE more == [j \in 1 .. n |-> session(keys + j, FALSE)]
<1>1. /\ keys \in Nat /\ n \in Nat \ {0} /\ keys' = keys + n /\ keys + n <= MaxTabs
      /\ Len(panes) \in Nat /\ Len(panes) + n <= MaxPanes
  BY PaneFacts DEF restore, TermInv, TermTypeOK
<1>2. newTab(p, FALSE) \in TerminalTab /\ newTab(p, FALSE).status = "starting"
  BY DEF newTab, TerminalTab
<1>3. \A j \in 1 .. n : /\ session(keys + j, FALSE) \in TerminalSession
                       /\ Fresh(session(keys + j, FALSE), keys + j)
  <2> SUFFICES ASSUME NEW j \in 1 .. n
               PROVE  session(keys + j, FALSE) \in TerminalSession /\ Fresh(session(keys + j, FALSE), keys + j)
    OBVIOUS
  <2>1. keys + j \in Keys
    BY <1>1 DEF Keys
  <2> QED  BY <2>1, FreshSession DEF Fresh
<1>4. more \in Seq(TerminalSession) /\ Len(more) = n /\ \A j \in 1 .. n : more[j] = session(keys + j, FALSE)
  <2>1. more \in [1 .. n -> TerminalSession] /\ DOMAIN more = 1 .. n
    BY <1>3
  <2>2. \A j \in 1 .. n : more[j] = session(keys + j, FALSE)
    OBVIOUS
  <2> HIDE DEF more
  <2>3. more \in Seq(TerminalSession)
    BY <1>1, <2>1, SeqDef
  <2>4. Len(more) \in Nat /\ 1 .. Len(more) = 1 .. n
    BY <2>1, <2>3, LenProperties
  <2>5. Len(more) = n
    BY <1>1, <2>4
  <2> QED  BY <2>2, <2>3, <2>5
<1>5. panes' = panes \o more /\ panes \in Seq(TerminalSession)
  BY DEF restore, TermInv, TermTypeOK
<1> HIDE DEF more
<1>6. /\ panes' \in Seq(TerminalSession) /\ Len(panes') = Len(panes) + n
      /\ \A i \in DOMAIN panes : panes'[i] = panes[i]
      /\ \A j \in 1 .. n : panes'[Len(panes) + j] = session(keys + j, FALSE)
  <2>1. /\ panes' \in Seq(TerminalSession) /\ Len(panes') = Len(panes) + Len(more)
        /\ \A i \in 1 .. Len(panes) + Len(more) :
             panes'[i] = IF i <= Len(panes) THEN panes[i] ELSE more[i - Len(panes)]
    BY <1>4, <1>5, ConcatProperties
  <2>2. ASSUME NEW j \in 1 .. n PROVE panes'[Len(panes) + j] = session(keys + j, FALSE)
    <3>1. Len(panes) + j \in 1 .. Len(panes) + Len(more) /\ ~(Len(panes) + j <= Len(panes))
          /\ (Len(panes) + j) - Len(panes) = j
      BY <1>1, <1>4
    <3> QED  BY <1>4, <2>1, <3>1
  <2>3. ASSUME NEW i \in DOMAIN panes PROVE panes'[i] = panes[i]
    <3>1. i \in 1 .. Len(panes) + Len(more) /\ i <= Len(panes)
      BY <1>1, <1>4, PaneFacts
    <3> QED  BY <2>1, <3>1
  <2> QED  BY <1>4, <2>1, <2>2, <2>3
<1>7. /\ tabs' \in [Keys -> TerminalTab \cup {None}]
      /\ \A k \in keys + 1 .. keys + n : tabs'[k] = newTab(p, FALSE)
      /\ \A k \in Keys \ (keys + 1 .. keys + n) : tabs'[k] = tabs[k]
  <2>1. tabs' = [k \in Keys |-> IF k \in keys + 1 .. keys + n THEN newTab(p, FALSE) ELSE tabs[k]]
    BY <1>1 DEF restore
  <2>2. keys + 1 .. keys + n \subseteq Keys /\ tabs \in [Keys -> TerminalTab \cup {None}]
    BY <1>1 DEF TermInv, TermTypeOK, Keys
  <2> QED  BY <1>2, <2>1, <2>2
<1>8. /\ sessions' \in [Keys -> Panes \cup {None}]
      /\ \A k \in keys + 1 .. keys + n : sessions'[k] = Len(panes) + k - keys
      /\ \A k \in Keys \ (keys + 1 .. keys + n) : sessions'[k] = sessions[k]
  <2>1. sessions' = [k \in Keys |-> IF k \in keys + 1 .. keys + n THEN Len(panes) + k - keys ELSE sessions[k]]
    BY <1>1 DEF restore
  <2>2. keys + 1 .. keys + n \subseteq Keys /\ sessions \in [Keys -> Panes \cup {None}]
    BY <1>1 DEF TermInv, TermTypeOK, Keys
  <2>3. \A k \in keys + 1 .. keys + n : Len(panes) + k - keys \in Panes
    BY <1>1 DEF Panes
  <2> QED  BY <2>1, <2>2, <2>3
<1>9. shells' = shells /\ cut' = cut /\ closing' = closing
  BY DEF restore
<1> QED
  <2>1. \A k \in keys + 1 .. keys + n : tabs'[k] \in TerminalTab /\ tabs'[k].status = "starting"
    BY <1>2, <1>7
  <2>2. \A j \in 1 .. n : Fresh(panes'[Len(panes) + j], keys + j)
    BY <1>3, <1>6
  <2> QED  BY <1>1, <1>6, <1>7, <1>8, <1>9, <2>1, <2>2, NewTabs

(* A session that was told to close and disposed of.                       *)
LEMMA ClosedIsGone ==
  ASSUME TermInv, NEW i \in DOMAIN panes,
         panes'[i] = dispose(close(panes[i])),
         closing \subseteq closing', panes[i].socket = "open" => i \in closing'
  PROVE  Gone(i) /\ dispose(close(panes[i])) \in TerminalSession
<1> DEFINE s == close(panes[i])
<1>1. /\ panes[i] \in TerminalSession
      /\ s \in TerminalSession /\ s.tab = panes[i].tab /\ s.asked = panes[i].asked
      /\ s.socket = panes[i].socket /\ s.closeRequested /\ s.ended = panes[i].ended
  BY PaneFacts, CloseFields
<1> HIDE DEF s
<1>2. /\ dispose(s) \in TerminalSession /\ dispose(s).tab = s.tab /\ dispose(s).asked = s.asked
      /\ dispose(s).socket = IF deliverPendingClose(s) THEN s.socket ELSE None
      /\ ~dispose(s).wired /\ dispose(s).closeRequested = s.closeRequested
      /\ dispose(s).ended = s.ended /\ dispose(s).disposed
  BY <1>1, DisposeFields
<1>3. panes'[i] = dispose(s)
  BY DEF s
<1>4. dispose(s).socket # "open"
  BY <1>1, <1>2, TerminalAssumption DEF deliverPendingClose
<1>5. dispose(s).asked => dispose(s).socket = None /\ shells[i] = "none" /\ ~dispose(s).ended
  BY <1>1, <1>2, TerminalAssumption DEF TermInv, Waiting, deliverPendingClose
<1>6. dispose(s).ended => shells[i] # "alive" \/ i \in cut
  BY <1>1, <1>2 DEF TermInv, Ended
<1>7. shells[i] = "alive" /\ i \notin cut \cup closing' =>
        dispose(s).socket = "connecting" /\ dispose(s).closeRequested
  BY <1>1, <1>2, TerminalAssumption DEF TermInv, Carried, deliverPendingClose
<1>8. Gone(i)
  BY <1>1, <1>2, <1>3, <1>4, <1>5, <1>6, <1>7 DEF Gone
<1> QED  BY <1>2, <1>8 DEF s

LEMMA CloseTabKeeps ==
  ASSUME TermInv, NEW k \in Keys, closeTab(k)
  PROVE  TermInv'
<1> DEFINE i == sessions[k]
<1>1. i \in DOMAIN panes /\ panes[i] \in TerminalSession /\ tabs[k] # None
  BY OwnSession DEF closeTab
<1>2. /\ panes' = [panes EXCEPT ![i] = dispose(close(panes[i]))]
      /\ tabs' = [tabs EXCEPT ![k] = None] /\ sessions' = [sessions EXCEPT ![k] = None]
      /\ closing' = IF isOpen(panes[i]) THEN closing \cup {i} ELSE closing
      /\ keys' = keys /\ shells' = shells /\ cut' = cut
  BY DEF closeTab, dropTab
<1>3. closing \subseteq closing' /\ closing' \subseteq DOMAIN panes /\ (panes[i].socket = "open" => i \in closing')
  BY <1>1, <1>2 DEF isOpen, TermInv, TermTypeOK
<1>4. dispose(close(panes[i])) \in TerminalSession
  BY <1>1, CloseFields, DisposeFields
<1>5. /\ panes' \in Seq(TerminalSession) /\ Len(panes') = Len(panes)
      /\ panes'[i] = dispose(close(panes[i])) /\ \A j \in DOMAIN panes \ {i} : panes'[j] = panes[j]
  BY <1>1, <1>2, <1>4, PaneFacts, ExceptSeq DEF TermInv, TermTypeOK
<1>6. Gone(i)
  BY <1>1, <1>3, <1>5, ClosedIsGone
<1>7. /\ tabs' = [l \in Keys |-> IF l \in {k} THEN None ELSE tabs[l]]
      /\ sessions' = [l \in Keys |-> IF l \in {k} THEN None ELSE sessions[l]]
  BY <1>2 DEF TermInv, TermTypeOK
<1>8. Leave({k})
  <2>1. \A j \in DOMAIN panes : (\E l \in {k} : sessions[l] = j) => j = i
    OBVIOUS
  <2>2. \A j \in DOMAIN panes : ~(\E l \in {k} : sessions[l] = j) => j # i
    OBVIOUS
  <2> HIDE DEF i
  <2> QED  BY <1>1, <1>2, <1>3, <1>5, <1>6, <1>7, <2>1, <2>2 DEF Leave
<1> QED  BY <1>8, DropTabs

LEMMA CloseProjectTabsKeeps ==
  ASSUME TermInv, NEW p \in Projects, closeProjectTabs(p)
  PROVE  TermInv'
<1> DEFINE D == tabsForProject(p)
           gone == {sessions[k] : k \in D}
<1>1. /\ tabs' = [k \in Keys |-> IF k \in D THEN None ELSE tabs[k]]
      /\ sessions' = [k \in Keys |-> IF k \in D THEN None ELSE sessions[k]]
      /\ panes' = [i \in DOMAIN panes |-> IF i \in gone THEN dispose(close(panes[i])) ELSE panes[i]]
      /\ closing' = closing \cup {i \in gone : isOpen(panes[i])}
      /\ keys' = keys /\ shells' = shells /\ cut' = cut
  BY DEF closeProjectTabs
<1>2. D \in SUBSET Keys /\ \A k \in D : tabs[k] # None
  BY DEF tabsForProject
<1>3. gone \subseteq DOMAIN panes
  BY <1>2, OwnSession
<1> HIDE DEF D
<1>4. /\ closing \subseteq closing' /\ closing' \subseteq DOMAIN panes
      /\ \A i \in gone : panes[i].socket = "open" => i \in closing'
  BY <1>1, <1>3 DEF isOpen, TermInv, TermTypeOK
<1> HIDE DEF gone
<1>5. \A i \in DOMAIN panes : panes[i] \in TerminalSession /\ dispose(close(panes[i])) \in TerminalSession
  BY PaneFacts, CloseFields, DisposeFields
<1>6. /\ panes' \in Seq(TerminalSession) /\ Len(panes') = Len(panes)
      /\ \A i \in DOMAIN panes : i \in gone => panes'[i] = dispose(close(panes[i]))
      /\ \A i \in DOMAIN panes : i \notin gone => panes'[i] = panes[i]
  <2>1. DOMAIN panes = 1 .. Len(panes) /\ Len(panes) \in Nat
    BY PaneFacts
  <2>2. panes' \in [1 .. Len(panes) -> TerminalSession]
    BY <1>1, <1>5, <2>1
  <2>3. panes' \in Seq(TerminalSession)
    BY <2>1, <2>2, SeqDef
  <2>4. Len(panes') \in Nat /\ 1 .. Len(panes') = 1 .. Len(panes)
    BY <2>2, <2>3, LenProperties
  <2>5. Len(panes') = Len(panes)
    BY <2>1, <2>4
  <2> QED  BY <1>1, <2>3, <2>5
<1>7. \A i \in DOMAIN panes : (\E k \in D : sessions[k] = i) => Gone(i)
  BY <1>4, <1>6, ClosedIsGone DEF gone
<1>8. \A i \in DOMAIN panes : ~(\E k \in D : sessions[k] = i) => panes'[i] = panes[i]
  BY <1>6 DEF gone
<1>9. Leave(D)
  BY <1>1, <1>2, <1>4, <1>6, <1>7, <1>8 DEF Leave
<1> QED  BY <1>2, <1>9, DropTabs

(* The clean exit: the tab goes, and its pane with it.                     *)
LEMMA ExitKeeps ==
  ASSUME TermInv, NEW i \in DOMAIN panes, onExit(i)
  PROVE  TermInv'
<1>0. PICK s : s = [panes[i] EXCEPT !.ended = TRUE]
  OBVIOUS
<1>1. /\ panes[i] \in TerminalSession /\ panes[i].tab \in Keys /\ i \in Panes
      /\ panes[i].socket = "open" /\ panes[i].wired /\ ~panes[i].disposed /\ ~panes[i].asked
      /\ shells[i] \in {"clean", "broken"}
      /\ keys' = keys /\ shells' = shells /\ cut' = cut /\ closing' = closing
  BY PaneFacts, TerminalAssumption DEF onExit, listening, isOpen, TermInv, Retired, Waiting
<1>2. tabs[panes[i].tab] # None /\ sessions[panes[i].tab] = i
  BY <1>1 DEF TermInv, Registered
<1>3. /\ s \in TerminalSession /\ s.tab = panes[i].tab /\ s.asked = panes[i].asked
      /\ s.socket = "open" /\ s.wired = panes[i].wired /\ s.ended
      /\ s.disposed = panes[i].disposed
  BY <1>0, <1>1 DEF TerminalSession
<1>4. CASE shells[i] = "clean"
  <2> DEFINE k == panes[i].tab
  <2>1. dropTab(k, s)
    BY <1>0, <1>3, <1>4 DEF onExit
  <2>2. /\ panes' = [panes EXCEPT ![i] = dispose(s)]
        /\ tabs' = [tabs EXCEPT ![k] = None] /\ sessions' = [sessions EXCEPT ![k] = None]
    BY <1>2, <2>1 DEF dropTab
  <2>3. /\ dispose(s) \in TerminalSession /\ dispose(s).tab = k /\ ~dispose(s).asked
        /\ dispose(s).socket = None /\ ~dispose(s).wired /\ dispose(s).disposed
    BY <1>1, <1>3, DisposeFields DEF deliverPendingClose
  <2>4. /\ panes' \in Seq(TerminalSession) /\ Len(panes') = Len(panes)
        /\ panes'[i] = dispose(s) /\ \A j \in DOMAIN panes \ {i} : panes'[j] = panes[j]
    BY <2>2, <2>3, PaneFacts, ExceptSeq DEF TermInv, TermTypeOK
  <2>5. Gone(i)
    BY <1>4, <2>3, <2>4, TerminalAssumption DEF Gone
  <2>6. /\ tabs' = [l \in Keys |-> IF l \in {k} THEN None ELSE tabs[l]]
        /\ sessions' = [l \in Keys |-> IF l \in {k} THEN None ELSE sessions[l]]
    BY <2>2 DEF TermInv, TermTypeOK
  <2>7. closing' \subseteq DOMAIN panes /\ {k} \in SUBSET Keys /\ \A l \in {k} : tabs[l] # None /\ sessions[l] = i
    BY <1>1, <1>2 DEF TermInv, TermTypeOK
  <2>8. Leave({k})
    BY <1>1, <2>4, <2>5, <2>6, <2>7 DEF Leave
  <2> QED  BY <2>7, <2>8, DropTabs
<1>5. CASE shells[i] = "broken"
  <2>1. /\ panes' = [panes EXCEPT ![i] = s] /\ sessions' = sessions
        /\ tabs' = statusPatch(s.tab, "exited")
    BY <1>0, <1>1, <1>3, <1>5 DEF onExit, Report
  <2>2. tabs'[s.tab].status = "exited"
    BY <1>1, <1>2, <1>3, <2>1 DEF statusPatch, TermInv, TermTypeOK, TerminalTab
  <2>3. shells' \in [Panes -> {"none", "alive", "clean", "broken"}]
    BY <1>1 DEF TermInv, TermTypeOK
  <2>4. \E status \in {"running", "exited", "failed"} : tabs' = statusPatch(s.tab, status)
    BY <2>1
  <2>5. StepsTo(i, s)
    BY <1>1, <1>3, <1>5, <2>1, <2>2, <2>3, <2>4 DEF StepsTo
  <2> QED  BY <1>3, <2>5, OnePane
<1> QED  BY <1>1, <1>4, <1>5

(* The actions that touch one pane.                                        *)
LEMMA PaneStep ==
  ASSUME TermInv, NEW i \in DOMAIN panes,
         \/ ShellOpened(i) \/ ShellRefused(i) \/ onOpen(i) \/ onData(i) \/ typeAutorun(i)
         \/ onResync(i) \/ lost(i) \/ ShellEnds(i) \/ ReceiveClose(i)
  PROVE  TermInv'
<1> USE TerminalAssumption
<1>1. panes[i] \in TerminalSession /\ panes[i].tab \in Keys /\ i \in Panes
  BY PaneFacts
<1>2. ~panes[i].disposed => /\ tabs[panes[i].tab] \in TerminalTab /\ sessions[panes[i].tab] = i
                            /\ Tells(tabs[panes[i].tab].status, i)
  BY <1>1 DEF TermInv, TermTypeOK, Registered, StatusIsOwn
<1>3. /\ shells \in [Panes -> {"none", "alive", "clean", "broken"}]
      /\ \A status \in {"running", "exited", "failed"} : ~panes[i].disposed =>
           statusPatch(panes[i].tab, status)[panes[i].tab].status = status
  BY <1>1, <1>2 DEF TermInv, TermTypeOK, statusPatch, TerminalTab
<1>4. /\ panes[i].asked => panes[i].socket = None /\ shells[i] = "none" /\ ~panes[i].ended
      /\ panes[i].wired \/ panes[i].socket = "open" => ~panes[i].disposed
      /\ panes[i].ended => shells[i] # "alive" \/ i \in cut
      /\ shells[i] = "alive" /\ i \notin cut \cup closing =>
           \/ panes[i].socket = "open"
           \/ panes[i].socket = "connecting" /\ (panes[i].wired \/ panes[i].closeRequested)
  BY DEF TermInv, Waiting, Retired, Ended, Carried
<1>5. ASSUME ShellOpened(i) PROVE TermInv'
  <2>1. PICK a : a = attach(panes[i])
    OBVIOUS
  <2>2. /\ a \in TerminalSession /\ a.tab = panes[i].tab /\ a.socket = "connecting" /\ a.wired
        /\ a.ended = panes[i].ended /\ a.disposed = panes[i].disposed
    BY <1>1, <2>1, AttachFields
  <2>3. PICK b : b = [a EXCEPT !.asked = FALSE]
    OBVIOUS
  <2>4. /\ b \in TerminalSession /\ b.tab = a.tab /\ ~b.asked /\ b.socket = "connecting" /\ b.wired
        /\ b.ended = a.ended /\ b.disposed = a.disposed
    BY <2>2, <2>3 DEF TerminalSession
  <2>5. PICK s : s = IF b.disposed THEN [close(b) EXCEPT !.wired = FALSE] ELSE b
    OBVIOUS
  <2>6. CASE b.disposed
    <3>1. /\ s \in TerminalSession /\ s.tab = b.tab /\ s.asked = b.asked /\ s.socket = b.socket
          /\ ~s.wired /\ s.closeRequested /\ s.ended = b.ended /\ s.disposed = b.disposed
      <4>1. PICK c : c = close(b)
        OBVIOUS
      <4>2. /\ c \in TerminalSession /\ c.tab = b.tab /\ c.asked = b.asked /\ c.socket = b.socket
            /\ c.closeRequested /\ c.ended = b.ended /\ c.disposed = b.disposed
        BY <2>4, <4>1, CloseFields
      <4> QED  BY <2>5, <2>6, <4>1, <4>2 DEF TerminalSession
    <3>2. /\ panes' = [panes EXCEPT ![i] = s] /\ tabs' = tabs
          /\ shells' = [shells EXCEPT ![i] = "alive"]
          /\ keys' = keys /\ sessions' = sessions /\ closing' = closing /\ cut' = cut
      BY <1>5, <2>1, <2>2, <2>3, <2>4, <2>5, <2>6 DEF ShellOpened, Report
    <3>3. StepsTo(i, s)
      BY <1>1, <1>3, <1>4, <1>5, <2>2, <2>4, <2>6, <3>1, <3>2 DEF StepsTo, ShellOpened
    <3> QED  BY <3>1, <3>3, OnePane
  <2>7. CASE ~b.disposed
    <3>1. /\ panes' = [panes EXCEPT ![i] = b] /\ tabs' = statusPatch(b.tab, "running")
          /\ shells' = [shells EXCEPT ![i] = "alive"]
          /\ keys' = keys /\ sessions' = sessions /\ closing' = closing /\ cut' = cut
      BY <1>5, <2>1, <2>2, <2>3, <2>4, <2>7 DEF ShellOpened, Report
    <3>2. tabs'[b.tab].status = "running"
      BY <1>3, <2>2, <2>4, <2>7, <3>1
    <3>3. StepsTo(i, b)
      BY <1>1, <1>3, <1>4, <1>5, <2>2, <2>4, <2>7, <3>1, <3>2 DEF StepsTo, ShellOpened
    <3> QED  BY <2>4, <3>3, OnePane
  <2> QED  BY <2>6, <2>7
<1>6. ASSUME ShellRefused(i) PROVE TermInv'
  <2>1. PICK s : s = [panes[i] EXCEPT !.asked = FALSE]
    OBVIOUS
  <2>2. /\ s \in TerminalSession /\ s.tab = panes[i].tab /\ ~s.asked /\ s.socket = panes[i].socket
        /\ s.wired = panes[i].wired /\ s.ended = panes[i].ended /\ s.disposed = panes[i].disposed
    BY <1>1, <2>1 DEF TerminalSession
  <2>3. /\ panes' = [panes EXCEPT ![i] = s] /\ panes[i].asked
        /\ tabs' = IF s.disposed THEN tabs ELSE statusPatch(s.tab, "failed")
        /\ keys' = keys /\ sessions' = sessions /\ shells' = shells /\ closing' = closing /\ cut' = cut
    BY <1>6, <2>1, <2>2 DEF ShellRefused, Report
  <2>4. ~s.disposed => tabs'[s.tab].status = "failed"
    BY <1>3, <2>2, <2>3
  <2>5. StepsTo(i, s)
    BY <1>1, <1>3, <1>4, <2>2, <2>3, <2>4 DEF StepsTo
  <2> QED  BY <2>2, <2>5, OnePane
<1>7. ASSUME onOpen(i) PROVE TermInv'
  <2>1. panes[i].socket = "connecting" /\ ~panes[i].asked
    BY <1>4, <1>7 DEF onOpen
  <2>2. /\ closing' = IF panes[i].closeRequested THEN closing \cup {i} ELSE closing
        /\ tabs' = tabs /\ keys' = keys /\ sessions' = sessions /\ shells' = shells /\ cut' = cut
    BY <1>7 DEF onOpen
  <2>3. CASE panes[i].wired
    <3>1. PICK a : a = [panes[i] EXCEPT !.socket = "open"]
      OBVIOUS
    <3>2. /\ a \in TerminalSession /\ a.tab = panes[i].tab /\ a.asked = panes[i].asked /\ a.socket = "open"
          /\ a.ended = panes[i].ended /\ a.disposed = panes[i].disposed
      BY <1>1, <3>1 DEF TerminalSession
    <3>3. PICK s : s = flush(a)
      OBVIOUS
    <3>4. /\ s \in TerminalSession /\ s.tab = panes[i].tab /\ s.asked = panes[i].asked /\ s.socket = "open"
          /\ s.ended = panes[i].ended /\ s.disposed = panes[i].disposed
      BY <3>2, <3>3, FlushFields
    <3>5. panes' = [panes EXCEPT ![i] = s]
      BY <1>7, <2>3, <3>1, <3>3 DEF onOpen
    <3>6. StepsTo(i, s)
      BY <1>1, <1>2, <1>3, <1>4, <2>1, <2>2, <2>3, <3>4, <3>5 DEF StepsTo, Tells
    <3> QED  BY <3>4, <3>6, OnePane
  <2>4. CASE ~panes[i].wired
    <3>1. PICK s : s = [panes[i] EXCEPT !.socket = "closed"]
      OBVIOUS
    <3>2. /\ s \in TerminalSession /\ s.tab = panes[i].tab /\ s.asked = panes[i].asked /\ s.socket = "closed"
          /\ s.wired = panes[i].wired /\ s.ended = panes[i].ended /\ s.disposed = panes[i].disposed
      BY <1>1, <3>1 DEF TerminalSession
    <3>3. panes' = [panes EXCEPT ![i] = s]
      BY <1>7, <2>4, <3>1 DEF onOpen
    <3>4. StepsTo(i, s)
      BY <1>1, <1>2, <1>3, <1>4, <2>1, <2>2, <2>4, <3>2, <3>3 DEF StepsTo, Tells
    <3> QED  BY <3>2, <3>4, OnePane
  <2> QED  BY <2>3, <2>4
<1>8. ASSUME onData(i) \/ typeAutorun(i) PROVE TermInv'
  <2>1. PICK data, s :
          /\ data \in Nat
          /\ panes' = [panes EXCEPT ![i] = s]
          /\ \/ s = [send(panes[i], data) EXCEPT !.typed = panes[i].typed + 1]
             \/ s = [send(panes[i], data) EXCEPT !.autorun = FALSE]
    <3>1. panes[i].typed + 1 \in Nat /\ AUTORUN \in Nat
      BY <1>1 DEF TerminalSession, AUTORUN
    <3>2. CASE onData(i)
      <4>1. PICK s : s = [send(panes[i], panes[i].typed + 1) EXCEPT !.typed = panes[i].typed + 1]
        OBVIOUS
      <4>2. panes' = [panes EXCEPT ![i] = s]
        BY <3>2, <4>1 DEF onData
      <4> QED  BY <3>1, <4>1, <4>2
    <3>3. CASE typeAutorun(i)
      BY <3>1, <3>3 DEF typeAutorun
    <3> QED  BY <1>8, <3>2, <3>3
  <2>2. PICK a : a = send(panes[i], data)
    OBVIOUS
  <2>3. /\ a \in TerminalSession /\ a.tab = panes[i].tab /\ a.asked = panes[i].asked
        /\ a.socket = panes[i].socket /\ a.wired = panes[i].wired
        /\ a.closeRequested = panes[i].closeRequested
        /\ a.ended = panes[i].ended /\ a.disposed = panes[i].disposed
    BY <1>1, <2>1, <2>2, SendFields
  <2>4. panes[i].typed + 1 \in Nat
    BY <1>1 DEF TerminalSession
  <2>5. /\ s \in TerminalSession /\ s.tab = panes[i].tab /\ s.asked = panes[i].asked
        /\ s.socket = panes[i].socket /\ s.wired = panes[i].wired
        /\ s.closeRequested = panes[i].closeRequested
        /\ s.ended = panes[i].ended /\ s.disposed = panes[i].disposed
    BY <2>1, <2>2, <2>3, <2>4 DEF TerminalSession
  <2>6. /\ tabs' = tabs /\ keys' = keys /\ sessions' = sessions /\ shells' = shells
        /\ closing' = closing /\ cut' = cut
    BY <1>8 DEF onData, typeAutorun
  <2>7. StepsTo(i, s)
    BY <1>1, <1>2, <1>3, <1>4, <2>1, <2>5, <2>6 DEF StepsTo, Tells
  <2> QED  BY <2>5, <2>7, OnePane
<1>9. ASSUME onResync(i) PROVE TermInv'
  <2>1. PICK a : a = detach(panes[i])
    OBVIOUS
  <2>2. /\ a \in TerminalSession /\ a.tab = panes[i].tab /\ a.asked = panes[i].asked
        /\ a.ended = panes[i].ended /\ a.disposed = panes[i].disposed
    BY <1>1, <2>1, DetachFields
  <2>3. PICK s : s = attach(a)
    OBVIOUS
  <2>4. /\ s \in TerminalSession /\ s.tab = panes[i].tab /\ s.asked = panes[i].asked
        /\ s.socket = "connecting" /\ s.wired
        /\ s.ended = panes[i].ended /\ s.disposed = panes[i].disposed
    BY <2>2, <2>3, AttachFields
  <2>5. /\ panes' = [panes EXCEPT ![i] = s] /\ panes[i].socket = "open"
        /\ tabs' = tabs /\ keys' = keys /\ sessions' = sessions /\ shells' = shells
        /\ closing' = closing /\ cut' = cut
    BY <1>9, <2>1, <2>3 DEF onResync, resync, listening, isOpen
  <2>6. StepsTo(i, s)
    BY <1>1, <1>2, <1>3, <1>4, <2>4, <2>5 DEF StepsTo, Tells
  <2> QED  BY <2>4, <2>6, OnePane
<1>10. ASSUME lost(i) PROVE TermInv'
  <2>1. PICK s : s = [panes[i] EXCEPT !.socket = "closed", !.ended = @ \/ ~expected(panes[i])]
    OBVIOUS
  <2>2. /\ s \in TerminalSession /\ s.tab = panes[i].tab /\ s.asked = panes[i].asked
        /\ s.socket = "closed" /\ s.wired = panes[i].wired /\ s.disposed = panes[i].disposed
        /\ s.ended = (panes[i].ended \/ ~expected(panes[i]))
    BY <1>1, <2>1 DEF TerminalSession
  <2>3. /\ panes' = [panes EXCEPT ![i] = s] /\ panes[i].socket \in {"connecting", "open"}
        /\ cut' = IF panes[i].ended THEN cut ELSE cut \cup {i}
        /\ keys' = keys /\ sessions' = sessions /\ shells' = shells /\ closing' = closing
    BY <1>10, <2>1 DEF lost
  <2>4. CASE expected(panes[i])
    <3>1. tabs' = tabs /\ (panes[i].ended \/ panes[i].disposed) /\ (s.ended <=> panes[i].ended)
      BY <1>10, <2>2, <2>4 DEF lost, expected
    <3>2. StepsTo(i, s)
      BY <1>1, <1>2, <1>3, <1>4, <2>2, <2>3, <3>1 DEF StepsTo, Tells
    <3> QED  BY <2>2, <3>2, OnePane
  <2>5. CASE ~expected(panes[i])
    <3>1. tabs' = statusPatch(s.tab, "failed") /\ ~panes[i].ended /\ ~panes[i].disposed /\ s.ended
      BY <1>10, <2>2, <2>5 DEF lost, expected, Report
    <3>2. tabs'[s.tab].status = "failed" /\ i \in cut'
      BY <1>3, <2>2, <2>3, <3>1
    <3>3. StepsTo(i, s)
      BY <1>1, <1>3, <1>4, <2>2, <2>3, <3>1, <3>2 DEF StepsTo
    <3> QED  BY <2>2, <3>3, OnePane
  <2> QED  BY <2>4, <2>5
<1>11. ASSUME ShellEnds(i) \/ ReceiveClose(i) PROVE TermInv'
  <2>1. PICK s : s = panes[i]
    OBVIOUS
  <2>2. panes' = [panes EXCEPT ![i] = s]
    BY <1>1, <1>11, <2>1, LenProperties DEF ShellEnds, ReceiveClose, TermInv, TermTypeOK
  <2>3. /\ tabs' = tabs /\ keys' = keys /\ sessions' = sessions /\ cut' = cut
        /\ closing' \in {closing, closing \ {i}}
        /\ shells' \in [Panes -> {"none", "alive", "clean", "broken"}]
        /\ \A j \in Panes \ {i} : shells'[j] = shells[j]
        /\ shells'[i] # "alive" /\ (shells'[i] = shells[i] \/ (shells[i] = "alive" /\ shells'[i] # "none"))
    BY <1>1, <1>3, <1>11 DEF ShellEnds, ReceiveClose
  <2>4. StepsTo(i, s)
    BY <1>1, <1>2, <1>3, <1>4, <2>1, <2>2, <2>3 DEF StepsTo, Tells
  <2> QED  BY <1>1, <2>1, <2>4, OnePane
<1> QED  BY <1>5, <1>6, <1>7, <1>8, <1>9, <1>10, <1>11

(* Choosing another tab changes only which one is in front.                *)
LEMMA StutterKeeps ==
  ASSUME TermInv, UNCHANGED <<tabs, keys, sessions, panes, shells, closing, cut>>
  PROVE  TermInv'
  BY DEF TermInv, TermTypeOK, Registered, Waiting, Retired, Ended, Carried, StatusIsOwn, Tells

-----------------------------------------------------------------------------
(* The theorems.                                                           *)

(* The conjunction above is inductive.                                     *)
THEOREM TermInvariant == TermSpec => []TermInv
<1>1. TermInit => TermInv
  BY InitInv
<1>2. TermInv /\ [TermNext]_termVars => TermInv'
  <2> SUFFICES ASSUME TermInv, [TermNext]_termVars PROVE TermInv'
    OBVIOUS
  <2>1. ASSUME NEW p \in Projects, closeProjectTabs(p) PROVE TermInv'
    BY <2>1, CloseProjectTabsKeeps
  <2>2. ASSUME NEW p \in Projects, NEW autorun \in BOOLEAN, create(p, autorun) PROVE TermInv'
    BY <2>2, CreateKeeps
  <2>3. ASSUME NEW p \in Projects, NEW n \in 2 .. MaxTabs, restore(p, n) PROVE TermInv'
    BY <2>3, RestoreKeeps
  <2>4. ASSUME NEW k \in Keys, selectTab(k) PROVE TermInv'
    BY <2>4, StutterKeeps DEF selectTab
  <2>5. ASSUME NEW k \in Keys, closeTab(k) PROVE TermInv'
    BY <2>5, CloseTabKeeps
  <2>6. ASSUME NEW k \in Keys, restart(k) PROVE TermInv'
    BY <2>6, RestartKeeps
  <2>7. ASSUME NEW i \in DOMAIN panes, onExit(i) PROVE TermInv'
    BY <2>7, ExitKeeps
  <2>8. ASSUME NEW i \in DOMAIN panes,
               \/ ShellOpened(i) \/ ShellRefused(i) \/ onOpen(i) \/ onData(i) \/ typeAutorun(i)
               \/ onResync(i) \/ lost(i) \/ ShellEnds(i) \/ ReceiveClose(i)
        PROVE  TermInv'
    BY <2>8, PaneStep
  <2>9. CASE UNCHANGED termVars
    BY <2>9, StutterKeeps DEF termVars
  <2> QED  BY <2>1, <2>2, <2>3, <2>4, <2>5, <2>6, <2>7, <2>8, <2>9 DEF TermNext
<1> QED  BY <1>1, <1>2, PTL DEF TermSpec

(* The types of the strip, its sessions and its shells.                    *)
THEOREM TermTypeCorrect == TermSpec => []TermTypeOK
<1>1. TermInv => TermTypeOK
  BY DEF TermInv
<1> QED  BY <1>1, TermInvariant, PTL

(* What a tab says is true of the session it shows (report, onSession).    *)
THEOREM StatusAlwaysOwn == TermSpec => []StatusIsOwn
<1>1. TermInv => StatusIsOwn
  BY DEF TermInv
<1> QED  BY <1>1, TermInvariant, PTL

(* A shell that runs, with nothing under way for it and no failed socket,  *)
(* is on the strip behind an open socket (close, dispose, start).          *)
THEOREM NoShellOrphaned == TermSpec => []NoOrphanShell
<1>1. TermInv => NoOrphanShell
  <2> SUFFICES ASSUME TermInv, NEW i \in DOMAIN panes, shells[i] = "alive", settled(i), i \notin cut
               PROVE  /\ tabs[panes[i].tab] # None /\ sessions[panes[i].tab] = i
                      /\ isOpen(panes[i]) /\ ~panes[i].disposed
    BY DEF NoOrphanShell
  <2>1. panes[i].socket = "open"
    BY DEF TermInv, Carried, settled
  <2>2. ~panes[i].disposed
    BY <2>1 DEF TermInv, Retired
  <2> QED  BY <2>1, <2>2 DEF TermInv, Registered, isOpen
<1> QED  BY <1>1, TermInvariant, PTL
=============================================================================
