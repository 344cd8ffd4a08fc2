------------------------------ MODULE Binding ------------------------------
(***************************************************************************)
(* What a path of a checkout resolves to: the bindings projects.yaml keeps *)
(* (internal/project/binding.go), and what the window makes of them        *)
(* (frontend lib/kube.ts, lib/pipeline.ts).  The frontend never resolves a *)
(* path itself; it asks for Resolve's answer.                              *)
(***************************************************************************)
EXTENDS Naturals, Sequences, FiniteSets, SequencesExt, Window

CONSTANTS
  Folders,    \* the folders of a checkout, ROOT among them
  Chain,      \* Chain[f]: f and the folders above it but ROOT, outermost first
  Contexts,   \* the contexts of the kubeconfig
  Namespaces, \* the namespaces of the clusters
  Unset,      \* an empty field: inherit, or not bound
  Forms,      \* the overrides a form is filled in with, or a file edited to
  Stored      \* Stored[p]: the bindings projects.yaml starts with

Scope == [context : Contexts \cup {Unset}, namespace : Namespaces \cup {Unset}, protected : BOOLEAN]

Kube == [context : Contexts \cup {Unset}, namespace : Namespaces \cup {Unset}, protected : BOOLEAN,
         scopes : [Folders -> Scope \cup {None}]]

ASSUME BindingAssumption ==
  /\ ROOT \in Folders /\ Chain \in [Folders -> Seq(Folders)] /\ Chain[ROOT] = <<>>
  /\ Unset \notin Contexts \cup Namespaces
  /\ Forms \subseteq Scope /\ Stored \in [Projects -> Kube]

UNBOUND == [context |-> Unset, namespace |-> Unset, protected |-> FALSE, scope |-> ROOT]

(* The override of a folder replaces the fields it sets; protection is a   *)
(* ratchet.                                                                *)
applyScope(k, b, f) ==
  LET s == k.scopes[f] IN
  [context   |-> IF s.context = Unset THEN b.context ELSE s.context,
   namespace |-> IF s.namespace = Unset THEN b.namespace ELSE s.namespace,
   protected |-> b.protected \/ s.protected,
   scope     |-> f]

Resolve(k, rel) ==
  FoldLeft(LAMBDA b, f : applyScope(k, b, f),
           [context |-> k.context, namespace |-> k.namespace, protected |-> k.protected, scope |-> ROOT],
           SelectSeq(Chain[rel], LAMBDA f : k.scopes[f] # None))

isBound(b) == b.context # Unset /\ b.namespace # Unset

hasBinding(k) == k.context # Unset \/ \E f \in Folders : k.scopes[f] # None

overrideAt(k, f) == k.scopes[f]

inheriting == [context |-> Unset, namespace |-> Unset, protected |-> FALSE]

overridesNothing(s) == s = inheriting

(* What one control of the panel makes of the project's own binding; a     *)
(* context brings its namespace along where there is none to lose.         *)
withKube(k) ==
  {[k EXCEPT !.context = cn[1], !.namespace = IF @ = Unset THEN cn[2] ELSE @] :
     cn \in (Contexts \cup {Unset}) \X (Namespaces \cup {Unset})}
  \cup {[k EXCEPT !.namespace = n] : n \in Namespaces \cup {Unset}}
  \cup {[k EXCEPT !.protected = ~@]}

(* What one field of the selection makes of a folder's override.           *)
withField(own) ==
  {[own EXCEPT !.context = c] : c \in Contexts \cup {Unset}}
  \cup {[own EXCEPT !.namespace = n] : n \in Namespaces \cup {Unset}}
=============================================================================
