--------------------------- MODULE MCClusterPanel ---------------------------
(* A bound project and one that is not, each with one folder below its     *)
(* root; the form and the edits by hand protect the folder.                *)
EXTENDS ClusterPanel

CONSTANTS p, q, d, c, x, n

AboveFolder == [f \in Folders |-> IF f = ROOT THEN <<>> ELSE <<f>>]

Unbound == [context |-> Unset, namespace |-> Unset, protected |-> FALSE, scopes |-> [f \in Folders |-> None]]

OneBound ==
  [r \in Projects |-> IF r = p THEN [Unbound EXCEPT !.context = c, !.namespace = n] ELSE Unbound]

(* The other one has a protected folder only.                              *)
BothBound ==
  [OneBound EXCEPT ![q].namespace = n,
                   ![q].scopes[d] = [context |-> c, namespace |-> Unset, protected |-> TRUE]]

Guarded == {[context |-> x, namespace |-> Unset, protected |-> TRUE]}
=============================================================================
