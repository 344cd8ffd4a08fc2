---------------------------- MODULE MCEditorTabs ----------------------------
(* Two files of different directories: one that is edited and that other   *)
(* programs change, and one to open, restore and close beside it.  A       *)
(* restore of the second, and that it cannot be read, are explored while   *)
(* no other program changes the first.  A second change by another program *)
(* puts back what the file first held while a conflict is on show, with no *)
(* tab but that file's.                                                    *)
EXTENDS EditorTabs

CONSTANTS a, b, t0, t1, t2

TypedInShared == [f \in Files |-> IF f = a THEN {t1, t2} ELSE {}]

TypedByNobodyElse == [f \in Files |-> {t2}]

OwnDir == [f \in Files |-> f]

Reverted ==
  /\ disk'[a] = t0
  /\ \E k \in Open : tab[k].baseline = t0 /\ tab[k].conflict # None

NextOfCase ==
  /\ Next
  /\ (disk[b] = None \/ restore'.todo # <<>>) => writes' = 0
  /\ writes' # writes => IF writes = 0 THEN disk'[a] # t0 ELSE Reverted
  /\ writes' = 2 => keys' = 1

SpecOfCases == Init /\ [][NextOfCase]_vars
=============================================================================
