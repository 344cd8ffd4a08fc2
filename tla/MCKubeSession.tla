---------------------------- MODULE MCKubeSession ----------------------------
(* Objects each of a resource of its own, or all of one.                   *)
EXTENDS KubeSession

CONSTANTS gA, gB

TwoGroups == [o \in Objects |-> IF o = 1 THEN gA ELSE gB]
OneGroup  == [o \in Objects |-> gA]
=============================================================================
