-------------------------- MODULE PtyManager_proofs --------------------------
(***************************************************************************)
(* Proofs about PtyManager, for any number of sessions.                    *)
(***************************************************************************)
EXTENDS PtyManager, TLAPS

(* Types, identifiers below the counter included, in every reachable state.*)
THEOREM TypeCorrect == Spec => []TypeOK
<1>1. Init => TypeOK
  BY DEF Init, TypeOK
<1>2. TypeOK /\ [Next]_vars => TypeOK'
  <2> SUFFICES ASSUME TypeOK, [Next]_vars PROVE TypeOK'
    OBVIOUS
  <2>1. ASSUME NEW s \in Sessions, StartChild(s) PROVE TypeOK'
    BY <2>1 DEF StartChild, TypeOK
  <2>2. ASSUME NEW s \in Sessions, Register(s) PROVE TypeOK'
    <3>1. lastID' \in Nat /\ id' \in [Sessions -> 0 .. lastID']
      BY <2>2 DEF Register, TypeOK
    <3> QED BY <2>2, <3>1 DEF Register, TypeOK
  <2>3. ASSUME NEW s \in Sessions, GoRun(s) PROVE TypeOK'
    BY <2>3 DEF GoRun, TypeOK
  <2>4. ASSUME NEW s \in Sessions, Reap(s) PROVE TypeOK'
    BY <2>4 DEF Reap, TypeOK
  <2>5. ASSUME NEW s \in Sessions, Kill(s) PROVE TypeOK'
    BY <2>5 DEF Kill, TypeOK
  <2>6. ASSUME NEW s \in Sessions, KillReturns(s) PROVE TypeOK'
    BY <2>6 DEF KillReturns, TypeOK
  <2>7. CASE ShutdownBegins
    BY <2>7 DEF ShutdownBegins, TypeOK
  <2>8. CASE ShutdownReturns
    BY <2>8 DEF ShutdownReturns, TypeOK
  <2>9. CASE UNCHANGED vars
    BY <2>9 DEF vars, TypeOK
  <2> QED BY <2>1, <2>2, <2>3, <2>4, <2>5, <2>6, <2>7, <2>8, <2>9 DEF Next
<1> QED BY <1>1, <1>2, PTL DEF Spec

-----------------------------------------------------------------------------
(* Ownership, strengthened: where a session is in Create decides whether   *)
(* it may be registered or killed, and only one caller kills it.           *)

Owned(s) ==
  /\ create[s] = "idle" => child[s] = "none"
  /\ create[s] \in {"idle", "started"} => s \notin registry /\ killing[s] = "none" /\ id[s] = 0
  /\ create[s] \in {"registered", "returned"} => (s \in registry <=> killing[s] = "none")
  /\ killed[s] => killing[s] # "none" /\ child[s] = "reaped"

Batch == \A s \in batch : killing[s] = "Shutdown"

Returned == shutdown = "returned" => \A s \in batch : killed[s]

Ids == \A s, t \in Sessions : (id[s] # 0 /\ id[s] = id[t]) => s = t

Inv == (\A s \in Sessions : Owned(s)) /\ Batch /\ Returned /\ Ids

LEMMA Invariant == Spec => []Inv
<1>1. Init => Inv
  BY DEF Init, Inv, Owned, Batch, Returned, Ids
<1>2. TypeOK /\ Inv /\ [Next]_vars => Inv'
  <2> SUFFICES ASSUME TypeOK, Inv, [Next]_vars PROVE Inv'
    OBVIOUS
  <2> USE DEF Inv
  <2>1. ASSUME NEW s \in Sessions, StartChild(s) PROVE Inv'
    BY <2>1 DEF StartChild, TypeOK, Owned, Batch, Returned, Ids
  <2>2. ASSUME NEW s \in Sessions, Register(s) PROVE Inv'
    <3>1. \A t \in Sessions : Owned(t)'
      BY <2>2 DEF Register, TypeOK, Owned
    <3>2. Batch' /\ Returned'
      BY <2>2 DEF Register, Batch, Returned
    <3>3. Ids'
      <4>1. \A t \in Sessions : id[t] # lastID + 1
        BY DEF TypeOK
      <4>2. \A t \in Sessions : id'[t] = IF t = s THEN lastID + 1 ELSE id[t]
        BY <2>2 DEF Register, TypeOK
      <4> QED BY <4>1, <4>2 DEF Ids
    <3> QED BY <3>1, <3>2, <3>3
  <2>3. ASSUME NEW s \in Sessions, GoRun(s) PROVE Inv'
    BY <2>3 DEF GoRun, TypeOK, Owned, Batch, Returned, Ids
  <2>4. ASSUME NEW s \in Sessions, Reap(s) PROVE Inv'
    BY <2>4 DEF Reap, TypeOK, Owned, Batch, Returned, Ids
  <2>5. ASSUME NEW s \in Sessions, Kill(s) PROVE Inv'
    <3>1. \A t \in Sessions : Owned(t)'
      BY <2>5 DEF Kill, TypeOK, Owned
    <3>2. Batch'
      BY <2>5 DEF Kill, TypeOK, Owned, Batch
    <3>3. Returned' /\ Ids'
      BY <2>5 DEF Kill, Returned, Ids
    <3> QED BY <3>1, <3>2, <3>3
  <2>6. ASSUME NEW s \in Sessions, KillReturns(s) PROVE Inv'
    BY <2>6 DEF KillReturns, TypeOK, Owned, Batch, Returned, Ids
  <2>7. CASE ShutdownBegins
    <3>1. \A t \in Sessions : Owned(t)'
      BY <2>7 DEF ShutdownBegins, TypeOK, Owned
    <3>2. Batch' /\ Returned' /\ Ids'
      BY <2>7 DEF ShutdownBegins, TypeOK, Batch, Returned, Ids
    <3> QED BY <3>1, <3>2
  <2>8. CASE ShutdownReturns
    BY <2>8 DEF ShutdownReturns, TypeOK, Owned, Batch, Returned, Ids
  <2>9. CASE UNCHANGED vars
    BY <2>9 DEF vars, Owned, Batch, Returned, Ids
  <2> QED BY <2>1, <2>2, <2>3, <2>4, <2>5, <2>6, <2>7, <2>8, <2>9 DEF Next
<1> QED BY <1>1, <1>2, TypeCorrect, PTL DEF Spec

(* manager.go's ownership contract, for any number of tabs: a live child   *)
(* always has exactly one owner.                                           *)
THEOREM NobodyForgotten == Spec => []NoneForgotten
<1>1. TypeOK /\ Inv => NoneForgotten
  <2> SUFFICES ASSUME TypeOK, Inv, NEW s \in Sessions, child[s] = "alive"
               PROVE  \/ create[s] = "started" /\ s \notin registry /\ killing[s] = "none"
                      \/ s \in registry /\ killing[s] = "none"
                      \/ s \notin registry /\ killing[s] # "none" /\ ~killed[s]
    BY DEF NoneForgotten
  <2>1. create[s] \in {"idle", "started", "registered", "returned"}
    BY DEF TypeOK
  <2> QED BY <2>1 DEF Inv, Owned
<1> QED BY <1>1, TypeCorrect, Invariant, PTL

(* No identifier is given out twice, however Create calls interleave.      *)
THEOREM IdentifiersUnique == Spec => []IdsUnique
<1>1. Inv => IdsUnique
  BY DEF Inv, Ids, IdsUnique
<1> QED BY <1>1, Invariant, PTL

(* Kill and Shutdown have reaped every child they took when they return.   *)
THEOREM ReturnsAfterReaping == Spec => []ReturnedMeansReaped
<1>1. TypeOK /\ Inv => ReturnedMeansReaped
  BY DEF TypeOK, Inv, Owned, Returned, ReturnedMeansReaped
<1> QED BY <1>1, TypeCorrect, Invariant, PTL
=============================================================================
