------------------------- MODULE KubeSession_proofs -------------------------
(***************************************************************************)
(* Proofs about KubeSession, for any objects, groups, edits and changes.   *)
(***************************************************************************)
EXTENDS KubeSession, TLAPS

(* A plan nobody has been asked to review is what the checkout declares,   *)
(* however edits, file events, the one-place replan channel and the reading*)
(* of the checkout interleave.                                             *)
THEOREM EditsAlwaysKnown == Spec => []NoEditForgotten
<1>1. Init => NoEditForgotten
  BY DEF Init, NoEditForgotten
<1>2. NoEditForgotten /\ [Next]_vars => NoEditForgotten'
  <2> SUFFICES ASSUME NoEditForgotten, [Next]_vars PROVE NoEditForgotten'
    OBVIOUS
  <2> USE DEF NoEditForgotten, worldVars, runVars, viewVars
  <2>1. CASE Edit
    BY <2>1 DEF Edit
  <2>2. CASE Refresh
    BY <2>2 DEF Refresh
  <2>3. CASE Settles
    BY <2>3 DEF Settles
  <2>4. CASE Stop
    BY <2>4 DEF Stop
  <2>5. CASE Wake
    BY <2>5 DEF Wake
  <2>6. CASE Declare
    BY <2>6 DEF Declare, CycleFails
  <2>7. CASE Connect
    BY <2>7 DEF Connect, CycleFails
  <2>8. CASE FollowFails
    BY <2>8 DEF FollowFails
  <2>9. CASE FollowReplanned
    BY <2>9 DEF FollowReplanned, Superseded
  <2>10. CASE FollowCanceled
    BY <2>10 DEF FollowCanceled
  <2>11. CASE WindUp
    BY <2>11 DEF WindUp, CycleFails, CycleRebuilds
  <2>12. CASE Unpark
    BY <2>12 DEF Unpark, CycleRebuilds
  <2>13. CASE Announce
    BY <2>13 DEF Announce
  <2>14. CASE Rested
    BY <2>14 DEF Rested
  <2>15. CASE AnnouncerEnds
    BY <2>15 DEF AnnouncerEnds
  <2>16. ASSUME NEW o \in Objects, NEW h \in {"NotFound", "Current"}, ClusterChanges(o, h)
       PROVE  NoEditForgotten'
    BY <2>16 DEF ClusterChanges
  <2>17. ASSUME NEW g \in Groups, List(g) PROVE NoEditForgotten'
    BY <2>17 DEF List
  <2>18. ASSUME NEW g \in Groups, Deliver(g) PROVE NoEditForgotten'
    BY <2>18 DEF Deliver
  <2>19. ASSUME NEW g \in Groups, WatchFails(g) PROVE NoEditForgotten'
    BY <2>19 DEF WatchFails
  <2>20. ASSUME NEW g \in Groups, PumpCanceled(g) PROVE NoEditForgotten'
    BY <2>20 DEF PumpCanceled
  <2>21. CASE UNCHANGED vars
    BY <2>21 DEF vars
  <2> QED
    BY <2>1, <2>2, <2>3, <2>4, <2>5, <2>6, <2>7, <2>8, <2>9, <2>10, <2>11,
       <2>12, <2>13, <2>14, <2>15, <2>16, <2>17, <2>18, <2>19, <2>20, <2>21
    DEF Next, RunStep, AnnouncerStep, PumpStep
<1> QED BY <1>1, <1>2, PTL DEF Spec

-----------------------------------------------------------------------------
(* VerdictBelongsToRow, strengthened: a pump that may still mark rows has  *)
(* the numbers the rows have, and there is none before a plan is followed. *)

RowsShape ==
  \A i \in DOMAIN rows :
    rows[i] \in [obj : {rows[i].obj}, health : {rows[i].health}, of : {rows[i].of}]

PumpsShape ==
  /\ pumps = [g \in Groups |-> pumps[g]]
  /\ \A g \in Groups :
       pumps[g] \in [at : {pumps[g].at}, version : {pumps[g].version}, names : {pumps[g].names}]

Agrees(names) == \A n \in names : n[2] \in DOMAIN rows => n[1] = rows[n[2]].obj

PumpsAgree == \A g \in Groups : pumps[g].at \in Running => Agrees(pumps[g].names)

NoPumpBetween == at \notin {"follow", "wind"} => \A g \in Groups : pumps[g].at \notin Running

RowInv == RowsShape /\ PumpsShape /\ PumpsAgree /\ NoPumpBetween /\ VerdictBelongsToRow

(* mark keeps every row, and gives it a verdict on its own object.         *)
LEMMA MarkKeepsRows ==
  ASSUME NEW names, NEW health, RowsShape, VerdictBelongsToRow, Agrees(names), MarkRows(names, health)
  PROVE  /\ RowsShape' /\ VerdictBelongsToRow'
         /\ DOMAIN rows' = DOMAIN rows /\ \A i \in DOMAIN rows : rows'[i].obj = rows[i].obj
<1> DEFINE verdict(i) == CHOOSE n \in names : n[2] = i
           touched    == {n[2] : n \in names} \cap DOMAIN rows
           marked(i)  == [rows[i] EXCEPT !.health = health[verdict(i)[1]], !.of = verdict(i)[1]]
<1>1. rows' = [i \in DOMAIN rows |-> IF i \in touched THEN marked(i) ELSE rows[i]]
  BY DEF MarkRows
<1>2. \A i \in touched : verdict(i)[1] = rows[i].obj
  BY DEF Agrees
<1>3. \A i \in touched : marked(i) \in [obj : {rows[i].obj}, health : {health[verdict(i)[1]]}, of : {verdict(i)[1]}]
  BY DEF RowsShape
<1> HIDE DEF verdict, touched, marked
<1>4. ASSUME NEW i \in DOMAIN rows
      PROVE  /\ rows'[i] \in [obj : {rows'[i].obj}, health : {rows'[i].health}, of : {rows'[i].of}]
             /\ rows'[i].obj = rows[i].obj /\ rows'[i].of = rows[i].obj
  <2>1. CASE i \in touched
    BY <1>1, <1>2, <1>3, <2>1
  <2>2. CASE i \notin touched
    BY <1>1, <2>2 DEF RowsShape, VerdictBelongsToRow
  <2> QED BY <2>1, <2>2
<1> QED BY <1>1, <1>4 DEF RowsShape, VerdictBelongsToRow

(* plan gives rows and pumps the same numbers, whichever kinds the cluster *)
(* does not serve.                                                         *)
LEMMA PlanAgrees ==
  ASSUME NEW served, rows' = PlanRows(served), pumps' = [g \in Groups |-> PlanPump(g, served)]
  PROVE  RowsShape' /\ PumpsShape' /\ PumpsAgree' /\ VerdictBelongsToRow'
<1>1. rows' = [i \in DOMAIN declared |-> Row(declared[i], served)]
  BY DEF PlanRows
<1>2. \A g \in Groups : \/ pumps'[g] = Stopped
                        \/ /\ pumps'[g] \in [at : {"list"}, version : {0}, names : {pumps'[g].names}]
                           /\ \A n \in pumps'[g].names : n[2] \in DOMAIN declared /\ n[1] = declared[n[2]]
  BY DEF PlanPump
<1>3. pumps' = [g \in Groups |-> pumps'[g]]
  OBVIOUS
<1>4. \A i \in DOMAIN declared : rows'[i] \in [obj : {declared[i]}, health : {rows'[i].health}, of : {declared[i]}]
  BY <1>1 DEF Row
<1>5. DOMAIN rows' = DOMAIN declared
  BY <1>1
<1>6. RowsShape' /\ VerdictBelongsToRow'
  BY <1>4, <1>5 DEF RowsShape, VerdictBelongsToRow
<1>7. PumpsShape'
  BY <1>2, <1>3 DEF PumpsShape, Stopped
<1>8. PumpsAgree'
  BY <1>2, <1>4, <1>5 DEF PumpsAgree, Agrees, Stopped, Running
<1> QED BY <1>6, <1>7, <1>8

(* What a pump does to itself leaves the others, and its names, alone.     *)
LEMMA PumpSteps ==
  ASSUME NEW g \in Groups, NEW a, NEW v, PumpsShape,
         \/ pumps' = [pumps EXCEPT ![g].at = a]
         \/ pumps' = [pumps EXCEPT ![g].version = v]
         \/ pumps' = [pumps EXCEPT ![g].at = a, ![g].version = v]
  PROVE  /\ PumpsShape'
         /\ \A h \in Groups : pumps'[h].names = pumps[h].names /\ (h # g => pumps'[h].at = pumps[h].at)
         /\ pumps'[g].at \in {a, pumps[g].at}
BY DEF PumpsShape

(* A running pump may move on and mark rows it answers for.                *)
LEMMA PumpMarks ==
  ASSUME NEW g \in Groups, RowInv, UNCHANGED at, pumps[g].at \in Running,
         \E a, v : \/ pumps' = [pumps EXCEPT ![g].at = a]
                  \/ pumps' = [pumps EXCEPT ![g].version = v]
                  \/ pumps' = [pumps EXCEPT ![g].at = a, ![g].version = v],
         UNCHANGED rows \/ \E names \in SUBSET pumps[g].names : \E health : MarkRows(names, health)
  PROVE  RowInv'
<1>1. /\ PumpsShape'
      /\ \A h \in Groups : pumps'[h].names = pumps[h].names /\ (h # g => pumps'[h].at = pumps[h].at)
  BY PumpSteps DEF RowInv
<1>2. Agrees(pumps[g].names)
  BY DEF RowInv, PumpsAgree
<1>3. /\ RowsShape' /\ VerdictBelongsToRow'
      /\ DOMAIN rows' = DOMAIN rows /\ \A i \in DOMAIN rows : rows'[i].obj = rows[i].obj
  <2>1. CASE UNCHANGED rows
    BY <2>1 DEF RowInv, RowsShape, VerdictBelongsToRow
  <2>2. ASSUME NEW names \in SUBSET pumps[g].names, NEW health, MarkRows(names, health)
        PROVE  /\ RowsShape' /\ VerdictBelongsToRow'
               /\ DOMAIN rows' = DOMAIN rows /\ \A i \in DOMAIN rows : rows'[i].obj = rows[i].obj
    <3>1. Agrees(names)
      BY <1>2 DEF Agrees
    <3> QED BY <2>2, <3>1, MarkKeepsRows DEF RowInv
  <2> QED BY <2>1, <2>2
<1>4. PumpsAgree'
  <2> SUFFICES ASSUME NEW h \in Groups, pumps'[h].at \in Running PROVE Agrees(pumps[h].names)'
    BY DEF PumpsAgree
  <2>1. Agrees(pumps[h].names)
    BY <1>1, <1>2 DEF RowInv, PumpsAgree
  <2> QED BY <1>1, <1>3, <2>1 DEF Agrees
<1>5. NoPumpBetween'
  BY DEF RowInv, NoPumpBetween
<1> QED BY <1>1, <1>3, <1>4, <1>5 DEF RowInv

LEMMA RowInvariant == Spec => []RowInv
<1>1. Init => RowInv
  BY DEF Init, RowInv, RowsShape, PumpsShape, PumpsAgree, NoPumpBetween, VerdictBelongsToRow, Stopped, Running
<1>2. RowInv /\ [Next]_vars => RowInv'
  <2> SUFFICES ASSUME RowInv, [Next]_vars PROVE RowInv'
    OBVIOUS
  <2> USE DEF RowInv, worldVars, runVars, viewVars
  <2>1. CASE Edit
    BY <2>1 DEF Edit, RowsShape, PumpsShape, PumpsAgree, Agrees, NoPumpBetween, VerdictBelongsToRow
  <2>2. CASE Refresh
    BY <2>2 DEF Refresh, RowsShape, PumpsShape, PumpsAgree, Agrees, NoPumpBetween, VerdictBelongsToRow
  <2>3. CASE Settles
    BY <2>3 DEF Settles, RowsShape, PumpsShape, PumpsAgree, Agrees, NoPumpBetween, VerdictBelongsToRow
  <2>4. CASE Stop
    BY <2>4 DEF Stop, RowsShape, PumpsShape, PumpsAgree, Agrees, NoPumpBetween, VerdictBelongsToRow
  <2>5. CASE Wake
    BY <2>5 DEF Wake, RowsShape, PumpsShape, PumpsAgree, Agrees, NoPumpBetween, VerdictBelongsToRow
  <2>6. CASE Declare
    BY <2>6 DEF Declare, CycleFails, RowsShape, PumpsShape, PumpsAgree, Agrees, NoPumpBetween, VerdictBelongsToRow
  <2>7. CASE Connect
    <3>1. CASE UNCHANGED <<rows, pumps>>
      BY <2>7, <3>1 DEF Connect, CycleFails, RowsShape, PumpsShape, PumpsAgree, Agrees, NoPumpBetween, VerdictBelongsToRow
    <3>2. ASSUME NEW served, rows' = PlanRows(served), pumps' = [g \in Groups |-> PlanPump(g, served)],
                 at' = "follow"
          PROVE  RowInv'
      BY <3>2, PlanAgrees DEF NoPumpBetween
    <3> QED BY <2>7, <3>1, <3>2 DEF Connect
  <2>8. CASE FollowFails
    BY <2>8 DEF FollowFails, RowsShape, PumpsShape, PumpsAgree, Agrees, NoPumpBetween, VerdictBelongsToRow
  <2>9. CASE FollowReplanned
    BY <2>9 DEF FollowReplanned, RowsShape, PumpsShape, PumpsAgree, Agrees, NoPumpBetween, VerdictBelongsToRow
  <2>10. CASE FollowCanceled
    BY <2>10 DEF FollowCanceled, RowsShape, PumpsShape, PumpsAgree, Agrees, NoPumpBetween, VerdictBelongsToRow
  <2>11. CASE WindUp
    <3>1. PumpsShape' /\ \A g \in Groups : pumps'[g].at \notin Running
      BY <2>11 DEF WindUp, PumpsShape, Stopped, Running
    <3> QED BY <2>11, <3>1 DEF WindUp, RowsShape, PumpsAgree, Agrees, NoPumpBetween, VerdictBelongsToRow
  <2>12. CASE Unpark
    BY <2>12 DEF Unpark, CycleRebuilds, RowsShape, PumpsShape, PumpsAgree, Agrees, NoPumpBetween, VerdictBelongsToRow
  <2>13. CASE Announce
    BY <2>13 DEF Announce, RowsShape, PumpsShape, PumpsAgree, Agrees, NoPumpBetween, VerdictBelongsToRow
  <2>14. CASE Rested
    BY <2>14 DEF Rested, RowsShape, PumpsShape, PumpsAgree, Agrees, NoPumpBetween, VerdictBelongsToRow
  <2>15. CASE AnnouncerEnds
    BY <2>15 DEF AnnouncerEnds, RowsShape, PumpsShape, PumpsAgree, Agrees, NoPumpBetween, VerdictBelongsToRow
  <2>16. ASSUME NEW o \in Objects, NEW h \in {"NotFound", "Current"}, ClusterChanges(o, h)
       PROVE  RowInv'
    BY <2>16 DEF ClusterChanges, RowsShape, PumpsShape, PumpsAgree, Agrees, NoPumpBetween, VerdictBelongsToRow
  <2>17. ASSUME NEW g \in Groups, List(g) PROVE RowInv'
    <3>1. UNCHANGED at /\ pumps[g].at = "list"
      BY <2>17 DEF List
    <3>2. \/ \E a \in {"failed", "parked"} : pumps' = [pumps EXCEPT ![g].at = a]
          \/ pumps' = [pumps EXCEPT ![g].at = "follow", ![g].version = Len(log)]
      BY <2>17 DEF List
    <3>3. UNCHANGED rows \/ \E health : MarkRows(pumps[g].names, health)
      BY <2>17 DEF List
    <3> QED BY <3>1, <3>2, <3>3, PumpMarks DEF Running
  <2>18. ASSUME NEW g \in Groups, Deliver(g) PROVE RowInv'
    <3>1. UNCHANGED at /\ pumps[g].at = "follow" /\ \E v : pumps' = [pumps EXCEPT ![g].version = v]
      BY <2>18 DEF Deliver
    <3>2. \E names \in SUBSET pumps[g].names : \E health : MarkRows(names, health)
      BY <2>18 DEF Deliver
    <3> QED BY <3>1, <3>2, PumpMarks DEF Running
  <2>19. ASSUME NEW g \in Groups, WatchFails(g) PROVE RowInv'
    <3>1. UNCHANGED <<at, rows>> /\ pumps[g].at = "follow" /\ pumps' = [pumps EXCEPT ![g].at = "failed"]
      BY <2>19 DEF WatchFails
    <3> QED BY <3>1, PumpMarks DEF Running
  <2>20. ASSUME NEW g \in Groups, PumpCanceled(g) PROVE RowInv'
    <3>1. UNCHANGED <<at, rows>> /\ pumps[g].at \in Running /\ pumps' = [pumps EXCEPT ![g].at = "failed"]
      BY <2>20 DEF PumpCanceled
    <3> QED BY <3>1, PumpMarks
  <2>21. CASE UNCHANGED vars
    BY <2>21 DEF vars, RowsShape, PumpsShape, PumpsAgree, Agrees, NoPumpBetween, VerdictBelongsToRow
  <2> QED
    BY <2>1, <2>2, <2>3, <2>4, <2>5, <2>6, <2>7, <2>8, <2>9, <2>10, <2>11,
       <2>12, <2>13, <2>14, <2>15, <2>16, <2>17, <2>18, <2>19, <2>20, <2>21
    DEF Next, RunStep, AnnouncerStep, PumpStep
<1> QED BY <1>1, <1>2, PTL DEF Spec

(* Rows are marked by number, and the numbers never mean another object.   *)
THEOREM VerdictsAlwaysOwn == Spec => []VerdictBelongsToRow
BY RowInvariant, PTL DEF RowInv
=============================================================================
